----------------------------- MODULE MCBaseline -----------------------------
(* Instances of Baseline for TLC.                                          *)
EXTENDS BaselineRefinement

(* Keys are numbers here, and their hashes deal them out to the servers.   *)
MCHash == [k \in Keys |-> k]

(* Reads and writes of one key, writes of another.                         *)
MCOps == {[key |-> k, isRead |-> b] : k \in Keys, b \in BOOLEAN} \ {[key |-> 1, isRead |-> TRUE]}

(* A report reads the counters alone and a broken connection changes none: *)
(* behaviours with reports and behaviours with breaks are explored apart.  *)
Reports == \E s \in Servers : snap[s] # None \/ prevStats[s] # Zeros
Breaks == \E w \in Workers : broken[w] # {}
ApartNext == Next /\ ~(Reports /\ Breaks)'
ApartSpec == Init /\ [][ApartNext]_vars /\ Fairness
=============================================================================
