------------------------- MODULE BaselineRefinement -------------------------
(* Baseline implements BatchStore: the mapping.                            *)
EXTENDS BaselineInvariants

(* The item of w's batch that request r is.                                *)
ItemOf(w, r) == r.timestamp - batch[w][1].timestamp + 1

(* What server s has left to do of the call of w, and what it has done.    *)
Left(w, s) ==
  LET j == job[w][s]
  IN {j.requests[i] : i \in (Len(j.responses) + 1) .. Len(j.requests)}

Found(w, s) ==
  LET j == job[w][s]
  IN {j.requests[i] : i \in {n \in DOMAIN j.responses : j.responses[n]}}

(* The servers whose answer w may still get, or has.                       *)
Answering(w) == {s \in Servers : call[w][s] \in {"pending", "replied"}}

Items(w) == 1 .. Len(batch[w])

absStored == UNION {mp[s] : s \in Servers}

absRound ==
  [w \in Workers |-> [i \in Items(w) |-> [key |-> batch[w][i].key, isRead |-> batch[w][i].isRead]]]

absTodo == [w \in Workers |-> {ItemOf(w, r) : r \in UNION {Left(w, s) : s \in Answering(w)}}]

absGot == [w \in Workers |-> {ItemOf(w, r) : r \in UNION {Found(w, s) : s \in Answering(w)}}]

absLost ==
  [w \in Workers |-> {i \in Items(w) : call[w][getServerIdx(batch[w][i].key)] = "failed"}]

absLoose ==
  [w \in Workers |->
     {r.key : r \in {q \in UNION {Left(w, s) : s \in Servers \ Answering(w)} : ~q.isRead}}]

Abstract ==
  INSTANCE BatchStore
    WITH stored <- absStored, round <- absRound, todo <- absTodo, got <- absGot,
         lost <- absLost, loose <- absLoose, counted <- opsCompleted

(* Every behaviour of the baseline is one of the abstract store: whatever  *)
(* the goroutines of the workers and of the requests do, each operation of *)
(* a batch takes effect at one instant of its round, operations of one key *)
(* in the order they were drawn, and what is counted is what was answered  *)
(* (client/main.go:103-142, server/main.go:71-101).                        *)
ImplementsBatchStore == Abstract!Spec
=============================================================================
