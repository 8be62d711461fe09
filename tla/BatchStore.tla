----------------------------- MODULE BatchStore -----------------------------
(***************************************************************************)
(* What the TCP baseline promises its workers: each operation of a batch   *)
(* takes effect on its key at one instant between the sending of the batch *)
(* and the end of the round, operations of one key in the order in which   *)
(* they were drawn.  Part of a batch may be lost: it is not counted, and   *)
(* what it has still to write may be written later or never.  Servers,     *)
(* connections, timestamps and goroutines do not appear here.              *)
(***************************************************************************)
EXTENDS Integers, Sequences, FiniteSets

CONSTANTS Workers, Keys

VARIABLES
  stored, \* the keys that have been written; there is one value
  round,  \* round[w]: the operations of the batch, <<>> between rounds
  todo,   \* todo[w]: the items yet to take effect
  got,    \* got[w]: the items whose read found a value
  lost,   \* lost[w]: the items of the batch whose answer will not come
  loose,  \* loose[w]: the keys that lost items may still write
  counted \* counted[w]: opsCompleted

vars == <<stored, round, todo, got, lost, loose, counted>>

Op == [key : Keys, isRead : BOOLEAN]

Init ==
  /\ stored = {}
  /\ round = [w \in Workers |-> <<>>]
  /\ todo = [w \in Workers |-> {}]
  /\ got = [w \in Workers |-> {}]
  /\ lost = [w \in Workers |-> {}]
  /\ loose = [w \in Workers |-> {}]
  /\ counted = [w \in Workers |-> 0]

(* A batch, round' tells which, is sent; part of it may be lost at once.   *)
Begin(w) ==
  LET ops == round'[w]
  IN /\ round[w] = <<>>
     /\ ops \in Seq(Op) \ {<<>>}
     /\ round' = [round EXCEPT ![w] = ops]
     /\ \E gone \in SUBSET (1 .. Len(ops)) :
          /\ lost' = [lost EXCEPT ![w] = gone]
          /\ todo' = [todo EXCEPT ![w] = (1 .. Len(ops)) \ gone]
     /\ UNCHANGED <<stored, got, loose, counted>>

FirstOfKey(w, i) ==
  \A j \in todo[w] : j < i => round[w][j].key # round[w][i].key

Effect(w, i) ==
  /\ i \in todo[w] /\ FirstOfKey(w, i)
  /\ todo' = [todo EXCEPT ![w] = @ \ {i}]
  /\ LET k == round[w][i].key
     IN IF round[w][i].isRead
        THEN /\ got' = [got EXCEPT ![w] = IF k \in stored THEN @ \cup {i} ELSE @]
             /\ UNCHANGED stored
        ELSE /\ stored' = stored \cup {k}
             /\ UNCHANGED got
  /\ UNCHANGED <<round, lost, loose, counted>>

(* The answers for some items will not come; some may be written late.     *)
LosePart(w, gone) ==
  /\ gone \subseteq 1 .. Len(round[w])
  /\ lost' = [lost EXCEPT ![w] = @ \cup gone]
  /\ todo' = [todo EXCEPT ![w] = @ \ gone]
  /\ got' = [got EXCEPT ![w] = @ \ gone]
  /\ \E late \in SUBSET {i \in gone \cap todo[w] : ~round[w][i].isRead} :
       loose' = [loose EXCEPT ![w] = @ \cup {round[w][i].key : i \in late}]
  /\ UNCHANGED <<stored, round, counted>>

LateWrite(w) ==
  /\ \E k \in loose[w] :
       /\ stored' = stored \cup {k}
       /\ loose' \in {loose, [loose EXCEPT ![w] = @ \ {k}]}
  /\ UNCHANGED <<round, todo, got, lost, counted>>

End(w) ==
  /\ round[w] # <<>> /\ todo[w] = {}
  /\ counted' = [counted EXCEPT ![w] = @ + Len(round[w]) - Cardinality(lost[w])]
  /\ round' = [round EXCEPT ![w] = <<>>]
  /\ got' = [got EXCEPT ![w] = {}]
  /\ lost' = [lost EXCEPT ![w] = {}]
  /\ UNCHANGED <<stored, todo, loose>>

Next ==
  \E w \in Workers :
    \/ Begin(w) \/ LateWrite(w) \/ End(w)
    \/ \E i \in 1 .. Len(round[w]) : Effect(w, i)
    \/ \E gone \in SUBSET (1 .. Len(round[w])) : LosePart(w, gone)

Spec == Init /\ [][Next]_vars
=============================================================================
