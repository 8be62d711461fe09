--------------------------- MODULE KvLedgerProofs ---------------------------
(* A call that returns nil leaves nothing behind: the proof of Ledger, for *)
(* every value of the constants.                                           *)
EXTENDS KvClientProofs, FunctionTheorems

USE ServersAssumption, KeysAssumption, DepthAssumption

LEMMA SomeIds ==
  ASSUME NEW P \in SUBSET Ids
  PROVE  /\ IsFiniteSet(P) /\ Cardinality(P) \in Nat
         /\ P = {} <=> Cardinality(P) = 0
<1>1. MaxBatch + 1 \in Nat OBVIOUS
<1>2. IsFiniteSet(P) /\ Cardinality(P) \in Nat
  BY <1>1, InOrderType DEF Ids
<1> QED BY <1>2, FS_EmptySet

LEMMA PendingType ==
  ASSUME NEW cl PROVE Pending(cl) \in SUBSET Ids /\ Pending(cl)' \in SUBSET Ids
BY DEF Pending

(* With nothing pending a queue that ends with a signaled WR is empty.     *)
LEMMA NothingPending ==
  ASSUME TypeOK', NEW cl \in Clients, TailSignaled(cl)', AllCount(cl)', Pending(cl)' = {}
  PROVE  EmptyQueues(cl)'
<1> SUFFICES ASSUME NEW s \in Servers, wq'[cl][s] # <<>> PROVE FALSE
  BY DEF EmptyQueues
<1>1. wq'[cl][s] \in Seq(WorkRequest)
  BY DEF TypeOK
<1>2. Len(wq'[cl][s]) \in DOMAIN wq'[cl][s]
  BY <1>1
<1>3. wq'[cl][s][Len(wq'[cl][s])].sig /\ wq'[cl][s][Len(wq'[cl][s])].id \in Ids
  BY <1>2 DEF TailSignaled, AllCount
<1> QED BY <1>2, <1>3 DEF Pending

(* The step of another client.                                             *)
LEMMA LedgerKept ==
  ASSUME NEW d \in Clients, ClientLedger(d), wq'[d] = wq[d], phase'[d] = phase[d],
         call'[d] = call[d], completed'[d] = completed[d], abandoned'[d] = abandoned[d]
  PROVE  ClientLedger(d)'
<1>1. EmptyQueues(d) => EmptyQueues(d)'
  BY DEF EmptyQueues
<1>2. Pending(d)' = Pending(d)
  BY DEF Pending
<1>3. Balanced(d) => Balanced(d)'
  BY <1>2 DEF Balanced, AllCount, IdsDiffer, TailSignaled, ReportedInOrder
<1> QED BY <1>1, <1>3 DEF ClientLedger

(* A call that returns an error leaves nothing behind or is abandoned.     *)
LEMMA ErrorLedger ==
  ASSUME TypeOK, NEW cl \in Clients, NEW c, Return(cl, c, ErrRet)
  PROVE  ClientLedger(cl)'
<1>1. phase'[cl] = "idle"
  BY DEF Return, TypeOK
<1>2. ~abandoned'[cl] => \A s \in Servers : wq'[cl][s] = <<>>
  BY DEF Return, TypeOK
<1> QED BY <1>1, <1>2 DEF ClientLedger, EmptyQueues

(* A step of the NIC marks one WR.                                         *)
Rewrites(cl, s, i, w) == wq' = [wq EXCEPT ![cl][s][i] = w]

LEMMA MarkOne ==
  ASSUME TypeOK, TypeOK', NEW cl \in Clients, NEW s \in Servers,
         NEW i \in DOMAIN wq[cl][s], NEW w \in WorkRequest,
         Rewrites(cl, s, i, w)
  PROVE  \A t \in Servers :
           /\ DOMAIN wq'[cl][t] = DOMAIN wq[cl][t] /\ Len(wq'[cl][t]) = Len(wq[cl][t])
           /\ \A j \in DOMAIN wq[cl][t] :
                wq'[cl][t][j] = IF t = s /\ j = i THEN w ELSE wq[cl][t][j]
<1>1. \A t \in Servers : wq[cl][t] \in Seq(WorkRequest) /\ wq'[cl][t] \in Seq(WorkRequest)
  BY DEF TypeOK
<1>2. \A t \in Servers :
        wq'[cl][t] = IF t = s THEN [wq[cl][s] EXCEPT ![i] = w] ELSE wq[cl][t]
  BY DEF TypeOK, Rewrites
<1>3. \A t \in Servers : DOMAIN wq'[cl][t] = DOMAIN wq[cl][t]
  BY <1>2
<1> QED BY <1>1, <1>2, <1>3

(* It changes no id and no flag.                                           *)
LEMMA MarkKeeps ==
  ASSUME TypeOK, TypeOK', NEW cl \in Clients, NEW s \in Servers,
         NEW i \in DOMAIN wq[cl][s], NEW w \in WorkRequest,
         Rewrites(cl, s, i, w),
         w.id = wq[cl][s][i].id, w.sig = wq[cl][s][i].sig
  PROVE  \A t \in Servers :
           /\ DOMAIN wq'[cl][t] = DOMAIN wq[cl][t] /\ Len(wq'[cl][t]) = Len(wq[cl][t])
           /\ \A j \in DOMAIN wq[cl][t] :
                wq'[cl][t][j].id = wq[cl][t][j].id /\ wq'[cl][t][j].sig = wq[cl][t][j].sig
BY MarkOne

(* It reports a WR only after those before it.                             *)
LEMMA MarkInOrder ==
  ASSUME TypeOK, TypeOK', NEW cl \in Clients, NEW s \in Servers,
         NEW i \in DOMAIN wq[cl][s], NEW w \in WorkRequest,
         Rewrites(cl, s, i, w),
         w.cqe = wq[cl][s][i].cqe \/ Unreported(wq[cl][s], i),
         ReportedInOrder(cl)
  PROVE  ReportedInOrder(cl)'
<1>1. \A t \in Servers :
        /\ DOMAIN wq'[cl][t] = DOMAIN wq[cl][t] /\ Len(wq'[cl][t]) = Len(wq[cl][t])
        /\ \A j \in DOMAIN wq[cl][t] :
             wq'[cl][t][j] = IF t = s /\ j = i THEN w ELSE wq[cl][t][j]
  BY MarkOne
<1> SUFFICES ASSUME NEW t \in Servers, NEW k \in DOMAIN wq[cl][t], NEW j \in 1 .. k - 1,
                    wq'[cl][t][k].cqe # "none"
             PROVE  wq'[cl][t][j].cqe # "none"
  BY <1>1 DEF ReportedInOrder
<1>2. wq[cl][t] \in Seq(WorkRequest) BY DEF TypeOK
<1>3. j \in DOMAIN wq[cl][t] BY <1>2
<1>4. wq[cl][t][j].cqe # "none"
  <2>1. CASE wq[cl][t][k].cqe # "none"
    BY <2>1 DEF ReportedInOrder
  <2>2. CASE wq[cl][t][k].cqe = "none"
    <3>1. t = s /\ k = i /\ w.cqe # wq[cl][s][i].cqe BY <1>1, <2>2
    <3> QED BY <3>1 DEF Unreported
  <2> QED BY <2>1, <2>2
<1> QED BY <1>3, <1>4, <1>1 DEF Unreported

LEMMA MarkLedger ==
  ASSUME TypeOK, TypeOK', NEW cl \in Clients, ClientLedger(cl), NEW s \in Servers,
         NEW i \in DOMAIN wq[cl][s], NEW w \in WorkRequest,
         Rewrites(cl, s, i, w), UNCHANGED callVars,
         w.id = wq[cl][s][i].id, w.sig = wq[cl][s][i].sig,
         w.cqe = wq[cl][s][i].cqe \/ Unreported(wq[cl][s], i)
  PROVE  ClientLedger(cl)'
<1>1. \A t \in Servers :
        /\ DOMAIN wq'[cl][t] = DOMAIN wq[cl][t] /\ Len(wq'[cl][t]) = Len(wq[cl][t])
        /\ \A j \in DOMAIN wq[cl][t] :
             wq'[cl][t][j].id = wq[cl][t][j].id /\ wq'[cl][t][j].sig = wq[cl][t][j].sig
  BY MarkKeeps
<1>2. \A t \in Servers : wq[cl][t] \in Seq(WorkRequest) /\ wq'[cl][t] \in Seq(WorkRequest)
  BY DEF TypeOK
<1>3. Pending(cl)' = Pending(cl)
  <2> DEFINE Has(id) == \E t \in Servers : \E j \in DOMAIN wq[cl][t] :
                          wq[cl][t][j].sig /\ wq[cl][t][j].id = id
             Will(id) == \E t \in Servers : \E j \in DOMAIN wq'[cl][t] :
                           wq'[cl][t][j].sig /\ wq'[cl][t][j].id = id
  <2>1. ASSUME NEW id, Has(id) PROVE Will(id)
    <3>1. PICK t \in Servers : \E j \in DOMAIN wq[cl][t] :
                                 wq[cl][t][j].sig /\ wq[cl][t][j].id = id
      BY <2>1
    <3>2. PICK j \in DOMAIN wq[cl][t] : wq[cl][t][j].sig /\ wq[cl][t][j].id = id
      BY <3>1
    <3>3. j \in DOMAIN wq'[cl][t] /\ wq'[cl][t][j].sig /\ wq'[cl][t][j].id = id
      BY <1>1, <3>2
    <3> QED BY <3>3
  <2>2. ASSUME NEW id, Will(id) PROVE Has(id)
    <3>1. PICK t \in Servers : \E j \in DOMAIN wq'[cl][t] :
                                 wq'[cl][t][j].sig /\ wq'[cl][t][j].id = id
      BY <2>2
    <3>2. PICK j \in DOMAIN wq'[cl][t] : wq'[cl][t][j].sig /\ wq'[cl][t][j].id = id
      BY <3>1
    <3>3. j \in DOMAIN wq[cl][t] BY <1>1
    <3>4. wq[cl][t][j].sig /\ wq[cl][t][j].id = id
      BY <1>1, <3>2, <3>3
    <3> QED BY <3>3, <3>4
  <2>3. Pending(cl) = {id \in Ids : Has(id)} /\ Pending(cl)' = {id \in Ids : Will(id)}
    BY DEF Pending
  <2> HIDE DEF Has, Will
  <2> QED BY <2>1, <2>2, <2>3
<1>4. EmptyQueues(cl) => EmptyQueues(cl)'
  BY <1>1, <1>2 DEF EmptyQueues
<1>5. Balanced(cl) => Balanced(cl)'
  <2> SUFFICES ASSUME Balanced(cl) PROVE Balanced(cl)' OBVIOUS
  <2>1. AllCount(cl)' BY <1>1 DEF Balanced, AllCount, callVars
  <2>2. IdsDiffer(cl)'
    <3>1. IdsDiffer(cl) BY DEF Balanced
    <3> SUFFICES ASSUME NEW t \in Servers, NEW u \in Servers,
                        NEW j \in DOMAIN wq'[cl][t], NEW k \in DOMAIN wq'[cl][u],
                        wq'[cl][t][j].id = wq'[cl][u][k].id
                 PROVE  t = u /\ j = k
      BY DEF IdsDiffer
    <3>2. j \in DOMAIN wq[cl][t] /\ k \in DOMAIN wq[cl][u]
      BY <1>1
    <3>3. wq[cl][t][j].id = wq[cl][u][k].id
      BY <1>1, <3>2
    <3> QED BY <3>1, <3>2, <3>3 DEF IdsDiffer
  <2>3. TailSignaled(cl)'
    <3> SUFFICES ASSUME NEW t \in Servers, wq'[cl][t] # <<>>
                 PROVE  wq'[cl][t][Len(wq'[cl][t])].sig
      BY DEF TailSignaled
    <3>1. Len(wq[cl][t]) \in DOMAIN wq[cl][t] /\ wq[cl][t] # <<>>
      BY <1>1, <1>2
    <3> QED BY <3>1, <1>1 DEF Balanced, TailSignaled
  <2>4. ReportedInOrder(cl)' BY MarkInOrder DEF Balanced
  <2> QED BY <1>3, <2>1, <2>2, <2>3, <2>4 DEF Balanced, callVars
<1> QED BY <1>4, <1>5 DEF ClientLedger, callVars

(* How far a WR of the queue to t moves when the oldest CQE of the queue   *)
(* to s is taken.                                                          *)
Freed(cl, s, t) == IF t = s THEN Oldest(wq[cl][s]) ELSE 0

(* Taking a CQE frees WRs at the front of its queue, no signaled one among *)
(* them but its own; every WR afterwards was one before, further back.     *)
LEMMA TakeQueue ==
  ASSUME TypeOK, NEW cl \in Clients, NEW s \in Servers, ReportedInOrder(cl),
         Ready(wq[cl][s]) # {},
         wq' = [wq EXCEPT ![cl][s] = Reclaim(wq[cl][s], Oldest(wq[cl][s]))]
  PROVE  /\ Oldest(wq[cl][s]) \in Ready(wq[cl][s])
         /\ Oldest(wq[cl][s]) \in 1 .. Len(wq[cl][s])
         /\ \A j \in 1 .. Oldest(wq[cl][s]) - 1 : ~wq[cl][s][j].sig
         /\ \A t \in Servers :
              /\ wq[cl][t] \in Seq(WorkRequest) /\ wq'[cl][t] \in Seq(WorkRequest)
              /\ DOMAIN wq[cl][t] = 1 .. Len(wq[cl][t]) /\ Len(wq[cl][t]) \in Nat
              /\ DOMAIN wq'[cl][t] = 1 .. Len(wq'[cl][t]) /\ Len(wq'[cl][t]) \in Nat
              /\ Freed(cl, s, t) \in Nat
              /\ Len(wq'[cl][t]) = Len(wq[cl][t]) - Freed(cl, s, t)
              /\ \A j \in DOMAIN wq'[cl][t] :
                   /\ j + Freed(cl, s, t) \in DOMAIN wq[cl][t]
                   /\ wq'[cl][t][j] = wq[cl][t][j + Freed(cl, s, t)]
         /\ ReportedInOrder(cl)'
<1> DEFINE q == wq[cl][s]
           i == Oldest(q)
           back(t) == IF t = s THEN i ELSE 0
<1>1. q \in Seq(WorkRequest)
  BY DEF TypeOK
<1>2. i \in Ready(q) /\ i \in 1 .. Len(q) /\ \A j \in Ready(q) : i <= j
  BY <1>1, OldestType
<1>3. q[i].cqe # "none"
  BY <1>2 DEF Ready
<1>4. \A j \in 1 .. i - 1 : ~q[j].sig
  <2> SUFFICES ASSUME NEW j \in 1 .. i - 1, q[j].sig PROVE FALSE
    OBVIOUS
  <2>1. j \in DOMAIN q /\ ~(i <= j) BY <1>1, <1>2
  <2>2. q[j].cqe # "none" BY <1>1, <1>2, <1>3 DEF ReportedInOrder
  <2>3. q[j].cqe \in {"none", "ok", "err"}
    <3>1. q[j] \in WorkRequest BY <1>1, <2>1
    <3> QED BY <3>1 DEF WorkRequest
  <2>4. j \in Ready(q) BY <2>1, <2>2, <2>3 DEF Ready
  <2> QED BY <1>2, <2>1, <2>4
<1>14. \A t \in Servers : wq'[cl][t] = IF t = s THEN Reclaim(q, i) ELSE wq[cl][t]
  BY DEF TypeOK
<1>15. /\ Reclaim(q, i) \in Seq(WorkRequest)
       /\ Len(Reclaim(q, i)) = Len(q) - i
       /\ \A j \in 1 .. Len(q) - i : Reclaim(q, i)[j] = q[j + i]
  BY <1>1, <1>2, ReclaimType
<1>16. \A t \in Servers : wq[cl][t] \in Seq(WorkRequest) /\ wq'[cl][t] \in Seq(WorkRequest)
  BY <1>14, <1>15 DEF TypeOK
<1>17. \A t \in Servers :
         /\ DOMAIN wq[cl][t] = 1 .. Len(wq[cl][t]) /\ Len(wq[cl][t]) \in Nat
         /\ DOMAIN wq'[cl][t] = 1 .. Len(wq'[cl][t]) /\ Len(wq'[cl][t]) \in Nat
  BY <1>16
<1>18. \A t \in Servers : Len(wq'[cl][t]) = Len(wq[cl][t]) - back(t)
  BY <1>14, <1>15, <1>17
(* Every WR of a queue afterwards is a WR of it before, further back.      *)
<1>5. \A t \in Servers : \A j \in DOMAIN wq'[cl][t] :
        j + back(t) \in DOMAIN wq[cl][t] /\ wq'[cl][t][j] = wq[cl][t][j + back(t)]
  <2> SUFFICES ASSUME NEW t \in Servers, NEW j \in 1 .. Len(wq'[cl][t])
               PROVE  /\ j + back(t) \in 1 .. Len(wq[cl][t])
                      /\ wq'[cl][t][j] = wq[cl][t][j + back(t)]
    BY <1>17
  <2>1. i \in Nat BY <1>1, <1>2
  <2> HIDE DEF i
  <2>2. CASE t = s
    <3>1. wq'[cl][t] = Reclaim(q, i) /\ back(t) = i BY <1>14, <2>2
    <3>2. j \in 1 .. Len(q) - i BY <1>15, <3>1
    <3>3. j + i \in 1 .. Len(q) BY <1>1, <2>1, <3>2
    <3>4. wq'[cl][t][j] = q[j + i] BY <1>15, <3>1, <3>2
    <3> QED BY <2>2, <3>1, <3>3, <3>4
  <2>3. CASE t # s
    <3>1. wq'[cl][t] = wq[cl][t] /\ back(t) = 0 BY <1>14, <2>3
    <3> QED BY <3>1
  <2> QED BY <2>2, <2>3
<1>6. i \in Nat /\ \A t \in Servers : back(t) \in Nat
  BY <1>1, <1>2
<1> HIDE DEF back, i
<1>10. ReportedInOrder(cl)'
  <2> SUFFICES ASSUME NEW t \in Servers, NEW k \in DOMAIN wq'[cl][t], NEW j \in 1 .. k - 1,
                      wq'[cl][t][k].cqe # "none"
               PROVE  wq'[cl][t][j].cqe # "none"
    BY DEF ReportedInOrder
  <2> DEFINE m == Len(wq'[cl][t])
  <2>0. k \in 1 .. m /\ m \in Nat BY <1>17
  <2>1. j \in DOMAIN wq'[cl][t] /\ j \in Nat /\ k \in Nat
    <3> HIDE DEF m
    <3>1. j \in 1 .. m /\ j \in Nat /\ k \in Nat BY <2>0
    <3> QED BY <3>1, <1>17 DEF m
  <2>2. j + back(t) \in 1 .. k + back(t) - 1
    <3>1. j + back(t) \in DOMAIN wq[cl][t] BY <1>5, <2>1
    <3>2. j + back(t) \in Nat /\ j + back(t) >= 1 BY <1>17, <3>1
    <3> QED BY <2>1, <3>2, <1>6
  <2>3. k + back(t) \in DOMAIN wq[cl][t] /\ wq[cl][t][k + back(t)].cqe # "none"
    BY <1>5
  <2>4. wq[cl][t][j + back(t)].cqe # "none"
    <3> DEFINE kk == k + back(t)
               jj == j + back(t)
    <3>1. kk \in DOMAIN wq[cl][t] /\ jj \in 1 .. kk - 1 /\ wq[cl][t][kk].cqe # "none"
      BY <2>1, <2>2, <2>3, <1>6
    <3> HIDE DEF kk, jj
    <3>2. wq[cl][t][jj].cqe # "none" BY <3>1 DEF ReportedInOrder
    <3> QED BY <3>2 DEF jj
  <2> QED BY <1>5, <2>1, <2>4
<1> QED BY <1>2, <1>4, <1>5, <1>6, <1>10, <1>16, <1>17, <1>18 DEF i, back, Freed

(* Taking the CQE of a WR that succeeded takes its id, and only its id,    *)
(* from the ids that are pending, and keeps the books of the queues.       *)
LEMMA TakeCqe ==
  ASSUME TypeOK, NEW cl \in Clients, NEW s \in Servers,
         AllCount(cl), IdsDiffer(cl), TailSignaled(cl), ReportedInOrder(cl),
         Ready(wq[cl][s]) # {}, wq[cl][s][Oldest(wq[cl][s])].cqe = "ok",
         wq' = [wq EXCEPT ![cl][s] = Reclaim(wq[cl][s], Oldest(wq[cl][s]))],
         call'[cl] = call[cl]
  PROVE  /\ AllCount(cl)' /\ IdsDiffer(cl)' /\ TailSignaled(cl)' /\ ReportedInOrder(cl)'
         /\ Cardinality(Pending(cl)') = Cardinality(Pending(cl)) - 1
         /\ Counts(call[cl].op, wq[cl][s][Oldest(wq[cl][s])].id)
<1> DEFINE q == wq[cl][s]
           i == Oldest(q)
           back(t) == Freed(cl, s, t)
<1>1. q \in Seq(WorkRequest)
  BY DEF TypeOK
<1>2. /\ i \in Ready(q) /\ i \in 1 .. Len(q)
      /\ \A j \in 1 .. i - 1 : ~q[j].sig
      /\ \A t \in Servers :
           /\ wq[cl][t] \in Seq(WorkRequest) /\ wq'[cl][t] \in Seq(WorkRequest)
           /\ DOMAIN wq[cl][t] = 1 .. Len(wq[cl][t]) /\ Len(wq[cl][t]) \in Nat
           /\ DOMAIN wq'[cl][t] = 1 .. Len(wq'[cl][t]) /\ Len(wq'[cl][t]) \in Nat
           /\ back(t) \in Nat
           /\ Len(wq'[cl][t]) = Len(wq[cl][t]) - back(t)
           /\ \A j \in DOMAIN wq'[cl][t] :
                j + back(t) \in DOMAIN wq[cl][t] /\ wq'[cl][t][j] = wq[cl][t][j + back(t)]
      /\ ReportedInOrder(cl)'
  BY TakeQueue
<1>3. q[i].sig /\ q[i].cqe = "ok"
  BY <1>2 DEF Ready
<1>4. \A j \in 1 .. i - 1 : ~q[j].sig
  BY <1>2
<1>5. \A t \in Servers : \A j \in DOMAIN wq'[cl][t] :
        j + back(t) \in DOMAIN wq[cl][t] /\ wq'[cl][t][j] = wq[cl][t][j + back(t)]
  BY <1>2
<1>14. \A t \in Servers : back(t) = IF t = s THEN i ELSE 0
  BY DEF Freed
<1>16. \A t \in Servers : wq[cl][t] \in Seq(WorkRequest) /\ wq'[cl][t] \in Seq(WorkRequest)
  BY <1>2
<1>17. \A t \in Servers :
         /\ DOMAIN wq[cl][t] = 1 .. Len(wq[cl][t]) /\ Len(wq[cl][t]) \in Nat
         /\ DOMAIN wq'[cl][t] = 1 .. Len(wq'[cl][t]) /\ Len(wq'[cl][t]) \in Nat
  BY <1>2
<1>18. \A t \in Servers : Len(wq'[cl][t]) = Len(wq[cl][t]) - back(t)
  BY <1>2
<1>6. i \in Nat /\ \A t \in Servers : back(t) \in Nat
  BY <1>2
<1>10. ReportedInOrder(cl)'
  BY <1>2
<1> HIDE DEF back, i
<1>7. AllCount(cl)'
  BY <1>5 DEF AllCount
<1>8. IdsDiffer(cl)'
  <2> SUFFICES ASSUME NEW t \in Servers, NEW u \in Servers,
                      NEW j \in DOMAIN wq'[cl][t], NEW k \in DOMAIN wq'[cl][u],
                      wq'[cl][t][j].id = wq'[cl][u][k].id
               PROVE  t = u /\ j = k
    BY DEF IdsDiffer
  <2>1. t = u /\ j + back(t) = k + back(u) BY <1>5 DEF IdsDiffer
  <2>2. j \in Nat /\ k \in Nat
    <3>1. j \in 1 .. Len(wq'[cl][t]) /\ k \in 1 .. Len(wq'[cl][u]) BY <1>17
    <3> QED BY ONLY <3>1
  <2> QED BY <2>1, <2>2, <1>6
<1>9. TailSignaled(cl)'
  <2> SUFFICES ASSUME NEW t \in Servers, wq'[cl][t] # <<>>
               PROVE  wq'[cl][t][Len(wq'[cl][t])].sig
    BY DEF TailSignaled
  <2>1. Len(wq'[cl][t]) \in DOMAIN wq'[cl][t] BY <1>16
  <2>2. wq'[cl][t][Len(wq'[cl][t])] = wq[cl][t][Len(wq[cl][t])]
    <3>1. Len(wq'[cl][t]) + back(t) = Len(wq[cl][t]) BY <1>17, <1>18, <1>6
    <3> QED BY <1>5, <2>1, <3>1
  <2>3. wq[cl][t] # <<>> BY <1>5, <2>1
  <2> QED BY <2>2, <2>3 DEF TailSignaled
<1>11. Pending(cl)' = Pending(cl) \ {q[i].id}
  <2>1. ASSUME NEW id \in Pending(cl)' PROVE id \in Pending(cl) /\ id # q[i].id
    <3>0. PICK t \in Servers : \E j \in DOMAIN wq'[cl][t] :
            wq'[cl][t][j].sig /\ wq'[cl][t][j].id = id
      BY DEF Pending
    <3>1. PICK j \in DOMAIN wq'[cl][t] : wq'[cl][t][j].sig /\ wq'[cl][t][j].id = id
      BY <3>0
    <3>2. /\ j + back(t) \in DOMAIN wq[cl][t]
          /\ wq[cl][t][j + back(t)].sig /\ wq[cl][t][j + back(t)].id = id
      BY <1>5, <3>1
    <3>3. id \in Pending(cl) BY <3>2 DEF Pending
    <3>4. t = s => j + back(t) # i
      <4>1. j \in Nat /\ j >= 1 BY <1>17
      <4> QED BY <4>1, <1>6, <1>14
    <3>5. i \in DOMAIN q BY <1>1, <1>2
    <3> QED BY <3>2, <3>3, <3>4, <3>5 DEF IdsDiffer
  <2>2. ASSUME NEW id \in Pending(cl), id # q[i].id PROVE id \in Pending(cl)'
    <3>0. PICK t \in Servers : \E j \in DOMAIN wq[cl][t] :
            wq[cl][t][j].sig /\ wq[cl][t][j].id = id
      BY DEF Pending
    <3>1. PICK j \in DOMAIN wq[cl][t] : wq[cl][t][j].sig /\ wq[cl][t][j].id = id
      BY <3>0
    <3>2. j \in Nat /\ j >= 1 /\ j <= Len(wq[cl][t]) BY <1>17
    <3>3. j > back(t)
      <4>1. CASE t = s
        <5>1. j # i BY <2>2, <3>1, <4>1
        <5>2. j \notin 1 .. i - 1 BY <1>4, <3>1, <4>1
        <5>3. back(t) = i BY <4>1, <1>14
        <5> QED BY <3>2, <5>1, <5>2, <5>3, <1>6
      <4>2. CASE t # s BY <3>2, <4>2, <1>14
      <4> QED BY <4>1, <4>2
    <3>4. j - back(t) \in DOMAIN wq'[cl][t] /\ (j - back(t)) + back(t) = j
      <4>1. j - back(t) \in 1 .. Len(wq'[cl][t]) 
        <5>1. Len(wq'[cl][t]) = Len(wq[cl][t]) - back(t) /\ Len(wq[cl][t]) \in Nat
          BY <1>17, <1>18
        <5>2. back(t) \in Nat BY <1>6
        <5> QED BY <5>1, <5>2, <3>2, <3>3
      <4>2. (j - back(t)) + back(t) = j BY <1>6, <3>2
      <4> QED BY <4>1, <4>2, <1>17
    <3>5. wq'[cl][t][j - back(t)] = wq[cl][t][j] BY <1>5, <3>4
    <3>6. id \in Ids BY DEF Pending
    <3> QED BY <3>1, <3>4, <3>5, <3>6 DEF Pending
  <2> QED BY <2>1, <2>2
<1>12. q[i].id \in Pending(cl) /\ Counts(call[cl].op, q[i].id)
  <2>1. i \in DOMAIN q BY <1>1, <1>2
  <2> QED BY <2>1, <1>3 DEF Pending, AllCount
<1>13. Cardinality(Pending(cl)') = Cardinality(Pending(cl)) - 1
  <2>1. IsFiniteSet(Pending(cl)) BY PendingType, SomeIds
  <2>2. Cardinality(Pending(cl) \ {q[i].id}) = Cardinality(Pending(cl)) - 1
    BY <1>12, <2>1, FS_RemoveElement
  <2> QED BY <1>11, <2>2
<1> QED BY <1>7, <1>8, <1>9, <1>10, <1>12, <1>13 DEF i

(* The end of one PollCQ that counted k completions.                       *)
LEMMA AdvanceLedger ==
  ASSUME TypeInv, TypeOK', NEW cl \in Clients, NEW s, NEW k \in {0, 1}, Advance(cl, s, k),
         phase[cl] = "polling", Balanced(cl),
         call'[cl] = call[cl] =>
           AllCount(cl)' /\ IdsDiffer(cl)' /\ TailSignaled(cl)' /\ ReportedInOrder(cl)',
         Cardinality(Pending(cl)') = Cardinality(Pending(cl)) - k
  PROVE  ClientLedger(cl)'
<1>1. /\ completed[cl] + Cardinality(Pending(cl)) = Total(call[cl])
      /\ completed[cl] \in Nat
      /\ Cardinality(Pending(cl)) \in Nat /\ Cardinality(Pending(cl)') \in Nat
  BY PendingType, SomeIds DEF Balanced, TypeInv, TypeOK
<1>2. CASE /\ completed[cl] + k >= Total(call[cl])
           /\ Return(cl, call[cl], [status |-> "ok", reads |-> Results(call[cl], buf[cl])])
  <2>1. phase'[cl] = "idle" /\ call'[cl] = call[cl]
    BY <1>2 DEF Return, TypeInv, TypeOK
  <2>2. Cardinality(Pending(cl)') = 0
    BY <1>1, <1>2
  <2>3. EmptyQueues(cl)'
    BY <2>1, <2>2, PendingType, SomeIds, NothingPending
  <2> QED BY <2>1, <2>3 DEF ClientLedger
<1>3. CASE completed' = [completed EXCEPT ![cl] = completed[cl] + k] /\ UNCHANGED <<phase, call>>
  <2>1. completed'[cl] + Cardinality(Pending(cl)') = Total(call'[cl])
    BY <1>1, <1>3 DEF TypeInv, TypeOK
  <2>2. Balanced(cl)'
    BY <1>3, <2>1 DEF Balanced
  <2> QED BY <1>3, <2>2 DEF ClientLedger
<1> QED BY <1>2, <1>3 DEF Advance

LEMMA PollEmptyLedger ==
  ASSUME TypeInv, TypeOK', NEW cl \in Clients, NEW s \in Servers, ClientLedger(cl),
         PollEmpty(cl, s)
  PROVE  ClientLedger(cl)'
<1>1. phase[cl] = "polling" /\ Advance(cl, s, 0) /\ wq' = wq
  BY DEF PollEmpty, nicVars
<1>2. abandoned'[cl] \/ Balanced(cl)
  <2>1. abandoned[cl] => abandoned'[cl]
    BY <1>1 DEF Advance, Return, TypeInv, TypeOK
  <2> QED BY <1>1, <2>1 DEF ClientLedger
<1>3. CASE Balanced(cl)
  <2>1. Pending(cl)' = Pending(cl) BY <1>1 DEF Pending
  <2>2. Cardinality(Pending(cl)') = Cardinality(Pending(cl)) - 0
    BY <2>1, PendingType, SomeIds
  <2>3. call'[cl] = call[cl] =>
          AllCount(cl)' /\ IdsDiffer(cl)' /\ TailSignaled(cl)' /\ ReportedInOrder(cl)'
    BY <1>1, <1>3 DEF Balanced, AllCount, IdsDiffer, TailSignaled, ReportedInOrder
  <2> QED BY <1>1, <1>3, <2>2, <2>3, AdvanceLedger
<1> QED BY <1>2, <1>3 DEF ClientLedger

LEMMA PollCqeLedger ==
  ASSUME TypeInv, TypeOK', NEW cl \in Clients, NEW s \in Servers, ClientLedger(cl),
         PollCqe(cl, s)
  PROVE  ClientLedger(cl)'
<1> DEFINE q == wq[cl][s]
           i == Oldest(q)
           k == IF Counts(call[cl].op, q[i].id) THEN 1 ELSE 0
<1>1. /\ phase[cl] = "polling" /\ Ready(q) # {}
      /\ wq' = [wq EXCEPT ![cl][s] = Reclaim(q, i)]
      /\ \/ Return(cl, call[cl], ErrRet)
         \/ q[i].cqe = "ok" /\ Advance(cl, s, k)
  BY DEF PollCqe
<1>2. CASE Return(cl, call[cl], ErrRet)
  BY <1>2, ErrorLedger DEF TypeInv
<1>3. CASE q[i].cqe = "ok" /\ Advance(cl, s, k)
  <2>1. call'[cl] = call[cl]
    BY <1>3 DEF Advance, Return, TypeInv, TypeOK
  <2>2. abandoned'[cl] \/ Balanced(cl)
    <3>1. abandoned[cl] => abandoned'[cl]
      BY <1>3 DEF Advance, Return, TypeInv, TypeOK
    <3> QED BY <1>1, <3>1 DEF ClientLedger
  <2>3. CASE Balanced(cl)
    <3> HIDE DEF k
    <3>1. /\ AllCount(cl)' /\ IdsDiffer(cl)' /\ TailSignaled(cl)' /\ ReportedInOrder(cl)'
          /\ Cardinality(Pending(cl)') = Cardinality(Pending(cl)) - 1
          /\ Counts(call[cl].op, q[i].id)
      BY <1>1, <1>3, <2>1, <2>3, TakeCqe DEF Balanced, TypeInv
    <3>2. k = 1 BY <3>1 DEF k
    <3> QED BY <1>1, <1>3, <2>3, <3>1, <3>2, AdvanceLedger
  <2> QED BY <2>2, <2>3 DEF ClientLedger
<1> QED BY <1>1, <1>2, <1>3

(* A call of one WR that is posted and awaited.                            *)
LEMMA IssueLedger ==
  ASSUME TypeOK, NEW cl \in Clients, ClientLedger(cl), phase[cl] = "idle",
         NEW c, c.keys \in KeySeqs, Total(c) = 1, NEW wr, wr.id \in Ids, wr.sig,
         Counts(c.op, wr.id), Issue(cl, c, wr)
  PROVE  ClientLedger(cl)'
<1> DEFINE s0 == ShardOf(c.keys[1])
<1>1. s0 \in Servers
  <2>1. 1 \in 1 .. Len(c.keys) /\ c.keys \in [1 .. Len(c.keys) -> Keys]
    BY KeySeqType
  <2>2. c.keys[1] \in Nat BY <2>1
  <2> QED BY <2>2, ShardType
<1>2. CASE wq' = [wq EXCEPT ![cl][s0] = Append(@, wr)] /\ Await(cl, c)
  <2>1. /\ phase'[cl] = "polling" /\ call'[cl] = c /\ completed'[cl] = 0
        /\ abandoned'[cl] = abandoned[cl]
    BY <1>2 DEF Await, TypeOK
  <2> SUFFICES ASSUME ~abandoned[cl] PROVE Balanced(cl)'
    BY <2>1 DEF ClientLedger
  <2> HIDE DEF s0
  <2>2. \A t \in Servers : wq'[cl][t] = IF t = s0 THEN <<wr>> ELSE <<>>
    <3>1. \A t \in Servers : wq[cl][t] = <<>> BY DEF ClientLedger, EmptyQueues
    <3>2. wq'[cl][s0] = Append(<<>>, wr) BY <1>1, <1>2, <3>1 DEF TypeOK
    <3>3. Append(<<>>, wr) = <<wr>> OBVIOUS
    <3>4. \A t \in Servers \ {s0} : wq'[cl][t] = wq[cl][t] BY <1>2 DEF TypeOK
    <3> QED BY <3>1, <3>2, <3>3, <3>4
  <2>3. DOMAIN <<wr>> = {1} /\ DOMAIN <<>> = {} /\ <<wr>>[1] = wr /\ Len(<<wr>>) = 1
    OBVIOUS
  <2>4. AllCount(cl)' BY <2>1, <2>2, <2>3 DEF AllCount
  <2>5. IdsDiffer(cl)' BY <2>2, <2>3 DEF IdsDiffer
  <2>6. TailSignaled(cl)' BY <2>2, <2>3 DEF TailSignaled
  <2>7. ReportedInOrder(cl)' BY <2>2, <2>3 DEF ReportedInOrder
  <2>8. Pending(cl)' = {wr.id} BY <1>1, <2>2, <2>3 DEF Pending
  <2>9. Cardinality(Pending(cl)') = 1 BY <2>8, FS_Singleton
  <2> QED BY <2>1, <2>4, <2>5, <2>6, <2>7, <2>9 DEF Balanced
<1>3. CASE Return(cl, c, ErrRet)
  BY <1>3, ErrorLedger
<1> QED BY <1>2, <1>3 DEF Issue

(* The shares of two servers in a batch.                                   *)
LEMMA Shares ==
  ASSUME NEW ks \in KeySeqs
  PROVE  /\ \A s \in Servers : IndicesAt(ks, s) \in SUBSET (1 .. Len(ks))
         /\ \A s, t \in Servers : \A i \in IndicesAt(ks, s) \cap IndicesAt(ks, t) : s = t
         /\ \A i \in 1 .. Len(ks) : ShardOf(ks[i]) \in Servers /\ i \in IndicesAt(ks, ShardOf(ks[i]))
         /\ 1 .. Len(ks) \subseteq Ids
<1>1. Len(ks) \in 1 .. MaxBatch /\ ks \in [1 .. Len(ks) -> Keys]
  BY KeySeqType
<1>2. \A i \in 1 .. Len(ks) : ShardOf(ks[i]) \in Servers
  BY <1>1, ShardType
<1>3. 1 .. Len(ks) \subseteq Ids
  BY <1>1 DEF Ids
<1> QED BY <1>2, <1>3 DEF IndicesAt

(* The WRs of the chain for server s.                                      *)
LEMMA WriteChainFields ==
  ASSUME NEW ks \in KeySeqs, NEW s \in Servers
  PROVE  LET P == IndicesAt(ks, s)
             n == Cardinality(P)
             ch == WriteChain(ks, s)
         IN /\ n \in Nat /\ DOMAIN ch = 1 .. n /\ InOrder(P) \in [1 .. n -> P]
            /\ \A a, b \in 1 .. n : a < b => InOrder(P)[a] < InOrder(P)[b]
            /\ \A i \in P : \E a \in 1 .. n : InOrder(P)[a] = i
            /\ \A j \in 1 .. n : /\ ch[j].id = InOrder(P)[j]
                                 /\ ch[j].sig = (j = n)
                                 /\ ch[j].cqe = "none"
<1> DEFINE P == IndicesAt(ks, s)
           n == Cardinality(P)
           f == InOrder(P)
<1>1. Len(ks) \in Nat /\ P \in SUBSET (1 .. Len(ks))
  BY KeySeqType DEF IndicesAt
<1>2. /\ n \in Nat /\ f \in [1 .. n -> P]
      /\ \A a, b \in 1 .. n : a < b => f[a] < f[b]
      /\ \A i \in P : \E a \in 1 .. n : f[a] = i
  BY <1>1, InOrderType
<1>3. WriteChain(ks, s) =
        [j \in 1 .. n |-> Wr("write", ItemCell(f[j]), ks[f[j]], f[j], Signaled(j, n))]
  BY DEF WriteChain
<1> HIDE DEF n, f, P
<1>4. /\ DOMAIN WriteChain(ks, s) = 1 .. n
      /\ \A j \in 1 .. n : /\ WriteChain(ks, s)[j].id = f[j]
                           /\ WriteChain(ks, s)[j].sig = (j = n)
                           /\ WriteChain(ks, s)[j].cqe = "none"
  BY <1>3 DEF Wr, Signaled
<1> QED BY <1>2, <1>4 DEF n, f, P

(* The reads of a whole batch for server s.                                *)
LEMMA ReadsAtFields ==
  ASSUME NEW ks \in KeySeqs, NEW s \in Servers
  PROVE  LET P == IndicesAt(ks, s)
             n == Cardinality(P)
             ch == ReadsAt(ks, s, Len(ks))
         IN /\ n \in Nat /\ DOMAIN ch = 1 .. n /\ InOrder(P) \in [1 .. n -> P]
            /\ \A a, b \in 1 .. n : a < b => InOrder(P)[a] < InOrder(P)[b]
            /\ \A i \in P : \E a \in 1 .. n : InOrder(P)[a] = i
            /\ \A j \in 1 .. n : /\ ch[j].id = InOrder(P)[j]
                                 /\ ch[j].sig = TRUE
                                 /\ ch[j].cqe = "none"
<1> DEFINE P == IndicesAt(ks, s)
           n == Cardinality(P)
           f == InOrder(P)
<1>1. Len(ks) \in Nat /\ P \in SUBSET (1 .. Len(ks))
  BY KeySeqType DEF IndicesAt
<1>2. /\ n \in Nat /\ f \in [1 .. n -> P]
      /\ \A a, b \in 1 .. n : a < b => f[a] < f[b]
      /\ \A i \in P : \E a \in 1 .. n : f[a] = i
  BY <1>1, InOrderType
<1>3. ReadsAt(ks, s, Len(ks)) =
        [j \in 1 .. n |-> Wr("read", ItemCell(f[j]), ks[f[j]], f[j], TRUE)]
  <2>1. IndicesAt(ks, s) \cap (1 .. Len(ks)) = P BY <1>1
  <2> QED BY <2>1 DEF ReadsAt
<1> HIDE DEF n, f, P
<1>4. /\ DOMAIN ReadsAt(ks, s, Len(ks)) = 1 .. n
      /\ \A j \in 1 .. n : /\ ReadsAt(ks, s, Len(ks))[j].id = f[j]
                           /\ ReadsAt(ks, s, Len(ks))[j].sig = TRUE
                           /\ ReadsAt(ks, s, Len(ks))[j].cqe = "none"
  BY <1>3 DEF Wr
<1> QED BY <1>2, <1>4 DEF n, f, P

(* A batch posted on queues that were empty: each item is one WR, and the  *)
(* last WR of every queue is signaled.                                     *)
LEMMA BatchPosted ==
  ASSUME NEW cl \in Clients, NEW ks \in KeySeqs, TypeOK',
         call'[cl].op \in {"PutBatch", "GetBatch"},
         \A s \in Servers :
           LET P == IndicesAt(ks, s)
               n == Cardinality(P)
               q == wq'[cl][s]
           IN /\ n \in Nat /\ DOMAIN q = 1 .. n /\ InOrder(P) \in [1 .. n -> P]
              /\ \A a, b \in 1 .. n : a < b => InOrder(P)[a] < InOrder(P)[b]
              /\ \A j \in 1 .. n : /\ q[j].id = InOrder(P)[j]
                                   /\ j = n => q[j].sig
                                   /\ q[j].cqe = "none"
  PROVE  AllCount(cl)' /\ IdsDiffer(cl)' /\ TailSignaled(cl)' /\ ReportedInOrder(cl)'
<1>1. \A s \in Servers : \A j \in DOMAIN wq'[cl][s] :
        wq'[cl][s][j].id \in IndicesAt(ks, s) /\ wq'[cl][s][j].cqe = "none"
  OBVIOUS
<1>2. AllCount(cl)'
  <2> SUFFICES ASSUME NEW s \in Servers, NEW i \in DOMAIN wq'[cl][s]
               PROVE  wq'[cl][s][i].id \in Ids /\ Counts(call'[cl].op, wq'[cl][s][i].id)
    BY DEF AllCount
  <2>1. wq'[cl][s][i].id \in Ids BY <1>1, Shares
  <2> QED BY <2>1 DEF Counts, Ids
<1>3. IdsDiffer(cl)'
  <2> SUFFICES ASSUME NEW s \in Servers, NEW t \in Servers,
                      NEW i \in DOMAIN wq'[cl][s], NEW j \in DOMAIN wq'[cl][t],
                      wq'[cl][s][i].id = wq'[cl][t][j].id
               PROVE  s = t /\ i = j
    BY DEF IdsDiffer
  <2>1. s = t BY <1>1, Shares
  <2> DEFINE f == InOrder(IndicesAt(ks, s))
             n == Cardinality(IndicesAt(ks, s))
  <2>2. /\ n \in Nat /\ i \in 1 .. n /\ j \in 1 .. n /\ f[i] = f[j]
        /\ \A a, b \in 1 .. n : a < b => f[a] < f[b]
    BY <2>1
  <2>3. f[i] \in Int
    <3>1. IndicesAt(ks, s) \in SUBSET (1 .. Len(ks)) BY Shares
    <3>2. f[i] \in IndicesAt(ks, s) BY <2>2
    <3> QED BY <3>1, <3>2
  <2> HIDE DEF f, n
  <2>4. i = j BY <2>2, <2>3
  <2> QED BY <2>1, <2>4
<1>4. TailSignaled(cl)'
  <2> SUFFICES ASSUME NEW s \in Servers, wq'[cl][s] # <<>>
               PROVE  wq'[cl][s][Len(wq'[cl][s])].sig
    BY DEF TailSignaled
  <2>1. wq'[cl][s] \in Seq(WorkRequest) BY DEF TypeOK
  <2>2. Len(wq'[cl][s]) \in DOMAIN wq'[cl][s] /\ Len(wq'[cl][s]) = Cardinality(IndicesAt(ks, s))
    BY <2>1
  <2> QED BY <2>2
<1>5. ReportedInOrder(cl)'
  BY <1>1 DEF ReportedInOrder
<1> QED BY <1>2, <1>3, <1>4, <1>5

(* One WR of a PutBatch is signaled per server involved.                   *)
LEMMA OnePerServer ==
  ASSUME NEW cl \in Clients, NEW c, c.keys \in KeySeqs,
         \A s \in Servers : wq'[cl][s] = WriteChain(c.keys, s)
  PROVE  Cardinality(Pending(cl)') = Cardinality(Involved(c))
<1> DEFINE ks == c.keys
           P(s) == IndicesAt(ks, s)
           n(s) == Cardinality(P(s))
           F == [s \in Involved(c) |-> InOrder(P(s))[n(s)]]
<1>1. \A s \in Servers :
        /\ n(s) \in Nat /\ DOMAIN wq'[cl][s] = 1 .. n(s) /\ InOrder(P(s)) \in [1 .. n(s) -> P(s)]
        /\ \A i \in P(s) : \E a \in 1 .. n(s) : InOrder(P(s))[a] = i
        /\ \A j \in 1 .. n(s) : /\ wq'[cl][s][j].id = InOrder(P(s))[j]
                                /\ wq'[cl][s][j].sig = (j = n(s))
  BY WriteChainFields
<1>2. Involved(c) \subseteq Servers /\ IsFiniteSet(Involved(c))
  <2>1. Involved(c) \subseteq Servers BY InvolvedType
  <2>2. 0 \in Int /\ NumServers - 1 \in Int OBVIOUS
  <2>3. IsFiniteSet(Servers) BY <2>2, FS_Interval DEF Servers
  <2> QED BY <2>1, <2>3, FS_Subset
<1>3. \A s \in Servers : s \in Involved(c) <=> P(s) # {}
  BY DEF Involved, IndicesAt
<1> HIDE DEF P, n
<1>4. \A s \in Involved(c) : n(s) \in 1 .. n(s) /\ InOrder(P(s))[n(s)] \in P(s)
  <2> TAKE s \in Involved(c)
  <2>1. s \in Servers /\ P(s) # {} BY <1>2, <1>3
  <2>2. PICK a : a \in 1 .. n(s) BY <1>1, <2>1
  <2>3. n(s) \in 1 .. n(s) BY <1>1, <2>1, <2>2
  <2> QED BY <1>1, <2>1, <2>3
<1>5. \A s, t \in Servers : \A i \in P(s) \cap P(t) : s = t
  BY Shares DEF P
<1>6. \A s \in Servers : P(s) \subseteq Ids
  BY Shares DEF P
<1>7. ASSUME NEW s \in Involved(c) PROVE F[s] \in Pending(cl)'
  <2>1. s \in Servers /\ n(s) \in DOMAIN wq'[cl][s] BY <1>1, <1>2, <1>4
  <2>2. wq'[cl][s][n(s)].sig /\ wq'[cl][s][n(s)].id = F[s] BY <1>1, <1>4, <2>1
  <2>3. F[s] \in Ids BY <1>4, <1>6, <2>1
  <2> QED BY <2>1, <2>2, <2>3 DEF Pending
<1>8. \A a, b \in Involved(c) : F[a] = F[b] => a = b
  BY <1>2, <1>4, <1>5
<1>9. ASSUME NEW id \in Pending(cl)' PROVE \E s \in Involved(c) : F[s] = id
  <2>1. PICK s \in Servers : \E j \in DOMAIN wq'[cl][s] :
          wq'[cl][s][j].sig /\ wq'[cl][s][j].id = id
    BY DEF Pending
  <2>2. PICK j \in DOMAIN wq'[cl][s] : wq'[cl][s][j].sig /\ wq'[cl][s][j].id = id
    BY <2>1
  <2>3. j = n(s) /\ id = InOrder(P(s))[n(s)] /\ id \in P(s)
    <3>1. /\ j \in 1 .. n(s) /\ InOrder(P(s)) \in [1 .. n(s) -> P(s)]
          /\ wq'[cl][s][j].id = InOrder(P(s))[j]
          /\ wq'[cl][s][j].sig = (j = n(s))
      BY <1>1
    <3>2. j = n(s) BY <3>1, <2>2
    <3> QED BY <3>1, <3>2, <2>2
  <2>4. s \in Involved(c) BY <1>3, <2>3
  <2> QED BY <2>3, <2>4
<1>10. F \in [Involved(c) -> Pending(cl)']
  BY <1>7
<1> HIDE DEF F
<1>11. F \in Bijection(Involved(c), Pending(cl)')
  BY <1>8, <1>9, <1>10, Fun_IsBij
<1>12. ExistsBijection(Involved(c), Pending(cl)')
  BY <1>11, Fun_ExistsBij
<1> QED BY <1>2, <1>12, FS_Bijection

(* Every key of a GetBatch is one signaled WR.                             *)
LEMMA OnePerKey ==
  ASSUME NEW cl \in Clients, NEW ks \in KeySeqs,
         \A s \in Servers : wq'[cl][s] = ReadsAt(ks, s, Len(ks))
  PROVE  Cardinality(Pending(cl)') = Len(ks)
<1> DEFINE P(s) == IndicesAt(ks, s)
           n(s) == Cardinality(P(s))
<1>1. \A s \in Servers :
        /\ n(s) \in Nat /\ DOMAIN wq'[cl][s] = 1 .. n(s) /\ InOrder(P(s)) \in [1 .. n(s) -> P(s)]
        /\ \A i \in P(s) : \E a \in 1 .. n(s) : InOrder(P(s))[a] = i
        /\ \A j \in 1 .. n(s) : /\ wq'[cl][s][j].id = InOrder(P(s))[j]
                                /\ wq'[cl][s][j].sig = TRUE
  <2> TAKE s \in Servers
  <2> DEFINE q == wq'[cl][s]
             ch == ReadsAt(ks, s, Len(ks))
  <2>1. /\ n(s) \in Nat /\ DOMAIN ch = 1 .. n(s) /\ InOrder(P(s)) \in [1 .. n(s) -> P(s)]
        /\ \A i \in P(s) : \E a \in 1 .. n(s) : InOrder(P(s))[a] = i
        /\ \A j \in 1 .. n(s) : /\ ch[j].id = InOrder(P(s))[j]
                                /\ ch[j].sig = TRUE
    BY ReadsAtFields
  <2>2. q = ch OBVIOUS
  <2> HIDE DEF q, ch, P, n
  <2>3. /\ DOMAIN q = 1 .. n(s)
        /\ \A j \in 1 .. n(s) : /\ q[j].id = InOrder(P(s))[j]
                                /\ q[j].sig = TRUE
    BY <2>1, <2>2
  <2> QED BY <2>1, <2>3 DEF q
<1>2. /\ \A s \in Servers : P(s) \in SUBSET (1 .. Len(ks))
      /\ \A i \in 1 .. Len(ks) : ShardOf(ks[i]) \in Servers /\ i \in P(ShardOf(ks[i]))
      /\ 1 .. Len(ks) \subseteq Ids
  BY Shares
<1> HIDE DEF P, n
<1>3. Pending(cl)' \subseteq 1 .. Len(ks)
  <2> SUFFICES ASSUME NEW id \in Pending(cl)' PROVE id \in 1 .. Len(ks)
    OBVIOUS
  <2>1. PICK s \in Servers : \E j \in DOMAIN wq'[cl][s] : wq'[cl][s][j].id = id
    BY DEF Pending
  <2>2. id \in P(s) BY <1>1, <2>1
  <2> QED BY <1>2, <2>2
<1>4. ASSUME NEW i \in 1 .. Len(ks) PROVE i \in Pending(cl)'
  <2> DEFINE s == ShardOf(ks[i])
  <2>1. s \in Servers /\ i \in P(s) /\ i \in Ids BY <1>2
  <2> HIDE DEF s
  <2>2. PICK a \in 1 .. n(s) : InOrder(P(s))[a] = i BY <1>1, <2>1
  <2>3. a \in DOMAIN wq'[cl][s] /\ wq'[cl][s][a].sig /\ wq'[cl][s][a].id = i
    BY <1>1, <2>1, <2>2
  <2> QED BY <2>1, <2>3 DEF Pending
<1>5. Pending(cl)' = 1 .. Len(ks)
  BY <1>3, <1>4
<1>6. Len(ks) \in Nat /\ Len(ks) >= 1
  BY KeySeqType
<1>7. Cardinality(1 .. Len(ks)) = Len(ks)
  <2>1. 1 \in Int /\ Len(ks) \in Int BY <1>6
  <2>2. Cardinality(1 .. Len(ks)) = IF 1 > Len(ks) THEN 0 ELSE Len(ks) - 1 + 1
    BY <2>1, FS_Interval
  <2> QED BY <1>6, <2>2
<1> QED BY <1>5, <1>7

LEMMA PutBatchLedger ==
  ASSUME TypeOK, TypeOK', NEW cl \in Clients, ClientLedger(cl), NEW ks \in KeySeqs, NEW vs,
         PutBatch(cl, ks, vs)
  PROVE  ClientLedger(cl)'
<1> DEFINE c == [op |-> "PutBatch", keys |-> ks, vals |-> vs]
<1>1. c.keys = ks /\ c.op = "PutBatch"
  OBVIOUS
<1>2. /\ phase[cl] = "idle"
      /\ \/ Return(cl, c, ErrRet)
         \/ /\ wq' = [wq EXCEPT ![cl] = [s \in Servers |-> @[s] \o WriteChain(ks, s)]]
            /\ Await(cl, c)
  BY DEF PutBatch
<1> HIDE DEF c
<1>3. CASE Return(cl, c, ErrRet)
  BY <1>3, ErrorLedger
<1>4. CASE /\ wq' = [wq EXCEPT ![cl] = [s \in Servers |-> @[s] \o WriteChain(ks, s)]]
           /\ Await(cl, c)
  <2>1. /\ phase'[cl] = "polling" /\ call'[cl] = c /\ completed'[cl] = 0
        /\ abandoned'[cl] = abandoned[cl]
    BY <1>4 DEF Await, TypeOK
  <2> SUFFICES ASSUME ~abandoned[cl] PROVE Balanced(cl)'
    BY <2>1 DEF ClientLedger
  <2>2. \A s \in Servers : wq'[cl][s] = WriteChain(ks, s)
    <3> TAKE s \in Servers
    <3>1. wq[cl][s] = <<>> BY <1>2 DEF ClientLedger, EmptyQueues
    <3>2. wq'[cl][s] = <<>> \o WriteChain(ks, s) BY <1>4, <3>1 DEF TypeOK
    <3> DEFINE r == WriteChain(ks, s)
               n == Cardinality(IndicesAt(ks, s))
    <3>3. n \in Nat /\ DOMAIN r = 1 .. n BY WriteChainFields
    <3>4. r = [j \in DOMAIN r |-> r[j]] BY DEF WriteChain
    <3> HIDE DEF r, n
    <3>5. r \in Seq({r[j] : j \in 1 .. n}) BY <3>3, <3>4
    <3>6. <<>> \o r = r BY <3>5
    <3> QED BY <3>2, <3>6 DEF r
  <2>3. AllCount(cl)' /\ IdsDiffer(cl)' /\ TailSignaled(cl)' /\ ReportedInOrder(cl)'
    <3>1. \A s \in Servers :
            LET P == IndicesAt(ks, s)
                n == Cardinality(P)
                q == wq'[cl][s]
            IN /\ n \in Nat /\ DOMAIN q = 1 .. n /\ InOrder(P) \in [1 .. n -> P]
               /\ \A a, b \in 1 .. n : a < b => InOrder(P)[a] < InOrder(P)[b]
               /\ \A j \in 1 .. n : /\ q[j].id = InOrder(P)[j]
                                    /\ j = n => q[j].sig
                                    /\ q[j].cqe = "none"
      <4> TAKE s \in Servers
      <4> DEFINE q == wq'[cl][s]
                 P == IndicesAt(ks, s)
                 n == Cardinality(P)
                 ch == WriteChain(ks, s)
      <4>1. /\ n \in Nat /\ DOMAIN ch = 1 .. n /\ InOrder(P) \in [1 .. n -> P]
            /\ \A a, b \in 1 .. n : a < b => InOrder(P)[a] < InOrder(P)[b]
            /\ \A j \in 1 .. n : /\ ch[j].id = InOrder(P)[j]
                                 /\ ch[j].sig = (j = n)
                                 /\ ch[j].cqe = "none"
        BY WriteChainFields
      <4>2. q = ch BY <2>2
      <4> HIDE DEF q, ch, n, P
      <4>3. /\ n \in Nat /\ DOMAIN q = 1 .. n /\ InOrder(P) \in [1 .. n -> P]
            /\ \A a, b \in 1 .. n : a < b => InOrder(P)[a] < InOrder(P)[b]
            /\ \A j \in 1 .. n : /\ q[j].id = InOrder(P)[j]
                                 /\ j = n => q[j].sig
                                 /\ q[j].cqe = "none"
        BY <4>1, <4>2
      <4> QED BY <4>3 DEF q, n, P
    <3>2. call'[cl].op \in {"PutBatch", "GetBatch"} BY <2>1, <1>1
    <3> QED BY <3>1, <3>2, BatchPosted
  <2>4. Cardinality(Pending(cl)') = Cardinality(Involved(c))
    BY <1>1, <2>2, OnePerServer
  <2>5. Total(c) = Cardinality(Involved(c)) /\ Cardinality(Involved(c)) \in Nat
    BY <1>1, <2>4, PendingType, SomeIds DEF Total
  <2> QED BY <2>1, <2>3, <2>4, <2>5 DEF Balanced
<1> QED BY <1>2, <1>3, <1>4

LEMMA GetBatchLedger ==
  ASSUME TypeOK, TypeOK', NEW cl \in Clients, ClientLedger(cl), NEW ks \in KeySeqs,
         GetBatch(cl, ks)
  PROVE  ClientLedger(cl)'
<1> DEFINE c == [op |-> "GetBatch", keys |-> ks, vals |-> <<>>]
<1>1. c.keys = ks /\ c.op = "GetBatch"
  OBVIOUS
<1>2. /\ phase[cl] = "idle"
      /\ \/ Return(cl, c, ErrRet)
         \/ /\ wq' = [wq EXCEPT ![cl] = [s \in Servers |-> @[s] \o ReadsAt(ks, s, Len(ks))]]
            /\ Await(cl, c)
  BY DEF GetBatch
<1> HIDE DEF c
<1>3. CASE Return(cl, c, ErrRet)
  BY <1>3, ErrorLedger
<1>4. CASE /\ wq' = [wq EXCEPT ![cl] = [s \in Servers |-> @[s] \o ReadsAt(ks, s, Len(ks))]]
           /\ Await(cl, c)
  <2>1. /\ phase'[cl] = "polling" /\ call'[cl] = c /\ completed'[cl] = 0
        /\ abandoned'[cl] = abandoned[cl]
    BY <1>4 DEF Await, TypeOK
  <2> SUFFICES ASSUME ~abandoned[cl] PROVE Balanced(cl)'
    BY <2>1 DEF ClientLedger
  <2>2. \A s \in Servers : wq'[cl][s] = ReadsAt(ks, s, Len(ks))
    <3> TAKE s \in Servers
    <3>1. wq[cl][s] = <<>> BY <1>2 DEF ClientLedger, EmptyQueues
    <3>2. wq'[cl][s] = <<>> \o ReadsAt(ks, s, Len(ks)) BY <1>4, <3>1 DEF TypeOK
    <3> DEFINE r == ReadsAt(ks, s, Len(ks))
               n == Cardinality(IndicesAt(ks, s))
    <3>3. n \in Nat /\ DOMAIN r = 1 .. n BY ReadsAtFields
    <3>4. r = [j \in DOMAIN r |-> r[j]] BY DEF ReadsAt
    <3> HIDE DEF r, n
    <3>5. r \in Seq({r[j] : j \in 1 .. n}) BY <3>3, <3>4
    <3>6. <<>> \o r = r BY <3>5
    <3> QED BY <3>2, <3>6 DEF r
  <2>3. AllCount(cl)' /\ IdsDiffer(cl)' /\ TailSignaled(cl)' /\ ReportedInOrder(cl)'
    <3>1. \A s \in Servers :
            LET P == IndicesAt(ks, s)
                n == Cardinality(P)
                q == wq'[cl][s]
            IN /\ n \in Nat /\ DOMAIN q = 1 .. n /\ InOrder(P) \in [1 .. n -> P]
               /\ \A a, b \in 1 .. n : a < b => InOrder(P)[a] < InOrder(P)[b]
               /\ \A j \in 1 .. n : /\ q[j].id = InOrder(P)[j]
                                    /\ j = n => q[j].sig
                                    /\ q[j].cqe = "none"
      <4> TAKE s \in Servers
      <4> DEFINE q == wq'[cl][s]
                 P == IndicesAt(ks, s)
                 n == Cardinality(P)
                 ch == ReadsAt(ks, s, Len(ks))
      <4>1. /\ n \in Nat /\ DOMAIN ch = 1 .. n /\ InOrder(P) \in [1 .. n -> P]
            /\ \A a, b \in 1 .. n : a < b => InOrder(P)[a] < InOrder(P)[b]
            /\ \A j \in 1 .. n : /\ ch[j].id = InOrder(P)[j]
                                 /\ j = n => ch[j].sig
                                 /\ ch[j].cqe = "none"
        BY ReadsAtFields
      <4>2. q = ch BY <2>2
      <4> HIDE DEF q, ch, n, P
      <4>3. /\ n \in Nat /\ DOMAIN q = 1 .. n /\ InOrder(P) \in [1 .. n -> P]
            /\ \A a, b \in 1 .. n : a < b => InOrder(P)[a] < InOrder(P)[b]
            /\ \A j \in 1 .. n : /\ q[j].id = InOrder(P)[j]
                                 /\ j = n => q[j].sig
                                 /\ q[j].cqe = "none"
        BY <4>1, <4>2
      <4> QED BY <4>3 DEF q, n, P
    <3>2. call'[cl].op \in {"PutBatch", "GetBatch"} BY <2>1, <1>1
    <3> QED BY <3>1, <3>2, BatchPosted
  <2>4. Cardinality(Pending(cl)') = Len(ks)
    BY <2>2, OnePerKey
  <2>5. Total(c) = Len(ks) /\ Len(ks) \in Nat
    BY <1>1, KeySeqType DEF Total
  <2> QED BY <2>1, <2>3, <2>4, <2>5 DEF Balanced
<1> QED BY <1>2, <1>3, <1>4

(* A call of one WR.                                                       *)
LEMMA SingleLedger ==
  ASSUME TypeOK, NEW cl \in Clients, ClientLedger(cl), NEW k \in Keys, NEW v,
         Put(cl, k, v) \/ Write(cl, k, v) \/ Send(cl, k, v) \/ Get(cl, k)
  PROVE  ClientLedger(cl)'
<1>1. ASSUME NEW op, NEW vals, NEW wr, phase[cl] = "idle",
             Issue(cl, [op |-> op, keys |-> <<k>>, vals |-> vals], wr),
             op \in {"Put", "Write", "Send", "Get"},
             wr.id = IF op = "Get" THEN 2 ELSE 1, wr.sig
      PROVE  ClientLedger(cl)'
  <2> DEFINE c == [op |-> op, keys |-> <<k>>, vals |-> vals]
  <2>1. c.keys \in KeySeqs /\ c.op = op BY SingleKeyType
  <2>2. Issue(cl, c, wr) BY <1>1
  <2> HIDE DEF c
  <2>3. Total(c) = 1 BY <1>1, <2>1 DEF Total
  <2>4. wr.id \in Ids /\ wr.id > 0 BY <1>1 DEF Ids
  <2>5. Counts(op, wr.id)
    <3>1. CASE op = "Get" BY <1>1, <3>1 DEF Counts
    <3>2. CASE op = "Put" BY <1>1, <3>2 DEF Counts
    <3>3. CASE op \in {"Write", "Send"} BY <2>4, <3>3 DEF Counts
    <3> QED BY <1>1, <3>1, <3>2, <3>3
  <2>6. Counts(c.op, wr.id) BY <2>1, <2>5
  <2> QED BY <1>1, <2>1, <2>2, <2>3, <2>4, <2>6, IssueLedger
<1>2. \A op, a, id : Wr(op, 0, a, id, TRUE).id = id /\ Wr(op, 0, a, id, TRUE).sig
  BY DEF Wr
<1>3. CASE Put(cl, k, v)
  <2> DEFINE wr == Wr("write", 0, k, 1, TRUE)
  <2>1. phase[cl] = "idle" /\ Issue(cl, [op |-> "Put", keys |-> <<k>>, vals |-> <<v>>], wr)
    BY <1>3 DEF Put
  <2>2. wr.id = 1 /\ wr.sig BY <1>2
  <2> HIDE DEF wr
  <2> QED BY <2>1, <2>2, <1>1
<1>4. CASE Write(cl, k, v)
  <2> DEFINE wr == Wr("write", 0, k, 1, TRUE)
  <2>1. phase[cl] = "idle" /\ Issue(cl, [op |-> "Write", keys |-> <<k>>, vals |-> <<v>>], wr)
    BY <1>4 DEF Write
  <2>2. wr.id = 1 /\ wr.sig BY <1>2
  <2> HIDE DEF wr
  <2> QED BY <2>1, <2>2, <1>1
<1>5. CASE Send(cl, k, v)
  <2> DEFINE wr == Wr("send", 0, RecvCell, 1, TRUE)
  <2>1. phase[cl] = "idle" /\ Issue(cl, [op |-> "Send", keys |-> <<k>>, vals |-> <<v>>], wr)
    BY <1>5 DEF Send
  <2>2. wr.id = 1 /\ wr.sig BY <1>2
  <2> HIDE DEF wr
  <2> QED BY <2>1, <2>2, <1>1
<1>6. CASE Get(cl, k)
  <2> DEFINE wr == Wr("read", 0, k, 2, TRUE)
  <2>1. phase[cl] = "idle" /\ Issue(cl, [op |-> "Get", keys |-> <<k>>, vals |-> <<>>], wr)
    BY <1>6 DEF Get
  <2>2. wr.id = 2 /\ wr.sig BY <1>2
  <2> HIDE DEF wr
  <2> QED BY <2>1, <2>2, <1>1
<1> QED BY <1>3, <1>4, <1>5, <1>6

(* What the NIC and the server do changes no id and no signal flag, and    *)
(* reports WRs in order.                                                   *)
LEMMA NicMarks ==
  ASSUME TypeOK, NEW cl \in Clients, NEW s \in Servers,
         Nic(cl, s) \/ Fault(cl, s) \/ ServerRepost(cl, s)
  PROVE  /\ UNCHANGED callVars
         /\ \/ wq' = wq
            \/ \E i \in DOMAIN wq[cl][s], w \in WorkRequest :
                 /\ Rewrites(cl, s, i, w)
                 /\ w.id = wq[cl][s][i].id /\ w.sig = wq[cl][s][i].sig
                 /\ w.cqe = wq[cl][s][i].cqe \/ Unreported(wq[cl][s], i)
<1> DEFINE Marked ==
             \E i \in DOMAIN wq[cl][s], w \in WorkRequest :
               /\ Rewrites(cl, s, i, w)
               /\ w.id = wq[cl][s][i].id /\ w.sig = wq[cl][s][i].sig
               /\ w.cqe = wq[cl][s][i].cqe \/ Unreported(wq[cl][s], i)
<1> SUFFICES UNCHANGED callVars /\ (wq' = wq \/ Marked)
  OBVIOUS
<1>1. ASSUME NEW i \in DOMAIN wq[cl][s], NEW w,
             wq' = [wq EXCEPT ![cl][s][i] = w], UNCHANGED callVars,
             \/ w = [wq[cl][s][i] EXCEPT !.done = TRUE]
             \/ \E v \in Value : w = [wq[cl][s][i] EXCEPT !.done = TRUE, !.val = v]
             \/ \E v \in Value : w = [wq[cl][s][i] EXCEPT !.val = v]
             \/ Unreported(wq[cl][s], i) /\ w = [wq[cl][s][i] EXCEPT !.cqe = "ok"]
             \/ Unreported(wq[cl][s], i) /\ w = [wq[cl][s][i] EXCEPT !.cqe = "err"]
      PROVE  UNCHANGED callVars /\ Marked
  <2>1. wq[cl][s][i] \in WorkRequest BY DEF TypeOK
  <2>2. /\ w \in WorkRequest
        /\ w.id = wq[cl][s][i].id /\ w.sig = wq[cl][s][i].sig
        /\ w.cqe = wq[cl][s][i].cqe \/ Unreported(wq[cl][s], i)
    <3>1. CASE w = [wq[cl][s][i] EXCEPT !.done = TRUE]
      BY <2>1, <3>1 DEF WorkRequest
    <3>2. CASE \E v \in Value : w = [wq[cl][s][i] EXCEPT !.done = TRUE, !.val = v]
      BY <2>1, <3>2 DEF WorkRequest
    <3>3. CASE \E v \in Value : w = [wq[cl][s][i] EXCEPT !.val = v]
      BY <2>1, <3>3 DEF WorkRequest
    <3>4. CASE Unreported(wq[cl][s], i) /\ w = [wq[cl][s][i] EXCEPT !.cqe = "ok"]
      BY <2>1, <3>4 DEF WorkRequest
    <3>5. CASE Unreported(wq[cl][s], i) /\ w = [wq[cl][s][i] EXCEPT !.cqe = "err"]
      BY <2>1, <3>5 DEF WorkRequest
    <3> QED BY <1>1, <3>1, <3>2, <3>3, <3>4, <3>5
  <2> QED BY <1>1, <2>2 DEF Rewrites
<1> HIDE DEF Marked
<1>2. \A i \in DOMAIN wq[cl][s] : mem[s][wq[cl][s][i].addr] \in Value
  <2> TAKE i \in DOMAIN wq[cl][s]
  <2>1. wq[cl][s][i] \in WorkRequest BY DEF TypeOK
  <2>2. wq[cl][s][i].addr \in Cells BY <2>1 DEF WorkRequest
  <2> QED BY <2>2 DEF TypeOK
<1>3. CASE NicWrite(cl, s) \/ NicSend(cl, s)
  <2>1. PICK i \in DOMAIN wq[cl][s] :
          wq' = [wq EXCEPT ![cl][s][i].done = TRUE] /\ UNCHANGED callVars
    BY <1>3 DEF NicWrite, NicSend
  <2> DEFINE w == [wq[cl][s][i] EXCEPT !.done = TRUE]
  <2>2. wq' = [wq EXCEPT ![cl][s][i] = w] BY <2>1
  <2> QED BY <2>1, <2>2, <1>1
<1>4. CASE NicRead(cl, s)
  <2>1. PICK i \in DOMAIN wq[cl][s] :
          /\ wq' = [wq EXCEPT ![cl][s][i] =
                      [wq[cl][s][i] EXCEPT !.done = TRUE, !.val = mem[s][wq[cl][s][i].addr]]]
          /\ UNCHANGED callVars
    BY <1>4 DEF NicRead
  <2> QED BY <2>1, <1>1, <1>2
<1>5. CASE NicRetryRead(cl, s)
  <2>1. PICK i \in DOMAIN wq[cl][s] :
          /\ wq' = [wq EXCEPT ![cl][s][i].val = mem[s][wq[cl][s][i].addr]]
          /\ UNCHANGED callVars
    BY <1>5 DEF NicRetryRead
  <2> DEFINE w == [wq[cl][s][i] EXCEPT !.val = mem[s][wq[cl][s][i].addr]]
  <2>2. wq' = [wq EXCEPT ![cl][s][i] = w] BY <2>1
  <2> QED BY <2>1, <2>2, <1>1, <1>2
<1>6. CASE NicComplete(cl, s)
  <2>1. PICK i \in DOMAIN wq[cl][s] :
          /\ wq' = [wq EXCEPT ![cl][s][i].cqe = "ok"] /\ UNCHANGED callVars
          /\ Unreported(wq[cl][s], i)
    BY <1>6 DEF NicComplete
  <2> DEFINE w == [wq[cl][s][i] EXCEPT !.cqe = "ok"]
  <2>2. wq' = [wq EXCEPT ![cl][s][i] = w] BY <2>1
  <2> QED BY <2>1, <2>2, <1>1
<1>7. CASE NicFail(cl, s) \/ NicFlush(cl, s)
  <2>1. PICK i \in DOMAIN wq[cl][s] :
          /\ wq' = [wq EXCEPT ![cl][s][i].cqe = "err"] /\ UNCHANGED callVars
          /\ Unreported(wq[cl][s], i)
    BY <1>7 DEF NicFail, NicFlush
  <2> DEFINE w == [wq[cl][s][i] EXCEPT !.cqe = "err"]
  <2>2. wq' = [wq EXCEPT ![cl][s][i] = w] BY <2>1
  <2> QED BY <2>1, <2>2, <1>1
<1>8. CASE ServerRepost(cl, s) \/ ServerHandlerReturns(cl, s)
  <2>1. wq' = wq /\ UNCHANGED callVars
    BY <1>8 DEF ServerRepost, ServerHandlerReturns
  <2> QED BY <2>1
<1> QED BY <1>3, <1>4, <1>5, <1>6, <1>7, <1>8 DEF Nic, Fault

LEMMA NicLedger ==
  ASSUME TypeOK, TypeOK', NEW cl \in Clients, ClientLedger(cl), NEW s \in Servers,
         Nic(cl, s) \/ Fault(cl, s) \/ ServerRepost(cl, s)
  PROVE  ClientLedger(cl)'
<1>1. /\ UNCHANGED callVars
      /\ \/ wq' = wq
         \/ \E i \in DOMAIN wq[cl][s], w \in WorkRequest :
              /\ Rewrites(cl, s, i, w)
              /\ w.id = wq[cl][s][i].id /\ w.sig = wq[cl][s][i].sig
              /\ w.cqe = wq[cl][s][i].cqe \/ Unreported(wq[cl][s], i)
  BY NicMarks
<1>2. CASE wq' = wq
  BY <1>1, <1>2, LedgerKept DEF callVars
<1>3. CASE wq' # wq
  BY <1>1, <1>3, MarkLedger
<1> QED BY <1>2, <1>3

(* A step of one client leaves the queues and calls of the others alone.   *)
LEMMA OthersKept ==
  ASSUME TypeOK, NEW cl \in Clients, NEW d \in Clients, d # cl, Call(cl) \/ Progress(cl)
  PROVE  /\ wq'[d] = wq[d] /\ phase'[d] = phase[d] /\ call'[d] = call[d]
         /\ completed'[d] = completed[d] /\ abandoned'[d] = abandoned[d]
<1> DEFINE Kept == /\ phase'[d] = phase[d] /\ call'[d] = call[d]
                   /\ completed'[d] = completed[d] /\ abandoned'[d] = abandoned[d]
<1>1. ASSUME NEW c, NEW r, Return(cl, c, r) PROVE Kept
  BY <1>1 DEF Return, TypeOK
<1>2. ASSUME NEW c, Await(cl, c) PROVE Kept
  BY <1>2 DEF Await, TypeOK
<1>3. ASSUME NEW s, NEW k, Advance(cl, s, k) PROVE Kept
  BY <1>1, <1>3 DEF Advance, TypeOK
<1>4. ASSUME NEW c, NEW wr, Issue(cl, c, wr) PROVE wq'[d] = wq[d] /\ Kept
  <2>1. Kept BY <1>1, <1>2, <1>4 DEF Issue
  <2>2. wq'[d] = wq[d] BY <1>4 DEF Issue, TypeOK
  <2> QED BY <2>1, <2>2
<1> HIDE DEF Kept
<1>5. ASSUME NEW k, NEW v, Put(cl, k, v) \/ Write(cl, k, v) \/ Send(cl, k, v) \/ Get(cl, k)
      PROVE  wq'[d] = wq[d] /\ Kept
  BY <1>4, <1>5 DEF Put, Write, Send, Get
<1>6. ASSUME NEW ks, NEW vs, PutBatch(cl, ks, vs) PROVE wq'[d] = wq[d] /\ Kept
  <2>1. wq'[d] = wq[d] BY <1>6 DEF PutBatch, TypeOK
  <2>2. Kept BY <1>1, <1>2, <1>6 DEF PutBatch
  <2> QED BY <2>1, <2>2
<1>7. ASSUME NEW ks, GetBatch(cl, ks) PROVE wq'[d] = wq[d] /\ Kept
  <2>1. wq'[d] = wq[d] BY <1>7 DEF GetBatch, TypeOK
  <2>2. Kept BY <1>1, <1>2, <1>7 DEF GetBatch
  <2> QED BY <2>1, <2>2
<1>8. CASE Call(cl)
  <2>1. wq'[d] = wq[d] /\ Kept BY <1>5, <1>6, <1>7, <1>8 DEF Call
  <2> QED BY <2>1 DEF Kept
<1>9. CASE Progress(cl)
  <2>1. CASE Close(cl) BY <2>1 DEF Close, TypeOK
  <2>2. ASSUME NEW s \in Servers, PollEmpty(cl, s) PROVE wq'[d] = wq[d] /\ Kept
    BY <2>2, <1>3 DEF PollEmpty, nicVars
  <2>3. ASSUME NEW s \in Servers, PollCqe(cl, s) PROVE wq'[d] = wq[d] /\ Kept
    <3>1. wq'[d] = wq[d] BY <2>3 DEF PollCqe, TypeOK
    <3>2. Kept BY <2>3, <1>1, <1>3 DEF PollCqe
    <3> QED BY <3>1, <3>2
  <2>4. ASSUME NEW s \in Servers, Nic(cl, s) PROVE wq'[d] = wq[d] /\ UNCHANGED callVars
    <3>1. CASE NicWrite(cl, s) BY <3>1 DEF NicWrite, TypeOK
    <3>2. CASE NicRead(cl, s) BY <3>2 DEF NicRead, TypeOK
    <3>3. CASE NicSend(cl, s) BY <3>3 DEF NicSend, TypeOK
    <3>4. CASE NicComplete(cl, s) BY <3>4 DEF NicComplete, TypeOK
    <3>5. CASE NicFlush(cl, s) BY <3>5 DEF NicFlush, TypeOK
    <3> QED BY <2>4, <3>1, <3>2, <3>3, <3>4, <3>5 DEF Nic
  <2>5. ASSUME NEW s \in Servers, Fault(cl, s) \/ ServerRepost(cl, s)
        PROVE  wq'[d] = wq[d] /\ UNCHANGED callVars
    <3>1. CASE NicRetryRead(cl, s) BY <3>1 DEF NicRetryRead, TypeOK
    <3>2. CASE NicFail(cl, s) BY <3>2 DEF NicFail, TypeOK
    <3>3. CASE ServerHandlerReturns(cl, s) BY <3>3 DEF ServerHandlerReturns
    <3>4. CASE ServerRepost(cl, s) BY <3>4 DEF ServerRepost
    <3> QED BY <2>5, <3>1, <3>2, <3>3, <3>4 DEF Fault
  <2> QED BY <1>9, <2>1, <2>2, <2>3, <2>4, <2>5 DEF Progress, Poll, Kept, callVars
<1> QED BY <1>8, <1>9

LEMMA LedgerStep ==
  ASSUME TypeInv, TypeOK', Ledger, [Next]_vars
  PROVE  Ledger'
<1> SUFFICES ASSUME NEW d \in Clients PROVE ClientLedger(d)'
  BY DEF Ledger
<1>1. ClientLedger(d) /\ TypeOK
  BY DEF Ledger, TypeInv
<1>2. ASSUME NEW cl \in Clients, cl # d, Call(cl) \/ Progress(cl) PROVE ClientLedger(d)'
  BY <1>1, <1>2, OthersKept, LedgerKept
<1>3. CASE Call(d)
  <2>1. ASSUME NEW ks \in KeySeqs, NEW vs, PutBatch(d, ks, vs) PROVE ClientLedger(d)'
    BY <1>1, <2>1, PutBatchLedger
  <2>2. ASSUME NEW ks \in KeySeqs, GetBatch(d, ks) PROVE ClientLedger(d)'
    BY <1>1, <2>2, GetBatchLedger
  <2>3. ASSUME NEW k \in Keys, NEW v,
               Put(d, k, v) \/ Write(d, k, v) \/ Send(d, k, v) \/ Get(d, k)
        PROVE  ClientLedger(d)'
    BY <1>1, <2>3, SingleLedger
  <2> QED BY <1>3, <2>1, <2>2, <2>3 DEF Call
<1>4. CASE Progress(d)
  <2>1. CASE Close(d)
    <3>1. phase'[d] = "closed" BY <1>1, <2>1 DEF Close, TypeOK
    <3> QED BY <3>1 DEF ClientLedger
  <2>2. ASSUME NEW s \in Servers, Poll(d, s) PROVE ClientLedger(d)'
    BY <1>1, <2>2, PollEmptyLedger, PollCqeLedger DEF Poll
  <2>3. ASSUME NEW s \in Servers, Nic(d, s) \/ Fault(d, s) \/ ServerRepost(d, s)
        PROVE  ClientLedger(d)'
    BY <1>1, <2>3, NicLedger
  <2> QED BY <1>4, <2>1, <2>2, <2>3 DEF Progress
<1>5. CASE UNCHANGED vars
  BY <1>1, <1>5, LedgerKept DEF vars, nicVars, callVars
<1> QED BY <1>2, <1>3, <1>4, <1>5 DEF Next

(* Until a call of a client is abandoned the books of its poll loop        *)
(* balance: every WR it has outstanding will be counted once.              *)
THEOREM LedgerKeeps == Spec => []Ledger
<1>1. Init => Ledger
  BY DEF Init, Ledger, ClientLedger, EmptyQueues
<1>2. TypeInv /\ TypeInv' /\ Ledger /\ [Next]_vars => Ledger'
  BY LedgerStep DEF TypeInv
<1> QED BY <1>1, <1>2, TypeInvariant, PTL DEF Spec
=============================================================================
