---------------------------- MODULE KvStoreProofs ----------------------------
(* KvClient implements KvStore; keys and reads keep their values, and what *)
(* each step of a client that abandoned no call does to the items of its   *)
(* call, for every value of the constants.                                 *)
EXTENDS KvLedgerProofs, KvRefinement

USE ServersAssumption, KeysAssumption, DepthAssumption

Items(cl) == 1 .. Len(call[cl].keys)
InFlight(cl) == Carries(cl) /\ Sorted(cl) /\ Staged(cl)
Here(k) == mem[ShardOf(k)][k]

(* The step makes the WR at place j of the queue to s into w.              *)
Marks(cl, s, j, w) ==
  /\ j \in DOMAIN wq[cl][s]
  /\ \A t \in Servers :
       /\ DOMAIN wq'[cl][t] = DOMAIN wq[cl][t]
       /\ \A k \in DOMAIN wq[cl][t] :
            wq'[cl][t][k] = IF t = s /\ k = j THEN w ELSE wq[cl][t][k]

(* What a step may do to the items of client cl: nothing, or item i of a   *)
(* batch is written, or item i of a read looks at the memory.              *)
ItemsRest(cl) ==
  /\ Todo(cl)' = Todo(cl)
  /\ \A i \in Items(cl) : Seen(cl, i)' = Seen(cl, i)

ItemWritten(cl, i) ==
  /\ ~Reads(call[cl]) /\ i \in Todo(cl)
  /\ \A j \in Todo(cl) : j < i => call[cl].keys[j] # call[cl].keys[i]
  /\ LET k == call[cl].keys[i]
     IN mem' = [mem EXCEPT ![ShardOf(k)][k] = call[cl].vals[i]]
  /\ Todo(cl)' = Todo(cl) \ {i}
  /\ \A j \in Items(cl) : Seen(cl, j)' = Seen(cl, j)

ItemRead(cl, i) ==
  /\ Reads(call[cl])
  /\ mem' = mem
  /\ Todo(cl)' = Todo(cl) \ {i}
  /\ Seen(cl, i)' = Here(call[cl].keys[i])
  /\ \A j \in Items(cl) \ {i} : Seen(cl, j)' = Seen(cl, j)

LEMMA QueueType ==
  ASSUME TypeOK, NEW cl \in Clients, NEW s \in Servers
  PROVE  /\ wq[cl][s] \in Seq(WorkRequest)
         /\ Len(wq[cl][s]) \in Nat /\ DOMAIN wq[cl][s] = 1 .. Len(wq[cl][s])
         /\ \A j \in DOMAIN wq[cl][s] :
              /\ wq[cl][s][j] \in WorkRequest
              /\ wq[cl][s][j].cell \in BufIndex /\ wq[cl][s][j].cell \in Int
<1>1. wq[cl][s] \in Seq(WorkRequest)
  BY DEF TypeOK
<1>2. \A w \in WorkRequest : w.cell \in BufIndex /\ w.cell \in Int
  BY DEF WorkRequest, BufIndex
<1> QED BY <1>1, <1>2

(* Two WRs of a client never carry out one item.                           *)
LEMMA OneEach ==
  ASSUME TypeOK, NEW cl \in Clients, Carries(cl), Sorted(cl),
         NEW s \in Servers, NEW t \in Servers,
         NEW i \in DOMAIN wq[cl][s], NEW j \in DOMAIN wq[cl][t],
         wq[cl][s][i].cell = wq[cl][t][j].cell
  PROVE  s = t /\ i = j
<1>1. s = t
  BY DEF Carries, ItemOf
<1>2. i \in Nat /\ j \in Nat /\ wq[cl][s][i].cell \in Int
  BY QueueType
<1> QED BY <1>1, <1>2 DEF Sorted

LEMMA Marking ==
  ASSUME TypeOK, NEW cl \in Clients, NEW s \in Servers, NEW j \in DOMAIN wq[cl][s], NEW w,
         wq' = [wq EXCEPT ![cl][s][j] = w]
  PROVE  Marks(cl, s, j, w)
BY DEF TypeOK, Marks

(* A step of the NIC marks one WR: no other item is affected.              *)
LEMMA MarkCarrying ==
  ASSUME TypeOK, NEW cl \in Clients, NEW s \in Servers, Carries(cl), Sorted(cl),
         NEW j, NEW w, Marks(cl, s, j, w), w.cell = wq[cl][s][j].cell,
         NEW it, it = ItemOf(wq[cl][s][j])
  PROVE  /\ Carrying(cl, it) = {wq[cl][s][j]} /\ Carrying(cl, it)' = {w}
         /\ \A i : i # it => Carrying(cl, i)' = Carrying(cl, i)
<1> DEFINE o == wq[cl][s][j]
<1>1. /\ j \in DOMAIN wq[cl][s]
      /\ \A t \in Servers :
           /\ DOMAIN wq'[cl][t] = DOMAIN wq[cl][t]
           /\ \A k \in DOMAIN wq[cl][t] :
                wq'[cl][t][k] = IF t = s /\ k = j THEN w ELSE wq[cl][t][k]
  BY DEF Marks
<1>2. \A t \in Servers : \A k \in DOMAIN wq[cl][t] :
        wq[cl][t][k].cell = o.cell => t = s /\ k = j
  BY <1>1, OneEach
<1>3. \A t \in Servers : \A k \in DOMAIN wq[cl][t] :
        /\ ItemOf(wq[cl][t][k]) = it <=> wq[cl][t][k].cell = o.cell
        /\ wq[cl][t][k].cell \in Int
  <2>1. o.cell \in Int /\ \A t \in Servers : \A k \in DOMAIN wq[cl][t] : wq[cl][t][k].cell \in Int
    BY <1>1, QueueType
  <2> QED BY <2>1 DEF ItemOf
<1>4. ItemOf(w) = it
  BY DEF ItemOf
<1> HIDE DEF o
<1>5. \A x, i : x \in Carrying(cl, i) <=>
        \E t \in Servers : \E k \in DOMAIN wq[cl][t] : x = wq[cl][t][k] /\ ItemOf(x) = i
  BY DEF Carrying, Outstanding
<1>6. \A x, i : x \in Carrying(cl, i)' <=>
        \E t \in Servers : \E k \in DOMAIN wq'[cl][t] : x = wq'[cl][t][k] /\ ItemOf(x) = i
  BY DEF Carrying, Outstanding, ItemOf
<1>7. Carrying(cl, it) = {o}
  <2>1. o \in Carrying(cl, it) BY <1>1, <1>5 DEF o
  <2>2. \A x \in Carrying(cl, it) : x = o BY <1>2, <1>3, <1>5 DEF o
  <2> QED BY <2>1, <2>2
<1>8. Carrying(cl, it)' = {w}
  <2>1. w \in Carrying(cl, it)'
    <3>1. j \in DOMAIN wq'[cl][s] /\ wq'[cl][s][j] = w BY <1>1
    <3> QED BY <3>1, <1>4, <1>6
  <2>2. \A x \in Carrying(cl, it)' : x = w
    <3> SUFFICES ASSUME NEW t \in Servers, NEW k \in DOMAIN wq[cl][t],
                        ItemOf(wq'[cl][t][k]) = it, ~(t = s /\ k = j)
                 PROVE  FALSE
      BY <1>1, <1>6
    <3>1. wq'[cl][t][k] = wq[cl][t][k] BY <1>1
    <3> QED BY <3>1, <1>2, <1>3
  <2> QED BY <2>1, <2>2
<1>9. ASSUME NEW i, i # it PROVE Carrying(cl, i)' = Carrying(cl, i)
  <2>1. ASSUME NEW x \in Carrying(cl, i) PROVE x \in Carrying(cl, i)'
    <3>1. PICK t \in Servers : \E k \in DOMAIN wq[cl][t] : x = wq[cl][t][k] /\ ItemOf(x) = i
      BY <1>5
    <3>2. PICK k \in DOMAIN wq[cl][t] : x = wq[cl][t][k] /\ ItemOf(x) = i
      BY <3>1
    <3>3. wq'[cl][t][k] = x /\ k \in DOMAIN wq'[cl][t] BY <1>1, <1>9, <3>2 DEF o
    <3> QED BY <1>6, <3>2, <3>3
  <2>2. ASSUME NEW x \in Carrying(cl, i)' PROVE x \in Carrying(cl, i)
    <3>1. PICK t \in Servers : \E k \in DOMAIN wq'[cl][t] : x = wq'[cl][t][k] /\ ItemOf(x) = i
      BY <1>6
    <3>2. PICK k \in DOMAIN wq'[cl][t] : x = wq'[cl][t][k] /\ ItemOf(x) = i
      BY <3>1
    <3>3. wq[cl][t][k] = x /\ k \in DOMAIN wq[cl][t] BY <1>1, <1>4, <1>9, <3>2
    <3> QED BY <1>5, <3>2, <3>3
  <2> QED BY <2>1, <2>2
<1> QED BY <1>7, <1>8, <1>9 DEF o

(* Items(cl) and the items to do, through the WRs that carry them.         *)
LEMMA TodoCarrying ==
  ASSUME NEW cl, NEW i
  PROVE  /\ i \in Todo(cl) <=> \E w \in Carrying(cl, i) : ~w.done
         /\ i \in Todo(cl)' <=> \E w \in Carrying(cl, i)' : ~w.done
<1>1. i \in Todo(cl) <=> \E w \in Carrying(cl, i) : ~w.done
  BY DEF Todo, Carrying
<1>2. i \in Todo(cl)' <=> \E w \in Carrying(cl, i)' : ~w.done
  BY DEF Todo, Carrying, ItemOf
<1> QED BY <1>1, <1>2

(* What a read has seen, by the state of the WR that carries it out.       *)
LEMMA SeenFlying ==
  ASSUME NEW cl, NEW i, NEW w, Carrying(cl, i) = {w}, Reads(call[cl])
  PROVE  Seen(cl, i) = IF ~w.done THEN Zero
                       ELSE IF w.cqe # "ok" THEN w.val ELSE buf[cl][ItemCell(i)]
<1>1. i \in Todo(cl) <=> ~w.done
  BY TodoCarrying
<1>2. CASE w.cqe # "ok" /\ w.done
  <2>1. {x \in Carrying(cl, i) : x.done /\ x.cqe # "ok"} = {w}
    BY <1>2
  <2>2. (CHOOSE x \in {w} : TRUE) = w
    OBVIOUS
  <2> QED BY <1>1, <1>2, <2>1, <2>2 DEF Seen
<1>3. CASE ~(w.cqe # "ok" /\ w.done)
  <2>1. {x \in Carrying(cl, i) : x.done /\ x.cqe # "ok"} = {}
    BY <1>3
  <2> QED BY <1>1, <1>3, <2>1 DEF Seen
<1> QED BY <1>2, <1>3

LEMMA SeenFlyingNext ==
  ASSUME NEW cl, NEW i, NEW w, Carrying(cl, i)' = {w}, Reads(call'[cl])
  PROVE  Seen(cl, i)' = IF ~w.done THEN Zero
                        ELSE IF w.cqe # "ok" THEN w.val ELSE buf'[cl][ItemCell(i)]
<1>1. i \in Todo(cl)' <=> ~w.done
  BY TodoCarrying
<1>2. CASE w.cqe # "ok" /\ w.done
  <2>1. {x \in Carrying(cl, i)' : x.done /\ x.cqe # "ok"} = {w}
    BY <1>2
  <2>2. (CHOOSE x \in {w} : TRUE) = w
    OBVIOUS
  <2> QED BY <1>1, <1>2, <2>1, <2>2 DEF Seen, Reads
<1>3. CASE ~(w.cqe # "ok" /\ w.done)
  <2>1. {x \in Carrying(cl, i)' : x.done /\ x.cqe # "ok"} = {}
    BY <1>3
  <2> QED BY <1>1, <1>3, <2>1 DEF Seen, Reads, ItemCell
<1> QED BY <1>2, <1>3

(* An item whose WR and whose cell are left alone.                         *)
LEMMA SeenKept ==
  ASSUME NEW cl, NEW i, Carrying(cl, i)' = Carrying(cl, i), call'[cl] = call[cl],
         buf'[cl][ItemCell(i)] = buf[cl][ItemCell(i)]
  PROVE  Seen(cl, i)' = Seen(cl, i) /\ (i \in Todo(cl)' <=> i \in Todo(cl))
<1>1. i \in Todo(cl)' <=> i \in Todo(cl)
  BY TodoCarrying
<1>2. {w \in Carrying(cl, i) : w.done /\ w.cqe # "ok"}' = {w \in Carrying(cl, i) : w.done /\ w.cqe # "ok"}
  OBVIOUS
<1> QED BY <1>1, <1>2 DEF Seen, Reads, ItemCell

(* The WRs go on carrying the items of the call when each is a WR from     *)
(* before with at most its completion changed.                             *)
LEMMA CarriesKept ==
  ASSUME NEW cl, Carries(cl), call'[cl] = call[cl],
         \A s \in Servers : \A j \in DOMAIN wq'[cl][s] : \E k \in DOMAIN wq[cl][s] :
           /\ wq'[cl][s][j].cell = wq[cl][s][k].cell /\ wq'[cl][s][j].addr = wq[cl][s][k].addr
           /\ wq'[cl][s][j].op = wq[cl][s][k].op
           /\ wq'[cl][s][j].cqe = "ok" => wq'[cl][s][j].done
  PROVE  Carries(cl)'
<1> DEFINE fits(t, cell, addr, op) ==
             /\ cell + 1 \in 1 .. Len(call[cl].keys)
             /\ addr = call[cl].keys[cell + 1] /\ t = ShardOf(addr)
             /\ op = IF call[cl].op \in {"Get", "GetBatch"} THEN "read" ELSE "write"
<1>1. \A s \in Servers : \A k \in DOMAIN wq[cl][s] :
        fits(s, wq[cl][s][k].cell, wq[cl][s][k].addr, wq[cl][s][k].op)
  BY DEF Carries, ItemOf, Reads
<1>2. \A s \in Servers : \A j \in DOMAIN wq'[cl][s] :
        /\ fits(s, wq'[cl][s][j].cell, wq'[cl][s][j].addr, wq'[cl][s][j].op)
        /\ wq'[cl][s][j].cqe = "ok" => wq'[cl][s][j].done
  <2> HIDE DEF fits
  <2> QED BY <1>1
<1> QED BY ONLY <1>2, call'[cl] = call[cl] DEF Carries, ItemOf, Reads

(* The items of a client in flight after the NIC has marked a WR.          *)
LEMMA MarkInFlight ==
  ASSUME TypeOK, TypeOK', NEW cl \in Clients, NEW s \in Servers, InFlight(cl),
         NEW j, NEW w, Marks(cl, s, j, w),
         w.cell = wq[cl][s][j].cell, w.addr = wq[cl][s][j].addr, w.op = wq[cl][s][j].op,
         w.cqe = "ok" => w.done, call' = call, Reads(call[cl]) \/ buf' = buf
  PROVE  InFlight(cl)'
<1>1. \A t \in Servers :
        /\ DOMAIN wq'[cl][t] = DOMAIN wq[cl][t]
        /\ \A k \in DOMAIN wq[cl][t] :
             wq'[cl][t][k] = IF t = s /\ k = j THEN w ELSE wq[cl][t][k]
  BY DEF Marks
<1>2. \A t \in Servers : \A k \in DOMAIN wq[cl][t] :
        /\ wq'[cl][t][k].cell = wq[cl][t][k].cell /\ wq'[cl][t][k].addr = wq[cl][t][k].addr
        /\ wq'[cl][t][k].op = wq[cl][t][k].op
        /\ wq'[cl][t][k].cqe = "ok" => wq'[cl][t][k].done
  BY <1>1 DEF InFlight, Carries
<1>3. Carries(cl)'
  <2>1. Carries(cl) /\ call'[cl] = call[cl] BY DEF InFlight
  <2>2. \A t \in Servers : DOMAIN wq'[cl][t] = DOMAIN wq[cl][t] BY <1>1
  <2> QED BY ONLY <1>2, <2>1, <2>2, CarriesKept
<1>4. Sorted(cl)' BY <1>1, <1>2 DEF InFlight, Sorted
<1>5. Staged(cl)' BY DEF InFlight, Staged, Reads, ItemCell
<1> QED BY <1>3, <1>4, <1>5 DEF InFlight

LEMMA ItemCellType ==
  ASSUME NEW cl, Staged(cl), NEW i \in Items(cl)
  PROVE  ItemCell(i) \in BufIndex
<1>1. BufCells \in Nat /\ Len(call[cl].keys) <= BufCells
  BY DEF Staged
<1>2. i \in Int /\ i >= 1 /\ i <= BufCells
  BY <1>1 DEF Items
<1> QED BY <1>1, <1>2 DEF ItemCell, BufIndex

(* The WR at place j of the queue to s, and the item it carries out.       *)
LEMMA WrOfItem ==
  ASSUME TypeOK, NEW cl \in Clients, NEW s \in Servers, Carries(cl),
         NEW j \in DOMAIN wq[cl][s]
  PROVE  LET w == wq[cl][s][j]
         IN /\ w \in WorkRequest /\ ItemOf(w) \in Items(cl) /\ ItemCell(ItemOf(w)) = w.cell
            /\ w.addr = call[cl].keys[ItemOf(w)] /\ s = ShardOf(w.addr)
            /\ w.op = IF Reads(call[cl]) THEN "read" ELSE "write"
            /\ w.cqe = "ok" => w.done
<1>1. wq[cl][s][j] \in WorkRequest /\ wq[cl][s][j].cell \in Int
  BY QueueType
<1>2. ItemCell(ItemOf(wq[cl][s][j])) = wq[cl][s][j].cell
  BY <1>1 DEF ItemCell, ItemOf
<1> QED BY <1>1, <1>2 DEF Carries, Items

LEMMA NicWriteEffect ==
  ASSUME TypeOK, TypeOK', NEW cl \in Clients, NEW s \in Servers, InFlight(cl), NicWrite(cl, s)
  PROVE  InFlight(cl)' /\ \E i \in Items(cl) : ItemWritten(cl, i)
<1>1. PICK j \in DOMAIN wq[cl][s] :
        /\ Executable(wq[cl][s], j) /\ wq[cl][s][j].op = "write"
        /\ mem' = [mem EXCEPT ![s][wq[cl][s][j].addr] = buf[cl][wq[cl][s][j].cell]]
        /\ wq' = [wq EXCEPT ![cl][s][j].done = TRUE]
        /\ UNCHANGED <<buf, callVars>>
  BY DEF NicWrite
<1> DEFINE o == wq[cl][s][j]
           it == ItemOf(o)
<1>2. /\ o \in WorkRequest /\ it \in Items(cl) /\ ItemCell(it) = o.cell
      /\ o.addr = call[cl].keys[it] /\ s = ShardOf(o.addr)
      /\ ~Reads(call[cl])
  BY <1>1, WrOfItem DEF InFlight
<1>0. PICK w : w = [o EXCEPT !.done = TRUE]
  OBVIOUS
<1>3. Marks(cl, s, j, w)
  BY <1>0, <1>1, Marking
<1>4. /\ w.cell = o.cell /\ w.addr = o.addr /\ w.op = o.op /\ w.done
      /\ w.cqe = o.cqe /\ ~o.done
  BY <1>0, <1>1, <1>2 DEF WorkRequest, Executable
<1>5. InFlight(cl)'
  BY <1>1, <1>3, <1>4, MarkInFlight DEF callVars
<1>6. PICK i : i = it
  OBVIOUS
<1>7. /\ Carrying(cl, i) = {o} /\ Carrying(cl, i)' = {w}
      /\ \A x : x # i => Carrying(cl, x)' = Carrying(cl, x)
  <2>1. Carries(cl) /\ Sorted(cl) BY DEF InFlight
  <2>2. i = ItemOf(wq[cl][s][j]) /\ w.cell = wq[cl][s][j].cell BY <1>4, <1>6
  <2> QED BY <1>1, <1>3, <2>1, <2>2, MarkCarrying
<1>8. i \in Todo(cl) /\ Todo(cl)' = Todo(cl) \ {i}
  <2>1. i \in Todo(cl) /\ i \notin Todo(cl)' BY <1>4, <1>7, TodoCarrying
  <2>2. \A x : x # i => (x \in Todo(cl)' <=> x \in Todo(cl)) BY <1>7, TodoCarrying
  <2> QED BY <2>1, <2>2
<1>9. mem' = [mem EXCEPT ![ShardOf(call[cl].keys[i])][call[cl].keys[i]] = call[cl].vals[i]]
  <2>1. buf[cl][ItemCell(i)] = call[cl].vals[i]
    BY <1>2, <1>6 DEF InFlight, Staged, Items
  <2> QED BY <1>1, <1>2, <1>6, <2>1
<1>10. \A x \in Items(cl) : Seen(cl, x)' = Seen(cl, x)
  BY <1>1, <1>2 DEF Seen, Reads, callVars
<1>11. \A x \in Todo(cl) : x < i => call[cl].keys[x] # call[cl].keys[i]
  <2> SUFFICES ASSUME NEW x \in Todo(cl), x < i, call[cl].keys[x] = call[cl].keys[i]
               PROVE  FALSE
    OBVIOUS
  <2>1. PICK t \in Servers : \E k \in DOMAIN wq[cl][t] :
          ItemOf(wq[cl][t][k]) = x /\ ~wq[cl][t][k].done
    BY DEF Todo, Outstanding
  <2>2. PICK k \in DOMAIN wq[cl][t] : ItemOf(wq[cl][t][k]) = x /\ ~wq[cl][t][k].done
    BY <2>1
  <2>3. t = s
    <3>1. wq[cl][t][k].addr = call[cl].keys[x] /\ t = ShardOf(wq[cl][t][k].addr)
      BY <2>2 DEF InFlight, Carries
    <3>2. o.addr = call[cl].keys[i] /\ s = ShardOf(o.addr)
      BY <1>2, <1>6
    <3> QED BY ONLY <3>1, <3>2, call[cl].keys[x] = call[cl].keys[i]
  <2>4. wq[cl][t][k].cell < o.cell
    <3>1. wq[cl][t][k].cell \in Int /\ o.cell \in Int BY QueueType
    <3> QED BY <3>1, <1>6, <2>2 DEF ItemOf
  <2>5. k < j
    <3>1. k \in Nat /\ j \in Nat /\ wq[cl][t][k].cell \in Int /\ o.cell \in Int
      BY QueueType
    <3>2. ~(j < k) BY <2>3, <2>4, <3>1 DEF InFlight, Sorted
    <3>3. k # j BY <2>3, <2>4, <3>1
    <3> QED BY <3>1, <3>2, <3>3
  <2>6. k \in 1 .. j - 1
    <3>1. k \in Nat /\ j \in Nat /\ k >= 1 BY QueueType
    <3> QED BY <3>1, <2>5
  <2> QED BY <1>1, <2>2, <2>3, <2>6 DEF Executable
<1>12. ItemWritten(cl, i)
  BY <1>2, <1>8, <1>9, <1>10, <1>11 DEF ItemWritten
<1> QED BY <1>2, <1>5, <1>6, <1>12

LEMMA NicReadEffect ==
  ASSUME TypeOK, TypeOK', NEW cl \in Clients, NEW s \in Servers, InFlight(cl),
         NicRead(cl, s) \/ NicRetryRead(cl, s)
  PROVE  InFlight(cl)' /\ \E i \in Items(cl) : ItemRead(cl, i)
<1>1. PICK j \in DOMAIN wq[cl][s] :
        LET w == wq[cl][s][j]
        IN /\ w.op = "read" /\ w.cqe = "none"
           /\ wq' = [wq EXCEPT ![cl][s][j] = [w EXCEPT !.done = TRUE, !.val = mem[s][w.addr]]]
           /\ UNCHANGED <<mem, buf, callVars>>
  <2>1. CASE NicRead(cl, s)
    BY <2>1 DEF NicRead, Executable
  <2>2. CASE NicRetryRead(cl, s)
    <3>1. PICK j \in DOMAIN wq[cl][s] :
            /\ wq[cl][s][j].op = "read" /\ wq[cl][s][j].done /\ wq[cl][s][j].cqe = "none"
            /\ wq' = [wq EXCEPT ![cl][s][j].val = mem[s][wq[cl][s][j].addr]]
            /\ UNCHANGED <<mem, buf, callVars>>
      BY <2>2 DEF NicRetryRead
    <3> DEFINE w == wq[cl][s][j]
    <3>2. w \in WorkRequest BY <3>1, QueueType
    <3>3. [w EXCEPT !.val = mem[s][w.addr]] = [w EXCEPT !.done = TRUE, !.val = mem[s][w.addr]]
      BY <3>1, <3>2 DEF WorkRequest
    <3>4. wq' = [wq EXCEPT ![cl][s][j] = [w EXCEPT !.val = mem[s][w.addr]]] BY <3>1
    <3> QED BY <3>1, <3>3, <3>4
  <2> QED BY <2>1, <2>2
<1> DEFINE o == wq[cl][s][j]
<1>2. /\ o \in WorkRequest /\ ItemOf(o) \in Items(cl)
      /\ o.addr = call[cl].keys[ItemOf(o)] /\ s = ShardOf(o.addr)
      /\ Reads(call[cl])
  BY <1>1, WrOfItem DEF InFlight
<1>3. PICK w : w = [o EXCEPT !.done = TRUE, !.val = mem[s][o.addr]]
  OBVIOUS
<1>4. /\ w.cell = o.cell /\ w.addr = o.addr /\ w.op = o.op /\ w.done /\ w.cqe = "none"
      /\ w.val = mem[s][o.addr]
  BY <1>1, <1>2, <1>3 DEF WorkRequest
<1>5. Marks(cl, s, j, w)
  BY <1>1, <1>3, Marking
<1>6. InFlight(cl)'
  BY <1>1, <1>2, <1>4, <1>5, MarkInFlight DEF callVars
<1>7. PICK i : i = ItemOf(o)
  OBVIOUS
<1>8. /\ Carrying(cl, i)' = {w}
      /\ \A x : x # i => Carrying(cl, x)' = Carrying(cl, x)
  <2>1. Carries(cl) /\ Sorted(cl) BY DEF InFlight
  <2> QED BY <1>4, <1>5, <1>7, <2>1, MarkCarrying
<1>9. Todo(cl)' = Todo(cl) \ {i}
  <2>1. i \notin Todo(cl)' BY <1>4, <1>8, TodoCarrying
  <2>2. \A x : x # i => (x \in Todo(cl)' <=> x \in Todo(cl)) BY <1>8, TodoCarrying
  <2> QED BY <2>1, <2>2
<1>10. call' = call /\ buf' = buf /\ mem' = mem
  BY <1>1 DEF callVars
<1>11. Seen(cl, i)' = Here(call[cl].keys[i])
  <2>1. Seen(cl, i)' = w.val BY <1>2, <1>4, <1>8, <1>10, SeenFlyingNext
  <2> QED BY <1>2, <1>4, <1>7, <2>1 DEF Here
<1>12. \A x \in Items(cl) \ {i} : Seen(cl, x)' = Seen(cl, x)
  BY <1>8, <1>10, SeenKept
<1>13. ItemRead(cl, i)
  BY <1>2, <1>9, <1>10, <1>11, <1>12 DEF ItemRead
<1> QED BY <1>2, <1>6, <1>7, <1>13

(* An acknowledgement brings what was read into localBuf; a failure leaves *)
(* it in the network card.                                                 *)
LEMMA NicReportEffect ==
  ASSUME TypeOK, TypeOK', NEW cl \in Clients, NEW s \in Servers, InFlight(cl),
         NicComplete(cl, s) \/ NicFail(cl, s) \/ NicFlush(cl, s)
  PROVE  InFlight(cl)' /\ ItemsRest(cl) /\ mem' = mem
<1>1. PICK j \in DOMAIN wq[cl][s] : \E e \in {"ok", "err"} :
        LET w == wq[cl][s][j]
        IN /\ w.cqe = "none"
           /\ wq' = [wq EXCEPT ![cl][s][j] = [w EXCEPT !.cqe = e]]
           /\ UNCHANGED <<mem, callVars>>
           /\ \/ e = "ok" /\ w.done
                 /\ buf' = IF w.op = "read" THEN [buf EXCEPT ![cl][w.cell] = w.val] ELSE buf
              \/ e = "err" /\ buf' = buf
  BY DEF NicComplete, NicFail, NicFlush, Unreported
<1>2. PICK e \in {"ok", "err"} :
        LET w == wq[cl][s][j]
        IN /\ w.cqe = "none"
           /\ wq' = [wq EXCEPT ![cl][s][j] = [w EXCEPT !.cqe = e]]
           /\ UNCHANGED <<mem, callVars>>
           /\ \/ e = "ok" /\ w.done
                 /\ buf' = IF w.op = "read" THEN [buf EXCEPT ![cl][w.cell] = w.val] ELSE buf
              \/ e = "err" /\ buf' = buf
  BY <1>1
<1> DEFINE o == wq[cl][s][j]
<1>3. /\ o \in WorkRequest /\ ItemOf(o) \in Items(cl) /\ ItemCell(ItemOf(o)) = o.cell
      /\ o.op = IF Reads(call[cl]) THEN "read" ELSE "write"
      /\ o.cell \in BufIndex /\ o.cell \in Int
  <2>1. j \in DOMAIN wq[cl][s] /\ Carries(cl) BY <1>1 DEF InFlight
  <2>2. o.cell \in BufIndex /\ o.cell \in Int BY <2>1, QueueType
  <2> QED BY <2>1, <2>2, WrOfItem
<1>4. PICK w : w = [o EXCEPT !.cqe = e]
  OBVIOUS
<1>5. /\ w.cell = o.cell /\ w.addr = o.addr /\ w.op = o.op /\ w.done = o.done
      /\ w.cqe = e /\ w.val = o.val /\ (w.cqe = "ok" => w.done)
  BY <1>2, <1>3, <1>4 DEF WorkRequest
<1>6. Marks(cl, s, j, w)
  BY <1>1, <1>2, <1>4, Marking
<1>7. Reads(call[cl]) \/ buf' = buf
  BY <1>2, <1>3
<1>8. call' = call /\ mem' = mem
  BY <1>2 DEF callVars
<1>9. InFlight(cl)'
  BY <1>5, <1>6, <1>7, <1>8, MarkInFlight
<1>10. PICK i : i = ItemOf(o)
  OBVIOUS
<1>11. /\ Carrying(cl, i) = {o} /\ Carrying(cl, i)' = {w}
       /\ \A x : x # i => Carrying(cl, x)' = Carrying(cl, x)
  <2>1. Carries(cl) /\ Sorted(cl) BY DEF InFlight
  <2> QED BY <1>5, <1>6, <1>10, <2>1, MarkCarrying
<1>12. Todo(cl)' = Todo(cl)
  <2>1. \A x : x \in Todo(cl)' <=> x \in Todo(cl)
    <3> TAKE x
    <3>1. CASE x = i BY <1>5, <1>11, <3>1, TodoCarrying
    <3>2. CASE x # i BY <1>11, <3>2, TodoCarrying
    <3> QED BY <3>1, <3>2
  <2> QED BY <2>1
<1>13. ASSUME NEW x \in Items(cl) PROVE Seen(cl, x)' = Seen(cl, x)
  <2>1. CASE ~Reads(call[cl])
    BY <2>1, <1>8 DEF Seen, Reads
  <2>2. CASE Reads(call[cl]) /\ x = i
    <3>1. Seen(cl, i) = IF ~o.done THEN Zero
                        ELSE IF o.cqe # "ok" THEN o.val ELSE buf[cl][ItemCell(i)]
      BY <1>11, <2>2, SeenFlying
    <3>2. Seen(cl, i)' = IF ~w.done THEN Zero
                         ELSE IF w.cqe # "ok" THEN w.val ELSE buf'[cl][ItemCell(i)]
      BY <1>8, <1>11, <2>2, SeenFlyingNext
    <3>3. e = "ok" => buf'[cl][o.cell] = o.val
      BY <1>2, <1>3, <2>2 DEF TypeOK
    <3>4. o.cqe = "none" BY <1>2
    <3> QED BY <1>3, <1>5, <1>10, <2>2, <3>1, <3>2, <3>3, <3>4
  <2>3. CASE x # i
    <3>1. ItemCell(x) # o.cell
      <4>1. x \in Int /\ o.cell = i - 1 /\ i \in Int
        <5>1. x \in Int BY DEF Items
        <5> QED BY <5>1, <1>3, <1>10 DEF ItemOf
      <4> QED BY <2>3, <4>1 DEF ItemCell
    <3>3. ItemCell(x) \in BufIndex
      BY ItemCellType DEF InFlight
    <3>2. buf'[cl][ItemCell(x)] = buf[cl][ItemCell(x)]
      <4>1. buf[cl] \in [BufIndex -> Value] BY DEF TypeOK
      <4>2. buf'[cl] = buf[cl] \/ buf'[cl] = [buf[cl] EXCEPT ![o.cell] = o.val]
        BY <1>2 DEF TypeOK
      <4> QED BY <3>1, <3>3, <4>1, <4>2
    <3> QED BY <1>8, <1>11, <2>3, <3>2, SeenKept
  <2> QED BY <2>1, <2>2, <2>3
<1> QED BY <1>8, <1>9, <1>12, <1>13 DEF ItemsRest

LEMMA ItemsFrame ==
  ASSUME NEW d, wq'[d] = wq[d], call'[d] = call[d], buf'[d] = buf[d]
  PROVE  /\ ItemsRest(d) /\ \A i : Carrying(d, i)' = Carrying(d, i)
         /\ InFlight(d) => InFlight(d)'
<1>1. \A i : Carrying(d, i)' = Carrying(d, i)
  BY DEF Carrying, Outstanding, ItemOf
<1>2. ItemsRest(d)
  <2>1. Todo(d)' = Todo(d) BY DEF Todo, Outstanding, ItemOf
  <2>2. \A i \in Items(d) : Seen(d, i)' = Seen(d, i) BY <1>1, SeenKept
  <2> QED BY <2>1, <2>2 DEF ItemsRest
<1>3. InFlight(d) => InFlight(d)'
  <2>1. Carries(d) => Carries(d)' BY DEF Carries, ItemOf, Reads
  <2>2. Sorted(d) => Sorted(d)' BY DEF Sorted
  <2>3. Staged(d) => Staged(d)' BY DEF Staged, Reads, ItemCell
  <2> QED BY <2>1, <2>2, <2>3 DEF InFlight
<1> QED BY <1>1, <1>2, <1>3

(* What the network and the server do to a client in flight.               *)
LEMMA NicEffect ==
  ASSUME TypeOK, TypeOK', NEW cl \in Clients, NEW s \in Servers, InFlight(cl),
         Nic(cl, s) \/ Fault(cl, s) \/ ServerRepost(cl, s)
  PROVE  /\ InFlight(cl)' /\ UNCHANGED callVars
         /\ \/ ItemsRest(cl) /\ mem' = mem
            \/ \E i \in Items(cl) : ItemWritten(cl, i) \/ ItemRead(cl, i)
<1>1. CASE NicWrite(cl, s)
  <2>1. UNCHANGED callVars BY <1>1 DEF NicWrite
  <2> QED BY <1>1, <2>1, NicWriteEffect
<1>2. CASE NicRead(cl, s) \/ NicRetryRead(cl, s)
  <2>1. UNCHANGED callVars BY <1>2 DEF NicRead, NicRetryRead
  <2> QED BY <1>2, <2>1, NicReadEffect
<1>3. CASE NicComplete(cl, s) \/ NicFail(cl, s) \/ NicFlush(cl, s)
  <2>1. UNCHANGED callVars BY <1>3 DEF NicComplete, NicFail, NicFlush
  <2> QED BY <1>3, <2>1, NicReportEffect
<1>4. CASE NicSend(cl, s)
  <2>1. PICK j \in DOMAIN wq[cl][s] : wq[cl][s][j].op = "send"
    BY <1>4 DEF NicSend
  <2> QED BY <2>1, WrOfItem DEF InFlight
<1>5. CASE ServerRepost(cl, s) \/ ServerHandlerReturns(cl, s)
  <2>1. UNCHANGED <<mem, wq, buf, callVars>>
    BY <1>5 DEF ServerRepost, ServerHandlerReturns
  <2>2. call' = call BY <2>1 DEF callVars
  <2> QED BY <2>1, <2>2, ItemsFrame
<1> QED BY <1>1, <1>2, <1>3, <1>4, <1>5 DEF Nic, Fault

(* Taking a CQE removes WRs that succeeded, which changes no item.         *)
LEMMA TakeEffect ==
  ASSUME TypeOK, NEW cl \in Clients, NEW s \in Servers, InFlight(cl),
         ReportedInOrder(cl), Ready(wq[cl][s]) # {},
         wq[cl][s][Oldest(wq[cl][s])].cqe = "ok",
         wq' = [wq EXCEPT ![cl][s] = Reclaim(wq[cl][s], Oldest(wq[cl][s]))],
         call'[cl] = call[cl], buf' = buf
  PROVE  InFlight(cl)' /\ ItemsRest(cl)
<1> DEFINE q == wq[cl][s]
           i == Oldest(q)
           back(t) == IF t = s THEN i ELSE 0
<1>1. q \in Seq(WorkRequest) /\ Len(q) \in Nat /\ DOMAIN q = 1 .. Len(q)
  BY QueueType
<1>2. i \in Ready(q) /\ i \in 1 .. Len(q) /\ \A j \in Ready(q) : i <= j
  BY <1>1, OldestType
<1>3. \A j \in 1 .. i : q[j].cqe = "ok"
  <2> SUFFICES ASSUME NEW j \in 1 .. i - 1 PROVE q[j].cqe = "ok"
    BY <1>2
  <2>1. j \in DOMAIN q /\ ~(i <= j) BY <1>1, <1>2
  <2>2. q[j].cqe # "none" BY <1>1, <1>2 DEF ReportedInOrder
  <2>3. q[j].cqe \in {"none", "ok", "err"}
    <3>1. q[j] \in WorkRequest BY <2>1, QueueType
    <3> QED BY <3>1 DEF WorkRequest
  <2>4. q[j].cqe # "err" BY <1>2, <2>1 DEF Ready
  <2> QED BY <2>2, <2>3, <2>4
<1>4. \A t \in Servers : wq'[cl][t] = IF t = s THEN Reclaim(q, i) ELSE wq[cl][t]
  BY DEF TypeOK
<1>5. /\ Reclaim(q, i) \in Seq(WorkRequest)
      /\ Len(Reclaim(q, i)) = Len(q) - i
      /\ \A j \in 1 .. Len(q) - i : Reclaim(q, i)[j] = q[j + i]
  BY <1>1, <1>2, ReclaimType
<1>6. DOMAIN Reclaim(q, i) = 1 .. Len(q) - i /\ i \in Nat
  BY <1>1, <1>2, <1>5
<1> HIDE DEF i
(* Every WR of a queue afterwards is a WR of it before, further back.      *)
<1>7. \A t \in Servers : back(t) \in Nat /\ \A j \in DOMAIN wq'[cl][t] :
        j \in Int /\ j + back(t) \in DOMAIN wq[cl][t] /\ wq'[cl][t][j] = wq[cl][t][j + back(t)]
  <2> TAKE t \in Servers
  <2>1. CASE t = s
    <3>1. wq'[cl][t] = Reclaim(q, i) /\ back(t) = i BY <1>4, <2>1
    <3>2. \A j \in 1 .. Len(q) - i : j + i \in 1 .. Len(q) /\ j \in Int BY <1>1, <1>6
    <3> QED BY <1>1, <1>5, <1>6, <2>1, <3>1, <3>2
  <2>2. CASE t # s
    <3>1. wq'[cl][t] = wq[cl][t] /\ back(t) = 0 BY <1>4, <2>2
    <3>2. \A j \in DOMAIN wq[cl][t] : j \in Int /\ j + 0 = j BY QueueType
    <3> QED BY <3>1, <3>2
  <2> QED BY <2>1, <2>2
<1>8. \A t \in Servers : \A j \in DOMAIN wq[cl][t] :
        wq[cl][t][j].cqe = "ok" \/ \E k \in DOMAIN wq'[cl][t] : wq'[cl][t][k] = wq[cl][t][j]
  <2> SUFFICES ASSUME NEW t \in Servers, NEW j \in DOMAIN wq[cl][t], wq[cl][t][j].cqe # "ok"
               PROVE  \E k \in DOMAIN wq'[cl][t] : wq'[cl][t][k] = wq[cl][t][j]
    OBVIOUS
  <2>1. CASE t = s
    <3>1. j \in 1 .. Len(q) /\ j \notin 1 .. i BY <1>1, <1>3, <2>1
    <3>2. j - i \in 1 .. Len(q) - i /\ (j - i) + i = j BY <1>1, <1>6, <3>1
    <3>3. wq'[cl][s] = Reclaim(q, i) BY <1>4
    <3>4. Reclaim(q, i)[j - i] = q[j] BY <1>5, <3>2
    <3>5. j - i \in DOMAIN wq'[cl][s] BY <1>6, <3>2, <3>3
    <3> QED BY <2>1, <3>3, <3>4, <3>5
  <2>2. CASE t # s BY <1>4, <2>2
  <2> QED BY <2>1, <2>2
<1> HIDE DEF back
<1>9. Carries(cl)'
  <2>1. Carries(cl) BY DEF InFlight
  <2>2. \A t \in Servers : \A j \in DOMAIN wq'[cl][t] : \E k \in DOMAIN wq[cl][t] :
          wq'[cl][t][j] = wq[cl][t][k]
    BY <1>7
  <2>3. \A t \in Servers : \A k \in DOMAIN wq[cl][t] : wq[cl][t][k].cqe = "ok" => wq[cl][t][k].done
    BY <2>1 DEF Carries
  <2>4. \A t \in Servers : \A j \in DOMAIN wq'[cl][t] : \E k \in DOMAIN wq[cl][t] :
          /\ wq'[cl][t][j].cell = wq[cl][t][k].cell /\ wq'[cl][t][j].addr = wq[cl][t][k].addr
          /\ wq'[cl][t][j].op = wq[cl][t][k].op
          /\ wq'[cl][t][j].cqe = "ok" => wq'[cl][t][j].done
    BY ONLY <2>2, <2>3
  <2> QED BY ONLY <2>1, <2>4, call'[cl] = call[cl], CarriesKept
<1>10. Sorted(cl)'
  <2> SUFFICES ASSUME NEW t \in Servers, NEW j \in DOMAIN wq'[cl][t], NEW k \in DOMAIN wq'[cl][t],
                      j < k
               PROVE  wq'[cl][t][j].cell < wq'[cl][t][k].cell
    BY DEF Sorted
  <2>1. j + back(t) < k + back(t) BY <1>7
  <2> QED BY <1>7, <2>1 DEF InFlight, Sorted
<1>11. Staged(cl)'
  BY DEF InFlight, Staged, Reads, ItemCell
<1>12. \A x : \A w \in Carrying(cl, x)' : w \in Carrying(cl, x)
  BY <1>7 DEF Carrying, Outstanding, ItemOf
<1>13. \A x : \A w \in Carrying(cl, x) : w \in Carrying(cl, x)' \/ (w.cqe = "ok" /\ w.done)
  <2> SUFFICES ASSUME NEW x, NEW w \in Carrying(cl, x), w.cqe # "ok" \/ ~w.done
               PROVE  w \in Carrying(cl, x)'
    OBVIOUS
  <2>1. ItemOf(w) = x /\ \E t \in Servers : \E j \in DOMAIN wq[cl][t] : w = wq[cl][t][j]
    BY DEF Carrying, Outstanding
  <2>2. PICK t \in Servers : \E j \in DOMAIN wq[cl][t] : w = wq[cl][t][j]
    BY <2>1
  <2>3. PICK j \in DOMAIN wq[cl][t] : w = wq[cl][t][j]
    BY <2>2
  <2>4. w.cqe # "ok" BY <2>3 DEF InFlight, Carries
  <2>5. \E k \in DOMAIN wq'[cl][t] : wq'[cl][t][k] = w BY <1>8, <2>3, <2>4
  <2> QED BY <2>1, <2>5 DEF Carrying, Outstanding, ItemOf
<1>14. \A x : x \in Todo(cl)' <=> x \in Todo(cl)
  <2> TAKE x
  <2>1. x \in Todo(cl)' => x \in Todo(cl) BY <1>12, TodoCarrying
  <2>2. x \in Todo(cl) => x \in Todo(cl)' BY <1>13, TodoCarrying
  <2> QED BY <2>1, <2>2
<1>15. \A x : Seen(cl, x)' = Seen(cl, x)
  <2> TAKE x
  <2>1. {w \in Carrying(cl, x)' : w.done /\ w.cqe # "ok"} = {w \in Carrying(cl, x) : w.done /\ w.cqe # "ok"}
    BY <1>12, <1>13
  <2>2. x \in Todo(cl)' <=> x \in Todo(cl) BY <1>14
  <2>3. Reads(call[cl])' <=> Reads(call[cl]) BY DEF Reads
  <2>4. buf'[cl][ItemCell(x)] = buf[cl][ItemCell(x)] OBVIOUS
  <2> DEFINE F == {w \in Carrying(cl, x) : w.done /\ w.cqe # "ok"}
             G == {w \in Carrying(cl, x)' : w.done /\ w.cqe # "ok"}
  <2>5. F = G BY <2>1
  <2>6. Seen(cl, x) = IF ~Reads(call[cl]) \/ x \in Todo(cl) THEN Zero
                      ELSE IF F # {} THEN (CHOOSE w \in F : TRUE).val ELSE buf[cl][ItemCell(x)]
    BY DEF Seen
  <2>7. Seen(cl, x)' = IF ~Reads(call[cl])' \/ x \in Todo(cl)' THEN Zero
                       ELSE IF G # {} THEN (CHOOSE w \in G : TRUE).val ELSE buf'[cl][ItemCell(x)]
    BY DEF Seen, ItemCell
  <2> HIDE DEF F, G
  <2> QED BY <2>2, <2>3, <2>4, <2>5, <2>6, <2>7
<1> QED BY <1>9, <1>10, <1>11, <1>14, <1>15 DEF InFlight, ItemsRest

-----------------------------------------------------------------------------
(* The start of a call.                                                    *)

LEMMA NothingBefore ==
  ASSUME NEW n \in Nat, NEW r, DOMAIN r = 1 .. n, r = [j \in DOMAIN r |-> r[j]]
  PROVE  <<>> \o r = r
<1>1. r \in Seq({r[j] : j \in 1 .. n})
  OBVIOUS
<1> QED BY <1>1

(* What a call has posted on empty queues when it enters its poll loop.    *)
LEMMA ItemsBegun ==
  ASSUME TypeOK', NEW cl \in Clients, call'[cl].keys \in KeySeqs, Staged(cl)', Sorted(cl)',
         \A s \in Servers : \A j \in DOMAIN wq'[cl][s] :
           LET w == wq'[cl][s][j]
               ks == call'[cl].keys
           IN /\ ItemOf(w) \in IndicesAt(ks, s) /\ w.addr = ks[ItemOf(w)]
              /\ w.op = IF Reads(call'[cl]) THEN "read" ELSE "write"
              /\ ~w.done /\ w.cqe = "none",
         \A i \in 1 .. Len(call'[cl].keys) :
           \E j \in DOMAIN wq'[cl][ShardOf(call'[cl].keys[i])] :
             ItemOf(wq'[cl][ShardOf(call'[cl].keys[i])][j]) = i
  PROVE  InFlight(cl)' /\ Todo(cl)' = Items(cl)'
<1> DEFINE ks == call'[cl].keys
<1>1. Carries(cl)'
  <2> SUFFICES ASSUME NEW s \in Servers, NEW j \in DOMAIN wq'[cl][s]
               PROVE  LET w == wq'[cl][s][j]
                      IN /\ ItemOf(w) \in 1 .. Len(ks)
                         /\ w.addr = ks[ItemOf(w)] /\ s = ShardOf(w.addr)
                         /\ w.op = IF Reads(call'[cl]) THEN "read" ELSE "write"
                         /\ w.cqe = "ok" => w.done
    BY DEF Carries, ItemOf, Reads
  <2>1. ItemOf(wq'[cl][s][j]) \in 1 .. Len(ks) /\ s = ShardOf(ks[ItemOf(wq'[cl][s][j])])
    BY DEF IndicesAt
  <2> QED BY <2>1
<1>2. \A i \in 1 .. Len(ks) : ShardOf(ks[i]) \in Servers
  BY Shares
<1>3. ASSUME NEW i \in 1 .. Len(ks) PROVE i \in Todo(cl)'
  <2>1. PICK j \in DOMAIN wq'[cl][ShardOf(ks[i])] : ItemOf(wq'[cl][ShardOf(ks[i])][j]) = i
    BY <1>3
  <2> QED BY <1>2, <2>1 DEF Todo, Outstanding, ItemOf
<1>4. ASSUME NEW i \in Todo(cl)' PROVE i \in 1 .. Len(ks)
  <2>1. PICK s \in Servers : \E j \in DOMAIN wq'[cl][s] : i = ItemOf(wq'[cl][s][j])
    BY DEF Todo, Outstanding, ItemOf
  <2> QED BY <2>1 DEF IndicesAt
<1> QED BY <1>1, <1>3, <1>4 DEF InFlight, Items

(* A call of one WR on empty queues.                                       *)
LEMMA OneItem ==
  ASSUME TypeOK, TypeOK', NEW cl \in Clients, EmptyQueues(cl),
         NEW op, NEW k \in Keys, NEW vals, NEW wr,
         call'[cl] = [op |-> op, keys |-> <<k>>, vals |-> vals], Staged(cl)',
         wq' = [wq EXCEPT ![cl][ShardOf(k)] = Append(@, wr)],
         wr.cell = 0, wr.addr = k, ~wr.done, wr.cqe = "none",
         wr.op = IF op \in {"Get", "GetBatch"} THEN "read" ELSE "write"
  PROVE  InFlight(cl)' /\ Todo(cl)' = Items(cl)'
<1> DEFINE ks == <<k>>
<1>1. /\ call'[cl].keys = ks /\ ks \in KeySeqs /\ Len(ks) = 1 /\ ks[1] = k
      /\ Reads(call'[cl]) <=> op \in {"Get", "GetBatch"}
  BY SingleKeyType DEF Reads
<1>2. ShardOf(k) \in Servers
  BY ShardType
<1>3. \A t \in Servers : wq'[cl][t] = IF t = ShardOf(k) THEN <<wr>> ELSE <<>>
  <2>1. \A t \in Servers : wq[cl][t] = <<>> BY DEF EmptyQueues
  <2>2. wq'[cl][ShardOf(k)] = Append(<<>>, wr) BY <1>2, <2>1 DEF TypeOK
  <2>3. Append(<<>>, wr) = <<wr>> OBVIOUS
  <2>4. \A t \in Servers \ {ShardOf(k)} : wq'[cl][t] = wq[cl][t] BY DEF TypeOK
  <2> QED BY <2>1, <2>2, <2>3, <2>4
<1>4. DOMAIN <<wr>> = {1} /\ DOMAIN <<>> = {} /\ <<wr>>[1] = wr
  OBVIOUS
<1>5. ItemOf(wr) = 1
  BY DEF ItemOf
<1> HIDE DEF ks
<1> DEFINE kk == call'[cl].keys
<1>6. 1 \in IndicesAt(kk, ShardOf(k))
  BY <1>1 DEF IndicesAt
<1>7. Sorted(cl)'
  <2>1. \A t \in Servers : \A i, j \in DOMAIN wq'[cl][t] : i = 1 /\ j = 1 BY <1>3, <1>4
  <2> QED BY <2>1 DEF Sorted
<1>8. \A t \in Servers : \A j \in DOMAIN wq'[cl][t] : t = ShardOf(k) /\ wq'[cl][t][j] = wr
  BY <1>3, <1>4
<1>9. \A i \in 1 .. Len(kk) :
        \E j \in DOMAIN wq'[cl][ShardOf(kk[i])] : ItemOf(wq'[cl][ShardOf(kk[i])][j]) = i
  <2> TAKE i \in 1 .. Len(kk)
  <2>1. i = 1 /\ ShardOf(kk[i]) = ShardOf(k) BY <1>1
  <2>2. 1 \in DOMAIN wq'[cl][ShardOf(k)] /\ wq'[cl][ShardOf(k)][1] = wr BY <1>2, <1>3, <1>4
  <2> QED BY <1>5, <2>1, <2>2
<1>10. \A s \in Servers : \A j \in DOMAIN wq'[cl][s] :
         LET w == wq'[cl][s][j]
         IN /\ ItemOf(w) \in IndicesAt(kk, s) /\ w.addr = kk[ItemOf(w)]
            /\ w.op = IF Reads(call'[cl]) THEN "read" ELSE "write"
            /\ ~w.done /\ w.cqe = "none"
  BY <1>1, <1>5, <1>6, <1>8
<1> QED BY <1>1, <1>7, <1>9, <1>10, ItemsBegun

LEMMA ShareListed ==
  ASSUME NEW ks \in KeySeqs, NEW s \in Servers
  PROVE  LET P == IndicesAt(ks, s)
             n == Cardinality(P)
         IN /\ P \in SUBSET (1 .. Len(ks)) /\ n \in Nat /\ InOrder(P) \in [1 .. n -> P]
            /\ \A a, b \in 1 .. n : a < b => InOrder(P)[a] < InOrder(P)[b]
            /\ \A i \in P : \E a \in 1 .. n : InOrder(P)[a] = i
<1>1. Len(ks) \in Nat /\ IndicesAt(ks, s) \in SUBSET (1 .. Len(ks))
  BY KeySeqType, Shares
<1> QED BY <1>1, InOrderType

(* Queue q holds one WR for each item of the batch that goes to server s.  *)
Listed(q, ks, s, op) ==
  LET P == IndicesAt(ks, s)
      n == Cardinality(P)
  IN /\ DOMAIN q = 1 .. n /\ q = [j \in DOMAIN q |-> q[j]]
     /\ \A j \in 1 .. n :
          /\ q[j].cell = InOrder(P)[j] - 1 /\ q[j].addr = ks[InOrder(P)[j]]
          /\ ~q[j].done /\ q[j].cqe = "none" /\ q[j].op = op

Posted(cl, ks) ==
  \A s \in Servers : Listed(wq'[cl][s], ks, s, IF Reads(call'[cl]) THEN "read" ELSE "write")

(* A batch on empty queues.                                                *)
LEMMA BatchItems ==
  ASSUME TypeOK', NEW cl \in Clients, NEW ks \in KeySeqs, call'[cl].keys = ks,
         Staged(cl)', Posted(cl, ks)
  PROVE  InFlight(cl)' /\ Todo(cl)' = Items(cl)'
<1> DEFINE P(s) == IndicesAt(ks, s)
           n(s) == Cardinality(P(s))
           f(s) == InOrder(P(s))
<1>1. \A s \in Servers :
        /\ P(s) \in SUBSET (1 .. Len(ks))
        /\ n(s) \in Nat /\ f(s) \in [1 .. n(s) -> P(s)]
        /\ \A a, b \in 1 .. n(s) : a < b => f(s)[a] < f(s)[b]
        /\ \A i \in P(s) : \E a \in 1 .. n(s) : f(s)[a] = i
  BY ShareListed
<1>2. \A s \in Servers :
        /\ DOMAIN wq'[cl][s] = 1 .. n(s)
        /\ \A j \in 1 .. n(s) :
             LET w == wq'[cl][s][j]
             IN /\ w.cell = f(s)[j] - 1 /\ w.addr = ks[f(s)[j]]
                /\ ~w.done /\ w.cqe = "none"
                /\ w.op = IF Reads(call'[cl]) THEN "read" ELSE "write"
  BY DEF Posted, Listed
<1>3. \A i \in 1 .. Len(ks) : ShardOf(ks[i]) \in Servers /\ i \in P(ShardOf(ks[i]))
  BY Shares
<1>4. \A s \in Servers : P(s) = IndicesAt(ks, s)
  OBVIOUS
<1> HIDE DEF P, n, f
<1>5. \A s \in Servers : \A j \in 1 .. n(s) :
        f(s)[j] \in P(s) /\ f(s)[j] \in Int /\ ItemOf(wq'[cl][s][j]) = f(s)[j]
  <2> SUFFICES ASSUME NEW s \in Servers, NEW j \in 1 .. n(s)
               PROVE  f(s)[j] \in P(s) /\ f(s)[j] \in Int /\ ItemOf(wq'[cl][s][j]) = f(s)[j]
    OBVIOUS
  <2>1. f(s)[j] \in P(s) /\ f(s)[j] \in 1 .. Len(ks) BY <1>1
  <2>2. f(s)[j] \in Int BY <2>1
  <2> QED BY <1>2, <2>1, <2>2 DEF ItemOf
<1>6. Sorted(cl)'
  <2> SUFFICES ASSUME NEW s \in Servers, NEW a \in 1 .. n(s), NEW b \in 1 .. n(s), a < b
               PROVE  wq'[cl][s][a].cell < wq'[cl][s][b].cell
    BY <1>2 DEF Sorted
  <2>1. f(s)[a] < f(s)[b] BY <1>1
  <2>2. f(s)[a] \in Int /\ f(s)[b] \in Int BY <1>5
  <2>3. wq'[cl][s][a].cell = f(s)[a] - 1 /\ wq'[cl][s][b].cell = f(s)[b] - 1 BY <1>2
  <2> QED BY ONLY <2>1, <2>2, <2>3
<1>7. \A s \in Servers : \A j \in DOMAIN wq'[cl][s] :
        LET w == wq'[cl][s][j]
        IN /\ ItemOf(w) \in IndicesAt(ks, s) /\ w.addr = ks[ItemOf(w)]
           /\ w.op = IF Reads(call'[cl]) THEN "read" ELSE "write"
           /\ ~w.done /\ w.cqe = "none"
  <2> TAKE s \in Servers
  <2> TAKE j \in DOMAIN wq'[cl][s]
  <2>1. j \in 1 .. n(s) BY <1>2
  <2>2. ItemOf(wq'[cl][s][j]) = f(s)[j] /\ f(s)[j] \in IndicesAt(ks, s) BY <1>4, <1>5, <2>1
  <2> QED BY <1>2, <2>1, <2>2
<1>8. \A i \in 1 .. Len(ks) :
        \E j \in DOMAIN wq'[cl][ShardOf(ks[i])] : ItemOf(wq'[cl][ShardOf(ks[i])][j]) = i
  <2> TAKE i \in 1 .. Len(ks)
  <2>1. ShardOf(ks[i]) \in Servers /\ i \in P(ShardOf(ks[i])) BY <1>3
  <2>2. PICK a \in 1 .. n(ShardOf(ks[i])) : f(ShardOf(ks[i]))[a] = i BY <1>1, <2>1
  <2>3. a \in DOMAIN wq'[cl][ShardOf(ks[i])] BY <1>2, <2>1, <2>2
  <2>4. ItemOf(wq'[cl][ShardOf(ks[i])][a]) = i BY <1>5, <2>1, <2>2
  <2> QED BY <2>3, <2>4
<1> HIDE DEF P, n, f
<1> QED BY ONLY TypeOK', cl \in Clients, ks \in KeySeqs, call'[cl].keys = ks, Staged(cl)',
              <1>6, <1>7, <1>8, ItemsBegun

(* What the start of a call does.                                          *)
Begins(cl) ==
  /\ mem' = mem /\ phase[cl] = "idle" /\ call'[cl] # NoCall
  /\ \/ /\ phase'[cl] = "idle" /\ ret'[cl] = ErrRet
        /\ abandoned[cl] => abandoned'[cl]
     \/ /\ phase'[cl] = "polling" /\ ret'[cl] = NoRet /\ abandoned'[cl] = abandoned[cl]
        /\ ~abandoned[cl] => InFlight(cl)' /\ Todo(cl)' = Items(cl)'

LEMMA AwaitCall ==
  ASSUME TypeOK, NEW cl \in Clients, NEW c, Await(cl, c)
  PROVE  /\ phase'[cl] = "polling" /\ call'[cl] = c /\ ret'[cl] = NoRet
         /\ abandoned'[cl] = abandoned[cl]
BY DEF TypeOK, Await

LEMMA ErrorCall ==
  ASSUME TypeOK, NEW cl \in Clients, NEW c, Return(cl, c, ErrRet)
  PROVE  /\ phase'[cl] = "idle" /\ call'[cl] = c /\ ret'[cl] = ErrRet
         /\ abandoned[cl] => abandoned'[cl]
BY DEF TypeOK, Return

LEMMA SingleBegins ==
  ASSUME TypeOK, TypeOK', NEW cl \in Clients, ClientLedger(cl), phase[cl] = "idle", mem' = mem,
         NEW op \in {"Put", "Write", "Get"}, NEW k \in Keys, NEW vals, NEW wr,
         Issue(cl, [op |-> op, keys |-> <<k>>, vals |-> vals], wr),
         wr.cell = 0, wr.addr = k, ~wr.done, wr.cqe = "none",
         wr.op = IF op \in {"Get", "GetBatch"} THEN "read" ELSE "write",
         op # "Get" => \E v \in {k} \X Tags : vals = <<v>> /\ buf'[cl][0] = v
  PROVE  Begins(cl)
<1> DEFINE c == [op |-> op, keys |-> <<k>>, vals |-> vals]
<1>1. c.op = op /\ c.keys = <<k>> /\ c.vals = vals /\ c # NoCall /\ c.keys[1] = k
  BY DEF NoCall
<1>2. CASE Return(cl, c, ErrRet)
  BY <1>1, <1>2, ErrorCall DEF Begins
<1>3. CASE /\ wq' = [wq EXCEPT ![cl][ShardOf(k)] = Append(@, wr)]
           /\ Await(cl, c)
  <2>1. /\ phase'[cl] = "polling" /\ call'[cl] = c /\ ret'[cl] = NoRet
        /\ abandoned'[cl] = abandoned[cl]
    BY <1>3, AwaitCall
  <2>2. ASSUME ~abandoned[cl] PROVE InFlight(cl)' /\ Todo(cl)' = Items(cl)'
    <3>1. EmptyQueues(cl) BY <2>2 DEF ClientLedger
    <3>2. Staged(cl)'
      <4>1. /\ call'[cl].op = op /\ Len(call'[cl].keys) = 1 /\ call'[cl].keys[1] = k
            /\ call'[cl].vals = vals
        BY <2>1, <1>1
      <4>2. 1 <= BufCells OBVIOUS
      <4>3. ASSUME op # "Get"
            PROVE  /\ Len(vals) = 1 /\ vals[1] \in {k} \X Tags
                   /\ buf'[cl][ItemCell(1)] = vals[1]
        <5>1. PICK v \in {k} \X Tags : vals = <<v>> /\ buf'[cl][0] = v BY <4>3
        <5>2. ItemCell(1) = 0 BY DEF ItemCell
        <5> QED BY <5>1, <5>2
      <4>4. op = "Get" => Reads(call'[cl]) BY <4>1 DEF Reads
      <4>5. \A i \in 1 .. 1 : i = 1 OBVIOUS
      <4> QED BY <4>1, <4>2, <4>3, <4>4, <4>5 DEF Staged, Reads, ItemCell
    <3>3. call'[cl] = [op |-> op, keys |-> <<k>>, vals |-> vals] BY <2>1
    <3> HIDE DEF c
    <3> QED BY <1>3, <3>1, <3>2, <3>3, OneItem
  <2> QED BY <1>1, <2>1, <2>2 DEF Begins
<1> QED BY <1>1, <1>2, <1>3 DEF Issue

LEMMA WriteChainItems ==
  ASSUME NEW ks \in KeySeqs, NEW s \in Servers
  PROVE  LET ch == WriteChain(ks, s)
         IN Listed(ch, ks, s, "write")
BY DEF WriteChain, Wr, ItemCell, Listed

LEMMA ReadsAtItems ==
  ASSUME NEW ks \in KeySeqs, NEW s \in Servers
  PROVE  LET ch == ReadsAt(ks, s, Len(ks))
         IN Listed(ch, ks, s, "read")
<1>1. IndicesAt(ks, s) \cap (1 .. Len(ks)) = IndicesAt(ks, s)
  BY DEF IndicesAt
<1> QED BY <1>1 DEF ReadsAt, Wr, ItemCell, Listed

(* What a batch posts on empty queues.                                     *)
LEMMA BatchPosts ==
  ASSUME NEW cl \in Clients, NEW ks \in KeySeqs, EmptyQueues(cl), NEW r,
         NEW op, op = IF Reads(call'[cl]) THEN "read" ELSE "write",
         \A s \in Servers :
           /\ wq'[cl][s] = wq[cl][s] \o r[s]
           /\ Listed(r[s], ks, s, op)
  PROVE  Posted(cl, ks)
<1> SUFFICES ASSUME NEW s \in Servers
             PROVE  Listed(wq'[cl][s], ks, s, op)
  BY DEF Posted
<1>1. wq'[cl][s] = <<>> \o r[s] BY DEF EmptyQueues
<1>2. Cardinality(IndicesAt(ks, s)) \in Nat BY ShareListed
<1>3. PICK x : x = r[s] OBVIOUS
<1>4. DOMAIN x = 1 .. Cardinality(IndicesAt(ks, s)) /\ x = [j \in DOMAIN x |-> x[j]]
  BY <1>3 DEF Listed
<1>5. <<>> \o x = x BY <1>2, <1>4, NothingBefore
<1>6. wq'[cl][s] = r[s] BY <1>1, <1>3, <1>5
<1> QED BY <1>6

LEMMA PutBatchBegins ==
  ASSUME TypeOK, TypeOK', NEW cl \in Clients, ClientLedger(cl),
         NEW ks \in KeySeqs, NEW vs \in ValuesFor(ks), PutBatch(cl, ks, vs)
  PROVE  Begins(cl)
<1> DEFINE c == [op |-> "PutBatch", keys |-> ks, vals |-> vs]
<1>1. c.keys = ks /\ c.op = "PutBatch" /\ c.vals = vs /\ c # NoCall
  BY DEF NoCall
<1>2. /\ phase[cl] = "idle" /\ mem' = mem
      /\ buf' = [buf EXCEPT ![cl] =
                   [b \in BufIndex |-> IF b < Len(ks) THEN vs[b + 1] ELSE @[b]]]
      /\ \/ Return(cl, c, ErrRet)
         \/ /\ Len(ks) <= BufCells
            /\ wq' = [wq EXCEPT ![cl] = [s \in Servers |-> @[s] \o WriteChain(ks, s)]]
            /\ Await(cl, c)
  BY DEF PutBatch
<1> HIDE DEF c
<1>3. CASE Return(cl, c, ErrRet)
  BY <1>1, <1>2, <1>3, ErrorCall DEF Begins
<1>4. CASE /\ Len(ks) <= BufCells
           /\ wq' = [wq EXCEPT ![cl] = [s \in Servers |-> @[s] \o WriteChain(ks, s)]]
           /\ Await(cl, c)
  <2>1. /\ phase'[cl] = "polling" /\ call'[cl] = c /\ ret'[cl] = NoRet
        /\ abandoned'[cl] = abandoned[cl]
    BY <1>4, AwaitCall
  <2>2. ~Reads(call'[cl]) BY <1>1, <2>1 DEF Reads
  <2>3. Len(vs) = Len(ks) /\ Len(ks) \in Nat BY ValuesForType, KeySeqType
  <2>4. \A i \in 1 .. Len(ks) : vs[i] \in {ks[i]} \X Tags BY DEF ValuesFor
  <2>5. \A i \in 1 .. Len(ks) : buf'[cl][i - 1] = vs[i]
    <3> TAKE i \in 1 .. Len(ks)
    <3>1. i - 1 \in BufIndex /\ i - 1 < Len(ks) /\ (i - 1) + 1 = i
      BY <1>4, <2>3 DEF BufIndex
    <3>2. buf'[cl] = [b \in BufIndex |-> IF b < Len(ks) THEN vs[b + 1] ELSE buf[cl][b]]
      BY <1>2 DEF TypeOK
    <3> QED BY <3>1, <3>2
  <2>6. Staged(cl)'
    BY <1>1, <1>4, <2>1, <2>2, <2>3, <2>4, <2>5 DEF Staged, Reads, ItemCell
  <2>7. ASSUME ~abandoned[cl] PROVE InFlight(cl)' /\ Todo(cl)' = Items(cl)'
    <3>1. EmptyQueues(cl) BY <1>2, <2>7 DEF ClientLedger
    <3>2. PICK r : r = [s \in Servers |-> WriteChain(ks, s)] OBVIOUS
    <3>3. \A s \in Servers : wq'[cl][s] = wq[cl][s] \o r[s] BY <1>4, <3>2 DEF TypeOK
    <3>4. \A s \in Servers : r[s] = WriteChain(ks, s) BY <3>2
    <3>5. Posted(cl, ks)
      <4>1. PICK op : op = "write" OBVIOUS
      <4>2. op = IF Reads(call'[cl]) THEN "read" ELSE "write" BY <2>2, <4>1
      <4>3. \A s \in Servers :
              /\ wq'[cl][s] = wq[cl][s] \o r[s]
              /\ Listed(r[s], ks, s, op)
        BY <3>3, <3>4, <4>1, WriteChainItems
      <4> QED BY <3>1, <4>2, <4>3, BatchPosts
    <3>6. call'[cl].keys = ks BY <1>1, <2>1
    <3> QED BY <2>6, <3>5, <3>6, BatchItems
  <2> QED BY <1>1, <1>2, <2>1, <2>7 DEF Begins
<1> QED BY <1>2, <1>3, <1>4

LEMMA GetBatchBegins ==
  ASSUME TypeOK, TypeOK', NEW cl \in Clients, ClientLedger(cl), NEW ks \in KeySeqs,
         GetBatch(cl, ks)
  PROVE  Begins(cl)
<1> DEFINE c == [op |-> "GetBatch", keys |-> ks, vals |-> <<>>]
<1>1. c.keys = ks /\ c.op = "GetBatch" /\ c # NoCall
  BY DEF NoCall
<1>2. /\ phase[cl] = "idle" /\ mem' = mem
      /\ \/ Return(cl, c, ErrRet)
         \/ /\ \A i \in 1 .. Len(ks) : CanRead(cl, ks, i)
            /\ wq' = [wq EXCEPT ![cl] = [s \in Servers |-> @[s] \o ReadsAt(ks, s, Len(ks))]]
            /\ Await(cl, c)
  BY DEF GetBatch
<1> HIDE DEF c
<1>3. CASE Return(cl, c, ErrRet)
  BY <1>1, <1>2, <1>3, ErrorCall DEF Begins
<1>4. CASE /\ \A i \in 1 .. Len(ks) : CanRead(cl, ks, i)
           /\ wq' = [wq EXCEPT ![cl] = [s \in Servers |-> @[s] \o ReadsAt(ks, s, Len(ks))]]
           /\ Await(cl, c)
  <2>1. /\ phase'[cl] = "polling" /\ call'[cl] = c /\ ret'[cl] = NoRet
        /\ abandoned'[cl] = abandoned[cl]
    BY <1>4, AwaitCall
  <2>2. Reads(call'[cl]) BY <1>1, <2>1 DEF Reads
  <2>3. Len(ks) <= BufCells
    <3>1. Len(ks) \in 1 .. MaxBatch BY KeySeqType
    <3>2. Len(ks) \in 1 .. Len(ks) BY <3>1
    <3> QED BY <1>4, <3>2 DEF CanRead
  <2>4. Staged(cl)'
    BY <1>1, <2>1, <2>2, <2>3 DEF Staged, Reads
  <2>5. ASSUME ~abandoned[cl] PROVE InFlight(cl)' /\ Todo(cl)' = Items(cl)'
    <3>1. EmptyQueues(cl) BY <1>2, <2>5 DEF ClientLedger
    <3>2. PICK r : r = [s \in Servers |-> ReadsAt(ks, s, Len(ks))] OBVIOUS
    <3>3. \A s \in Servers : wq'[cl][s] = wq[cl][s] \o r[s] BY <1>4, <3>2 DEF TypeOK
    <3>4. \A s \in Servers : r[s] = ReadsAt(ks, s, Len(ks)) BY <3>2
    <3>5. Posted(cl, ks)
      <4>1. PICK op : op = "read" OBVIOUS
      <4>2. op = IF Reads(call'[cl]) THEN "read" ELSE "write" BY <2>2, <4>1
      <4>3. \A s \in Servers :
              /\ wq'[cl][s] = wq[cl][s] \o r[s]
              /\ Listed(r[s], ks, s, op)
        BY <3>3, <3>4, <4>1, ReadsAtItems
      <4> QED BY <3>1, <4>2, <4>3, BatchPosts
    <3>6. call'[cl].keys = ks BY <1>1, <2>1
    <3> QED BY <2>4, <3>5, <3>6, BatchItems
  <2> QED BY <1>1, <1>2, <2>1, <2>5 DEF Begins
<1> QED BY <1>2, <1>3, <1>4

(* Every call but a Send begins so.                                        *)
LEMMA CallBegins ==
  ASSUME OneSided, TypeOK, TypeOK', NEW cl \in Clients, ClientLedger(cl), Call(cl)
  PROVE  Begins(cl)
<1>0. "Send" \notin Ops
  BY DEF OneSided
<1>1. CASE \E ks \in KeySeqs : \E vs \in ValuesFor(ks) : PutBatch(cl, ks, vs)
  BY <1>1, PutBatchBegins
<1>2. CASE \E ks \in KeySeqs : GetBatch(cl, ks)
  BY <1>2, GetBatchBegins
<1>4. ASSUME NEW k \in Keys, NEW t \in Tags, Put(cl, k, <<k, t>>) PROVE Begins(cl)
  <2> DEFINE wr == Wr("write", 0, k, 1, TRUE)
             vals == <<<<k, t>>>>
  <2>1. /\ phase[cl] = "idle" /\ mem' = mem
        /\ Issue(cl, [op |-> "Put", keys |-> <<k>>, vals |-> vals], wr)
        /\ buf' = [buf EXCEPT ![cl][0] = <<k, t>>]
    BY <1>4 DEF Put
  <2>2. wr.cell = 0 /\ wr.addr = k /\ ~wr.done /\ wr.cqe = "none" /\ wr.op = "write"
    BY ONLY DEF Wr
  <2>3. \E v \in {k} \X Tags : vals = <<v>> /\ buf'[cl][0] = v
    BY <2>1 DEF TypeOK, BufIndex
  <2> HIDE DEF wr, vals
  <2> QED BY <2>1, <2>2, <2>3, SingleBegins
<1>5. ASSUME NEW k \in Keys, NEW t \in Tags, Write(cl, k, <<k, t>>) PROVE Begins(cl)
  <2> DEFINE wr == Wr("write", 0, k, 1, TRUE)
             vals == <<<<k, t>>>>
  <2>1. /\ phase[cl] = "idle" /\ mem' = mem
        /\ Issue(cl, [op |-> "Write", keys |-> <<k>>, vals |-> vals], wr)
        /\ buf' = [buf EXCEPT ![cl][0] = <<k, t>>]
    BY <1>5 DEF Write
  <2>2. wr.cell = 0 /\ wr.addr = k /\ ~wr.done /\ wr.cqe = "none" /\ wr.op = "write"
    BY ONLY DEF Wr
  <2>3. \E v \in {k} \X Tags : vals = <<v>> /\ buf'[cl][0] = v
    BY <2>1 DEF TypeOK, BufIndex
  <2> HIDE DEF wr, vals
  <2> QED BY <2>1, <2>2, <2>3, SingleBegins
<1>6. ASSUME NEW k \in Keys, Get(cl, k) PROVE Begins(cl)
  <2> DEFINE wr == Wr("read", 0, k, 2, TRUE)
             vals == <<>>
  <2>1. /\ phase[cl] = "idle" /\ mem' = mem
        /\ Issue(cl, [op |-> "Get", keys |-> <<k>>, vals |-> vals], wr)
    BY <1>6 DEF Get
  <2>2. wr.cell = 0 /\ wr.addr = k /\ ~wr.done /\ wr.cqe = "none" /\ wr.op = "read"
    BY ONLY DEF Wr
  <2> HIDE DEF wr, vals
  <2> QED BY <2>1, <2>2, SingleBegins
<1> QED BY <1>0, <1>1, <1>2, <1>4, <1>5, <1>6 DEF Call
-----------------------------------------------------------------------------
(* The poll loop.                                                          *)

(* What item by item a call that ends now returns.                         *)
Outcome(cl) ==
  [status |-> "ok",
   reads |-> IF Reads(call[cl]) THEN [i \in Items(cl) |-> Seen(cl, i)] ELSE <<>>]

(* What a step of the poll loop does.                                      *)
Polled(cl) ==
  /\ mem' = mem /\ call'[cl] = call[cl]
  /\ \/ /\ phase'[cl] = "polling" /\ ret'[cl] = ret[cl] /\ ~abandoned'[cl]
        /\ InFlight(cl)' /\ ItemsRest(cl)
     \/ phase'[cl] = "idle" /\ ret'[cl] = ErrRet
     \/ /\ phase'[cl] = "idle" /\ ~abandoned'[cl]
        /\ Todo(cl) = {} /\ ret'[cl] = Outcome(cl)

(* A call that returns nil copies what its reads have seen.                *)
LEMMA ResultsSeen ==
  ASSUME NEW cl \in Clients, EmptyQueues(cl)', Staged(cl), ItemsRest(cl),
         call'[cl] = call[cl], buf' = buf
  PROVE  /\ Todo(cl) = {}
         /\ Results(call[cl], buf[cl]) = Outcome(cl).reads
<1>1. \A x : Carrying(cl, x)' = {}
  BY DEF Carrying, Outstanding, EmptyQueues
<1>2. Todo(cl)' = {}
  <2>1. \A x : x \notin Todo(cl)' BY <1>1, TodoCarrying
  <2> QED BY <2>1
<1>3. Todo(cl) = {}
  BY <1>2 DEF ItemsRest
<1>4. CASE Reads(call[cl])
  <2>1. \A i \in Items(cl) : Seen(cl, i) = buf[cl][ItemCell(i)]
    <3> TAKE i \in Items(cl)
    <3>1. {w \in Carrying(cl, i)' : w.done /\ w.cqe # "ok"} = {} BY <1>1
    <3>2. Seen(cl, i)' = buf[cl][ItemCell(i)]
      BY <1>2, <1>4, <3>1 DEF Seen, Reads, ItemCell
    <3> QED BY <3>2 DEF ItemsRest
  <2>2. Outcome(cl).reads = [i \in Items(cl) |-> Seen(cl, i)]
    BY <1>4 DEF Outcome
  <2>3. Outcome(cl).reads = [i \in Items(cl) |-> buf[cl][ItemCell(i)]]
    BY <2>1, <2>2
  <2>4. CASE call[cl].op = "GetBatch"
    <3>1. Results(call[cl], buf[cl]) = [i \in 1 .. Len(call[cl].keys) |-> buf[cl][ItemCell(i)]]
      BY <2>4 DEF Results
    <3> QED BY <1>3, <2>3, <3>1 DEF Items
  <2>5. CASE call[cl].op = "Get"
    <3>1. Results(call[cl], buf[cl]) = <<buf[cl][0]>> BY <2>5 DEF Results
    <3>2. Items(cl) = 1 .. 1 BY <2>5 DEF Staged, Items
    <3>3. <<buf[cl][0]>> = [i \in 1 .. 1 |-> buf[cl][0]] OBVIOUS
    <3>4. \A i \in 1 .. 1 : ItemCell(i) = 0 BY DEF ItemCell
    <3>5. Outcome(cl).reads = [i \in 1 .. 1 |-> buf[cl][0]] BY <2>3, <3>2, <3>4
    <3> QED BY <1>3, <3>1, <3>3, <3>5
  <2> QED BY <1>4, <2>4, <2>5 DEF Reads
<1>5. CASE ~Reads(call[cl])
  <2>1. Outcome(cl).reads = <<>> BY <1>5 DEF Outcome
  <2>2. call[cl].op # "Get" /\ call[cl].op # "GetBatch" BY <1>5 DEF Reads
  <2>3. Results(call[cl], buf[cl]) = <<>> BY <2>2 DEF Results
  <2> QED BY <1>3, <2>1, <2>3
<1> QED BY <1>3, <1>4, <1>5

LEMMA AdvanceEffect ==
  ASSUME TypeOK, NEW cl \in Clients, NEW s, NEW k, Advance(cl, s, k), phase[cl] = "polling",
         ~abandoned[cl], InFlight(cl), InFlight(cl)', ItemsRest(cl), ClientLedger(cl)',
         mem' = mem, buf' = buf
  PROVE  Polled(cl)
<1>1. CASE Return(cl, call[cl], [status |-> "ok", reads |-> Results(call[cl], buf[cl])])
  <2>1. /\ phase'[cl] = "idle" /\ call'[cl] = call[cl] /\ ~abandoned'[cl]
        /\ ret'[cl] = [status |-> "ok", reads |-> Results(call[cl], buf[cl])]
    BY <1>1 DEF Return, TypeOK, ErrRet
  <2>2. EmptyQueues(cl)' BY <2>1 DEF ClientLedger
  <2>3. Todo(cl) = {} /\ Results(call[cl], buf[cl]) = Outcome(cl).reads
    BY <2>1, <2>2, ResultsSeen DEF InFlight
  <2>4. ret'[cl] = Outcome(cl) BY <2>1, <2>3 DEF Outcome
  <2> QED BY <2>1, <2>3, <2>4 DEF Polled
<1>2. CASE UNCHANGED <<phase, call, ret, abandoned>>
  BY <1>2 DEF Polled
<1> QED BY <1>1, <1>2 DEF Advance

LEMMA PollEffect ==
  ASSUME TypeOK, NEW cl \in Clients, NEW s \in Servers, Poll(cl, s),
         ~abandoned[cl], InFlight(cl), ClientLedger(cl), ClientLedger(cl)'
  PROVE  phase[cl] = "polling" /\ Polled(cl)
<1>1. CASE PollEmpty(cl, s)
  <2>1. phase[cl] = "polling" /\ Advance(cl, s, 0) /\ wq' = wq /\ buf' = buf /\ mem' = mem
    BY <1>1 DEF PollEmpty, nicVars
  <2>2. call'[cl] = call[cl]
    BY <2>1 DEF Advance, Return, TypeOK
  <2>3. ItemsRest(cl) /\ InFlight(cl)'
    BY <2>1, <2>2, ItemsFrame
  <2> QED BY <2>1, <2>3, AdvanceEffect
<1>2. CASE PollCqe(cl, s)
  <2> DEFINE i == Oldest(wq[cl][s])
  <2>1. /\ phase[cl] = "polling" /\ Ready(wq[cl][s]) # {} /\ mem' = mem /\ buf' = buf
        /\ wq' = [wq EXCEPT ![cl][s] = Reclaim(wq[cl][s], i)]
        /\ \/ Return(cl, call[cl], ErrRet)
           \/ wq[cl][s][i].cqe = "ok" /\ \E k : Advance(cl, s, k)
    BY <1>2 DEF PollCqe
  <2>2. CASE Return(cl, call[cl], ErrRet)
    BY <2>1, <2>2, ErrorCall DEF Polled
  <2>3. ASSUME NEW k, wq[cl][s][i].cqe = "ok", Advance(cl, s, k) PROVE Polled(cl)
    <3>1. call'[cl] = call[cl]
      BY <2>3 DEF Advance, Return, TypeOK
    <3>2. ReportedInOrder(cl) BY <2>1 DEF ClientLedger, Balanced
    <3>3. InFlight(cl)' /\ ItemsRest(cl)
      BY <2>1, <2>3, <3>1, <3>2, TakeEffect
    <3> QED BY <2>1, <2>3, <3>3, AdvanceEffect
  <2> QED BY <2>1, <2>2, <2>3
<1> QED BY <1>1, <1>2 DEF Poll

-----------------------------------------------------------------------------
(* The other clients.                                                      *)

LEMMA Untouched ==
  ASSUME TypeOK, NEW cl \in Clients, NEW d \in Clients, d # cl, Call(cl) \/ Progress(cl)
  PROVE  buf'[d] = buf[d] /\ ret'[d] = ret[d]
<1>1. ASSUME NEW c, NEW r, Return(cl, c, r) PROVE ret'[d] = ret[d]
  BY <1>1 DEF Return, TypeOK
<1>2. ASSUME NEW c, Await(cl, c) PROVE ret'[d] = ret[d]
  BY <1>2 DEF Await, TypeOK
<1>3. ASSUME NEW s, NEW k, Advance(cl, s, k) PROVE ret'[d] = ret[d]
  BY <1>1, <1>3 DEF Advance
<1>4. ASSUME NEW c, NEW wr, Issue(cl, c, wr) PROVE ret'[d] = ret[d]
  BY <1>1, <1>2, <1>4 DEF Issue
<1>5. ASSUME NEW k, NEW v, Put(cl, k, v) \/ Write(cl, k, v) \/ Send(cl, k, v) \/ Get(cl, k)
      PROVE  buf'[d] = buf[d] /\ ret'[d] = ret[d]
  <2>1. ret'[d] = ret[d] BY <1>4, <1>5 DEF Put, Write, Send, Get
  <2>2. buf'[d] = buf[d] BY <1>5 DEF Put, Write, Send, Get, TypeOK
  <2> QED BY <2>1, <2>2
<1>6. ASSUME NEW ks, NEW vs, PutBatch(cl, ks, vs) PROVE buf'[d] = buf[d] /\ ret'[d] = ret[d]
  <2>1. buf'[d] = buf[d] BY <1>6 DEF PutBatch, TypeOK
  <2>2. ret'[d] = ret[d] BY <1>1, <1>2, <1>6 DEF PutBatch
  <2> QED BY <2>1, <2>2
<1>7. ASSUME NEW ks, GetBatch(cl, ks) PROVE buf'[d] = buf[d] /\ ret'[d] = ret[d]
  BY <1>1, <1>2, <1>7 DEF GetBatch
<1>8. CASE Call(cl)
  BY <1>5, <1>6, <1>7, <1>8 DEF Call
<1>9. CASE Progress(cl)
  <2>1. CASE Close(cl) BY <2>1 DEF Close
  <2>2. ASSUME NEW s \in Servers, Poll(cl, s) PROVE buf'[d] = buf[d] /\ ret'[d] = ret[d]
    <3>1. CASE PollEmpty(cl, s) BY <1>3, <3>1 DEF PollEmpty, nicVars
    <3>2. CASE PollCqe(cl, s) BY <1>1, <1>3, <3>2 DEF PollCqe
    <3> QED BY <2>2, <3>1, <3>2 DEF Poll
  <2>3. ASSUME NEW s \in Servers, Nic(cl, s) \/ Fault(cl, s) \/ ServerRepost(cl, s)
        PROVE  buf'[d] = buf[d] /\ ret'[d] = ret[d]
    <3>1. CASE NicComplete(cl, s) BY <3>1 DEF NicComplete, TypeOK, callVars
    <3>2. CASE ~NicComplete(cl, s)
      BY <2>3, <3>2 DEF Nic, Fault, NicWrite, NicRead, NicSend, NicFlush, NicRetryRead, NicFail,
                        ServerHandlerReturns, ServerRepost, callVars
    <3> QED BY <3>1, <3>2
  <2> QED BY <1>9, <2>1, <2>2, <2>3 DEF Progress
<1> QED BY <1>8, <1>9

(* A step of client cl leaves client d as it is.                           *)
Bystander(d) ==
  /\ phase'[d] = phase[d] /\ call'[d] = call[d] /\ ret'[d] = ret[d]
  /\ abandoned'[d] = abandoned[d] /\ ItemsRest(d)
  /\ InFlight(d) => InFlight(d)'
  /\ EmptyQueues(d) => EmptyQueues(d)'

LEMMA Bystanders ==
  ASSUME TypeOK, NEW cl \in Clients, NEW d \in Clients, d # cl, Call(cl) \/ Progress(cl)
  PROVE  Bystander(d)
<1>1. /\ wq'[d] = wq[d] /\ phase'[d] = phase[d] /\ call'[d] = call[d]
      /\ abandoned'[d] = abandoned[d] /\ buf'[d] = buf[d] /\ ret'[d] = ret[d]
  BY OthersKept, Untouched
<1>2. EmptyQueues(d) => EmptyQueues(d)'
  BY <1>1 DEF EmptyQueues
<1> QED BY <1>1, <1>2, ItemsFrame DEF Bystander
-----------------------------------------------------------------------------
(* ItemsInFlight and Settled.                                              *)

LEMMA CallStarts ==
  ASSUME NEW cl \in Clients, Call(cl)
  PROVE  /\ phase[cl] = "idle"
         /\ \E c : c # NoCall /\ (Await(cl, c) \/ Return(cl, c, ErrRet))
<1>1. \A op, keys, vals : op # "none" => [op |-> op, keys |-> keys, vals |-> vals] # NoCall
  <2> SUFFICES ASSUME NEW op, NEW keys, NEW vals, op # "none",
                      [op |-> op, keys |-> keys, vals |-> vals] = NoCall
               PROVE  FALSE
    OBVIOUS
  <2>1. [op |-> op, keys |-> keys, vals |-> vals].op = "none" BY DEF NoCall
  <2> QED BY <2>1
<1>2. CASE \E k \in Keys, t \in Tags :
             Put(cl, k, <<k, t>>) \/ Write(cl, k, <<k, t>>) \/ Send(cl, k, <<k, t>>)
  <2>1. PICK k \in Keys, t \in Tags :
          Put(cl, k, <<k, t>>) \/ Write(cl, k, <<k, t>>) \/ Send(cl, k, <<k, t>>)
    BY <1>2
  <2>2. CASE Put(cl, k, <<k, t>>)
    BY <1>1, <2>2 DEF Put, Issue
  <2>3. CASE Write(cl, k, <<k, t>>)
    BY <1>1, <2>3 DEF Write, Issue
  <2>4. CASE Send(cl, k, <<k, t>>)
    BY <1>1, <2>4 DEF Send, Issue
  <2> QED BY <2>1, <2>2, <2>3, <2>4
<1>3. CASE \E k \in Keys : Get(cl, k)
  BY <1>1, <1>3 DEF Get, Issue
<1>4. CASE \E ks \in KeySeqs : \E vs \in ValuesFor(ks) : PutBatch(cl, ks, vs)
  <2>1. PICK ks \in KeySeqs : \E vs \in ValuesFor(ks) : PutBatch(cl, ks, vs) BY <1>4
  <2>2. PICK vs \in ValuesFor(ks) : PutBatch(cl, ks, vs) BY <2>1
  <2> DEFINE c == [op |-> "PutBatch", keys |-> ks, vals |-> vs]
  <2>3. phase[cl] = "idle" /\ (Await(cl, c) \/ Return(cl, c, ErrRet)) BY <2>2 DEF PutBatch
  <2>4. c # NoCall BY <1>1
  <2> HIDE DEF c
  <2> QED BY <2>3, <2>4
<1>5. CASE \E ks \in KeySeqs : GetBatch(cl, ks)
  <2>1. PICK ks \in KeySeqs : GetBatch(cl, ks) BY <1>5
  <2> DEFINE c == [op |-> "GetBatch", keys |-> ks, vals |-> <<>>]
  <2>3. phase[cl] = "idle" /\ (Await(cl, c) \/ Return(cl, c, ErrRet)) BY <2>1 DEF GetBatch
  <2>4. c # NoCall BY <1>1
  <2> HIDE DEF c
  <2> QED BY <2>3, <2>4
<1> QED BY <1>2, <1>3, <1>4, <1>5 DEF Call

LEMMA PollCalls ==
  ASSUME TypeOK, NEW cl \in Clients, NEW s \in Servers, Poll(cl, s)
  PROVE  /\ phase[cl] = "polling" /\ phase'[cl] \in {"idle", "polling"}
         /\ mem' = mem /\ call'[cl] = call[cl]
         /\ abandoned[cl] => abandoned'[cl]
         /\ phase'[cl] = "polling" => ret'[cl] = ret[cl] /\ abandoned'[cl] = abandoned[cl]
<1>1. /\ phase[cl] = "polling" /\ mem' = mem
      /\ Return(cl, call[cl], ErrRet) \/ \E k : Advance(cl, s, k)
  BY DEF Poll, PollEmpty, PollCqe, nicVars
<1>2. CASE \E r : Return(cl, call[cl], r)
  BY <1>1, <1>2 DEF Return, TypeOK
<1>3. CASE UNCHANGED <<phase, call, ret, abandoned>>
  BY <1>1, <1>3
<1> QED BY <1>1, <1>2, <1>3 DEF Advance

LEMMA NicCalls ==
  ASSUME NEW cl, NEW s, Nic(cl, s) \/ Fault(cl, s) \/ ServerRepost(cl, s)
  PROVE  UNCHANGED callVars
BY DEF Nic, Fault, NicWrite, NicRead, NicSend, NicComplete, NicFlush, NicRetryRead, NicFail,
       ServerHandlerReturns, ServerRepost

LEMMA ItemsStep ==
  ASSUME OneSided, TypeInv, TypeOK', Ledger, Ledger', ItemsInFlight, [Next]_vars
  PROVE  ItemsInFlight'
<1> SUFFICES ASSUME NEW d \in Clients, Busy(d)' PROVE InFlight(d)'
  BY DEF ItemsInFlight, InFlight, OneSided
<1>1. TypeOK /\ ClientLedger(d) /\ ClientLedger(d)'
  BY DEF TypeInv, Ledger
<1>2. Busy(d) => InFlight(d)
  BY DEF ItemsInFlight, InFlight
<1>3. ASSUME NEW cl \in Clients, cl # d, Call(cl) \/ Progress(cl) PROVE InFlight(d)'
  BY <1>1, <1>2, <1>3, Bystanders DEF Bystander, Busy
<1>4. CASE Call(d)
  BY <1>1, <1>4, CallBegins DEF Begins, Busy
<1>5. CASE Close(d)
  BY <1>1, <1>5 DEF Close, Busy, TypeOK
<1>6. ASSUME NEW s \in Servers, Poll(d, s) PROVE InFlight(d)'
  <2>1. Busy(d) BY <1>1, <1>6, PollCalls DEF Busy
  <2>2. Polled(d) BY <1>1, <1>2, <1>6, <2>1, PollEffect DEF Busy
  <2> QED BY <2>2 DEF Polled, Busy
<1>7. ASSUME NEW s \in Servers, Nic(d, s) \/ Fault(d, s) \/ ServerRepost(d, s)
      PROVE  InFlight(d)'
  <2>1. Busy(d) BY <1>7, NicCalls DEF Busy, callVars
  <2> QED BY <1>1, <1>2, <1>7, <2>1, NicEffect
<1>8. CASE UNCHANGED vars
  BY <1>2, <1>8, ItemsFrame DEF vars, nicVars, callVars, Busy
<1> QED BY <1>3, <1>4, <1>5, <1>6, <1>7, <1>8 DEF Next, Progress

(* While a client that abandoned no call polls, its localBuf and its       *)
(* queues hold the items of that call and of no other: each WR is one item *)
(* of the batch, in the order of the batch, on the server that owns the    *)
(* key, and the value of a write stays in its cell (client.go:228-277,     *)
(* 311-361).                                                               *)
THEOREM ItemsAreInFlight == Spec => []ItemsInFlight
<1>1. Init => ItemsInFlight
  BY DEF Init, ItemsInFlight, Busy
<1>2. TypeInv /\ TypeInv' /\ Ledger /\ Ledger' /\ ItemsInFlight /\ [Next]_vars => ItemsInFlight'
  <2> SUFFICES ASSUME TypeInv, TypeInv', Ledger, Ledger', ItemsInFlight, [Next]_vars
               PROVE  ItemsInFlight'
    OBVIOUS
  <2>1. CASE OneSided BY <2>1, ItemsStep DEF TypeInv
  <2>2. CASE ~OneSided BY <2>2 DEF ItemsInFlight, OneSided
  <2> QED BY <2>1, <2>2
<1> QED BY <1>1, <1>2, TypeInvariant, LedgerKeeps, PTL DEF Spec

LEMMA NothingToDo ==
  ASSUME TypeOK, NEW d \in Clients, NEW s \in Servers, EmptyQueues(d),
         Nic(d, s) \/ Fault(d, s) \/ ServerRepost(d, s)
  PROVE  EmptyQueues(d)' /\ mem' = mem
<1>1. DOMAIN wq[d][s] = {}
  BY DEF EmptyQueues
<1>2. wq' = wq /\ mem' = mem
  BY <1>1 DEF Nic, Fault, NicWrite, NicRead, NicSend, NicComplete, NicFlush, NicRetryRead, NicFail,
              ServerHandlerReturns, ServerRepost
<1> QED BY <1>2 DEF EmptyQueues

SettledClient(d) ==
  /\ phase[d] = "closed" => EmptyQueues(d)
  /\ phase[d] = "polling" => ret[d] = NoRet
  /\ call[d] = NoCall => phase[d] # "polling" /\ ~abandoned[d] /\ ret[d] = NoRet

LEMMA SettledStep ==
  ASSUME TypeInv, TypeOK', Settled, [Next]_vars
  PROVE  Settled'
<1> SUFFICES ASSUME NEW d \in Clients PROVE SettledClient(d)'
  BY DEF Settled, SettledClient
<1>1. TypeOK /\ SettledClient(d)
  BY DEF TypeInv, Settled, SettledClient
<1>3. ASSUME NEW cl \in Clients, cl # d, Call(cl) \/ Progress(cl) PROVE SettledClient(d)'
  <2>1. Bystander(d) BY <1>1, <1>3, Bystanders
  <2> QED BY <1>1, <2>1 DEF Bystander, SettledClient
<1>4. CASE Call(d)
  <2>1. PICK c : c # NoCall /\ (Await(d, c) \/ Return(d, c, ErrRet)) BY <1>4, CallStarts
  <2>2. CASE Await(d, c) BY <1>1, <2>1, <2>2, AwaitCall DEF SettledClient
  <2>3. CASE Return(d, c, ErrRet) BY <1>1, <2>1, <2>3, ErrorCall DEF SettledClient
  <2> QED BY <2>1, <2>2, <2>3
<1>5. CASE Close(d)
  <2>1. /\ phase'[d] = "closed" /\ call'[d] = call[d] /\ ret'[d] = ret[d]
        /\ abandoned'[d] = abandoned[d] /\ \A s \in Servers : wq'[d][s] = <<>>
    BY <1>1, <1>5 DEF Close, TypeOK
  <2> QED BY <1>1, <2>1 DEF SettledClient, EmptyQueues
<1>6. ASSUME NEW s \in Servers, Poll(d, s) PROVE SettledClient(d)'
  BY <1>1, <1>6, PollCalls DEF SettledClient
<1>7. ASSUME NEW s \in Servers, Nic(d, s) \/ Fault(d, s) \/ ServerRepost(d, s)
      PROVE  SettledClient(d)'
  <2>1. UNCHANGED callVars BY <1>7, NicCalls
  <2>2. phase[d] = "closed" => EmptyQueues(d)' BY <1>1, <1>7, NothingToDo DEF SettledClient
  <2> QED BY <1>1, <2>1, <2>2 DEF SettledClient, callVars
<1>8. CASE UNCHANGED vars
  BY <1>1, <1>8 DEF vars, nicVars, callVars, SettledClient, EmptyQueues
<1> QED BY <1>3, <1>4, <1>5, <1>6, <1>7, <1>8 DEF Next, Progress

(* A closed client has nothing outstanding, a polling call has returned    *)
(* nothing yet, and a client that never called has done nothing.           *)
THEOREM ClientsSettle == Spec => []Settled
<1>1. Init => Settled
  BY DEF Init, Settled
<1>2. TypeInv /\ TypeInv' /\ Settled /\ [Next]_vars => Settled'
  BY SettledStep DEF TypeInv
<1> QED BY <1>1, <1>2, TypeInvariant, PTL DEF Spec
-----------------------------------------------------------------------------
(* KvClient implements KvStore.                                            *)

(* What the abstract store sees of a client.                               *)
IdleView(cl) ==
  /\ absPhase[cl] = phase[cl] /\ absOp[cl] = Abstract!NoOp /\ absTodo[cl] = {}
  /\ absGot[cl] = <<>> /\ absRet[cl] = ret[cl]
BrokenView(cl) ==
  /\ absPhase[cl] = "broken" /\ absOp[cl] = Abstract!NoOp /\ absTodo[cl] = {}
  /\ absGot[cl] = <<>> /\ absRet[cl] = NoRet
BusyView(cl) ==
  /\ absPhase[cl] = "busy"
  /\ absOp[cl] = [reads |-> Reads(call[cl]), keys |-> call[cl].keys, vals |-> call[cl].vals]
  /\ absTodo[cl] = Todo(cl) /\ absGot[cl] = [i \in Items(cl) |-> Seen(cl, i)]
  /\ absRet[cl] = ret[cl]

LEMMA Views ==
  ASSUME NEW cl \in Clients
  PROVE  /\ ~abandoned[cl] /\ phase[cl] # "polling" => IdleView(cl)
         /\ abandoned[cl] => BrokenView(cl)
         /\ Busy(cl) => BusyView(cl)
<1>1. ~abandoned[cl] /\ phase[cl] # "polling" => IdleView(cl)
  BY DEF IdleView, absPhase, absOp, absTodo, absGot, absRet, Busy, Abstract!NoOp
<1>2. abandoned[cl] => BrokenView(cl)
  BY DEF BrokenView, absPhase, absOp, absTodo, absGot, absRet, Busy, Abstract!NoOp
<1>3. ASSUME Busy(cl) PROVE BusyView(cl)
  <2>1. ~abandoned[cl] /\ phase[cl] = "polling" BY <1>3 DEF Busy
  <2>2. absPhase[cl] = "busy" /\ absRet[cl] = ret[cl] BY <2>1 DEF absPhase, absRet
  <2>3. absTodo[cl] = Todo(cl) BY <1>3 DEF absTodo
  <2>4. absGot[cl] = [i \in Items(cl) |-> Seen(cl, i)] BY <1>3 DEF absGot, Items
  <2>5. absOp[cl] = [reads |-> Busy(cl) /\ Reads(call[cl]), keys |-> call[cl].keys,
                        vals |-> call[cl].vals]
    BY <1>3 DEF absOp
  <2>6. (Busy(cl) /\ Reads(call[cl])) = Reads(call[cl]) BY <1>3 DEF Reads
  <2>7. absOp[cl] = [reads |-> Reads(call[cl]), keys |-> call[cl].keys,
                        vals |-> call[cl].vals]
    BY <2>5, <2>6
  <2> QED BY <2>2, <2>3, <2>4, <2>7 DEF BusyView
<1> QED BY <1>1, <1>2, <1>3

LEMMA ViewsNext ==
  ASSUME NEW cl \in Clients
  PROVE  /\ ~abandoned'[cl] /\ phase'[cl] # "polling" => IdleView(cl)'
         /\ abandoned'[cl] => BrokenView(cl)'
         /\ Busy(cl)' => BusyView(cl)'
<1>1. ~abandoned'[cl] /\ phase'[cl] # "polling" => IdleView(cl)'
  BY DEF IdleView, absPhase, absOp, absTodo, absGot, absRet, Busy, Abstract!NoOp
<1>2. abandoned'[cl] => BrokenView(cl)'
  BY DEF BrokenView, absPhase, absOp, absTodo, absGot, absRet, Busy, Abstract!NoOp
<1>3. ASSUME Busy(cl)' PROVE BusyView(cl)'
  <2>1. ~abandoned'[cl] /\ phase'[cl] = "polling" BY <1>3 DEF Busy
  <2>2. absPhase'[cl] = "busy" /\ absRet'[cl] = ret'[cl] BY <2>1 DEF absPhase, absRet
  <2>3. absTodo'[cl] = Todo(cl)' BY <1>3 DEF absTodo
  <2>4. absGot'[cl] = [i \in Items(cl) |-> Seen(cl, i)]' BY <1>3 DEF absGot, Items
  <2>5. absOp'[cl] = [reads |-> Busy(cl) /\ Reads(call[cl]), keys |-> call[cl].keys,
                        vals |-> call[cl].vals]'
    BY <1>3 DEF absOp
  <2>6. (Busy(cl) /\ Reads(call[cl]))' = Reads(call[cl])' BY <1>3 DEF Reads
  <2>7. absOp'[cl] = [reads |-> Reads(call[cl]), keys |-> call[cl].keys,
                        vals |-> call[cl].vals]'
    BY <2>5, <2>6
  <2> QED BY <2>2, <2>3, <2>4, <2>7 DEF BusyView
<1> QED BY <1>1, <1>2, <1>3

ViewKept(d) ==
  /\ absPhase'[d] = absPhase[d] /\ absOp'[d] = absOp[d] /\ absTodo'[d] = absTodo[d]
  /\ absGot'[d] = absGot[d] /\ absRet'[d] = absRet[d]

(* A client whose call goes on without a new effect.                       *)
LEMMA KeptView ==
  ASSUME NEW d \in Clients, call'[d] = call[d], ret'[d] = ret[d], phase'[d] = phase[d],
         abandoned'[d] = abandoned[d], Busy(d) => ItemsRest(d)
  PROVE  ViewKept(d)
<1>1. CASE ~abandoned[d] /\ phase[d] # "polling"
  BY <1>1, Views, ViewsNext DEF IdleView, ViewKept, Abstract!NoOp
<1>2. CASE abandoned[d]
  BY <1>2, Views, ViewsNext DEF BrokenView, ViewKept, Abstract!NoOp
<1>3. CASE Busy(d)
  <2>1. BusyView(d) /\ BusyView(d)' BY <1>3, Views, ViewsNext DEF Busy
  <2>2. [i \in Items(d) |-> Seen(d, i)]' = [i \in Items(d) |-> Seen(d, i)]
    BY <1>3 DEF ItemsRest, Items
  <2>3. absOp'[d] = absOp[d] BY <2>1 DEF BusyView, Reads
  <2>4. absTodo'[d] = absTodo[d] BY <1>3, <2>1 DEF BusyView, ItemsRest
  <2> QED BY <2>1, <2>2, <2>3, <2>4 DEF BusyView, ViewKept
<1> QED BY <1>1, <1>2, <1>3 DEF Busy

LEMMA BystanderView ==
  ASSUME NEW d \in Clients, Bystander(d)
  PROVE  ViewKept(d)
BY KeptView DEF Bystander

LEMMA ViewUpdate ==
  ASSUME NEW cl \in Clients, \A d \in Clients \ {cl} : ViewKept(d)
  PROVE  /\ absPhase' = [absPhase EXCEPT ![cl] = absPhase'[cl]]
         /\ absOp' = [absOp EXCEPT ![cl] = absOp'[cl]]
         /\ absTodo' = [absTodo EXCEPT ![cl] = absTodo'[cl]]
         /\ absGot' = [absGot EXCEPT ![cl] = absGot'[cl]]
         /\ absRet' = [absRet EXCEPT ![cl] = absRet'[cl]]
         /\ absPhase'[cl] = absPhase[cl] => absPhase' = absPhase
         /\ absOp'[cl] = absOp[cl] => absOp' = absOp
         /\ absTodo'[cl] = absTodo[cl] => absTodo' = absTodo
         /\ absGot'[cl] = absGot[cl] => absGot' = absGot
         /\ absRet'[cl] = absRet[cl] => absRet' = absRet
<1>0. \A f, g : /\ f = [d \in Clients |-> f[d]] /\ g = [d \in Clients |-> g[d]]
                /\ \A d \in Clients \ {cl} : g[d] = f[d]
                => g = [f EXCEPT ![cl] = g[cl]] /\ (g[cl] = f[cl] => g = f)
  OBVIOUS
<1>1. absPhase = [d \in Clients |-> absPhase[d]] /\ absPhase' = [d \in Clients |-> absPhase'[d]]
  BY DEF absPhase
<1>2. absOp = [d \in Clients |-> absOp[d]] /\ absOp' = [d \in Clients |-> absOp'[d]]
  BY DEF absOp
<1>3. absTodo = [d \in Clients |-> absTodo[d]] /\ absTodo' = [d \in Clients |-> absTodo'[d]]
  BY DEF absTodo
<1>4. absGot = [d \in Clients |-> absGot[d]] /\ absGot' = [d \in Clients |-> absGot'[d]]
  BY DEF absGot
<1>5. absRet = [d \in Clients |-> absRet[d]] /\ absRet' = [d \in Clients |-> absRet'[d]]
  BY DEF absRet
<1>6. absPhase' = [absPhase EXCEPT ![cl] = absPhase'[cl]] /\ (absPhase'[cl] = absPhase[cl] => absPhase' = absPhase)
  BY <1>0, <1>1 DEF ViewKept
<1>7. absOp' = [absOp EXCEPT ![cl] = absOp'[cl]] /\ (absOp'[cl] = absOp[cl] => absOp' = absOp)
  BY <1>0, <1>2 DEF ViewKept
<1>8. absTodo' = [absTodo EXCEPT ![cl] = absTodo'[cl]] /\ (absTodo'[cl] = absTodo[cl] => absTodo' = absTodo)
  BY <1>0, <1>3 DEF ViewKept
<1>9. absGot' = [absGot EXCEPT ![cl] = absGot'[cl]] /\ (absGot'[cl] = absGot[cl] => absGot' = absGot)
  BY <1>0, <1>4 DEF ViewKept
<1>10. absRet' = [absRet EXCEPT ![cl] = absRet'[cl]] /\ (absRet'[cl] = absRet[cl] => absRet' = absRet)
  BY <1>0, <1>5 DEF ViewKept
<1> QED BY <1>6, <1>7, <1>8, <1>9, <1>10

LEMMA ViewsKept ==
  ASSUME \A d \in Clients : ViewKept(d)
  PROVE  UNCHANGED <<absPhase, absOp, absTodo, absGot, absRet>>
<1>1. absPhase = [d \in Clients |-> absPhase[d]] /\ absPhase' = [d \in Clients |-> absPhase'[d]]
  BY DEF absPhase
<1>2. absOp = [d \in Clients |-> absOp[d]] /\ absOp' = [d \in Clients |-> absOp'[d]]
  BY DEF absOp
<1>3. absTodo = [d \in Clients |-> absTodo[d]] /\ absTodo' = [d \in Clients |-> absTodo'[d]]
  BY DEF absTodo
<1>4. absGot = [d \in Clients |-> absGot[d]] /\ absGot' = [d \in Clients |-> absGot'[d]]
  BY DEF absGot
<1>5. absRet = [d \in Clients |-> absRet[d]] /\ absRet' = [d \in Clients |-> absRet'[d]]
  BY DEF absRet
<1> QED BY <1>1, <1>2, <1>3, <1>4, <1>5 DEF ViewKept

LEMMA StoreKept ==
  ASSUME mem' = mem PROVE absStore' = absStore
BY DEF absStore

LEMMA KeptStutters ==
  ASSUME mem' = mem, \A d \in Clients : ViewKept(d)
  PROVE  UNCHANGED Abstract!vars
BY StoreKept, ViewsKept DEF Abstract!vars

(* The call of cl ends.                                                    *)
LEMMA QuietView ==
  ASSUME NEW cl \in Clients, \A d \in Clients \ {cl} : ViewKept(d), mem' = mem,
         NEW p, NEW r, absPhase'[cl] = p, absOp'[cl] = Abstract!NoOp, absTodo'[cl] = {},
         absGot'[cl] = <<>>, absRet'[cl] = r
  PROVE  Abstract!Quiet(cl, p, r) /\ absStore' = absStore
BY ViewUpdate, StoreKept DEF Abstract!Quiet
(* A step of the abstract store, or none.                                  *)
AbsStep == Abstract!Next \/ UNCHANGED Abstract!vars

LEMMA BeginStep ==
  ASSUME TypeInv', NEW cl \in Clients, \A d \in Clients \ {cl} : ViewKept(d),
         mem' = mem, ~abandoned[cl], phase[cl] = "idle", ~abandoned'[cl],
         phase'[cl] = "polling", ret'[cl] = NoRet, InFlight(cl)', Todo(cl)' = Items(cl)'
  PROVE  AbsStep
<1>1. IdleView(cl) /\ BusyView(cl)'
  BY Views, ViewsNext DEF Busy
<1> DEFINE c == absOp'[cl]
<1>2. /\ c.reads = Reads(call'[cl]) /\ c.keys = call'[cl].keys /\ c.vals = call'[cl].vals
      /\ c = [reads |-> Reads(call'[cl]), keys |-> call'[cl].keys, vals |-> call'[cl].vals]
  BY <1>1 DEF BusyView, Reads
<1>3. /\ call'[cl].keys \in KeySeqs /\ call'[cl].vals \in ValSeqs
  BY DEF TypeInv, TypeOK, CallShape, CallRecords
<1>4. c.keys \in Seq(Keys) \ {<<>>}
  <2>1. call'[cl].keys \in Seq(Keys) /\ Len(call'[cl].keys) \in 1 .. MaxBatch
    BY <1>3, KeySeqType
  <2>2. Len(<<>>) = 0 OBVIOUS
  <2> QED BY <1>2, <2>1, <2>2
<1>5. c.vals \in Seq(Value)
  <2>1. call'[cl].vals \in Seq(Value) BY <1>3 DEF ValSeqs
  <2> QED BY <1>2, <2>1
<1>6. c.reads \/ Len(c.vals) = Len(c.keys)
  <2>1. Reads(call'[cl]) \/ Len(call'[cl].vals) = Len(call'[cl].keys)
    BY DEF InFlight, Staged, Reads
  <2> QED BY <1>2, <2>1
<1>7. absTodo'[cl] = 1 .. Len(c.keys)
  BY <1>1, <1>2 DEF BusyView, Items
<1>8. absGot'[cl] = [i \in 1 .. Len(c.keys) |-> Zero]
  <2>1. \A i \in Items(cl)' : Seen(cl, i)' = Zero
    <3> TAKE i \in Items(cl)'
    <3>1. i \in Todo(cl)' OBVIOUS
    <3> QED BY <3>1 DEF Seen
  <2>2. absGot'[cl] = [i \in Items(cl)' |-> Seen(cl, i)'] BY <1>1 DEF BusyView, Items
  <2>3. absGot'[cl] = [i \in Items(cl)' |-> Zero] BY <2>1, <2>2
  <2> QED BY <1>2, <2>3 DEF Items
<1>9. absPhase[cl] = "idle" /\ absPhase'[cl] = "busy" /\ absRet'[cl] = Abstract!NoRet
  BY <1>1 DEF IdleView, BusyView, NoRet, Abstract!NoRet
<1> HIDE DEF c
<1>10. Abstract!Begin(cl)
  BY <1>4, <1>5, <1>6, <1>7, <1>8, <1>9, ViewUpdate, StoreKept DEF Abstract!Begin, c
<1> QED BY <1>10 DEF AbsStep, Abstract!Next

(* The call of cl fails, before its poll loop or in it.                    *)
LEMMA FailureStep ==
  ASSUME NEW cl \in Clients, \A d \in Clients \ {cl} : ViewKept(d),
         mem' = mem, ~abandoned[cl], phase[cl] \in {"idle", "polling"},
         phase'[cl] = "idle", ret'[cl] = ErrRet
  PROVE  AbsStep
<1>1. absPhase[cl] \in {"idle", "busy"}
  BY Views DEF IdleView, BusyView, Busy
<1>2. CASE ~abandoned'[cl]
  <2>1. IdleView(cl)' BY <1>2, ViewsNext
  <2>2. /\ absPhase'[cl] = "idle" /\ absOp'[cl] = Abstract!NoOp /\ absTodo'[cl] = {}
        /\ absGot'[cl] = <<>> /\ absRet'[cl] = Abstract!ErrRet
    BY <2>1 DEF IdleView, ErrRet, Abstract!ErrRet, Abstract!NoOp
  <2>3. Abstract!Quiet(cl, "idle", Abstract!ErrRet) /\ absStore' = absStore
    BY <2>2, QuietView
  <2>4. Abstract!ReturnErr(cl) BY <1>1, <2>3 DEF Abstract!ReturnErr
  <2> QED BY <2>4 DEF AbsStep, Abstract!Next
<1>3. CASE abandoned'[cl]
  <2>1. BrokenView(cl)' BY <1>3, ViewsNext
  <2>2. /\ absPhase'[cl] = "broken" /\ absOp'[cl] = Abstract!NoOp /\ absTodo'[cl] = {}
        /\ absGot'[cl] = <<>> /\ absRet'[cl] = Abstract!NoRet
    BY <2>1 DEF BrokenView, NoRet, Abstract!NoRet, Abstract!NoOp
  <2>3. Abstract!Quiet(cl, "broken", Abstract!NoRet) /\ absStore' = absStore
    BY <2>2, QuietView
  <2>4. Abstract!Break(cl) BY <1>1, <2>3 DEF Abstract!Break
  <2> QED BY <2>4 DEF AbsStep, Abstract!Next
<1> QED BY <1>2, <1>3

LEMMA SuccessStep ==
  ASSUME NEW cl \in Clients, \A d \in Clients \ {cl} : ViewKept(d),
         mem' = mem, Busy(cl), phase'[cl] = "idle", ~abandoned'[cl],
         Todo(cl) = {}, ret'[cl] = Outcome(cl)
  PROVE  AbsStep
<1>1. BusyView(cl) /\ IdleView(cl)'
  BY Views, ViewsNext
<1> DEFINE r == [status |-> "ok", reads |-> IF absOp[cl].reads THEN absGot[cl] ELSE <<>>]
<1>2. r = Outcome(cl)
  <2>1. absOp[cl].reads = Reads(call[cl]) BY <1>1 DEF BusyView, Reads
  <2> QED BY <1>1, <2>1 DEF BusyView, Outcome
<1>3. /\ absPhase'[cl] = "idle" /\ absOp'[cl] = Abstract!NoOp /\ absTodo'[cl] = {}
      /\ absGot'[cl] = <<>> /\ absRet'[cl] = r
  BY <1>1, <1>2 DEF IdleView, Abstract!NoOp
<1>4. absPhase[cl] = "busy" /\ absTodo[cl] = {}
  BY <1>1 DEF BusyView
<1> HIDE DEF r
<1>5. Abstract!Quiet(cl, "idle", r) /\ absStore' = absStore
  BY <1>3, QuietView
<1>6. Abstract!ReturnOk(cl)
  BY <1>4, <1>5 DEF Abstract!ReturnOk, r
<1> QED BY <1>6 DEF AbsStep, Abstract!Next

(* The memory of one key, as the abstract store has it.                    *)
LEMMA StoreWritten ==
  ASSUME TypeOK, NEW s \in Servers, NEW a \in Cells, NEW v, mem' = [mem EXCEPT ![s][a] = v]
  PROVE  IF a \in Keys /\ s = ShardOf(a) THEN absStore' = [absStore EXCEPT ![a] = v]
         ELSE absStore' = absStore
<1>1. \A k \in Keys : ShardOf(k) \in Servers /\ k \in Cells
  BY ShardType DEF Cells
<1>2. \A k \in Keys : mem'[ShardOf(k)][k] =
                        IF k = a /\ s = ShardOf(a) THEN v ELSE mem[ShardOf(k)][k]
  BY <1>1 DEF TypeOK
<1>3. absStore' = [k \in Keys |-> mem'[ShardOf(k)][k]] /\ absStore = [k \in Keys |-> mem[ShardOf(k)][k]]
  BY DEF absStore, ShardOf
<1>4. CASE a \in Keys /\ s = ShardOf(a)
  <2>1. absStore' = [k \in Keys |-> IF k = a THEN v ELSE mem[ShardOf(k)][k]]
    BY <1>2, <1>3, <1>4
  <2> QED BY <1>3, <1>4, <2>1
<1>5. CASE ~(a \in Keys /\ s = ShardOf(a))
  BY <1>2, <1>3, <1>5
<1> QED BY <1>4, <1>5

LEMMA WriteStep ==
  ASSUME TypeInv, NEW cl \in Clients, \A d \in Clients \ {cl} : ViewKept(d),
         Busy(cl), UNCHANGED callVars, NEW i \in Items(cl), ItemWritten(cl, i)
  PROVE  AbsStep
<1>1. BusyView(cl) /\ BusyView(cl)'
  BY Views, ViewsNext DEF Busy, callVars
<1>2. /\ absPhase[cl] = "busy" /\ absOp[cl].reads = Reads(call[cl])
      /\ absOp[cl].keys = call[cl].keys /\ absOp[cl].vals = call[cl].vals
      /\ absTodo[cl] = Todo(cl)
  BY <1>1 DEF BusyView, Reads
<1>3. /\ absPhase'[cl] = absPhase[cl] /\ absOp'[cl] = absOp[cl] /\ absRet'[cl] = absRet[cl]
      /\ absTodo'[cl] = absTodo[cl] \ {i}
  BY <1>1 DEF BusyView, callVars, ItemWritten, Reads
<1>4. absGot'[cl] = absGot[cl]
  <2>1. [x \in Items(cl) |-> Seen(cl, x)]' = [x \in Items(cl) |-> Seen(cl, x)]
    BY DEF ItemWritten, Items, callVars
  <2> QED BY <1>1, <2>1 DEF BusyView
<1>5. UNCHANGED <<absPhase, absOp, absGot, absRet>> /\ absTodo' = [absTodo EXCEPT ![cl] = @ \ {i}]
  <2>1. UNCHANGED <<absPhase, absOp, absGot, absRet>> BY <1>3, <1>4, ViewUpdate
  <2>2. absTodo' = [absTodo EXCEPT ![cl] = absTodo'[cl]] BY ViewUpdate
  <2> QED BY <1>3, <2>1, <2>2
<1>6. absStore' = [absStore EXCEPT ![absOp[cl].keys[i]] = absOp[cl].vals[i]]
  <2>1. PICK k : k = call[cl].keys[i] OBVIOUS
  <2>2. k \in Keys /\ k \in Cells /\ ShardOf(k) \in Servers
    <3>1. call[cl].keys \in KeySeqs BY DEF TypeInv, CallShape, Busy
    <3>2. k \in Keys BY <2>1, <3>1, KeySeqType DEF Items
    <3> QED BY <3>2, ShardType DEF Cells
  <2>3. mem' = [mem EXCEPT ![ShardOf(k)][k] = call[cl].vals[i]] BY <2>1 DEF ItemWritten
  <2>4. absStore' = [absStore EXCEPT ![k] = call[cl].vals[i]]
    BY <2>2, <2>3, StoreWritten DEF TypeInv
  <2> QED BY <1>2, <2>1, <2>4
<1>7. Abstract!FirstOfKey(cl, i)
  BY <1>2 DEF Abstract!FirstOfKey, ItemWritten
<1>8. Abstract!WriteEffect(cl, i)
  BY <1>2, <1>5, <1>6, <1>7 DEF Abstract!WriteEffect, ItemWritten
<1>9. i \in 1 .. Len(absOp[cl].keys)
  BY <1>2 DEF Items
<1> QED BY <1>8, <1>9 DEF AbsStep, Abstract!Next

LEMMA ReadStep ==
  ASSUME NEW cl \in Clients, \A d \in Clients \ {cl} : ViewKept(d), TypeInv,
         Busy(cl), UNCHANGED callVars, NEW i \in Items(cl), ItemRead(cl, i)
  PROVE  AbsStep
<1>1. BusyView(cl) /\ BusyView(cl)'
  BY Views, ViewsNext DEF Busy, callVars
<1>2. /\ absPhase[cl] = "busy" /\ absOp[cl].reads = Reads(call[cl])
      /\ absOp[cl].keys = call[cl].keys
  BY <1>1 DEF BusyView, Reads
<1>3. /\ absPhase'[cl] = absPhase[cl] /\ absOp'[cl] = absOp[cl] /\ absRet'[cl] = absRet[cl]
      /\ absTodo'[cl] = absTodo[cl] \ {i}
  BY <1>1 DEF BusyView, callVars, ItemRead, Reads
<1>4. absGot'[cl] = [absGot[cl] EXCEPT ![i] = absStore[absOp[cl].keys[i]]]
  <2>1. absGot[cl] = [x \in Items(cl) |-> Seen(cl, x)] BY <1>1 DEF BusyView
  <2>2. absGot'[cl] = [x \in Items(cl) |-> Seen(cl, x)'] BY <1>1 DEF BusyView, Items, callVars
  <2>3. absStore[absOp[cl].keys[i]] = Here(call[cl].keys[i])
    <3>1. call[cl].keys \in KeySeqs BY DEF TypeInv, CallShape, Busy
    <3>2. call[cl].keys[i] \in Keys BY <3>1, KeySeqType DEF Items
    <3> QED BY <1>2, <3>2 DEF absStore, Here
  <2> QED BY <2>1, <2>2, <2>3 DEF ItemRead
<1>5. /\ UNCHANGED <<absPhase, absOp, absRet>> /\ absTodo' = [absTodo EXCEPT ![cl] = @ \ {i}]
      /\ absGot' = [absGot EXCEPT ![cl][i] = absStore[absOp[cl].keys[i]]]
  <2>1. UNCHANGED <<absPhase, absOp, absRet>> BY <1>3, ViewUpdate
  <2>2. absTodo' = [absTodo EXCEPT ![cl] = absTodo'[cl]] BY ViewUpdate
  <2>3. absGot' = [absGot EXCEPT ![cl] = absGot'[cl]] BY ViewUpdate
  <2> QED BY <1>3, <1>4, <2>1, <2>2, <2>3
<1>6. absStore' = absStore
  BY StoreKept DEF ItemRead
<1>7. Abstract!ReadEffect(cl, i)
  BY <1>2, <1>5, <1>6 DEF Abstract!ReadEffect, ItemRead, Items
<1>9. i \in 1 .. Len(absOp[cl].keys)
  BY <1>2 DEF Items
<1> QED BY <1>7, <1>9 DEF AbsStep, Abstract!Next
(* What a broken client left in the network may still change the store.    *)
LEMMA BrokenStep ==
  ASSUME TypeInv, NEW cl \in Clients, NEW s \in Servers, abandoned[cl],
         \A d \in Clients \ {cl} : ViewKept(d),
         Nic(cl, s) \/ Fault(cl, s) \/ ServerRepost(cl, s)
  PROVE  AbsStep
<1>1. UNCHANGED callVars
  BY NicCalls
<1>2. ViewKept(cl)
  BY <1>1, KeptView DEF callVars, Busy
<1>3. \A d \in Clients : ViewKept(d)
  BY <1>2
<1>4. CASE mem' = mem
  BY <1>3, <1>4, KeptStutters DEF AbsStep
<1>5. CASE NicWrite(cl, s) \/ NicSend(cl, s)
  <2>1. PICK j \in DOMAIN wq[cl][s] :
          mem' = [mem EXCEPT ![s][wq[cl][s][j].addr] = buf[cl][wq[cl][s][j].cell]]
    BY <1>5 DEF NicWrite, NicSend
  <2>2. PICK a, b : a = wq[cl][s][j].addr /\ b = wq[cl][s][j].cell OBVIOUS
  <2>3. a \in Cells /\ b \in BufIndex
    <3>1. wq[cl][s][j] \in WorkRequest BY QueueType DEF TypeInv
    <3> QED BY <2>2, <3>1 DEF WorkRequest
  <2>4. PICK v \in Value : v = buf[cl][b] BY <2>3 DEF TypeInv, TypeOK
  <2>5. mem' = [mem EXCEPT ![s][a] = v] BY <2>1, <2>2, <2>4
  <2>6. IF a \in Keys /\ s = ShardOf(a) THEN absStore' = [absStore EXCEPT ![a] = v]
        ELSE absStore' = absStore
    BY <2>3, <2>5, StoreWritten DEF TypeInv
  <2>7. UNCHANGED <<absPhase, absOp, absTodo, absGot, absRet>> BY <1>3, ViewsKept
  <2>8. CASE absStore' = absStore BY <2>7, <2>8 DEF AbsStep, Abstract!vars
  <2>9. CASE a \in Keys /\ absStore' = [absStore EXCEPT ![a] = v]
    <3>1. absPhase[cl] = "broken" BY Views DEF BrokenView
    <3>2. Abstract!StrayWrite(cl) BY <2>7, <2>9, <3>1 DEF Abstract!StrayWrite
    <3> QED BY <3>2 DEF AbsStep, Abstract!Next
  <2> QED BY <2>6, <2>8, <2>9
<1>6. CASE ~NicWrite(cl, s) /\ ~NicSend(cl, s)
  <2>1. mem' = mem
    BY <1>6 DEF Nic, Fault, NicRead, NicComplete, NicFlush, NicRetryRead, NicFail,
                ServerHandlerReturns, ServerRepost
  <2> QED BY <1>4, <2>1
<1> QED BY <1>5, <1>6

LEMMA CloseStep ==
  ASSUME TypeOK, NEW cl \in Clients, Close(cl), \A d \in Clients \ {cl} : ViewKept(d)
  PROVE  AbsStep
<1>1. /\ phase[cl] = "idle" /\ phase'[cl] = "closed" /\ mem' = mem
      /\ UNCHANGED <<call, ret, abandoned>>
  BY DEF Close, TypeOK
<1>2. CASE abandoned[cl]
  <2>1. BrokenView(cl) /\ BrokenView(cl)' BY <1>1, <1>2, Views, ViewsNext
  <2>2. ViewKept(cl) BY <2>1 DEF BrokenView, ViewKept, Abstract!NoOp
  <2>3. \A d \in Clients : ViewKept(d) BY <2>2
  <2> QED BY <1>1, <2>3, KeptStutters DEF AbsStep
<1>3. CASE ~abandoned[cl]
  <2>1. IdleView(cl) /\ IdleView(cl)' BY <1>1, <1>3, Views, ViewsNext
  <2>2. /\ absPhase[cl] = "idle" /\ absPhase'[cl] = "closed" /\ absOp'[cl] = absOp[cl]
        /\ absTodo'[cl] = absTodo[cl] /\ absGot'[cl] = absGot[cl] /\ absRet'[cl] = absRet[cl]
    BY <1>1, <2>1 DEF IdleView, Abstract!NoOp
  <2>3. UNCHANGED <<absOp, absGot, absRet>> /\ absPhase' = [absPhase EXCEPT ![cl] = "closed"]
    <3>1. absPhase' = [absPhase EXCEPT ![cl] = absPhase'[cl]] BY ViewUpdate
    <3> QED BY <2>2, <3>1, ViewUpdate
  <2>4. absTodo' = absTodo BY <2>2, ViewUpdate
  <2>5. Abstract!Leave(cl) BY <1>1, <2>2, <2>3, <2>4, StoreKept DEF Abstract!Leave
  <2> QED BY <2>5 DEF AbsStep, Abstract!Next
<1> QED BY <1>2, <1>3

LEMMA StoreStep ==
  ASSUME OneSided, TypeInv, TypeInv', Ledger, Ledger', ItemsInFlight, Settled, [Next]_vars
  PROVE  AbsStep
<1>0. TypeOK /\ TypeOK' /\ \A d \in Clients : ClientLedger(d) /\ ClientLedger(d)'
  BY DEF TypeInv, Ledger
<1>1. CASE UNCHANGED vars
  <2>1. UNCHANGED <<mem, wq, buf, phase, call, ret, abandoned>>
    BY <1>1 DEF vars, nicVars, callVars
  <2>2. \A d \in Clients : ViewKept(d) BY <2>1, ItemsFrame, KeptView
  <2> QED BY <2>1, <2>2, KeptStutters DEF AbsStep
<1>2. ASSUME NEW cl \in Clients, Call(cl) \/ Progress(cl) PROVE AbsStep
  <2>1. \A d \in Clients \ {cl} : ViewKept(d)
    BY <1>0, <1>2, Bystanders, BystanderView
  <2>2. Busy(cl) => InFlight(cl)
    BY DEF ItemsInFlight, InFlight
  <2>3. CASE Call(cl)
    <3>1. Begins(cl) BY <1>0, <2>3, CallBegins
    <3>2. CASE abandoned[cl]
      <4>1. abandoned'[cl] /\ mem' = mem BY <3>1, <3>2 DEF Begins
      <4>2. ViewKept(cl) BY <3>2, <4>1, Views, ViewsNext DEF BrokenView, ViewKept, Abstract!NoOp
      <4>3. \A d \in Clients : ViewKept(d) BY <2>1, <4>2
      <4> QED BY <4>1, <4>3, KeptStutters DEF AbsStep
    <3>3. CASE ~abandoned[cl] /\ phase'[cl] = "idle"
      BY <2>1, <3>1, <3>3, FailureStep DEF Begins
    <3>4. CASE ~abandoned[cl] /\ phase'[cl] = "polling"
      BY <2>1, <3>1, <3>4, BeginStep DEF Begins
    <3> QED BY <3>1, <3>2, <3>3, <3>4 DEF Begins
  <2>4. CASE Close(cl)
    BY <1>0, <2>1, <2>4, CloseStep
  <2>5. ASSUME NEW s \in Servers, Poll(cl, s) PROVE AbsStep
    <3>1. CASE abandoned[cl]
      <4>1. abandoned'[cl] /\ mem' = mem BY <1>0, <2>5, <3>1, PollCalls
      <4>2. ViewKept(cl) BY <3>1, <4>1, Views, ViewsNext DEF BrokenView, ViewKept, Abstract!NoOp
      <4>3. \A d \in Clients : ViewKept(d) BY <2>1, <4>2
      <4> QED BY <4>1, <4>3, KeptStutters DEF AbsStep
    <3>2. CASE ~abandoned[cl]
      <4>1. Busy(cl) /\ phase[cl] = "polling" BY <1>0, <2>5, <3>2, PollCalls DEF Busy
      <4>2. Polled(cl) BY <1>0, <2>2, <2>5, <3>2, <4>1, PollEffect
      <4>3. CASE /\ phase'[cl] = "polling" /\ ret'[cl] = ret[cl] /\ ~abandoned'[cl]
                 /\ InFlight(cl)' /\ ItemsRest(cl)
        <5>1. ViewKept(cl) BY <1>0, <2>5, <4>1, <4>2, <4>3, PollCalls, KeptView DEF Polled
        <5>2. \A d \in Clients : ViewKept(d) BY <2>1, <5>1
        <5> QED BY <4>2, <5>2, KeptStutters DEF AbsStep, Polled
      <4>4. CASE phase'[cl] = "idle" /\ ret'[cl] = ErrRet
        BY <2>1, <3>2, <4>1, <4>2, <4>4, FailureStep DEF Polled
      <4>5. CASE /\ phase'[cl] = "idle" /\ ~abandoned'[cl]
                 /\ Todo(cl) = {} /\ ret'[cl] = Outcome(cl)
        BY <2>1, <4>1, <4>2, <4>5, SuccessStep DEF Polled
      <4> QED BY <4>2, <4>3, <4>4, <4>5 DEF Polled
    <3> QED BY <3>1, <3>2
  <2>6. ASSUME NEW s \in Servers, Nic(cl, s) \/ Fault(cl, s) \/ ServerRepost(cl, s)
        PROVE  AbsStep
    <3>1. CASE abandoned[cl]
      BY <2>1, <2>6, <3>1, BrokenStep
    <3>2. CASE ~abandoned[cl] /\ phase[cl] # "polling"
      <4>1. UNCHANGED callVars BY <2>6, NicCalls
      <4>2. EmptyQueues(cl)
        <5>1. phase[cl] \in {"idle", "closed"} BY <1>0, <3>2 DEF TypeOK
        <5> QED BY <1>0, <3>2, <5>1 DEF ClientLedger, Settled
      <4>3. mem' = mem BY <1>0, <2>6, <4>2, NothingToDo
      <4>4. ViewKept(cl) BY <3>2, <4>1, KeptView DEF callVars, Busy
      <4>5. \A d \in Clients : ViewKept(d) BY <2>1, <4>4
      <4> QED BY <4>3, <4>5, KeptStutters DEF AbsStep
    <3>3. CASE Busy(cl)
      <4>1. /\ InFlight(cl)' /\ UNCHANGED callVars
            /\ \/ ItemsRest(cl) /\ mem' = mem
               \/ \E i \in Items(cl) : ItemWritten(cl, i) \/ ItemRead(cl, i)
        BY <1>0, <2>2, <2>6, <3>3, NicEffect
      <4>2. CASE ItemsRest(cl) /\ mem' = mem
        <5>1. ViewKept(cl) BY <4>1, <4>2, KeptView DEF callVars
        <5>2. \A d \in Clients : ViewKept(d) BY <2>1, <5>1
        <5> QED BY <4>2, <5>2, KeptStutters DEF AbsStep
      <4>3. ASSUME NEW i \in Items(cl), ItemWritten(cl, i) PROVE AbsStep
        BY <2>1, <3>3, <4>1, <4>3, WriteStep
      <4>4. ASSUME NEW i \in Items(cl), ItemRead(cl, i) PROVE AbsStep
        BY <2>1, <3>3, <4>1, <4>4, ReadStep
      <4> QED BY <4>1, <4>2, <4>3, <4>4
    <3> QED BY <3>1, <3>2, <3>3 DEF Busy
  <2> QED BY <1>2, <2>3, <2>4, <2>5, <2>6 DEF Progress
<1> QED BY <1>1, <1>2 DEF Next

LEMMA StoreInit ==
  ASSUME Init PROVE Abstract!Init
<1>1. \A k \in Keys : ShardOf(k) \in Servers /\ k \in Cells
  BY ShardType DEF Cells
<1>2. absStore = [k \in Keys |-> Zero]
  BY <1>1 DEF Init, absStore
<1>3. \A cl \in Clients : ~abandoned[cl] /\ phase[cl] = "idle" /\ ret[cl] = NoRet
  BY DEF Init
<1>4. \A cl \in Clients :
        /\ absPhase[cl] = "idle" /\ absOp[cl] = Abstract!NoOp /\ absTodo[cl] = {}
        /\ absGot[cl] = <<>> /\ absRet[cl] = Abstract!NoRet
  BY <1>3, Views DEF IdleView, NoRet, Abstract!NoRet
<1>5. absPhase = [cl \in Clients |-> "idle"]
  BY <1>4 DEF absPhase
<1>6. absOp = [cl \in Clients |-> Abstract!NoOp]
  BY <1>4 DEF absOp
<1>7. absTodo = [cl \in Clients |-> {}]
  BY <1>4 DEF absTodo
<1>8. absGot = [cl \in Clients |-> <<>>]
  BY <1>4 DEF absGot
<1>9. absRet = [cl \in Clients |-> Abstract!NoRet]
  BY <1>4 DEF absRet
<1> QED BY <1>2, <1>5, <1>6, <1>7, <1>8, <1>9 DEF Abstract!Init

(* As long as nobody uses Send, every behaviour of the clients over their  *)
(* queue pairs is one of the abstract store: each item of a call is read   *)
(* or written at one instant between the beginning of the call and its     *)
(* return, whatever the other clients do, whatever the network repeats or  *)
(* loses, and next to clients that an abandoned call has broken.           *)
THEOREM StoreRefinement == OneSided => (Spec => ImplementsKvStore)
<1> SUFFICES ASSUME OneSided PROVE Spec => ImplementsKvStore
  OBVIOUS
<1>1. Init => Abstract!Init
  BY StoreInit
<1>2. /\ TypeInv /\ TypeInv' /\ Ledger /\ Ledger' /\ ItemsInFlight /\ Settled /\ [Next]_vars
      => [Abstract!Next]_(Abstract!vars)
  BY StoreStep DEF AbsStep
<1> QED BY <1>1, <1>2, TypeInvariant, LedgerKeeps, ItemsAreInFlight, ClientsSettle, PTL
       DEF Spec, ImplementsKvStore, Abstract!Spec
-----------------------------------------------------------------------------
(* The values in the servers and in the results of the calls.              *)

(* What a step is to a client that has abandoned no call.                  *)
Rests(cl) ==
  /\ call'[cl] = call[cl] /\ ret'[cl] = ret[cl]
  /\ Busy(cl)' => Busy(cl) /\ ItemsRest(cl)
Starts(cl) ==
  /\ call'[cl] # NoCall /\ ret'[cl].status # "ok"
  /\ Busy(cl)' => Todo(cl)' = Items(cl)'
Ends(cl) ==
  /\ call'[cl] = call[cl] /\ ~Busy(cl)'
  /\ ret'[cl] = ErrRet \/ (Busy(cl) /\ Todo(cl) = {} /\ ret'[cl] = Outcome(cl))
Effect(cl, i) ==
  /\ UNCHANGED callVars /\ Busy(cl) /\ InFlight(cl)
  /\ ItemWritten(cl, i) \/ ItemRead(cl, i)

LEMMA OthersRest ==
  ASSUME TypeOK, NEW cl \in Clients, NEW d \in Clients, d # cl, Call(cl) \/ Progress(cl)
  PROVE  Rests(d) /\ abandoned'[d] = abandoned[d] /\ phase'[d] = phase[d]
BY Bystanders DEF Bystander, Rests, Busy

LEMMA OwnStep ==
  ASSUME OneSided, TypeInv, TypeInv', Ledger, Ledger', ItemsInFlight, Settled,
         NEW cl \in Clients, Call(cl) \/ Progress(cl), ~abandoned'[cl]
  PROVE  /\ ~abandoned[cl]
         /\ \/ mem' = mem /\ (Rests(cl) \/ Starts(cl) \/ Ends(cl))
            \/ \E i \in Items(cl) : Effect(cl, i)
<1>0. TypeOK /\ TypeOK' /\ ClientLedger(cl) /\ ClientLedger(cl)'
  BY DEF TypeInv, Ledger
<1>1. Busy(cl) => InFlight(cl)
  BY DEF ItemsInFlight, InFlight
<1>2. CASE Call(cl)
  <2>1. Begins(cl) BY <1>0, <1>2, CallBegins
  <2>2. ~abandoned[cl] /\ mem' = mem BY <2>1 DEF Begins
  <2>3. ret'[cl].status # "ok" BY <2>1 DEF Begins, ErrRet, NoRet
  <2> QED BY <2>1, <2>2, <2>3 DEF Begins, Starts, Busy
<1>3. CASE Close(cl)
  BY <1>0, <1>3 DEF Close, Rests, Busy, TypeOK
<1>4. ASSUME NEW s \in Servers, Poll(cl, s)
      PROVE  ~abandoned[cl] /\ mem' = mem /\ (Rests(cl) \/ Ends(cl))
  <2>1. Busy(cl) BY <1>0, <1>4, PollCalls DEF Busy
  <2>2. Polled(cl) BY <1>0, <1>1, <1>4, <2>1, PollEffect DEF Busy
  <2> QED BY <2>1, <2>2 DEF Polled, Rests, Ends, Busy
<1>5. ASSUME NEW s \in Servers, Nic(cl, s) \/ Fault(cl, s) \/ ServerRepost(cl, s)
      PROVE  /\ ~abandoned[cl]
             /\ (mem' = mem /\ Rests(cl)) \/ (\E i \in Items(cl) : Effect(cl, i))
  <2>1. UNCHANGED callVars BY <1>5, NicCalls
  <2>2. ~abandoned[cl] BY <2>1 DEF callVars
  <2>3. CASE Busy(cl)
    BY <1>0, <1>1, <1>5, <2>2, <2>3, NicEffect DEF Effect, Rests, callVars
  <2>4. CASE ~Busy(cl)
    <3>1. EmptyQueues(cl)
      <4>1. phase[cl] \in {"idle", "closed"} BY <1>0, <2>2, <2>4 DEF TypeOK, Busy
      <4> QED BY <1>0, <2>2, <4>1 DEF ClientLedger, Settled
    <3>2. mem' = mem BY <1>0, <1>5, <3>1, NothingToDo
    <3> QED BY <2>1, <2>2, <2>4, <3>2 DEF Rests, callVars, Busy
  <2> QED BY <2>2, <2>3, <2>4
<1> QED BY <1>2, <1>3, <1>4, <1>5 DEF Progress

(* The value written for a key is one of that key.                         *)
LEMMA WrittenValue ==
  ASSUME TypeInv, NEW cl \in Clients, NEW i \in Items(cl), Busy(cl), InFlight(cl),
         ItemWritten(cl, i)
  PROVE  \E k \in Keys : \E v \in {k} \X Tags :
           /\ k = call[cl].keys[i] /\ v = call[cl].vals[i]
           /\ ShardOf(k) \in Servers /\ k \in Cells
           /\ mem' = [mem EXCEPT ![ShardOf(k)][k] = v]
<1>1. call[cl].keys \in KeySeqs
  BY DEF TypeInv, CallShape, Busy
<1>2. PICK k \in Keys : k = call[cl].keys[i]
  BY <1>1, KeySeqType DEF Items
<1>3. call[cl].vals[i] \in {k} \X Tags
  BY <1>2 DEF InFlight, Staged, ItemWritten, Items
<1>4. PICK v \in {k} \X Tags : v = call[cl].vals[i]
  BY <1>3
<1>5. mem' = [mem EXCEPT ![ShardOf(k)][k] = v]
  BY <1>2, <1>4 DEF ItemWritten
<1>6. ShardOf(k) \in Servers /\ k \in Cells
  BY <1>2, ShardType DEF Cells
<1> QED BY <1>2, <1>4, <1>5, <1>6

LEMMA OutcomeReads ==
  ASSUME TypeInv, NEW cl \in Clients, Busy(cl), Reads(call[cl])
  PROVE  /\ Len(Outcome(cl).reads) = Len(call[cl].keys)
         /\ \A i \in Items(cl) : Outcome(cl).reads[i] = Seen(cl, i)
<1>1. Len(call[cl].keys) \in Nat
  <2>1. call[cl].keys \in KeySeqs BY DEF TypeInv, CallShape, Busy
  <2> QED BY <2>1, KeySeqType
<1>2. Outcome(cl).reads = [i \in Items(cl) |-> Seen(cl, i)]
  BY DEF Outcome
<1>3. \A n \in Nat : \A f : f = [i \in 1 .. n |-> f[i]] => Len(f) = n
  OBVIOUS
<1>4. PICK f : f = [i \in Items(cl) |-> Seen(cl, i)]
  OBVIOUS
<1>5. Len(f) = Len(call[cl].keys)
  BY <1>1, <1>3, <1>4 DEF Items
<1> QED BY <1>2, <1>4, <1>5

KeyInv == KeyIntegrity /\ ReadIntegrity /\ ReadsProper

LEMMA KeyStep ==
  ASSUME OneSided, TypeInv, TypeInv', Ledger, Ledger', ItemsInFlight, Settled, KeyInv,
         NEW cl \in Clients, Call(cl) \/ Progress(cl), EveryoneClean'
  PROVE  KeyInv'
<1>1. EveryoneClean
  <2>1. \A d \in Clients \ {cl} : ~abandoned[d]
    BY OthersRest DEF TypeInv, EveryoneClean
  <2>2. ~abandoned[cl] BY OwnStep DEF EveryoneClean
  <2> QED BY <2>1, <2>2 DEF EveryoneClean
<1>2. \A s \in Servers, a \in Cells :
        mem[s][a] # Zero => s = ShardOf(a) /\ mem[s][a] \in {a} \X Tags
  BY <1>1 DEF KeyInv, KeyIntegrity
<1>3. \A d \in Clients : Busy(d) /\ Reads(call[d]) =>
        \A i \in Items(d) : Seen(d, i) \in Proper(call[d].keys[i])
  BY <1>1 DEF KeyInv, ReadsProper, Items
<1>4. \A d \in Clients : OkRead(d) =>
        /\ Len(ret[d].reads) = Len(call[d].keys)
        /\ \A i \in Items(d) : ret[d].reads[i] \in Proper(call[d].keys[i])
  BY <1>1 DEF KeyInv, ReadIntegrity, Items, Proper
<1>5. /\ \/ mem' = mem /\ (Rests(cl) \/ Starts(cl) \/ Ends(cl))
         \/ \E i \in Items(cl) : Effect(cl, i)
      /\ ~abandoned'[cl]
  BY OwnStep DEF EveryoneClean
<1>6. KeyIntegrity'
  <2> SUFFICES ASSUME NEW s \in Servers, NEW a \in Cells, mem'[s][a] # Zero
               PROVE  s = ShardOf(a) /\ mem'[s][a] \in {a} \X Tags
    BY DEF KeyIntegrity, ShardOf
  <2>1. CASE mem' = mem BY <1>2, <2>1
  <2>2. ASSUME NEW i \in Items(cl), Effect(cl, i), ItemWritten(cl, i)
        PROVE  s = ShardOf(a) /\ mem'[s][a] \in {a} \X Tags
    <3>1. PICK k \in Keys : \E v \in {k} \X Tags :
            ShardOf(k) \in Servers /\ k \in Cells /\ mem' = [mem EXCEPT ![ShardOf(k)][k] = v]
      BY <2>2, WrittenValue DEF Effect
    <3>2. PICK v \in {k} \X Tags : mem' = [mem EXCEPT ![ShardOf(k)][k] = v]
      BY <3>1
    <3>3. mem'[s][a] = IF s = ShardOf(k) /\ a = k THEN v ELSE mem[s][a]
      BY <3>1, <3>2 DEF TypeInv, TypeOK
    <3> QED BY <1>2, <3>3
  <2>3. ASSUME NEW i \in Items(cl), Effect(cl, i), ItemRead(cl, i) PROVE mem' = mem
    BY <2>3 DEF ItemRead
  <2> QED BY <1>5, <2>1, <2>2, <2>3 DEF Effect
<1>7. ReadsProper'
  <2> SUFFICES ASSUME NEW d \in Clients, Busy(d)', Reads(call'[d]), NEW i \in Items(d)'
               PROVE  Seen(d, i)' \in Proper(call'[d].keys[i])
    BY DEF ReadsProper, Items, Reads, Proper
  <2>1. CASE Rests(d)
    BY <1>3, <2>1 DEF Rests, ItemsRest, Items
  <2>2. CASE d # cl
    <3>1. Rests(d) BY <2>2, OthersRest DEF TypeInv
    <3> QED BY <2>1, <3>1
  <2>3. CASE d = cl /\ Starts(cl)
    <3>1. i \in Todo(d)' BY <2>3 DEF Starts
    <3>2. Seen(d, i)' = Zero BY <3>1 DEF Seen
    <3> QED BY <3>2 DEF Proper
  <2>4. CASE d = cl /\ Ends(cl)
    BY <2>4 DEF Ends
  <2>5. ASSUME NEW x \in Items(cl), Effect(cl, x), d = cl
        PROVE  Seen(d, i)' \in Proper(call'[d].keys[i])
    <3>1. call'[d] = call[d] /\ Busy(d) /\ i \in Items(d)
      BY <2>5 DEF Effect, callVars, Items
    <3>2. CASE Seen(d, i)' = Seen(d, i)
      BY <1>3, <3>1, <3>2
    <3>3. CASE i = x /\ Seen(d, i)' = Here(call[d].keys[i])
      <4>1. call[d].keys \in KeySeqs BY <3>1 DEF TypeInv, CallShape, Busy
      <4>2. PICK k \in Keys : k = call[d].keys[i] BY <3>1, <4>1, KeySeqType DEF Items
      <4>3. ShardOf(k) \in Servers /\ k \in Cells BY <4>2, ShardType DEF Cells
      <4>4. Here(k) \in Proper(k) BY <1>2, <4>3 DEF Here, Proper
      <4> QED BY <3>1, <3>3, <4>2, <4>4
    <3> QED BY <2>5, <3>1, <3>2, <3>3 DEF Effect, ItemWritten, ItemRead
  <2> QED BY <1>5, <2>1, <2>2, <2>3, <2>4, <2>5
<1>8. ReadIntegrity'
  <2> SUFFICES ASSUME NEW d \in Clients, OkRead(d)'
               PROVE  /\ Len(ret'[d].reads) = Len(call'[d].keys)
                      /\ \A i \in Items(d)' : ret'[d].reads[i] \in Proper(call'[d].keys[i])
    BY DEF ReadIntegrity, Items, Proper
  <2>1. CASE call'[d] = call[d] /\ ret'[d] = ret[d]
    BY <1>4, <2>1 DEF OkRead, Items
  <2>2. CASE d # cl
    <3>1. Rests(d) BY <2>2, OthersRest DEF TypeInv
    <3> QED BY <2>1, <3>1 DEF Rests
  <2>3. CASE d = cl /\ Starts(cl)
    BY <2>3 DEF Starts, OkRead
  <2>4. CASE d = cl /\ Ends(cl)
    <3>1. ret'[cl] # ErrRet BY <2>4 DEF OkRead, ErrRet
    <3>2. Busy(cl) /\ ret'[cl] = Outcome(cl) /\ call'[cl] = call[cl] /\ Reads(call[cl])
      BY <2>4, <3>1 DEF Ends, OkRead, Reads
    <3> QED BY <1>3, <2>4, <3>2, OutcomeReads DEF Items
  <2>5. ASSUME NEW x \in Items(cl), Effect(cl, x), d = cl PROVE call'[d] = call[d] /\ ret'[d] = ret[d]
    BY <2>5 DEF Effect, callVars
  <2> QED BY <1>5, <2>1, <2>2, <2>3, <2>4, <2>5 DEF Rests
<1> QED BY <1>6, <1>7, <1>8 DEF KeyInv

LEMMA KeyInvariant == Spec => []KeyInv
<1>1. Init => KeyInv
  <2> SUFFICES ASSUME Init PROVE KeyInv
    OBVIOUS
  <2>1. KeyIntegrity BY DEF Init, KeyIntegrity
  <2>2. ReadIntegrity BY DEF Init, ReadIntegrity, OkRead, NoRet
  <2>3. ReadsProper BY DEF Init, ReadsProper, Busy
  <2> QED BY <2>1, <2>2, <2>3 DEF KeyInv
<1>2. /\ TypeInv /\ TypeInv' /\ Ledger /\ Ledger' /\ ItemsInFlight /\ Settled /\ KeyInv
      /\ [Next]_vars
      => KeyInv'
  <2> SUFFICES ASSUME TypeInv, TypeInv', Ledger, Ledger', ItemsInFlight, Settled, KeyInv,
                      [Next]_vars
               PROVE  KeyInv'
    OBVIOUS
  <2>1. CASE ~(OneSided /\ EveryoneClean')
    BY <2>1 DEF KeyInv, KeyIntegrity, ReadIntegrity, ReadsProper, OneSided
  <2>2. CASE OneSided /\ EveryoneClean' /\ Next
    BY <2>2, KeyStep DEF Next
  <2>3. CASE UNCHANGED vars
    <3>1. KeyIntegrity'
      BY <2>3 DEF vars, nicVars, callVars, KeyInv, KeyIntegrity, EveryoneClean, OneSided, ShardOf
    <3>2. ReadIntegrity'
      BY <2>3 DEF vars, nicVars, callVars, KeyInv, ReadIntegrity, EveryoneClean, OneSided, OkRead
    <3>3. \A d \in Clients : ItemsRest(d) /\ call'[d] = call[d]
      BY <2>3, ItemsFrame DEF vars, nicVars, callVars
    <3>4. \A d \in Clients : Busy(d)' => Busy(d)
      BY <2>3 DEF vars, callVars, Busy
    <3>5. EveryoneClean' => EveryoneClean BY <2>3 DEF vars, callVars, EveryoneClean
    <3>6. ReadsProper'
      BY <3>3, <3>4, <3>5 DEF KeyInv, ReadsProper, ItemsRest, Items, Reads, Proper, OneSided
    <3> QED BY <3>1, <3>2, <3>6 DEF KeyInv
  <2> QED BY <2>1, <2>2, <2>3
<1> QED BY <1>1, <1>2, TypeInvariant, LedgerKeeps, ItemsAreInFlight, ClientsSettle, PTL DEF Spec

(* As long as no call was abandoned and nobody uses Send, an offset of a   *)
(* server holds zeroes or a value written for that key, on the server that *)
(* owns the key: the NIC reads localBuf when it executes a write, not when *)
(* the write is posted, and no other call has put its bytes there since.   *)
THEOREM KeysKeepTheirValues == Spec => []KeyIntegrity
BY KeyInvariant, PTL DEF KeyInv

(* Under the same conditions a Get or GetBatch that returns nil returns    *)
(* one value per key, zeroes or a value written for that key.              *)
THEOREM ReadsReturnTheirKeys == Spec => []ReadIntegrity
BY KeyInvariant, PTL DEF KeyInv

-----------------------------------------------------------------------------
(* What has returned, or taken effect, while the other clients are silent. *)

EffectInv == PutLanded /\ GetCurrent /\ EffectsStand /\ WritesInOrder

(* A client that is silent after a step of its own changed no memory.      *)
LEMMA SilentStep ==
  ASSUME OneSided, TypeInv, TypeInv', Ledger, Ledger', ItemsInFlight, Settled, Settled',
         NEW cl \in Clients, Call(cl) \/ Progress(cl), call'[cl] = NoCall
  PROVE  mem' = mem /\ call[cl] = NoCall
<1>1. ~abandoned'[cl]
  BY DEF Settled, NoCall
<1>2. ASSUME NEW i \in Items(cl), Effect(cl, i) PROVE FALSE
  <2>1. call[cl] = NoCall /\ Busy(cl) BY <1>2 DEF Effect, callVars
  <2> QED BY <2>1 DEF Settled, Busy
<1>3. mem' = mem /\ (Rests(cl) \/ Starts(cl) \/ Ends(cl))
  BY <1>1, <1>2, OwnStep
<1> QED BY <1>3 DEF Rests, Starts, Ends

LEMMA SilentOthers ==
  ASSUME OneSided, TypeInv, TypeInv', Ledger, Ledger', ItemsInFlight, Settled, Settled',
         NEW cl \in Clients, Call(cl) \/ Progress(cl), NEW d \in Clients, OthersSilent(d)'
  PROVE  OthersSilent(d) /\ (d # cl => mem' = mem)
<1>1. \A o \in Clients \ {d} : call'[o] = NoCall
  BY DEF OthersSilent
<1>2. d # cl => mem' = mem /\ call[cl] = NoCall
  BY <1>1, SilentStep
<1>3. \A o \in Clients \ {d} : o # cl => call[o] = NoCall
  BY <1>1, OthersRest DEF Rests, TypeInv
<1> QED BY <1>2, <1>3 DEF OthersSilent

LEMMA OrderStep ==
  ASSUME OneSided, TypeInv, TypeInv', Ledger, Ledger', ItemsInFlight, Settled, WritesInOrder,
         NEW cl \in Clients, Call(cl) \/ Progress(cl)
  PROVE  WritesInOrder'
<1> SUFFICES ASSUME NEW d \in Clients, Busy(d)', ~Reads(call'[d]),
                    NEW i \in Todo(d)', NEW j \in Items(d)',
                    i < j, call'[d].keys[i] = call'[d].keys[j]
             PROVE  j \in Todo(d)'
  BY DEF WritesInOrder, Items, Reads, OneSided
<1>1. Busy(d) /\ ~Reads(call[d]) =>
        \A x \in Todo(d), y \in Items(d) :
          x < y /\ call[d].keys[x] = call[d].keys[y] => y \in Todo(d)
  BY DEF WritesInOrder, Items
<1>2. CASE Rests(d)
  BY <1>1, <1>2 DEF Rests, ItemsRest, Items
<1>3. CASE d # cl
  BY <1>2, <1>3, OthersRest DEF TypeInv
<1>4. CASE d = cl
  <2>1. ~abandoned'[cl] BY <1>4 DEF Busy
  <2>2. CASE Starts(cl) BY <1>4, <2>2 DEF Starts
  <2>3. CASE Ends(cl) BY <1>4, <2>3 DEF Ends
  <2>4. ASSUME NEW x \in Items(cl), Effect(cl, x) PROVE j \in Todo(d)'
    <3>1. call'[d] = call[d] /\ Busy(d) BY <1>4, <2>4 DEF Effect, callVars
    <3>2. ItemWritten(d, x) BY <1>4, <2>4, <3>1 DEF Effect, ItemRead
    <3>3. Todo(d)' = Todo(d) \ {x} /\ \A y \in Todo(d) : y < x => call[d].keys[y] # call[d].keys[x]
      BY <3>2 DEF ItemWritten
    <3>4. j \in Todo(d) BY <1>1, <3>1, <3>3 DEF Items
    <3> QED BY <3>1, <3>3, <3>4
  <2> QED BY <1>2, <1>4, <2>1, <2>2, <2>3, <2>4, OwnStep
<1> QED BY <1>3, <1>4

(* Item i of the call of client d agrees with the memory.                  *)
Stands(d, i) ==
  IF Reads(call[d]) THEN Seen(d, i) = Here(call[d].keys[i])
  ELSE LastOfKey(call[d].keys, i) => Here(call[d].keys[i]) = call[d].vals[i]

LEMMA StandsKept ==
  ASSUME NEW d, NEW i \in Items(d), mem' = mem, call'[d] = call[d], Seen(d, i)' = Seen(d, i),
         Stands(d, i)
  PROVE  Stands(d, i)'
BY DEF Stands, Here, Reads, LastOfKey, ShardOf

(* The write of item x disturbs no item before it that stands: such an     *)
(* item is of another key, or not the last of its own.                     *)
LEMMA StandsWritten ==
  ASSUME OneSided, TypeInv, NEW d \in Clients, NEW x \in Items(d), Effect(d, x),
         ItemWritten(d, x), WritesInOrder,
         NEW i \in Items(d), i \notin Todo(d)', i \notin Todo(d) => Stands(d, i)
  PROVE  Stands(d, i)'
<1>1. Busy(d) /\ InFlight(d) /\ call'[d] = call[d] /\ ~Reads(call[d])
  BY DEF Effect, callVars, ItemWritten
<1>2. PICK k \in Keys : \E v \in {k} \X Tags :
        /\ k = call[d].keys[x] /\ v = call[d].vals[x]
        /\ ShardOf(k) \in Servers /\ k \in Cells
        /\ mem' = [mem EXCEPT ![ShardOf(k)][k] = v]
  BY <1>1, WrittenValue
<1>3. PICK v \in {k} \X Tags :
        v = call[d].vals[x] /\ mem' = [mem EXCEPT ![ShardOf(k)][k] = v]
  BY <1>2
<1>4. PICK l \in Keys : l = call[d].keys[i]
  <2>1. call[d].keys \in KeySeqs BY <1>1 DEF TypeInv, CallShape, Busy
  <2> QED BY <2>1, KeySeqType DEF Items
<1>5. ShardOf(l) \in Servers /\ l \in Cells
  BY <1>4, ShardType DEF Cells
<1>6. mem'[ShardOf(l)][l] = IF l = k THEN v ELSE mem[ShardOf(l)][l]
  BY <1>2, <1>3, <1>5 DEF TypeInv, TypeOK
<1>7. Here(l)' = mem'[ShardOf(l)][l] /\ Here(l) = mem[ShardOf(l)][l]
  BY DEF Here, ShardOf
<1>8. Stands(d, i)' <=> (LastOfKey(call[d].keys, i) => mem'[ShardOf(l)][l] = call[d].vals[i])
  BY <1>1, <1>4 DEF Stands, Here, LastOfKey, ShardOf, Reads
<1>9. CASE i = x
  BY <1>2, <1>3, <1>4, <1>6, <1>8, <1>9
<1>10. CASE i # x
  <2>1. i \notin Todo(d) /\ x \in Todo(d) BY <1>10 DEF ItemWritten
  <2>2. LastOfKey(call[d].keys, i) => mem[ShardOf(l)][l] = call[d].vals[i]
    BY <1>1, <1>4, <2>1 DEF Stands, Here
  <2>3. LastOfKey(call[d].keys, i) => l # k
    <3> SUFFICES ASSUME LastOfKey(call[d].keys, i), l = k PROVE FALSE
      OBVIOUS
    <3>1. Len(call[d].keys) \in Nat
      <4>1. call[d].keys \in KeySeqs BY <1>1 DEF TypeInv, CallShape, Busy
      <4> QED BY <4>1, KeySeqType
    <3>2. x \in 1 .. Len(call[d].keys) /\ i \in 1 .. Len(call[d].keys) BY DEF Items
    <3>3. ~(i < x)
      <4>1. i < x => x \in i + 1 .. Len(call[d].keys) BY <3>1, <3>2
      <4> QED BY <1>2, <1>4, <4>1 DEF LastOfKey
    <3>4. x < i BY <1>10, <3>1, <3>2, <3>3
    <3>5. i \in Todo(d) BY <1>1, <1>2, <1>4, <2>1, <3>2, <3>4 DEF WritesInOrder
    <3> QED BY <2>1, <3>5
  <2> QED BY <1>6, <1>8, <2>2, <2>3
<1> QED BY <1>9, <1>10

LEMMA StandStep ==
  ASSUME OneSided, TypeInv, TypeInv', Ledger, Ledger', ItemsInFlight, Settled, Settled',
         WritesInOrder, EffectsStand, NEW cl \in Clients, Call(cl) \/ Progress(cl)
  PROVE  EffectsStand'
<1> SUFFICES ASSUME NEW d \in Clients, Busy(d)', OthersSilent(d)',
                    NEW i \in Items(d)', i \notin Todo(d)'
             PROVE  Stands(d, i)'
  BY DEF EffectsStand, Stands, Here, Items, Reads, LastOfKey, ShardOf, OneSided
<1>1. OthersSilent(d) /\ (d # cl => mem' = mem)
  BY SilentOthers
<1>2. Busy(d) => \A x \in Items(d) : x \notin Todo(d) => Stands(d, x)
  BY <1>1 DEF EffectsStand, Stands, Here, Items
<1>3. ASSUME Rests(d), mem' = mem PROVE Stands(d, i)'
  <2>1. call'[d] = call[d] /\ Busy(d) /\ ItemsRest(d) BY <1>3 DEF Rests
  <2>2. i \in Items(d) BY <2>1 DEF Items
  <2>3. i \notin Todo(d) /\ Seen(d, i)' = Seen(d, i) BY <2>1, <2>2 DEF ItemsRest
  <2> QED BY <1>2, <1>3, <2>1, <2>2, <2>3, StandsKept
<1>4. CASE d # cl
  BY <1>1, <1>3, <1>4, OthersRest DEF TypeInv
<1>5. CASE d = cl
  <2>1. ~abandoned'[cl] BY <1>5 DEF Busy
  <2>2. CASE Starts(cl) BY <1>5, <2>2 DEF Starts
  <2>3. CASE Ends(cl) BY <1>5, <2>3 DEF Ends
  <2>4. ASSUME NEW x \in Items(cl), Effect(cl, x) PROVE Stands(d, i)'
    <3>1. call'[d] = call[d] /\ Busy(d) /\ i \in Items(d)
      BY <1>5, <2>4 DEF Effect, callVars, Items
    <3>2. CASE ItemWritten(d, x)
      BY <1>2, <1>5, <2>4, <3>1, <3>2, StandsWritten
    <3>3. CASE ItemRead(d, x)
      <4>1. /\ mem' = mem /\ Reads(call[d]) /\ Todo(d)' = Todo(d) \ {x}
            /\ Seen(d, x)' = Here(call[d].keys[x])
            /\ \A y \in Items(d) \ {x} : Seen(d, y)' = Seen(d, y)
        BY <3>3 DEF ItemRead
      <4>2. CASE i = x
        <5>1. Here(call[d].keys[x])' = Here(call[d].keys[x]) BY <3>1, <4>1 DEF Here, ShardOf
        <5> QED BY <3>1, <4>1, <4>2, <5>1 DEF Stands, Reads
      <4>3. CASE i # x
        BY <1>2, <3>1, <4>1, <4>3, StandsKept
      <4> QED BY <4>2, <4>3
    <3> QED BY <1>5, <2>4, <3>2, <3>3 DEF Effect
  <2> QED BY <1>3, <1>5, <2>1, <2>2, <2>3, <2>4, OwnStep
<1> QED BY <1>4, <1>5

(* What client d returned agrees with the memory.                          *)
Landed(d) ==
  \A i \in Items(d) :
    LastOfKey(call[d].keys, i) => Here(call[d].keys[i]) = call[d].vals[i]
Current(d) == \A i \in Items(d) : ret[d].reads[i] = Here(call[d].keys[i])

LEMMA ReturnStep ==
  ASSUME OneSided, TypeInv, TypeInv', Ledger, Ledger', ItemsInFlight, Settled, Settled',
         EffectsStand, PutLanded, GetCurrent, NEW cl \in Clients, Call(cl) \/ Progress(cl)
  PROVE  PutLanded' /\ GetCurrent'
<1> SUFFICES ASSUME NEW d \in Clients, ~abandoned'[d], OthersSilent(d)'
             PROVE  (OkWrite(d)' => Landed(d)') /\ (OkRead(d)' => Current(d)')
  BY DEF PutLanded, GetCurrent, OkWrite, OkRead, Landed, Current, Here, Items, LastOfKey,
         ShardOf, OneSided
<1>1. OthersSilent(d) /\ (d # cl => mem' = mem)
  BY SilentOthers
<1>2. ~abandoned[d] => (OkWrite(d) => Landed(d)) /\ (OkRead(d) => Current(d))
  BY <1>1 DEF PutLanded, GetCurrent, Landed, Current, Here, Items
<1>3. ASSUME call'[d] = call[d], ret'[d] = ret[d], ~abandoned[d], mem' = mem
      PROVE  (OkWrite(d)' => Landed(d)') /\ (OkRead(d)' => Current(d)')
  BY <1>2, <1>3 DEF OkWrite, OkRead, Landed, Current, Here, Items, LastOfKey, ShardOf
<1>4. CASE d # cl
  <2>1. Rests(d) /\ abandoned'[d] = abandoned[d] BY <1>4, OthersRest DEF TypeInv
  <2> QED BY <1>1, <1>3, <1>4, <2>1 DEF Rests
<1>5. CASE d = cl
  <2>1. /\ ~abandoned[cl]
        /\ \/ mem' = mem /\ (Rests(cl) \/ Starts(cl) \/ Ends(cl))
           \/ \E i \in Items(cl) : Effect(cl, i)
    BY <1>5, OwnStep
  <2>2. CASE Rests(cl) /\ mem' = mem
    BY <1>3, <1>5, <2>1, <2>2 DEF Rests
  <2>3. CASE Starts(cl)
    BY <1>5, <2>3 DEF Starts, OkWrite, OkRead
  <2>4. ASSUME NEW i \in Items(cl), Effect(cl, i) PROVE ret'[d].status # "ok"
    BY <1>5, <2>4 DEF Effect, Busy, callVars, Settled, NoRet
  <2>5. CASE Ends(cl) /\ mem' = mem /\ ret'[d].status = "ok"
    <3>1. ret'[d] # ErrRet BY <2>5 DEF ErrRet
    <3>2. /\ call'[d] = call[d] /\ Busy(d) /\ Todo(d) = {} /\ ret'[d] = Outcome(d)
      BY <1>5, <2>5, <3>1 DEF Ends
    <3>3. \A i \in Items(d) : Stands(d, i)
      BY <1>1, <3>2 DEF EffectsStand, Stands, Here, Items
    <3>4. \A k : Here(k)' = Here(k) BY <2>5 DEF Here, ShardOf
    <3>5. OkWrite(d)' => Landed(d)'
      <4>1. OkWrite(d)' => ~Reads(call[d]) BY <3>2 DEF OkWrite, Reads
      <4>2. Landed(d)' <=> Landed(d) BY <2>5, <3>2 DEF Landed, Items, Here, ShardOf, LastOfKey
      <4> QED BY <3>3, <4>1, <4>2 DEF Landed, Stands
    <3>6. OkRead(d)' => Current(d)'
      <4> SUFFICES ASSUME OkRead(d)' PROVE Current(d)'
        OBVIOUS
      <4>1. Reads(call[d]) BY <3>2 DEF OkRead, Reads
      <4>2. \A i \in Items(d) : ret'[d].reads[i] = Here(call[d].keys[i])
        BY <3>2, <3>3, <4>1, OutcomeReads DEF Stands
      <4> QED BY <2>5, <3>2, <4>2 DEF Current, Items, Here, ShardOf
    <3> QED BY <3>5, <3>6
  <2> QED BY <1>5, <2>1, <2>2, <2>3, <2>4, <2>5 DEF OkWrite, OkRead
<1> QED BY <1>4, <1>5

LEMMA EffectInvariant == Spec => []EffectInv
<1>1. Init => EffectInv
  <2> SUFFICES ASSUME Init PROVE EffectInv
    OBVIOUS
  <2>1. \A cl \in Clients : ~Busy(cl) /\ ret[cl].status # "ok" BY DEF Init, Busy, NoRet
  <2> QED BY <2>1 DEF EffectInv, PutLanded, GetCurrent, EffectsStand, WritesInOrder, OkRead, OkWrite
<1>2. /\ TypeInv /\ TypeInv' /\ Ledger /\ Ledger' /\ ItemsInFlight /\ Settled /\ Settled'
      /\ EffectInv /\ [Next]_vars
      => EffectInv'
  <2> SUFFICES ASSUME TypeInv, TypeInv', Ledger, Ledger', ItemsInFlight, Settled, Settled',
                      EffectInv, [Next]_vars
               PROVE  EffectInv'
    OBVIOUS
  <2>1. CASE ~OneSided
    BY <2>1 DEF EffectInv, PutLanded, GetCurrent, EffectsStand, WritesInOrder, OneSided
  <2>2. CASE OneSided /\ Next
    BY <2>2, OrderStep, StandStep, ReturnStep DEF Next, EffectInv
  <2>3. CASE UNCHANGED vars
    <3>1. /\ UNCHANGED <<mem, wq, buf, phase, call, ret, abandoned>>
      BY <2>3 DEF vars, nicVars, callVars
    <3>2. \A d \in Clients :
            /\ ItemsRest(d) /\ (Busy(d)' <=> Busy(d)) /\ (OthersSilent(d)' <=> OthersSilent(d))
            /\ (OkWrite(d)' <=> OkWrite(d)) /\ (OkRead(d)' <=> OkRead(d))
      BY <3>1, ItemsFrame DEF Busy, OthersSilent, OkWrite, OkRead
    <3>3. PutLanded' BY <3>1, <3>2 DEF EffectInv, PutLanded, LastOfKey, ShardOf
    <3>4. GetCurrent' BY <3>1, <3>2 DEF EffectInv, GetCurrent, ShardOf
    <3>5. EffectsStand'
      BY <3>1, <3>2 DEF EffectInv, EffectsStand, ItemsRest, Items, Reads, LastOfKey, ShardOf
    <3>6. WritesInOrder' BY <3>1, <3>2 DEF EffectInv, WritesInOrder, ItemsRest, Items, Reads
    <3> QED BY <3>3, <3>4, <3>5, <3>6 DEF EffectInv
  <2> QED BY <2>1, <2>2, <2>3
<1> QED BY <1>1, <1>2, TypeInvariant, LedgerKeeps, ItemsAreInFlight, ClientsSettle, PTL DEF Spec

(* While the other clients have never called, a write that returned nil    *)
(* stays in the memory of the server that owns its key, the last of each   *)
(* key of a batch: the one signaled completion per server that PutBatch    *)
(* counts (client.go:246-277) stands for the unsignaled writes before it.  *)
THEOREM WritesLand == Spec => []PutLanded
BY EffectInvariant, PTL DEF EffectInv

(* Likewise a Get or GetBatch that returned nil returned, key by key, what *)
(* the servers hold, although a lost response makes the NIC read again and *)
(* localBuf is read only after the last completion (client.go:311-375).    *)
THEOREM ReadsAreCurrent == Spec => []GetCurrent
BY EffectInvariant, PTL DEF EffectInv
=============================================================================
