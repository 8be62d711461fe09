--------------------------- MODULE KvClientProofs ---------------------------
(* Theorems about KvClient, for any number of clients and servers, any     *)
(* keys, batch lengths and queue depths, with and without faults.          *)
EXTENDS KvInvariants, SetLemmas, SequenceTheorems, TLAPS

USE ServersAssumption, KeysAssumption, OpsAssumption, DepthAssumption,
    FaultsAssumption

LEMMA ShardType == \A k \in Nat : ShardOf(k) \in Servers
BY DEF ShardOf, Servers

LEMMA KeySeqType ==
  ASSUME NEW ks \in KeySeqs
  PROVE  /\ ks \in Seq(Keys)
         /\ Len(ks) \in 1 .. MaxBatch
         /\ ks \in [1 .. Len(ks) -> Keys]
BY DEF KeySeqs

LEMMA SingleKeyType ==
  ASSUME NEW k \in Keys PROVE <<k>> \in KeySeqs
<1>1. <<k>> \in [1 .. 1 -> Keys] OBVIOUS
<1>2. 1 \in 1 .. MaxBatch OBVIOUS
<1> QED BY <1>1, <1>2 DEF KeySeqs

LEMMA SingleValType ==
  ASSUME NEW v \in Value PROVE <<v>> \in ValSeqs
<1>1. <<v>> \in [1 .. 1 -> Value] OBVIOUS
<1>2. 1 \in 0 .. MaxBatch OBVIOUS
<1> QED BY <1>1, <1>2 DEF ValSeqs

LEMMA NoValType == <<>> \in ValSeqs
<1>1. <<>> \in [1 .. 0 -> Value] OBVIOUS
<1>2. 0 \in 0 .. MaxBatch OBVIOUS
<1> QED BY <1>1, <1>2 DEF ValSeqs

LEMMA InvolvedType ==
  ASSUME NEW c, c.keys \in KeySeqs
  PROVE  Involved(c) \subseteq Servers
BY KeySeqType, ShardType DEF Involved

LEMMA WrType ==
  ASSUME NEW op \in {"write", "read", "send"}, NEW cell \in BufIndex,
         NEW addr \in Cells, NEW id \in Nat, NEW sig \in BOOLEAN
  PROVE  Wr(op, cell, addr, id, sig) \in WorkRequest
BY DEF Wr, WorkRequest, Value

(* The listing that InOrder chooses.                                       *)
LEMMA InOrderType ==
  ASSUME NEW N \in Nat, NEW P \in SUBSET (1 .. N)
  PROVE  /\ Cardinality(P) \in Nat
         /\ IsFiniteSet(P)
         /\ InOrder(P) \in [1 .. Cardinality(P) -> P]
         /\ \A a, b \in 1 .. Cardinality(P) : a < b => InOrder(P)[a] < InOrder(P)[b]
         /\ \A i \in P : \E a \in 1 .. Cardinality(P) : InOrder(P)[a] = i
<1>1. IsFiniteSet(P)
  <2>1. IsFiniteSet(1 .. N) BY FS_Interval
  <2> QED BY <2>1, FS_Subset
<1>2. Cardinality(P) \in Nat
  BY <1>1, FS_CardinalityType
<1>3. \E f \in [1 .. Cardinality(P) -> P] :
        /\ \A a, b \in 1 .. Cardinality(P) : a < b => f[a] < f[b]
        /\ \A i \in P : \E a \in 1 .. Cardinality(P) : f[a] = i
  BY InOrderExists
<1> QED BY <1>1, <1>2, <1>3 DEF InOrder

LEMMA WriteChainType ==
  ASSUME NEW ks \in KeySeqs, NEW s \in Servers, Len(ks) <= BufCells
  PROVE  /\ WriteChain(ks, s) \in Seq(WorkRequest)
         /\ Len(WriteChain(ks, s)) = Cardinality(IndicesAt(ks, s))
<1> DEFINE P == IndicesAt(ks, s)
           n == Cardinality(P)
<1>1. Len(ks) \in Nat /\ P \in SUBSET (1 .. Len(ks)) /\ ks \in [1 .. Len(ks) -> Keys]
  BY KeySeqType DEF IndicesAt
<1>2. n \in Nat /\ InOrder(P) \in [1 .. n -> P]
  BY <1>1, InOrderType
<1> HIDE DEF P
<1>3. ASSUME NEW j \in 1 .. n
      PROVE  LET i == InOrder(P)[j]
             IN Wr("write", ItemCell(i), ks[i], i, Signaled(j, n)) \in WorkRequest
  <2> DEFINE i == InOrder(P)[j]
  <2>1. i \in 1 .. Len(ks) BY <1>1, <1>2
  <2>2. ItemCell(i) \in BufIndex BY <2>1, <1>1 DEF ItemCell, BufIndex
  <2>3. ks[i] \in Cells BY <2>1, <1>1 DEF Cells
  <2>4. i \in Nat BY <2>1, <1>1
  <2>5. Signaled(j, n) \in BOOLEAN BY DEF Signaled
  <2> HIDE DEF i
  <2>6. Wr("write", ItemCell(i), ks[i], i, Signaled(j, n)) \in WorkRequest
    BY <2>2, <2>3, <2>4, <2>5, WrType
  <2> QED BY <2>6 DEF i
<1> DEFINE ch == [j \in 1 .. n |->
        LET i == InOrder(P)[j] IN Wr("write", ItemCell(i), ks[i], i, Signaled(j, n))]
<1>4. WriteChain(ks, s) = ch
  BY DEF WriteChain, P
<1>5. ch \in [1 .. n -> WorkRequest]
  BY <1>3
<1> HIDE DEF ch
<1>6. ch \in Seq(WorkRequest) /\ Len(ch) = n
  BY <1>5, <1>2
<1> QED BY <1>4, <1>6 DEF P

(* The listing of an interval's elements ends with the largest.            *)
LEMMA ReadsAtType ==
  ASSUME NEW ks \in KeySeqs, NEW s \in Servers, NEW n \in 0 .. Len(ks), n <= BufCells
  PROVE  /\ ReadsAt(ks, s, n) \in Seq(WorkRequest)
         /\ Len(ReadsAt(ks, s, n)) = Cardinality(IndicesAt(ks, s) \cap (1 .. n))
<1> DEFINE P == IndicesAt(ks, s) \cap (1 .. n)
           m == Cardinality(P)
<1>1. /\ Len(ks) \in Nat /\ n \in Nat /\ ks \in [1 .. Len(ks) -> Keys]
      /\ P \in SUBSET (1 .. Len(ks)) /\ P \in SUBSET (1 .. n)
  BY KeySeqType DEF IndicesAt
<1>2. m \in Nat /\ InOrder(P) \in [1 .. m -> P]
  BY <1>1, InOrderType
<1> HIDE DEF P
<1>3. ASSUME NEW j \in 1 .. m
      PROVE  LET i == InOrder(P)[j]
             IN Wr("read", ItemCell(i), ks[i], i, TRUE) \in WorkRequest
  <2> DEFINE i == InOrder(P)[j]
  <2>1. i \in 1 .. Len(ks) /\ i \in 1 .. n BY <1>1, <1>2
  <2>2. ItemCell(i) \in BufIndex BY <2>1, <1>1 DEF ItemCell, BufIndex
  <2>3. ks[i] \in Cells BY <2>1, <1>1 DEF Cells
  <2>4. i \in Nat BY <2>1, <1>1
  <2> HIDE DEF i
  <2>5. Wr("read", ItemCell(i), ks[i], i, TRUE) \in WorkRequest
    BY <2>2, <2>3, <2>4, WrType
  <2> QED BY <2>5 DEF i
<1> DEFINE ch == [j \in 1 .. m |->
        LET i == InOrder(P)[j] IN Wr("read", ItemCell(i), ks[i], i, TRUE)]
<1>4. ReadsAt(ks, s, n) = ch
  BY DEF ReadsAt, P
<1>5. ch \in [1 .. m -> WorkRequest]
  BY <1>3
<1> HIDE DEF ch
<1>6. ch \in Seq(WorkRequest) /\ Len(ch) = m
  BY <1>5, <1>2
<1> QED BY <1>4, <1>6 DEF P

(* The CQE that PollCQ takes is the oldest of those waiting.               *)
LEMMA OldestType ==
  ASSUME NEW q \in Seq(WorkRequest), Ready(q) # {}
  PROVE  /\ Oldest(q) \in Ready(q)
         /\ Oldest(q) \in 1 .. Len(q)
         /\ \A j \in Ready(q) : Oldest(q) <= j
<1>1. Ready(q) \in SUBSET (1 .. Len(q)) /\ Ready(q) \in SUBSET Nat
  BY DEF Ready
<1>2. \E i \in Ready(q) : \A j \in Ready(q) : i <= j
  BY <1>1, Smallest
<1> QED BY <1>1, <1>2 DEF Oldest

LEMMA ReclaimType ==
  ASSUME NEW q \in Seq(WorkRequest), NEW i \in 1 .. Len(q)
  PROVE  /\ Reclaim(q, i) \in Seq(WorkRequest)
         /\ Len(Reclaim(q, i)) = Len(q) - i
         /\ \A j \in 1 .. Len(q) - i : Reclaim(q, i)[j] = q[j + i]
<1>1. \A j \in i + 1 .. Len(q) : q[j] \in WorkRequest
  OBVIOUS
<1>2. i + 1 \in Int /\ Len(q) \in Int
  OBVIOUS
<1>3. /\ SubSeq(q, i + 1, Len(q)) \in Seq(WorkRequest)
      /\ Len(SubSeq(q, i + 1, Len(q))) =
           IF i + 1 <= Len(q) THEN Len(q) - (i + 1) + 1 ELSE 0
      /\ \A j \in 1 .. Len(q) - (i + 1) + 1 :
           SubSeq(q, i + 1, Len(q))[j] = q[(i + 1) + j - 1]
  BY <1>1, <1>2, SubSeqProperties
<1> QED BY <1>3 DEF Reclaim

-----------------------------------------------------------------------------
(* Type correctness, in two halves.                                        *)

NicTypeOK ==
  /\ mem \in [Servers -> [Cells -> Value]]
  /\ recv \in [Clients -> [Servers -> {"posted", "filled", "gone"}]]
  /\ wq \in [Clients -> [Servers -> Seq(WorkRequest)]]
  /\ \A cl \in Clients, s \in Servers : Len(wq[cl][s]) <= SQDepth
  /\ qpErr \in [Clients -> [Servers -> BOOLEAN]]
  /\ buf \in [Clients -> [BufIndex -> Value]]

CallTypeOK ==
  /\ phase \in [Clients -> {"idle", "polling", "closed"}]
  /\ call \in [Clients -> CallRecords]
  /\ left \in [Clients -> SUBSET Servers]
  /\ completed \in [Clients -> Nat]
  /\ ret \in [Clients -> RetRecords]
  /\ abandoned \in [Clients -> BOOLEAN]

LEMMA TypeHalves == TypeOK <=> NicTypeOK /\ CallTypeOK
BY DEF TypeOK, NicTypeOK, CallTypeOK

LEMMA InitType == Init => TypeOK
<1> SUFFICES ASSUME Init PROVE TypeOK OBVIOUS
<1>1. NoCall \in CallRecords
  BY NoValType DEF NoCall, CallRecords
<1>2. NoRet \in RetRecords
  BY DEF NoRet, RetRecords
<1>3. CallTypeOK
  BY <1>1, <1>2 DEF Init, CallTypeOK
<1>4. <<>> \in Seq(WorkRequest) /\ Len(<<>>) = 0 /\ Zero \in Value
  BY DEF Value
<1>5. NicTypeOK
  BY <1>4 DEF Init, NicTypeOK
<1> QED BY <1>3, <1>5, TypeHalves

LEMMA AwaitType ==
  ASSUME CallTypeOK, NEW cl \in Clients, NEW c \in CallRecords,
         c.keys \in KeySeqs, Await(cl, c)
  PROVE  CallTypeOK'
<1>1. Involved(c) \subseteq Servers
  BY InvolvedType
<1>2. NoRet \in RetRecords
  BY DEF NoRet, RetRecords
<1> QED BY <1>1, <1>2 DEF CallTypeOK, Await

LEMMA ReturnType ==
  ASSUME CallTypeOK, NEW cl \in Clients, NEW c \in CallRecords,
         NEW r \in RetRecords, Return(cl, c, r)
  PROVE  CallTypeOK'
<1>1. (abandoned[cl] \/ (r = ErrRet /\ \E s \in Servers : wq'[cl][s] # <<>>)) \in BOOLEAN
  BY DEF CallTypeOK
<1>2. abandoned' \in [Clients -> BOOLEAN]
  BY <1>1 DEF CallTypeOK, Return
<1> QED BY <1>2 DEF CallTypeOK, Return

LEMMA ErrRetType == ErrRet \in RetRecords
BY DEF ErrRet, RetRecords

(* A call of one WR, whichever method it is.                               *)
LEMMA IssueType ==
  ASSUME TypeOK, NEW cl \in Clients, NEW c \in CallRecords, c.keys \in KeySeqs,
         NEW wr \in WorkRequest, Issue(cl, c, wr)
  PROVE  /\ CallTypeOK'
         /\ wq' \in [Clients -> [Servers -> Seq(WorkRequest)]]
         /\ \A d \in Clients, s \in Servers : Len(wq'[d][s]) <= SQDepth
<1> DEFINE s0 == ShardOf(c.keys[1])
<1>1. s0 \in Servers
  <2>1. 1 \in 1 .. Len(c.keys) /\ c.keys \in [1 .. Len(c.keys) -> Keys]
    BY KeySeqType
  <2>2. c.keys[1] \in Nat BY <2>1
  <2> QED BY <2>2, ShardType
<1>2. CASE Fits(wq[cl][s0], 1) /\ wq' = [wq EXCEPT ![cl][s0] = Append(@, wr)] /\ Await(cl, c)
  <2>1. CallTypeOK' BY <1>2, AwaitType, TypeHalves
  <2>2. Append(wq[cl][s0], wr) \in Seq(WorkRequest) /\ Len(Append(wq[cl][s0], wr)) <= SQDepth
    BY <1>1, <1>2 DEF TypeOK, Fits
  <2> HIDE DEF s0
  <2> QED BY <1>1, <1>2, <2>1, <2>2 DEF TypeOK
<1>3. CASE wq' = wq /\ Return(cl, c, ErrRet)
  <2>1. CallTypeOK' BY <1>3, ReturnType, ErrRetType, TypeHalves
  <2> QED BY <1>3, <2>1 DEF TypeOK
<1> QED BY <1>2, <1>3 DEF Issue

(* The WRs of the calls that use one.                                      *)
LEMMA FirstWrType ==
  \A a \in Cells, op \in {"write", "read", "send"}, id \in {1, 2} :
    Wr(op, 0, a, id, TRUE) \in WorkRequest
<1>1. 0 \in BufIndex /\ TRUE \in BOOLEAN /\ \A id \in {1, 2} : id \in Nat
  BY DEF BufIndex
<1> QED BY <1>1, WrType

LEMMA CellsOfKeys == RecvCell \in Cells /\ \A k \in Keys : k \in Cells
BY DEF Cells

LEMMA PutType ==
  ASSUME TypeOK, NEW cl \in Clients, NEW k \in Keys, NEW v \in Value, Put(cl, k, v)
  PROVE  TypeOK'
<1> DEFINE c == [op |-> "Put", keys |-> <<k>>, vals |-> <<v>>]
           wr == Wr("write", 0, k, 1, TRUE)
<1>1. c \in CallRecords /\ c.keys \in KeySeqs
  BY SingleKeyType, SingleValType DEF CallRecords, AllOps
<1>2. wr \in WorkRequest
  BY FirstWrType, CellsOfKeys
<1>3. Issue(cl, c, wr) /\ buf' = [buf EXCEPT ![cl][0] = v] /\ UNCHANGED <<mem, recv, qpErr>>
  BY DEF Put
<1> HIDE DEF c, wr
<1>4. buf' \in [Clients -> [BufIndex -> Value]]
  BY <1>3 DEF TypeOK
<1>5. /\ CallTypeOK'
      /\ wq' \in [Clients -> [Servers -> Seq(WorkRequest)]]
      /\ \A d \in Clients, s \in Servers : Len(wq'[d][s]) <= SQDepth
  BY <1>1, <1>2, <1>3, IssueType
<1>6. NicTypeOK'
  BY <1>3, <1>4, <1>5 DEF NicTypeOK, TypeOK
<1> QED BY <1>5, <1>6, TypeHalves DEF TypeOK, NicTypeOK, CallTypeOK

LEMMA WriteType ==
  ASSUME TypeOK, NEW cl \in Clients, NEW k \in Keys, NEW v \in Value, Write(cl, k, v)
  PROVE  TypeOK'
<1> DEFINE c == [op |-> "Write", keys |-> <<k>>, vals |-> <<v>>]
           wr == Wr("write", 0, k, 1, TRUE)
<1>1. c \in CallRecords /\ c.keys \in KeySeqs
  BY SingleKeyType, SingleValType DEF CallRecords, AllOps
<1>2. wr \in WorkRequest
  BY FirstWrType, CellsOfKeys
<1>3. Issue(cl, c, wr) /\ buf' = [buf EXCEPT ![cl][0] = v] /\ UNCHANGED <<mem, recv, qpErr>>
  BY DEF Write
<1> HIDE DEF c, wr
<1>4. buf' \in [Clients -> [BufIndex -> Value]]
  BY <1>3 DEF TypeOK
<1>5. /\ CallTypeOK'
      /\ wq' \in [Clients -> [Servers -> Seq(WorkRequest)]]
      /\ \A d \in Clients, s \in Servers : Len(wq'[d][s]) <= SQDepth
  BY <1>1, <1>2, <1>3, IssueType
<1>6. NicTypeOK'
  BY <1>3, <1>4, <1>5 DEF NicTypeOK, TypeOK
<1> QED BY <1>5, <1>6 DEF TypeOK, NicTypeOK, CallTypeOK

LEMMA SendType ==
  ASSUME TypeOK, NEW cl \in Clients, NEW k \in Keys, NEW v \in Value, Send(cl, k, v)
  PROVE  TypeOK'
<1> DEFINE c == [op |-> "Send", keys |-> <<k>>, vals |-> <<v>>]
           wr == Wr("send", 0, RecvCell, 1, TRUE)
<1>1. c \in CallRecords /\ c.keys \in KeySeqs
  BY SingleKeyType, SingleValType DEF CallRecords, AllOps
<1>2. wr \in WorkRequest
  BY FirstWrType, CellsOfKeys
<1>3. Issue(cl, c, wr) /\ buf' = [buf EXCEPT ![cl][0] = v] /\ UNCHANGED <<mem, recv, qpErr>>
  BY DEF Send
<1> HIDE DEF c, wr
<1>4. buf' \in [Clients -> [BufIndex -> Value]]
  BY <1>3 DEF TypeOK
<1>5. /\ CallTypeOK'
      /\ wq' \in [Clients -> [Servers -> Seq(WorkRequest)]]
      /\ \A d \in Clients, s \in Servers : Len(wq'[d][s]) <= SQDepth
  BY <1>1, <1>2, <1>3, IssueType
<1>6. NicTypeOK'
  BY <1>3, <1>4, <1>5 DEF NicTypeOK, TypeOK
<1> QED BY <1>5, <1>6 DEF TypeOK, NicTypeOK, CallTypeOK

LEMMA GetType ==
  ASSUME TypeOK, NEW cl \in Clients, NEW k \in Keys, Get(cl, k)
  PROVE  TypeOK'
<1> DEFINE c == [op |-> "Get", keys |-> <<k>>, vals |-> <<>>]
           wr == Wr("read", 0, k, 2, TRUE)
<1>1. c \in CallRecords /\ c.keys \in KeySeqs
  BY SingleKeyType, NoValType DEF CallRecords, AllOps
<1>2. wr \in WorkRequest
  BY FirstWrType, CellsOfKeys
<1>3. Issue(cl, c, wr) /\ UNCHANGED <<mem, recv, qpErr, buf>>
  BY DEF Get
<1> HIDE DEF c, wr
<1>5. /\ CallTypeOK'
      /\ wq' \in [Clients -> [Servers -> Seq(WorkRequest)]]
      /\ \A d \in Clients, s \in Servers : Len(wq'[d][s]) <= SQDepth
  BY <1>1, <1>2, <1>3, IssueType
<1>6. NicTypeOK'
  BY <1>3, <1>5 DEF NicTypeOK, TypeOK
<1> QED BY <1>5, <1>6 DEF TypeOK, NicTypeOK, CallTypeOK

(* A queue typed and bounded after each of a client's queues was replaced. *)
LEMMA QueuesReplaced ==
  ASSUME TypeOK, NEW cl \in Clients, NEW f,
         \A s \in Servers : f[s] \in Seq(WorkRequest) /\ Len(f[s]) <= SQDepth,
         f \in [Servers -> Seq(WorkRequest)],
         wq' = [wq EXCEPT ![cl] = f]
  PROVE  /\ wq' \in [Clients -> [Servers -> Seq(WorkRequest)]]
         /\ \A d \in Clients, s \in Servers : Len(wq'[d][s]) <= SQDepth
BY DEF TypeOK

LEMMA PutBatchType ==
  ASSUME TypeOK, NEW cl \in Clients, NEW ks \in KeySeqs, NEW vs \in ValSeqs,
         Len(vs) = Len(ks), PutBatch(cl, ks, vs)
  PROVE  TypeOK'
<1> DEFINE c == [op |-> "PutBatch", keys |-> ks, vals |-> vs]
           chain(s) == WriteChain(ks, s)
           fitting == {s \in Involved(c) : Fits(wq[cl][s], Len(chain(s)))}
<1>1. c \in CallRecords /\ c.keys \in KeySeqs
  BY DEF CallRecords, AllOps
<1>2. buf' \in [Clients -> [BufIndex -> Value]] /\ UNCHANGED <<mem, recv, qpErr>>
  <2>1. vs \in [1 .. Len(ks) -> Value]
    BY DEF ValSeqs
  <2>2. \A b \in BufIndex : b < Len(ks) => vs[b + 1] \in Value
    BY <2>1, KeySeqType DEF BufIndex
  <2>3. buf' = [buf EXCEPT ![cl] =
                  [b \in BufIndex |-> IF b < Len(ks) THEN vs[b + 1] ELSE buf[cl][b]]]
    BY DEF PutBatch
  <2>4. buf[cl] \in [BufIndex -> Value]
    BY DEF TypeOK
  <2>5. [b \in BufIndex |-> IF b < Len(ks) THEN vs[b + 1] ELSE buf[cl][b]]
          \in [BufIndex -> Value]
    BY <2>2, <2>4
  <2>6. buf' \in [Clients -> [BufIndex -> Value]]
    BY <2>3, <2>5 DEF TypeOK
  <2> QED BY <2>6 DEF PutBatch
<1>3. /\ CallTypeOK'
      /\ wq' \in [Clients -> [Servers -> Seq(WorkRequest)]]
      /\ \A d \in Clients, s \in Servers : Len(wq'[d][s]) <= SQDepth
  <2>1. CASE wq' = wq /\ Return(cl, c, ErrRet)
    <3>1. CallTypeOK' BY <1>1, <2>1, ReturnType, ErrRetType, TypeHalves
    <3> QED BY <2>1, <3>1 DEF TypeOK
  <2>2. ASSUME Len(ks) <= BufCells
        PROVE  \A s \in Servers : /\ chain(s) \in Seq(WorkRequest)
                                  /\ Len(chain(s)) \in Nat
                                  /\ s \notin Involved(c) => Len(chain(s)) = 0
    <3>1. \A s \in Servers : chain(s) \in Seq(WorkRequest)
                             /\ Len(chain(s)) = Cardinality(IndicesAt(ks, s))
      BY <2>2, WriteChainType
    <3>2. ASSUME NEW s \in Servers, s \notin Involved(c)
          PROVE  Len(chain(s)) = 0
      <4>1. IndicesAt(ks, s) = {} BY <3>2 DEF IndicesAt, Involved
      <4> QED BY <3>1, <4>1, FS_EmptySet
    <3> QED BY <3>1, <3>2
  <2>3. CASE /\ Len(ks) <= BufCells
             /\ fitting = Involved(c)
             /\ wq' = [wq EXCEPT ![cl] = [s \in Servers |-> @[s] \o chain(s)]]
             /\ Await(cl, c)
    <3>1. CallTypeOK' BY <1>1, <2>3, AwaitType, TypeHalves
    <3> DEFINE f == [s \in Servers |-> wq[cl][s] \o chain(s)]
    <3>2. ASSUME NEW s \in Servers
          PROVE  f[s] \in Seq(WorkRequest) /\ Len(f[s]) <= SQDepth
      <4>1. /\ wq[cl][s] \in Seq(WorkRequest) /\ Len(wq[cl][s]) <= SQDepth
            /\ chain(s) \in Seq(WorkRequest) /\ Len(chain(s)) \in Nat
        BY <2>2, <2>3 DEF TypeOK
      <4>2. s \in Involved(c) => Len(wq[cl][s]) + Len(chain(s)) <= SQDepth
        BY <2>3 DEF Fits
      <4>3. s \notin Involved(c) => Len(chain(s)) = 0
        BY <2>2, <2>3
      <4> HIDE DEF chain, c
      <4> QED BY <4>1, <4>2, <4>3, ConcatProperties
    <3>3. wq' = [wq EXCEPT ![cl] = f]
      BY <2>3 
    <3> HIDE DEF chain, f
    <3>4. f \in [Servers -> Seq(WorkRequest)]
      BY <3>2 DEF f
    <3> QED BY <3>1, <3>2, <3>3, <3>4, QueuesReplaced
  <2>4. ASSUME Len(ks) <= BufCells,
               NEW x \in Involved(c) \ fitting, NEW before \in SUBSET fitting,
               wq' = [wq EXCEPT ![cl] =
                         [s \in Servers |->
                            IF s \in before THEN @[s] \o chain(s)
                            ELSE IF s = x
                                 THEN @[s] \o SubSeq(chain(s), 1, SQDepth - Len(@[s]))
                                 ELSE @[s]]],
               Return(cl, c, ErrRet)
        PROVE  /\ CallTypeOK'
               /\ wq' \in [Clients -> [Servers -> Seq(WorkRequest)]]
               /\ \A d \in Clients, s \in Servers : Len(wq'[d][s]) <= SQDepth
    <3>1. CallTypeOK' BY <1>1, <2>4, ReturnType, ErrRetType, TypeHalves
    <3> DEFINE f == [s \in Servers |->
                            IF s \in before THEN wq[cl][s] \o chain(s)
                            ELSE IF s = x
                                 THEN wq[cl][s] \o SubSeq(chain(s), 1, SQDepth - Len(wq[cl][s]))
                                 ELSE wq[cl][s]]
    <3>2. ASSUME NEW s \in Servers
          PROVE  f[s] \in Seq(WorkRequest) /\ Len(f[s]) <= SQDepth
      <4>1. /\ wq[cl][s] \in Seq(WorkRequest) /\ Len(wq[cl][s]) <= SQDepth
            /\ chain(s) \in Seq(WorkRequest) /\ Len(chain(s)) \in Nat
        BY <2>2, <2>4 DEF TypeOK
      <4>2. CASE s \in before
        <5>1. Len(wq[cl][s]) + Len(chain(s)) <= SQDepth
          BY <2>4, <4>2 DEF Fits
        <5>2. f[s] = wq[cl][s] \o chain(s) BY <4>2
        <5> HIDE DEF chain, c, f
        <5> QED BY <4>1, <5>1, <5>2, ConcatProperties
      <4>3. CASE s \notin before /\ s = x
        <5> DEFINE n == SQDepth - Len(wq[cl][s])
                   pre == SubSeq(chain(s), 1, n)
        <5>1. Len(wq[cl][s]) + Len(chain(s)) > SQDepth
          BY <2>4, <4>1, <4>3 DEF Fits
        <5>2. f[s] = wq[cl][s] \o pre BY <4>3
        <5>3. n \in Nat /\ n <= Len(chain(s)) BY <4>1, <5>1
        <5> HIDE DEF chain, c, n
        <5>4. \A i \in 1 .. n : chain(s)[i] \in WorkRequest BY <4>1, <5>3
        <5>5. pre \in Seq(WorkRequest) /\ Len(pre) = n
          BY <5>3, <5>4, SubSeqProperties
        <5> HIDE DEF pre, f
        <5>6. Len(wq[cl][s]) + n <= SQDepth BY <4>1 DEF n
        <5> QED BY <4>1, <5>2, <5>5, <5>6, ConcatProperties
      <4>4. CASE s \notin before /\ s # x
        BY <4>1, <4>4
      <4> QED BY <4>2, <4>3, <4>4
    <3>3. wq' = [wq EXCEPT ![cl] = f]
      BY <2>4
    <3> HIDE DEF chain, f
    <3>4. f \in [Servers -> Seq(WorkRequest)]
      BY <3>2 DEF f
    <3> QED BY <3>1, <3>2, <3>3, <3>4, QueuesReplaced
  <2> QED BY <2>1, <2>3, <2>4 DEF PutBatch
<1>4. NicTypeOK'
  BY <1>2, <1>3 DEF NicTypeOK, TypeOK
<1> QED BY <1>3, <1>4 DEF TypeOK, NicTypeOK, CallTypeOK

(* The last key of a server that was posted bounds all before it.          *)
LEMMA PostedReadsFit ==
  ASSUME TypeOK, NEW cl \in Clients, NEW ks \in KeySeqs, NEW n \in 0 .. Len(ks),
         \A i \in 1 .. n : CanRead(cl, ks, i), NEW s \in Servers
  PROVE  Len(wq[cl][s]) + Cardinality(IndicesAt(ks, s) \cap (1 .. n)) <= SQDepth
<1> DEFINE P == IndicesAt(ks, s) \cap (1 .. n)
<1>1. n \in Nat /\ P \in SUBSET (1 .. n)
  BY KeySeqType
<1>2. Len(wq[cl][s]) \in Nat /\ Len(wq[cl][s]) <= SQDepth
  BY DEF TypeOK
<1>3. CASE P = {}
  <2>1. Cardinality(P) = 0 BY <1>3, FS_EmptySet
  <2> QED BY <2>1, <1>2
<1>4. CASE P # {}
  <2> HIDE DEF P
  <2>1. PICK top \in P : \A i \in P : i <= top
    BY <1>1, <1>4, Greatest
  <2>2. P = IndicesAt(ks, s) \cap (1 .. top)
    BY <1>1, <2>1 DEF P
  <2>3. CanRead(cl, ks, top) /\ ShardOf(ks[top]) = s
    BY <1>1, <2>1 DEF IndicesAt, P
  <2>4. Len(wq[cl][s]) + Cardinality(P) <= SQDepth
    BY <2>2, <2>3 DEF CanRead, Fits
  <2> QED BY <2>4 DEF P
<1> QED BY <1>3, <1>4

LEMMA GetBatchType ==
  ASSUME TypeOK, NEW cl \in Clients, NEW ks \in KeySeqs, GetBatch(cl, ks)
  PROVE  TypeOK'
<1> DEFINE c == [op |-> "GetBatch", keys |-> ks, vals |-> <<>>]
<1>1. c \in CallRecords /\ c.keys \in KeySeqs
  BY NoValType DEF CallRecords, AllOps
<1>2. PICK n \in 0 .. Len(ks) :
        /\ \A i \in 1 .. n : CanRead(cl, ks, i)
        /\ wq' = [wq EXCEPT ![cl] = [s \in Servers |-> @[s] \o ReadsAt(ks, s, n)]]
        /\ Await(cl, c) \/ Return(cl, c, ErrRet)
  BY DEF GetBatch
<1>3. CallTypeOK'
  <2>1. CASE Await(cl, c) BY <1>1, <2>1, AwaitType, TypeHalves
  <2>2. CASE Return(cl, c, ErrRet)
    BY <1>1, <2>2, ReturnType, ErrRetType, TypeHalves
  <2> QED BY <1>2, <2>1, <2>2
<1>4. n <= BufCells
  <2>1. n \in Nat BY KeySeqType
  <2>2. CASE n = 0 BY <2>2
  <2>3. CASE n # 0
    <3>1. n \in 1 .. n BY <2>1, <2>3
    <3> QED BY <1>2, <3>1 DEF CanRead
  <2> QED BY <2>2, <2>3
<1> DEFINE f == [s \in Servers |-> wq[cl][s] \o ReadsAt(ks, s, n)]
<1>5. ASSUME NEW s \in Servers
      PROVE  f[s] \in Seq(WorkRequest) /\ Len(f[s]) <= SQDepth
  <2>1. wq[cl][s] \in Seq(WorkRequest) BY DEF TypeOK
  <2>2. /\ ReadsAt(ks, s, n) \in Seq(WorkRequest)
        /\ Len(ReadsAt(ks, s, n)) = Cardinality(IndicesAt(ks, s) \cap (1 .. n))
    BY <1>4, ReadsAtType
  <2>3. Len(wq[cl][s]) + Cardinality(IndicesAt(ks, s) \cap (1 .. n)) <= SQDepth
    BY <1>2, PostedReadsFit
  <2>4. f[s] = wq[cl][s] \o ReadsAt(ks, s, n) OBVIOUS
  <2> HIDE DEF f
  <2> QED BY <2>1, <2>2, <2>3, <2>4, ConcatProperties
<1>6. wq' = [wq EXCEPT ![cl] = f]
  BY <1>2
<1> HIDE DEF f, c
<1>7. f \in [Servers -> Seq(WorkRequest)]
  BY <1>5 DEF f
<1>8. /\ wq' \in [Clients -> [Servers -> Seq(WorkRequest)]]
      /\ \A d \in Clients, s \in Servers : Len(wq'[d][s]) <= SQDepth
  BY <1>5, <1>6, <1>7, QueuesReplaced
<1>9. NicTypeOK'
  BY <1>8 DEF NicTypeOK, TypeOK, GetBatch
<1> QED BY <1>3, <1>9 DEF TypeOK, NicTypeOK, CallTypeOK

(* A poll returns only values of the client's own buffer.                  *)
LEMMA ResultsType ==
  ASSUME NEW c \in CallRecords, NEW b \in [BufIndex -> Value],
         c.op = "GetBatch" => Len(c.keys) <= BufCells
  PROVE  Results(c, b) \in ValSeqs
<1>1. CASE c.op = "Get"
  <2>1. b[0] \in Value BY DEF BufIndex
  <2> QED BY <1>1, <2>1, SingleValType DEF Results
<1>2. CASE c.op = "GetBatch"
  <2>1. Len(c.keys) \in 0 .. MaxBatch
    <3>1. CASE c.keys = <<>> BY <3>1
    <3>2. CASE c.keys \in KeySeqs BY <3>2, KeySeqType
    <3> QED BY <3>1, <3>2 DEF CallRecords
  <2>2. [i \in 1 .. Len(c.keys) |-> b[ItemCell(i)]] \in [1 .. Len(c.keys) -> Value]
    BY <1>2, <2>1 DEF ItemCell, BufIndex
  <2> QED BY <1>2, <2>1, <2>2 DEF Results, ValSeqs
<1>3. CASE c.op \notin {"Get", "GetBatch"}
  BY <1>3, NoValType DEF Results
<1> QED BY <1>1, <1>2, <1>3

(* The inductive invariant for the types.                                  *)
TypeInv == TypeOK /\ CallShape

LEMMA OkRetType ==
  ASSUME TypeInv, NEW cl \in Clients, phase[cl] = "polling"
  PROVE  [status |-> "ok", reads |-> Results(call[cl], buf[cl])] \in RetRecords
<1>1. call[cl] \in CallRecords /\ buf[cl] \in [BufIndex -> Value]
  BY DEF TypeInv, TypeOK
<1>2. call[cl].op = "GetBatch" => Len(call[cl].keys) <= BufCells
  BY DEF TypeInv, CallShape
<1>3. Results(call[cl], buf[cl]) \in ValSeqs
  BY <1>1, <1>2, ResultsType
<1> QED BY <1>3 DEF RetRecords

LEMMA AdvanceType ==
  ASSUME TypeInv, NEW cl \in Clients, NEW s \in Servers, NEW k \in {0, 1},
         phase[cl] = "polling", Advance(cl, s, k)
  PROVE  CallTypeOK'
<1>1. call[cl] \in CallRecords /\ call[cl].keys \in KeySeqs
  BY DEF TypeInv, TypeOK, CallShape
<1> DEFINE r == [status |-> "ok", reads |-> Results(call[cl], buf[cl])]
<1>2. CASE Return(cl, call[cl], r)
  <2>1. r \in RetRecords BY OkRetType
  <2>2. CallTypeOK BY TypeHalves DEF TypeInv
  <2> HIDE DEF r
  <2> QED BY <1>1, <1>2, <2>1, <2>2, ReturnType
<1>3. CASE /\ \E rest \in SUBSET left[cl] :
                left' = [left EXCEPT ![cl] = IF rest = {} THEN Involved(call[cl]) ELSE rest]
           /\ completed' = [completed EXCEPT ![cl] = completed[cl] + k]
           /\ UNCHANGED <<phase, call, ret, abandoned>>
  <2>1. Involved(call[cl]) \subseteq Servers BY <1>1, InvolvedType
  <2>2. left' \in [Clients -> SUBSET Servers]
    BY <1>3, <2>1 DEF TypeInv, TypeOK
  <2>3. completed' \in [Clients -> Nat]
    BY <1>3 DEF TypeInv, TypeOK
  <2> QED BY <1>3, <2>2, <2>3 DEF TypeInv, TypeOK, CallTypeOK
<1> QED BY <1>2, <1>3 DEF Advance

LEMMA PollEmptyType ==
  ASSUME TypeInv, NEW cl \in Clients, NEW s \in Servers, PollEmpty(cl, s)
  PROVE  TypeOK'
<1>1. CallTypeOK'
  BY AdvanceType DEF PollEmpty
<1>2. NicTypeOK'
  BY DEF PollEmpty, nicVars, TypeInv, TypeOK, NicTypeOK
<1> QED BY <1>1, <1>2 DEF TypeOK, NicTypeOK, CallTypeOK

LEMMA PollCqeType ==
  ASSUME TypeInv, NEW cl \in Clients, NEW s \in Servers, PollCqe(cl, s)
  PROVE  TypeOK'
<1> DEFINE q == wq[cl][s]
           i == Oldest(q)
<1>1. q \in Seq(WorkRequest) /\ Len(q) <= SQDepth
  BY DEF TypeInv, TypeOK
<1>2. i \in 1 .. Len(q)
  BY <1>1, OldestType DEF PollCqe
<1>3. Reclaim(q, i) \in Seq(WorkRequest) /\ Len(Reclaim(q, i)) <= SQDepth
  BY <1>1, <1>2, ReclaimType
<1>4. NicTypeOK'
  <2>1. wq' = [wq EXCEPT ![cl][s] = Reclaim(q, i)] /\ UNCHANGED <<mem, recv, qpErr, buf>>
    BY DEF PollCqe
  <2> HIDE DEF i, q
  <2>2. wq' \in [Clients -> [Servers -> Seq(WorkRequest)]]
    BY <2>1, <1>3 DEF TypeInv, TypeOK
  <2>3. \A d \in Clients, t \in Servers : Len(wq'[d][t]) <= SQDepth
    BY <2>1, <1>3 DEF TypeInv, TypeOK
  <2> QED BY <2>1, <2>2, <2>3 DEF TypeInv, TypeOK, NicTypeOK
<1>5. CallTypeOK'
  <2>1. call[cl] \in CallRecords /\ CallTypeOK
    BY TypeHalves DEF TypeInv, TypeOK
  <2>2. CASE Return(cl, call[cl], ErrRet)
    BY <2>1, <2>2, ReturnType, ErrRetType
  <2>3. CASE \E k \in {0, 1} : Advance(cl, s, k)
    BY <2>3, AdvanceType DEF PollCqe
  <2> QED BY <2>2, <2>3 DEF PollCqe
<1> QED BY <1>4, <1>5 DEF TypeOK, NicTypeOK, CallTypeOK

LEMMA CloseType ==
  ASSUME TypeOK, NEW cl \in Clients, Close(cl)
  PROVE  TypeOK'
<1> DEFINE f == [s \in Servers |-> <<>>]
<1>1. f \in [Servers -> Seq(WorkRequest)] /\ \A s \in Servers : Len(f[s]) <= SQDepth
  OBVIOUS
<1>2. wq' = [wq EXCEPT ![cl] = f]
  BY DEF Close
<1>3. \A s \in Servers : f[s] \in Seq(WorkRequest) /\ Len(f[s]) <= SQDepth
  BY <1>1
<1> HIDE DEF f
<1>4. /\ wq' \in [Clients -> [Servers -> Seq(WorkRequest)]]
      /\ \A d \in Clients, s \in Servers : Len(wq'[d][s]) <= SQDepth
  BY <1>1, <1>2, <1>3, QueuesReplaced
<1> QED BY <1>4 DEF Close, TypeOK

(* A step of the NIC that marks one WR and changes neither the length of   *)
(* its queue nor any call.                                                 *)
LEMMA MarkType ==
  ASSUME TypeOK, NEW cl \in Clients, NEW s \in Servers,
         NEW i \in DOMAIN wq[cl][s], NEW w \in WorkRequest,
         wq' = [wq EXCEPT ![cl][s][i] = w], UNCHANGED callVars,
         mem' \in [Servers -> [Cells -> Value]],
         recv' \in [Clients -> [Servers -> {"posted", "filled", "gone"}]],
         qpErr' \in [Clients -> [Servers -> BOOLEAN]],
         buf' \in [Clients -> [BufIndex -> Value]]
  PROVE  TypeOK'
<1> DEFINE q == [wq[cl][s] EXCEPT ![i] = w]
<1>1. q \in Seq(WorkRequest) /\ Len(q) = Len(wq[cl][s])
  <2>1. wq[cl][s] \in Seq(WorkRequest) BY DEF TypeOK
  <2>2. i \in 1 .. Len(wq[cl][s]) BY <2>1
  <2> QED BY <2>1, <2>2, ExceptSeq
<1>2. wq' = [wq EXCEPT ![cl][s] = q]
  OBVIOUS
<1> HIDE DEF q
<1>3. wq' \in [Clients -> [Servers -> Seq(WorkRequest)]]
  BY <1>1, <1>2 DEF TypeOK
<1>4. \A d \in Clients, t \in Servers : Len(wq'[d][t]) <= SQDepth
  BY <1>1, <1>2 DEF TypeOK
<1> QED BY <1>3, <1>4 DEF TypeOK, callVars

LEMMA NicWriteType ==
  ASSUME TypeOK, NEW cl \in Clients, NEW s \in Servers, NicWrite(cl, s)
  PROVE  TypeOK'
<1>1. PICK i \in DOMAIN wq[cl][s] :
        /\ mem' = [mem EXCEPT ![s][wq[cl][s][i].addr] = buf[cl][wq[cl][s][i].cell]]
        /\ wq' = [wq EXCEPT ![cl][s][i].done = TRUE]
        /\ UNCHANGED <<recv, qpErr, buf, callVars>>
  BY DEF NicWrite
<1> DEFINE w == [wq[cl][s][i] EXCEPT !.done = TRUE]
<1>2. wq[cl][s][i] \in WorkRequest
  BY DEF TypeOK
<1>3. w \in WorkRequest
  BY <1>2 DEF WorkRequest
<1>4. wq' = [wq EXCEPT ![cl][s][i] = w]
  BY <1>1
<1>5. mem' \in [Servers -> [Cells -> Value]]
  <2>1. buf[cl][wq[cl][s][i].cell] \in Value BY <1>2 DEF TypeOK, WorkRequest
  <2> QED BY <1>1, <2>1 DEF TypeOK
<1> HIDE DEF w
<1>7. /\ mem' \in [Servers -> [Cells -> Value]]
      /\ recv' \in [Clients -> [Servers -> {"posted", "filled", "gone"}]]
      /\ qpErr' \in [Clients -> [Servers -> BOOLEAN]]
      /\ buf' \in [Clients -> [BufIndex -> Value]]
      /\ UNCHANGED callVars
  BY <1>1, <1>5 DEF TypeOK
<1> QED BY <1>3, <1>4, <1>7, MarkType

LEMMA NicReadType ==
  ASSUME TypeOK, NEW cl \in Clients, NEW s \in Servers, NicRead(cl, s)
  PROVE  TypeOK'
<1>1. PICK i \in DOMAIN wq[cl][s] :
        /\ wq' = [wq EXCEPT ![cl][s][i] =
                     [wq[cl][s][i] EXCEPT !.done = TRUE, !.val = mem[s][wq[cl][s][i].addr]]]
        /\ UNCHANGED <<mem, recv, qpErr, buf, callVars>>
  BY DEF NicRead
<1> DEFINE w == [wq[cl][s][i] EXCEPT !.done = TRUE, !.val = mem[s][wq[cl][s][i].addr]]
<1>2. wq[cl][s][i] \in WorkRequest
  BY DEF TypeOK
<1>3. w \in WorkRequest
  <2>1. mem[s][wq[cl][s][i].addr] \in Value BY <1>2 DEF TypeOK, WorkRequest
  <2> QED BY <1>2, <2>1 DEF WorkRequest
<1>4. wq' = [wq EXCEPT ![cl][s][i] = w]
  BY <1>1 DEF TypeOK
<1> HIDE DEF w
<1>7. /\ mem' \in [Servers -> [Cells -> Value]]
      /\ recv' \in [Clients -> [Servers -> {"posted", "filled", "gone"}]]
      /\ qpErr' \in [Clients -> [Servers -> BOOLEAN]]
      /\ buf' \in [Clients -> [BufIndex -> Value]]
      /\ UNCHANGED callVars
  BY <1>1 DEF TypeOK
<1> QED BY <1>3, <1>4, <1>7, MarkType

LEMMA NicRetryReadType ==
  ASSUME TypeOK, NEW cl \in Clients, NEW s \in Servers, NicRetryRead(cl, s)
  PROVE  TypeOK'
<1>1. PICK i \in DOMAIN wq[cl][s] :
        /\ wq' = [wq EXCEPT ![cl][s][i].val = mem[s][wq[cl][s][i].addr]]
        /\ UNCHANGED <<mem, recv, qpErr, buf, callVars>>
  BY DEF NicRetryRead
<1> DEFINE w == [wq[cl][s][i] EXCEPT !.val = mem[s][wq[cl][s][i].addr]]
<1>2. wq[cl][s][i] \in WorkRequest
  BY DEF TypeOK
<1>3. w \in WorkRequest
  <2>1. mem[s][wq[cl][s][i].addr] \in Value BY <1>2 DEF TypeOK, WorkRequest
  <2> QED BY <1>2, <2>1 DEF WorkRequest
<1>4. wq' = [wq EXCEPT ![cl][s][i] = w]
  BY <1>1
<1> HIDE DEF w
<1>7. /\ mem' \in [Servers -> [Cells -> Value]]
      /\ recv' \in [Clients -> [Servers -> {"posted", "filled", "gone"}]]
      /\ qpErr' \in [Clients -> [Servers -> BOOLEAN]]
      /\ buf' \in [Clients -> [BufIndex -> Value]]
      /\ UNCHANGED callVars
  BY <1>1 DEF TypeOK
<1> QED BY <1>3, <1>4, <1>7, MarkType

LEMMA NicSendType ==
  ASSUME TypeOK, NEW cl \in Clients, NEW s \in Servers, NicSend(cl, s)
  PROVE  TypeOK'
<1>1. PICK i \in DOMAIN wq[cl][s] :
        /\ mem' = [mem EXCEPT ![s][wq[cl][s][i].addr] = buf[cl][wq[cl][s][i].cell]]
        /\ recv' = [recv EXCEPT ![cl][s] = "filled"]
        /\ wq' = [wq EXCEPT ![cl][s][i].done = TRUE]
        /\ UNCHANGED <<qpErr, buf, callVars>>
  BY DEF NicSend
<1> DEFINE w == [wq[cl][s][i] EXCEPT !.done = TRUE]
<1>2. wq[cl][s][i] \in WorkRequest
  BY DEF TypeOK
<1>3. w \in WorkRequest
  BY <1>2 DEF WorkRequest
<1>4. wq' = [wq EXCEPT ![cl][s][i] = w]
  BY <1>1
<1>5. mem' \in [Servers -> [Cells -> Value]]
  <2>1. buf[cl][wq[cl][s][i].cell] \in Value BY <1>2 DEF TypeOK, WorkRequest
  <2> QED BY <1>1, <2>1 DEF TypeOK
<1>6. recv' \in [Clients -> [Servers -> {"posted", "filled", "gone"}]]
  BY <1>1 DEF TypeOK
<1> HIDE DEF w
<1>7. /\ mem' \in [Servers -> [Cells -> Value]]
      /\ recv' \in [Clients -> [Servers -> {"posted", "filled", "gone"}]]
      /\ qpErr' \in [Clients -> [Servers -> BOOLEAN]]
      /\ buf' \in [Clients -> [BufIndex -> Value]]
      /\ UNCHANGED callVars
  BY <1>1, <1>5, <1>6 DEF TypeOK
<1> QED BY <1>3, <1>4, <1>7, MarkType

LEMMA NicCompleteType ==
  ASSUME TypeOK, NEW cl \in Clients, NEW s \in Servers, NicComplete(cl, s)
  PROVE  TypeOK'
<1>1. PICK i \in DOMAIN wq[cl][s] :
        /\ wq' = [wq EXCEPT ![cl][s][i].cqe = "ok"]
        /\ buf' = IF wq[cl][s][i].op = "read"
                  THEN [buf EXCEPT ![cl][wq[cl][s][i].cell] = wq[cl][s][i].val] ELSE buf
        /\ UNCHANGED <<mem, recv, qpErr, callVars>>
  BY DEF NicComplete
<1> DEFINE w == [wq[cl][s][i] EXCEPT !.cqe = "ok"]
<1>2. wq[cl][s][i] \in WorkRequest
  BY DEF TypeOK
<1>3. w \in WorkRequest
  BY <1>2 DEF WorkRequest
<1>4. wq' = [wq EXCEPT ![cl][s][i] = w]
  BY <1>1
<1>5. buf' \in [Clients -> [BufIndex -> Value]]
  <2>1. wq[cl][s][i].val \in Value BY <1>2 DEF WorkRequest
  <2> QED BY <1>1, <2>1 DEF TypeOK
<1> HIDE DEF w
<1>7. /\ mem' \in [Servers -> [Cells -> Value]]
      /\ recv' \in [Clients -> [Servers -> {"posted", "filled", "gone"}]]
      /\ qpErr' \in [Clients -> [Servers -> BOOLEAN]]
      /\ buf' \in [Clients -> [BufIndex -> Value]]
      /\ UNCHANGED callVars
  BY <1>1, <1>5 DEF TypeOK
<1> QED BY <1>3, <1>4, <1>7, MarkType

LEMMA NicErrorType ==
  ASSUME TypeOK, NEW cl \in Clients, NEW s \in Servers,
         NicFail(cl, s) \/ NicFlush(cl, s)
  PROVE  TypeOK'
<1>1. PICK i \in DOMAIN wq[cl][s] :
        /\ wq' = [wq EXCEPT ![cl][s][i].cqe = "err"]
        /\ qpErr' = qpErr \/ qpErr' = [qpErr EXCEPT ![cl][s] = TRUE]
        /\ UNCHANGED <<mem, recv, buf, callVars>>
  BY DEF NicFail, NicFlush
<1> DEFINE w == [wq[cl][s][i] EXCEPT !.cqe = "err"]
<1>2. wq[cl][s][i] \in WorkRequest
  BY DEF TypeOK
<1>3. w \in WorkRequest
  BY <1>2 DEF WorkRequest
<1>4. wq' = [wq EXCEPT ![cl][s][i] = w]
  BY <1>1
<1>5. qpErr' \in [Clients -> [Servers -> BOOLEAN]]
  <2>1. qpErr \in [Clients -> [Servers -> BOOLEAN]] BY DEF TypeOK
  <2>2. CASE qpErr' = qpErr BY <2>1, <2>2
  <2>3. CASE qpErr' = [qpErr EXCEPT ![cl][s] = TRUE] BY <2>1, <2>3
  <2> QED BY <1>1, <2>2, <2>3
<1> HIDE DEF w
<1>7. /\ mem' \in [Servers -> [Cells -> Value]]
      /\ recv' \in [Clients -> [Servers -> {"posted", "filled", "gone"}]]
      /\ qpErr' \in [Clients -> [Servers -> BOOLEAN]]
      /\ buf' \in [Clients -> [BufIndex -> Value]]
      /\ UNCHANGED callVars
  BY <1>1, <1>5 DEF TypeOK
<1> QED BY <1>3, <1>4, <1>7, MarkType

LEMMA ServerType ==
  ASSUME TypeOK, NEW cl \in Clients, NEW s \in Servers,
         ServerRepost(cl, s) \/ ServerHandlerReturns(cl, s)
  PROVE  TypeOK'
<1>1. recv' \in [Clients -> [Servers -> {"posted", "filled", "gone"}]]
  <2>1. recv \in [Clients -> [Servers -> {"posted", "filled", "gone"}]] BY DEF TypeOK
  <2>2. CASE ServerRepost(cl, s) BY <2>1, <2>2 DEF ServerRepost
  <2>3. CASE ServerHandlerReturns(cl, s) BY <2>1, <2>3 DEF ServerHandlerReturns
  <2> QED BY <2>2, <2>3
<1>2. UNCHANGED <<mem, wq, qpErr, buf, callVars>>
  BY DEF ServerRepost, ServerHandlerReturns
<1> QED BY <1>1, <1>2 DEF TypeOK, callVars

(* What callers may pass.                                                  *)
LEMMA ValuesForType ==
  ASSUME NEW ks \in KeySeqs, NEW vs \in ValuesFor(ks)
  PROVE  vs \in ValSeqs /\ Len(vs) = Len(ks)
<1>1. Len(ks) \in 0 .. MaxBatch /\ Len(ks) \in Nat /\ ks \in [1 .. Len(ks) -> Keys]
  BY KeySeqType
<1>2. vs \in [1 .. Len(ks) -> Value]
  BY <1>1 DEF ValuesFor, Value
<1>3. Len(vs) = Len(ks)
  BY <1>1, <1>2
<1> QED BY <1>1, <1>2, <1>3 DEF ValSeqs

LEMMA ShapeStep ==
  ASSUME TypeInv, [Next]_vars
  PROVE  CallShape'
<1> SUFFICES ASSUME NEW d \in Clients, phase'[d] = "polling"
             PROVE  /\ call'[d].keys \in KeySeqs
                    /\ call'[d].op \in AllOps
                    /\ call'[d].op = "GetBatch" => Len(call'[d].keys) <= BufCells
  BY DEF CallShape
<1> USE DEF TypeInv
<1>1. CASE phase'[d] = phase[d] /\ call'[d] = call[d]
  BY <1>1 DEF CallShape
<1>2. ASSUME NEW cl \in Clients, NEW c, NEW r, Return(cl, c, r)
      PROVE  phase'[d] = phase[d] /\ call'[d] = call[d]
  BY <1>2 DEF Return, TypeOK
<1>3. ASSUME NEW cl \in Clients, NEW c, Await(cl, c), c.keys \in KeySeqs,
             c.op \in AllOps, c.op = "GetBatch" => Len(c.keys) <= BufCells
      PROVE  \/ phase'[d] = phase[d] /\ call'[d] = call[d]
             \/ call'[d] = c
  BY <1>3 DEF Await, TypeOK
<1>4. ASSUME NEW cl \in Clients, NEW c, NEW wr, Issue(cl, c, wr), c.keys \in KeySeqs,
             c.op \in AllOps \ {"GetBatch"}
      PROVE  \/ phase'[d] = phase[d] /\ call'[d] = call[d]
             \/ call'[d] = c
  BY <1>2, <1>3, <1>4 DEF Issue
<1>5. ASSUME NEW cl \in Clients, Call(cl)
      PROVE  \/ phase'[d] = phase[d] /\ call'[d] = call[d]
             \/ /\ call'[d].keys \in KeySeqs
                /\ call'[d].op \in AllOps
                /\ call'[d].op = "GetBatch" => Len(call'[d].keys) <= BufCells
  <2>1. ASSUME NEW k \in Keys, NEW v, Put(cl, k, v) \/ Write(cl, k, v) \/ Send(cl, k, v) \/ Get(cl, k)
        PROVE  \/ phase'[d] = phase[d] /\ call'[d] = call[d]
               \/ call'[d].keys \in KeySeqs /\ call'[d].op \in AllOps \ {"GetBatch"}
    <3>1. <<k>> \in KeySeqs BY SingleKeyType
    <3>2. ASSUME NEW op \in AllOps \ {"GetBatch"}, NEW vals, NEW wr,
                 Issue(cl, [op |-> op, keys |-> <<k>>, vals |-> vals], wr)
          PROVE  \/ phase'[d] = phase[d] /\ call'[d] = call[d]
                 \/ call'[d].keys \in KeySeqs /\ call'[d].op \in AllOps \ {"GetBatch"}
      <4> DEFINE c == [op |-> op, keys |-> <<k>>, vals |-> vals]
      <4>1. c.keys \in KeySeqs /\ c.op \in AllOps \ {"GetBatch"} BY <3>1
      <4>2. Issue(cl, c, wr) BY <3>2
      <4> HIDE DEF c
      <4> QED BY <4>1, <4>2, <1>4
    <3>3. CASE Put(cl, k, v) BY <3>3, <3>2 DEF Put, AllOps
    <3>4. CASE Write(cl, k, v) BY <3>4, <3>2 DEF Write, AllOps
    <3>5. CASE Send(cl, k, v) BY <3>5, <3>2 DEF Send, AllOps
    <3>6. CASE Get(cl, k) BY <3>6, <3>2 DEF Get, AllOps
    <3> QED BY <2>1, <3>3, <3>4, <3>5, <3>6
  <2>2. ASSUME NEW ks \in KeySeqs, NEW vs, PutBatch(cl, ks, vs)
        PROVE  \/ phase'[d] = phase[d] /\ call'[d] = call[d]
               \/ call'[d].keys \in KeySeqs /\ call'[d].op \in AllOps \ {"GetBatch"}
    <3> DEFINE c == [op |-> "PutBatch", keys |-> ks, vals |-> vs]
    <3>1. Return(cl, c, ErrRet) \/ Await(cl, c)
      BY <2>2 DEF PutBatch
    <3>2. c.keys \in KeySeqs /\ c.op \in AllOps \ {"GetBatch"}
      BY DEF AllOps
    <3> HIDE DEF c
    <3> QED BY <3>1, <3>2, <1>2, <1>3
  <2>3. ASSUME NEW ks \in KeySeqs, GetBatch(cl, ks)
        PROVE  \/ phase'[d] = phase[d] /\ call'[d] = call[d]
               \/ /\ call'[d].keys \in KeySeqs
                  /\ call'[d].op \in AllOps
                  /\ Len(call'[d].keys) <= BufCells
    <3> DEFINE c == [op |-> "GetBatch", keys |-> ks, vals |-> <<>>]
    <3>1. PICK n \in 0 .. Len(ks) :
            /\ \A i \in 1 .. n : CanRead(cl, ks, i)
            /\ (n = Len(ks) /\ Await(cl, c)) \/ Return(cl, c, ErrRet)
      BY <2>3 DEF GetBatch
    <3>2. CASE Return(cl, c, ErrRet) BY <3>2, <1>2
    <3>3. CASE n = Len(ks) /\ Await(cl, c)
      <4>1. Len(ks) \in 1 .. Len(ks) BY KeySeqType
      <4>2. Len(ks) <= BufCells BY <3>1, <3>3, <4>1 DEF CanRead
      <4> QED BY <3>3, <4>2, <1>3 DEF AllOps
    <3> QED BY <3>1, <3>2, <3>3
  <2> QED BY <1>5, <2>1, <2>2, <2>3 DEF Call
<1>6. ASSUME NEW cl \in Clients, NEW s \in Servers, NEW k, Advance(cl, s, k)
      PROVE  phase'[d] = phase[d] /\ call'[d] = call[d]
  BY <1>6, <1>2 DEF Advance
<1>7. ASSUME NEW cl \in Clients, Progress(cl)
      PROVE  phase'[d] = phase[d] /\ call'[d] = call[d]
  <2>1. CASE Close(cl) BY <2>1 DEF Close, TypeOK
  <2>2. ASSUME NEW s \in Servers, Poll(cl, s)
        PROVE  phase'[d] = phase[d] /\ call'[d] = call[d]
    BY <2>2, <1>2, <1>6 DEF Poll, PollEmpty, PollCqe
  <2>3. ASSUME NEW s \in Servers, Nic(cl, s) \/ Fault(cl, s) \/ ServerRepost(cl, s)
        PROVE  phase'[d] = phase[d] /\ call'[d] = call[d]
    BY <2>3 DEF Nic, Fault, NicWrite, NicRead, NicSend, NicComplete, NicFlush,
         NicRetryRead, NicFail, ServerHandlerReturns, ServerRepost, callVars
  <2> QED BY <1>7, <2>1, <2>2, <2>3 DEF Progress
<1>8. CASE UNCHANGED vars
  BY <1>8 DEF vars, callVars, CallShape
<1> QED BY <1>1, <1>5, <1>7, <1>8 DEF Next

LEMMA TypeStep ==
  ASSUME TypeInv, [Next]_vars
  PROVE  TypeOK'
<1> USE DEF TypeInv
<1>1. ASSUME NEW cl \in Clients, Call(cl) PROVE TypeOK'
  <2>1. ASSUME NEW k \in Keys, NEW t \in Tags,
               Put(cl, k, <<k, t>>) \/ Write(cl, k, <<k, t>>) \/ Send(cl, k, <<k, t>>)
        PROVE  TypeOK'
    <3>1. <<k, t>> \in Value BY DEF Value
    <3> QED BY <2>1, <3>1, PutType, WriteType, SendType
  <2>2. ASSUME NEW k \in Keys, Get(cl, k) PROVE TypeOK'
    BY <2>2, GetType
  <2>3. ASSUME NEW ks \in KeySeqs, NEW vs \in ValuesFor(ks), PutBatch(cl, ks, vs)
        PROVE  TypeOK'
    BY <2>3, ValuesForType, PutBatchType
  <2>4. ASSUME NEW ks \in KeySeqs, GetBatch(cl, ks) PROVE TypeOK'
    BY <2>4, GetBatchType
  <2> QED BY <1>1, <2>1, <2>2, <2>3, <2>4 DEF Call
<1>2. ASSUME NEW cl \in Clients, Progress(cl) PROVE TypeOK'
  <2>1. CASE Close(cl) BY <2>1, CloseType
  <2>2. ASSUME NEW s \in Servers, Poll(cl, s) PROVE TypeOK'
    BY <2>2, PollEmptyType, PollCqeType DEF Poll
  <2>3. ASSUME NEW s \in Servers, Nic(cl, s) PROVE TypeOK'
    BY <2>3, NicWriteType, NicReadType, NicSendType, NicCompleteType, NicErrorType DEF Nic
  <2>4. ASSUME NEW s \in Servers, Fault(cl, s) PROVE TypeOK'
    BY <2>4, NicRetryReadType, NicErrorType, ServerType DEF Fault
  <2>5. ASSUME NEW s \in Servers, ServerRepost(cl, s) PROVE TypeOK'
    BY <2>5, ServerType
  <2> QED BY <1>2, <2>1, <2>2, <2>3, <2>4, <2>5 DEF Progress
<1>3. CASE UNCHANGED vars
  BY <1>3 DEF vars, nicVars, callVars, TypeOK
<1> QED BY <1>1, <1>2, <1>3 DEF Next

(* The inductive invariant holds of every behaviour.                       *)
THEOREM TypeInvariant == Spec => []TypeInv
<1>1. Init => TypeInv
  BY InitType DEF Init, CallShape, TypeInv
<1>2. TypeInv /\ [Next]_vars => TypeInv'
  BY TypeStep, ShapeStep DEF TypeInv
<1> QED BY <1>1, <1>2, PTL DEF Spec

(* Every variable keeps to its range, and no queue pair ever holds more    *)
(* WRs than its send queue has slots.                                      *)
THEOREM TypeCorrect == Spec => []TypeOK
<1>1. TypeInv => TypeOK
  BY DEF TypeInv
<1> QED BY <1>1, TypeInvariant, PTL
=============================================================================
