---------------------------- MODULE BenchProofs -----------------------------
(* Theorems about Bench, and about the generator of Workload it uses.      *)
EXTENDS Bench, SetLemmas

-----------------------------------------------------------------------------
(* Shifting a word by a positive number and adding it to itself, bit by    *)
(* bit, loses nothing of it: the end from which it is shifted stays.       *)

LEMMA XorLeft ==
  ASSUME NEW x \in Words, x # {}, NEW n \in Nat \ {0}
  PROVE  Xor(x, Left(x, n)) \in Words \ {{}}
<1>1. x \in SUBSET Nat
  BY WordAssumption DEF Words, Bits
<1>2. PICK m \in x : \A k \in x : m <= k
  BY <1>1, Smallest
<1>3. m \notin Left(x, n)
  <2>1. ASSUME NEW i \in x PROVE m # i + n
    BY <1>1, <1>2
  <2> QED BY <2>1 DEF Left
<1>4. m \in Xor(x, Left(x, n))
  BY <1>3 DEF Xor
<1>5. Xor(x, Left(x, n)) \in Words
  BY DEF Xor, Left, Words
<1> QED BY <1>4, <1>5

LEMMA XorRight ==
  ASSUME NEW x \in Words, x # {}, NEW n \in Nat \ {0}
  PROVE  Xor(x, Right(x, n)) \in Words \ {{}}
<1> DEFINE T == {i + 1 : i \in x}
<1>1. x \in SUBSET Nat
  BY WordAssumption DEF Words, Bits
<1>2. W \in Nat /\ T \in SUBSET (1 .. W) /\ T # {}
  <2>1. W \in Nat
    BY WordAssumption
  <2>2. \A i \in x : i \in 0 .. (W - 1)
    BY DEF Words, Bits
  <2>3. \A i \in x : i + 1 \in 1 .. W
    BY <2>1, <2>2
  <2> QED BY <2>1, <2>3
<1>3. PICK t \in T : \A k \in T : k <= t
  <2> HIDE DEF T
  <2> QED BY <1>2, Greatest
<1>4. PICK m \in x : t = m + 1
  OBVIOUS
<1>5. \A k \in x : k <= m
  <2>1. ASSUME NEW k \in x PROVE k <= m
    <3>1. k + 1 \in T OBVIOUS
    <3> HIDE DEF T
    <3>2. k + 1 <= m + 1 BY <3>1, <1>3, <1>4
    <3> QED BY <3>2, <1>1
  <2> QED BY <2>1
<1>6. m \notin Right(x, n)
  <2>1. ASSUME NEW i \in x PROVE m # i - n
    BY <1>1, <1>5
  <2> QED BY <2>1 DEF Right
<1>7. m \in Xor(x, Right(x, n))
  BY <1>6 DEF Xor
<1>8. Xor(x, Right(x, n)) \in Words
  BY DEF Xor, Right, Words
<1> QED BY <1>7, <1>8

(* No word but 0 is followed by 0, however wide the words and whatever the *)
(* shifts: a generator that was not started at 0 never gets there          *)
(* (loadgen.go:67-74).                                                     *)
THEOREM XorshiftAlive ==
  \A x \in Words \ {{}} : Xorshift[x] \in Words \ {{}}
<1> SUFFICES ASSUME NEW x \in Words, x # {}
             PROVE  Xorshift[x] \in Words \ {{}}
  OBVIOUS
<1> DEFINE y == Xor(x, Left(x, ShiftA))
           z == Xor(y, Right(y, ShiftB))
<1>1. Xorshift[x] = Xor(z, Left(z, ShiftC))
  BY DEF Xorshift
<1>2. y \in Words \ {{}}
  BY XorLeft, ShiftAssumption
<1>3. z \in Words \ {{}}
  <2> HIDE DEF y
  <2> QED BY <1>2, XorRight, ShiftAssumption
<1> HIDE DEF z
<1>4. Xor(z, Left(z, ShiftC)) \in Words \ {{}}
  BY <1>3, XorLeft, ShiftAssumption
<1> QED BY <1>1, <1>4

LEMMA NextStateAlive ==
  ASSUME NEW x \in Words \ {{}}
  PROVE  NextState(x) \in Words \ {{}}
BY XorshiftAlive DEF NextState

LEMMA SeedAlive ==
  ASSUME NEW x \in Words
  PROVE  Seed(x) \in Words \ {{}}
BY WordAssumption DEF Seed, Words, Bits

-----------------------------------------------------------------------------
GenInv == gen \in [Workers -> Words \ {{}}]

(* The generators of a run never reach the word 0.                         *)
THEOREM BenchGenerators == Spec => []GeneratorAlive
<1>1. Init => GenInv
  <2>1. {0} \in Words \ {{}}
    BY WordAssumption DEF Words, Bits
  <2> QED BY <2>1 DEF Init, GenInv
<1>2. GenInv /\ [Next]_vars => GenInv'
  <2> SUFFICES ASSUME GenInv, [Next]_vars PROVE GenInv'
    OBVIOUS
  <2> USE DEF GenInv
  <2>0. {0} \in Words \ {{}}
    BY WordAssumption DEF Words, Bits
  <2>1. CASE TimeIsUp \/ Main \/ UNCHANGED vars
    BY <2>1 DEF TimeIsUp, Main, WaitForWorkers, ReadOps, vars, workVars
  <2>2. ASSUME NEW w \in Workers, Work(w) PROVE GenInv'
    <3>1. CASE Connect(w)
      BY <3>1, SeedAlive DEF Connect
    <3>2. CASE Draw(w)
      <4>1. gen' = [gen EXCEPT ![w] = NextState(gen[w])]
        BY <3>2 DEF Draw
      <4>2. NextState(gen[w]) \in Words \ {{}}
        BY NextStateAlive
      <4> QED BY <4>1, <4>2
    <3>3. CASE LeaveLoop(w)
      BY <3>3, <2>0 DEF LeaveLoop
    <3>4. CASE Create(w) \/ StartBatch(w) \/ Get(w) \/ Put(w) \/ Effect(w) \/ ReturnsNil(w)
                 \/ ReturnsErr(w) \/ BrokenCall(w) \/ SendOps(w) \/ Close(w)
      BY <3>4 DEF Create, StartBatch, Get, Put, Effect, ReturnsNil, ReturnsErr, BrokenCall,
                  SendOps, Close, workVars
    <3> QED BY <2>2, <3>1, <3>2, <3>3, <3>4 DEF Work
  <2> QED BY <2>1, <2>2 DEF Next
<1>3. GenInv => GeneratorAlive
  BY DEF GenInv, GeneratorAlive
<1> QED BY <1>1, <1>2, <1>3, PTL DEF Spec
-----------------------------------------------------------------------------
(* The ledger of a worker: what of its batch has already landed.           *)

PcStates ==
  {"create", "connect", "loop", "draw", "get", "getting", "put", "putting", "send", "close", "done"}

(* The byte offsets a draw may yield, and lists of them.                   *)
AnyKey == {Key(Number[Xorshift[x]]) * RecordBytes : x \in Words \ {{}}}
KeyList == Seq(AnyKey)

InCall == {"get", "getting", "put", "putting"}

BenchTypes ==
  /\ pc \in [Workers -> PcStates]
  /\ gen \in [Workers -> Words \ {{}}]
  /\ readKeys \in [Workers -> KeyList] /\ writeKeys \in [Workers -> KeyList]
  /\ landed \in [Workers -> Nat] /\ localOps \in [Workers -> Nat]
  /\ phase \in [Workers -> {"idle", "busy", "closed", "broken"}]
  /\ DOMAIN op = Workers

(* A batch has its full length when it is carried out, and is gone after.  *)
BatchSized ==
  \A w \in Workers :
    /\ pc[w] \in InCall => Len(readKeys[w]) + Len(writeKeys[w]) = BatchSize
    /\ pc[w] = "draw" => Len(readKeys[w]) + Len(writeKeys[w]) < BatchSize
    /\ pc[w] \notin InCall \cup {"draw"} => readKeys[w] = <<>> /\ writeKeys[w] = <<>>

(* The call under way is the one for this half of the batch.               *)
CallMatches ==
  \A w \in Workers :
    /\ pc[w] = "getting" => op[w].keys = readKeys[w]
    /\ pc[w] = "putting" => op[w].keys = writeKeys[w]

(* While the writes are carried out the reads have landed uncounted.       *)
Uncounted(w) == IF pc[w] \in {"put", "putting"} THEN Len(readKeys[w]) ELSE 0
LandedFirst ==
  \A w \in Workers : phase[w] # "broken" => localOps[w] + Uncounted(w) <= landed[w]

BenchInv == BenchTypes /\ BatchSized /\ CallMatches /\ LandedFirst

LEMMA InitInv == Init => BenchInv
<1> SUFFICES ASSUME Init PROVE BenchInv
  OBVIOUS
<1>1. {0} \in Words \ {{}}
  BY WordAssumption DEF Words, Bits
<1>2. <<>> \in KeyList
  BY DEF KeyList
<1>3. BenchTypes
  BY <1>1, <1>2 DEF Init, BenchTypes, PcStates, Client!Init
<1>4. BatchSized /\ CallMatches /\ LandedFirst
  BY DEF Init, BatchSized, CallMatches, LandedFirst, Uncounted, InCall
<1> QED BY <1>3, <1>4 DEF BenchInv

LEMMA DrawInv ==
  ASSUME BenchInv, NEW w \in Workers, Draw(w)
  PROVE  BenchInv'
<1> USE DEF BenchInv
<1> DEFINE k == NextOp(gen[w], threshold[w]).key * RecordBytes
<1>1. k \in AnyKey
  BY DEF BenchTypes, NextOp, AnyKey
<1>2. gen' \in [Workers -> Words \ {{}}]
  <2>1. gen' = [gen EXCEPT ![w] = NextState(gen[w])]
    BY DEF Draw
  <2>2. NextState(gen[w]) \in Words \ {{}}
    BY NextStateAlive DEF BenchTypes
  <2> QED BY <2>1, <2>2 DEF BenchTypes
<1>3. PICK isRead : /\ readKeys' = [readKeys EXCEPT ![w] = IF isRead THEN Append(@, k) ELSE @]
                    /\ writeKeys' = [writeKeys EXCEPT ![w] = IF isRead THEN @ ELSE Append(@, k)]
  BY DEF Draw
<1> HIDE DEF k
<1>4. readKeys[w] \in KeyList /\ writeKeys[w] \in KeyList
  BY DEF BenchTypes
<1>5. Append(readKeys[w], k) \in KeyList /\ Append(writeKeys[w], k) \in KeyList
  BY <1>1, <1>4 DEF KeyList
<1>6. readKeys' \in [Workers -> KeyList] /\ writeKeys' \in [Workers -> KeyList]
  BY <1>3, <1>5 DEF BenchTypes
<1>7. Len(readKeys'[w]) + Len(writeKeys'[w]) = Len(readKeys[w]) + Len(writeKeys[w]) + 1
  BY <1>1, <1>3, <1>4 DEF BenchTypes, KeyList
<1>8. pc[w] = "draw" /\ Len(readKeys[w]) + Len(writeKeys[w]) < BatchSize
  BY DEF Draw, BatchSized
<1>9. /\ pc' \in [Workers -> PcStates]
      /\ \A v \in Workers \ {w} : pc'[v] = pc[v]
      /\ pc'[w] = IF Len(readKeys[w]) + Len(writeKeys[w]) + 1 < BatchSize THEN "draw"
                  ELSE IF readKeys'[w] # <<>> THEN "get" ELSE "put"
  BY DEF Draw, Goto, BenchTypes, PcStates
<1>10. UNCHANGED <<op, phase, landed, localOps>>
  BY DEF Draw, storeVars
<1>11. BenchTypes'
  BY <1>2, <1>6, <1>9, <1>10 DEF BenchTypes
<1>12. BatchSized'
  <2>1. Len(readKeys[w]) \in Nat /\ Len(writeKeys[w]) \in Nat /\ BatchSize \in Nat
    BY <1>4, BenchAssumption DEF KeyList
  <2>2. \A v \in Workers \ {w} : readKeys'[v] = readKeys[v] /\ writeKeys'[v] = writeKeys[v]
    BY <1>3 DEF BenchTypes
  <2>3. /\ pc'[w] \in InCall => Len(readKeys'[w]) + Len(writeKeys'[w]) = BatchSize
        /\ pc'[w] = "draw" => Len(readKeys'[w]) + Len(writeKeys'[w]) < BatchSize
        /\ pc'[w] \in InCall \cup {"draw"}
    <3>1. CASE Len(readKeys[w]) + Len(writeKeys[w]) + 1 < BatchSize
      BY ONLY <1>7, <1>9, <3>1 DEF InCall
    <3>2. CASE ~(Len(readKeys[w]) + Len(writeKeys[w]) + 1 < BatchSize)
      <4>1. Len(readKeys[w]) + Len(writeKeys[w]) + 1 = BatchSize
        <5>1. \A r, s, n \in Nat : r + s < n /\ ~(r + s + 1 < n) => r + s + 1 = n
          OBVIOUS
        <5> QED BY ONLY <5>1, <1>8, <2>1, <3>2
      <4>2. pc'[w] \in {"get", "put"}
        BY ONLY <1>9, <3>2
      <4> QED BY ONLY <1>7, <4>1, <4>2 DEF InCall
    <3> QED BY <3>1, <3>2
  <2>4. ASSUME NEW v \in Workers, v # w
        PROVE  pc'[v] = pc[v] /\ readKeys'[v] = readKeys[v] /\ writeKeys'[v] = writeKeys[v]
    BY <1>9, <2>2, <2>4
  <2> QED BY <2>3, <2>4 DEF BatchSized
<1>13. CallMatches'
  <2>1. \A v \in Workers \ {w} : readKeys'[v] = readKeys[v] /\ writeKeys'[v] = writeKeys[v]
    BY <1>3 DEF BenchTypes
  <2> QED BY <2>1, <1>9, <1>10 DEF CallMatches
<1>14. LandedFirst'
  <2>1. \A v \in Workers \ {w} : readKeys'[v] = readKeys[v]
    BY <1>3 DEF BenchTypes
  <2>2. pc'[w] = "put" => Len(readKeys'[w]) = 0
    <3>1. pc'[w] = "put" => readKeys'[w] = <<>>
      BY ONLY <1>9
    <3> QED BY <3>1
  <2>3. localOps[w] \in Nat
    BY DEF BenchTypes
  <2>4. phase[w] # "broken" => localOps[w] <= landed[w]
    BY <1>8, <2>3 DEF LandedFirst, Uncounted
  <2>5. phase[w] # "broken" => localOps[w] + Uncounted(w)' <= landed[w]
    <3>1. pc'[w] # "putting"
      BY ONLY <1>9
    <3>2. Uncounted(w)' = 0
      BY <2>2, <3>1 DEF Uncounted
    <3> QED BY <2>3, <2>4, <3>2
  <2>6. \A v \in Workers \ {w} : Uncounted(v)' = Uncounted(v)
    BY <2>1, <1>9 DEF Uncounted
  <2> HIDE DEF Uncounted
  <2> QED BY <2>5, <2>6, <1>10 DEF LandedFirst
<1> QED BY <1>11, <1>12, <1>13, <1>14

(* The steps of a worker between calls, of the network, and of the others. *)
LEMMA QuietInv ==
  ASSUME BenchInv, NEW w \in Workers,
         \/ Create(w) \/ Connect(w) \/ StartBatch(w) \/ LeaveLoop(w) \/ SendOps(w) \/ Close(w)
  PROVE  BenchInv'
<1> USE DEF BenchInv
<1>1. UNCHANGED <<readKeys, writeKeys, landed, localOps>>
  BY DEF Create, Connect, StartBatch, LeaveLoop, SendOps, Close, workVars
<1>2. gen' \in [Workers -> Words \ {{}}]
  <2>1. {0} \in Words \ {{}}
    BY WordAssumption DEF Words, Bits
  <2> QED BY <2>1, SeedAlive DEF BenchTypes, Create, Connect, StartBatch, LeaveLoop, SendOps, Close, workVars
<1>3. \E to \in PcStates \ InCall :
        /\ Goto(w, to)
        /\ pc[w] \notin InCall \cup {"draw"}
        /\ to = "draw" => pc[w] = "loop"
  BY DEF Create, Connect, StartBatch, LeaveLoop, SendOps, Close, PcStates, InCall
<1>4. PICK to \in PcStates \ InCall :
        /\ pc' = [pc EXCEPT ![w] = to]
        /\ pc[w] \notin InCall \cup {"draw"}
  BY <1>3 DEF Goto
<1>5. op' = op /\ phase' \in [Workers -> {"idle", "busy", "closed", "broken"}]
      /\ \A v \in Workers : phase'[v] # "broken" => phase[v] # "broken"
  BY DEF Create, Connect, StartBatch, LeaveLoop, SendOps, Close, storeVars, Client!Leave, BenchTypes
<1>6. BenchTypes'
  BY <1>1, <1>2, <1>4, <1>5 DEF BenchTypes
<1>7. BatchSized'
  <2>1. readKeys[w] = <<>> /\ writeKeys[w] = <<>>
    BY <1>4 DEF BatchSized
  <2>2. BatchSize > 0 /\ BatchSize \in Nat
    BY BenchAssumption
  <2> QED BY <2>1, <2>2, <1>1, <1>4 DEF BatchSized, BenchTypes
<1>8. CallMatches'
  BY <1>1, <1>4, <1>5 DEF CallMatches, BenchTypes, InCall
<1>9. LandedFirst'
  BY <1>1, <1>4, <1>5 DEF LandedFirst, Uncounted, BenchTypes, InCall
<1> QED BY <1>6, <1>7, <1>8, <1>9

LEMMA BeginInv ==
  ASSUME BenchInv, NEW w \in Workers, Get(w) \/ Put(w)
  PROVE  BenchInv'
<1> USE DEF BenchInv
<1>1. UNCHANGED <<gen, readKeys, writeKeys, landed, localOps>>
  BY DEF Get, Put, workVars
<1>2. phase' \in [Workers -> {"idle", "busy", "closed", "broken"}]
      /\ \A v \in Workers : phase'[v] # "broken" => phase[v] # "broken"
  BY DEF Get, Put, CallStore, Client!Begin, BenchTypes
<1>3. CASE Get(w)
  <2>1. pc[w] = "get" /\ pc' = [pc EXCEPT ![w] = "getting"] /\ op' = [op EXCEPT ![w] = GetCall(w)]
    BY <1>3 DEF Get, CallStore, Goto
  <2>2. BenchTypes'
    BY <1>1, <1>2, <2>1 DEF BenchTypes, PcStates
  <2>3. BatchSized'
    BY <1>1, <2>1 DEF BatchSized, BenchTypes, InCall
  <2>4. CallMatches'
    BY <1>1, <2>1 DEF CallMatches, BenchTypes, GetCall
  <2>5. LandedFirst'
    BY <1>1, <1>2, <2>1 DEF LandedFirst, Uncounted, BenchTypes
  <2> QED BY <2>2, <2>3, <2>4, <2>5
<1>4. CASE Put(w)
  <2>1. pc[w] = "put" /\ pc' = [pc EXCEPT ![w] = "putting"] /\ op' = [op EXCEPT ![w] = PutCall(w)]
    BY <1>4 DEF Put, CallStore, Goto
  <2>2. BenchTypes'
    BY <1>1, <1>2, <2>1 DEF BenchTypes, PcStates
  <2>3. BatchSized'
    BY <1>1, <2>1 DEF BatchSized, BenchTypes, InCall
  <2>4. CallMatches'
    BY <1>1, <2>1 DEF CallMatches, BenchTypes, PutCall
  <2>5. LandedFirst'
    BY <1>1, <1>2, <2>1 DEF LandedFirst, Uncounted, BenchTypes
  <2> QED BY <2>2, <2>3, <2>4, <2>5
<1> QED BY <1>3, <1>4

LEMMA EffectInv ==
  ASSUME BenchInv, NEW w \in Workers, Effect(w)
  PROVE  BenchInv'
<1> USE DEF BenchInv
<1>1. UNCHANGED <<pc, gen, readKeys, writeKeys, landed, localOps, phase, op>>
  BY DEF Effect, workVars, Client!ReadEffect, Client!WriteEffect
<1> QED BY <1>1 DEF BenchTypes, BatchSized, CallMatches, LandedFirst, Uncounted

-----------------------------------------------------------------------------
(* The end of a call.                                                      *)

(* What NextBatch does to the parts of the invariant that it disturbs.     *)
LEMMA NextBatchInv ==
  ASSUME BenchInv, NEW w \in Workers, NextBatch(w), DOMAIN op' = Workers,
         \A v \in Workers \ {w} : op'[v] = op[v]
  PROVE  /\ pc' = [pc EXCEPT ![w] = "loop"] /\ pc' \in [Workers -> PcStates]
         /\ readKeys' \in [Workers -> KeyList] /\ writeKeys' \in [Workers -> KeyList]
         /\ \A v \in Workers \ {w} : readKeys'[v] = readKeys[v]
         /\ BatchSized' /\ CallMatches'
<1> USE DEF BenchInv
<1>1. <<>> \in KeyList
  BY DEF KeyList
<1>2. pc' = [pc EXCEPT ![w] = "loop"] /\ pc' \in [Workers -> PcStates]
  BY DEF NextBatch, Goto, BenchTypes, PcStates
<1>3. /\ readKeys' = [readKeys EXCEPT ![w] = <<>>] /\ writeKeys' = [writeKeys EXCEPT ![w] = <<>>]
      /\ readKeys' \in [Workers -> KeyList] /\ writeKeys' \in [Workers -> KeyList]
  BY <1>1 DEF NextBatch, BenchTypes
<1>4. BatchSized'
  BY <1>2, <1>3 DEF BatchSized, BenchTypes, InCall
<1>5. CallMatches'
  BY <1>2, <1>3 DEF CallMatches, BenchTypes
<1> QED BY <1>2, <1>3, <1>4, <1>5 DEF BenchTypes

LEMMA FailedInv ==
  ASSUME BenchInv, NEW w \in Workers, Failed(w), UNCHANGED <<gen, landed>>,
         DOMAIN op' = Workers, \A v \in Workers \ {w} : op'[v] = op[v],
         phase' \in [Workers -> {"idle", "busy", "closed", "broken"}],
         \A v \in Workers : phase'[v] # "broken" => phase[v] # "broken"
  PROVE  BenchInv'
<1> USE DEF BenchInv
<1>1. NextBatch(w) /\ UNCHANGED localOps
  BY DEF Failed
<1>2. BatchSized' /\ CallMatches'
  BY <1>1, NextBatchInv
<1>3. BenchTypes'
  BY <1>1, NextBatchInv DEF BenchTypes
<1>4. LandedFirst'
  <2>1. /\ pc' = [pc EXCEPT ![w] = "loop"]
        /\ \A v \in Workers \ {w} : readKeys'[v] = readKeys[v]
    BY <1>1, NextBatchInv
  <2>2. \A v \in Workers : Uncounted(v)' \in Nat /\ Uncounted(v)' <= Uncounted(v)
    BY <2>1 DEF Uncounted, BenchTypes, KeyList
  <2>3. \A v \in Workers : Uncounted(v) \in Nat /\ localOps[v] \in Nat /\ landed[v] \in Nat
    BY DEF Uncounted, BenchTypes, KeyList
  <2> HIDE DEF Uncounted
  <2> QED BY <2>2, <2>3, <1>1 DEF LandedFirst
<1> QED BY <1>2, <1>3, <1>4

(* A call over which the client broke: nothing is claimed of this worker.  *)
LEMMA AfterCallInv ==
  ASSUME BenchInv, NEW w \in Workers, pc[w] \in InCall, AfterCall(w), UNCHANGED gen,
         DOMAIN op' = Workers, \A v \in Workers \ {w} : op'[v] = op[v],
         phase' \in [Workers -> {"idle", "busy", "closed", "broken"}],
         \A v \in Workers : phase'[v] # "broken" => phase[v] # "broken",
         landed' \in [Workers -> Nat],
         \A v \in Workers \ {w} : landed'[v] = landed[v],
         phase'[w] # "broken" =>
           landed'[w] = landed[w] + IF pc[w] \in {"get", "getting"} THEN Len(readKeys[w])
                                    ELSE Len(writeKeys[w])
  PROVE  BenchInv'
<1> USE DEF BenchInv
<1>n. /\ Len(readKeys[w]) \in Nat /\ Len(writeKeys[w]) \in Nat /\ BatchSize \in Nat
      /\ Len(readKeys[w]) + Len(writeKeys[w]) = BatchSize
      /\ localOps[w] \in Nat /\ landed[w] \in Nat /\ landed'[w] \in Nat
  BY BenchAssumption DEF BatchSized, BenchTypes, KeyList
<1>1. CASE pc[w] \in {"get", "getting"} /\ writeKeys[w] # <<>>
  <2>1. pc' = [pc EXCEPT ![w] = "put"] /\ UNCHANGED <<readKeys, writeKeys, localOps>>
    BY <1>1 DEF AfterCall, Goto
  <2>2. BenchTypes'
    BY <2>1 DEF BenchTypes, PcStates
  <2>3. BatchSized'
    BY <2>1, <1>n DEF BatchSized, BenchTypes, InCall
  <2>4. CallMatches'
    BY <2>1 DEF CallMatches, BenchTypes
  <2>5. LandedFirst'
    <3>1. phase'[w] # "broken" => localOps[w] + Len(readKeys[w]) <= landed'[w]
      BY <1>1, <1>n DEF LandedFirst, Uncounted
    <3> QED BY <2>1, <3>1 DEF LandedFirst, Uncounted, BenchTypes
  <2> QED BY <2>2, <2>3, <2>4, <2>5
<1>2. CASE ~(pc[w] \in {"get", "getting"} /\ writeKeys[w] # <<>>)
  <2>1. NextBatch(w) /\ localOps' = [localOps EXCEPT ![w] = @ + BatchSize]
    BY <1>2 DEF AfterCall, Count
  <2>2. /\ pc' = [pc EXCEPT ![w] = "loop"] /\ pc' \in [Workers -> PcStates]
        /\ readKeys' \in [Workers -> KeyList] /\ writeKeys' \in [Workers -> KeyList]
        /\ \A v \in Workers \ {w} : readKeys'[v] = readKeys[v]
        /\ BatchSized' /\ CallMatches'
    BY <2>1, NextBatchInv
  <2>3. BenchTypes'
    <3>1. localOps' \in [Workers -> Nat]
      BY <2>1, <1>n DEF BenchTypes
    <3> QED BY <2>2, <3>1 DEF BenchTypes
  <2>4. LandedFirst'
    <3>1. CASE pc[w] \in {"get", "getting"}
      <4>1. Len(writeKeys[w]) = 0
        BY <1>2, <3>1
      <4>2. phase'[w] # "broken" => localOps[w] + BatchSize <= landed'[w]
        BY <3>1, <4>1, <1>n DEF LandedFirst, Uncounted
      <4> QED BY <4>2, <2>1, <2>2, <1>n DEF LandedFirst, Uncounted, BenchTypes
    <3>2. CASE pc[w] \in {"put", "putting"}
      <4>1. phase'[w] # "broken" => localOps[w] + Len(readKeys[w]) <= landed[w]
        BY <3>2 DEF LandedFirst, Uncounted
      <4>2. phase'[w] # "broken" => landed'[w] = landed[w] + Len(writeKeys[w])
        BY <3>2
      <4>3. phase'[w] # "broken" => localOps[w] + BatchSize <= landed'[w]
        <5> SUFFICES ASSUME phase'[w] # "broken" PROVE localOps[w] + BatchSize <= landed'[w]
          OBVIOUS
        <5>2. localOps[w] + Len(readKeys[w]) <= landed[w]
          BY <4>1
        <5>3. landed'[w] = landed[w] + Len(writeKeys[w])
          BY <4>2
        <5> DEFINE r == Len(readKeys[w])
                   s == Len(writeKeys[w])
                   l == localOps[w]
                   a == landed[w]
                   b == landed'[w]
        <5>4. r \in Nat /\ s \in Nat /\ l \in Nat /\ a \in Nat /\ r + s = BatchSize
          BY <1>n
        <5>5. l + r <= a /\ b = a + s
          BY <5>2, <5>3
        <5> HIDE DEF r, s, l, a, b
        <5>6. l + BatchSize <= b
          BY ONLY <5>4, <5>5
        <5> QED BY <5>6 DEF l, b
      <4> QED BY <4>3, <2>1, <2>2, <1>n DEF LandedFirst, Uncounted, BenchTypes
    <3> QED BY <3>1, <3>2 DEF InCall
  <2> QED BY <2>2, <2>3, <2>4
<1> QED BY <1>1, <1>2

LEMMA ReturnInv ==
  ASSUME BenchInv, NEW w \in Workers, ReturnsNil(w) \/ ReturnsErr(w) \/ BrokenCall(w)
  PROVE  BenchInv'
<1> USE DEF BenchInv
<1>1. CASE ReturnsNil(w)
  <2>1. /\ DOMAIN op' = Workers /\ \A v \in Workers \ {w} : op'[v] = op[v]
        /\ phase' \in [Workers -> {"idle", "busy", "closed", "broken"}]
        /\ \A v \in Workers : phase'[v] # "broken" => phase[v] # "broken"
    BY <1>1 DEF ReturnsNil, Client!ReturnOk, Client!Quiet, BenchTypes
  <2>2. op[w].keys = IF pc[w] = "getting" THEN readKeys[w] ELSE writeKeys[w]
    BY <1>1 DEF ReturnsNil, CallMatches
  <2>3. Len(op[w].keys) \in Nat
    BY <2>2 DEF BenchTypes, KeyList
  <2>4. /\ landed' = [landed EXCEPT ![w] = @ + Len(op[w].keys)]
        /\ landed' \in [Workers -> Nat]
    BY <1>1, <2>3 DEF ReturnsNil, BenchTypes
  <2>5. pc[w] \in {"getting", "putting"} /\ AfterCall(w) /\ UNCHANGED gen
    BY <1>1 DEF ReturnsNil
  <2>6. landed'[w] = landed[w] + IF pc[w] \in {"get", "getting"} THEN Len(readKeys[w])
                                 ELSE Len(writeKeys[w])
    BY <2>2, <2>4, <2>5 DEF BenchTypes
  <2>7. pc[w] \in InCall
    BY <2>5 DEF InCall
  <2>8. \A v \in Workers \ {w} : landed'[v] = landed[v]
    BY <2>4 DEF BenchTypes
  <2> QED BY <2>1, <2>4, <2>5, <2>6, <2>7, <2>8, AfterCallInv
<1>2. CASE ReturnsErr(w)
  <2>1. /\ DOMAIN op' = Workers /\ \A v \in Workers \ {w} : op'[v] = op[v]
        /\ phase' \in [Workers -> {"idle", "busy", "closed", "broken"}]
        /\ \A v \in Workers : phase'[v] # "broken" => phase[v] # "broken"
    BY <1>2 DEF ReturnsErr, Client!ReturnErr, Client!Break, Client!Quiet, BenchTypes
  <2> QED BY <1>2, <2>1, FailedInv DEF ReturnsErr
<1>3. CASE BrokenCall(w)
  <2>1. /\ DOMAIN op' = Workers /\ \A v \in Workers \ {w} : op'[v] = op[v]
        /\ phase' \in [Workers -> {"idle", "busy", "closed", "broken"}]
        /\ phase' = phase /\ phase[w] = "broken"
        /\ landed' = landed /\ landed' \in [Workers -> Nat]
        /\ UNCHANGED gen
    BY <1>3 DEF BrokenCall, storeVars, BenchTypes
  <2>2. pc[w] \in InCall
    BY <1>3 DEF BrokenCall, InCall
  <2>3. CASE Failed(w)
    BY <2>1, <2>3, FailedInv
  <2>4. CASE AfterCall(w)
    BY <2>1, <2>2, <2>4, AfterCallInv
  <2> QED BY <1>3, <2>3, <2>4 DEF BrokenCall
<1> QED BY <1>1, <1>2, <1>3

LEMMA MainInv ==
  ASSUME BenchInv, TimeIsUp \/ Main \/ UNCHANGED vars
  PROVE  BenchInv'
<1> USE DEF BenchInv
<1>1. UNCHANGED <<pc, gen, readKeys, writeKeys, landed, localOps, phase, op>>
  BY DEF TimeIsUp, Main, WaitForWorkers, ReadOps, vars, workVars, storeVars
<1> QED BY <1>1 DEF BenchTypes, BatchSized, CallMatches, LandedFirst, Uncounted

LEMMA BenchInvariant == Spec => []BenchInv
<1>1. Init => BenchInv
  BY InitInv
<1>2. BenchInv /\ [Next]_vars => BenchInv'
  BY MainInv, QuietInv, DrawInv, BeginInv, EffectInv, ReturnInv DEF Next, Work
<1> QED BY <1>1, <1>2, PTL DEF Spec

(* A worker counts a batch only after every operation of it took effect,   *)
(* whatever fails in between: the count never runs ahead of the store      *)
(* (rdma_cli/main.go:147-168).                                             *)
THEOREM BenchCounts == Spec => []CountedTookEffect
<1>1. BenchInv => CountedTookEffect
  <2> SUFFICES ASSUME BenchInv, NEW w \in Workers, phase[w] # "broken"
               PROVE  localOps[w] <= landed[w]
    BY DEF CountedTookEffect
  <2>1. Uncounted(w) \in Nat /\ localOps[w] \in Nat /\ landed[w] \in Nat
    BY DEF BenchInv, BenchTypes, Uncounted, KeyList
  <2>2. localOps[w] + Uncounted(w) <= landed[w]
    BY DEF BenchInv, LandedFirst
  <2> QED BY <2>1, <2>2
<1> QED BY <1>1, BenchInvariant, PTL

-----------------------------------------------------------------------------
(* The ledger of the counts.  A worker is past its loop once it sent its   *)
(* count, and one that never came to the loop has none to send.            *)
SentOps == [w \in Workers |-> IF pc[w] \in {"close", "done"} THEN localOps[w] ELSE 0]

CountsTyped ==
  /\ pc \in [Workers -> PcStates] /\ localOps \in [Workers -> Nat]
  /\ opsCh \in Seq(Int) /\ totalOps \in Int

CountsLedger ==
  /\ totalOps + SumFunction(opsCh) = SumFunction(SentOps)
  /\ \A w \in Workers : pc[w] \in {"create", "connect"} => localOps[w] = 0
  /\ main # "wait" => \A w \in Workers : pc[w] = "done"
  /\ main = "printed" => opsCh = <<>>

CountsInv == CountsTyped /\ CountsLedger

LEMMA SentSum ==
  ASSUME CountsTyped
  PROVE  /\ SumFunction(SentOps) = SumFunctionOnSet(SentOps, Workers)
         /\ \A w \in Workers : SentOps[w] \in Int
BY DEF CountsTyped, SentOps, SumFunction

LEMMA CountsInit == Init => CountsInv
<1> SUFFICES ASSUME Init PROVE CountsInv
  OBVIOUS
<1>1. CountsTyped
  BY DEF Init, CountsTyped, PcStates
<1>2. \A w \in Workers : SentOps[w] = 0
  BY DEF Init, SentOps
<1>3. SumFunctionOnSet(SentOps, Workers) = 0
  BY <1>2, SumZero, WorkersAssumption
<1>4. SumFunction(opsCh) = 0
  BY SumEmpty DEF Init, SumFunction
<1>5. totalOps = 0 /\ main = "wait" /\ \A w \in Workers : localOps[w] = 0
  BY DEF Init
<1>6. CountsLedger
  BY <1>1, <1>3, <1>4, <1>5, SentSum DEF CountsLedger
<1> QED BY <1>1, <1>6 DEF CountsInv

(* The steps that send and receive nothing: a worker before its end moves  *)
(* on, or gives up before it counted anything, or closes.                  *)
LEMMA CountsKept ==
  ASSUME CountsInv, CountsTyped', UNCHANGED <<opsCh, totalOps>>,
         \A w \in Workers : SentOps'[w] = SentOps[w],
         \A w \in Workers : pc'[w] \in {"create", "connect"} => localOps'[w] = 0,
         main' # "wait" => \A w \in Workers : pc'[w] = "done",
         main' = "printed" => opsCh = <<>>
  PROVE  CountsInv'
<1>1. SumFunctionOnSet(SentOps', Workers) = SumFunctionOnSet(SentOps, Workers)
  <2>1. PICK f, g : f = SentOps' /\ g = SentOps
    OBVIOUS
  <2>2. \A w \in Workers : f[w] = g[w]
    BY <2>1
  <2> QED BY <2>1, <2>2, SumSame, WorkersAssumption
<1>2. SumFunction(SentOps)' = SumFunctionOnSet(SentOps', Workers)
  BY DEF SentOps, SumFunction
<1>3. SumFunction(SentOps)' = SumFunction(SentOps)
  BY <1>1, <1>2, SentSum DEF CountsInv
<1> QED BY <1>3 DEF CountsInv, CountsLedger

LEMMA WorkerCounts ==
  ASSUME CountsInv, NEW w \in Workers, Work(w), ~SendOps(w)
  PROVE  CountsInv'
<1>1. UNCHANGED <<opsCh, main, totalOps>>
  BY DEF Work, Create, Connect, StartBatch, Draw, Get, Put, Effect, ReturnsNil, ReturnsErr,
         BrokenCall, LeaveLoop, Close, mainVars
<1>2. PICK to \in PcStates :
        /\ pc' = [pc EXCEPT ![w] = to]
        /\ to \in {"close", "done"} => pc[w] \in {"create", "connect", "close"}
        /\ to = "connect" => pc[w] = "create"
        /\ to # "create" /\ pc[w] # "done"
        /\ pc[w] = "close" => to = "done"
  <2> DEFINE Moves(to) ==
        /\ pc' = [pc EXCEPT ![w] = to]
        /\ to \in {"close", "done"} => pc[w] \in {"create", "connect", "close"}
        /\ to = "connect" => pc[w] = "create"
        /\ to # "create" /\ pc[w] # "done"
        /\ pc[w] = "close" => to = "done"
  <2>1. CASE Create(w) \/ Connect(w) \/ StartBatch(w) \/ Draw(w) \/ Get(w) \/ Put(w) \/ LeaveLoop(w)
             \/ Close(w)
    BY <2>1 DEF Create, Connect, StartBatch, Draw, Get, Put, CallStore, LeaveLoop, Close, Goto, PcStates
  <2>2. CASE Effect(w)
    <3>1. pc' = [pc EXCEPT ![w] = pc[w]] /\ pc[w] \in {"getting", "putting"}
      BY <2>2 DEF Effect, CountsInv, CountsTyped
    <3> QED BY <3>1 DEF PcStates
  <2>3. CASE ReturnsNil(w) \/ ReturnsErr(w) \/ BrokenCall(w)
    <3>1. pc[w] \in {"get", "getting", "put", "putting"}
      BY <2>3 DEF ReturnsNil, ReturnsErr, BrokenCall
    <3>2. Goto(w, "put") \/ Goto(w, "loop")
      BY <2>3 DEF ReturnsNil, ReturnsErr, BrokenCall, AfterCall, Failed, Count, NextBatch
    <3> QED BY <3>1, <3>2 DEF Goto, PcStates
  <2> QED BY <2>1, <2>2, <2>3 DEF Work
<1>3. /\ localOps' \in [Workers -> Nat]
      /\ \A v \in Workers : v # w => localOps'[v] = localOps[v]
      /\ pc[w] \in {"create", "connect", "close"} => localOps' = localOps
  <2>1. CASE Create(w) \/ Connect(w) \/ StartBatch(w) \/ Draw(w) \/ Get(w) \/ Put(w) \/ LeaveLoop(w)
             \/ Close(w) \/ Effect(w)
    BY <2>1 DEF Create, Connect, StartBatch, Draw, Get, Put, LeaveLoop, Close, Effect, workVars,
                CountsInv, CountsTyped
  <2>2. CASE ReturnsNil(w) \/ ReturnsErr(w) \/ BrokenCall(w)
    <3>1. pc[w] \in {"get", "getting", "put", "putting"}
      BY <2>2 DEF ReturnsNil, ReturnsErr, BrokenCall
    <3>2. localOps' = localOps \/ localOps' = [localOps EXCEPT ![w] = @ + BatchSize]
      BY <2>2 DEF ReturnsNil, ReturnsErr, BrokenCall, AfterCall, Failed, Count
    <3>3. BatchSize \in Nat
      BY BenchAssumption
    <3>4. localOps \in [Workers -> Nat]
      BY DEF CountsInv, CountsTyped
    <3>5. localOps[w] + BatchSize \in Nat
      BY <3>3, <3>4
    <3> QED BY ONLY <3>1, <3>2, <3>4, <3>5, w \in Workers
  <2> QED BY <2>1, <2>2 DEF Work
<1>4. CountsTyped'
  BY <1>1, <1>2, <1>3 DEF CountsInv, CountsTyped
<1>5. ASSUME NEW v \in Workers PROVE SentOps'[v] = SentOps[v]
  <2>1. CASE v # w
    BY <2>1, <1>2, <1>3 DEF SentOps, CountsInv, CountsTyped
  <2>2. CASE v = w
    <3>1. pc'[w] = to
      BY <1>2 DEF CountsInv, CountsTyped
    <3>2. CASE to \in {"close", "done"}
      <4>1. localOps'[w] = localOps[w]
        BY <3>2, <1>2, <1>3
      <4>2. pc[w] \in {"create", "connect"} => localOps[w] = 0
        BY DEF CountsInv, CountsLedger
      <4> QED BY <2>2, <3>1, <3>2, <4>1, <4>2, <1>2 DEF SentOps
    <3>3. CASE to \notin {"close", "done"}
      <4>1. pc[w] \notin {"close", "done"}
        BY <3>3, <1>2
      <4> QED BY <2>2, <3>1, <3>3, <4>1 DEF SentOps
    <3> QED BY <3>2, <3>3
  <2> QED BY <2>1, <2>2
<1>6. ASSUME NEW v \in Workers, pc'[v] \in {"create", "connect"} PROVE localOps'[v] = 0
  <2>1. CASE v # w
    BY <2>1, <1>2, <1>3, <1>6 DEF CountsInv, CountsTyped, CountsLedger
  <2>2. CASE v = w
    <3>1. pc[w] = "create"
      BY <2>2, <1>2, <1>6 DEF CountsInv, CountsTyped
    <3> QED BY <2>2, <3>1, <1>3 DEF CountsInv, CountsLedger
  <2> QED BY <2>1, <2>2
<1>7. main' = "wait"
  BY <1>1, <1>2 DEF CountsInv, CountsLedger
<1> QED BY <1>1, <1>4, <1>5, <1>6, <1>7, CountsKept

LEMMA SendCounts ==
  ASSUME CountsInv, NEW w \in Workers, SendOps(w)
  PROVE  CountsInv'
<1>1. /\ pc[w] = "send" /\ pc' = [pc EXCEPT ![w] = "close"]
      /\ opsCh' = Append(opsCh, localOps[w])
      /\ UNCHANGED <<localOps, main, totalOps>>
  BY DEF SendOps, Goto, workVars
<1>2. localOps[w] \in Nat /\ opsCh \in Seq(Int) /\ totalOps \in Int
  BY DEF CountsInv, CountsTyped
<1>3. CountsTyped'
  BY <1>1, <1>2 DEF CountsInv, CountsTyped, PcStates
<1>4. SumFunction(opsCh)' = SumFunction(opsCh) + localOps[w]
  BY <1>1, <1>2, SumAppend
<1>5. SumFunctionOnSet(SentOps', Workers) = SumFunctionOnSet(SentOps, Workers) + localOps[w]
  <2>1. SentOps[w] = 0 /\ SentOps'[w] = localOps[w]
    BY <1>1 DEF SentOps, CountsInv, CountsTyped
  <2>2. \A v \in Workers \ {w} : SentOps'[v] = SentOps[v]
    BY <1>1 DEF SentOps, CountsInv, CountsTyped
  <2>3. \A v \in Workers : SentOps[v] \in Int
    BY SentSum DEF CountsInv
  <2>4. PICK f, g : f = SentOps /\ g = SentOps'
    OBVIOUS
  <2>5. /\ \A v \in Workers : f[v] \in Int
        /\ g[w] \in Int /\ \A v \in Workers \ {w} : g[v] = f[v]
    BY <1>2, <2>1, <2>2, <2>3, <2>4
  <2>6. SumFunctionOnSet(g, Workers) = SumFunctionOnSet(f, Workers) - f[w] + g[w]
    BY <2>5, SumChange, WorkersAssumption
  <2>7. SumFunctionOnSet(f, Workers) \in Int
    BY <2>5, SumInt, WorkersAssumption
  <2> QED BY <1>2, <2>1, <2>4, <2>6, <2>7
<1>6. /\ SumFunction(SentOps)' = SumFunctionOnSet(SentOps', Workers)
      /\ SumFunction(SentOps) = SumFunctionOnSet(SentOps, Workers)
  BY DEF SentOps, SumFunction
<1>7. SumFunction(opsCh) \in Int /\ SumFunction(SentOps) \in Int
  <2>1. SumFunction(SentOps) \in Int
    BY <1>6, SentSum, SumInt, WorkersAssumption DEF CountsInv
  <2> QED BY <2>1, <1>2, SumSeqInt
<1>8. totalOps' + SumFunction(opsCh)' = SumFunction(SentOps)'
  BY <1>1, <1>2, <1>4, <1>5, <1>6, <1>7 DEF CountsInv, CountsLedger
<1>9. main' = "wait"
  BY <1>1 DEF CountsInv, CountsLedger
<1>10. \A v \in Workers : pc'[v] \in {"create", "connect"} => localOps'[v] = 0
  BY <1>1 DEF CountsInv, CountsTyped, CountsLedger
<1> QED BY <1>3, <1>8, <1>9, <1>10 DEF CountsInv, CountsLedger

LEMMA MainCounts ==
  ASSUME CountsInv, TimeIsUp \/ Main \/ UNCHANGED vars
  PROVE  CountsInv'
<1>1. UNCHANGED <<pc, localOps>>
  BY DEF TimeIsUp, Main, WaitForWorkers, ReadOps, workVars, vars
<1>2. \A w \in Workers : SentOps'[w] = SentOps[w]
  BY <1>1 DEF SentOps
<1>3. CASE UNCHANGED <<opsCh, totalOps>> /\ (main' = main \/ WaitForWorkers \/ (opsCh = <<>> /\ main = "drain"))
  <2>1. CountsTyped'
    BY <1>1, <1>3 DEF CountsInv, CountsTyped
  <2>2. main' # "wait" => \A w \in Workers : pc'[w] = "done"
    BY <1>1, <1>3 DEF CountsInv, CountsLedger, WaitForWorkers
  <2>3. main' = "printed" => opsCh = <<>>
    BY <1>3 DEF CountsInv, CountsLedger, WaitForWorkers
  <2>4. \A w \in Workers : pc'[w] \in {"create", "connect"} => localOps'[w] = 0
    BY <1>1 DEF CountsInv, CountsLedger
  <2> QED BY <1>2, <1>3, <2>1, <2>2, <2>3, <2>4, CountsKept
<1>4. CASE /\ main = "drain" /\ main' = main /\ opsCh # <<>>
           /\ totalOps' = totalOps + Head(opsCh) /\ opsCh' = Tail(opsCh)
  <2>1. opsCh \in Seq(Int) /\ totalOps \in Int /\ Head(opsCh) \in Int /\ Tail(opsCh) \in Seq(Int)
    BY <1>4 DEF CountsInv, CountsTyped
  <2>2. SumFunction(opsCh) = Head(opsCh) + SumFunction(Tail(opsCh))
    BY <2>1, <1>4, SumTail
  <2>3. SumFunction(Tail(opsCh)) \in Int
    BY <2>1, SumSeqInt
  <2>4. SumFunction(SentOps)' = SumFunction(SentOps)
    <3>1. SentOps' = SentOps
      BY <1>1 DEF SentOps
    <3> QED BY <3>1
  <2>5. totalOps' + SumFunction(opsCh)' = SumFunction(SentOps)'
    BY <1>4, <2>1, <2>2, <2>3, <2>4 DEF CountsInv, CountsLedger
  <2>6. CountsTyped'
    BY <1>1, <1>4, <2>1 DEF CountsInv, CountsTyped
  <2> QED BY <1>1, <1>4, <2>5, <2>6 DEF CountsInv, CountsLedger
<1> QED BY <1>3, <1>4 DEF TimeIsUp, Main, WaitForWorkers, ReadOps, Drain, mainVars, vars

(* However the workers fail and end, the total that is printed is the sum  *)
(* of what they counted: none is missed and none read twice                *)
(* (rdma_cli/main.go:98-110, 171-195).                                     *)
THEOREM BenchTotals == Spec => []TotalIsAll
<1>1. Init => CountsInv
  BY CountsInit
<1>2. CountsInv /\ [Next]_vars => CountsInv'
  BY WorkerCounts, SendCounts, MainCounts DEF Next
<1>3. CountsInv => TotalIsAll
  <2> SUFFICES ASSUME CountsInv, main = "printed" PROVE totalOps = SumFunction(localOps)
    BY DEF TotalIsAll
  <2>1. opsCh = <<>> /\ \A w \in Workers : pc[w] = "done"
    BY DEF CountsInv, CountsLedger
  <2>2. SumFunction(opsCh) = 0
    BY <2>1, SumEmpty DEF SumFunction
  <2>3. SentOps = localOps
    BY <2>1 DEF SentOps, CountsInv, CountsTyped
  <2> QED BY <2>2, <2>3 DEF CountsInv, CountsTyped, CountsLedger
<1> QED BY <1>1, <1>2, <1>3, PTL DEF Spec

-----------------------------------------------------------------------------
(* Powers.  That the recursive function exists is shown from its beginning *)
(* pieces, each of which extends the one before.                           *)
IsPowers(g, b, D) == g = [k \in D |-> IF k = 0 THEN 1 ELSE b * g[k - 1]]
Piece(b, n) == CHOOSE g : IsPowers(g, b, 0 .. n)
Powers(b) == CHOOSE g : IsPowers(g, b, Nat)

LEMMA PowersValue ==
  ASSUME NEW g, NEW b, NEW D, IsPowers(g, b, D), NEW k \in D
  PROVE  g[k] = IF k = 0 THEN 1 ELSE b * g[k - 1]
<1> DEFINE h == [i \in D |-> IF i = 0 THEN 1 ELSE b * g[i - 1]]
<1>1. g = h BY DEF IsPowers
<1>2. h[k] = IF k = 0 THEN 1 ELSE b * g[k - 1] OBVIOUS
<1> HIDE DEF h
<1> QED BY <1>1, <1>2

LEMMA PieceExists ==
  ASSUME NEW b, NEW n \in Nat
  PROVE  IsPowers(Piece(b, n), b, 0 .. n)
<1> DEFINE Bad == {i \in Nat : ~\E g : IsPowers(g, b, 0 .. i)}
<1> SUFFICES ASSUME Bad # {} PROVE FALSE
  BY DEF Piece
<1>1. PICK m \in Bad : \A i \in Bad : m <= i
  <2>1. Bad \in SUBSET Nat OBVIOUS
  <2> HIDE DEF Bad
  <2> QED BY <2>1, Smallest
<1>2. m \in Nat /\ ~\E g : IsPowers(g, b, 0 .. m)
  OBVIOUS
<1>3. m # 0
  <2>1. ASSUME m = 0 PROVE FALSE
    <3> DEFINE g == [k \in 0 .. 0 |-> 1]
    <3>1. g = [k \in 0 .. 0 |-> IF k = 0 THEN 1 ELSE b * g[k - 1]]
      <4>1. \A k \in 0 .. 0 : k = 0
        OBVIOUS
      <4> QED BY <4>1
    <3> HIDE DEF g
    <3>2. IsPowers(g, b, 0 .. 0)
      BY <3>1 DEF IsPowers
    <3> QED BY <1>2, <2>1, <3>2
  <2> QED BY <2>1
<1>4. m - 1 \in Nat /\ m - 1 \notin Bad
  <2>1. m - 1 \in Nat /\ ~(m <= m - 1) BY <1>2, <1>3
  <2> HIDE DEF Bad
  <2> QED BY <1>1, <2>1
<1>5. PICK g : IsPowers(g, b, 0 .. (m - 1))
  BY <1>4
<1> DEFINE h == [k \in 0 .. m |-> IF k = m THEN b * g[m - 1] ELSE g[k]]
<1>6. ASSUME NEW k \in 0 .. m
      PROVE  h[k] = IF k = 0 THEN 1 ELSE b * h[k - 1]
  <2>1. CASE k = m
    BY <1>2, <1>3, <2>1
  <2>2. CASE k # m
    <3>1. k \in 0 .. (m - 1) /\ (k # 0 => k - 1 \in 0 .. m /\ k - 1 # m)
      BY <1>2, <2>2
    <3>2. g[k] = IF k = 0 THEN 1 ELSE b * g[k - 1]
      BY <1>5, <3>1, PowersValue
    <3> QED BY <2>2, <3>1, <3>2
  <2> QED BY <2>1, <2>2
<1>7. h = [k \in 0 .. m |-> h[k]]
  OBVIOUS
<1> HIDE DEF h
<1>8. IsPowers(h, b, 0 .. m)
  BY <1>6, <1>7 DEF IsPowers
<1> QED BY <1>2, <1>8

LEMMA PiecesAgree ==
  ASSUME NEW b, NEW n \in Nat
  PROVE  \A k \in 0 .. n : Piece(b, n)[k] = Piece(b, n + 1)[k]
<1> DEFINE g == Piece(b, n)
           h == Piece(b, n + 1)
           Bad == {k \in 0 .. n : g[k] # h[k]}
<1>0. IsPowers(g, b, 0 .. n) /\ IsPowers(h, b, 0 .. (n + 1))
  BY PieceExists
<1> HIDE DEF g, h
<1> SUFFICES ASSUME Bad # {} PROVE FALSE
  BY DEF g, h
<1>1. PICK m \in Bad : \A i \in Bad : m <= i
  <2>1. Bad \in SUBSET Nat OBVIOUS
  <2> HIDE DEF Bad
  <2> QED BY <2>1, Smallest
<1>2. m \in 0 .. n /\ m \in 0 .. (n + 1) /\ g[m] # h[m]
  OBVIOUS
<1>3. /\ g[m] = IF m = 0 THEN 1 ELSE b * g[m - 1]
      /\ h[m] = IF m = 0 THEN 1 ELSE b * h[m - 1]
  BY <1>0, <1>2, PowersValue
<1>4. m # 0 /\ m - 1 \in 0 .. n /\ g[m - 1] # h[m - 1]
  BY <1>2, <1>3
<1>5. m - 1 \in Bad /\ ~(m <= m - 1)
  BY <1>4
<1> HIDE DEF Bad
<1> QED BY <1>1, <1>5

LEMMA PowersExist ==
  ASSUME NEW b
  PROVE  IsPowers(Powers(b), b, Nat)
<1> DEFINE G == [n \in Nat |-> Piece(b, n)[n]]
<1>1. ASSUME NEW n \in Nat PROVE G[n] = IF n = 0 THEN 1 ELSE b * G[n - 1]
  <2>1. Piece(b, n)[n] = IF n = 0 THEN 1 ELSE b * Piece(b, n)[n - 1]
    BY PieceExists, PowersValue
  <2>2. CASE n = 0
    BY <2>1, <2>2
  <2>3. CASE n # 0
    <3>1. PICK m \in Nat : n = m + 1
      BY <2>3
    <3>2. m \in 0 .. m /\ n - 1 = m
      BY <3>1
    <3>3. Piece(b, m)[m] = Piece(b, n)[m]
      BY <3>1, <3>2, PiecesAgree
    <3> QED BY <2>1, <2>3, <3>2, <3>3
  <2> QED BY <2>2, <2>3
<1>2. G = [n \in Nat |-> G[n]]
  OBVIOUS
<1> HIDE DEF G
<1>3. IsPowers(G, b, Nat)
  BY <1>1, <1>2 DEF IsPowers
<1> QED BY <1>3 DEF Powers

LEMMA PowerIs == \A b, n : Power(b, n) = Powers(b)[n]
BY DEF Power, Powers, IsPowers

LEMMA PowerZero == \A b : Power(b, 0) = 1
BY PowersExist, PowersValue, PowerIs

LEMMA PowerStep ==
  ASSUME NEW b, NEW n \in Nat
  PROVE  Power(b, n + 1) = b * Power(b, n)
<1>1. n + 1 \in Nat /\ n + 1 # 0 /\ (n + 1) - 1 = n
  OBVIOUS
<1>2. Powers(b)[n + 1] = IF n + 1 = 0 THEN 1 ELSE b * Powers(b)[(n + 1) - 1]
  BY <1>1, PowersExist, PowersValue
<1> QED BY <1>1, <1>2, PowerIs

LEMMA PowerNat ==
  ASSUME NEW b \in Nat \ {0}
  PROVE  \A n \in Nat : Power(b, n) \in Nat \ {0}
<1> DEFINE Bad == {n \in Nat : Power(b, n) \notin Nat \ {0}}
<1> SUFFICES ASSUME Bad # {} PROVE FALSE
  OBVIOUS
<1>1. PICK m \in Bad : \A i \in Bad : m <= i
  <2>1. Bad \in SUBSET Nat OBVIOUS
  <2> HIDE DEF Bad
  <2> QED BY <2>1, Smallest
<1>2. m \in Nat /\ Power(b, m) \notin Nat \ {0}
  OBVIOUS
<1>3. m # 0
  BY <1>2, PowerZero
<1>4. PICK k \in Nat : m = k + 1
  BY <1>2, <1>3
<1>5. k \notin Bad
  <2>1. ~(m <= k) BY <1>4
  <2> HIDE DEF Bad
  <2> QED BY <1>1, <2>1
<1>6. Power(b, k) \in Nat \ {0}
  BY <1>5
<1>7. Power(b, m) = b * Power(b, k)
  BY <1>4, PowerStep
<1>8. \A x, y \in Nat \ {0} : x * y \in Nat \ {0}
  OBVIOUS
<1> QED BY <1>2, <1>6, <1>7, <1>8

LEMMA ProductMonotone ==
  ASSUME NEW a \in Nat, NEW b \in Nat, NEW x \in Nat, NEW y \in Nat, a <= b, x <= y
  PROVE  a * x <= b * y
OBVIOUS

LEMMA PowerMonotone ==
  ASSUME NEW a \in Nat \ {0}, NEW b \in Nat \ {0}, a <= b
  PROVE  \A n \in Nat : Power(a, n) <= Power(b, n)
<1> DEFINE Bad == {n \in Nat : ~(Power(a, n) <= Power(b, n))}
<1> SUFFICES ASSUME Bad # {} PROVE FALSE
  OBVIOUS
<1>1. PICK m \in Bad : \A i \in Bad : m <= i
  <2>1. Bad \in SUBSET Nat OBVIOUS
  <2> HIDE DEF Bad
  <2> QED BY <2>1, Smallest
<1>2. m \in Nat /\ ~(Power(a, m) <= Power(b, m))
  OBVIOUS
<1>3. m # 0
  BY <1>2, PowerZero
<1>4. PICK k \in Nat : m = k + 1
  BY <1>2, <1>3
<1>5. k \notin Bad
  <2>1. ~(m <= k) BY <1>4
  <2> HIDE DEF Bad
  <2> QED BY <1>1, <2>1
<1>6. Power(a, k) <= Power(b, k)
  BY <1>5
<1>7. Power(a, m) = a * Power(a, k) /\ Power(b, m) = b * Power(b, k)
  BY <1>4, PowerStep
<1>8. Power(a, k) \in Nat /\ Power(b, k) \in Nat
  BY PowerNat
<1>9. a * Power(a, k) <= b * Power(b, k)
  BY <1>6, <1>8, ProductMonotone
<1> QED BY <1>2, <1>7, <1>9

LEMMA PowerSum ==
  ASSUME NEW b \in Nat \ {0}, NEW i \in Nat
  PROVE  \A n \in Nat : Power(b, i + n) = Power(b, i) * Power(b, n)
<1> DEFINE Bad == {n \in Nat : Power(b, i + n) # Power(b, i) * Power(b, n)}
<1> SUFFICES ASSUME Bad # {} PROVE FALSE
  OBVIOUS
<1>1. PICK m \in Bad : \A j \in Bad : m <= j
  <2>1. Bad \in SUBSET Nat OBVIOUS
  <2> HIDE DEF Bad
  <2> QED BY <2>1, Smallest
<1>2. m \in Nat /\ Power(b, i + m) # Power(b, i) * Power(b, m)
  OBVIOUS
<1>3. Power(b, i) \in Nat
  BY PowerNat
<1>4. m # 0
  <2>1. Power(b, i) * 1 = Power(b, i) /\ i + 0 = i
    BY <1>3
  <2> QED BY <1>2, <2>1, PowerZero
<1>5. PICK k \in Nat : m = k + 1
  BY <1>2, <1>4
<1>6. k \notin Bad
  <2>1. ~(m <= k) BY <1>5
  <2> HIDE DEF Bad
  <2> QED BY <1>1, <2>1
<1>7. Power(b, i + k) = Power(b, i) * Power(b, k)
  BY <1>6
<1>8. Power(b, m) = b * Power(b, k)
  BY <1>5, PowerStep
<1>9. Power(b, i + m) = b * Power(b, i + k)
  <2>1. i + k \in Nat /\ i + m = (i + k) + 1
    BY <1>5
  <2> QED BY <2>1, PowerStep
<1>10. Power(b, k) \in Nat
  BY PowerNat
<1>11. \A x, y \in Nat : b * (x * y) = x * (b * y)
  OBVIOUS
<1> QED BY <1>2, <1>3, <1>7, <1>8, <1>9, <1>10, <1>11

(* Powers of two grow.                                                     *)
LEMMA TwoPower ==
  /\ Power(2, 0) = 1
  /\ \A n \in Nat : Power(2, n) \in Nat \ {0} /\ Power(2, n + 1) = 2 * Power(2, n)
  /\ \A i, j \in Nat : i <= j => Power(2, i) <= Power(2, j)
<1>1. \A n \in Nat : Power(2, n) \in Nat \ {0} /\ Power(2, n + 1) = 2 * Power(2, n)
  BY PowerNat, PowerStep
<1>2. ASSUME NEW i \in Nat, NEW j \in Nat, i <= j PROVE Power(2, i) <= Power(2, j)
  <2>1. PICK n \in Nat : j = i + n
    <3>1. j - i \in Nat /\ j = i + (j - i) BY <1>2
    <3> QED BY <3>1
  <2>2. Power(2, j) = Power(2, i) * Power(2, n)
    BY <2>1, PowerSum
  <2>3. \A x, y \in Nat \ {0} : x <= x * y
    OBVIOUS
  <2> QED BY <1>1, <2>2, <2>3
<1> QED BY <1>1, <1>2, PowerZero

(* The word of the first n bits stands for 2^n - 1, and every other word   *)
(* of them for less.                                                       *)
BitValue == [i \in Bits |-> Power(2, i)]

LEMMA NumberBelow ==
  \A n \in 0 .. W : \A x \in SUBSET (0 .. (n - 1)) :
    SumFunctionOnSet(BitValue, x) \in Nat /\ SumFunctionOnSet(BitValue, x) < Power(2, n)
<1> DEFINE Good(n) == \A x \in SUBSET (0 .. (n - 1)) :
             SumFunctionOnSet(BitValue, x) \in Nat /\ SumFunctionOnSet(BitValue, x) < Power(2, n)
           Bad == {n \in 0 .. W : ~Good(n)}
<1> SUFFICES ASSUME Bad # {} PROVE FALSE
  OBVIOUS
<1>0. W \in Nat
  BY WordAssumption
<1>1. PICK m \in Bad : \A i \in Bad : m <= i
  <2>1. Bad \in SUBSET Nat BY <1>0
  <2> HIDE DEF Bad
  <2> QED BY <2>1, Smallest
<1>2. m \in 0 .. W /\ ~Good(m)
  OBVIOUS
<1>3. m # 0
  <2>1. ASSUME NEW x \in SUBSET (0 .. (0 - 1)) PROVE x = {}
    OBVIOUS
  <2>2. SumFunctionOnSet(BitValue, {}) = 0 /\ Power(2, 0) = 1
    BY SumEmpty, PowerZero
  <2>3. Good(0)
    <3> SUFFICES ASSUME NEW x \in SUBSET (0 .. (0 - 1))
                 PROVE  SumFunctionOnSet(BitValue, x) \in Nat /\ SumFunctionOnSet(BitValue, x) < Power(2, 0)
      OBVIOUS
    <3>1. x = {}
      BY <2>1
    <3> QED BY <2>2, <3>1
  <2> HIDE DEF Good
  <2> QED BY <1>2, <2>3
<1>4. PICK k \in Nat : m = k + 1
  BY <1>0, <1>2, <1>3
<1>5. Good(k)
  <2>1. ~(m <= k) /\ k \in 0 .. W BY <1>0, <1>2, <1>4
  <2>2. k \notin Bad
    <3> HIDE DEF Bad
    <3> QED BY <1>1, <2>1
  <2> QED BY <2>1, <2>2
<1>6. k \in Bits /\ BitValue[k] = Power(2, k)
  BY <1>0, <1>2, <1>4 DEF Bits, BitValue
<1>7. Power(2, m) = 2 * Power(2, k) /\ Power(2, k) \in Nat
  BY <1>4, TwoPower
<1>8. ASSUME NEW x \in SUBSET (0 .. (m - 1))
      PROVE  SumFunctionOnSet(BitValue, x) \in Nat /\ SumFunctionOnSet(BitValue, x) < Power(2, m)
  <2>1. x \ {k} \in SUBSET (0 .. (k - 1))
    BY <1>4
  <2>2. /\ SumFunctionOnSet(BitValue, x \ {k}) \in Nat
        /\ SumFunctionOnSet(BitValue, x \ {k}) < Power(2, k)
    BY <1>5, <2>1
  <2>3. CASE k \notin x
    <3>1. x \ {k} = x BY <2>3
    <3>2. SumFunctionOnSet(BitValue, x) \in Nat /\ SumFunctionOnSet(BitValue, x) < Power(2, k)
      BY <2>2, <3>1
    <3>3. \A a, p \in Nat : a < p => a < 2 * p
      OBVIOUS
    <3> QED BY <1>7, <3>2, <3>3
  <2>4. CASE k \in x
    <3>1. IsFiniteSet(x)
      <4>1. IsFiniteSet(0 .. (m - 1))
        BY <1>4, FS_Interval
      <4> QED BY <4>1, FS_Subset
    <3>2. \A i \in x : BitValue[i] \in Int
      <4>1. \A i \in x : i \in Bits /\ i \in Nat
        BY <1>0, <1>2 DEF Bits
      <4> QED BY <4>1, TwoPower DEF BitValue
    <3>3. SumFunctionOnSet(BitValue, x) = BitValue[k] + SumFunctionOnSet(BitValue, x \ {k})
      <4>1. PICK f, s, i : f = BitValue /\ s = x /\ i = k
        OBVIOUS
      <4>2. IsFiniteSet(s) /\ (\A j \in s : f[j] \in Int) /\ i \in s
        BY <2>4, <3>1, <3>2, <4>1
      <4>3. SumFunctionOnSet(f, s) = f[i] + SumFunctionOnSet(f, s \ {i})
        BY ONLY <4>2, SumTake
      <4> QED BY <4>1, <4>3
    <3> QED BY <1>6, <1>7, <2>2, <3>3
  <2> QED BY <2>3, <2>4
<1> QED BY <1>2, <1>8

LEMMA OnesSum ==
  \A n \in 0 .. W : SumFunctionOnSet(BitValue, 0 .. (n - 1)) = Power(2, n) - 1
<1> DEFINE Bad == {n \in 0 .. W : SumFunctionOnSet(BitValue, 0 .. (n - 1)) # Power(2, n) - 1}
<1> SUFFICES ASSUME Bad # {} PROVE FALSE
  OBVIOUS
<1>0. W \in Nat
  BY WordAssumption
<1>1. PICK m \in Bad : \A i \in Bad : m <= i
  <2>1. Bad \in SUBSET Nat BY <1>0
  <2> HIDE DEF Bad
  <2> QED BY <2>1, Smallest
<1>2. m \in 0 .. W /\ SumFunctionOnSet(BitValue, 0 .. (m - 1)) # Power(2, m) - 1
  OBVIOUS
<1>3. m # 0
  <2>1. 0 .. (0 - 1) = {}
    OBVIOUS
  <2>2. SumFunctionOnSet(BitValue, 0 .. (0 - 1)) = 0
    BY <2>1, SumEmpty
  <2>3. Power(2, 0) - 1 = 0
    BY PowerZero
  <2> QED BY <1>2, <2>2, <2>3
<1>4. PICK k \in Nat : m = k + 1
  BY <1>0, <1>2, <1>3
<1>5. SumFunctionOnSet(BitValue, 0 .. (k - 1)) = Power(2, k) - 1
  <2>1. ~(m <= k) /\ k \in 0 .. W BY <1>0, <1>2, <1>4
  <2>2. k \notin Bad
    <3> HIDE DEF Bad
    <3> QED BY <1>1, <2>1
  <2> QED BY <2>1, <2>2
<1>6. BitValue[k] = Power(2, k)
  BY <1>0, <1>2, <1>4 DEF Bits, BitValue
<1>7. Power(2, m) = 2 * Power(2, k) /\ Power(2, k) \in Nat
  BY <1>4, TwoPower
<1>8. SumFunctionOnSet(BitValue, 0 .. (m - 1)) = BitValue[k] + SumFunctionOnSet(BitValue, 0 .. (k - 1))
  <2>1. PICK f, s, i : f = BitValue /\ s = 0 .. (m - 1) /\ i = k
    OBVIOUS
  <2>2. IsFiniteSet(s) /\ i \in s
    BY <1>4, <2>1, FS_Interval
  <2>3. \A j \in s : f[j] \in Int
    <3>1. \A j \in 0 .. (m - 1) : j \in Bits /\ j \in Nat
      BY <1>0, <1>2 DEF Bits
    <3> QED BY <2>1, <3>1, TwoPower DEF BitValue
  <2>4. SumFunctionOnSet(f, s) = f[i] + SumFunctionOnSet(f, s \ {i})
    BY ONLY <2>2, <2>3, SumTake
  <2>5. s \ {i} = 0 .. (k - 1)
    BY <1>4, <2>1
  <2> QED BY <2>1, <2>4, <2>5
<1> QED BY <1>2, <1>5, <1>6, <1>7, <1>8

LEMMA AllOnes == Number[Bits] = Power(2, W) - 1
<1>1. W \in 0 .. W
  BY WordAssumption
<1>2. Number[Bits] = SumFunctionOnSet(BitValue, 0 .. (W - 1))
  BY DEF Number, BitValue, Words, Bits
<1> QED BY <1>1, <1>2, OnesSum

LEMMA NumberRange ==
  ASSUME NEW x \in Words
  PROVE  Number[x] \in 0 .. (Power(2, W) - 1)
<1>1. W \in Nat /\ W \in 0 .. W
  BY WordAssumption
<1>2. Number[x] = SumFunctionOnSet(BitValue, x)
  BY DEF Number, BitValue
<1>3. Number[x] \in Nat /\ Number[x] < Power(2, W)
  BY <1>1, <1>2, NumberBelow DEF Words, Bits
<1>4. Power(2, W) \in Nat
  BY <1>1, TwoPower
<1>5. \A a, p \in Nat : a < p => a \in 0 .. (p - 1)
  OBVIOUS
<1> QED BY <1>3, <1>4, <1>5

-----------------------------------------------------------------------------
(* Rounding to the first P bits.                                           *)

LEMMA Quotient ==
  ASSUME NEW v \in Nat, NEW d \in Nat \ {0}
  PROVE  /\ v \div d \in Nat /\ v % d \in 0 .. (d - 1)
         /\ \A m \in Nat : v < d * m => v \div d < m
         /\ \A m \in Nat : v <= d * m => v \div d <= m
<1>1. v \div d \in Nat
  OBVIOUS
<1>2. v % d \in 0 .. (d - 1)
  OBVIOUS
<1>3. ASSUME NEW m \in Nat, v < d * m PROVE v \div d < m
  BY <1>3
<1>4. ASSUME NEW m \in Nat, v <= d * m PROVE v \div d <= m
  BY <1>4
<1> QED BY <1>1, <1>2, <1>3, <1>4

Units(v) == {u \in {Power(2, k) : k \in 0 .. W} : v < u * Power(2, P)}
RoundsUp(v, u) == 2 * (v % u) > u \/ (2 * (v % u) = u /\ (v \div u) % 2 = 1)
Rounded(v, u) == (IF RoundsUp(v, u) THEN v \div u + 1 ELSE v \div u) * u

LEMMA FloatIs == \A v : Float(v) = Rounded(v, Min(Units(v)))
BY DEF Float, Units, Rounded, RoundsUp

LEMMA RoundedBelow ==
  ASSUME NEW v \in Nat, NEW u \in Nat \ {0}, NEW m \in Nat, v < u * m
  PROVE  Rounded(v, u) \in Nat /\ Rounded(v, u) <= m * u
<1>0. v \div u \in Nat /\ v \div u + 1 \in Nat
  BY Quotient
<1>1. PICK q \in Nat : q = IF RoundsUp(v, u) THEN v \div u + 1 ELSE v \div u
  BY <1>0
<1>2. q <= m
  <2>1. v \div u \in Nat /\ v \div u < m
    BY Quotient
  <2> QED BY <1>1, <2>1
<1>3. Rounded(v, u) = q * u
  BY <1>1 DEF Rounded
<1>4. q * u \in Nat
  OBVIOUS
<1>5. q * u <= m * u
  BY <1>2, ProductMonotone
<1> QED BY <1>3, <1>4, <1>5

LEMMA UnitLeast ==
  ASSUME NEW v \in 0 .. (Power(2, W) - 1)
  PROVE  /\ Min(Units(v)) \in Units(v)
         /\ \A u \in Units(v) : Min(Units(v)) <= u
<1>0. W \in Nat /\ P \in Nat /\ W \in 0 .. W
  BY WordAssumption
<1>1. Power(2, W) \in Nat \ {0} /\ Power(2, P) \in Nat \ {0}
  BY <1>0, TwoPower
<1>2. Units(v) \in SUBSET Nat
  BY <1>0, TwoPower DEF Units
<1>3. Power(2, W) \in Units(v)
  <2>1. \A x, y, z \in Nat \ {0} : z \in 0 .. (x - 1) => z < x * y
    OBVIOUS
  <2>2. v < Power(2, W) * Power(2, P)
    <3>1. \A x, y \in Nat \ {0} : x <= x * y
      OBVIOUS
    <3>2. Power(2, W) <= Power(2, W) * Power(2, P)
      BY <1>1, <3>1
    <3>3. Power(2, W) * Power(2, P) \in Nat
      BY <1>1
    <3> QED BY <1>1, <3>2, <3>3
  <2> QED BY <1>0, <2>2 DEF Units
<1>4. PICK m \in Units(v) : \A u \in Units(v) : m <= u
  BY <1>2, <1>3, Smallest
<1> QED BY <1>4 DEF Min

(* A unit is a power of two, of which P bits hold the number.              *)
LEMMA UnitFits ==
  ASSUME NEW v \in 0 .. (Power(2, W) - 1), NEW u \in Units(v)
  PROVE  v \in Nat /\ u \in Nat \ {0} /\ Power(2, P) \in Nat \ {0} /\ v < u * Power(2, P)
<1>0. W \in Nat /\ P \in Nat
  BY WordAssumption
<1>1. Power(2, W) \in Nat \ {0} /\ Power(2, P) \in Nat \ {0}
  BY <1>0, TwoPower
<1>2. PICK k \in 0 .. W : u = Power(2, k)
  BY DEF Units
<1>3. u \in Nat \ {0}
  BY <1>0, <1>2, TwoPower
<1> QED BY <1>1, <1>3 DEF Units

(* With fewer bits than the word has, the word of all ones rounds to 2^W,  *)
(* and no word to more.                                                    *)
LEMMA FloatWide ==
  ASSUME P < W
  PROVE  /\ One = Power(2, W)
         /\ \A v \in 0 .. (Power(2, W) - 1) : Float(v) \in 0 .. Power(2, W)
<1> DEFINE H == Power(2, W - P)
           T == Power(2, P)
<1>0. W \in Nat /\ P \in Nat /\ P >= 1 /\ W - P \in Nat /\ W - P \in 0 .. W
  BY WordAssumption
<1>1. H \in Nat \ {0} /\ T \in Nat \ {0} /\ Power(2, W) \in Nat \ {0}
  BY <1>0, TwoPower
<1>2. Power(2, W) = H * T
  <2>1. (W - P) + P = W
    BY <1>0
  <2>2. Power(2, (W - P) + P) = H * T
    BY <1>0, PowerSum
  <2> QED BY <2>1, <2>2
<1>3. ASSUME NEW v \in 0 .. (Power(2, W) - 1)
      PROVE  Min(Units(v)) \in Units(v) /\ Min(Units(v)) <= H
  <2>1. v < Power(2, W)
    BY <1>1
  <2>2. H \in Units(v)
    BY <1>0, <1>2, <2>1 DEF Units
  <2> HIDE DEF H
  <2> QED BY <2>2, UnitLeast
<1>4. ASSUME NEW v \in 0 .. (Power(2, W) - 1)
      PROVE  Float(v) \in 0 .. Power(2, W)
  <2>1. PICK u : u = Min(Units(v))
    OBVIOUS
  <2>2. u \in Nat \ {0} /\ v \in Nat /\ v < u * T /\ u <= H
    BY <1>3, <2>1, UnitFits
  <2>3. Rounded(v, u) \in Nat /\ Rounded(v, u) <= T * u
    BY <1>1, <2>2, RoundedBelow
  <2>4. T * u <= T * H /\ T * H = H * T /\ T * u \in Nat /\ T * H \in Nat
    <3> HIDE DEF T, H
    <3>1. T * u <= T * H
      BY <1>1, <2>2, ProductMonotone
    <3>2. \A x, y \in Nat : x * y = y * x /\ x * y \in Nat
      OBVIOUS
    <3> QED BY <1>1, <2>2, <3>1, <3>2
  <2>5. Float(v) = Rounded(v, u)
    BY <2>1, FloatIs
  <2> HIDE DEF T, H
  <2>6. \A a, b, c \in Nat : a <= b /\ b <= c => a \in 0 .. c
    OBVIOUS
  <2> QED BY <1>1, <1>2, <2>2, <2>3, <2>4, <2>5, <2>6
<1>5. One = Power(2, W)
  <2>1. PICK v : v = Power(2, W) - 1
    OBVIOUS
  <2>2. v \in 0 .. (Power(2, W) - 1)
    BY <1>1, <2>1
  <2>3. PICK u : u = Min(Units(v))
    OBVIOUS
  <2>4. u \in Nat \ {0} /\ v < u * T /\ u <= H
    BY <1>3, <2>2, <2>3, UnitFits
  <2>5. u = H
    <3> HIDE DEF H, T
    <3>1. H * T <= u * T
      <4>1. u * T \in Nat /\ H * T \in Nat
        BY <1>1, <2>4
      <4> QED BY <1>2, <2>1, <2>4, <4>1
    <3>2. \A x, y, z \in Nat \ {0} : x * z <= y * z => x <= y
      OBVIOUS
    <3> QED BY <1>1, <2>4, <3>1, <3>2
  <2>6. PICK h \in Nat \ {0} : H = 2 * h
    <3>1. (W - P) - 1 \in Nat /\ W - P = ((W - P) - 1) + 1
      BY <1>0
    <3> QED BY <3>1, TwoPower
  <2>7. PICK t \in Nat \ {0} : T = 2 * t
    <3>1. P - 1 \in Nat /\ P = (P - 1) + 1
      BY <1>0
    <3> QED BY <3>1, TwoPower
  <2> HIDE DEF H, T
  <2>8. v = H * (T - 1) + (H - 1)
    <3>1. \A x, y \in Nat \ {0} : x * y - 1 = x * (y - 1) + (x - 1)
      OBVIOUS
    <3> QED BY <1>1, <1>2, <2>1, <3>1
  <2>9. v \div H = T - 1 /\ v % H = H - 1
    <3>1. \A d \in Nat \ {0} : \A q \in Nat, r \in 0 .. (d - 1) : (d * q + r) \div d = q
      OBVIOUS
    <3>2. \A d \in Nat \ {0} : \A q \in Nat, r \in 0 .. (d - 1) : (d * q + r) % d = r
      OBVIOUS
    <3>3. T - 1 \in Nat /\ H - 1 \in 0 .. (H - 1)
      BY <1>1
    <3> QED BY <1>1, <2>8, <3>1, <3>2, <3>3
  <2>10. RoundsUp(v, H)
    <3>1. (T - 1) % 2 = 1
      BY <2>7
    <3>2. 2 * (H - 1) > H \/ 2 * (H - 1) = H
      BY <2>6
    <3> QED BY <2>9, <3>1, <3>2 DEF RoundsUp
  <2>11. Rounded(v, H) = T * H
    <3>1. (T - 1) + 1 = T
      BY <1>1
    <3> QED BY <2>9, <2>10, <3>1 DEF Rounded
  <2>12. T * H = H * T
    BY <1>1
  <2> QED BY <1>2, <2>1, <2>3, <2>5, <2>11, <2>12, FloatIs DEF One
<1> QED BY <1>4, <1>5

(* Without one every number is what it was.                                *)
LEMMA FloatExact ==
  ASSUME P = W, NEW v \in 0 .. (Power(2, W) - 1)
  PROVE  Float(v) = v
<1>1. PICK u : u = Min(Units(v))
  OBVIOUS
<1>2. u \in Nat \ {0} /\ v \in Nat
  BY <1>1, UnitLeast, UnitFits
<1>3. 1 \in Units(v)
  <2>0. W \in Nat
    BY WordAssumption
  <2>1. Power(2, W) \in Nat
    BY <2>0, TwoPower
  <2>2. v < 1 * Power(2, P)
    BY <2>1
  <2>3. 1 = Power(2, 0) /\ 0 \in 0 .. W
    BY <2>0, TwoPower
  <2> QED BY <2>2, <2>3 DEF Units
<1>4. u = 1
  BY <1>1, <1>2, <1>3, UnitLeast
<1>5. v \div 1 = v /\ v % 1 = 0
  BY <1>2
<1>6. Rounded(v, 1) = v
  BY <1>2, <1>5 DEF Rounded, RoundsUp
<1> QED BY <1>1, <1>4, <1>6, FloatIs

LEMMA FloatRange ==
  /\ One \in Nat \ {0}
  /\ \A v \in 0 .. (Power(2, W) - 1) : Float(v) \in 0 .. One
<1>0. W \in Nat /\ W - 1 \in Nat /\ W = (W - 1) + 1 /\ P \in 1 .. W
  BY WordAssumption
<1>1. Power(2, W) \in Nat \ {0}
  BY <1>0, TwoPower
<1>2. CASE P < W
  BY <1>1, <1>2, FloatWide
<1>3. CASE P = W
  <2>1. Power(2, W) - 1 \in Nat \ {0}
    <3>1. Power(2, W) = 2 * Power(2, W - 1) /\ Power(2, W - 1) \in Nat \ {0}
      BY <1>0, TwoPower
    <3> QED BY <3>1
  <2>2. Power(2, W) - 1 \in 0 .. (Power(2, W) - 1)
    BY <2>1
  <2>3. One = Power(2, W) - 1
    BY <1>3, <2>2, FloatExact DEF One
  <2> QED BY <1>3, <2>1, <2>3, FloatExact
<1> QED BY <1>0, <1>2, <1>3

-----------------------------------------------------------------------------
(* The generator of keys.                                                  *)

Base(u) == Eta * u + (Scale - Eta) * One

LEMMA ZipfIs ==
  ASSUME NEW v \in 0 .. (Power(2, W) - 1)
  PROVE  Zipf[v] = IF Float(v) * Zetan < One * Scale THEN 0
                   ELSE IF Float(v) * Zetan < One * HalfPow THEN 1
                   ELSE (Records * Power(Base(Float(v)), Alpha)) \div Power(Scale * One, Alpha)
BY DEF Zipf, Base

LEMMA ZipfConstants ==
  /\ Records \in Nat \ {0} /\ Scale \in Nat \ {0} /\ Zetan \in Nat \ {0}
  /\ HalfPow \in Nat \ {0} /\ Eta \in Nat \ {0} /\ Alpha \in Nat \ {0}
  /\ Scale <= HalfPow /\ HalfPow <= Zetan /\ Eta <= Scale
BY ZipfAssumption

(* The base of the power is at most 1, which is Scale * One.               *)
LEMMA BaseRange ==
  ASSUME NEW u \in 0 .. One
  PROVE  /\ Scale * One \in Nat \ {0}
         /\ Base(u) \in Nat /\ Base(u) <= Scale * One
         /\ u # 0 => Base(u) # 0
         /\ u = One => Base(u) = Scale * One
<1>1. One \in Nat \ {0} /\ u \in Nat /\ u <= One
  BY FloatRange
<1>2. PICK d \in Nat : d = Scale - Eta
  BY ZipfConstants
<1>3. Scale = Eta + d
  BY <1>2, ZipfConstants
<1>4. Base(u) = Eta * u + d * One
  BY <1>2 DEF Base
<1>5. Scale * One = Eta * One + d * One
  <2>1. \A e, x, o \in Nat : (e + x) * o = e * o + x * o
    OBVIOUS
  <2> QED BY <1>1, <1>3, <2>1, ZipfConstants
<1>6. Eta * u <= Eta * One
  BY <1>1, ZipfConstants, ProductMonotone
<1>7. /\ Eta * u \in Nat /\ Eta * One \in Nat /\ d * One \in Nat /\ Scale * One \in Nat \ {0}
      /\ u # 0 => Eta * u # 0
  <2>1. \A x, y \in Nat : x * y \in Nat /\ (x # 0 /\ y # 0 => x * y # 0)
    OBVIOUS
  <2> QED BY <1>1, <2>1, ZipfConstants
<1>8. Base(u) \in Nat /\ Base(u) <= Scale * One
  BY <1>4, <1>5, <1>6, <1>7
<1>9. u # 0 => Base(u) # 0
  BY <1>4, <1>7
<1> QED BY <1>4, <1>5, <1>7, <1>8, <1>9

(* The third case is not taken for u = 0.                                  *)
LEMMA NotZero ==
  ASSUME NEW u \in 0 .. One, ~(u * Zetan < One * Scale)
  PROVE  u # 0
<1>1. One * Scale \in Nat \ {0}
  <2>1. \A x, y \in Nat \ {0} : x * y \in Nat \ {0}
    OBVIOUS
  <2> QED BY <2>1, FloatRange, ZipfConstants
<1>2. 0 * Zetan = 0
  BY ZipfConstants
<1> QED BY <1>1, <1>2

(* The generator gives numbers from 0 to n, whatever the skew and however  *)
(* its floating-point results round: the clamp of Workload.Next, which     *)
(* takes them modulo the records, is the only one there is, and it is      *)
(* enough (loadgen.go:50, 122-135).                                        *)
THEOREM ZipfRange ==
  \A v \in 0 .. (Power(2, W) - 1) : Zipf[v] \in 0 .. Records /\ Key(v) \in 0 .. (Records - 1)
<1> SUFFICES ASSUME NEW v \in 0 .. (Power(2, W) - 1)
             PROVE  Zipf[v] \in 0 .. Records /\ Key(v) \in 0 .. (Records - 1)
  OBVIOUS
<1>1. PICK u \in 0 .. One : u = Float(v)
  BY FloatRange
<1>2. ASSUME u * Zetan < One * Scale \/ u * Zetan < One * HalfPow
      PROVE  Zipf[v] \in 0 .. Records
  <2>1. Zipf[v] \in {0, 1}
    BY <1>1, <1>2, ZipfIs
  <2>2. 0 \in 0 .. Records /\ 1 \in 0 .. Records
    BY ZipfConstants
  <2> QED BY <2>1, <2>2
<1>3. ASSUME ~(u * Zetan < One * Scale) /\ ~(u * Zetan < One * HalfPow)
      PROVE  Zipf[v] \in 0 .. Records
  <2>1. PICK b, s : b = Base(u) /\ s = Scale * One
    OBVIOUS
  <2>2. b \in Nat \ {0} /\ s \in Nat \ {0} /\ b <= s
    BY <1>3, <2>1, BaseRange, NotZero
  <2>3. /\ Power(b, Alpha) \in Nat \ {0} /\ Power(s, Alpha) \in Nat \ {0}
        /\ Power(b, Alpha) <= Power(s, Alpha)
    BY <2>2, PowerNat, PowerMonotone, ZipfConstants
  <2>4. PICK x \in Nat : x = Records * Power(b, Alpha)
    BY <2>3, ZipfConstants
  <2>5. x <= Power(s, Alpha) * Records
    <3>1. x <= Records * Power(s, Alpha)
      BY <2>3, <2>4, ProductMonotone, ZipfConstants
    <3>2. \A i, j \in Nat : i * j = j * i
      OBVIOUS
    <3> QED BY <2>3, <3>1, <3>2, ZipfConstants
  <2>6. x \div Power(s, Alpha) \in Nat /\ x \div Power(s, Alpha) <= Records
    BY <2>3, <2>5, Quotient, ZipfConstants
  <2>7. Zipf[v] = x \div Power(s, Alpha)
    BY <1>1, <1>3, <2>1, <2>4, ZipfIs
  <2>8. \A q \in Nat : q <= Records => q \in 0 .. Records
    BY ZipfConstants
  <2> QED BY <2>6, <2>7, <2>8
<1>4. Zipf[v] \in 0 .. Records
  BY <1>2, <1>3
<1>5. Zipf[v] \in Nat /\ Records \in Nat \ {0}
  BY <1>4, ZipfConstants
<1>6. Key(v) \in 0 .. (Records - 1)
  BY <1>5, Quotient DEF Key
<1> QED BY <1>4, <1>6

(* The comments say "between 0 and n-1" and "Normalize to [0, 1)"          *)
(* (loadgen.go:123, 126).  For the word of all ones u is 1, and the        *)
(* generator returns n: it is not by chance that Next reduces the result.  *)
THEOREM ZipfReachesN ==
  /\ Power(2, W) - 1 \in {Number[x] : x \in Words}
  /\ Zipf[Power(2, W) - 1] = Records
<1>1. Power(2, W) - 1 \in {Number[x] : x \in Words}
  <2>1. Bits \in Words
    BY DEF Words
  <2> QED BY <2>1, AllOnes
<1>2. PICK v : v = Power(2, W) - 1
  OBVIOUS
<1>3. v \in 0 .. (Power(2, W) - 1) /\ Float(v) = One
  <2>1. v \in 0 .. (Power(2, W) - 1)
    <3>1. \A p \in Nat \ {0} : p - 1 \in 0 .. (p - 1)
      OBVIOUS
    <3>2. Power(2, W) \in Nat \ {0}
      BY WordAssumption, TwoPower
    <3> QED BY <1>2, <3>1, <3>2
  <2> QED BY <1>2, <2>1 DEF One
<1>4. One \in Nat \ {0} /\ One \in 0 .. One
  BY FloatRange
<1>5. ~(One * Zetan < One * Scale) /\ ~(One * Zetan < One * HalfPow)
  <2>1. One * Scale <= One * Zetan /\ One * HalfPow <= One * Zetan
    <3>1. Scale <= Zetan
      BY ZipfConstants
    <3> QED BY <1>4, <3>1, ZipfConstants, ProductMonotone
  <2>2. One * Scale \in Nat /\ One * HalfPow \in Nat /\ One * Zetan \in Nat
    BY <1>4, ZipfConstants
  <2> QED BY <2>1, <2>2
<1>6. PICK s \in Nat \ {0} : s = Scale * One /\ Base(One) = s
  BY <1>4, BaseRange
<1>7. Zipf[v] = (Records * Power(s, Alpha)) \div Power(s, Alpha)
  BY <1>3, <1>5, <1>6, ZipfIs
<1>8. Power(s, Alpha) \in Nat \ {0}
  BY PowerNat, ZipfConstants
<1>9. \A n \in Nat, d \in Nat \ {0} : (n * d) \div d = n
  OBVIOUS
<1>10. Zipf[v] = Records
  BY <1>7, <1>8, <1>9, ZipfConstants
<1> QED BY <1>1, <1>2, <1>10

(* A threshold fits a uint64 for the workloads with writes.  For YCSB-C    *)
(* the product is 2^64, which does not (loadgen.go:39).                    *)
THEOREM ThresholdsFit ==
  /\ \A name \in {"YCSB-A", "YCSB-B"} : (Percent(name) * One) \div 100 < Power(2, W)
  /\ P < W => (Percent("YCSB-C") * One) \div 100 = Power(2, W)
<1>1. One \in Nat \ {0} /\ Power(2, W) \in Nat \ {0}
  BY FloatRange, WordAssumption, TwoPower
<1>2. One <= Power(2, W)
  <2>1. P \in Int /\ W \in Int /\ P <= W
    BY WordAssumption
  <2>2. CASE P < W
    BY <1>1, <2>2, FloatWide
  <2>3. CASE P = W
    <3>1. Power(2, W) - 1 \in 0 .. (Power(2, W) - 1)
      BY <1>1
    <3>2. One = Power(2, W) - 1
      BY <2>3, <3>1, FloatExact DEF One
    <3> QED BY <1>1, <3>2
  <2> QED BY <2>1, <2>2, <2>3
<1>3. \A p \in {50, 95}, o, m \in Nat \ {0} : o <= m => (p * o) \div 100 < m
  OBVIOUS
<1>4. \A o \in Nat : (100 * o) \div 100 = o
  OBVIOUS
<1>5. Percent("YCSB-A") = 50 /\ Percent("YCSB-B") = 95 /\ Percent("YCSB-C") = 100
  BY DEF Percent
<1>6. ASSUME P < W PROVE One = Power(2, W)
  BY <1>6, FloatWide
<1> QED BY <1>1, <1>2, <1>3, <1>4, <1>5, <1>6

(* Every draw names a whole record, inside the registered memory.          *)
LEMMA DrawnKey ==
  ASSUME NEW k \in AnyKey
  PROVE  /\ k \in {r * RecordBytes : r \in 0 .. (Records - 1)}
         /\ k + RecordBytes <= MemBytes
<1>1. PICK x \in Words \ {{}} : k = Key(Number[Xorshift[x]]) * RecordBytes
  BY DEF AnyKey
<1>2. PICK r : r = Key(Number[Xorshift[x]])
  OBVIOUS
<1>3. r \in 0 .. (Records - 1)
  BY <1>2, XorshiftAlive, NumberRange, ZipfRange
<1>4. Records \in Nat /\ RecordBytes \in Nat /\ MemBytes \in Nat /\ Records * RecordBytes <= MemBytes
  BY BenchAssumption, ZipfConstants
<1>5. r * RecordBytes + RecordBytes <= Records * RecordBytes
  <2>1. r \in Nat /\ r + 1 \in Nat /\ r + 1 <= Records
    BY <1>3, <1>4
  <2>2. (r + 1) * RecordBytes <= Records * RecordBytes
    BY <1>4, <2>1, ProductMonotone
  <2>3. \A i, j \in Nat : (i + 1) * j = i * j + j
    OBVIOUS
  <2> QED BY <1>4, <2>1, <2>2, <2>3
<1>6. r * RecordBytes \in Nat /\ Records * RecordBytes \in Nat
  BY <1>3, <1>4
<1>7. k = r * RecordBytes
  BY <1>1, <1>2
<1> QED BY <1>3, <1>4, <1>5, <1>6, <1>7

(* However the floats round and whatever the generator returns, a batch    *)
(* names whole records inside the memory: the modulus of Next is in time   *)
(* for the n that Zipf does return (loadgen.go:50, 134,                    *)
(* rdma_cli/main.go:137-142).                                              *)
THEOREM BenchRecords == Spec => []WholeRecords
<1>1. BenchInv => WholeRecords
  <2> SUFFICES ASSUME BenchInv, NEW w \in Workers,
                      NEW k \in {readKeys[w][i] : i \in DOMAIN readKeys[w]}
                                \cup {writeKeys[w][i] : i \in DOMAIN writeKeys[w]}
               PROVE  k \in {r * RecordBytes : r \in 0 .. (Records - 1)} /\ k + RecordBytes <= MemBytes
    BY DEF WholeRecords
  <2>1. readKeys[w] \in Seq(AnyKey) /\ writeKeys[w] \in Seq(AnyKey)
    BY DEF BenchInv, BenchTypes, KeyList
  <2>2. k \in AnyKey
    BY <2>1
  <2> QED BY <2>2, DrawnKey
<1> QED BY <1>1, BenchInvariant, PTL
=============================================================================
