------------------------------- MODULE Bench --------------------------------
(* The benchmark (runBenchmark of rdma_cli/main.go): workers, each with a  *)
(* client of its own and a workload, draw batches, read what is to be read *)
(* and write what is to be written, until the time is up; each sends the   *)
(* number of its operations over a channel that the main goroutine reads   *)
(* once all of them are done.  The clients are those of KvStore, which is  *)
(* what KvClient promises; a broken one promises nothing, its calls return *)
(* what they like.  Latencies are measured only to be printed and left out.*)
EXTENDS Workload, Sequences, Functions

CONSTANTS
  Workers,
  BatchSize,   \* positive: with 0 the code divides by it
  RecordBytes, \* 100, by which the keys are multiplied
  MemBytes,    \* the registered memory of a server
  MaxBatches,  \* bound: batches a worker draws before the time is up
  Faults

ASSUME WorkersAssumption == IsFiniteSet(Workers)
ASSUME BenchAssumption ==
  /\ {BatchSize, RecordBytes, MaxBatches} \subseteq Nat \ {0}
  /\ MemBytes \in Nat /\ Records * RecordBytes <= MemBytes
  /\ Faults \in BOOLEAN

VARIABLES
  store, phase, op, todo, got, ret, \* the clients, see KvStore
  pc,        \* pc[w]: where the worker is
  gen,       \* gen[w]: the state of its generator
  threshold, \* threshold[w]: readThreshold of its workload
  readKeys, writeKeys, \* of the batch it works on
  drawn,     \* drawn[w]: how many batches it has drawn
  landed,    \* landed[w]: operations of its calls that returned nil
  localOps,
  expired,   \* time.Since(start) >= duration
  opsCh, main, totalOps

storeVars == <<store, phase, op, todo, got, ret>>
workVars == <<gen, threshold, readKeys, writeKeys, drawn, landed, localOps>>
mainVars == <<opsCh, main, totalOps>>
vars == <<storeVars, pc, workVars, expired, mainVars>>

(* The payload is 100 zero bytes, as is the memory at the start: what the  *)
(* calls of a broken client still do changes nothing.                      *)
Payload == 0
Offsets == 0 .. (MemBytes - RecordBytes)

Client == INSTANCE KvStore WITH
  Clients <- Workers, Keys <- Offsets, Value <- {Payload}, Zero <- Payload

Goto(w, to) == pc' = [pc EXCEPT ![w] = to]

-----------------------------------------------------------------------------
(* A worker that gets no client is done; one that does not connect closes. *)
Create(w) ==
  /\ pc[w] = "create"
  /\ Goto(w, "connect") \/ (Faults /\ Goto(w, "done"))
  /\ UNCHANGED <<storeVars, workVars, expired, mainVars>>

Connect(w) ==
  /\ pc[w] = "connect"
  /\ \/ /\ Goto(w, "loop")
        /\ \E x \in Words : gen' = [gen EXCEPT ![w] = Seed(x)]
        /\ \E t \in ReadThresholds("YCSB-B") : threshold' = [threshold EXCEPT ![w] = t]
     \/ Faults /\ Goto(w, "close") /\ UNCHANGED <<gen, threshold>>
  /\ UNCHANGED <<storeVars, readKeys, writeKeys, drawn, landed, localOps, expired, mainVars>>

StartBatch(w) ==
  /\ pc[w] = "loop" /\ ~expired /\ drawn[w] < MaxBatches
  /\ drawn' = [drawn EXCEPT ![w] = @ + 1]
  /\ Goto(w, "draw")
  /\ UNCHANGED <<storeVars, gen, threshold, readKeys, writeKeys, landed, localOps, expired, mainVars>>

(* One operation of the batch.  After the last one the reads come first.   *)
Draw(w) ==
  LET o == NextOp(gen[w], threshold[w])
      k == o.key * RecordBytes
  IN /\ pc[w] = "draw"
     /\ gen' = [gen EXCEPT ![w] = NextState(@)]
     /\ readKeys' = [readKeys EXCEPT ![w] = IF o.isRead THEN Append(@, k) ELSE @]
     /\ writeKeys' = [writeKeys EXCEPT ![w] = IF o.isRead THEN @ ELSE Append(@, k)]
     /\ Goto(w, IF Len(readKeys[w]) + Len(writeKeys[w]) + 1 < BatchSize THEN "draw"
                ELSE IF readKeys'[w] # <<>> THEN "get" ELSE "put")
     /\ UNCHANGED <<storeVars, threshold, drawn, landed, localOps, expired, mainVars>>

-----------------------------------------------------------------------------
(* The two calls of a batch.                                               *)

GetCall(w) == [reads |-> TRUE, keys |-> readKeys[w], vals |-> <<>>]
PutCall(w) ==
  [reads |-> FALSE, keys |-> writeKeys[w], vals |-> [i \in 1 .. Len(writeKeys[w]) |-> Payload]]

CallStore(w, c, to) ==
  /\ op' = [op EXCEPT ![w] = c]
  /\ Client!Begin(w)
  /\ Goto(w, to)

(* The iteration ends, and its variables with it.                          *)
NextBatch(w) ==
  /\ Goto(w, "loop")
  /\ readKeys' = [readKeys EXCEPT ![w] = <<>>]
  /\ writeKeys' = [writeKeys EXCEPT ![w] = <<>>]

FailedCounts(w) == NextBatch(w) /\ localOps' = [localOps EXCEPT ![w] = @ + BatchSize]
Failed(w) == NextBatch(w) /\ UNCHANGED localOps
Count(w) == NextBatch(w) /\ localOps' = [localOps EXCEPT ![w] = @ + BatchSize]

(* What comes after a call that returned nil: the batch counts after the   *)
(* last one.                                                               *)
AfterCall(w) ==
  IF pc[w] \in {"get", "getting"} /\ writeKeys[w] # <<>>
  THEN Goto(w, "put") /\ UNCHANGED <<readKeys, writeKeys, localOps>>
  ELSE Count(w)

Get(w) ==
  /\ pc[w] = "get" /\ phase[w] = "idle"
  /\ CallStore(w, GetCall(w), "getting")
  /\ UNCHANGED <<workVars, expired, mainVars>>

Put(w) ==
  /\ pc[w] = "put" /\ phase[w] = "idle"
  /\ CallStore(w, PutCall(w), "putting")
  /\ UNCHANGED <<workVars, expired, mainVars>>

Effect(w) ==
  /\ pc[w] \in {"getting", "putting"}
  /\ \E i \in 1 .. Len(op[w].keys) : Client!ReadEffect(w, i) \/ Client!WriteEffect(w, i)
  /\ UNCHANGED <<pc, workVars, expired, mainVars>>

ReturnsNil(w) ==
  /\ pc[w] \in {"getting", "putting"}
  /\ Client!ReturnOk(w)
  /\ landed' = [landed EXCEPT ![w] = @ + Len(op[w].keys)]
  /\ AfterCall(w)
  /\ UNCHANGED <<gen, threshold, drawn, expired, mainVars>>

ReturnsErr(w) ==
  /\ Faults /\ pc[w] \in {"getting", "putting"}
  /\ Client!ReturnErr(w) \/ Client!Break(w)
  /\ Failed(w)
  /\ UNCHANGED <<gen, threshold, drawn, landed, expired, mainVars>>

BrokenCall(w) ==
  /\ pc[w] \in {"get", "put"} /\ phase[w] = "broken"
  /\ Failed(w) \/ AfterCall(w)
  /\ UNCHANGED <<storeVars, gen, threshold, drawn, landed, expired, mainVars>>

-----------------------------------------------------------------------------
(* The end.                                                                *)

TimeIsUp ==
  /\ ~expired /\ expired' = TRUE
  /\ UNCHANGED <<storeVars, pc, workVars, mainVars>>

(* The workload is not used any more.                                      *)
LeaveLoop(w) ==
  /\ pc[w] = "loop" /\ expired
  /\ Goto(w, "send")
  /\ gen' = [gen EXCEPT ![w] = {0}]
  /\ UNCHANGED <<storeVars, threshold, readKeys, writeKeys, drawn, landed, localOps, expired, mainVars>>

CapacityNone == 0
Capacity == Cardinality(Workers)

SendOps(w) ==
  /\ pc[w] = "send" /\ Len(opsCh) < Capacity
  /\ opsCh' = Append(opsCh, localOps[w])
  /\ Goto(w, "close")
  /\ UNCHANGED <<storeVars, workVars, expired, main, totalOps>>

(* The deferred Close, then wg.Done.                                       *)
Close(w) ==
  /\ pc[w] = "close"
  /\ IF phase[w] = "idle" THEN Client!Leave(w) ELSE UNCHANGED storeVars
  /\ Goto(w, "done")
  /\ UNCHANGED <<workVars, expired, mainVars>>

(* wg.Wait, then the channels are closed; a closed channel is read until   *)
(* it is empty.                                                            *)
WaitForWorkers ==
  /\ main = "wait" /\ \A w \in Workers : pc[w] = "done"
  /\ main' = "drain"
  /\ UNCHANGED <<storeVars, pc, workVars, expired, opsCh, totalOps>>

DrainLast(ops) == totalOps' = ops
Drain(ops) == totalOps' = totalOps + ops

ReadOps ==
  /\ main = "drain"
  /\ \/ /\ opsCh # <<>>
        /\ Drain(Head(opsCh)) /\ opsCh' = Tail(opsCh)
        /\ UNCHANGED main
     \/ /\ opsCh = <<>>
        /\ main' = "printed"
        /\ UNCHANGED <<opsCh, totalOps>>
  /\ UNCHANGED <<storeVars, pc, workVars, expired>>

-----------------------------------------------------------------------------
Init ==
  /\ Client!Init
  /\ pc = [w \in Workers |-> "create"]
  /\ gen = [w \in Workers |-> {0}]
  /\ threshold = [w \in Workers |-> 0]
  /\ readKeys = [w \in Workers |-> <<>>]
  /\ writeKeys = [w \in Workers |-> <<>>]
  /\ drawn = [w \in Workers |-> 0]
  /\ landed = [w \in Workers |-> 0]
  /\ localOps = [w \in Workers |-> 0]
  /\ expired = FALSE
  /\ opsCh = <<>> /\ main = "wait" /\ totalOps = 0

Work(w) ==
  \/ Create(w) \/ Connect(w) \/ StartBatch(w) \/ Draw(w) \/ Get(w) \/ Put(w) \/ Effect(w)
  \/ ReturnsNil(w) \/ ReturnsErr(w) \/ BrokenCall(w)
  \/ LeaveLoop(w) \/ SendOps(w) \/ Close(w)

Main == WaitForWorkers \/ ReadOps

Next == TimeIsUp \/ Main \/ \E w \in Workers : Work(w)

Spec == Init /\ [][Next]_vars

(* Time passes, goroutines are scheduled, and calls return (KvClient).     *)
FairSpec ==
  /\ Spec
  /\ WF_vars(TimeIsUp) /\ WF_vars(Main)
  /\ \A w \in Workers : WF_vars(Work(w))

-----------------------------------------------------------------------------
(* Properties.                                                             *)

(* Every batch names whole records of the workload, though the generator   *)
(* may return n and main.go:137-142 turns keys into byte offsets: no two   *)
(* records overlap and none reaches beyond the registered memory.          *)
WholeRecords ==
  \A w \in Workers :
    \A k \in {readKeys[w][i] : i \in DOMAIN readKeys[w]}
             \cup {writeKeys[w][i] : i \in DOMAIN writeKeys[w]} :
      k \in {r * RecordBytes : r \in 0 .. (Records - 1)} /\ k + RecordBytes <= MemBytes

(* The generator never reaches the word 0, which it could not leave again: *)
(* every draw would be a read of key 0 (loadgen.go:60-74).                 *)
GeneratorAlive == \A w \in Workers : gen[w] # {}

(* What a worker counts took effect: a batch half of which failed is not   *)
(* in the throughput (main.go:147-168), as long as the client is not one   *)
(* an abandoned call has broken.                                           *)
CountedTookEffect ==
  \A w \in Workers : phase[w] # "broken" => localOps[w] <= landed[w]

(* The printed total is that of all the workers, whenever each of them     *)
(* sent its count, and although some never got a client (main.go:186-195). *)
TotalIsAll == main = "printed" => totalOps = SumFunction(localOps)

(* The benchmark ends: nobody waits to send to a main goroutine that waits *)
(* for everybody (main.go:98, 171, 186).                                   *)
BenchEnds == <>(main = "printed")
=============================================================================
