------------------------- MODULE BaselineInvariants -------------------------
(* The invariants the proofs about Baseline rest on: what the parts of a   *)
(* round have to do with each other, and the ledgers of what was counted.  *)
EXTENDS Baseline

Timestamped == [key : Keys, isRead : BOOLEAN, timestamp : Nat]
Jobs == [requests : Seq(Timestamped), responses : Seq(BOOLEAN)]

ClientTypes ==
  /\ main \in {"sleep", "wait", "collect", "printed", "exited"}
  /\ totalOps \in Nat /\ collected \in Nat /\ uniqueTimestamp \in Nat
  /\ resultsCh \in Seq(Nat)
  /\ pc \in [Workers -> {"dial", "loop", "await", "finished"}]
  /\ timestamp \in [Workers -> Nat]
  /\ batch \in [Workers -> Seq(Timestamped)]
  /\ opsCompleted \in [Workers -> Nat]
  /\ call \in [Workers -> [Servers -> {"none", "pending", "replied", "failed"}]]
  /\ broken \in [Workers -> SUBSET Servers]

ServerTypes ==
  /\ job \in [Workers -> [Servers -> Jobs]]
  /\ mp \in [Servers -> SUBSET Keys]
  /\ stats \in [Servers -> [Counters -> 0 .. (WordSize - 1)]]

-----------------------------------------------------------------------------
(* A round.                                                                *)

Calling(w, s) == call[w][s] \in {"pending", "replied"}

(* The timestamps of a batch are consecutive.                              *)
Numbered(requests) ==
  \A i \in DOMAIN requests : requests[i].timestamp = requests[1].timestamp + i - 1

(* Where a part of the batch is: with its server, or lost.  A request that *)
(* nobody waits for any more is at the end of a broken connection.         *)
CallShape(w, s) ==
  /\ s \notin broken[w] => call[w][s] # "failed"
  /\ s \notin broken[w] /\ call[w][s] = "none" => job[w][s] = NoJob
  /\ batch[w] # <<>> => (call[w][s] = "none" <=> Part(batch[w], s) = {})
  /\ Calling(w, s) => Range(job[w][s].requests) = Part(batch[w], s)

(* A request at its server.                                                *)
JobShape(w, s) ==
  LET j == job[w][s]
  IN /\ Len(j.responses) <= Len(j.requests)
     /\ call[w][s] = "replied" => Len(j.responses) = Len(j.requests)
     /\ \A a, b \in DOMAIN j.requests : a < b => j.requests[a].timestamp < j.requests[b].timestamp
     /\ \A a \in DOMAIN j.requests : getServerIdx(j.requests[a].key) = s

(* No server stores a key of another.                                      *)
KeysAtHome == \A s \in Servers : \A k \in mp[s] : getServerIdx(k) = s

(* A worker waits exactly while it has a batch.                            *)
RoundShape(w) ==
  /\ pc[w] = "await" <=> batch[w] # <<>>
  /\ pc[w] # "await" => \A s \in Servers : call[w][s] = "none"
  /\ Numbered(batch[w])
  /\ \A s \in Servers : CallShape(w, s) /\ JobShape(w, s)

RoundInv ==
  /\ ClientTypes /\ ServerTypes /\ KeysAtHome
  /\ \A w \in Workers : RoundShape(w)

-----------------------------------------------------------------------------
(* Each request of a worker.                                               *)

TimestampsOf(j, first) ==
  {j.requests[i].timestamp : i \in first .. Len(j.requests)}

(* The timestamps of the requests of w that s has, and has yet to serve.   *)
Had(w, s) == TimestampsOf(job[w][s], 1)
Unserved(w, s) == TimestampsOf(job[w][s], Len(job[w][s].responses) + 1)

(* What is served was sent; what is still to be served was not served, and *)
(* only one server has it.                                                 *)
OncePerRequest(w) ==
  /\ pc[w] = "dial" => timestamp[w] = 0
  /\ served[w] \subseteq 0 .. timestamp[w]
  /\ \A s \in Servers :
       /\ Had(w, s) \subseteq 0 .. timestamp[w]
       /\ Unserved(w, s) \cap served[w] = {}
       /\ \A t \in Servers \ {s} : Unserved(w, s) \cap Unserved(w, t) = {}

OnceInv ==
  /\ served \in [Workers -> SUBSET Nat]
  /\ \A w \in Workers : OncePerRequest(w)

-----------------------------------------------------------------------------
(* The ledgers.                                                            *)

(* What the servers counted and a worker may yet count.                    *)
Answered(w, s) == IF Calling(w, s) THEN Len(job[w][s].responses) ELSE 0
AnsweredOf(w) == SumFunction([s \in Servers |-> Answered(w, s)])
InFlight == SumFunction([w \in Workers |-> AnsweredOf(w)])

ServedLedger ==
  /\ Completed + InFlight <= Served
  /\ (\A w \in Workers : broken[w] = {}) => Completed + InFlight = Served

(* What the servers have still to serve, whether anybody waits for it or   *)
(* not, was sent too.                                                      *)
Waiting(w, s) == Len(job[w][s].requests) - Len(job[w][s].responses)
WaitingOf(w) == SumFunction([s \in Servers |-> Waiting(w, s)])
AtServers == SumFunction([w \in Workers |-> WaitingOf(w)])

Sent == SumFunction([w \in Workers |-> rounds[w] * BatchSize])

SentLedger ==
  /\ rounds \in [Workers -> 0 .. MaxRounds]
  /\ Served + AtServers <= Sent

(* What finished workers have sent, and the main goroutine has added up.   *)
Finished == {w \in Workers : pc[w] = "finished"}
FinishedOps == [w \in Workers |-> IF w \in Finished THEN opsCompleted[w] ELSE 0]

ChannelLedger ==
  /\ totalOps + SumFunction(resultsCh) = SumFunction(FinishedOps)
  /\ collected + Len(resultsCh) = Cardinality(Finished)
  /\ main \in {"collect", "printed"} => Finished = Workers
  /\ main = "printed" => resultsCh = <<>>

(* A report under way has copied the puts.                                 *)
ReportLedger ==
  /\ prevStats \in [Servers -> [Counters -> Nat]] /\ printed = prevStats
  /\ snap \in [Servers -> Nat \cup {None}]
  /\ \A s \in Servers :
       /\ \A c \in Counters : prevStats[s][c] <= stats[s][c]
       /\ snap[s] # None => prevStats[s]["puts"] <= snap[s] /\ snap[s] <= stats[s]["puts"]

(* No counter is about to wrap.                                            *)
CountersFit == \A s \in Servers, c \in Counters : stats[s][c] < WordSize - 1
=============================================================================
