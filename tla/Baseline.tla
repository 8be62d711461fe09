------------------------------ MODULE Baseline ------------------------------
(* The TCP baseline: the client program (baseline/kvs/client/main.go), a   *)
(* process whose workers draw batches, split them by server, send the      *)
(* parts as asynchronous calls and wait for all of them; and the servers   *)
(* (baseline/kvs/server/main.go), where net/rpc gives every request a      *)
(* goroutine of its own and another goroutine prints what was served.      *)
(* Each worker has a connection of its own to each server.  A connection   *)
(* may break; calls over it fail from then on, while the server may still  *)
(* be working on the last one.                                             *)
EXTENDS Integers, Sequences, FiniteSets, Functions

CONSTANTS
  Workers,
  NumServers,
  Keys,
  Ops,        \* the operations the workload draws
  Hash,       \* Hash[k]: the FNV-1a sum of the key
  BatchSize,
  MaxRounds,  \* bound: batches a worker sends before the time is up
  Reporting,  \* bound: the servers whose reports are followed
  Breakable,  \* bound: the servers to which connections break
  WordSize,   \* 2^64, the counters of a server are taken modulo this
  MaxBroken   \* bound: connections that break

ASSUME WorkersAssumption == IsFiniteSet(Workers)
ASSUME BaselineAssumption ==
  /\ {NumServers, BatchSize, MaxRounds, WordSize} \subseteq Nat \ {0}
  /\ Reporting \subseteq 0 .. (NumServers - 1)
  /\ Hash \in [Keys -> Nat]
  /\ MaxBroken \in Nat
  /\ Breakable \subseteq 0 .. (NumServers - 1)
  /\ Ops \subseteq [key : Keys, isRead : BOOLEAN]

VARIABLES
  \* the client program
  uniqueTimestamp, done, resultsCh, main, totalOps, collected,
  \* its workers
  pc, timestamp, batch, rounds, opsCompleted,
  call,    \* call[w][s]: "none", "pending", "replied" or "failed"
  broken,  \* broken[w]: the servers to which the connection is broken
  \* the servers
  job,     \* job[w][s]: the request of w that s has or is about to get
  mp,      \* mp[s]: the keys stored at s; there is one value
  stats, prevStats,
  served,  \* history: served[w]: the timestamps of w's requests served anywhere
  snap,    \* snap[s]: the puts that printStats has copied, None between reports
  printed  \* printed[s]: the sum of all differences printed

workerVars == <<pc, timestamp, batch, rounds, opsCompleted, broken>>
clientVars == <<uniqueTimestamp, done, resultsCh, main, totalOps, collected>>
printVars == <<prevStats, snap, printed>>
vars == <<clientVars, workerVars, call, job, mp, stats, served, printVars>>

Servers == 0 .. (NumServers - 1)
Counters == {"puts", "gets"}
None == -1

getServerIdx(k) == Hash[k] % NumServers

NoJob == [requests |-> <<>>, responses |-> <<>>]

Running == main # "exited"
Goto(w, to) == pc' = [pc EXCEPT ![w] = to]

-----------------------------------------------------------------------------
(* The workers.  Failing to dial any server ends the whole process.        *)
Dial(w) ==
  /\ Running /\ pc[w] = "dial"
  /\ \/ /\ Goto(w, "loop")
        /\ uniqueTimestamp' = uniqueTimestamp + 1
        /\ timestamp' = [timestamp EXCEPT ![w] = uniqueTimestamp']
        /\ UNCHANGED main
     \/ /\ main' = "exited"
        /\ UNCHANGED <<pc, timestamp, uniqueTimestamp>>
  /\ UNCHANGED <<done, resultsCh, totalOps, collected, batch, rounds, opsCompleted,
                 broken, call, job, mp, stats, served, printVars>>

(* ServerBatch: the part of a batch that goes to server s, a set because   *)
(* BatchRequest at the server sorts it first.  The timestamps of a batch   *)
(* differ.                                                                 *)
PartAll(requests, s) == Range(requests)
Part(requests, s) == {r \in Range(requests) : getServerIdx(r.key) = s}

ByTimestampDesc(r1, r2) == r1.timestamp > r2.timestamp
ByTimestamp(r1, r2) == r1.timestamp < r2.timestamp

Sorted(part) ==
  CHOOSE q \in [1 .. Cardinality(part) -> part] :
    /\ Range(q) = part
    /\ \A i, j \in 1 .. Cardinality(part) : i < j => ByTimestamp(q[i], q[j])

NewJob(part) == [NoJob EXCEPT !.requests = Sorted(part)]

(* The batch is drawn, and a call started for each part that is not empty; *)
(* over a broken connection it fails at once.  The worker's own copy of    *)
(* the timestamp counts on.                                                *)
SendBatch(w) ==
  /\ Running /\ pc[w] = "loop" /\ ~done /\ rounds[w] < MaxRounds
  /\ \E ops \in [1 .. BatchSize -> Ops] :
       LET requests == [j \in 1 .. BatchSize |->
                          [key |-> ops[j].key, isRead |-> ops[j].isRead,
                           timestamp |-> timestamp[w] + j]]
           sent(s) == Part(requests, s) # {} /\ s \notin broken[w]
       IN /\ batch' = [batch EXCEPT ![w] = requests]
          /\ call' = [call EXCEPT ![w] =
                        [s \in Servers |-> IF Part(requests, s) = {} THEN "none"
                                           ELSE IF sent(s) THEN "pending" ELSE "failed"]]
          /\ job' = [job EXCEPT ![w] =
                       [s \in Servers |->
                          IF sent(s) THEN NewJob(Part(requests, s)) ELSE @[s]]]
  /\ timestamp' = [timestamp EXCEPT ![w] = @ + BatchSize]
  /\ rounds' = [rounds EXCEPT ![w] = @ + 1]
  /\ Goto(w, "await")
  /\ UNCHANGED <<clientVars, opsCompleted, broken, mp, stats, served, printVars>>

(* All calls are done.  A failed one has an empty list of responses.       *)
CountRequests(w, s) == Cardinality(Part(batch[w], s))
CountResponses(w, s) == IF call[w][s] = "replied" THEN Len(job[w][s].responses) ELSE 0

CollectReplies(w) ==
  /\ Running /\ pc[w] = "await"
  /\ \A s \in Servers : call[w][s] # "pending"
  /\ opsCompleted' = [opsCompleted EXCEPT ![w] =
                        @ + SumFunction([s \in Servers |-> CountResponses(w, s)])]
  /\ job' = [job EXCEPT ![w] = [s \in Servers |-> IF call[w][s] = "replied" THEN NoJob ELSE @[s]]]
  /\ call' = [call EXCEPT ![w] = [s \in Servers |-> "none"]]
  /\ batch' = [batch EXCEPT ![w] = <<>>]
  /\ Goto(w, "loop")
  /\ UNCHANGED <<clientVars, timestamp, rounds, broken, mp, stats, served, printVars>>

(* The loop ends, the result is sent, the connections closed: wg.Done.     *)
CapacityNone == 0
Capacity == Cardinality(Workers)

SendResult(w) ==
  /\ Running /\ pc[w] = "loop" /\ done
  /\ Len(resultsCh) < Capacity
  /\ resultsCh' = Append(resultsCh, opsCompleted[w])
  /\ Goto(w, "finished")
  /\ UNCHANGED <<uniqueTimestamp, done, main, totalOps, collected, timestamp, batch, rounds,
                 opsCompleted, broken, call, job, mp, stats, served, printVars>>

-----------------------------------------------------------------------------
(* The main goroutine.                                                     *)

TimeIsUp ==
  /\ main = "sleep"
  /\ done' = TRUE /\ main' = "wait"
  /\ UNCHANGED <<uniqueTimestamp, resultsCh, totalOps, collected, workerVars, call, job, mp,
                 stats, served, printVars>>

WaitForWorkers ==
  /\ main = "wait" /\ \A w \in Workers : pc[w] = "finished"
  /\ main' = "collect"
  /\ UNCHANGED <<uniqueTimestamp, done, resultsCh, totalOps, collected, workerVars, call, job, mp,
                 stats, served, printVars>>

CollectResult ==
  /\ main = "collect" /\ resultsCh # <<>>
  /\ totalOps' = totalOps + Head(resultsCh)
  /\ resultsCh' = Tail(resultsCh)
  /\ collected' = collected + 1
  /\ main' = IF collected' = Cardinality(Workers) THEN "printed" ELSE "collect"
  /\ UNCHANGED <<uniqueTimestamp, done, workerVars, call, job, mp, stats, served, printVars>>

-----------------------------------------------------------------------------
(* The servers.                                                            *)

(* The goroutine of a request does one item: the counter, then the map.    *)
(* Both are atomic, and nobody sees the one without the other but          *)
(* printStats, which looks at the counter only.                            *)
Apply(w, s) ==
  LET j == job[w][s]
      r == j.requests[Len(j.responses) + 1]
  IN /\ Len(j.responses) < Len(j.requests)
     /\ stats' = [stats EXCEPT ![s][IF r.isRead THEN "gets" ELSE "puts"] = (@ + 1) % WordSize]
     /\ mp' = [mp EXCEPT ![s] = IF r.isRead THEN @ ELSE @ \cup {r.key}]
     /\ job' = [job EXCEPT ![w][s].responses = Append(@, r.isRead /\ r.key \in mp[s])]
     /\ served' = [served EXCEPT ![w] = @ \cup {r.timestamp}]
     /\ UNCHANGED <<clientVars, workerVars, call, printVars>>

(* The goroutine has returned and its answer arrives.                      *)
Reply(w, s) ==
  /\ call[w][s] = "pending"
  /\ Len(job[w][s].responses) = Len(job[w][s].requests)
  /\ call' = [call EXCEPT ![w][s] = "replied"]
  /\ UNCHANGED <<clientVars, workerVars, job, mp, stats, served, printVars>>

(* The request may be lost with the connection, or served all the same;    *)
(* once its goroutine runs it is served to the end.                        *)
BreakConnection(w, s) ==
  /\ pc[w] \in {"loop", "await"} /\ s \notin broken[w]
  /\ SumFunction([v \in Workers |-> Cardinality(broken[v])]) < MaxBroken
  /\ broken' = [broken EXCEPT ![w] = @ \cup {s}]
  /\ call' = [call EXCEPT ![w][s] = IF @ = "pending" THEN "failed" ELSE @]
  /\ \/ UNCHANGED job
     \/ /\ call[w][s] = "pending" /\ job[w][s].responses = <<>>
        /\ job' = [job EXCEPT ![w][s] = NoJob]
  /\ UNCHANGED <<clientVars, pc, timestamp, batch, rounds, opsCompleted, mp, stats, served,
                 printVars>>

(* printStats copies the counters, puts and then gets, under a mutex that  *)
(* the goroutines of the requests do not take: in between they count on.   *)
CopyPuts(s) ==
  /\ snap[s] = None
  /\ snap' = [snap EXCEPT ![s] = stats[s]["puts"]]
  /\ UNCHANGED <<clientVars, workerVars, call, job, mp, stats, served, prevStats, printed>>

Copied(s) == [puts |-> snap[s], gets |-> stats[s]["gets"]]

Sub(new, old) == [c \in Counters |-> (new[c] - old[c]) % WordSize]

SetPrevReread(s) == prevStats' = [prevStats EXCEPT ![s] = stats[s]]
SetPrev(s) == prevStats' = [prevStats EXCEPT ![s] = Copied(s)]

Report(s) ==
  /\ snap[s] # None
  /\ SetPrev(s)
  /\ LET diff == Sub(Copied(s), prevStats[s])
     IN printed' = [printed EXCEPT ![s] = [c \in Counters |-> @[c] + diff[c]]]
  /\ snap' = [snap EXCEPT ![s] = None]
  /\ UNCHANGED <<clientVars, workerVars, call, job, mp, stats, served>>

-----------------------------------------------------------------------------
Zeros == [c \in Counters |-> 0]

Init ==
  /\ uniqueTimestamp = 0 /\ done = FALSE /\ resultsCh = <<>>
  /\ main = "sleep" /\ totalOps = 0 /\ collected = 0
  /\ pc = [w \in Workers |-> "dial"]
  /\ timestamp = [w \in Workers |-> 0]
  /\ batch = [w \in Workers |-> <<>>]
  /\ rounds = [w \in Workers |-> 0]
  /\ opsCompleted = [w \in Workers |-> 0]
  /\ call = [w \in Workers |-> [s \in Servers |-> "none"]]
  /\ broken = [w \in Workers |-> {}]
  /\ job = [w \in Workers |-> [s \in Servers |-> NoJob]]
  /\ mp = [s \in Servers |-> {}]
  /\ stats = [s \in Servers |-> Zeros]
  /\ prevStats = [s \in Servers |-> Zeros]
  /\ served = [w \in Workers |-> {}]
  /\ snap = [s \in Servers |-> None]
  /\ printed = [s \in Servers |-> Zeros]

Work(w) == Dial(w) \/ SendBatch(w) \/ CollectReplies(w) \/ SendResult(w)
Main == TimeIsUp \/ WaitForWorkers \/ CollectResult
Request(w, s) == Apply(w, s) \/ Reply(w, s)
PrintStats(s) == CopyPuts(s) \/ Report(s)

Next ==
  \/ Main
  \/ \E w \in Workers : Work(w)
  \/ \E w \in Workers, s \in Servers : Request(w, s)
  \/ \E w \in Workers, s \in Breakable : BreakConnection(w, s)
  \/ \E s \in Reporting : PrintStats(s)

Spec == Init /\ [][Next]_vars

(* Goroutines are scheduled, and a request or an answer arrives as long as *)
(* its connection does not break.                                          *)
Fairness ==
  /\ WF_vars(Main)
  /\ \A w \in Workers : WF_vars(Work(w))
  /\ \A w \in Workers, s \in Servers : WF_vars(Request(w, s))

FairSpec == Spec /\ Fairness

-----------------------------------------------------------------------------
(* Properties.                                                             *)

Served == SumFunction([s \in Servers |-> stats[s]["puts"] + stats[s]["gets"]])
Completed == SumFunction(opsCompleted)

(* The client's throughput counts only what the servers served, although a *)
(* failed call goes through the same code (client/main.go:134-142); if no  *)
(* connection broke, both ends report the same number.                     *)
CountsAgree ==
  /\ Completed <= Served
  /\ main = "printed" => totalOps = Completed
  /\ main = "printed" /\ (\A w \in Workers : broken[w] = {}) => totalOps = Served

(* No request of a worker is served twice, by one server or by two,        *)
(* wherever its connection breaks: what a goroutine of BatchRequest does   *)
(* next was not done before (client/main.go:107-133, server/main.go:84).   *)
(* A worker numbers its requests, so a timestamp tells which one it is.    *)
NextServed(w, s) == job[w][s].requests[Len(job[w][s].responses) + 1]
ServedOnce ==
  [][\A w \in Workers, s \in Servers :
       Len(job'[w][s].responses) > Len(job[w][s].responses) =>
         NextServed(w, s).timestamp \notin served[w]]_vars

(* No request is reported twice or left out between two reports, although  *)
(* the counters move while printStats copies them (server/main.go:103-113);*)
(* so the unsigned difference of Sub never wraps.                          *)
ReportsAddUp ==
  \A s \in Servers, c \in Counters :
    printed[s][c] = prevStats[s][c] /\ printed[s][c] <= stats[s][c]

(* The client program ends: nobody waits to send a result to the main      *)
(* goroutine, which waits for everybody (client/main.go:150, 206, 221).    *)
ClientEnds == <>(main \in {"printed", "exited"})

(* What baseline/README.md:32 says of the timestamps: request numbers, one *)
(* for each request in flight.                                             *)
TimestampsUnique ==
  \A v, w \in Workers :
    \A i \in DOMAIN batch[v], j \in DOMAIN batch[w] :
      batch[v][i].timestamp = batch[w][j].timestamp => v = w /\ i = j
=============================================================================
