--------------------------- MODULE BaselineProofs ---------------------------
(* Theorems about Baseline: reports add up, both ends count alike, and the *)
(* baseline implements BatchStore.                                         *)
EXTENDS BaselineRefinement, SetLemmas

-----------------------------------------------------------------------------
(* The reports of the servers.                                             *)

CountersTyped == stats \in [Servers -> [Counters -> 0 .. (WordSize - 1)]]
ReportInv == CountersTyped /\ ReportLedger

LEMMA WordSizeType == WordSize \in Nat /\ WordSize > 0
BY BaselineAssumption

LEMMA ReportInit == Init => ReportInv
BY WordSizeType DEF Init, ReportInv, CountersTyped, ReportLedger, Zeros, Counters, None

(* One more request is counted.                                            *)
LEMMA ApplyCounts ==
  ASSUME CountersTyped, CountersFit, NEW w \in Workers, NEW s \in Servers, Apply(w, s)
  PROVE  \E c \in Counters :
           /\ stats' = [stats EXCEPT ![s][c] = @ + 1]
           /\ CountersTyped'
<1> DEFINE r == job[w][s].requests[Len(job[w][s].responses) + 1]
<1>1. PICK c \in Counters : stats' = [stats EXCEPT ![s][c] = (@ + 1) % WordSize]
  <2>1. stats' = [stats EXCEPT ![s][IF r.isRead THEN "gets" ELSE "puts"] = (@ + 1) % WordSize]
    BY DEF Apply
  <2>2. (IF r.isRead THEN "gets" ELSE "puts") \in Counters
    BY DEF Counters
  <2> QED BY <2>1, <2>2
<1>2. stats[s][c] \in Nat /\ stats[s][c] < WordSize - 1
  BY WordSizeType DEF CountersTyped, CountersFit
<1>3. (stats[s][c] + 1) % WordSize = stats[s][c] + 1
  BY <1>2, WordSizeType
<1>4. stats' = [stats EXCEPT ![s][c] = @ + 1]
  BY <1>1, <1>3
<1>5. stats[s][c] + 1 \in 0 .. (WordSize - 1)
  BY <1>2, WordSizeType
<1>6. CountersTyped'
  BY <1>4, <1>5 DEF CountersTyped
<1> QED BY <1>4, <1>6

LEMMA ReportApply ==
  ASSUME ReportInv, CountersFit, NEW w \in Workers, NEW s \in Servers, Apply(w, s)
  PROVE  ReportInv'
<1>1. PICK c \in Counters : stats' = [stats EXCEPT ![s][c] = @ + 1] /\ CountersTyped'
  BY ApplyCounts DEF ReportInv
<1>2. UNCHANGED printVars
  BY DEF Apply
<1>3. \A t \in Servers, d \in Counters : /\ stats[t][d] \in Nat /\ stats'[t][d] \in Nat
                                        /\ stats[t][d] <= stats'[t][d]
  BY <1>1, WordSizeType DEF ReportInv, CountersTyped
<1>4. "puts" \in Counters
  BY DEF Counters
<1>5. ASSUME NEW t \in Servers
      PROVE  /\ \A d \in Counters : prevStats[t][d] <= stats'[t][d]
             /\ snap[t] # None => prevStats[t]["puts"] <= snap[t] /\ snap[t] <= stats'[t]["puts"]
  <2>1. \A d \in Counters : prevStats[t][d] \in Nat /\ prevStats[t][d] <= stats[t][d]
    BY DEF ReportInv, ReportLedger
  <2>2. snap[t] # None => snap[t] \in Nat /\ prevStats[t]["puts"] <= snap[t] /\ snap[t] <= stats[t]["puts"]
    BY DEF ReportInv, ReportLedger
  <2> QED BY <1>3, <1>4, <2>1, <2>2
<1>6. ReportLedger'
  BY <1>2, <1>5 DEF ReportInv, ReportLedger, printVars
<1> QED BY <1>1, <1>6 DEF ReportInv

LEMMA ReportCopyPuts ==
  ASSUME ReportInv, NEW s \in Servers, CopyPuts(s)
  PROVE  ReportInv'
<1>1. stats' = stats /\ prevStats' = prevStats /\ printed' = printed
  BY DEF CopyPuts
<1>2. snap' = [snap EXCEPT ![s] = stats[s]["puts"]]
  BY DEF CopyPuts
<1>3. "puts" \in Counters /\ stats[s]["puts"] \in Nat
  BY WordSizeType DEF Counters, ReportInv, CountersTyped
<1>4. snap' \in [Servers -> Nat \cup {None}]
  BY <1>2, <1>3 DEF ReportInv, ReportLedger
<1>5. prevStats[s]["puts"] <= stats[s]["puts"] /\ stats[s]["puts"] <= stats[s]["puts"]
  BY <1>3 DEF ReportInv, ReportLedger
<1>6. ReportLedger'
  BY <1>1, <1>2, <1>4, <1>5 DEF ReportInv, ReportLedger
<1> QED BY <1>1, <1>6 DEF ReportInv, CountersTyped

(* The difference that is printed is that of the numbers themselves: no    *)
(* counter that was copied is below the one that was printed last.         *)
LEMMA ReportReport ==
  ASSUME ReportInv, NEW s \in Servers, Report(s)
  PROVE  ReportInv'
<1> USE WordSizeType
<1>1. stats' = stats /\ snap[s] # None /\ snap' = [snap EXCEPT ![s] = None]
  BY DEF Report
<1>2. prevStats' = [prevStats EXCEPT ![s] = Copied(s)]
  BY DEF Report, SetPrev
<1>3. ASSUME NEW c \in Counters
      PROVE  /\ Copied(s)[c] \in Nat /\ Copied(s)[c] <= stats[s][c] /\ stats[s][c] < WordSize
             /\ prevStats[s][c] \in Nat /\ prevStats[s][c] <= Copied(s)[c]
             /\ Sub(Copied(s), prevStats[s])[c] = Copied(s)[c] - prevStats[s][c]
  <2>1. stats[s][c] \in Nat /\ stats[s][c] < WordSize
    BY DEF ReportInv, CountersTyped
  <2>2. prevStats[s][c] \in Nat /\ prevStats[s][c] <= stats[s][c]
    BY DEF ReportInv, ReportLedger
  <2>3. Copied(s)[c] = IF c = "puts" THEN snap[s] ELSE stats[s][c]
    BY DEF Copied, Counters
  <2>4. /\ snap[s] \in Nat /\ prevStats[s]["puts"] <= snap[s] /\ snap[s] <= stats[s]["puts"]
    BY <1>1 DEF ReportInv, ReportLedger
  <2>5. /\ Copied(s)[c] \in Nat /\ Copied(s)[c] <= stats[s][c] /\ prevStats[s][c] <= Copied(s)[c]
    BY <2>1, <2>2, <2>3, <2>4
  <2>6. Sub(Copied(s), prevStats[s])[c] = (Copied(s)[c] - prevStats[s][c]) % WordSize
    BY DEF Sub
  <2>7. (Copied(s)[c] - prevStats[s][c]) % WordSize = Copied(s)[c] - prevStats[s][c]
    <3>1. PICK d : d = Copied(s)[c] - prevStats[s][c]
      OBVIOUS
    <3>2. d \in 0 .. (WordSize - 1)
      BY <2>1, <2>2, <2>5, <3>1
    <3> QED BY <3>1, <3>2
  <2> QED BY <2>1, <2>2, <2>5, <2>6, <2>7
<1>4. Copied(s) \in [Counters -> Nat]
  <2>1. Copied(s) = [c \in Counters |-> Copied(s)[c]]
    BY DEF Copied, Counters
  <2> QED BY <2>1, <1>3
<1>5. prevStats' \in [Servers -> [Counters -> Nat]]
  BY <1>2, <1>4 DEF ReportInv, ReportLedger
<1>6. printed' = prevStats'
  <2>1. printed' = [printed EXCEPT ![s] = [c \in Counters |-> @[c] + Sub(Copied(s), prevStats[s])[c]]]
    BY DEF Report
  <2>2. printed[s] = prevStats[s] /\ printed = prevStats
    BY DEF ReportInv, ReportLedger
  <2>3. \A c \in Counters : printed[s][c] + Sub(Copied(s), prevStats[s])[c] = Copied(s)[c]
    BY <1>3, <2>2
  <2>4. [c \in Counters |-> printed[s][c] + Sub(Copied(s), prevStats[s])[c]] = Copied(s)
    <3>1. Copied(s) = [c \in Counters |-> Copied(s)[c]]
      BY <1>4
    <3> QED BY <2>3, <3>1
  <2> QED BY <1>2, <2>1, <2>2, <2>4
<1>7. snap' \in [Servers -> Nat \cup {None}]
  BY <1>1 DEF ReportInv, ReportLedger
<1>8. ASSUME NEW t \in Servers
      PROVE  /\ \A c \in Counters : prevStats'[t][c] <= stats[t][c]
             /\ snap'[t] # None => prevStats'[t]["puts"] <= snap'[t] /\ snap'[t] <= stats[t]["puts"]
  <2>1. CASE t = s
    <3>1. snap'[t] = None /\ prevStats'[t] = Copied(s)
      BY <1>1, <1>2, <2>1 DEF ReportInv, ReportLedger
    <3> QED BY <3>1, <1>3, <2>1
  <2>2. CASE t # s
    <3>1. snap'[t] = snap[t] /\ prevStats'[t] = prevStats[t]
      BY <1>1, <1>2, <2>2 DEF ReportInv, ReportLedger
    <3> QED BY <3>1 DEF ReportInv, ReportLedger
  <2> QED BY <2>1, <2>2
<1>9. ReportLedger'
  BY <1>1, <1>5, <1>6, <1>7, <1>8 DEF ReportLedger
<1> QED BY <1>1, <1>9 DEF ReportInv, CountersTyped

LEMMA ReportNext == ReportInv /\ CountersFit /\ [Next]_vars => ReportInv'
<1> SUFFICES ASSUME ReportInv, CountersFit, [Next]_vars PROVE ReportInv'
  OBVIOUS
<1>1. ASSUME UNCHANGED <<stats, printVars>> PROVE ReportInv'
  BY <1>1 DEF ReportInv, CountersTyped, ReportLedger, printVars
<1>2. CASE Main
  BY <1>1, <1>2 DEF Main, TimeIsUp, WaitForWorkers, CollectResult
<1>3. ASSUME NEW w \in Workers, Work(w) PROVE ReportInv'
  BY <1>1, <1>3 DEF Work, Dial, SendBatch, CollectReplies, SendResult
<1>4. ASSUME NEW w \in Workers, NEW s \in Servers, Request(w, s) PROVE ReportInv'
  BY <1>1, <1>4, ReportApply DEF Request, Reply
<1>5. ASSUME NEW w \in Workers, NEW s \in Breakable, BreakConnection(w, s) PROVE ReportInv'
  BY <1>1, <1>5 DEF BreakConnection
<1>6. ASSUME NEW s \in Reporting, PrintStats(s) PROVE ReportInv'
  <2>1. s \in Servers
    BY BaselineAssumption DEF Servers
  <2> QED BY <1>6, <2>1, ReportCopyPuts, ReportReport DEF PrintStats
<1>7. CASE UNCHANGED vars
  BY <1>1, <1>7 DEF vars
<1> QED BY <1>2, <1>3, <1>4, <1>5, <1>6, <1>7 DEF Next

(* Until a counter of a server comes to its end, the reports of the server *)
(* add up to what it had served when it last looked, whatever the requests *)
(* do while it looks (server/main.go:23-28, 103-113).                      *)
THEOREM ReportsComplete == Spec /\ []CountersFit => []ReportsAddUp
<1>1. Init => ReportInv
  BY ReportInit
<1>2. ReportInv /\ CountersFit /\ [Next]_vars => ReportInv'
  BY ReportNext
<1>3. ReportInv => ReportsAddUp
  BY DEF ReportInv, ReportLedger, ReportsAddUp
<1> QED BY <1>1, <1>2, <1>3, PTL DEF Spec

-----------------------------------------------------------------------------
(* The parts of a batch, sorted by their servers.                          *)

LEMMA ServerOfKey ==
  ASSUME NEW k \in Keys PROVE getServerIdx(k) \in Servers
<1>1. Hash[k] \in Nat /\ NumServers \in Nat /\ NumServers > 0
  BY BaselineAssumption
<1>2. Hash[k] % NumServers \in 0 .. (NumServers - 1)
  BY <1>1
<1> QED BY <1>2 DEF getServerIdx, Servers

LEMMA TimesInOrder ==
  ASSUME NEW requests \in Seq(Timestamped), Numbered(requests),
         NEW i \in DOMAIN requests, NEW j \in DOMAIN requests
  PROVE  i < j <=> requests[i].timestamp < requests[j].timestamp
<1>1. requests[1] \in Timestamped
  OBVIOUS
<1>2. requests[1].timestamp \in Nat /\ i \in Nat /\ j \in Nat
  BY <1>1 DEF Timestamped
<1>3. /\ requests[i].timestamp = requests[1].timestamp + i - 1
      /\ requests[j].timestamp = requests[1].timestamp + j - 1
  BY DEF Numbered
<1> QED BY <1>2, <1>3

LEMMA TimesDiffer ==
  ASSUME NEW requests \in Seq(Timestamped), Numbered(requests),
         NEW i \in DOMAIN requests, NEW j \in DOMAIN requests,
         requests[i].timestamp = requests[j].timestamp
  PROVE  i = j
<1>1. requests[i] \in Timestamped /\ requests[j] \in Timestamped /\ i \in Nat /\ j \in Nat
  OBVIOUS
<1>2. requests[i].timestamp \in Nat /\ requests[j].timestamp \in Nat
  BY <1>1 DEF Timestamped
<1>3. (i < j => requests[i].timestamp < requests[j].timestamp)
      /\ (j < i => requests[j].timestamp < requests[i].timestamp)
  BY TimesInOrder
<1> QED BY <1>1, <1>2, <1>3

LEMMA PartFinite ==
  ASSUME NEW requests \in Seq(Timestamped), Numbered(requests), NEW s,
         NEW P, P = {i \in DOMAIN requests : getServerIdx(requests[i].key) = s}
  PROVE  /\ IsFiniteSet(P) /\ IsFiniteSet(Part(requests, s))
         /\ Cardinality(Part(requests, s)) = Cardinality(P) /\ Cardinality(P) \in Nat
<1>1. IsFiniteSet(P)
  <2>1. PICK D : D = 1 .. Len(requests)
    OBVIOUS
  <2>2. IsFiniteSet(D) /\ P \in SUBSET D
    BY <2>1, FS_Interval
  <2> QED BY <2>2, FS_Subset
<1> DEFINE f == [i \in P |-> requests[i]]
<1>2. f \in [P -> Part(requests, s)]
  BY DEF Part, Range
<1>3. ASSUME NEW i \in P, NEW j \in P, f[i] = f[j] PROVE i = j
  <2>1. i \in DOMAIN requests /\ j \in DOMAIN requests
    OBVIOUS
  <2>2. requests[i].timestamp = requests[j].timestamp
    BY <1>3
  <2> QED BY ONLY <2>1, <2>2, TimesDiffer, requests \in Seq(Timestamped), Numbered(requests)
<1>4. \A t \in Part(requests, s) : \E i \in P : f[i] = t
  BY DEF Part, Range
<1> HIDE DEF f
<1>5. IsFiniteSet(Part(requests, s)) /\ Cardinality(Part(requests, s)) = Cardinality(P)
  <2>1. PICK T : T = Part(requests, s)
    OBVIOUS
  <2>2. f \in [P -> T] /\ \A t \in T : \E i \in P : f[i] = t
    BY <1>2, <1>4, <2>1
  <2>3. \A i, j \in P : f[i] = f[j] => i = j
    BY <1>3
  <2>4. IsFiniteSet(T) /\ Cardinality(T) = Cardinality(P)
    BY ONLY <1>1, <2>2, <2>3, SameCardinality
  <2> QED BY <2>1, <2>4
<1> QED BY <1>1, <1>5, FS_CardinalityType

(* A part can be sorted, and there is one way to do it.                    *)
LEMMA SortedPart ==
  ASSUME NEW requests \in Seq(Timestamped), Numbered(requests), NEW s,
         NEW q, q = Sorted(Part(requests, s))
  PROVE  /\ q \in Seq(Timestamped) /\ DOMAIN q = 1 .. Cardinality(Part(requests, s))
         /\ Range(q) = Part(requests, s)
         /\ \A a, b \in DOMAIN q : a < b => q[a].timestamp < q[b].timestamp
<1>1. PICK N : N = Len(requests)
  OBVIOUS
<1>2. N \in Nat /\ DOMAIN requests = 1 .. N
  BY <1>1
<1>3. PICK P : P = {i \in DOMAIN requests : getServerIdx(requests[i].key) = s}
  OBVIOUS
<1>4. PICK part : part = Part(requests, s)
  OBVIOUS
<1>5. PICK n : n = Cardinality(P)
  OBVIOUS
<1>6. n \in Nat /\ Cardinality(part) = n
  BY <1>3, <1>4, <1>5, PartFinite
<1>7. PICK f \in [1 .. n -> P] :
        /\ \A a, b \in 1 .. n : a < b => f[a] < f[b]
        /\ \A i \in P : \E a \in 1 .. n : f[a] = i
  <2>1. P \in SUBSET (1 .. N)
    BY <1>2, <1>3
  <2>2. \A Q \in SUBSET (1 .. N) : \E f \in [1 .. Cardinality(Q) -> Q] :
          /\ \A a, b \in 1 .. Cardinality(Q) : a < b => f[a] < f[b]
          /\ \A i \in Q : \E a \in 1 .. Cardinality(Q) : f[a] = i
    BY ONLY <1>2, InOrderExists
  <2> QED BY ONLY <1>5, <2>1, <2>2
<1> DEFINE g == [a \in 1 .. n |-> requests[f[a]]]
           Fine(h) == /\ Range(h) = part
                      /\ \A i, j \in 1 .. n : i < j => ByTimestamp(h[i], h[j])
<1>8. \A r : r \in part <=> \E i \in P : r = requests[i]
  BY <1>3, <1>4 DEF Part, Range
<1>9. g \in [1 .. n -> part]
  BY <1>7, <1>8
<1>10. Fine(g)
  <2>1. Range(g) = part
    <3>1. \A a \in 1 .. n : g[a] \in part
      BY <1>9
    <3>2. ASSUME NEW r \in part PROVE \E a \in 1 .. n : g[a] = r
      <4>1. PICK i \in P : r = requests[i]
        BY <1>8
      <4>2. PICK a \in 1 .. n : f[a] = i
        BY <1>7
      <4> QED BY <4>1, <4>2
    <3> QED BY <3>1, <3>2 DEF Range
  <2>2. ASSUME NEW i \in 1 .. n, NEW j \in 1 .. n, i < j PROVE ByTimestamp(g[i], g[j])
    <3>1. f[i] < f[j] /\ f[i] \in 1 .. N /\ f[j] \in 1 .. N
      BY <1>2, <1>3, <1>7, <2>2
    <3>2. requests[1] \in Timestamped
      BY <1>2, <3>1
    <3>3. requests[1].timestamp \in Nat
      BY <3>2 DEF Timestamped
    <3>4. /\ requests[f[i]].timestamp = requests[1].timestamp + f[i] - 1
          /\ requests[f[j]].timestamp = requests[1].timestamp + f[j] - 1
      BY <1>2, <3>1 DEF Numbered
    <3> QED BY <3>1, <3>3, <3>4 DEF ByTimestamp
  <2> QED BY <2>1, <2>2
<1>11. q = CHOOSE h \in [1 .. n -> part] : Fine(h)
  BY <1>4, <1>6 DEF Sorted
<1> HIDE DEF g, Fine
<1>12. q \in [1 .. n -> part] /\ Fine(q)
  BY <1>9, <1>10, <1>11
<1>13. part \subseteq Timestamped
  BY <1>4 DEF Part, Range
<1> QED BY <1>4, <1>6, <1>12, <1>13 DEF Fine, ByTimestamp

-----------------------------------------------------------------------------
(* The rounds of the workers.                                              *)

LEMMA RoundInit == Init => RoundInv
<1> SUFFICES ASSUME Init PROVE RoundInv
  OBVIOUS
<1>1. ClientTypes
  BY DEF Init, ClientTypes
<1>2. NoJob \in Jobs
  BY DEF NoJob, Jobs
<1>3. ServerTypes
  BY <1>2, WordSizeType DEF Init, ServerTypes, Zeros
<1>4. KeysAtHome
  BY DEF Init, KeysAtHome
<1>5. \A w \in Workers : RoundShape(w)
  BY DEF Init, RoundShape, Numbered, CallShape, JobShape, Calling, NoJob
<1> QED BY <1>1, <1>3, <1>4, <1>5 DEF RoundInv

(* Other workers are where they were.                                      *)
LEMMA OtherRounds ==
  ASSUME RoundInv, ClientTypes', ServerTypes', KeysAtHome', NEW w \in Workers, RoundShape(w)',
         \A v \in Workers \ {w} : /\ pc'[v] = pc[v] /\ batch'[v] = batch[v] /\ call'[v] = call[v]
                                  /\ broken'[v] = broken[v] /\ job'[v] = job[v]
  PROVE  RoundInv'
<1>1. ASSUME NEW v \in Workers, v # w PROVE RoundShape(v)'
  <2>1. RoundShape(v)
    BY DEF RoundInv
  <2>2. /\ pc'[v] = pc[v] /\ batch'[v] = batch[v] /\ call'[v] = call[v]
        /\ broken'[v] = broken[v] /\ job'[v] = job[v]
    BY <1>1
  <2>3. \A s \in Servers : (CallShape(v, s) => CallShape(v, s)') /\ (JobShape(v, s) => JobShape(v, s)')
    BY <2>2 DEF CallShape, JobShape, Calling
  <2> QED BY <2>1, <2>2, <2>3 DEF RoundShape
<1> QED BY <1>1 DEF RoundInv

LEMMA RoundQuiet ==
  ASSUME RoundInv, ClientTypes', UNCHANGED <<batch, call, broken, job, mp, stats>>,
         \A w \in Workers : pc'[w] = "await" <=> pc[w] = "await"
  PROVE  RoundInv'
<1>1. ServerTypes' /\ KeysAtHome'
  BY DEF RoundInv, ServerTypes, KeysAtHome
<1>2. ASSUME NEW w \in Workers PROVE RoundShape(w)'
  <2>1. RoundShape(w)
    BY DEF RoundInv
  <2>2. \A s \in Servers : (CallShape(w, s) => CallShape(w, s)') /\ (JobShape(w, s) => JobShape(w, s)')
    BY DEF CallShape, JobShape, Calling
  <2> QED BY <2>1, <2>2 DEF RoundShape
<1> QED BY <1>1, <1>2 DEF RoundInv

LEMMA RoundDial ==
  ASSUME RoundInv, NEW w \in Workers, Dial(w)
  PROVE  RoundInv'
<1>1. UNCHANGED <<batch, call, broken, job, mp, stats, totalOps, collected, resultsCh, opsCompleted>>
  BY DEF Dial
<1>2. ClientTypes'
  <2>1. uniqueTimestamp' \in Nat /\ timestamp' \in [Workers -> Nat]
    <3>1. uniqueTimestamp \in Nat /\ timestamp \in [Workers -> Nat]
      BY DEF RoundInv, ClientTypes
    <3>2. \/ uniqueTimestamp' = uniqueTimestamp /\ timestamp' = timestamp
          \/ /\ uniqueTimestamp' = uniqueTimestamp + 1
             /\ timestamp' = [timestamp EXCEPT ![w] = uniqueTimestamp']
      BY DEF Dial
    <3> QED BY <3>1, <3>2
  <2>2. pc' \in [Workers -> {"dial", "loop", "await", "finished"}]
        /\ main' \in {"sleep", "wait", "collect", "printed", "exited"}
    BY DEF RoundInv, ClientTypes, Dial, Goto
  <2> QED BY <1>1, <2>1, <2>2 DEF RoundInv, ClientTypes
<1>3. \A v \in Workers : pc'[v] = "await" <=> pc[v] = "await"
  BY DEF RoundInv, ClientTypes, Dial, Goto
<1> QED BY <1>1, <1>2, <1>3, RoundQuiet

LEMMA RoundSendResult ==
  ASSUME RoundInv, NEW w \in Workers, SendResult(w)
  PROVE  RoundInv'
<1>1. UNCHANGED <<batch, call, broken, job, mp, stats>>
  BY DEF SendResult
<1>2. ClientTypes'
  <2>1. opsCompleted[w] \in Nat /\ resultsCh \in Seq(Nat)
    BY DEF RoundInv, ClientTypes
  <2>2. resultsCh' \in Seq(Nat)
    BY <2>1 DEF SendResult
  <2>3. pc' \in [Workers -> {"dial", "loop", "await", "finished"}]
    BY DEF RoundInv, ClientTypes, SendResult, Goto
  <2> QED BY <2>2, <2>3 DEF RoundInv, ClientTypes, SendResult
<1>3. \A v \in Workers : pc'[v] = "await" <=> pc[v] = "await"
  BY DEF RoundInv, ClientTypes, SendResult, Goto
<1> QED BY <1>1, <1>2, <1>3, RoundQuiet

LEMMA RoundMain ==
  ASSUME RoundInv, Main
  PROVE  RoundInv'
<1>1. UNCHANGED <<workerVars, uniqueTimestamp, call, job, mp, stats>>
  BY DEF Main, TimeIsUp, WaitForWorkers, CollectResult
<1>2. totalOps' \in Nat /\ collected' \in Nat /\ resultsCh' \in Seq(Nat)
  <2>1. totalOps \in Nat /\ collected \in Nat /\ resultsCh \in Seq(Nat)
    BY DEF RoundInv, ClientTypes
  <2>2. resultsCh # <<>> => Head(resultsCh) \in Nat /\ Tail(resultsCh) \in Seq(Nat)
    BY <2>1
  <2>3. CASE TimeIsUp \/ WaitForWorkers
    BY <2>1, <2>3 DEF TimeIsUp, WaitForWorkers
  <2>4. CASE CollectResult
    <3>1. /\ totalOps' = totalOps + Head(resultsCh) /\ resultsCh' = Tail(resultsCh)
          /\ collected' = collected + 1 /\ resultsCh # <<>>
      BY <2>4 DEF CollectResult
    <3> QED BY <2>1, <2>2, <3>1
  <2> QED BY <2>3, <2>4 DEF Main
<1>3. main' \in {"sleep", "wait", "collect", "printed", "exited"}
  BY DEF Main, TimeIsUp, WaitForWorkers, CollectResult
<1>4. ClientTypes'
  BY <1>1, <1>2, <1>3 DEF RoundInv, ClientTypes, workerVars
<1> QED BY <1>1, <1>4, RoundQuiet DEF workerVars

LEMMA RoundStutter ==
  ASSUME RoundInv, UNCHANGED <<clientVars, workerVars, call, job, mp, stats>>
  PROVE  RoundInv'
<1>1. ClientTypes'
  BY DEF RoundInv, ClientTypes, clientVars, workerVars
<1> QED BY <1>1, RoundQuiet DEF workerVars

(* What SendBatch does to the row of its worker.                           *)
Sends(w, requests) ==
  /\ requests \in Seq(Timestamped) /\ requests # <<>> /\ Numbered(requests)
  /\ Len(requests) = BatchSize
  /\ \A r \in Range(requests) : timestamp[w] < r.timestamp /\ r.timestamp <= timestamp'[w]
  /\ timestamp[w] <= timestamp'[w] /\ \A v \in Workers \ {w} : timestamp'[v] = timestamp[v]
  /\ batch' = [batch EXCEPT ![w] = requests]
  /\ pc[w] = "loop" /\ pc' = [pc EXCEPT ![w] = "await"]
  /\ \A s \in Servers :
       /\ call'[w][s] = IF Part(requests, s) = {} THEN "none"
                        ELSE IF s \notin broken[w] THEN "pending" ELSE "failed"
       /\ job'[w][s] = IF Part(requests, s) # {} /\ s \notin broken[w]
                       THEN NewJob(Part(requests, s)) ELSE job[w][s]
  /\ \A v \in Workers \ {w} : call'[v] = call[v] /\ job'[v] = job[v]
  /\ UNCHANGED <<clientVars, opsCompleted, broken, mp, stats, served, printVars>>

LEMMA NewJobType ==
  ASSUME NEW requests \in Seq(Timestamped), Numbered(requests), NEW s
  PROVE  /\ NewJob(Part(requests, s)) \in Jobs
         /\ NewJob(Part(requests, s)).responses = <<>>
         /\ NewJob(Part(requests, s)).requests = Sorted(Part(requests, s))
<1>1. PICK q : q = Sorted(Part(requests, s))
  OBVIOUS
<1>2. q \in Seq(Timestamped)
  BY <1>1, SortedPart
<1>3. NewJob(Part(requests, s)) = [requests |-> q, responses |-> <<>>]
  BY <1>1 DEF NewJob, NoJob
<1> QED BY <1>1, <1>2, <1>3 DEF Jobs

LEMMA SendFacts ==
  ASSUME RoundInv, NEW w \in Workers, SendBatch(w)
  PROVE  /\ \E requests : Sends(w, requests)
         /\ timestamp' \in [Workers -> Nat]
         /\ call' \in [Workers -> [Servers -> {"none", "pending", "replied", "failed"}]]
         /\ job' \in [Workers -> [Servers -> Jobs]]
<1>1. PICK ops \in [1 .. BatchSize -> Ops] :
       LET requests == [j \in 1 .. BatchSize |->
                          [key |-> ops[j].key, isRead |-> ops[j].isRead,
                           timestamp |-> timestamp[w] + j]]
           sent(s) == Part(requests, s) # {} /\ s \notin broken[w]
       IN /\ batch' = [batch EXCEPT ![w] = requests]
          /\ call' = [call EXCEPT ![w] =
                        [s \in Servers |-> IF Part(requests, s) = {} THEN "none"
                                           ELSE IF sent(s) THEN "pending" ELSE "failed"]]
          /\ job' = [job EXCEPT ![w] =
                       [s \in Servers |->
                          IF sent(s) THEN NewJob(Part(requests, s)) ELSE @[s]]]
  BY DEF SendBatch
<1>2. PICK requests : requests = [j \in 1 .. BatchSize |->
                                    [key |-> ops[j].key, isRead |-> ops[j].isRead,
                                     timestamp |-> timestamp[w] + j]]
  OBVIOUS
<1>3. BatchSize \in Nat /\ BatchSize > 0 /\ timestamp[w] \in Nat
  BY BaselineAssumption DEF RoundInv, ClientTypes
<1>4. \A j \in 1 .. BatchSize : requests[j] \in Timestamped
  <2>1. \A j \in 1 .. BatchSize : ops[j] \in [key : Keys, isRead : BOOLEAN]
    BY BaselineAssumption
  <2> QED BY <2>1, <1>2, <1>3 DEF Timestamped
<1>5. /\ requests \in Seq(Timestamped) /\ DOMAIN requests = 1 .. BatchSize /\ requests # <<>>
      /\ Len(requests) = BatchSize
  <2>1. requests \in [1 .. BatchSize -> Timestamped] /\ DOMAIN requests = 1 .. BatchSize
    BY <1>2, <1>4
  <2>2. requests \in Seq(Timestamped)
    BY <2>1, <1>3
  <2>3. 1 \in DOMAIN requests
    BY <2>1, <1>3
  <2>4. requests # <<>>
    BY <2>2, <2>3
  <2>5. Len(requests) = BatchSize
    BY <1>3, <2>1, <2>2
  <2> QED BY <2>1, <2>2, <2>4, <2>5
<1>6. Numbered(requests)
  <2>1. \A j \in 1 .. BatchSize : requests[j].timestamp = timestamp[w] + j
    BY <1>2
  <2>2. requests[1].timestamp = timestamp[w] + 1
    BY <2>1, <1>3
  <2> QED BY <2>1, <2>2, <1>3, <1>5 DEF Numbered
<1>7. /\ batch' = [batch EXCEPT ![w] = requests]
      /\ call' = [call EXCEPT ![w] =
                    [s \in Servers |-> IF Part(requests, s) = {} THEN "none"
                                       ELSE IF s \notin broken[w] THEN "pending" ELSE "failed"]]
      /\ job' = [job EXCEPT ![w] =
                   [s \in Servers |->
                      IF Part(requests, s) # {} /\ s \notin broken[w] THEN NewJob(Part(requests, s))
                      ELSE job[w][s]]]
  BY <1>1, <1>2
<1>8. call' \in [Workers -> [Servers -> {"none", "pending", "replied", "failed"}]]
  BY <1>7 DEF RoundInv, ClientTypes
<1>9. job' \in [Workers -> [Servers -> Jobs]]
  <2>1. \A s \in Servers : NewJob(Part(requests, s)) \in Jobs
    BY <1>5, <1>6, NewJobType
  <2>2. job \in [Workers -> [Servers -> Jobs]]
    BY DEF RoundInv, ServerTypes
  <2> QED BY <1>7, <2>1, <2>2
<1>10. timestamp' \in [Workers -> Nat]
  BY <1>3 DEF SendBatch, RoundInv, ClientTypes
<1>11. Sends(w, requests)
  <2>1. \A s \in Servers :
       /\ call'[w][s] = IF Part(requests, s) = {} THEN "none"
                        ELSE IF s \notin broken[w] THEN "pending" ELSE "failed"
       /\ job'[w][s] = IF Part(requests, s) # {} /\ s \notin broken[w]
                       THEN NewJob(Part(requests, s)) ELSE job[w][s]
    BY <1>7 DEF RoundInv, ClientTypes, ServerTypes
  <2>2. \A v \in Workers \ {w} : call'[v] = call[v] /\ job'[v] = job[v]
    BY <1>7 DEF RoundInv, ClientTypes, ServerTypes
  <2>3. /\ pc[w] = "loop" /\ pc' = [pc EXCEPT ![w] = "await"]
        /\ UNCHANGED <<clientVars, opsCompleted, broken, mp, stats, served, printVars>>
    BY DEF SendBatch, Goto
  <2>4. /\ timestamp'[w] = timestamp[w] + BatchSize
        /\ \A v \in Workers \ {w} : timestamp'[v] = timestamp[v]
    BY DEF SendBatch, RoundInv, ClientTypes
  <2>5. \A r \in Range(requests) : timestamp[w] < r.timestamp /\ r.timestamp <= timestamp'[w]
    <3>1. \A j \in 1 .. BatchSize : requests[j].timestamp = timestamp[w] + j
      BY <1>2
    <3>2. \A j \in DOMAIN requests :
            timestamp[w] < requests[j].timestamp /\ requests[j].timestamp <= timestamp'[w]
      BY <1>3, <1>5, <2>4, <3>1
    <3> QED BY <3>2 DEF Range
  <2>6. timestamp[w] <= timestamp'[w]
    BY <1>3, <2>4
  <2> QED BY <1>5, <1>6, <1>7, <2>1, <2>2, <2>3, <2>4, <2>5, <2>6 DEF Sends
<1> QED BY <1>8, <1>9, <1>10, <1>11

LEMMA RoundSendBatch ==
  ASSUME RoundInv, NEW w \in Workers, SendBatch(w)
  PROVE  RoundInv'
<1>1. PICK requests : Sends(w, requests)
  BY SendFacts
<1>2. ClientTypes' /\ ServerTypes' /\ KeysAtHome'
  <2>1. batch' \in [Workers -> Seq(Timestamped)] /\ pc' \in [Workers -> {"dial", "loop", "await", "finished"}]
    BY <1>1 DEF Sends, RoundInv, ClientTypes
  <2>2. UNCHANGED <<clientVars, opsCompleted, broken, mp, stats>>
    BY <1>1 DEF Sends
  <2> QED BY <2>1, <2>2, SendFacts DEF RoundInv, ClientTypes, ServerTypes, KeysAtHome, clientVars
<1>3. /\ pc'[w] = "await" /\ batch'[w] = requests /\ requests # <<>> /\ broken'[w] = broken[w]
      /\ requests \in Seq(Timestamped) /\ Numbered(requests)
  BY <1>1 DEF Sends, RoundInv, ClientTypes
<1>4. ASSUME NEW s \in Servers PROVE CallShape(w, s)' /\ JobShape(w, s)'
  <2>1. CallShape(w, s) /\ JobShape(w, s) /\ call[w][s] = "none"
    BY <1>1 DEF RoundInv, RoundShape, Sends
  <2>2. /\ call'[w][s] = IF Part(requests, s) = {} THEN "none"
                         ELSE IF s \notin broken[w] THEN "pending" ELSE "failed"
        /\ job'[w][s] = IF Part(requests, s) # {} /\ s \notin broken[w]
                        THEN NewJob(Part(requests, s)) ELSE job[w][s]
    BY <1>1 DEF Sends
  <2>3. PICK q : q = Sorted(Part(requests, s))
    OBVIOUS
  <2>4. /\ NewJob(Part(requests, s)).responses = <<>>
        /\ NewJob(Part(requests, s)).requests = q
    BY <1>3, <2>3, NewJobType
  <2>5. /\ q \in Seq(Timestamped) /\ Range(q) = Part(requests, s)
        /\ \A a, b \in DOMAIN q : a < b => q[a].timestamp < q[b].timestamp
    BY <1>3, <2>3, SortedPart
  <2>6. CASE Part(requests, s) # {} /\ s \notin broken[w]
    <3>1. /\ call'[w][s] = "pending" /\ job'[w][s].responses = <<>>
          /\ job'[w][s].requests = q
      BY <2>2, <2>4, <2>6
    <3>2. CallShape(w, s)'
      BY <3>1, <2>5, <2>6, <1>3 DEF CallShape, Calling
    <3>3. \A a \in DOMAIN q : getServerIdx(q[a].key) = s
      BY <2>5 DEF Range, Part
    <3>4. Len(<<>>) = 0 /\ 0 <= Len(q)
      BY <2>5
    <3>5. JobShape(w, s)'
      BY <3>1, <3>3, <3>4, <2>5 DEF JobShape
    <3> QED BY <3>2, <3>5
  <2>7. CASE ~(Part(requests, s) # {} /\ s \notin broken[w])
    <3>1. /\ job'[w][s] = job[w][s]
          /\ call'[w][s] = IF Part(requests, s) = {} THEN "none" ELSE "failed"
      BY <2>2, <2>7
    <3>2. CallShape(w, s)'
      BY <3>1, <2>1, <2>7, <1>3 DEF CallShape, Calling
    <3>3. JobShape(w, s)'
      BY <3>1, <2>1 DEF JobShape
    <3> QED BY <3>2, <3>3
  <2> QED BY <2>6, <2>7
<1>5. RoundShape(w)'
  BY <1>3, <1>4 DEF RoundShape
<1>6. \A v \in Workers \ {w} : /\ pc'[v] = pc[v] /\ batch'[v] = batch[v] /\ call'[v] = call[v]
                              /\ broken'[v] = broken[v] /\ job'[v] = job[v]
  BY <1>1 DEF Sends, RoundInv, ClientTypes
<1> QED BY <1>2, <1>5, <1>6, OtherRounds

LEMMA AnswerCount ==
  ASSUME RoundInv, NEW w \in Workers
  PROVE  /\ SumFunction([s \in Servers |-> CountResponses(w, s)])
              = SumFunctionOnSet([s \in Servers |-> CountResponses(w, s)], Servers)
         /\ SumFunction([s \in Servers |-> CountResponses(w, s)]) \in Nat
<1> DEFINE f == [s \in Servers |-> CountResponses(w, s)]
<1>1. \A s \in Servers : f[s] \in Nat
  BY DEF CountResponses, RoundInv, ServerTypes, Jobs
<1>2. IsFiniteSet(Servers)
  <2>1. 0 \in Int /\ NumServers - 1 \in Int
    BY BaselineAssumption
  <2> QED BY <2>1, FS_Interval DEF Servers
<1>3. SumFunction(f) = SumFunctionOnSet(f, Servers)
  BY DEF SumFunction
<1> HIDE DEF f
<1>4. SumFunctionOnSet(f, Servers) \in Nat
  BY <1>1, <1>2, SumNat
<1> QED BY <1>3, <1>4 DEF f

LEMMA RoundCollect ==
  ASSUME RoundInv, NEW w \in Workers, CollectReplies(w)
  PROVE  RoundInv'
<1>1. /\ pc' = [pc EXCEPT ![w] = "loop"] /\ pc[w] = "await"
      /\ batch' = [batch EXCEPT ![w] = <<>>]
      /\ call' = [call EXCEPT ![w] = [s \in Servers |-> "none"]]
      /\ job' = [job EXCEPT ![w] = [s \in Servers |-> IF call[w][s] = "replied" THEN NoJob ELSE job[w][s]]]
      /\ \A s \in Servers : call[w][s] # "pending"
      /\ UNCHANGED <<clientVars, timestamp, broken, mp, stats>>
  BY DEF CollectReplies, Goto
<1>2. ClientTypes' /\ ServerTypes' /\ KeysAtHome'
  <2>1. batch' \in [Workers -> Seq(Timestamped)] /\ pc' \in [Workers -> {"dial", "loop", "await", "finished"}]
    BY <1>1 DEF RoundInv, ClientTypes
  <2>2. call' \in [Workers -> [Servers -> {"none", "pending", "replied", "failed"}]]
    BY <1>1 DEF RoundInv, ClientTypes
  <2>3. job' \in [Workers -> [Servers -> Jobs]]
    <3>1. NoJob \in Jobs
      BY DEF NoJob, Jobs
    <3> QED BY <3>1, <1>1 DEF RoundInv, ServerTypes
  <2>4. opsCompleted' \in [Workers -> Nat]
    <3>1. PICK n \in Nat : n = SumFunction([s \in Servers |-> CountResponses(w, s)])
      BY AnswerCount
    <3>2. opsCompleted' = [opsCompleted EXCEPT ![w] = @ + n]
      BY <3>1 DEF CollectReplies
    <3> QED BY <3>2 DEF RoundInv, ClientTypes
  <2> QED BY <1>1, <2>1, <2>2, <2>3, <2>4 DEF RoundInv, ClientTypes, ServerTypes, KeysAtHome, clientVars
<1>3. /\ pc'[w] = "loop" /\ batch'[w] = <<>> /\ broken'[w] = broken[w]
      /\ \A s \in Servers : /\ call'[w][s] = "none"
                            /\ job'[w][s] = IF call[w][s] = "replied" THEN NoJob ELSE job[w][s]
  BY <1>1 DEF RoundInv, ClientTypes, ServerTypes
<1>4. ASSUME NEW s \in Servers PROVE CallShape(w, s)' /\ JobShape(w, s)'
  <2>1. CallShape(w, s) /\ JobShape(w, s) /\ call[w][s] # "pending"
    BY <1>1 DEF RoundInv, RoundShape
  <2>2. call[w][s] \in {"none", "pending", "replied", "failed"}
    BY DEF RoundInv, ClientTypes
  <2>3. CallShape(w, s)'
    BY <1>3, <2>1, <2>2 DEF CallShape, Calling
  <2>4. CASE call[w][s] = "replied"
    <3>1. job'[w][s] = NoJob
      BY <1>3, <2>4
    <3>2. NoJob.requests = <<>> /\ NoJob.responses = <<>> /\ Len(<<>>) = 0
      BY DEF NoJob
    <3>3. JobShape(w, s)'
      BY <3>1, <3>2, <1>3 DEF JobShape
    <3> QED BY <2>3, <3>3
  <2>5. CASE call[w][s] # "replied"
    <3>1. job'[w][s] = job[w][s] /\ call'[w][s] = "none"
      BY <1>3, <2>5
    <3> QED BY <3>1, <2>1, <2>3 DEF JobShape
  <2> QED BY <2>4, <2>5
<1>5. RoundShape(w)'
  BY <1>3, <1>4 DEF RoundShape, Numbered
<1>6. \A v \in Workers \ {w} : /\ pc'[v] = pc[v] /\ batch'[v] = batch[v] /\ call'[v] = call[v]
                              /\ broken'[v] = broken[v] /\ job'[v] = job[v]
  BY <1>1 DEF RoundInv, ClientTypes, ServerTypes
<1> QED BY <1>2, <1>5, <1>6, OtherRounds

(* What Apply does, in the words of the request it serves.                 *)
Serves(w, s, r) ==
  LET j == job[w][s]
  IN /\ Len(j.responses) < Len(j.requests)
     /\ r = j.requests[Len(j.responses) + 1]
     /\ r \in Timestamped /\ getServerIdx(r.key) = s
     /\ mp' = [mp EXCEPT ![s] = IF r.isRead THEN @ ELSE @ \cup {r.key}]
     /\ job' = [job EXCEPT ![w][s].responses = Append(@, r.isRead /\ r.key \in mp[s])]
     /\ job'[w][s].requests = j.requests
     /\ job'[w][s].responses = Append(j.responses, r.isRead /\ r.key \in mp[s])
     /\ Len(job'[w][s].responses) = Len(j.responses) + 1
     /\ \A v \in Workers, t \in Servers : v # w \/ t # s => job'[v][t] = job[v][t]

LEMMA ApplyFacts ==
  ASSUME RoundInv, NEW w \in Workers, NEW s \in Servers, Apply(w, s)
  PROVE  /\ \E r : Serves(w, s, r)
         /\ job' \in [Workers -> [Servers -> Jobs]]
<1> DEFINE j == job[w][s]
<1>1. PICK r : r = j.requests[Len(j.responses) + 1]
  OBVIOUS
<1>2. j \in Jobs
  BY DEF RoundInv, ServerTypes
<1>3. j.requests \in Seq(Timestamped) /\ j.responses \in Seq(BOOLEAN) /\ Len(j.responses) < Len(j.requests)
  BY <1>2 DEF Apply, Jobs
<1>4. Len(j.responses) + 1 \in DOMAIN j.requests
  BY <1>3
<1>5. r \in Timestamped
  BY <1>1, <1>3, <1>4
<1>6. getServerIdx(r.key) = s
  BY <1>1, <1>4 DEF RoundInv, RoundShape, JobShape
<1>7. /\ mp' = [mp EXCEPT ![s] = IF r.isRead THEN @ ELSE @ \cup {r.key}]
      /\ job' = [job EXCEPT ![w][s].responses = Append(@, r.isRead /\ r.key \in mp[s])]
  BY <1>1 DEF Apply
<1>8. PICK b \in BOOLEAN : b = (r.isRead /\ r.key \in mp[s])
  BY <1>5 DEF Timestamped
<1>9. Append(j.responses, b) \in Seq(BOOLEAN) /\ Len(Append(j.responses, b)) = Len(j.responses) + 1
  BY <1>3, <1>8
<1>10. job' = [job EXCEPT ![w][s].responses = Append(@, b)]
  BY <1>7, <1>8
<1>11. /\ job'[w][s].requests = j.requests
       /\ job'[w][s].responses = Append(j.responses, b)
       /\ \A v \in Workers, t \in Servers : v # w \/ t # s => job'[v][t] = job[v][t]
  BY <1>10 DEF RoundInv, ServerTypes, Jobs
<1>12. job' \in [Workers -> [Servers -> Jobs]]
  <2>1. job'[w][s] = [requests |-> j.requests, responses |-> Append(j.responses, b)]
    BY <1>10, <1>2 DEF RoundInv, ServerTypes, Jobs
  <2>2. job'[w][s] \in Jobs
    BY <2>1, <1>3, <1>9 DEF Jobs
  <2>3. job' = [v \in Workers |-> [t \in Servers |-> job'[v][t]]]
    BY <1>10 DEF RoundInv, ServerTypes
  <2>4. \A v \in Workers, t \in Servers : job'[v][t] \in Jobs
    BY <2>2, <1>11 DEF RoundInv, ServerTypes
  <2> QED BY <2>3, <2>4
<1>13. Serves(w, s, r)
  BY <1>1, <1>3, <1>5, <1>6, <1>7, <1>8, <1>9, <1>11 DEF Serves
<1> QED BY <1>12, <1>13

LEMMA RoundApply ==
  ASSUME RoundInv, NEW w \in Workers, NEW s \in Servers, Apply(w, s)
  PROVE  RoundInv'
<1>1. PICK r : Serves(w, s, r)
  BY ApplyFacts
<1>2. UNCHANGED <<clientVars, workerVars, call>>
  BY DEF Apply
<1>3. ServerTypes'
  <2>1. job' \in [Workers -> [Servers -> Jobs]]
    BY ApplyFacts
  <2>2. mp' \in [Servers -> SUBSET Keys]
    BY <1>1 DEF Serves, Timestamped, RoundInv, ServerTypes
  <2>3. stats' \in [Servers -> [Counters -> 0 .. (WordSize - 1)]]
    <3>1. \E c \in Counters : stats' = [stats EXCEPT ![s][c] = (@ + 1) % WordSize]
      <4> DEFINE q == job[w][s].requests[Len(job[w][s].responses) + 1]
      <4>1. stats' = [stats EXCEPT ![s][IF q.isRead THEN "gets" ELSE "puts"] = (@ + 1) % WordSize]
        BY DEF Apply
      <4>2. (IF q.isRead THEN "gets" ELSE "puts") \in Counters
        BY DEF Counters
      <4> QED BY <4>1, <4>2
    <3>2. PICK c \in Counters : stats' = [stats EXCEPT ![s][c] = (@ + 1) % WordSize]
      BY <3>1
    <3>3. (stats[s][c] + 1) % WordSize \in 0 .. (WordSize - 1)
      BY WordSizeType DEF RoundInv, ServerTypes
    <3> QED BY <3>2, <3>3 DEF RoundInv, ServerTypes
  <2> QED BY <2>1, <2>2, <2>3 DEF ServerTypes
<1>4. KeysAtHome'
  BY <1>1 DEF Serves, RoundInv, ServerTypes, KeysAtHome
<1>5. ClientTypes'
  BY <1>2 DEF RoundInv, ClientTypes, clientVars, workerVars
<1>6. ASSUME NEW t \in Servers PROVE CallShape(w, t)' /\ JobShape(w, t)'
  <2>1. CallShape(w, t) /\ JobShape(w, t)
    BY DEF RoundInv, RoundShape
  <2>2. CASE t # s
    <3>1. job'[w][t] = job[w][t]
      BY <1>1, <2>2 DEF Serves
    <3> QED BY <3>1, <2>1, <1>2 DEF CallShape, JobShape, Calling, workerVars
  <2>3. CASE t = s
    <3>1. /\ job'[w][t].requests = job[w][t].requests
          /\ Len(job'[w][t].responses) = Len(job[w][t].responses) + 1
          /\ Len(job[w][t].responses) < Len(job[w][t].requests)
      BY <1>1, <2>3 DEF Serves
    <3>2. Len(job[w][t].responses) \in Nat /\ Len(job[w][t].requests) \in Nat
      BY DEF RoundInv, ServerTypes, Jobs
    <3>3. JobShape(w, t)'
      BY <3>1, <3>2, <2>1, <1>2 DEF JobShape
    <3>4. job[w][t] # NoJob
      <4>1. NoJob.requests = <<>> /\ NoJob.responses = <<>>
        BY DEF NoJob
      <4> QED BY <4>1, <3>1
    <3>5. CallShape(w, t)'
      BY <3>1, <3>4, <2>1, <1>2 DEF CallShape, Calling, workerVars
    <3> QED BY <3>3, <3>5
  <2> QED BY <2>2, <2>3
<1>7. RoundShape(w)'
  <2>1. RoundShape(w)
    BY DEF RoundInv
  <2> QED BY <2>1, <1>2, <1>6 DEF RoundShape, workerVars
<1>8. \A v \in Workers \ {w} : job'[v] = job[v]
  BY <1>1 DEF Serves, RoundInv, ServerTypes
<1> QED BY <1>2, <1>3, <1>4, <1>5, <1>7, <1>8, OtherRounds DEF workerVars

LEMMA RoundReply ==
  ASSUME RoundInv, NEW w \in Workers, NEW s \in Servers, Reply(w, s)
  PROVE  RoundInv'
<1>1. /\ call[w][s] = "pending" /\ call' = [call EXCEPT ![w][s] = "replied"]
      /\ Len(job[w][s].responses) = Len(job[w][s].requests)
      /\ UNCHANGED <<clientVars, workerVars, job, mp, stats>>
  BY DEF Reply
<1>2. ClientTypes' /\ ServerTypes' /\ KeysAtHome'
  <2>1. call' \in [Workers -> [Servers -> {"none", "pending", "replied", "failed"}]]
    BY <1>1 DEF RoundInv, ClientTypes
  <2> QED BY <1>1, <2>1 DEF RoundInv, ClientTypes, ServerTypes, KeysAtHome, clientVars, workerVars
<1>3. call'[w] = [call[w] EXCEPT ![s] = "replied"] /\ \A v \in Workers \ {w} : call'[v] = call[v]
  BY <1>1 DEF RoundInv, ClientTypes
<1>4. ASSUME NEW t \in Servers PROVE CallShape(w, t)' /\ JobShape(w, t)'
  <2>1. CallShape(w, t) /\ JobShape(w, t)
    BY DEF RoundInv, RoundShape
  <2>2. call'[w][t] = IF t = s THEN "replied" ELSE call[w][t]
    BY <1>3 DEF RoundInv, ClientTypes
  <2> QED BY <2>1, <2>2, <1>1 DEF CallShape, JobShape, Calling, workerVars
<1>5. RoundShape(w)'
  <2>1. RoundShape(w)
    BY DEF RoundInv
  <2>2. pc[w] = "await"
    BY <2>1, <1>1 DEF RoundShape
  <2> QED BY <2>1, <2>2, <1>1, <1>4 DEF RoundShape, workerVars
<1> QED BY <1>1, <1>2, <1>3, <1>5, OtherRounds DEF workerVars

LEMMA RoundBreak ==
  ASSUME RoundInv, NEW w \in Workers, NEW s \in Servers, BreakConnection(w, s)
  PROVE  RoundInv'
<1>1. /\ s \notin broken[w] /\ broken' = [broken EXCEPT ![w] = @ \cup {s}]
      /\ call' = [call EXCEPT ![w][s] = IF @ = "pending" THEN "failed" ELSE @]
      /\ \/ job' = job
         \/ call[w][s] = "pending" /\ job' = [job EXCEPT ![w][s] = NoJob]
      /\ UNCHANGED <<clientVars, pc, timestamp, batch, rounds, opsCompleted, mp, stats>>
  BY DEF BreakConnection
<1>2. ClientTypes' /\ ServerTypes' /\ KeysAtHome'
  <2>1. call' \in [Workers -> [Servers -> {"none", "pending", "replied", "failed"}]]
    BY <1>1 DEF RoundInv, ClientTypes
  <2>2. broken' \in [Workers -> SUBSET Servers]
    BY <1>1 DEF RoundInv, ClientTypes
  <2>3. job' \in [Workers -> [Servers -> Jobs]]
    <3>1. NoJob \in Jobs
      BY DEF NoJob, Jobs
    <3>2. job \in [Workers -> [Servers -> Jobs]]
      BY DEF RoundInv, ServerTypes
    <3>3. job' = job \/ job' = [job EXCEPT ![w][s] = NoJob]
      BY <1>1
    <3> QED BY <3>1, <3>2, <3>3
  <2> QED BY <1>1, <2>1, <2>2, <2>3 DEF RoundInv, ClientTypes, ServerTypes, KeysAtHome, clientVars
<1>3. /\ call'[w] = [call[w] EXCEPT ![s] = IF @ = "pending" THEN "failed" ELSE @]
      /\ broken'[w] = broken[w] \cup {s}
      /\ job'[w] = job[w] \/ (call[w][s] = "pending" /\ job'[w] = [job[w] EXCEPT ![s] = NoJob])
      /\ \A v \in Workers \ {w} : call'[v] = call[v] /\ broken'[v] = broken[v] /\ job'[v] = job[v]
  BY <1>1 DEF RoundInv, ClientTypes, ServerTypes
<1>4. ASSUME NEW t \in Servers PROVE CallShape(w, t)' /\ JobShape(w, t)'
  <2>1. CallShape(w, t) /\ JobShape(w, t)
    BY DEF RoundInv, RoundShape
  <2>2. CASE t # s
    <3>1. call'[w][t] = call[w][t] /\ job'[w][t] = job[w][t] /\ (t \in broken'[w] <=> t \in broken[w])
      BY <1>3, <2>2 DEF RoundInv, ClientTypes, ServerTypes
    <3> QED BY <3>1, <2>1, <1>1 DEF CallShape, JobShape, Calling
  <2>3. CASE t = s
    <3>1. /\ call'[w][t] = IF call[w][t] = "pending" THEN "failed" ELSE call[w][t]
          /\ t \in broken'[w]
          /\ job'[w][t] = job[w][t] \/ (call[w][t] = "pending" /\ job'[w][t] = NoJob)
      BY <1>3, <2>3 DEF RoundInv, ClientTypes, ServerTypes
    <3>2. NoJob.requests = <<>> /\ NoJob.responses = <<>> /\ Len(<<>>) = 0
      BY DEF NoJob
    <3>3. CallShape(w, t)'
      BY <3>1, <2>1, <1>1 DEF CallShape, Calling
    <3>4. JobShape(w, t)'
      <4>1. CASE job'[w][t] = job[w][t]
        BY <3>1, <4>1, <2>1 DEF JobShape
      <4>2. CASE call[w][t] = "pending" /\ job'[w][t] = NoJob
        BY <3>1, <3>2, <4>2 DEF JobShape
      <4> QED BY <3>1, <4>1, <4>2
    <3> QED BY <3>3, <3>4
  <2> QED BY <2>2, <2>3
<1>5. RoundShape(w)'
  <2>1. RoundShape(w)
    BY DEF RoundInv
  <2>2. pc[w] # "await" => \A t \in Servers : call'[w][t] = "none"
    BY <2>1, <1>3 DEF RoundShape, RoundInv, ClientTypes
  <2> QED BY <2>1, <2>2, <1>1, <1>4 DEF RoundShape
<1> QED BY <1>1, <1>2, <1>3, <1>5, OtherRounds

LEMMA InRange ==
  /\ Breakable \subseteq Servers
  /\ Reporting \subseteq Servers
BY BaselineAssumption DEF Servers

LEMMA RoundNext == RoundInv /\ [Next]_vars => RoundInv'
<1> SUFFICES ASSUME RoundInv, [Next]_vars PROVE RoundInv'
  OBVIOUS
<1>1. ASSUME NEW w \in Workers, Work(w) PROVE RoundInv'
  BY <1>1, RoundDial, RoundSendBatch, RoundCollect, RoundSendResult DEF Work
<1>2. ASSUME NEW w \in Workers, NEW s \in Servers, Request(w, s) PROVE RoundInv'
  BY <1>2, RoundApply, RoundReply DEF Request
<1>3. ASSUME NEW w \in Workers, NEW s \in Breakable, BreakConnection(w, s) PROVE RoundInv'
  BY <1>3, InRange, RoundBreak
<1>4. ASSUME NEW s \in Reporting, PrintStats(s) PROVE RoundInv'
  BY <1>4, RoundStutter DEF PrintStats, CopyPuts, Report
<1>5. CASE UNCHANGED vars
  BY <1>5, RoundStutter DEF vars
<1> QED BY <1>1, <1>2, <1>3, <1>4, <1>5, RoundMain DEF Next

(* What a worker waits for is with the servers: each part of its batch is  *)
(* at its server, complete and in the order in which it was drawn, or is   *)
(* known to be lost; and no server stores a key of another                 *)
(* (client/main.go:103-132, server/main.go:71-96).                         *)
THEOREM RoundsHold == Spec => []RoundInv
BY RoundInit, RoundNext, PTL DEF Spec

-----------------------------------------------------------------------------
(* What the servers served and what the client counted.                    *)

LEMMA ServersFinite == IsFiniteSet(Servers)
<1>1. 0 \in Int /\ NumServers - 1 \in Int
  BY BaselineAssumption
<1> QED BY <1>1, FS_Interval DEF Servers

(* The sum of a table of numbers, row by row.                              *)
Tables == [Workers -> [Servers -> Nat]]
RowSums(a) == [v \in Workers |-> SumFunctionOnSet(a[v], Servers)]
TableSum(a) == SumFunctionOnSet(RowSums(a), Workers)

LEMMA RowType ==
  ASSUME NEW a \in Tables, NEW v \in Workers
  PROVE  SumFunctionOnSet(a[v], Servers) \in Nat /\ RowSums(a)[v] = SumFunctionOnSet(a[v], Servers)
<1>1. PICK f : f = a[v]
  OBVIOUS
<1>2. \A s \in Servers : f[s] \in Nat
  BY <1>1 DEF Tables
<1>3. SumFunctionOnSet(f, Servers) \in Nat
  BY <1>2, ServersFinite, SumNat
<1> QED BY <1>1, <1>3 DEF RowSums

LEMMA TableType ==
  ASSUME NEW a \in Tables PROVE TableSum(a) \in Nat
<1>1. PICK f : f = RowSums(a)
  OBVIOUS
<1>2. \A v \in Workers : f[v] \in Nat
  BY <1>1, RowType
<1>3. SumFunctionOnSet(f, Workers) \in Nat
  BY <1>2, WorkersAssumption, SumNat
<1> QED BY <1>1, <1>3 DEF TableSum

(* One row changes.                                                        *)
LEMMA RowChange ==
  ASSUME NEW a \in Tables, NEW b \in Tables, NEW w \in Workers, \A v \in Workers \ {w} : b[v] = a[v]
  PROVE  TableSum(b) = TableSum(a) - SumFunctionOnSet(a[w], Servers) + SumFunctionOnSet(b[w], Servers)
<1>1. PICK f : f = RowSums(a)
  OBVIOUS
<1>2. PICK g : g = RowSums(b)
  OBVIOUS
<1>3. /\ \A v \in Workers : f[v] = SumFunctionOnSet(a[v], Servers) /\ f[v] \in Int
      /\ \A v \in Workers : g[v] = SumFunctionOnSet(b[v], Servers) /\ g[v] \in Int
  <2>1. \A v \in Workers : SumFunctionOnSet(a[v], Servers) \in Nat
                          /\ RowSums(a)[v] = SumFunctionOnSet(a[v], Servers)
    BY RowType
  <2>2. \A v \in Workers : SumFunctionOnSet(b[v], Servers) \in Nat
                          /\ RowSums(b)[v] = SumFunctionOnSet(b[v], Servers)
    BY RowType
  <2> QED BY <1>1, <1>2, <2>1, <2>2
<1>4. \A v \in Workers \ {w} : g[v] = f[v]
  BY <1>3
<1>5. \A v \in Workers : f[v] \in Int
  BY <1>3
<1>6. g[w] \in Int
  BY <1>3
<1>7. SumFunctionOnSet(g, Workers) = SumFunctionOnSet(f, Workers) - f[w] + g[w]
  BY ONLY <1>4, <1>5, <1>6, WorkersAssumption, SumChange, w \in Workers
<1> QED BY <1>1, <1>2, <1>3, <1>7 DEF TableSum

(* One entry changes.                                                      *)
LEMMA EntryChange ==
  ASSUME NEW a \in Tables, NEW b \in Tables, NEW w \in Workers, NEW s \in Servers,
         \A v \in Workers \ {w} : b[v] = a[v],
         \A t \in Servers \ {s} : b[w][t] = a[w][t]
  PROVE  TableSum(b) = TableSum(a) - a[w][s] + b[w][s]
<1>1. TableSum(b) = TableSum(a) - SumFunctionOnSet(a[w], Servers) + SumFunctionOnSet(b[w], Servers)
  BY RowChange
<1>2. PICK f : f = a[w]
  OBVIOUS
<1>3. PICK g : g = b[w]
  OBVIOUS
<1>4. /\ \A t \in Servers : f[t] \in Int
      /\ g[s] \in Int /\ \A t \in Servers \ {s} : g[t] = f[t]
  BY <1>2, <1>3 DEF Tables
<1>5. SumFunctionOnSet(g, Servers) = SumFunctionOnSet(f, Servers) - f[s] + g[s]
  BY ONLY <1>4, ServersFinite, SumChange, s \in Servers
<1>6. SumFunctionOnSet(f, Servers) \in Nat /\ TableSum(a) \in Nat /\ f[s] \in Int
  BY <1>2, <1>4, RowType, TableType
<1> QED BY <1>1, <1>2, <1>3, <1>4, <1>5, <1>6

-----------------------------------------------------------------------------
AnswerTable == [w \in Workers |-> [s \in Servers |-> Answered(w, s)]]

StatTable == [s \in Servers |-> stats[s]["puts"] + stats[s]["gets"]]

LEMMA LedgerSums ==
  /\ InFlight = TableSum(AnswerTable) /\ InFlight' = TableSum(AnswerTable')
  /\ Served = SumFunctionOnSet(StatTable, Servers) /\ Served' = SumFunctionOnSet(StatTable', Servers)
<1>1. ASSUME NEW w \in Workers
      PROVE  /\ AnsweredOf(w) = SumFunctionOnSet(AnswerTable[w], Servers)
             /\ AnsweredOf(w)' = SumFunctionOnSet(AnswerTable'[w], Servers)
  BY DEF AnsweredOf, AnswerTable, SumFunction
<1>2. InFlight = TableSum(AnswerTable)
  <2>1. [w \in Workers |-> AnsweredOf(w)] = RowSums(AnswerTable)
    BY <1>1 DEF RowSums
  <2> QED BY <2>1 DEF InFlight, SumFunction, TableSum
<1>3. InFlight' = TableSum(AnswerTable')
  <2>1. [w \in Workers |-> AnsweredOf(w)'] = RowSums(AnswerTable')
    BY <1>1 DEF RowSums
  <2> QED BY <2>1 DEF InFlight, SumFunction, TableSum
<1>4. Served = SumFunctionOnSet(StatTable, Servers) /\ Served' = SumFunctionOnSet(StatTable', Servers)
  BY DEF Served, StatTable, SumFunction
<1> QED BY <1>2, <1>3, <1>4

LEMMA AnswersTyped ==
  ASSUME RoundInv PROVE AnswerTable \in Tables
BY DEF RoundInv, ServerTypes, Jobs, AnswerTable, Answered, Tables

LEMMA AnswersTypedNext ==
  ASSUME RoundInv' PROVE AnswerTable' \in Tables
BY DEF RoundInv, ServerTypes, Jobs, AnswerTable, Answered, Tables

LEMMA CompletedType ==
  ASSUME RoundInv
  PROVE  /\ Completed \in Nat /\ Completed = SumFunctionOnSet(opsCompleted, Workers)
         /\ \A w \in Workers : opsCompleted[w] \in Nat
<1>1. PICK f : f = opsCompleted
  OBVIOUS
<1>2. DOMAIN f = Workers /\ \A w \in Workers : f[w] \in Nat
  BY <1>1 DEF RoundInv, ClientTypes
<1>3. SumFunctionOnSet(f, Workers) \in Nat
  BY <1>2, WorkersAssumption, SumNat
<1> QED BY <1>1, <1>2, <1>3 DEF Completed, SumFunction

LEMMA ServedType ==
  ASSUME RoundInv PROVE Served \in Nat /\ \A s \in Servers : StatTable[s] \in Nat
<1>1. \A s \in Servers : StatTable[s] \in Nat
  <2>1. \A s \in Servers : stats[s]["puts"] \in Nat /\ stats[s]["gets"] \in Nat
    BY WordSizeType DEF RoundInv, ServerTypes, Counters
  <2> QED BY <2>1 DEF StatTable
<1>2. PICK f : f = StatTable
  OBVIOUS
<1>3. \A s \in Servers : f[s] \in Nat
  BY <1>1, <1>2
<1>4. SumFunctionOnSet(f, Servers) \in Nat
  BY <1>3, ServersFinite, SumNat
<1> QED BY <1>1, <1>2, <1>4, LedgerSums

LedgerInv == RoundInv /\ ServedLedger

LEMMA LedgerInit == Init => ServedLedger
<1> SUFFICES ASSUME Init PROVE ServedLedger
  OBVIOUS
<1>1. RoundInv
  BY RoundInit
<1>2. PICK f, g, a : f = opsCompleted /\ g = StatTable /\ a = AnswerTable
  OBVIOUS
<1>3. \A w \in Workers : f[w] = 0
  BY <1>2 DEF Init
<1>4. \A s \in Servers : g[s] = 0
  BY <1>2 DEF Init, Zeros, Counters, StatTable
<1>5. \A w \in Workers, s \in Servers : a[w][s] = 0
  BY <1>2 DEF Init, AnswerTable, Answered, Calling
<1>6. SumFunctionOnSet(f, Workers) = 0 /\ SumFunctionOnSet(g, Servers) = 0
  BY <1>3, <1>4, WorkersAssumption, ServersFinite, SumZero
<1>7. TableSum(a) = 0
  <2>1. ASSUME NEW w \in Workers PROVE SumFunctionOnSet(a[w], Servers) = 0
    <3>1. PICK h : h = a[w]
      OBVIOUS
    <3>2. \A s \in Servers : h[s] = 0
      BY <1>5, <3>1
    <3> QED BY <3>1, <3>2, ServersFinite, SumZero
  <2>2. PICK h : h = RowSums(a)
    OBVIOUS
  <2>3. \A w \in Workers : h[w] = 0
    BY <2>1, <2>2 DEF RowSums
  <2> QED BY <2>2, <2>3, WorkersAssumption, SumZero DEF TableSum
<1>8. Completed = 0 /\ Served = 0 /\ InFlight = 0
  BY <1>1, <1>2, <1>6, <1>7, CompletedType, LedgerSums
<1> QED BY <1>8 DEF ServedLedger

(* Nothing is served, answered or counted.                                 *)
LEMMA LedgerQuiet ==
  ASSUME LedgerInv, UNCHANGED <<opsCompleted, stats>>,
         \A w \in Workers : broken'[w] = {} => broken[w] = {},
         \A w \in Workers, s \in Servers : Answered(w, s)' = Answered(w, s)
  PROVE  ServedLedger'
<1>1. AnswerTable' = AnswerTable
  BY DEF AnswerTable
<1>2. InFlight' = InFlight
  BY <1>1, LedgerSums
<1>3. Served' = Served
  BY DEF Served
<1>4. Completed' = Completed
  BY DEF Completed
<1> QED BY <1>2, <1>3, <1>4 DEF LedgerInv, ServedLedger

LEMMA LedgerSendBatch ==
  ASSUME LedgerInv, NEW w \in Workers, SendBatch(w)
  PROVE  ServedLedger'
<1>1. PICK requests : Sends(w, requests)
  BY SendFacts DEF LedgerInv
<1>2. ASSUME NEW v \in Workers, NEW s \in Servers PROVE Answered(v, s)' = Answered(v, s)
  <2>1. CASE v # w
    BY <1>1, <2>1 DEF Sends, Answered, Calling
  <2>2. CASE v = w
    <3>1. call[w][s] = "none"
      BY <1>1 DEF Sends, LedgerInv, RoundInv, RoundShape
    <3>2. call'[w][s] = "pending" => job'[w][s].responses = <<>>
      <4>1. requests \in Seq(Timestamped) /\ Numbered(requests)
        BY <1>1 DEF Sends
      <4>2. NewJob(Part(requests, s)).responses = <<>>
        BY <4>1, NewJobType
      <4>3. call'[w][s] = "pending" => job'[w][s] = NewJob(Part(requests, s))
        BY <1>1 DEF Sends
      <4> QED BY <4>2, <4>3
    <3>3. call'[w][s] # "replied"
      BY <1>1 DEF Sends
    <3>4. Len(<<>>) = 0
      OBVIOUS
    <3> QED BY <2>2, <3>1, <3>2, <3>3, <3>4 DEF Answered, Calling
  <2> QED BY <2>1, <2>2
<1> QED BY <1>1, <1>2, LedgerQuiet DEF Sends

(* What was in flight is counted.                                          *)
LEMMA LedgerCollect ==
  ASSUME LedgerInv, NEW w \in Workers, CollectReplies(w)
  PROVE  ServedLedger'
<1> USE DEF LedgerInv
<1>1. /\ call' = [call EXCEPT ![w] = [s \in Servers |-> "none"]]
      /\ \A s \in Servers : call[w][s] # "pending"
      /\ UNCHANGED <<broken, stats>>
      /\ \A v \in Workers \ {w} : job'[v] = job[v] /\ call'[v] = call[v]
  BY DEF CollectReplies, RoundInv, ClientTypes, ServerTypes
<1>2. RoundInv'
  BY RoundCollect
<1>3. PICK a : a = AnswerTable
  OBVIOUS
<1>4. PICK b : b = AnswerTable'
  OBVIOUS
<1>5. a \in Tables /\ b \in Tables
  BY <1>2, <1>3, <1>4, AnswersTyped, AnswersTypedNext
<1>6. PICK n : n = SumFunctionOnSet(a[w], Servers)
  OBVIOUS
<1>7. SumFunction([s \in Servers |-> CountResponses(w, s)]) = n
  <2>1. \A s \in Servers : CountResponses(w, s) = a[w][s]
    <3>1. \A s \in Servers : a[w][s] = Answered(w, s)
      BY <1>3 DEF AnswerTable
    <3> QED BY <3>1, <1>1 DEF CountResponses, Answered, Calling
  <2>2. PICK g : g = [s \in Servers |-> CountResponses(w, s)]
    OBVIOUS
  <2>3. PICK h : h = a[w]
    OBVIOUS
  <2>4. \A s \in Servers : g[s] = h[s]
    BY <2>1, <2>2, <2>3
  <2>5. SumFunctionOnSet(g, Servers) = SumFunctionOnSet(h, Servers)
    BY <2>4, ServersFinite, SumSame
  <2>6. DOMAIN g = Servers
    BY <2>2
  <2> QED BY <2>2, <2>3, <2>5, <2>6, <1>6 DEF SumFunction
<1>8. n \in Nat
  BY <1>5, <1>6, RowType
<1>9. Completed' = Completed + n
  <2>1. opsCompleted' = [opsCompleted EXCEPT ![w] = @ + n]
    BY <1>7 DEF CollectReplies
  <2>2. PICK f : f = opsCompleted
    OBVIOUS
  <2>3. PICK g : g = opsCompleted'
    OBVIOUS
  <2>4. /\ DOMAIN f = Workers /\ DOMAIN g = Workers
        /\ \A v \in Workers : f[v] \in Int /\ f[v] \in Nat
        /\ g[w] = f[w] + n
        /\ \A v \in Workers \ {w} : g[v] = f[v]
    BY <2>1, <2>2, <2>3 DEF RoundInv, ClientTypes
  <2>5. \A v \in Workers : f[v] \in Int
    BY <2>4
  <2>6. g[w] \in Int
    BY <2>4, <1>8
  <2>7. SumFunctionOnSet(g, Workers) = SumFunctionOnSet(f, Workers) - f[w] + g[w]
    BY ONLY <2>4, <2>5, <2>6, WorkersAssumption, SumChange, w \in Workers
  <2>8. Completed = SumFunctionOnSet(f, Workers) /\ Completed' = SumFunctionOnSet(g, Workers)
    BY <2>2, <2>3, <2>4 DEF Completed, SumFunction
  <2> QED BY <2>4, <2>7, <2>8, <1>8, CompletedType
<1>10. InFlight' = InFlight - n
  <2>1. \A v \in Workers \ {w} : b[v] = a[v]
    BY <1>1, <1>3, <1>4 DEF AnswerTable, Answered, Calling
  <2>2. SumFunctionOnSet(b[w], Servers) = 0
    <3>1. PICK h : h = b[w]
      OBVIOUS
    <3>2. \A s \in Servers : h[s] = 0
      <4>1. \A s \in Servers : call'[w][s] = "none"
        BY <1>1 DEF RoundInv, ClientTypes
      <4> QED BY <4>1, <3>1, <1>4 DEF AnswerTable, Answered, Calling
    <3> QED BY <3>1, <3>2, ServersFinite, SumZero
  <2>3. TableSum(b) = TableSum(a) - n + 0
    BY <2>1, <2>2, <1>5, <1>6, RowChange
  <2> QED BY <2>3, <1>3, <1>4, <1>5, <1>8, LedgerSums, TableType
<1>11. Served' = Served
  BY <1>1 DEF Served
<1>12. InFlight \in Nat /\ Completed \in Nat /\ Served \in Nat
  BY <1>3, <1>5, LedgerSums, TableType, CompletedType, ServedType
<1> QED BY <1>1, <1>8, <1>9, <1>10, <1>11, <1>12 DEF ServedLedger

LEMMA ServedMore ==
  ASSUME RoundInv, CountersFit, NEW w \in Workers, NEW s \in Servers, Apply(w, s)
  PROVE  Served' = Served + 1
<1>1. CountersTyped
  BY DEF CountersTyped, RoundInv, ServerTypes
<1>2. PICK c \in Counters : stats' = [stats EXCEPT ![s][c] = @ + 1]
  BY <1>1, ApplyCounts
<1>3. PICK f : f = StatTable
  OBVIOUS
<1>4. PICK g : g = StatTable'
  OBVIOUS
<1>5. \A t \in Servers : f[t] \in Int
  BY <1>3, ServedType
<1>6. \A t \in Servers \ {s} : g[t] = f[t]
  BY <1>2, <1>3, <1>4 DEF StatTable, RoundInv, ServerTypes
<1>7. g[s] = f[s] + 1
  <2>1. stats[s]["puts"] \in Nat /\ stats[s]["gets"] \in Nat
    BY WordSizeType DEF RoundInv, ServerTypes, Counters
  <2>2. f[s] = stats[s]["puts"] + stats[s]["gets"] /\ g[s] = stats'[s]["puts"] + stats'[s]["gets"]
    BY <1>3, <1>4 DEF StatTable
  <2>3. \/ stats'[s]["puts"] = stats[s]["puts"] + 1 /\ stats'[s]["gets"] = stats[s]["gets"]
        \/ stats'[s]["puts"] = stats[s]["puts"] /\ stats'[s]["gets"] = stats[s]["gets"] + 1
    BY <1>2 DEF RoundInv, ServerTypes, Counters
  <2> QED BY <2>1, <2>2, <2>3
<1>8. g[s] \in Int /\ f[s] \in Int
  BY <1>5, <1>7
<1>9. SumFunctionOnSet(g, Servers) = SumFunctionOnSet(f, Servers) - f[s] + g[s]
  BY ONLY <1>5, <1>6, <1>8, ServersFinite, SumChange, s \in Servers
<1>10. Served \in Nat
  BY ServedType
<1> QED BY <1>3, <1>4, <1>7, <1>8, <1>9, <1>10, LedgerSums

(* A request that is served is answered, unless nobody waits for it: then  *)
(* its connection is broken.                                               *)
LEMMA LedgerApply ==
  ASSUME LedgerInv, CountersFit, NEW w \in Workers, NEW s \in Servers, Apply(w, s)
  PROVE  ServedLedger'
<1> USE DEF LedgerInv
<1>1. PICK r : Serves(w, s, r)
  BY ApplyFacts
<1>2. UNCHANGED <<opsCompleted, broken, call>>
  BY DEF Apply, workerVars
<1>3. Served' = Served + 1 /\ Served \in Nat
  BY ServedMore, ServedType
<1>4. Completed' = Completed /\ Completed \in Nat
  BY <1>2, CompletedType DEF Completed
<1>5. RoundInv'
  BY RoundApply
<1>6. PICK a : a = AnswerTable
  OBVIOUS
<1>7. PICK b : b = AnswerTable'
  OBVIOUS
<1>8. a \in Tables /\ b \in Tables
  BY <1>5, <1>6, <1>7, AnswersTyped, AnswersTypedNext
<1>9. /\ \A v \in Workers \ {w} : b[v] = a[v]
      /\ \A t \in Servers \ {s} : b[w][t] = a[w][t]
  <2>1. \A v \in Workers, t \in Servers : v # w \/ t # s => job'[v][t] = job[v][t]
    BY <1>1 DEF Serves
  <2>2. \A v \in Workers, t \in Servers : v # w \/ t # s => Answered(v, t)' = Answered(v, t)
    BY <2>1, <1>2 DEF Answered, Calling
  <2> QED BY <2>2, <1>6, <1>7 DEF AnswerTable
<1>10. b[w][s] = IF Calling(w, s) THEN a[w][s] + 1 ELSE a[w][s]
  <2>1. Calling(w, s)' <=> Calling(w, s)
    BY <1>2 DEF Calling
  <2>2. Len(job'[w][s].responses) = Len(job[w][s].responses) + 1
    BY <1>1 DEF Serves
  <2>3. Answered(w, s)' = IF Calling(w, s) THEN Answered(w, s) + 1 ELSE Answered(w, s)
    BY <2>1, <2>2 DEF Answered
  <2>4. a[w][s] = Answered(w, s) /\ b[w][s] = Answered(w, s)'
    BY <1>6, <1>7 DEF AnswerTable
  <2> QED BY <2>3, <2>4
<1>11. a[w][s] \in Nat /\ TableSum(a) \in Nat
  BY <1>8, TableType DEF Tables
<1>12. TableSum(b) = TableSum(a) - a[w][s] + b[w][s]
  BY <1>8, <1>9, EntryChange
<1>13. InFlight \in Nat /\ InFlight' = IF Calling(w, s) THEN InFlight + 1 ELSE InFlight
  BY <1>6, <1>7, <1>10, <1>11, <1>12, LedgerSums
<1>14. broken[w] = {} => Calling(w, s)
  <2>1. CallShape(w, s) /\ call[w][s] \in {"none", "pending", "replied", "failed"}
    BY DEF RoundInv, RoundShape, ClientTypes
  <2>2. job[w][s] # NoJob
    <3>1. Len(job[w][s].responses) < Len(job[w][s].requests)
      BY <1>1 DEF Serves
    <3>2. NoJob.requests = <<>> /\ NoJob.responses = <<>>
      BY DEF NoJob
    <3> QED BY <3>1, <3>2
  <2> QED BY <2>1, <2>2 DEF CallShape, Calling
<1> QED BY <1>2, <1>3, <1>4, <1>13, <1>14 DEF ServedLedger

LEMMA LedgerReply ==
  ASSUME LedgerInv, NEW w \in Workers, NEW s \in Servers, Reply(w, s)
  PROVE  ServedLedger'
<1>1. UNCHANGED <<opsCompleted, stats, broken, job>> /\ call[w][s] = "pending"
      /\ call' = [call EXCEPT ![w][s] = "replied"]
  BY DEF Reply, workerVars
<1>2. \A v \in Workers, t \in Servers : Answered(v, t)' = Answered(v, t)
  BY <1>1 DEF Answered, Calling, LedgerInv, RoundInv, ClientTypes
<1> QED BY <1>1, <1>2, LedgerQuiet

(* The answer of a broken connection is not counted any more.              *)
LEMMA LedgerBreak ==
  ASSUME LedgerInv, NEW w \in Workers, NEW s \in Servers, BreakConnection(w, s)
  PROVE  ServedLedger'
<1> USE DEF LedgerInv
<1>1. /\ broken' = [broken EXCEPT ![w] = @ \cup {s}]
      /\ call' = [call EXCEPT ![w][s] = IF @ = "pending" THEN "failed" ELSE @]
      /\ job' = job \/ (call[w][s] = "pending" /\ job' = [job EXCEPT ![w][s] = NoJob])
      /\ UNCHANGED <<opsCompleted, stats>>
  BY DEF BreakConnection
<1>2. RoundInv'
  BY RoundBreak
<1>3. PICK a : a = AnswerTable
  OBVIOUS
<1>4. PICK b : b = AnswerTable'
  OBVIOUS
<1>5. a \in Tables /\ b \in Tables
  BY <1>2, <1>3, <1>4, AnswersTyped, AnswersTypedNext
<1>6. /\ \A v \in Workers, t \in Servers : v # w \/ t # s => Answered(v, t)' = Answered(v, t)
      /\ Answered(w, s)' = Answered(w, s) \/ Answered(w, s)' = 0
  BY <1>1 DEF Answered, Calling, RoundInv, ClientTypes, ServerTypes
<1>7. /\ \A v \in Workers \ {w} : b[v] = a[v]
      /\ \A t \in Servers \ {s} : b[w][t] = a[w][t]
      /\ b[w][s] = a[w][s] \/ b[w][s] = 0
  BY <1>3, <1>4, <1>6 DEF AnswerTable
<1>8. a[w][s] \in Nat /\ TableSum(a) \in Nat
  BY <1>5, TableType DEF Tables
<1>9. TableSum(b) = TableSum(a) - a[w][s] + b[w][s]
  BY <1>5, <1>7, EntryChange
<1>10. InFlight' <= InFlight /\ InFlight \in Nat /\ InFlight' \in Nat
  <2>1. TableSum(b) \in Nat
    BY <1>5, TableType
  <2> QED BY <2>1, <1>3, <1>4, <1>7, <1>8, <1>9, LedgerSums
<1>11. broken'[w] # {}
  BY <1>1 DEF RoundInv, ClientTypes
<1>12. Served' = Served /\ Completed' = Completed /\ Served \in Nat /\ Completed \in Nat
  BY <1>1, ServedType, CompletedType DEF Served, Completed
<1>13. Completed + InFlight <= Served
  BY DEF ServedLedger
<1>14. Completed' + InFlight' <= Served'
  <2>1. \A c, f, g, n \in Nat : c + f <= n /\ g <= f => c + g <= n
    OBVIOUS
  <2>2. Completed + InFlight' <= Served
    BY ONLY <2>1, <1>10, <1>12, <1>13
  <2> QED BY ONLY <2>2, <1>12
<1> QED BY <1>11, <1>14 DEF ServedLedger

LEMMA LedgerNext == LedgerInv /\ CountersFit /\ [Next]_vars => LedgerInv'
<1> SUFFICES ASSUME LedgerInv, CountersFit, [Next]_vars PROVE ServedLedger'
  BY RoundNext DEF LedgerInv
<1>1. ASSUME UNCHANGED <<opsCompleted, stats, broken, call, job>> PROVE ServedLedger'
  <2>1. \A v \in Workers, t \in Servers : Answered(v, t)' = Answered(v, t)
    BY <1>1 DEF Answered, Calling
  <2> QED BY <2>1, <1>1, LedgerQuiet
<1>2. ASSUME NEW w \in Workers, Work(w) PROVE ServedLedger'
  BY <1>1, <1>2, LedgerSendBatch, LedgerCollect DEF Work, Dial, SendResult
<1>3. ASSUME NEW w \in Workers, NEW s \in Servers, Request(w, s) PROVE ServedLedger'
  BY <1>3, LedgerApply, LedgerReply DEF Request
<1>4. ASSUME NEW w \in Workers, NEW s \in Breakable, BreakConnection(w, s) PROVE ServedLedger'
  BY <1>4, InRange, LedgerBreak
<1>5. ASSUME NEW s \in Reporting, PrintStats(s) PROVE ServedLedger'
  BY <1>1, <1>5 DEF PrintStats, CopyPuts, Report, workerVars
<1>6. CASE Main \/ UNCHANGED vars
  BY <1>1, <1>6 DEF Main, TimeIsUp, WaitForWorkers, CollectResult, workerVars, vars
<1> QED BY <1>2, <1>3, <1>4, <1>5, <1>6 DEF Next

-----------------------------------------------------------------------------
(* What the workers send and the main goroutine adds up.                   *)

ChannelInv == RoundInv /\ ChannelLedger

LEMMA ChannelInit == Init => ChannelLedger
<1> SUFFICES ASSUME Init PROVE ChannelLedger
  OBVIOUS
<1>1. PICK f : f = FinishedOps
  OBVIOUS
<1>2. \A w \in Workers : f[w] = 0
  BY <1>1 DEF Init, FinishedOps, Finished
<1>3. SumFunctionOnSet(f, Workers) = 0 /\ DOMAIN f = Workers
  BY <1>1, <1>2, WorkersAssumption, SumZero DEF FinishedOps
<1>4. SumFunction(FinishedOps) = 0
  BY <1>1, <1>3 DEF SumFunction
<1>5. SumFunction(resultsCh) = 0 /\ Len(resultsCh) = 0
  BY SumEmpty DEF Init, SumFunction
<1>6. Cardinality(Finished) = 0
  <2>1. Finished = {}
    BY DEF Init, Finished
  <2> QED BY <2>1, FS_EmptySet
<1> QED BY <1>4, <1>5, <1>6 DEF Init, ChannelLedger

LEMMA ChannelTypes ==
  ASSUME RoundInv
  PROVE  /\ resultsCh \in Seq(Int) /\ totalOps \in Nat /\ collected \in Nat
         /\ SumFunction(resultsCh) \in Int /\ Len(resultsCh) \in Nat
         /\ \A w \in Workers : FinishedOps[w] \in Int
         /\ SumFunction(FinishedOps) \in Int
         /\ Cardinality(Finished) \in Nat
<1>1. resultsCh \in Seq(Int) /\ totalOps \in Nat /\ collected \in Nat /\ Len(resultsCh) \in Nat
  BY DEF RoundInv, ClientTypes
<1>2. SumFunction(resultsCh) \in Int
  BY <1>1, SumSeqInt
<1>3. PICK f : f = FinishedOps
  OBVIOUS
<1>4. DOMAIN f = Workers /\ \A w \in Workers : f[w] \in Int
  BY <1>3 DEF FinishedOps, RoundInv, ClientTypes
<1>5. SumFunctionOnSet(f, Workers) \in Int
  BY <1>4, WorkersAssumption, SumInt
<1>6. Cardinality(Finished) \in Nat
  <2>1. IsFiniteSet(Finished)
    BY WorkersAssumption, FS_Subset DEF Finished
  <2> QED BY <2>1, FS_CardinalityType
<1> QED BY <1>1, <1>2, <1>3, <1>4, <1>5, <1>6 DEF SumFunction

LEMMA ChannelKept ==
  ASSUME ChannelInv, UNCHANGED <<resultsCh, totalOps, collected>>,
         \A v \in Workers : pc'[v] = "finished" <=> pc[v] = "finished",
         \A v \in Workers : pc[v] = "finished" => opsCompleted'[v] = opsCompleted[v],
         main' \in {"collect", "printed"} => Finished = Workers,
         main' = "printed" => resultsCh = <<>>
  PROVE  ChannelLedger'
<1>1. Finished' = Finished
  BY DEF Finished
<1>2. FinishedOps' = FinishedOps
  BY <1>1 DEF FinishedOps, Finished
<1>3. SumFunction(FinishedOps)' = SumFunction(FinishedOps)
  BY <1>2
<1>4. Cardinality(Finished)' = Cardinality(Finished)
  BY <1>1
<1> QED BY <1>1, <1>3, <1>4 DEF ChannelInv, ChannelLedger

LEMMA ChannelSend ==
  ASSUME ChannelInv, NEW w \in Workers, SendResult(w)
  PROVE  ChannelLedger'
<1> USE DEF ChannelInv
<1>1. /\ pc[w] = "loop" /\ pc' = [pc EXCEPT ![w] = "finished"]
      /\ resultsCh' = Append(resultsCh, opsCompleted[w])
      /\ UNCHANGED <<opsCompleted, main, totalOps, collected>>
  BY DEF SendResult, Goto
<1>2. opsCompleted[w] \in Nat /\ resultsCh \in Seq(Int) /\ w \notin Finished
  BY <1>1, ChannelTypes DEF RoundInv, ClientTypes, Finished
<1>3. Finished' = Finished \cup {w}
  BY <1>1 DEF Finished, RoundInv, ClientTypes
<1>4. Cardinality(Finished)' = Cardinality(Finished) + 1
  <2>1. IsFiniteSet(Finished)
    BY WorkersAssumption, FS_Subset DEF Finished
  <2>2. PICK D : D = Finished
    OBVIOUS
  <2>3. Cardinality(D \cup {w}) = Cardinality(D) + 1
    BY <2>1, <2>2, <1>2, FS_AddElement
  <2> QED BY <2>2, <2>3, <1>3
<1>5. Len(resultsCh') = Len(resultsCh) + 1
  BY <1>1, <1>2
<1>6. SumFunction(resultsCh)' = SumFunction(resultsCh) + opsCompleted[w]
  BY <1>1, <1>2, SumAppend
<1>7. SumFunction(FinishedOps)' = SumFunction(FinishedOps) + opsCompleted[w]
  <2>1. PICK f : f = FinishedOps
    OBVIOUS
  <2>2. PICK g : g = FinishedOps'
    OBVIOUS
  <2>3. DOMAIN f = Workers /\ DOMAIN g = Workers
    BY <2>1, <2>2 DEF FinishedOps
  <2>4. \A v \in Workers : f[v] \in Int
    BY <2>1, ChannelTypes
  <2>5. f[w] = 0 /\ g[w] = opsCompleted[w] /\ \A v \in Workers \ {w} : g[v] = f[v]
    BY <2>1, <2>2, <1>1, <1>2, <1>3 DEF FinishedOps
  <2>6. g[w] \in Int
    BY <2>5, <1>2
  <2>7. SumFunctionOnSet(g, Workers) = SumFunctionOnSet(f, Workers) - f[w] + g[w]
    BY ONLY <2>4, <2>5, <2>6, WorkersAssumption, SumChange, w \in Workers
  <2>8. SumFunctionOnSet(f, Workers) \in Int
    BY <2>4, WorkersAssumption, SumInt
  <2> QED BY <2>1, <2>2, <2>3, <2>5, <2>6, <2>7, <2>8 DEF SumFunction
<1>8. main' \notin {"collect", "printed"}
  BY <1>1, <1>2 DEF ChannelLedger
<1>9. /\ totalOps + SumFunction(resultsCh) = SumFunction(FinishedOps)
      /\ collected + Len(resultsCh) = Cardinality(Finished)
  BY DEF ChannelLedger
<1>10. totalOps' + SumFunction(resultsCh)' = SumFunction(FinishedOps)'
  BY <1>1, <1>2, <1>6, <1>7, <1>9, ChannelTypes
<1>11. collected' + Len(resultsCh') = Cardinality(Finished)'
  BY <1>1, <1>4, <1>5, <1>9, ChannelTypes
<1> QED BY <1>8, <1>10, <1>11 DEF ChannelLedger

LEMMA ChannelCollect ==
  ASSUME ChannelInv, CollectResult
  PROVE  ChannelLedger'
<1> USE DEF ChannelInv
<1>1. /\ main = "collect" /\ resultsCh # <<>>
      /\ totalOps' = totalOps + Head(resultsCh) /\ resultsCh' = Tail(resultsCh)
      /\ collected' = collected + 1
      /\ main' = IF collected' = Cardinality(Workers) THEN "printed" ELSE "collect"
      /\ UNCHANGED <<pc, opsCompleted>>
  BY DEF CollectResult, workerVars
<1>2. /\ resultsCh \in Seq(Int) /\ Head(resultsCh) \in Int /\ Tail(resultsCh) \in Seq(Int)
      /\ Len(Tail(resultsCh)) = Len(resultsCh) - 1
  BY <1>1, ChannelTypes
<1>3. SumFunction(resultsCh) = Head(resultsCh) + SumFunction(Tail(resultsCh))
  BY <1>1, <1>2, SumTail
<1>4. SumFunction(Tail(resultsCh)) \in Int
  BY <1>2, SumSeqInt
<1>5. Finished' = Finished /\ FinishedOps' = FinishedOps /\ Finished = Workers
  BY <1>1 DEF Finished, FinishedOps, ChannelLedger
<1>6. SumFunction(FinishedOps)' = SumFunction(FinishedOps) /\ Cardinality(Finished)' = Cardinality(Finished)
  BY <1>5
<1>7. /\ totalOps + SumFunction(resultsCh) = SumFunction(FinishedOps)
      /\ collected + Len(resultsCh) = Cardinality(Finished)
  BY DEF ChannelLedger
<1>8. totalOps' + SumFunction(resultsCh)' = SumFunction(FinishedOps)'
  <2>1. SumFunction(resultsCh)' = SumFunction(Tail(resultsCh))
    BY <1>1
  <2>2. totalOps \in Int
    BY ChannelTypes
  <2>3. totalOps + SumFunction(resultsCh) = totalOps' + SumFunction(Tail(resultsCh))
    <3>1. totalOps' = totalOps + Head(resultsCh) /\ Head(resultsCh) \in Int
      BY <1>1, <1>2
    <3> QED BY ONLY <1>3, <1>4, <2>2, <3>1
  <2> QED BY ONLY <2>1, <2>3, <1>6, <1>7
<1>9. collected' + Len(resultsCh') = Cardinality(Finished)'
  BY <1>1, <1>2, <1>6, <1>7, ChannelTypes
<1>10. main' = "printed" => resultsCh' = <<>>
  <2> SUFFICES ASSUME main' = "printed" PROVE resultsCh' = <<>>
    OBVIOUS
  <2>1. collected' = Cardinality(Finished)'
    BY <1>1, <1>5
  <2>2. collected' \in Int /\ resultsCh' \in Seq(Int)
    BY <1>1, <1>2, ChannelTypes
  <2>3. Len(resultsCh') = 0
    BY ONLY <2>1, <2>2, <1>9
  <2> QED BY ONLY <2>2, <2>3
<1>11. Finished' = Workers
  BY <1>5
<1> QED BY <1>8, <1>9, <1>10, <1>11 DEF ChannelLedger

LEMMA ChannelNext == ChannelInv /\ [Next]_vars => ChannelInv'
<1> SUFFICES ASSUME ChannelInv, [Next]_vars PROVE ChannelLedger'
  BY RoundNext DEF ChannelInv
<1> USE DEF ChannelInv
<1>1. ASSUME UNCHANGED <<resultsCh, totalOps, collected, main, pc, opsCompleted>> PROVE ChannelLedger'
  BY <1>1, ChannelKept DEF ChannelLedger
<1>2. CASE TimeIsUp \/ WaitForWorkers
  <2>1. UNCHANGED <<resultsCh, totalOps, collected, pc, opsCompleted>>
    BY <1>2 DEF TimeIsUp, WaitForWorkers, workerVars
  <2>2. main' \in {"collect", "printed"} => Finished = Workers
    BY <1>2 DEF TimeIsUp, WaitForWorkers, Finished
  <2>3. main' # "printed"
    BY <1>2 DEF TimeIsUp, WaitForWorkers
  <2> QED BY <2>1, <2>2, <2>3, ChannelKept
<1>3. ASSUME NEW w \in Workers, Dial(w) PROVE ChannelLedger'
  <2>1. UNCHANGED <<resultsCh, totalOps, collected, opsCompleted>>
    BY <1>3 DEF Dial
  <2>2. \A v \in Workers : pc'[v] = "finished" <=> pc[v] = "finished"
    BY <1>3 DEF Dial, Goto, RoundInv, ClientTypes
  <2>3. main' = main \/ main' = "exited"
    BY <1>3 DEF Dial
  <2> QED BY <2>1, <2>2, <2>3, ChannelKept DEF ChannelLedger
<1>4. ASSUME NEW w \in Workers, SendBatch(w) \/ CollectReplies(w) PROVE ChannelLedger'
  <2>1. UNCHANGED <<resultsCh, totalOps, collected, main>>
    BY <1>4 DEF SendBatch, CollectReplies, clientVars
  <2>2. \A v \in Workers : pc'[v] = "finished" <=> pc[v] = "finished"
    BY <1>4 DEF SendBatch, CollectReplies, Goto, RoundInv, ClientTypes
  <2>3. pc[w] # "finished" /\ \A v \in Workers \ {w} : opsCompleted'[v] = opsCompleted[v]
    BY <1>4 DEF SendBatch, CollectReplies, RoundInv, ClientTypes
  <2> QED BY <2>1, <2>2, <2>3, ChannelKept DEF ChannelLedger
<1>5. ASSUME NEW w \in Workers, Work(w) PROVE ChannelLedger'
  BY <1>5, <1>3, <1>4, ChannelSend DEF Work
<1>6. ASSUME NEW w \in Workers, NEW s \in Servers, Request(w, s) \/ BreakConnection(w, s)
      PROVE  ChannelLedger'
  BY <1>1, <1>6 DEF Request, Apply, Reply, BreakConnection, clientVars, workerVars
<1>7. ASSUME NEW s \in Reporting, PrintStats(s) PROVE ChannelLedger'
  BY <1>1, <1>7 DEF PrintStats, CopyPuts, Report, clientVars, workerVars
<1>8. CASE UNCHANGED vars
  BY <1>1, <1>8 DEF vars, clientVars, workerVars
<1> QED BY <1>2, <1>5, <1>6, <1>7, <1>8, InRange, ChannelCollect DEF Next, Main

-----------------------------------------------------------------------------
(* Until a counter of a server comes to its end, the client never reports  *)
(* more than was served, and what it reports is exactly what was served    *)
(* when no connection broke, for any number of workers and servers         *)
(* (client/main.go:134-150, 218-231, server/main.go:77-96).                *)
THEOREM BothEndsAgree == Spec /\ []CountersFit => []CountsAgree
<1>1. Init => LedgerInv /\ ChannelInv
  BY RoundInit, LedgerInit, ChannelInit DEF LedgerInv, ChannelInv
<1>2. LedgerInv /\ ChannelInv /\ CountersFit /\ [Next]_vars => LedgerInv' /\ ChannelInv'
  BY LedgerNext, ChannelNext
<1>3. LedgerInv /\ ChannelInv => CountsAgree
  <2> SUFFICES ASSUME LedgerInv, ChannelInv PROVE CountsAgree
    OBVIOUS
  <2> USE DEF LedgerInv, ChannelInv
  <2>1. PICK a : a = AnswerTable
    OBVIOUS
  <2>2. a \in Tables
    BY <2>1, AnswersTyped
  <2>3. InFlight \in Nat /\ Completed \in Nat /\ Served \in Nat
    BY <2>1, <2>2, LedgerSums, TableType, CompletedType, ServedType
  <2>4. Completed <= Served
    BY <2>3 DEF ServedLedger
  <2>5. ASSUME main = "printed" PROVE totalOps = Completed /\ InFlight = 0
    <3>1. Finished = Workers /\ resultsCh = <<>>
      BY <2>5 DEF ChannelLedger
    <3>2. SumFunction(resultsCh) = 0
      BY <3>1, SumEmpty DEF SumFunction
    <3>3. FinishedOps = opsCompleted
      BY <3>1 DEF FinishedOps, RoundInv, ClientTypes
    <3>4. totalOps = Completed
      BY <3>2, <3>3, ChannelTypes DEF ChannelLedger, Completed
    <3>5. \A w \in Workers, s \in Servers : a[w][s] = 0
      <4>1. \A w \in Workers, s \in Servers : call[w][s] = "none"
        BY <3>1 DEF Finished, RoundInv, RoundShape
      <4> QED BY <4>1, <2>1 DEF AnswerTable, Answered, Calling
    <3>6. TableSum(a) = 0
      <4>1. ASSUME NEW w \in Workers PROVE SumFunctionOnSet(a[w], Servers) = 0
        <5>1. PICK h : h = a[w]
          OBVIOUS
        <5>2. \A s \in Servers : h[s] = 0
          BY <3>5, <5>1
        <5> QED BY <5>1, <5>2, ServersFinite, SumZero
      <4>2. PICK h : h = RowSums(a)
        OBVIOUS
      <4>3. \A w \in Workers : h[w] = 0
        BY <4>1, <4>2 DEF RowSums
      <4> QED BY <4>2, <4>3, WorkersAssumption, SumZero DEF TableSum
    <3> QED BY <3>4, <3>6, <2>1, LedgerSums
  <2>6. (\A w \in Workers : broken[w] = {}) => Completed + InFlight = Served
    BY DEF ServedLedger
  <2> QED BY <2>3, <2>4, <2>5, <2>6 DEF CountsAgree
<1> QED BY <1>1, <1>2, <1>3, PTL DEF Spec

-----------------------------------------------------------------------------
(* What the servers served and what they were sent.                        *)

LEMMA TableMonotone ==
  ASSUME NEW a \in Tables, NEW b \in Tables,
         \A v \in Workers, s \in Servers : b[v][s] <= a[v][s]
  PROVE  TableSum(b) <= TableSum(a)
<1>1. ASSUME NEW v \in Workers
      PROVE  SumFunctionOnSet(b[v], Servers) <= SumFunctionOnSet(a[v], Servers)
  <2>1. PICK f, g : f = b[v] /\ g = a[v]
    OBVIOUS
  <2>2. \A s \in Servers : f[s] \in Int /\ g[s] \in Int /\ f[s] <= g[s]
    BY <2>1 DEF Tables
  <2>3. SumFunctionOnSet(f, Servers) <= SumFunctionOnSet(g, Servers)
    BY <2>2, ServersFinite, SumBound
  <2> QED BY <2>1, <2>3
<1>2. PICK f, g : f = RowSums(b) /\ g = RowSums(a)
  OBVIOUS
<1>3. \A v \in Workers : f[v] \in Int /\ g[v] \in Int /\ f[v] <= g[v]
  <2> SUFFICES ASSUME NEW v \in Workers PROVE f[v] \in Int /\ g[v] \in Int /\ f[v] <= g[v]
    OBVIOUS
  <2>1. /\ f[v] = SumFunctionOnSet(b[v], Servers) /\ f[v] \in Nat
        /\ g[v] = SumFunctionOnSet(a[v], Servers) /\ g[v] \in Nat
    BY <1>2, RowType
  <2> QED BY <1>1, <2>1
<1>4. SumFunctionOnSet(f, Workers) <= SumFunctionOnSet(g, Workers)
  BY <1>3, WorkersAssumption, SumBound
<1> QED BY <1>2, <1>4 DEF TableSum

WaitTable == [w \in Workers |-> [s \in Servers |-> Waiting(w, s)]]
SentRow == [w \in Workers |-> rounds[w] * BatchSize]

SentInv == RoundInv /\ SentLedger

LEMMA SentSums ==
  /\ AtServers = TableSum(WaitTable) /\ AtServers' = TableSum(WaitTable')
  /\ Sent = SumFunctionOnSet(SentRow, Workers) /\ Sent' = SumFunctionOnSet(SentRow', Workers)
<1>1. ASSUME NEW w \in Workers
      PROVE  /\ WaitingOf(w) = SumFunctionOnSet(WaitTable[w], Servers)
             /\ WaitingOf(w)' = SumFunctionOnSet(WaitTable'[w], Servers)
  BY DEF WaitingOf, WaitTable, SumFunction
<1>2. AtServers = TableSum(WaitTable)
  <2>1. [w \in Workers |-> WaitingOf(w)] = RowSums(WaitTable)
    BY <1>1 DEF RowSums
  <2> QED BY <2>1 DEF AtServers, SumFunction, TableSum
<1>3. AtServers' = TableSum(WaitTable')
  <2>1. [w \in Workers |-> WaitingOf(w)'] = RowSums(WaitTable')
    BY <1>1 DEF RowSums
  <2> QED BY <2>1 DEF AtServers, SumFunction, TableSum
<1>4. Sent = SumFunctionOnSet(SentRow, Workers) /\ Sent' = SumFunctionOnSet(SentRow', Workers)
  BY DEF Sent, SentRow, SumFunction
<1> QED BY <1>2, <1>3, <1>4

LengthsOrdered ==
  \A w \in Workers, s \in Servers :
    /\ Len(job[w][s].requests) \in Nat /\ Len(job[w][s].responses) \in Nat
    /\ Len(job[w][s].responses) <= Len(job[w][s].requests)
    /\ Waiting(w, s) \in Nat

LEMMA Lengths == RoundInv => LengthsOrdered
<1> SUFFICES ASSUME RoundInv, NEW w \in Workers, NEW s \in Servers
             PROVE  /\ Len(job[w][s].requests) \in Nat /\ Len(job[w][s].responses) \in Nat
                    /\ Len(job[w][s].responses) <= Len(job[w][s].requests)
                    /\ Waiting(w, s) \in Nat
  BY DEF LengthsOrdered
<1>1. Len(job[w][s].requests) \in Nat /\ Len(job[w][s].responses) \in Nat
  BY DEF RoundInv, ServerTypes, Jobs
<1>2. Len(job[w][s].responses) <= Len(job[w][s].requests)
  BY DEF RoundInv, RoundShape, JobShape
<1> QED BY <1>1, <1>2 DEF Waiting

LEMMA LengthsNext == RoundInv' => LengthsOrdered'
BY Lengths, PTL

LEMMA WaitsTyped ==
  ASSUME LengthsOrdered PROVE WaitTable \in Tables
BY DEF LengthsOrdered, WaitTable, Tables

LEMMA WaitsTypedNext ==
  ASSUME LengthsOrdered' PROVE WaitTable' \in Tables
BY DEF LengthsOrdered, WaitTable, Tables

LEMMA SentType ==
  ASSUME rounds \in [Workers -> 0 .. MaxRounds]
  PROVE  Sent \in Nat /\ \A w \in Workers : SentRow[w] \in Nat
<1>1. \A w \in Workers : rounds[w] \in Nat /\ BatchSize \in Nat
  BY BaselineAssumption
<1>2. \A w \in Workers : SentRow[w] \in Nat
  BY <1>1 DEF SentRow
<1>3. PICK f : f = SentRow
  OBVIOUS
<1>4. SumFunctionOnSet(f, Workers) \in Nat
  BY <1>2, <1>3, WorkersAssumption, SumNat
<1> QED BY <1>2, <1>3, <1>4, SentSums

LEMMA SentInit == Init => SentLedger
<1> SUFFICES ASSUME Init PROVE SentLedger
  OBVIOUS
<1>1. RoundInv /\ LengthsOrdered
  BY RoundInit, Lengths
<1>2. rounds \in [Workers -> 0 .. MaxRounds]
  BY BaselineAssumption DEF Init
<1>3. PICK a : a = WaitTable
  OBVIOUS
<1>4. \A w \in Workers, s \in Servers : a[w][s] = 0
  <2>1. \A w \in Workers, s \in Servers : job[w][s] = NoJob
    BY DEF Init
  <2>2. Len(NoJob.requests) - Len(NoJob.responses) = 0
    BY DEF NoJob
  <2> QED BY <2>1, <2>2, <1>3 DEF WaitTable, Waiting
<1>5. TableSum(a) = 0
  <2>1. ASSUME NEW w \in Workers PROVE SumFunctionOnSet(a[w], Servers) = 0
    <3>1. PICK h : h = a[w]
      OBVIOUS
    <3>2. \A s \in Servers : h[s] = 0
      BY <1>4, <3>1
    <3> QED BY <3>1, <3>2, ServersFinite, SumZero
  <2>2. PICK h : h = RowSums(a)
    OBVIOUS
  <2>3. \A w \in Workers : h[w] = 0
    BY <2>1, <2>2 DEF RowSums
  <2> QED BY <2>2, <2>3, WorkersAssumption, SumZero DEF TableSum
<1>6. Served = 0
  <2>1. PICK g : g = StatTable
    OBVIOUS
  <2>2. \A s \in Servers : g[s] = 0
    BY <2>1 DEF Init, Zeros, Counters, StatTable
  <2>3. SumFunctionOnSet(g, Servers) = 0
    BY <2>2, ServersFinite, SumZero
  <2> QED BY <2>1, <2>3, LedgerSums
<1>7. AtServers = 0
  BY <1>3, <1>5, SentSums
<1> QED BY <1>2, <1>6, <1>7, SentType DEF SentLedger

(* Steps that start nothing and serve nothing: what waits is dropped, if   *)
(* anything happens to it.                                                 *)
LEMMA SentQuiet ==
  ASSUME SentInv, RoundInv', UNCHANGED <<stats, rounds>>,
         \A w \in Workers, s \in Servers : Waiting(w, s)' <= Waiting(w, s)
  PROVE  SentLedger'
<1>1. PICK a, b : a = WaitTable /\ b = WaitTable'
  OBVIOUS
<1>2. a \in Tables /\ b \in Tables
  BY <1>1, Lengths, LengthsNext, WaitsTyped, WaitsTypedNext DEF SentInv
<1>3. \A w \in Workers, s \in Servers : b[w][s] <= a[w][s]
  BY <1>1 DEF WaitTable
<1>4. TableSum(b) <= TableSum(a) /\ TableSum(a) \in Nat /\ TableSum(b) \in Nat
  BY <1>2, <1>3, TableMonotone, TableType
<1>5. AtServers' <= AtServers /\ AtServers \in Nat /\ AtServers' \in Nat
  BY <1>1, <1>4, SentSums
<1>6. Served' = Served /\ Served \in Nat
  BY ServedType DEF Served, SentInv
<1>7. Sent' = Sent /\ Sent \in Nat
  BY SentType DEF Sent, SentInv, SentLedger
<1>8. Served + AtServers <= Sent
  BY DEF SentInv, SentLedger
<1>9. Served' + AtServers' <= Sent'
  <2>1. \A v, f, g, n \in Nat : v + f <= n /\ g <= f => v + g <= n
    OBVIOUS
  <2>2. Served + AtServers' <= Sent
    BY ONLY <2>1, <1>5, <1>6, <1>7, <1>8
  <2> QED BY ONLY <2>2, <1>6, <1>7
<1>10. rounds' \in [Workers -> 0 .. MaxRounds]
  BY DEF SentInv, SentLedger
<1> QED BY <1>9, <1>10 DEF SentLedger

(* A counter goes up by one at the most, even where it wraps.              *)
LEMMA ServedAtMostMore ==
  ASSUME RoundInv, NEW w \in Workers, NEW s \in Servers, Apply(w, s)
  PROVE  Served' \in Nat /\ Served' <= Served + 1
<1> DEFINE r == job[w][s].requests[Len(job[w][s].responses) + 1]
<1>1. PICK c \in Counters : stats' = [stats EXCEPT ![s][c] = (@ + 1) % WordSize]
  <2>1. stats' = [stats EXCEPT ![s][IF r.isRead THEN "gets" ELSE "puts"] = (@ + 1) % WordSize]
    BY DEF Apply
  <2>2. (IF r.isRead THEN "gets" ELSE "puts") \in Counters
    BY DEF Counters
  <2> QED BY <2>1, <2>2
<1>2. stats[s]["puts"] \in Nat /\ stats[s]["gets"] \in Nat /\ stats \in [Servers -> [Counters -> Nat]]
  BY WordSizeType DEF RoundInv, ServerTypes, Counters
<1>3. \A n \in Nat : (n + 1) % WordSize \in Nat /\ (n + 1) % WordSize <= n + 1
  <2>1. \A m \in Nat, d \in Nat \ {0} : m % d \in Nat /\ m % d <= m
    OBVIOUS
  <2> QED BY <2>1, WordSizeType
<1>4. PICK f, g : f = StatTable /\ g = StatTable'
  OBVIOUS
<1>5. \A t \in Servers : f[t] \in Int
  BY <1>4, ServedType
<1>6. \A t \in Servers \ {s} : g[t] = f[t]
  BY <1>1, <1>2, <1>4 DEF StatTable
<1>7. g[s] \in Nat /\ g[s] <= f[s] + 1
  <2>1. f[s] = stats[s]["puts"] + stats[s]["gets"] /\ g[s] = stats'[s]["puts"] + stats'[s]["gets"]
    BY <1>4 DEF StatTable
  <2>2. \/ stats'[s]["puts"] = (stats[s]["puts"] + 1) % WordSize /\ stats'[s]["gets"] = stats[s]["gets"]
        \/ stats'[s]["puts"] = stats[s]["puts"] /\ stats'[s]["gets"] = (stats[s]["gets"] + 1) % WordSize
    BY <1>1, <1>2 DEF Counters
  <2>3. /\ stats'[s]["puts"] \in Nat /\ stats'[s]["gets"] \in Nat
        /\ stats'[s]["puts"] + stats'[s]["gets"] <= stats[s]["puts"] + stats[s]["gets"] + 1
    BY <1>2, <1>3, <2>2
  <2> QED BY <1>2, <2>1, <2>3
<1>8. g[s] \in Int /\ f[s] \in Int
  BY <1>5, <1>7
<1>9. SumFunctionOnSet(g, Servers) = SumFunctionOnSet(f, Servers) - f[s] + g[s]
  BY ONLY <1>5, <1>6, <1>8, ServersFinite, SumChange, s \in Servers
<1>10. \A t \in Servers : g[t] \in Nat
  BY <1>4, <1>6, <1>7, ServedType
<1>11. SumFunctionOnSet(g, Servers) \in Nat
  BY <1>10, ServersFinite, SumNat
<1>12. Served \in Nat
  BY ServedType
<1> QED BY <1>4, <1>7, <1>8, <1>9, <1>11, <1>12, LedgerSums

LEMMA SentApply ==
  ASSUME SentInv, NEW w \in Workers, NEW s \in Servers, Apply(w, s)
  PROVE  SentLedger'
<1> USE DEF SentInv
<1>1. PICK r : Serves(w, s, r)
  BY ApplyFacts
<1>2. PICK a, b : a = WaitTable /\ b = WaitTable'
  OBVIOUS
<1>3. a \in Tables /\ b \in Tables
  BY <1>2, RoundApply, Lengths, LengthsNext, WaitsTyped, WaitsTypedNext
<1>4. /\ \A v \in Workers \ {w} : b[v] = a[v]
      /\ \A t \in Servers \ {s} : b[w][t] = a[w][t]
  <2>1. \A v \in Workers, t \in Servers : v # w \/ t # s => job'[v][t] = job[v][t]
    BY <1>1 DEF Serves
  <2>2. \A v \in Workers, t \in Servers : v # w \/ t # s => Waiting(v, t)' = Waiting(v, t)
    BY <2>1 DEF Waiting
  <2> QED BY <2>2, <1>2 DEF WaitTable
<1>5. b[w][s] = a[w][s] - 1
  <2>1. /\ Len(job'[w][s].responses) = Len(job[w][s].responses) + 1
        /\ job'[w][s].requests = job[w][s].requests
    BY <1>1 DEF Serves
  <2>2. Len(job[w][s].requests) \in Nat /\ Len(job[w][s].responses) \in Nat
    BY Lengths DEF LengthsOrdered
  <2>3. Waiting(w, s)' = Waiting(w, s) - 1
    BY <2>1, <2>2 DEF Waiting
  <2> QED BY <1>2, <2>3 DEF WaitTable
<1>6. TableSum(b) = TableSum(a) - a[w][s] + b[w][s]
  BY <1>3, <1>4, EntryChange
<1>7. a[w][s] \in Int /\ TableSum(a) \in Nat
  BY <1>3, TableType DEF Tables
<1>8. AtServers' = AtServers - 1 /\ AtServers \in Nat
  BY <1>2, <1>5, <1>6, <1>7, SentSums
<1>9. rounds' = rounds
  BY DEF Apply, workerVars
<1>10. Sent' = Sent /\ Sent \in Nat
  BY <1>9, SentType DEF Sent, SentLedger
<1>11. Served' \in Nat /\ Served' <= Served + 1 /\ Served \in Nat
  BY ServedAtMostMore, ServedType
<1>12. Served + AtServers <= Sent
  BY DEF SentLedger
<1>13. Served' + AtServers' <= Sent'
  <2>1. \A u, v, f, n \in Nat : u <= v + 1 /\ v + f <= n => u + (f - 1) <= n
    OBVIOUS
  <2>2. Served' + (AtServers - 1) <= Sent
    BY ONLY <2>1, <1>8, <1>10, <1>11, <1>12
  <2> QED BY ONLY <2>2, <1>8, <1>10
<1> QED BY <1>9, <1>13 DEF SentLedger

(* The parts of a batch are as many as it has requests, and where a part   *)
(* is sent no older one waits.                                             *)
LEMMA SentSendBatch ==
  ASSUME SentInv, NEW w \in Workers, SendBatch(w)
  PROVE  SentLedger'
<1> USE DEF SentInv
<1>1. PICK requests : Sends(w, requests)
  BY SendFacts
<1>2. requests \in Seq(Timestamped) /\ Numbered(requests) /\ Len(requests) = BatchSize
  BY <1>1 DEF Sends
<1>3. PICK a, b : a = WaitTable /\ b = WaitTable'
  OBVIOUS
<1>4. a \in Tables /\ b \in Tables
  BY <1>3, RoundSendBatch, Lengths, LengthsNext, WaitsTyped, WaitsTypedNext
<1>5. PICK p : p = [s \in Servers |-> Cardinality(Part(requests, s))]
  OBVIOUS
<1>6. \A s \in Servers : p[s] \in Nat
  <2> SUFFICES ASSUME NEW s \in Servers PROVE p[s] \in Nat
    OBVIOUS
  <2>1. PICK Q : Q = {i \in DOMAIN requests : getServerIdx(requests[i].key) = s}
    OBVIOUS
  <2> QED BY <1>2, <1>5, <2>1, PartFinite
<1>7. SumFunctionOnSet(p, Servers) = BatchSize
  <2>1. PICK D, f : D = 1 .. BatchSize /\ f = [i \in D |-> getServerIdx(requests[i].key)]
    OBVIOUS
  <2>2. DOMAIN requests = D /\ IsFiniteSet(D) /\ Cardinality(D) = BatchSize
    <3>1. BatchSize \in Nat
      BY BaselineAssumption
    <3> QED BY <1>2, <2>1, <3>1, FS_Interval
  <2>3. f \in [D -> Servers]
    <3>1. \A i \in D : requests[i].key \in Keys
      <4>1. \A i \in DOMAIN requests : requests[i] \in Timestamped
        BY <1>2
      <4>2. \A r \in Timestamped : r.key \in Keys
        BY DEF Timestamped
      <4> QED BY <2>2, <4>1, <4>2
    <3>2. \A i \in D : getServerIdx(requests[i].key) \in Servers
      BY <3>1, ServerOfKey
    <3> QED BY <2>1, <3>2
  <2>4. \A s \in Servers : p[s] = Cardinality({i \in D : f[i] = s})
    <3> SUFFICES ASSUME NEW s \in Servers PROVE p[s] = Cardinality({i \in D : f[i] = s})
      OBVIOUS
    <3>1. PICK Q : Q = {i \in DOMAIN requests : getServerIdx(requests[i].key) = s}
      OBVIOUS
    <3>2. Cardinality(Part(requests, s)) = Cardinality(Q)
      BY <1>2, <3>1, PartFinite
    <3>3. Q = {i \in D : f[i] = s}
      BY <2>1, <2>2, <3>1
    <3> QED BY <1>5, <3>2, <3>3
  <2>5. SumFunctionOnSet(p, Servers) = Cardinality(D)
    BY ONLY <2>2, <2>3, <2>4, ServersFinite, PartsAddUp
  <2> QED BY <2>2, <2>5
<1>8. \A s \in Servers : a[w][s] \in Nat /\ b[w][s] \in Nat /\ b[w][s] <= a[w][s] + p[s]
  <2> SUFFICES ASSUME NEW s \in Servers PROVE a[w][s] \in Nat /\ b[w][s] \in Nat /\ b[w][s] <= a[w][s] + p[s]
    OBVIOUS
  <2>1. a[w][s] \in Nat /\ b[w][s] \in Nat /\ p[s] \in Nat
    BY <1>4, <1>6 DEF Tables
  <2>2. a[w][s] = Waiting(w, s) /\ b[w][s] = Waiting(w, s)'
    BY <1>3 DEF WaitTable
  <2>3. CASE job'[w][s] = job[w][s]
    <3>1. b[w][s] = a[w][s]
      BY <2>2, <2>3 DEF Waiting
    <3> QED BY <2>1, <3>1
  <2>4. CASE job'[w][s] = NewJob(Part(requests, s))
    <3>1. PICK q : q = Sorted(Part(requests, s))
      OBVIOUS
    <3>2. q \in Seq(Timestamped) /\ DOMAIN q = 1 .. p[s]
      BY <1>2, <1>5, <3>1, SortedPart
    <3>3. Len(q) = p[s]
      BY <2>1, <3>2
    <3>4. job'[w][s].requests = q /\ job'[w][s].responses = <<>>
      BY <1>2, <2>4, <3>1, NewJobType
    <3>5. b[w][s] = p[s]
      BY <2>1, <2>2, <3>3, <3>4 DEF Waiting
    <3> QED BY <2>1, <3>5
  <2> QED BY <1>1, <2>3, <2>4 DEF Sends
<1>9. \A v \in Workers \ {w} : b[v] = a[v]
  BY <1>1, <1>3 DEF Sends, WaitTable, Waiting
<1>10. PICK m, n : m = SumFunctionOnSet(a[w], Servers) /\ n = SumFunctionOnSet(b[w], Servers)
  OBVIOUS
<1>11. m \in Nat /\ n \in Nat /\ n <= m + BatchSize
  <2>1. m \in Nat /\ n \in Nat
    BY <1>4, <1>10, RowType
  <2>2. PICK f, g, h : f = a[w] /\ g = b[w] /\ h = [s \in Servers |-> f[s] + p[s]]
    OBVIOUS
  <2>3. \A s \in Servers : f[s] \in Int /\ p[s] \in Int /\ h[s] = f[s] + p[s]
    BY <1>6, <1>8, <2>2
  <2>4. SumFunctionOnSet(h, Servers) = SumFunctionOnSet(f, Servers) + SumFunctionOnSet(p, Servers)
    BY ONLY <2>3, ServersFinite, SumPlus
  <2>5. \A s \in Servers : g[s] \in Int /\ h[s] \in Int /\ g[s] <= h[s]
    BY <1>6, <1>8, <2>2
  <2>6. SumFunctionOnSet(g, Servers) <= SumFunctionOnSet(h, Servers)
    BY ONLY <2>5, ServersFinite, SumBound
  <2> QED BY <2>1, <2>2, <2>4, <2>6, <1>7, <1>10
<1>12. TableSum(b) = TableSum(a) - m + n /\ TableSum(a) \in Nat
  BY <1>4, <1>9, <1>10, RowChange, TableType
<1>13. AtServers' <= AtServers + BatchSize /\ AtServers \in Nat /\ AtServers' \in Nat
  <2>1. BatchSize \in Nat /\ TableSum(b) \in Nat
    BY <1>4, TableType, BaselineAssumption
  <2>2. TableSum(b) <= TableSum(a) + BatchSize
    BY <2>1, <1>11, <1>12
  <2> QED BY <1>3, <1>12, <2>1, <2>2, SentSums
<1>14. rounds' = [rounds EXCEPT ![w] = @ + 1] /\ rounds[w] < MaxRounds
  BY DEF SendBatch
<1>15. rounds' \in [Workers -> 0 .. MaxRounds] /\ rounds'[w] = rounds[w] + 1 /\ rounds[w] \in Nat
  <2>1. MaxRounds \in Nat /\ rounds \in [Workers -> 0 .. MaxRounds]
    BY BaselineAssumption DEF SentLedger
  <2> QED BY <2>1, <1>14
<1>16. Sent' = Sent + BatchSize /\ Sent \in Nat /\ BatchSize \in Nat
  <2>1. PICK f, g : f = SentRow /\ g = SentRow'
    OBVIOUS
  <2>2. BatchSize \in Nat
    BY BaselineAssumption
  <2>3. \A v \in Workers : f[v] \in Int
    BY <2>1, SentType DEF SentLedger
  <2>4. \A v \in Workers \ {w} : g[v] = f[v]
    BY <2>1, <1>14 DEF SentRow, SentLedger
  <2>5. g[w] = f[w] + BatchSize /\ f[w] \in Int
    <3>1. f[w] = rounds[w] * BatchSize /\ g[w] = rounds'[w] * BatchSize
      BY <2>1 DEF SentRow
    <3>2. \A i, j \in Nat : (i + 1) * j = i * j + j
      OBVIOUS
    <3> QED BY <2>2, <2>3, <3>1, <3>2, <1>15
  <2>6. g[w] \in Int
    BY <2>2, <2>5
  <2>7. SumFunctionOnSet(g, Workers) = SumFunctionOnSet(f, Workers) - f[w] + g[w]
    BY ONLY <2>3, <2>4, <2>6, WorkersAssumption, SumChange, w \in Workers
  <2>8. Sent \in Nat
    BY SentType DEF SentLedger
  <2> QED BY <2>1, <2>2, <2>5, <2>7, <2>8, SentSums
<1>17. Served' = Served /\ Served \in Nat
  BY <1>1, ServedType DEF Sends, Served
<1>18. Served + AtServers <= Sent
  BY DEF SentLedger
<1>19. Served' + AtServers' <= Sent'
  <2>1. \A v, f, g, l, k \in Nat : v + f <= l /\ g <= f + k => v + g <= l + k
    OBVIOUS
  <2>2. Served + AtServers' <= Sent + BatchSize
    BY ONLY <2>1, <1>13, <1>16, <1>17, <1>18
  <2> QED BY ONLY <2>2, <1>16, <1>17
<1> QED BY <1>15, <1>19 DEF SentLedger

LEMMA SentNext == SentInv /\ [Next]_vars => SentInv'
<1> SUFFICES ASSUME SentInv, [Next]_vars PROVE SentLedger'
  BY RoundNext DEF SentInv
<1>0. RoundInv /\ RoundInv' /\ LengthsOrdered
  BY RoundNext, Lengths DEF SentInv
<1>1. ASSUME UNCHANGED <<stats, rounds, job>> PROVE SentLedger'
  <2>1. \A v \in Workers, t \in Servers : Waiting(v, t)' <= Waiting(v, t)
    BY <1>0, <1>1 DEF Waiting, LengthsOrdered
  <2> QED BY <2>1, <1>0, <1>1, SentQuiet
<1>2. ASSUME NEW w \in Workers, CollectReplies(w) PROVE SentLedger'
  <2>1. UNCHANGED <<stats, rounds>>
        /\ job' = [job EXCEPT ![w] = [s \in Servers |-> IF call[w][s] = "replied" THEN NoJob ELSE @[s]]]
    BY <1>2 DEF CollectReplies
  <2>2. ASSUME NEW v \in Workers, NEW t \in Servers PROVE Waiting(v, t)' <= Waiting(v, t)
    <3>1. job'[v][t] = job[v][t] \/ job'[v][t] = NoJob
      BY <2>1, <1>0 DEF RoundInv, ServerTypes
    <3>2. Len(NoJob.requests) - Len(NoJob.responses) = 0
      BY DEF NoJob
    <3>3. Waiting(v, t) \in Nat
      BY <1>0 DEF LengthsOrdered
    <3>4. Waiting(v, t)' = Waiting(v, t) \/ Waiting(v, t)' = 0
      BY <3>1, <3>2 DEF Waiting
    <3> QED BY <3>3, <3>4
  <2> QED BY <2>1, <2>2, <1>0, SentQuiet
<1>3. ASSUME NEW w \in Workers, Work(w) PROVE SentLedger'
  BY <1>1, <1>2, <1>3, SentSendBatch DEF Work, Dial, SendResult
<1>4. ASSUME NEW w \in Workers, NEW s \in Servers, Request(w, s) PROVE SentLedger'
  BY <1>1, <1>4, SentApply DEF Request, Reply, workerVars
<1>5. ASSUME NEW w \in Workers, NEW s \in Breakable, BreakConnection(w, s) PROVE SentLedger'
  <2>1. s \in Servers
    BY InRange
  <2>2. UNCHANGED <<stats, rounds>> /\ (job' = job \/ job' = [job EXCEPT ![w][s] = NoJob])
    BY <1>5 DEF BreakConnection
  <2>3. ASSUME NEW v \in Workers, NEW t \in Servers PROVE Waiting(v, t)' <= Waiting(v, t)
    <3>1. job'[v][t] = job[v][t] \/ job'[v][t] = NoJob
      <4>1. job \in [Workers -> [Servers -> Jobs]]
        BY <1>0 DEF RoundInv, ServerTypes
      <4>2. CASE job' = job
        BY <4>2
      <4>3. CASE job' = [job EXCEPT ![w][s] = NoJob]
        <5>1. CASE v = w /\ t = s
          BY <2>1, <4>1, <4>3, <5>1
        <5>2. CASE v # w \/ t # s
          BY <2>1, <4>1, <4>3, <5>2
        <5> QED BY <5>1, <5>2
      <4> QED BY <2>2, <4>2, <4>3
    <3>2. Len(NoJob.requests) - Len(NoJob.responses) = 0
      BY DEF NoJob
    <3>3. Waiting(v, t) \in Nat
      BY <1>0 DEF LengthsOrdered
    <3>4. Waiting(v, t)' = Waiting(v, t) \/ Waiting(v, t)' = 0
      BY <3>1, <3>2 DEF Waiting
    <3> QED BY <3>3, <3>4
  <2> QED BY <2>2, <2>3, <1>0, SentQuiet
<1>6. ASSUME NEW s \in Reporting, PrintStats(s) PROVE SentLedger'
  BY <1>1, <1>6 DEF PrintStats, CopyPuts, Report, workerVars
<1>7. CASE Main \/ UNCHANGED vars
  BY <1>1, <1>7 DEF Main, TimeIsUp, WaitForWorkers, CollectResult, workerVars, vars
<1> QED BY <1>3, <1>4, <1>5, <1>6, <1>7 DEF Next

LEMMA SentHolds == Spec => []SentInv
<1>1. Init => SentInv
  BY RoundInit, SentInit DEF SentInv
<1> QED BY <1>1, SentNext, PTL DEF Spec

-----------------------------------------------------------------------------
(* ServedOnce.                                                             *)

(* Nothing is served, and nothing new is sent to any server.               *)
LEMMA OnceQuiet ==
  ASSUME RoundInv, RoundInv', OnceInv, served' = served,
         \A v \in Workers : /\ timestamp[v] <= timestamp'[v]
                            /\ pc'[v] = "dial" => pc[v] = "dial" /\ timestamp'[v] = timestamp[v],
         \A v \in Workers, t \in Servers : job'[v][t] = job[v][t] \/ job'[v][t] = NoJob
  PROVE  OnceInv'
<1> SUFFICES ASSUME NEW v \in Workers PROVE OncePerRequest(v)'
  BY DEF OnceInv
<1>1. OncePerRequest(v)
  BY DEF OnceInv
<1>2. /\ timestamp[v] \in Nat /\ timestamp'[v] \in Nat /\ timestamp[v] <= timestamp'[v]
      /\ 0 .. timestamp[v] \subseteq 0 .. timestamp'[v]
  BY DEF RoundInv, ClientTypes
<1>3. ASSUME NEW t \in Servers
      PROVE  Had(v, t)' \subseteq Had(v, t) /\ Unserved(v, t)' \subseteq Unserved(v, t)
  <2>1. CASE job'[v][t] = job[v][t]
    BY <2>1 DEF Had, Unserved
  <2>2. CASE job'[v][t] = NoJob
    <3>1. \A n \in {1, Len(NoJob.responses) + 1} : TimestampsOf(NoJob, n) = {}
      BY DEF NoJob, TimestampsOf
    <3> QED BY <2>2, <3>1 DEF Had, Unserved
  <2> QED BY <2>1, <2>2
<1>4. pc'[v] = "dial" => timestamp'[v] = 0
  BY <1>1 DEF OncePerRequest
<1>5. served'[v] \subseteq 0 .. timestamp'[v]
  BY <1>1, <1>2 DEF OncePerRequest
<1>6. ASSUME NEW s \in Servers
      PROVE  /\ Had(v, s)' \subseteq 0 .. timestamp'[v]
             /\ Unserved(v, s)' \cap served'[v] = {}
             /\ \A t \in Servers \ {s} : Unserved(v, s)' \cap Unserved(v, t)' = {}
  BY <1>1, <1>2, <1>3 DEF OncePerRequest
<1> QED BY <1>4, <1>5, <1>6 DEF OncePerRequest

(* The requests of a batch are numbered on, and each goes to one server.   *)
LEMMA OnceSendBatch ==
  ASSUME RoundInv, RoundInv', OnceInv, NEW w \in Workers, SendBatch(w)
  PROVE  OnceInv'
<1>1. PICK requests : Sends(w, requests)
  BY SendFacts
<1>2. /\ requests \in Seq(Timestamped) /\ Numbered(requests) /\ served' = served
      /\ timestamp[w] <= timestamp'[w]
      /\ \A r \in Range(requests) : timestamp[w] < r.timestamp /\ r.timestamp <= timestamp'[w]
      /\ pc' = [pc EXCEPT ![w] = "await"]
      /\ \A s \in Servers : job'[w][s] = job[w][s] \/ job'[w][s] = NewJob(Part(requests, s))
      /\ \A v \in Workers \ {w} : job'[v] = job[v] /\ timestamp'[v] = timestamp[v]
  BY <1>1 DEF Sends
<1>3. /\ timestamp[w] \in Nat /\ timestamp'[w] \in Nat
      /\ 0 .. timestamp[w] \subseteq 0 .. timestamp'[w]
  BY <1>2 DEF RoundInv, ClientTypes
<1>4. OncePerRequest(w) /\ served[w] \subseteq 0 .. timestamp[w]
  BY DEF OnceInv, OncePerRequest
<1> DEFINE NewTimes(s) == {r.timestamp : r \in Part(requests, s)}
<1>5. ASSUME NEW s \in Servers, job'[w][s] = NewJob(Part(requests, s))
      PROVE  Had(w, s)' = NewTimes(s) /\ Unserved(w, s)' = NewTimes(s)
  <2>1. PICK q : q = Sorted(Part(requests, s))
    OBVIOUS
  <2>2. /\ q \in Seq(Timestamped) /\ Range(q) = Part(requests, s)
        /\ job'[w][s].requests = q /\ job'[w][s].responses = <<>>
    BY <1>2, <1>5, <2>1, SortedPart, NewJobType
  <2>3. {q[i].timestamp : i \in 1 .. Len(q)} = {r.timestamp : r \in Range(q)}
    <3>1. DOMAIN q = 1 .. Len(q) BY <2>2
    <3> QED BY <3>1 DEF Range
  <2>4. Len(<<>>) + 1 = 1
    OBVIOUS
  <2> QED BY <2>2, <2>3, <2>4 DEF Had, Unserved, TimestampsOf
<1>6. ASSUME NEW s \in Servers, job'[w][s] = job[w][s]
      PROVE  Had(w, s)' = Had(w, s) /\ Unserved(w, s)' = Unserved(w, s)
  BY <1>6 DEF Had, Unserved
<1>7. \A s \in Servers : \A n \in NewTimes(s) :
        n \in 0 .. timestamp'[w] /\ n \notin 0 .. timestamp[w]
  <2> SUFFICES ASSUME NEW s \in Servers, NEW r \in Part(requests, s)
               PROVE  /\ r.timestamp \in 0 .. timestamp'[w]
                      /\ r.timestamp \notin 0 .. timestamp[w]
    OBVIOUS
  <2>1. r \in Range(requests) BY DEF Part
  <2>2. r \in Timestamped BY <1>2, <2>1 DEF Range
  <2>3. r.timestamp \in Nat BY <2>2 DEF Timestamped
  <2> QED BY <1>2, <1>3, <2>1, <2>3
<1>8. \A s \in Servers, t \in Servers : s # t => NewTimes(s) \cap NewTimes(t) = {}
  <2> SUFFICES ASSUME NEW s \in Servers, NEW t \in Servers, s # t,
                      NEW a \in Part(requests, s), NEW b \in Part(requests, t),
                      a.timestamp = b.timestamp
               PROVE  FALSE
    OBVIOUS
  <2>1. PICK i \in DOMAIN requests, j \in DOMAIN requests : a = requests[i] /\ b = requests[j]
    BY DEF Part, Range
  <2>2. requests[i].timestamp = requests[j].timestamp BY <2>1
  <2>3. i = j BY <1>2, <2>2, TimesDiffer
  <2> QED BY <2>1, <2>3 DEF Part
<1>9. \A s \in Servers : Unserved(w, s) \subseteq Had(w, s)
  <2> TAKE s \in Servers
  <2>1. job[w][s] \in Jobs BY DEF RoundInv, ServerTypes
  <2>2. Len(job[w][s].responses) \in Nat /\ Len(job[w][s].requests) \in Nat
    BY <2>1 DEF Jobs
  <2>3. (Len(job[w][s].responses) + 1) .. Len(job[w][s].requests)
          \subseteq 1 .. Len(job[w][s].requests)
    BY <2>2
  <2> QED BY <2>3 DEF Had, Unserved, TimestampsOf
<1> HIDE DEF NewTimes
<1>10. OncePerRequest(w)'
  <2>1. ASSUME NEW s \in Servers
        PROVE  /\ Had(w, s)' \subseteq 0 .. timestamp'[w]
               /\ Unserved(w, s)' \cap served'[w] = {}
               /\ \A t \in Servers \ {s} : Unserved(w, s)' \cap Unserved(w, t)' = {}
    <3>1. Had(w, s)' \subseteq 0 .. timestamp'[w]
      BY <1>2, <1>3, <1>4, <1>5, <1>6, <1>7 DEF OncePerRequest
    <3>2. Unserved(w, s)' \cap served'[w] = {}
      BY <1>2, <1>4, <1>5, <1>6, <1>7 DEF OncePerRequest
    <3>3. ASSUME NEW t \in Servers \ {s} PROVE Unserved(w, s)' \cap Unserved(w, t)' = {}
      <4>1. /\ Unserved(w, s) \subseteq 0 .. timestamp[w]
            /\ Unserved(w, t) \subseteq 0 .. timestamp[w]
            /\ Unserved(w, s) \cap Unserved(w, t) = {}
        BY <1>4, <1>9 DEF OncePerRequest
      <4> QED BY <1>2, <1>5, <1>6, <1>7, <1>8, <4>1
    <3> QED BY <3>1, <3>2, <3>3
  <2>2. pc'[w] # "dial"
    BY <1>2 DEF RoundInv, ClientTypes
  <2>3. served'[w] \subseteq 0 .. timestamp'[w]
    BY <1>2, <1>3, <1>4
  <2> QED BY <2>1, <2>2, <2>3 DEF OncePerRequest
<1>11. ASSUME NEW v \in Workers, v # w PROVE OncePerRequest(v)'
  <2>1. /\ job'[v] = job[v] /\ timestamp'[v] = timestamp[v] /\ served'[v] = served[v]
        /\ pc'[v] = pc[v]
    BY <1>2, <1>11 DEF RoundInv, ClientTypes
  <2>2. OncePerRequest(v) BY DEF OnceInv
  <2> QED BY <2>1, <2>2 DEF OncePerRequest, Had, Unserved
<1> QED BY <1>2, <1>10, <1>11 DEF OnceInv

(* The request a goroutine serves next is one of those not served yet, and *)
(* no other place has it.                                                  *)
LEMMA NextUnserved ==
  ASSUME RoundInv, NEW w \in Workers, NEW s \in Servers,
         Len(job[w][s].responses) < Len(job[w][s].requests)
  PROVE  NextServed(w, s).timestamp \in Unserved(w, s)
<1>1. job[w][s] \in Jobs
  BY DEF RoundInv, ServerTypes
<1>2. Len(job[w][s].responses) \in Nat /\ Len(job[w][s].requests) \in Nat
  BY <1>1 DEF Jobs
<1>3. Len(job[w][s].responses) + 1 \in (Len(job[w][s].responses) + 1) .. Len(job[w][s].requests)
  BY <1>2
<1> QED BY <1>3 DEF NextServed, Unserved, TimestampsOf

LEMMA OnceApply ==
  ASSUME RoundInv, RoundInv', OnceInv, NEW w \in Workers, NEW s \in Servers, Apply(w, s)
  PROVE  OnceInv'
<1>1. PICK r : Serves(w, s, r)
  BY ApplyFacts
<1>2. PICK n : n = r.timestamp
  OBVIOUS
<1>3. /\ n = NextServed(w, s).timestamp
      /\ Len(job[w][s].responses) < Len(job[w][s].requests)
      /\ job'[w][s].requests = job[w][s].requests
      /\ Len(job'[w][s].responses) = Len(job[w][s].responses) + 1
      /\ \A v \in Workers, t \in Servers : v # w \/ t # s => job'[v][t] = job[v][t]
  BY <1>1, <1>2 DEF Serves, NextServed
<1>4. n \in Unserved(w, s) /\ n \in Nat
  BY <1>1, <1>2, <1>3, NextUnserved DEF Serves, Timestamped
<1>5. /\ served' = [served EXCEPT ![w] = @ \cup {n}]
      /\ timestamp' = timestamp /\ pc' = pc
  BY <1>2, <1>3 DEF Apply, NextServed, workerVars
<1>6. /\ served' \in [Workers -> SUBSET Nat] /\ served'[w] = served[w] \cup {n}
      /\ \A v \in Workers \ {w} : served'[v] = served[v]
  BY <1>4, <1>5 DEF OnceInv
<1>7. OncePerRequest(w)
  BY DEF OnceInv
<1>8. /\ job[w][s] \in Jobs
      /\ Len(job[w][s].responses) \in Nat /\ Len(job[w][s].requests) \in Nat
      /\ \A a, b \in DOMAIN job[w][s].requests :
           a < b => job[w][s].requests[a].timestamp < job[w][s].requests[b].timestamp
  <2>1. job[w][s] \in Jobs BY DEF RoundInv, ServerTypes
  <2>2. JobShape(w, s) BY DEF RoundInv, RoundShape
  <2> QED BY <2>1, <2>2 DEF JobShape, Jobs
<1>9. Had(w, s)' = Had(w, s)
  BY <1>3 DEF Had, TimestampsOf
<1>10. Unserved(w, s)' \subseteq Unserved(w, s) \ {n}
  <2> DEFINE q == job[w][s].requests
             m == Len(job[w][s].responses)
  <2>1. Unserved(w, s)' = {q[i].timestamp : i \in (m + 2) .. Len(q)}
    <3>1. Len(job'[w][s].responses) + 1 = m + 2 BY <1>3, <1>8
    <3> QED BY <1>3, <3>1 DEF Unserved, TimestampsOf
  <2>2. Unserved(w, s) = {q[i].timestamp : i \in (m + 1) .. Len(q)}
    BY DEF Unserved, TimestampsOf
  <2>3. q \in Seq(Timestamped) /\ DOMAIN q = 1 .. Len(q) /\ m \in Nat /\ m < Len(q)
    BY <1>3, <1>8 DEF Jobs
  <2>4. n = q[m + 1].timestamp /\ m + 1 \in DOMAIN q
    <3>1. n = q[m + 1].timestamp BY <1>3 DEF NextServed
    <3>2. \A a, b \in Nat : a < b => a + 1 \in 1 .. b OBVIOUS
    <3>3. Len(q) \in Nat BY <2>3
    <3> QED BY <2>3, <3>1, <3>2, <3>3
  <2>5. \A i \in (m + 2) .. Len(q) :
          i \in (m + 1) .. Len(q) /\ i \in DOMAIN q /\ m + 1 < i
    BY <2>3
  <2>6. ASSUME NEW i \in DOMAIN q PROVE q[i].timestamp \in Nat
    <3>1. \A x \in Seq(Timestamped) : \A j \in DOMAIN x : x[j] \in Timestamped
      OBVIOUS
    <3>2. q[i] \in Timestamped BY <2>3, <3>1
    <3> QED BY <3>2 DEF Timestamped
  <2>7. \A i \in (m + 2) .. Len(q) : n < q[i].timestamp /\ q[i].timestamp \in Nat
    BY <1>8, <2>4, <2>5, <2>6
  <2>8. \A i \in (m + 2) .. Len(q) : q[i].timestamp # n
    BY <1>4, <2>7
  <2> HIDE DEF q, m
  <2> QED BY <2>1, <2>2, <2>5, <2>8
<1>11. \A t \in Servers \ {s} : Had(w, t)' = Had(w, t) /\ Unserved(w, t)' = Unserved(w, t)
  BY <1>3 DEF Had, Unserved
<1>12. n \in Had(w, s)
  <2>1. (Len(job[w][s].responses) + 1) .. Len(job[w][s].requests)
          \subseteq 1 .. Len(job[w][s].requests)
    BY <1>8
  <2> QED BY <1>4, <2>1 DEF Had, Unserved, TimestampsOf
<1>13. OncePerRequest(w)'
  <2>1. pc'[w] = "dial" => timestamp'[w] = 0
    BY <1>5, <1>7 DEF OncePerRequest
  <2>2. served'[w] \subseteq 0 .. timestamp'[w]
    BY <1>5, <1>6, <1>7, <1>12 DEF OncePerRequest
  <2>3. ASSUME NEW t \in Servers
        PROVE  /\ Had(w, t)' \subseteq 0 .. timestamp'[w]
               /\ Unserved(w, t)' \cap served'[w] = {}
               /\ \A u \in Servers \ {t} : Unserved(w, t)' \cap Unserved(w, u)' = {}
    <3>1. Had(w, t)' = Had(w, t)
      BY <1>9, <1>11
    <3>2. \A u \in Servers : Unserved(w, u)' \subseteq Unserved(w, u) \ {n}
      <4>1. \A u \in Servers \ {s} : n \notin Unserved(w, u)
        BY <1>4, <1>7 DEF OncePerRequest
      <4> QED BY <1>10, <1>11, <4>1
    <3> QED BY <1>5, <1>6, <1>7, <3>1, <3>2 DEF OncePerRequest
  <2> QED BY <2>1, <2>2, <2>3 DEF OncePerRequest
<1>14. ASSUME NEW v \in Workers, v # w PROVE OncePerRequest(v)'
  <2>1. \A t \in Servers : job'[v][t] = job[v][t] BY <1>3, <1>14
  <2>2. \A t \in Servers : Had(v, t)' = Had(v, t) /\ Unserved(v, t)' = Unserved(v, t)
    BY <2>1 DEF Had, Unserved
  <2>3. OncePerRequest(v) BY DEF OnceInv
  <2> QED BY <1>5, <1>6, <1>14, <2>2, <2>3 DEF OncePerRequest
<1> QED BY <1>6, <1>13, <1>14 DEF OnceInv

LEMMA OnceInit == Init => OnceInv
<1> SUFFICES ASSUME Init PROVE OnceInv
  OBVIOUS
<1>1. /\ served \in [Workers -> SUBSET Nat]
      /\ \A w \in Workers : timestamp[w] = 0 /\ served[w] = {}
      /\ \A w \in Workers, s \in Servers : job[w][s] = NoJob
  BY DEF Init
<1>2. \A n \in {1, Len(NoJob.responses) + 1} : TimestampsOf(NoJob, n) = {}
  BY DEF NoJob, TimestampsOf
<1>3. \A w \in Workers, s \in Servers : Had(w, s) = {} /\ Unserved(w, s) = {}
  BY <1>1, <1>2 DEF Had, Unserved
<1> QED BY <1>1, <1>3 DEF OnceInv, OncePerRequest

(* The steps in which no server serves anything.                           *)
LEMMA QuietSteps ==
  ASSUME RoundInv, OnceInv, [Next]_vars,
         ~ \E w \in Workers : SendBatch(w),
         ~ \E w \in Workers, s \in Servers : Apply(w, s)
  PROVE  /\ served' = served
         /\ \A v \in Workers : /\ timestamp[v] <= timestamp'[v]
                               /\ pc'[v] = "dial" => pc[v] = "dial" /\ timestamp'[v] = timestamp[v]
         /\ \A v \in Workers, t \in Servers : job'[v][t] = job[v][t] \/ job'[v][t] = NoJob
<1> DEFINE Times == \A v \in Workers :
             /\ timestamp[v] <= timestamp'[v]
             /\ pc'[v] = "dial" => pc[v] = "dial" /\ timestamp'[v] = timestamp[v]
           JobsFewer == \A v \in Workers, t \in Servers : job'[v][t] = job[v][t] \/ job'[v][t] = NoJob
<1> SUFFICES served' = served /\ Times /\ JobsFewer
  OBVIOUS
<1>1. /\ timestamp \in [Workers -> Nat] /\ uniqueTimestamp \in Nat
      /\ pc \in [Workers -> {"dial", "loop", "await", "finished"}]
      /\ job \in [Workers -> [Servers -> Jobs]]
  BY DEF RoundInv, ClientTypes, ServerTypes
<1>2. \A v \in Workers : timestamp[v] <= timestamp[v]
  BY <1>1
<1>3. timestamp' = timestamp /\ pc' = pc => Times
  BY <1>2
<1>4. job' = job => JobsFewer
  OBVIOUS
<1>5. ASSUME NEW w \in Workers, Dial(w) PROVE served' = served /\ Times /\ JobsFewer
  <2>1. served' = served /\ job' = job
    BY <1>5 DEF Dial
  <2>2. CASE UNCHANGED <<pc, timestamp>>
    BY <1>3, <1>4, <2>1, <2>2
  <2>3. CASE /\ pc' = [pc EXCEPT ![w] = "loop"] /\ pc[w] = "dial"
             /\ timestamp' = [timestamp EXCEPT ![w] = uniqueTimestamp + 1]
    <3>1. timestamp[w] = 0
      BY <2>3 DEF OnceInv, OncePerRequest
    <3>2. ASSUME NEW v \in Workers
          PROVE  /\ timestamp[v] <= timestamp'[v]
                 /\ pc'[v] = "dial" => pc[v] = "dial" /\ timestamp'[v] = timestamp[v]
      <4>1. CASE v = w BY <1>1, <2>3, <3>1, <4>1
      <4>2. CASE v # w BY <1>1, <2>3, <4>2
      <4> QED BY <4>1, <4>2
    <3> QED BY <1>4, <2>1, <3>2
  <2> QED BY <1>5, <2>2, <2>3 DEF Dial, Goto
<1>6. ASSUME NEW w \in Workers, CollectReplies(w) PROVE served' = served /\ Times /\ JobsFewer
  <2>1. /\ served' = served /\ timestamp' = timestamp
        /\ pc' = [pc EXCEPT ![w] = "loop"]
        /\ job' = [job EXCEPT ![w] = [s \in Servers |->
                      IF call[w][s] = "replied" THEN NoJob ELSE job[w][s]]]
    BY <1>6 DEF CollectReplies, Goto
  <2>2. Times BY <1>1, <1>2, <2>1
  <2>3. JobsFewer BY <1>1, <2>1
  <2> QED BY <2>1, <2>2, <2>3
<1>7. ASSUME NEW w \in Workers, SendResult(w) PROVE served' = served /\ Times /\ JobsFewer
  <2>1. /\ served' = served /\ timestamp' = timestamp /\ job' = job
        /\ pc' = [pc EXCEPT ![w] = "finished"]
    BY <1>7 DEF SendResult, Goto
  <2>2. Times BY <1>1, <1>2, <2>1
  <2> QED BY <1>4, <2>1, <2>2
<1>8. ASSUME NEW w \in Workers, NEW s \in Servers, Reply(w, s)
      PROVE  served' = served /\ Times /\ JobsFewer
  BY <1>3, <1>4, <1>8 DEF Reply, workerVars
<1>9. ASSUME NEW w \in Workers, NEW s \in Breakable, BreakConnection(w, s)
      PROVE  served' = served /\ Times /\ JobsFewer
  <2>1. /\ served' = served /\ timestamp' = timestamp /\ pc' = pc
        /\ job' = job \/ job' = [job EXCEPT ![w][s] = NoJob]
    BY <1>9 DEF BreakConnection
  <2>2. CASE job' = [job EXCEPT ![w][s] = NoJob]
    <3>1. s \in Servers BY InRange
    <3>2. ASSUME NEW v \in Workers, NEW t \in Servers
          PROVE  job'[v][t] = job[v][t] \/ job'[v][t] = NoJob
      <4>1. CASE v = w /\ t = s BY <1>1, <2>2, <3>1, <4>1
      <4>2. CASE v # w \/ t # s BY <1>1, <2>2, <3>1, <4>2
      <4> QED BY <4>1, <4>2
    <3> QED BY <1>3, <2>1, <3>2
  <2> QED BY <1>3, <1>4, <2>1, <2>2
<1>10. ASSUME NEW s \in Reporting, PrintStats(s) PROVE served' = served /\ Times /\ JobsFewer
  BY <1>3, <1>4, <1>10 DEF PrintStats, CopyPuts, Report, workerVars
<1>11. CASE Main \/ UNCHANGED vars
  BY <1>3, <1>4, <1>11 DEF Main, TimeIsUp, WaitForWorkers, CollectResult, workerVars, vars
<1> HIDE DEF Times, JobsFewer
<1> QED
  BY <1>5, <1>6, <1>7, <1>8, <1>9, <1>10, <1>11 DEF Next, Work, Request

LEMMA OnceNext == RoundInv /\ OnceInv /\ [Next]_vars => OnceInv'
<1> SUFFICES ASSUME RoundInv, OnceInv, [Next]_vars PROVE OnceInv'
  OBVIOUS
<1>1. RoundInv'
  BY RoundNext
<1>2. ASSUME ~ \E w \in Workers : SendBatch(w),
             ~ \E w \in Workers, s \in Servers : Apply(w, s)
      PROVE  OnceInv'
  <2>1. /\ served' = served
        /\ \A v \in Workers : /\ timestamp[v] <= timestamp'[v]
                              /\ pc'[v] = "dial" => pc[v] = "dial" /\ timestamp'[v] = timestamp[v]
        /\ \A v \in Workers, t \in Servers : job'[v][t] = job[v][t] \/ job'[v][t] = NoJob
    BY <1>2, QuietSteps
  <2> QED BY <1>1, <2>1, OnceQuiet
<1> QED BY <1>1, <1>2, OnceSendBatch, OnceApply

(* A response more is the work of Apply.                                   *)
LEMMA OneServes ==
  ASSUME RoundInv, OnceInv, [Next]_vars, NEW w \in Workers, NEW s \in Servers,
         Len(job'[w][s].responses) > Len(job[w][s].responses)
  PROVE  Apply(w, s)
<1>1. job[w][s] \in Jobs /\ Len(job[w][s].responses) \in Nat
  BY DEF RoundInv, ServerTypes, Jobs
<1>2. job'[w][s] # job[w][s] /\ Len(job'[w][s].responses) # 0
  BY <1>1
<1>3. ~ \E v \in Workers : SendBatch(v)
  <2> SUFFICES ASSUME NEW v \in Workers, SendBatch(v) PROVE FALSE
    OBVIOUS
  <2>1. PICK requests : Sends(v, requests)
    BY SendFacts
  <2>2. v = w /\ job'[w][s] = NewJob(Part(requests, s))
    BY <1>2, <2>1 DEF Sends
  <2>3. job'[w][s].responses = <<>>
    BY <2>1, <2>2, NewJobType DEF Sends
  <2> QED BY <1>2, <2>3
<1>4. job'[w][s] # NoJob
  BY <1>2 DEF NoJob
<1>5. PICK v \in Workers, t \in Servers : Apply(v, t)
  BY <1>2, <1>3, <1>4, QuietSteps
<1>6. PICK r : Serves(v, t, r)
  BY <1>5, ApplyFacts
<1>7. v = w /\ t = s
  BY <1>2, <1>6 DEF Serves
<1> QED BY <1>5, <1>7

(* No request is served twice, neither by one server nor by two, for any   *)
(* number of workers, servers, rounds and broken connections: a request    *)
(* whose connection breaks is dropped or served to its end, and is never   *)
(* sent again (client/main.go:107-133, server/main.go:71-96).              *)
THEOREM RequestsServedOnce == Spec => ServedOnce
<1>1. RoundInv /\ OnceInv /\ [Next]_vars =>
        [\A w \in Workers, s \in Servers :
           Len(job'[w][s].responses) > Len(job[w][s].responses) =>
             NextServed(w, s).timestamp \notin served[w]]_vars
  <2> SUFFICES ASSUME RoundInv, OnceInv, [Next]_vars, NEW w \in Workers, NEW s \in Servers,
                      Len(job'[w][s].responses) > Len(job[w][s].responses)
               PROVE  NextServed(w, s).timestamp \notin served[w]
    OBVIOUS
  <2>1. Apply(w, s)
    BY OneServes
  <2>2. NextServed(w, s).timestamp \in Unserved(w, s)
    BY <2>1, NextUnserved DEF Apply
  <2> QED BY <2>2 DEF OnceInv, OncePerRequest
<1> QED BY <1>1, RoundInit, RoundNext, OnceInit, OnceNext, PTL DEF Spec, ServedOnce

-----------------------------------------------------------------------------
(* The counters of the servers have 64 bits.                               *)

(* What the workers may send at all fits a word.                           *)
LoadFits == Cardinality(Workers) * (MaxRounds * BatchSize) < WordSize - 1

LEMMA SentBounded ==
  ASSUME rounds \in [Workers -> 0 .. MaxRounds]
  PROVE  Sent <= Cardinality(Workers) * (MaxRounds * BatchSize)
<1>1. MaxRounds \in Nat /\ BatchSize \in Nat /\ MaxRounds * BatchSize \in Nat
  BY BaselineAssumption
<1>2. PICK f, n : f = SentRow /\ n = MaxRounds * BatchSize
  OBVIOUS
<1>3. \A w \in Workers : f[w] \in Nat /\ f[w] <= n
  <2>1. \A w \in Workers : f[w] = rounds[w] * BatchSize /\ rounds[w] \in Nat /\ rounds[w] <= MaxRounds
    BY <1>1, <1>2 DEF SentRow
  <2>2. \A i, j, k \in Nat : i <= j => i * k \in Nat /\ i * k <= j * k
    OBVIOUS
  <2> QED BY <1>1, <1>2, <2>1, <2>2
<1>4. SumFunctionOnSet(f, Workers) <= Cardinality(Workers) * n
  BY <1>1, <1>2, <1>3, WorkersAssumption, SumConstant
<1> QED BY <1>2, <1>4, SentSums

(* As long as the load fits a word no counter comes near to wrapping: what *)
(* the theorems above suppose of every state follows from the size of the  *)
(* experiment (server/main.go:24-28).                                      *)
THEOREM CountersNeverWrap ==
  ASSUME LoadFits
  PROVE  Spec => []CountersFit
<1>1. SentInv => CountersFit
  <2> SUFFICES ASSUME SentInv, NEW s \in Servers, NEW c \in Counters
               PROVE  stats[s][c] < WordSize - 1
    BY DEF CountersFit
  <2>1. PICK a : a = WaitTable
    OBVIOUS
  <2>2. a \in Tables
    BY <2>1, Lengths, WaitsTyped DEF SentInv
  <2>3. AtServers \in Nat
    BY <2>1, <2>2, SentSums, TableType
  <2>4. Served \in Nat /\ Sent \in Nat /\ Served + AtServers <= Sent
    BY ServedType, SentType DEF SentInv, SentLedger
  <2>5. Sent <= Cardinality(Workers) * (MaxRounds * BatchSize)
    BY SentBounded DEF SentInv, SentLedger
  <2>6. Cardinality(Workers) * (MaxRounds * BatchSize) \in Nat /\ WordSize \in Nat
    <3>1. Cardinality(Workers) \in Nat
      BY WorkersAssumption, FS_CardinalityType
    <3>2. MaxRounds * BatchSize \in Nat
      BY BaselineAssumption
    <3>3. \A i, j \in Nat : i * j \in Nat
      OBVIOUS
    <3> QED BY <3>1, <3>2, <3>3, WordSizeType
  <2>7. stats[s][c] \in Nat /\ stats[s][c] <= Served
    <3>1. stats[s]["puts"] \in Nat /\ stats[s]["gets"] \in Nat
      BY WordSizeType DEF SentInv, RoundInv, ServerTypes, Counters
    <3>2. PICK f, t : f = StatTable /\ t = s
      OBVIOUS
    <3>3. \A u \in Servers : f[u] \in Nat
      BY <3>2, ServedType DEF SentInv
    <3>4. \A u \in Servers : f[u] \in Int
      BY <3>3
    <3>5. SumFunctionOnSet(f, Servers) = f[t] + SumFunctionOnSet(f, Servers \ {t})
      <4>1. t \in Servers
        BY <3>2
      <4> QED BY ONLY <3>4, <4>1, ServersFinite, SumTake
    <3>6. SumFunctionOnSet(f, Servers \ {t}) \in Nat
      <4>1. PICK U : U = Servers \ {t}
        OBVIOUS
      <4>2. IsFiniteSet(U) /\ \A u \in U : f[u] \in Nat
        BY <3>3, <4>1, ServersFinite, FS_Subset
      <4> QED BY <4>1, <4>2, SumNat
    <3>7. f[t] = stats[s]["puts"] + stats[s]["gets"]
      BY <3>2 DEF StatTable
    <3>8. Served = f[t] + SumFunctionOnSet(f, Servers \ {t})
      BY <3>2, <3>5, LedgerSums
    <3>9. stats[s]["puts"] <= Served /\ stats[s]["gets"] <= Served
      BY <3>1, <3>6, <3>7, <3>8
    <3> QED BY <3>1, <3>9 DEF Counters
  <2>8. Cardinality(Workers) * (MaxRounds * BatchSize) < WordSize - 1
    BY DEF LoadFits
  <2>9. \A x, v, g, n, k, d \in Nat : x <= v /\ v + g <= n /\ n <= k /\ k < d - 1 => x < d - 1
    OBVIOUS
  <2> QED BY ONLY <2>3, <2>4, <2>5, <2>6, <2>7, <2>8, <2>9
<1> QED BY <1>1, SentHolds, PTL

(* For a load that fits, successive reports of a server neither lose nor   *)
(* repeat a request; nothing is supposed of the states                     *)
(* (server/main.go:103-113).                                               *)
THEOREM ReportsCompleteUnderLoad ==
  ASSUME LoadFits
  PROVE  Spec => []ReportsAddUp
<1>1. Spec => []CountersFit
  BY CountersNeverWrap
<1> QED BY <1>1, ReportsComplete, PTL

(* For a load that fits, the program counts nothing that no server served, *)
(* and all of it when no connection broke (client/main.go:134-155,         *)
(* 221-231).                                                               *)
THEOREM BothEndsAgreeUnderLoad ==
  ASSUME LoadFits
  PROVE  Spec => []CountsAgree
<1>1. Spec => []CountersFit
  BY CountersNeverWrap
<1> QED BY <1>1, BothEndsAgree, PTL

-----------------------------------------------------------------------------
(* Baseline implements BatchStore.                                         *)

(* Places in the request of w at server s that are still to be served.     *)
Ahead(w, s) == (Len(job[w][s].responses) + 1) .. Len(job[w][s].requests)

(* What the rows of the abstract state hold, item by item.                 *)
ToDo(w, i) ==
  \E s \in Servers : Calling(w, s) /\ \E a \in Ahead(w, s) : i = ItemOf(w, job[w][s].requests[a])

GotIt(w, i) ==
  \E s \in Servers :
    Calling(w, s) /\ \E a \in DOMAIN job[w][s].responses :
      job[w][s].responses[a] /\ i = ItemOf(w, job[w][s].requests[a])

IsLoose(w, k) ==
  \E s \in Servers :
    ~Calling(w, s) /\ \E a \in Ahead(w, s) :
      ~job[w][s].requests[a].isRead /\ k = job[w][s].requests[a].key

IsLost(w, i) == i \in Items(w) /\ call[w][getServerIdx(batch[w][i].key)] = "failed"

RowsRead ==
  \A w \in Workers :
    /\ \A i : i \in absTodo[w] <=> ToDo(w, i)
    /\ \A i : i \in absGot[w] <=> GotIt(w, i)
    /\ \A i : i \in absLost[w] <=> IsLost(w, i)
    /\ \A k : k \in absLoose[w] <=> IsLoose(w, k)

LEMMA Rows == RowsRead
<1> SUFFICES ASSUME NEW w \in Workers
             PROVE  /\ \A i : i \in absTodo[w] <=> ToDo(w, i)
                    /\ \A i : i \in absGot[w] <=> GotIt(w, i)
                    /\ \A i : i \in absLost[w] <=> IsLost(w, i)
                    /\ \A k : k \in absLoose[w] <=> IsLoose(w, k)
  BY DEF RowsRead
<1>1. \A s : s \in Answering(w) <=> s \in Servers /\ Calling(w, s)
  BY DEF Answering, Calling
<1>2. \A s, r : r \in Left(w, s) <=> \E a \in Ahead(w, s) : r = job[w][s].requests[a]
  BY DEF Left, Ahead
<1>3. \A s, r : r \in Found(w, s) <=>
        \E a \in DOMAIN job[w][s].responses : job[w][s].responses[a] /\ r = job[w][s].requests[a]
  BY DEF Found
<1>4. \A i : i \in absTodo[w] <=> ToDo(w, i)
  <2>1. absTodo[w] = {ItemOf(w, r) : r \in UNION {Left(w, s) : s \in Answering(w)}}
    BY DEF absTodo
  <2>2. \A i : i \in absTodo[w] <=> \E s \in Answering(w) : \E r \in Left(w, s) : i = ItemOf(w, r)
    BY <2>1
  <2> QED BY <2>2, <1>1, <1>2 DEF ToDo
<1>5. \A i : i \in absGot[w] <=> GotIt(w, i)
  <2>1. absGot[w] = {ItemOf(w, r) : r \in UNION {Found(w, s) : s \in Answering(w)}}
    BY DEF absGot
  <2>2. \A i : i \in absGot[w] <=> \E s \in Answering(w) : \E r \in Found(w, s) : i = ItemOf(w, r)
    BY <2>1
  <2> QED BY <2>2, <1>1, <1>3 DEF GotIt
<1>6. \A i : i \in absLost[w] <=> IsLost(w, i)
  BY DEF absLost, IsLost
<1>7. \A k : k \in absLoose[w] <=> IsLoose(w, k)
  <2>1. absLoose[w] = {r.key : r \in {q \in UNION {Left(w, s) : s \in Servers \ Answering(w)} : ~q.isRead}}
    BY DEF absLoose
  <2>2. \A k : k \in absLoose[w] <=>
          \E s \in Servers \ Answering(w) : \E r \in Left(w, s) : ~r.isRead /\ k = r.key
    BY <2>1
  <2> QED BY <2>2, <1>1, <1>2 DEF IsLoose
<1> QED BY <1>4, <1>5, <1>6, <1>7

LEMMA RowsNext == RowsRead'
BY Rows, PTL

(* Each request of a call is an item of the batch, and each item of the    *)
(* batch that its server owns is among them.                               *)
InPlace ==
  \A w \in Workers, s \in Servers : Calling(w, s) =>
    /\ batch[w] # <<>>
    /\ \A a \in DOMAIN job[w][s].requests :
         LET r == job[w][s].requests[a]
             i == ItemOf(w, r)
         IN i \in Items(w) /\ batch[w][i] = r /\ getServerIdx(r.key) = s
    /\ \A i \in Items(w) : getServerIdx(batch[w][i].key) = s =>
         \E a \in DOMAIN job[w][s].requests : i = ItemOf(w, job[w][s].requests[a])

LEMMA ItemsInPlace == RoundInv => InPlace
<1> SUFFICES ASSUME RoundInv, NEW w \in Workers, NEW s \in Servers, Calling(w, s)
             PROVE  /\ batch[w] # <<>>
                    /\ \A a \in DOMAIN job[w][s].requests :
                         LET r == job[w][s].requests[a]
                             i == ItemOf(w, r)
                         IN i \in Items(w) /\ batch[w][i] = r /\ getServerIdx(r.key) = s
                    /\ \A i \in Items(w) : getServerIdx(batch[w][i].key) = s =>
                         \E a \in DOMAIN job[w][s].requests : i = ItemOf(w, job[w][s].requests[a])
  BY DEF InPlace
<1>1. RoundShape(w) /\ CallShape(w, s) /\ JobShape(w, s)
  BY DEF RoundInv, RoundShape
<1>2. pc[w] = "await" /\ batch[w] # <<>>
  BY <1>1 DEF RoundShape, Calling
<1>3. Range(job[w][s].requests) = Part(batch[w], s) /\ Numbered(batch[w])
  BY <1>1 DEF CallShape, RoundShape
<1>4. batch[w] \in Seq(Timestamped) /\ Items(w) = DOMAIN batch[w]
  BY DEF RoundInv, ClientTypes, Items
<1>5. ASSUME NEW i \in Items(w) PROVE ItemOf(w, batch[w][i]) = i
  <2>1. i \in Int /\ 1 \in DOMAIN batch[w] /\ i \in DOMAIN batch[w]
    BY <1>4 DEF Items
  <2>2. batch[w][1] \in Timestamped
    BY <1>4, <2>1
  <2>3. batch[w][1].timestamp \in Nat
    BY <2>2 DEF Timestamped
  <2>4. batch[w][i].timestamp = batch[w][1].timestamp + i - 1
    BY <1>3, <2>1 DEF Numbered
  <2> QED BY <2>1, <2>3, <2>4 DEF ItemOf
<1>6. ASSUME NEW a \in DOMAIN job[w][s].requests
      PROVE  LET r == job[w][s].requests[a]
                 i == ItemOf(w, r)
             IN i \in Items(w) /\ batch[w][i] = r /\ getServerIdx(r.key) = s
  <2>1. PICK r : r = job[w][s].requests[a]
    OBVIOUS
  <2>2. r \in Part(batch[w], s)
    BY <2>1, <1>3 DEF Range
  <2>3. getServerIdx(r.key) = s /\ \E i \in Items(w) : r = batch[w][i]
    BY <2>2, <1>4 DEF Part, Range
  <2>4. PICK i \in Items(w) : r = batch[w][i]
    BY <2>3
  <2> QED BY <2>1, <2>3, <2>4, <1>5
<1>7. ASSUME NEW i \in Items(w), getServerIdx(batch[w][i].key) = s
      PROVE  \E a \in DOMAIN job[w][s].requests : i = ItemOf(w, job[w][s].requests[a])
  <2>1. batch[w][i] \in Part(batch[w], s)
    BY <1>4, <1>7 DEF Part, Range
  <2>2. PICK a \in DOMAIN job[w][s].requests : job[w][s].requests[a] = batch[w][i]
    BY <2>1, <1>3 DEF Range
  <2> QED BY <2>2, <1>5
<1> QED BY <1>2, <1>6, <1>7

LEMMA ItemsInPlaceNext == RoundInv' => InPlace'
BY ItemsInPlace, PTL

ItemsTyped ==
  \A w \in Workers : \A i \in Items(w) :
    /\ batch[w][i].key \in Keys /\ batch[w][i].isRead \in BOOLEAN
    /\ getServerIdx(batch[w][i].key) \in Servers

LEMMA ItemTypes == RoundInv => ItemsTyped
<1> SUFFICES ASSUME RoundInv, NEW w \in Workers, NEW i \in Items(w)
             PROVE  /\ batch[w][i].key \in Keys /\ batch[w][i].isRead \in BOOLEAN
                    /\ getServerIdx(batch[w][i].key) \in Servers
  BY DEF ItemsTyped
<1>1. batch[w] \in Seq(Timestamped)
  BY DEF RoundInv, ClientTypes
<1>2. batch[w][i] \in Timestamped
  BY <1>1 DEF Items
<1>3. batch[w][i].key \in Keys /\ batch[w][i].isRead \in BOOLEAN
  BY <1>2 DEF Timestamped
<1> QED BY <1>3, ServerOfKey

LEMMA ItemTypesNext == RoundInv' => ItemsTyped'
BY ItemTypes, PTL

(* The abstract state is that of the workers one by one.                   *)
LEMMA OtherRows ==
  ASSUME NEW w \in Workers,
         \A v \in Workers \ {w} : batch'[v] = batch[v] /\ call'[v] = call[v] /\ job'[v] = job[v]
  PROVE  \A v \in Workers \ {w} :
           /\ absRound'[v] = absRound[v] /\ absTodo'[v] = absTodo[v] /\ absGot'[v] = absGot[v]
           /\ absLost'[v] = absLost[v] /\ absLoose'[v] = absLoose[v]
<1> SUFFICES ASSUME NEW v \in Workers \ {w}
             PROVE  /\ absRound'[v] = absRound[v] /\ absTodo'[v] = absTodo[v] /\ absGot'[v] = absGot[v]
                    /\ absLost'[v] = absLost[v] /\ absLoose'[v] = absLoose[v]
  OBVIOUS
<1>1. batch'[v] = batch[v] /\ call'[v] = call[v] /\ job'[v] = job[v]
  OBVIOUS
<1>2. Answering(v)' = Answering(v) /\ Items(v)' = Items(v)
  BY <1>1 DEF Answering, Items
<1>3. \A s : Left(v, s)' = Left(v, s) /\ Found(v, s)' = Found(v, s)
  BY <1>1 DEF Left, Found
<1>4. \A r : ItemOf(v, r)' = ItemOf(v, r)
  BY <1>1 DEF ItemOf
<1>5. absRound'[v] = absRound[v]
  BY <1>1, <1>2 DEF absRound
<1>6. absTodo'[v] = absTodo[v]
  BY <1>1, <1>2, <1>3 DEF absTodo, ItemOf
<1>7. absGot'[v] = absGot[v]
  BY <1>1, <1>2, <1>3 DEF absGot, ItemOf
<1>8. absLost'[v] = absLost[v]
  BY <1>1, <1>2 DEF absLost
<1>9. absLoose'[v] = absLoose[v]
  BY <1>2, <1>3 DEF absLoose
<1> QED BY <1>5, <1>6, <1>7, <1>8, <1>9

(* The rows of the abstract state are functions of the workers.            *)
RowFunctions ==
  /\ absRound = [v \in Workers |-> absRound[v]]
  /\ absTodo = [v \in Workers |-> absTodo[v]]
  /\ absGot = [v \in Workers |-> absGot[v]]
  /\ absLost = [v \in Workers |-> absLost[v]]
  /\ absLoose = [v \in Workers |-> absLoose[v]]

LEMMA AbsRows == RowFunctions
<1>1. absRound = [v \in Workers |-> absRound[v]]
  BY DEF absRound
<1>2. absTodo = [v \in Workers |-> absTodo[v]]
  BY DEF absTodo
<1>3. absGot = [v \in Workers |-> absGot[v]]
  BY DEF absGot
<1>4. absLost = [v \in Workers |-> absLost[v]]
  BY DEF absLost
<1>5. absLoose = [v \in Workers |-> absLoose[v]]
  BY DEF absLoose
<1> QED BY <1>1, <1>2, <1>3, <1>4, <1>5 DEF RowFunctions

LEMMA AbsRowsNext == RowFunctions'
BY AbsRows, PTL

(* A step of worker w, or of a server for it.                              *)
StepOf(w) ==
  \A v \in Workers \ {w} : batch'[v] = batch[v] /\ call'[v] = call[v] /\ job'[v] = job[v]

LEMMA StepRows ==
  ASSUME NEW w \in Workers, StepOf(w)
  PROVE  /\ absRound' = [absRound EXCEPT ![w] = absRound'[w]]
         /\ absTodo' = [absTodo EXCEPT ![w] = absTodo'[w]]
         /\ absGot' = [absGot EXCEPT ![w] = absGot'[w]]
         /\ absLost' = [absLost EXCEPT ![w] = absLost'[w]]
         /\ absLoose' = [absLoose EXCEPT ![w] = absLoose'[w]]
<1>1. \A v \in Workers \ {w} :
           /\ absRound'[v] = absRound[v] /\ absTodo'[v] = absTodo[v] /\ absGot'[v] = absGot[v]
           /\ absLost'[v] = absLost[v] /\ absLoose'[v] = absLoose[v]
  BY OtherRows DEF StepOf
<1>2. /\ absRound = [v \in Workers |-> absRound[v]] /\ absRound' = [v \in Workers |-> absRound'[v]]
      /\ absTodo = [v \in Workers |-> absTodo[v]] /\ absTodo' = [v \in Workers |-> absTodo'[v]]
      /\ absGot = [v \in Workers |-> absGot[v]] /\ absGot' = [v \in Workers |-> absGot'[v]]
      /\ absLost = [v \in Workers |-> absLost[v]] /\ absLost' = [v \in Workers |-> absLost'[v]]
      /\ absLoose = [v \in Workers |-> absLoose[v]] /\ absLoose' = [v \in Workers |-> absLoose'[v]]
  BY AbsRows, AbsRowsNext DEF RowFunctions
<1>3. absRound' = [absRound EXCEPT ![w] = absRound'[w]]
  BY <1>1, <1>2
<1>4. absTodo' = [absTodo EXCEPT ![w] = absTodo'[w]]
  BY <1>1, <1>2
<1>5. absGot' = [absGot EXCEPT ![w] = absGot'[w]]
  BY <1>1, <1>2
<1>6. absLost' = [absLost EXCEPT ![w] = absLost'[w]]
  BY <1>1, <1>2
<1>7. absLoose' = [absLoose EXCEPT ![w] = absLoose'[w]]
  BY <1>1, <1>2
<1> QED BY <1>3, <1>4, <1>5, <1>6, <1>7

LEMMA KeptRow ==
  ASSUME NEW w \in Workers, StepOf(w)
  PROVE  /\ absRound'[w] = absRound[w] => absRound' = absRound
         /\ absTodo'[w] = absTodo[w] => absTodo' = absTodo
         /\ absGot'[w] = absGot[w] => absGot' = absGot
         /\ absLost'[w] = absLost[w] => absLost' = absLost
         /\ absLoose'[w] = absLoose[w] => absLoose' = absLoose
<1>1. \A v \in Workers \ {w} :
           /\ absRound'[v] = absRound[v] /\ absTodo'[v] = absTodo[v] /\ absGot'[v] = absGot[v]
           /\ absLost'[v] = absLost[v] /\ absLoose'[v] = absLoose[v]
  BY OtherRows DEF StepOf
<1>2. /\ absRound = [v \in Workers |-> absRound[v]] /\ absRound' = [v \in Workers |-> absRound'[v]]
      /\ absTodo = [v \in Workers |-> absTodo[v]] /\ absTodo' = [v \in Workers |-> absTodo'[v]]
      /\ absGot = [v \in Workers |-> absGot[v]] /\ absGot' = [v \in Workers |-> absGot'[v]]
      /\ absLost = [v \in Workers |-> absLost[v]] /\ absLost' = [v \in Workers |-> absLost'[v]]
      /\ absLoose = [v \in Workers |-> absLoose[v]] /\ absLoose' = [v \in Workers |-> absLoose'[v]]
  BY AbsRows, AbsRowsNext DEF RowFunctions
<1>3. absRound'[w] = absRound[w] => absRound' = absRound
  BY <1>1, <1>2
<1>4. absTodo'[w] = absTodo[w] => absTodo' = absTodo
  BY <1>1, <1>2
<1>5. absGot'[w] = absGot[w] => absGot' = absGot
  BY <1>1, <1>2
<1>6. absLost'[w] = absLost[w] => absLost' = absLost
  BY <1>1, <1>2
<1>7. absLoose'[w] = absLoose[w] => absLoose' = absLoose
  BY <1>1, <1>2
<1> QED BY <1>3, <1>4, <1>5, <1>6, <1>7

(* Goroutines that print, report or dial do nothing the store shows.       *)
LEMMA AbsQuiet ==
  ASSUME UNCHANGED <<batch, call, job, mp, opsCompleted>>
  PROVE  UNCHANGED Abstract!vars
<1>1. \A w : /\ Answering(w)' = Answering(w) /\ Items(w)' = Items(w)
             /\ \A s : Left(w, s)' = Left(w, s) /\ Found(w, s)' = Found(w, s)
  BY DEF Answering, Items, Left, Found
<1>2. absStored' = absStored
  BY DEF absStored
<1>3. absRound' = absRound
  BY <1>1 DEF absRound
<1>4. absTodo' = absTodo
  BY <1>1 DEF absTodo, ItemOf
<1>5. absGot' = absGot
  BY <1>1 DEF absGot, ItemOf
<1>6. absLost' = absLost
  BY <1>1 DEF absLost
<1>7. absLoose' = absLoose
  BY <1>1 DEF absLoose
<1> QED BY <1>2, <1>3, <1>4, <1>5, <1>6, <1>7 DEF Abstract!vars

(* An answer that arrives was settled when its last request was served.    *)
LEMMA AbsReply ==
  ASSUME RoundInv, NEW w \in Workers, NEW s \in Servers, Reply(w, s)
  PROVE  UNCHANGED Abstract!vars
<1>1. /\ call[w][s] = "pending" /\ call' = [call EXCEPT ![w][s] = "replied"]
      /\ UNCHANGED <<batch, opsCompleted, job, mp>>
  BY DEF Reply, workerVars
<1>2. StepOf(w)
  BY <1>1 DEF StepOf, RoundInv, ClientTypes
<1>3. \A t \in Servers : /\ Calling(w, t)' <=> Calling(w, t)
                         /\ call'[w][t] = "failed" <=> call[w][t] = "failed"
  BY <1>1 DEF Calling, RoundInv, ClientTypes
<1>4. Answering(w)' = Answering(w)
  BY <1>3 DEF Answering, Calling
<1>5. \A t : Left(w, t)' = Left(w, t) /\ Found(w, t)' = Found(w, t)
  BY <1>1 DEF Left, Found
<1>6. absRound'[w] = absRound[w]
  BY <1>1 DEF absRound, Items
<1>7. absTodo'[w] = absTodo[w]
  BY <1>1, <1>4, <1>5 DEF absTodo, ItemOf
<1>8. absGot'[w] = absGot[w]
  BY <1>1, <1>4, <1>5 DEF absGot, ItemOf
<1>9. absLoose'[w] = absLoose[w]
  BY <1>4, <1>5 DEF absLoose
<1>10. absLost'[w] = absLost[w]
  <2>1. \A i \in Items(w) : getServerIdx(batch[w][i].key) \in Servers
    BY ItemTypes DEF ItemsTyped
  <2>2. absLost[w] = {i \in Items(w) : call[w][getServerIdx(batch[w][i].key)] = "failed"}
    BY DEF absLost
  <2>3. absLost'[w] = {i \in Items(w) : call'[w][getServerIdx(batch[w][i].key)] = "failed"}
    BY <1>1 DEF absLost, Items, getServerIdx
  <2> QED BY <1>3, <2>1, <2>2, <2>3
<1>11. absStored' = absStored
  BY <1>1 DEF absStored
<1> QED BY <1>1, <1>2, <1>6, <1>7, <1>8, <1>9, <1>10, <1>11, KeptRow DEF Abstract!vars

PlacesFit ==
  \A w \in Workers, s \in Servers :
    /\ Len(job[w][s].responses) \in Nat /\ Len(job[w][s].requests) \in Nat
    /\ DOMAIN job[w][s].requests = 1 .. Len(job[w][s].requests)
    /\ DOMAIN job[w][s].responses = 1 .. Len(job[w][s].responses)
    /\ DOMAIN job[w][s].responses \subseteq DOMAIN job[w][s].requests
    /\ Ahead(w, s) \subseteq DOMAIN job[w][s].requests
    /\ \A a \in DOMAIN job[w][s].requests : job[w][s].requests[a] \in Timestamped

LEMMA Places == RoundInv => PlacesFit
<1> SUFFICES ASSUME RoundInv, NEW w \in Workers, NEW s \in Servers
             PROVE  /\ Len(job[w][s].responses) \in Nat /\ Len(job[w][s].requests) \in Nat
                    /\ DOMAIN job[w][s].requests = 1 .. Len(job[w][s].requests)
                    /\ DOMAIN job[w][s].responses = 1 .. Len(job[w][s].responses)
                    /\ DOMAIN job[w][s].responses \subseteq DOMAIN job[w][s].requests
                    /\ Ahead(w, s) \subseteq DOMAIN job[w][s].requests
                    /\ \A a \in DOMAIN job[w][s].requests : job[w][s].requests[a] \in Timestamped
  BY DEF PlacesFit
<1>1. job[w][s].responses \in Seq(BOOLEAN) /\ job[w][s].requests \in Seq(Timestamped)
  BY DEF RoundInv, ServerTypes, Jobs
<1>2. Len(job[w][s].responses) <= Len(job[w][s].requests)
  BY DEF RoundInv, RoundShape, JobShape
<1> QED BY <1>1, <1>2 DEF Ahead

LEMMA PlacesNext == RoundInv' => PlacesFit'
BY Places, PTL

RoundRead ==
  \A w \in Workers :
    /\ absRound[w] \in Seq(Abstract!Op) /\ DOMAIN absRound[w] = Items(w)
    /\ Len(absRound[w]) = Len(batch[w]) /\ 1 .. Len(absRound[w]) = Items(w)
    /\ \A i \in Items(w) :
         absRound[w][i].key = batch[w][i].key /\ absRound[w][i].isRead = batch[w][i].isRead

LEMMA RoundRow == RoundInv => RoundRead
<1> SUFFICES ASSUME RoundInv, NEW w \in Workers
             PROVE  /\ absRound[w] \in Seq(Abstract!Op) /\ DOMAIN absRound[w] = Items(w)
                    /\ Len(absRound[w]) = Len(batch[w]) /\ 1 .. Len(absRound[w]) = Items(w)
                    /\ \A i \in Items(w) :
                         absRound[w][i].key = batch[w][i].key /\ absRound[w][i].isRead = batch[w][i].isRead
  BY DEF RoundRead
<1>1. absRound[w] = [i \in Items(w) |-> [key |-> batch[w][i].key, isRead |-> batch[w][i].isRead]]
  BY DEF absRound
<1>2. \A i \in Items(w) : absRound[w][i] \in Abstract!Op
  BY <1>1, ItemTypes DEF ItemsTyped, Abstract!Op
<1>3. Len(batch[w]) \in Nat
  BY DEF RoundInv, ClientTypes
<1>4. absRound[w] \in [1 .. Len(batch[w]) -> Abstract!Op]
  BY <1>1, <1>2 DEF Items
<1>5. absRound[w] \in Seq(Abstract!Op) /\ Len(absRound[w]) = Len(batch[w])
  BY <1>3, <1>4
<1> QED BY <1>1, <1>5 DEF Items

LEMMA RoundRowNext == RoundInv' => RoundRead'
BY RoundRow, PTL

(* The part of a call over a connection that breaks is lost.               *)
LEMMA AbsBreak ==
  ASSUME RoundInv, NEW w \in Workers, NEW s \in Servers, BreakConnection(w, s)
  PROVE  \/ UNCHANGED Abstract!vars
         \/ \E gone \in SUBSET (1 .. Len(absRound[w])) : Abstract!LosePart(w, gone)
<1>1. /\ call' = [call EXCEPT ![w][s] = IF @ = "pending" THEN "failed" ELSE @]
      /\ job' = job \/ (call[w][s] = "pending" /\ job' = [job EXCEPT ![w][s] = NoJob])
      /\ UNCHANGED <<batch, opsCompleted, mp>>
  BY DEF BreakConnection
<1>2. CASE call[w][s] # "pending"
  <2>1. call' = call /\ job' = job
    BY <1>1, <1>2 DEF RoundInv, ClientTypes
  <2> QED BY <2>1, <1>1, AbsQuiet
<1>3. CASE call[w][s] = "pending"
  <2> DEFINE gone == {i \in Items(w) : getServerIdx(batch[w][i].key) = s}
             late == IF job' = job THEN {i \in gone \cap absTodo[w] : ~absRound[w][i].isRead} ELSE {}
  <2>1. /\ \A t \in Servers : call'[w][t] = IF t = s THEN "failed" ELSE call[w][t]
        /\ \A v \in Workers \ {w} : call'[v] = call[v] /\ job'[v] = job[v]
        /\ \A t \in Servers \ {s} : job'[w][t] = job[w][t]
        /\ job' # job => job'[w][s] = NoJob
    BY <1>1, <1>3 DEF RoundInv, ClientTypes, ServerTypes
  <2>2. StepOf(w)
    BY <1>1, <2>1 DEF StepOf
  <2>3. \A t \in Servers : Calling(w, t)' <=> t # s /\ Calling(w, t)
    BY <2>1 DEF Calling
  <2>4. Calling(w, s)
    BY <1>3 DEF Calling
  <2>5. \A t \in Servers \ {s} : Ahead(w, t)' = Ahead(w, t)
    BY <2>1 DEF Ahead
  <2>6. \A r : ItemOf(w, r)' = ItemOf(w, r)
    BY <1>1 DEF ItemOf
  <2>7. InPlace /\ PlacesFit /\ RoundRead /\ ItemsTyped
    BY ItemsInPlace, Places, RoundRow, ItemTypes
  <2>8. /\ \A i : (i \in absTodo[w] <=> ToDo(w, i)) /\ (i \in absTodo'[w] <=> ToDo(w, i)')
        /\ \A i : (i \in absGot[w] <=> GotIt(w, i)) /\ (i \in absGot'[w] <=> GotIt(w, i)')
        /\ \A i : (i \in absLost[w] <=> IsLost(w, i)) /\ (i \in absLost'[w] <=> IsLost(w, i)')
        /\ \A k : (k \in absLoose[w] <=> IsLoose(w, k)) /\ (k \in absLoose'[w] <=> IsLoose(w, k)')
    BY Rows, RowsNext DEF RowsRead
  <2>9. ASSUME NEW t \in Servers, Calling(w, t), NEW a \in DOMAIN job[w][t].requests
        PROVE  LET i == ItemOf(w, job[w][t].requests[a])
               IN i \in Items(w) /\ batch[w][i] = job[w][t].requests[a] /\ getServerIdx(batch[w][i].key) = t
    BY <2>7, <2>9 DEF InPlace
  <2>10. absTodo'[w] = absTodo[w] \ gone
    <3>1. ASSUME NEW i PROVE ToDo(w, i)' <=> ToDo(w, i) /\ i \notin gone
      <4>1. ASSUME ToDo(w, i)' PROVE ToDo(w, i) /\ i \notin gone
        <5>1. PICK t \in Servers : Calling(w, t)' /\ \E a \in Ahead(w, t)' : i = ItemOf(w, job[w][t].requests[a])'
          BY <4>1 DEF ToDo
        <5>2. t # s /\ Calling(w, t)
          BY <5>1, <2>3
        <5>3. PICK a \in Ahead(w, t) : i = ItemOf(w, job[w][t].requests[a])
          BY <5>1, <5>2, <2>1, <2>5, <1>1 DEF ItemOf
        <5>4. a \in DOMAIN job[w][t].requests
          BY <2>7 DEF PlacesFit
        <5>5. getServerIdx(batch[w][i].key) = t
          BY <5>2, <5>3, <5>4, <2>9
        <5> QED BY <5>2, <5>3, <5>5 DEF ToDo
      <4>2. ASSUME ToDo(w, i), i \notin gone PROVE ToDo(w, i)'
        <5>1. PICK t \in Servers : Calling(w, t) /\ \E a \in Ahead(w, t) : i = ItemOf(w, job[w][t].requests[a])
          BY <4>2 DEF ToDo
        <5>2. PICK a \in Ahead(w, t) : i = ItemOf(w, job[w][t].requests[a])
          BY <5>1
        <5>3. a \in DOMAIN job[w][t].requests
          BY <2>7 DEF PlacesFit
        <5>4. t # s
          BY <5>1, <5>2, <5>3, <2>9, <4>2
        <5>5. Calling(w, t)' /\ a \in Ahead(w, t)' /\ job'[w][t] = job[w][t]
          BY <5>1, <5>4, <2>1, <2>3, <2>5
        <5> QED BY <5>2, <5>5, <1>1 DEF ToDo, ItemOf
      <4> QED BY <4>1, <4>2
    <3> QED BY <3>1, <2>8
  <2>11. absGot'[w] = absGot[w] \ gone
    <3>1. ASSUME NEW i PROVE GotIt(w, i)' <=> GotIt(w, i) /\ i \notin gone
      <4>1. ASSUME GotIt(w, i)' PROVE GotIt(w, i) /\ i \notin gone
        <5>1. PICK t \in Servers : Calling(w, t)' /\ \E a \in DOMAIN job'[w][t].responses :
                job'[w][t].responses[a] /\ i = ItemOf(w, job[w][t].requests[a])'
          BY <4>1 DEF GotIt
        <5>2. t # s /\ Calling(w, t)
          BY <5>1, <2>3
        <5>3. PICK a \in DOMAIN job[w][t].responses :
                job[w][t].responses[a] /\ i = ItemOf(w, job[w][t].requests[a])
          BY <5>1, <5>2, <2>1, <1>1 DEF ItemOf
        <5>4. a \in DOMAIN job[w][t].requests
          BY <2>7 DEF PlacesFit
        <5>5. getServerIdx(batch[w][i].key) = t
          BY <5>2, <5>3, <5>4, <2>9
        <5> QED BY <5>2, <5>3, <5>5 DEF GotIt
      <4>2. ASSUME GotIt(w, i), i \notin gone PROVE GotIt(w, i)'
        <5>1. PICK t \in Servers : Calling(w, t) /\ \E a \in DOMAIN job[w][t].responses :
                job[w][t].responses[a] /\ i = ItemOf(w, job[w][t].requests[a])
          BY <4>2 DEF GotIt
        <5>2. PICK a \in DOMAIN job[w][t].responses :
                job[w][t].responses[a] /\ i = ItemOf(w, job[w][t].requests[a])
          BY <5>1
        <5>3. a \in DOMAIN job[w][t].requests
          BY <2>7 DEF PlacesFit
        <5>4. t # s
          BY <5>1, <5>2, <5>3, <2>9, <4>2
        <5>5. Calling(w, t)' /\ job'[w][t] = job[w][t]
          BY <5>1, <5>4, <2>1, <2>3
        <5> QED BY <5>2, <5>5, <1>1 DEF GotIt, ItemOf
      <4> QED BY <4>1, <4>2
    <3> QED BY <3>1, <2>8
  <2>12. absLost'[w] = absLost[w] \cup gone
    <3>1. \A i \in Items(w) : getServerIdx(batch[w][i].key) \in Servers
      BY <2>7 DEF ItemsTyped
    <3>2. ASSUME NEW i PROVE IsLost(w, i)' <=> IsLost(w, i) \/ i \in gone
      <4>1. IsLost(w, i)' <=> i \in Items(w) /\ call'[w][getServerIdx(batch[w][i].key)] = "failed"
        BY <1>1 DEF IsLost, Items, getServerIdx
      <4> QED BY <4>1, <3>1, <2>1 DEF IsLost
    <3> QED BY <3>2, <2>8
  <2>13. absLoose'[w] = absLoose[w] \cup {absRound[w][i].key : i \in late}
    <3>1. ASSUME NEW k, IsLoose(w, k)' PROVE IsLoose(w, k) \/ \E i \in late : k = absRound[w][i].key
      <4>1. PICK t \in Servers : ~Calling(w, t)' /\ \E a \in Ahead(w, t)' :
              ~job'[w][t].requests[a].isRead /\ k = job'[w][t].requests[a].key
        BY <3>1 DEF IsLoose
      <4>2. CASE t # s
        <5>1. ~Calling(w, t) /\ job'[w][t] = job[w][t] /\ Ahead(w, t)' = Ahead(w, t)
          BY <4>1, <4>2, <2>1, <2>3, <2>5
        <5> QED BY <4>1, <5>1 DEF IsLoose
      <4>3. CASE t = s /\ job' = job
        <5>1. PICK a \in Ahead(w, s) : ~job[w][s].requests[a].isRead /\ k = job[w][s].requests[a].key
          BY <4>1, <4>3 DEF Ahead
        <5>2. a \in DOMAIN job[w][s].requests
          BY <2>7 DEF PlacesFit
        <5>3. PICK i : i = ItemOf(w, job[w][s].requests[a])
          OBVIOUS
        <5>4. i \in Items(w) /\ batch[w][i] = job[w][s].requests[a] /\ getServerIdx(batch[w][i].key) = s
          BY <5>2, <5>3, <2>4, <2>9
        <5>5. i \in absTodo[w]
          BY <5>3, <2>4, <2>8 DEF ToDo
        <5>6. absRound[w][i].key = k /\ ~absRound[w][i].isRead
          BY <5>1, <5>4, <2>7 DEF RoundRead
        <5> QED BY <4>3, <5>4, <5>5, <5>6
      <4>4. CASE t = s /\ job' # job
        <5>1. job'[w][s] = NoJob
          BY <4>4, <2>1
        <5>2. Len(NoJob.requests) = 0 /\ Len(NoJob.responses) = 0
          BY DEF NoJob
        <5>3. Ahead(w, s)' = {}
          BY <5>1, <5>2 DEF Ahead
        <5> QED BY <4>1, <4>4, <5>3
      <4> QED BY <4>2, <4>3, <4>4
    <3>2. ASSUME NEW k, IsLoose(w, k) PROVE IsLoose(w, k)'
      <4>1. PICK t \in Servers : ~Calling(w, t) /\ \E a \in Ahead(w, t) :
              ~job[w][t].requests[a].isRead /\ k = job[w][t].requests[a].key
        BY <3>2 DEF IsLoose
      <4>2. t # s
        BY <4>1, <2>4
      <4>3. ~Calling(w, t)' /\ job'[w][t] = job[w][t] /\ Ahead(w, t)' = Ahead(w, t)
        BY <4>1, <4>2, <2>1, <2>3, <2>5
      <4> QED BY <4>1, <4>3 DEF IsLoose
    <3>3. ASSUME NEW k, NEW i \in late, k = absRound[w][i].key PROVE IsLoose(w, k)'
      <4>1. job' = job /\ i \in gone /\ i \in absTodo[w] /\ ~absRound[w][i].isRead
        OBVIOUS
      <4>2. PICK t \in Servers : Calling(w, t) /\ \E a \in Ahead(w, t) : i = ItemOf(w, job[w][t].requests[a])
        BY <4>1, <2>8 DEF ToDo
      <4>3. PICK a \in Ahead(w, t) : i = ItemOf(w, job[w][t].requests[a])
        BY <4>2
      <4>4. a \in DOMAIN job[w][t].requests
        BY <2>7 DEF PlacesFit
      <4>5. t = s /\ batch[w][i] = job[w][s].requests[a] /\ i \in Items(w)
        BY <4>1, <4>2, <4>3, <4>4, <2>9
      <4>6. ~Calling(w, s)' /\ a \in Ahead(w, s)' /\ job'[w][s] = job[w][s]
        BY <4>1, <4>3, <4>5, <2>3 DEF Ahead
      <4>7. ~job[w][s].requests[a].isRead /\ k = job[w][s].requests[a].key
        BY <3>3, <4>1, <4>5, <2>7 DEF RoundRead
      <4> QED BY <4>6, <4>7 DEF IsLoose
    <3> QED BY <3>1, <3>2, <3>3, <2>8
  <2>14. gone \in SUBSET (1 .. Len(absRound[w]))
    BY <2>7 DEF RoundRead
  <2>15. late \in SUBSET {i \in gone \cap absTodo[w] : ~absRound[w][i].isRead}
    OBVIOUS
  <2>16. absRound' = absRound
    BY <1>1 DEF absRound, Items
  <2>17. absStored' = absStored
    BY <1>1 DEF absStored
  <2> HIDE DEF gone, late
  <2>18. /\ absTodo' = [absTodo EXCEPT ![w] = @ \ gone]
         /\ absGot' = [absGot EXCEPT ![w] = @ \ gone]
         /\ absLost' = [absLost EXCEPT ![w] = @ \cup gone]
         /\ absLoose' = [absLoose EXCEPT ![w] = @ \cup {absRound[w][i].key : i \in late}]
    BY <2>2, <2>10, <2>11, <2>12, <2>13, StepRows
  <2>19. Abstract!LosePart(w, gone)
    BY <2>14, <2>15, <2>16, <2>17, <2>18, <1>1 DEF Abstract!LosePart
  <2> QED BY <2>14, <2>19
<1> QED BY <1>2, <1>3

(* A request served is an item that takes effect, or, when nobody waits    *)
(* for it any more, a late write.                                          *)
LEMMA AbsApply ==
  ASSUME RoundInv, NEW w \in Workers, NEW s \in Servers, Apply(w, s)
  PROVE  \/ UNCHANGED Abstract!vars
         \/ Abstract!LateWrite(w)
         \/ \E i \in 1 .. Len(absRound[w]) : Abstract!Effect(w, i)
<1>1. PICK r : Serves(w, s, r)
  BY ApplyFacts
<1>2. UNCHANGED <<batch, call, opsCompleted>>
  BY DEF Apply, workerVars
<1>3. PICK n : n = Len(job[w][s].responses) + 1
  OBVIOUS
<1>4. PICK b : b = (r.isRead /\ r.key \in mp[s])
  OBVIOUS
<1>5. InPlace /\ PlacesFit /\ RoundRead /\ ItemsTyped
  BY ItemsInPlace, Places, RoundRow, ItemTypes
<1>6. PlacesFit'
  BY RoundApply, PlacesNext
<1>7. /\ r = job[w][s].requests[n] /\ r \in Timestamped /\ getServerIdx(r.key) = s
      /\ mp' = [mp EXCEPT ![s] = IF r.isRead THEN @ ELSE @ \cup {r.key}]
      /\ job'[w][s].requests = job[w][s].requests
      /\ job'[w][s].responses = Append(job[w][s].responses, b)
      /\ Len(job'[w][s].responses) = n
      /\ \A v \in Workers, t \in Servers : v # w \/ t # s => job'[v][t] = job[v][t]
  BY <1>1, <1>3, <1>4 DEF Serves
<1>8. /\ n \in Nat /\ n \in Ahead(w, s) /\ Ahead(w, s)' = Ahead(w, s) \ {n}
      /\ \A t \in Servers \ {s} : Ahead(w, t)' = Ahead(w, t) /\ job'[w][t] = job[w][t]
  <2>1. Len(job[w][s].responses) < Len(job[w][s].requests)
    BY <1>1 DEF Serves
  <2>2. Len(job[w][s].responses) \in Nat /\ Len(job[w][s].requests) \in Nat
    BY <1>5 DEF PlacesFit
  <2>3. n \in Nat /\ n \in Ahead(w, s)
    BY <2>1, <2>2, <1>3 DEF Ahead
  <2>4. Ahead(w, s)' = (n + 1) .. Len(job[w][s].requests)
    BY <1>7 DEF Ahead
  <2>5. Ahead(w, s) = n .. Len(job[w][s].requests)
    BY <1>3 DEF Ahead
  <2>6. Ahead(w, s)' = Ahead(w, s) \ {n}
    BY <2>2, <2>3, <2>4, <2>5
  <2>7. \A t \in Servers \ {s} : Ahead(w, t)' = Ahead(w, t) /\ job'[w][t] = job[w][t]
    BY <1>7 DEF Ahead
  <2> QED BY <2>3, <2>6, <2>7
<1>9. /\ DOMAIN job'[w][s].responses = DOMAIN job[w][s].responses \cup {n}
      /\ job'[w][s].responses[n] = b
      /\ \A a \in DOMAIN job[w][s].responses : job'[w][s].responses[a] = job[w][s].responses[a]
  <2>1. PICK q : q = job[w][s].responses
    OBVIOUS
  <2>2. q \in Seq(BOOLEAN) /\ b \in BOOLEAN
    BY <2>1, <1>4, <1>7 DEF RoundInv, ServerTypes, Jobs, Timestamped
  <2>3. /\ DOMAIN Append(q, b) = 1 .. Len(q) + 1 /\ DOMAIN q = 1 .. Len(q) /\ Len(q) \in Nat
        /\ Append(q, b)[Len(q) + 1] = b
        /\ \A a \in DOMAIN q : Append(q, b)[a] = q[a]
    BY <2>2
  <2>4. n = Len(q) + 1 /\ 1 .. Len(q) + 1 = (1 .. Len(q)) \cup {Len(q) + 1}
    BY <2>1, <2>3, <1>3
  <2> QED BY <2>1, <2>3, <2>4, <1>7
<1>10. /\ \A t \in Servers : Calling(w, t)' <=> Calling(w, t)
       /\ \A x : ItemOf(w, x)' = ItemOf(w, x)
       /\ \A t \in Servers : job'[w][t].requests = job[w][t].requests
  BY <1>2, <1>7, <1>8 DEF Calling, ItemOf
<1>11. StepOf(w)
  <2>1. \A v \in Workers \ {w} : job'[v] = job[v]
    BY <1>1 DEF Serves, RoundInv, ServerTypes
  <2> QED BY <2>1, <1>2 DEF StepOf
<1>12. /\ \A i : (i \in absTodo[w] <=> ToDo(w, i)) /\ (i \in absTodo'[w] <=> ToDo(w, i)')
       /\ \A i : (i \in absGot[w] <=> GotIt(w, i)) /\ (i \in absGot'[w] <=> GotIt(w, i)')
       /\ \A k : (k \in absLoose[w] <=> IsLoose(w, k)) /\ (k \in absLoose'[w] <=> IsLoose(w, k)')
  BY Rows, RowsNext DEF RowsRead
<1>13. absRound' = absRound /\ absLost' = absLost
  BY <1>2 DEF absRound, absLost, Items
<1>14. /\ absStored' = IF r.isRead THEN absStored ELSE absStored \cup {r.key}
       /\ r.key \in absStored <=> r.key \in mp[s]
  <2>1. mp \in [Servers -> SUBSET Keys] /\ \A t \in Servers : \A k \in mp[t] : getServerIdx(k) = t
    BY DEF RoundInv, ServerTypes, KeysAtHome
  <2>2. \A k : (k \in absStored <=> \E t \in Servers : k \in mp[t])
            /\ (k \in absStored' <=> \E t \in Servers : k \in mp'[t])
    BY DEF absStored
  <2>3. r.key \in absStored <=> r.key \in mp[s]
    BY <2>1, <2>2, <1>7
  <2>4. \A k : k \in absStored' <=> k \in absStored \/ (~r.isRead /\ k = r.key)
    BY <2>1, <2>2, <1>7
  <2> QED BY <2>3, <2>4
<1>15. ASSUME NEW a \in Ahead(w, s), a # n
       PROVE  job[w][s].requests[a].timestamp > r.timestamp
  <2>1. n \in DOMAIN job[w][s].requests /\ a \in DOMAIN job[w][s].requests
    BY <1>5, <1>8 DEF PlacesFit
  <2>2. n < a
    BY <1>3, <1>5, <1>8, <1>15 DEF Ahead, PlacesFit
  <2>3. job[w][s].requests[n].timestamp < job[w][s].requests[a].timestamp
    BY <2>1, <2>2 DEF RoundInv, RoundShape, JobShape
  <2>4. job[w][s].requests[a] \in Timestamped
    BY <2>1, <1>5 DEF PlacesFit
  <2>5. job[w][s].requests[a].timestamp \in Nat /\ r.timestamp \in Nat
    BY <2>4, <1>7 DEF Timestamped
  <2> QED BY <2>3, <2>5, <1>7
<1>16. CASE Calling(w, s)
  <2>1. PICK i : i = ItemOf(w, r)
    OBVIOUS
  <2>2. \A t \in Servers : Calling(w, t) => \A a \in DOMAIN job[w][t].requests :
          LET j == ItemOf(w, job[w][t].requests[a])
          IN j \in Items(w) /\ batch[w][j] = job[w][t].requests[a] /\ getServerIdx(batch[w][j].key) = t
    BY <1>5 DEF InPlace
  <2>3. \A t \in Servers : Ahead(w, t) \subseteq DOMAIN job[w][t].requests
    BY <1>5 DEF PlacesFit
  <2>4. i \in Items(w) /\ batch[w][i] = r
    BY <1>7, <1>8, <1>16, <2>1, <2>2, <2>3
  <2>5. i \in absTodo[w]
    BY <1>7, <1>8, <1>12, <1>16, <2>1 DEF ToDo
  <2>6. absTodo'[w] = absTodo[w] \ {i}
    <3>1. ASSUME NEW j, ToDo(w, j)' PROVE ToDo(w, j) /\ j # i
      <4>1. PICK t \in Servers : Calling(w, t)' /\ \E a \in Ahead(w, t)' : j = ItemOf(w, job[w][t].requests[a])'
        BY <3>1 DEF ToDo
      <4>2. Calling(w, t)
        BY <4>1, <1>10
      <4>3. PICK a \in Ahead(w, t)' : j = ItemOf(w, job'[w][t].requests[a])
        BY <4>1, <1>2 DEF ItemOf
      <4>4. j = ItemOf(w, job[w][t].requests[a]) /\ a \in Ahead(w, t) /\ (t = s => a # n)
        BY <4>3, <1>8, <1>10
      <4>5. ASSUME j = i PROVE FALSE
        <5>1. batch[w][j] = job[w][t].requests[a] /\ getServerIdx(batch[w][j].key) = t
          BY <4>2, <4>4, <2>2, <2>3
        <5>2. t = s /\ job[w][s].requests[a] = r
          BY <5>1, <4>5, <2>4, <1>7
        <5>3. r.timestamp > r.timestamp /\ r.timestamp \in Nat
          BY <5>2, <4>4, <1>7, <1>15 DEF Timestamped
        <5> QED BY <5>3
      <4> QED BY <4>2, <4>4, <4>5 DEF ToDo
    <3>2. ASSUME NEW j, ToDo(w, j), j # i PROVE ToDo(w, j)'
      <4>1. PICK t \in Servers : Calling(w, t) /\ \E a \in Ahead(w, t) : j = ItemOf(w, job[w][t].requests[a])
        BY <3>2 DEF ToDo
      <4>2. PICK a \in Ahead(w, t) : j = ItemOf(w, job[w][t].requests[a])
        BY <4>1
      <4>3. a \in Ahead(w, t)'
        BY <4>2, <3>2, <2>1, <1>7, <1>8
      <4>4. Calling(w, t)' /\ j = ItemOf(w, job'[w][t].requests[a])
        BY <4>1, <4>2, <1>10
      <4> QED BY <4>3, <4>4, <1>2 DEF ToDo, ItemOf
    <3> QED BY <3>1, <3>2, <1>12
  <2>7. absGot'[w] = IF b THEN absGot[w] \cup {i} ELSE absGot[w]
    <3>1. ASSUME NEW j, GotIt(w, j)' PROVE GotIt(w, j) \/ (b /\ j = i)
      <4>1. PICK t \in Servers : Calling(w, t)' /\ \E a \in DOMAIN job'[w][t].responses :
              job'[w][t].responses[a] /\ j = ItemOf(w, job[w][t].requests[a])'
        BY <3>1 DEF GotIt
      <4>2. PICK a \in DOMAIN job'[w][t].responses :
              job'[w][t].responses[a] /\ j = ItemOf(w, job'[w][t].requests[a])
        BY <4>1, <1>2 DEF ItemOf
      <4>3. Calling(w, t) /\ j = ItemOf(w, job[w][t].requests[a])
        BY <4>1, <4>2, <1>10
      <4>4. CASE t # s \/ a # n
        <5>1. a \in DOMAIN job[w][t].responses /\ job[w][t].responses[a]
          BY <4>2, <4>4, <1>8, <1>9
        <5> QED BY <5>1, <4>3 DEF GotIt
      <4>5. CASE t = s /\ a = n
        BY <4>2, <4>3, <4>5, <1>7, <1>9, <2>1
      <4> QED BY <4>4, <4>5
    <3>2. ASSUME NEW j, GotIt(w, j) \/ (b /\ j = i) PROVE GotIt(w, j)'
      <4>1. CASE GotIt(w, j)
        <5>1. PICK t \in Servers : Calling(w, t) /\ \E a \in DOMAIN job[w][t].responses :
                job[w][t].responses[a] /\ j = ItemOf(w, job[w][t].requests[a])
          BY <4>1 DEF GotIt
        <5>2. PICK a \in DOMAIN job[w][t].responses :
                job[w][t].responses[a] /\ j = ItemOf(w, job[w][t].requests[a])
          BY <5>1
        <5>3. a \in DOMAIN job'[w][t].responses /\ job'[w][t].responses[a]
          BY <5>2, <1>8, <1>9
        <5>4. Calling(w, t)' /\ j = ItemOf(w, job'[w][t].requests[a])
          BY <5>1, <5>2, <1>10
        <5> QED BY <5>3, <5>4, <1>2 DEF GotIt, ItemOf
      <4>2. CASE b /\ j = i
        <5>1. n \in DOMAIN job'[w][s].responses /\ job'[w][s].responses[n]
          BY <4>2, <1>9
        <5>2. Calling(w, s)' /\ j = ItemOf(w, job'[w][s].requests[n])
          BY <4>2, <1>7, <1>10, <1>16, <2>1
        <5> QED BY <5>1, <5>2, <1>2 DEF GotIt, ItemOf
      <4> QED BY <3>2, <4>1, <4>2
    <3> QED BY <3>1, <3>2, <1>12
  <2>8. absLoose'[w] = absLoose[w]
    <3>1. ASSUME NEW k PROVE IsLoose(w, k)' <=> IsLoose(w, k)
      <4>1. \A t \in Servers : ~Calling(w, t) => Ahead(w, t)' = Ahead(w, t) /\ job'[w][t] = job[w][t]
        BY <1>8, <1>16
      <4> QED BY <4>1, <1>10 DEF IsLoose
    <3> QED BY <3>1, <1>12
  <2>9. Abstract!FirstOfKey(w, i)
    <3>1. ASSUME NEW j \in absTodo[w], j < i, absRound[w][j].key = absRound[w][i].key PROVE FALSE
      <4>1. PICK t \in Servers : Calling(w, t) /\ \E a \in Ahead(w, t) : j = ItemOf(w, job[w][t].requests[a])
        BY <1>12 DEF ToDo
      <4>2. PICK a \in Ahead(w, t) : j = ItemOf(w, job[w][t].requests[a])
        BY <4>1
      <4>3. /\ j \in Items(w) /\ batch[w][j] = job[w][t].requests[a]
            /\ getServerIdx(batch[w][j].key) = t
        BY <4>1, <4>2, <2>2, <2>3
      <4>4. batch[w][j].key = r.key
        BY <3>1, <4>3, <2>4, <1>5 DEF RoundRead
      <4>5. t = s
        BY <4>3, <4>4, <1>7
      <4>6. CASE a = n
        <5>1. j = i
          BY <4>2, <4>5, <4>6, <2>1, <1>7
        <5> QED BY <5>1, <3>1, <2>4 DEF Items
      <4>7. CASE a # n
        <5>1. job[w][s].requests[a].timestamp > r.timestamp
          BY <4>2, <4>5, <4>7, <1>15
        <5>2. batch[w] \in Seq(Timestamped) /\ Numbered(batch[w])
          BY DEF RoundInv, ClientTypes, RoundShape
        <5>3. i \in DOMAIN batch[w] /\ j \in DOMAIN batch[w]
          BY <5>2, <4>3, <2>4 DEF Items
        <5>4. batch[w][j].timestamp < batch[w][i].timestamp
          BY <5>2, <5>3, <3>1, TimesInOrder
        <5>5. batch[w][j].timestamp \in Nat /\ batch[w][i].timestamp \in Nat
          <6>1. batch[w][j] \in Timestamped /\ batch[w][i] \in Timestamped
            BY <5>2, <5>3
          <6> QED BY <6>1 DEF Timestamped
        <5> QED BY <5>1, <5>4, <5>5, <4>3, <4>5, <2>4
      <4> QED BY <4>6, <4>7
    <3> QED BY <3>1 DEF Abstract!FirstOfKey
  <2>10. absRound[w][i].key = r.key /\ absRound[w][i].isRead = r.isRead
    BY <2>4, <1>5 DEF RoundRead
  <2>11. absTodo' = [absTodo EXCEPT ![w] = @ \ {i}]
    BY <2>6, <1>11, StepRows
  <2>12. absLoose' = absLoose
    BY <2>8, <1>11, KeptRow
  <2>13. CASE r.isRead
    <3>1. absGot' = [absGot EXCEPT ![w] = IF r.key \in absStored THEN @ \cup {i} ELSE @]
      <4>1. absGot'[w] = IF r.key \in absStored THEN absGot[w] \cup {i} ELSE absGot[w]
        BY <2>7, <2>13, <1>4, <1>14
      <4> QED BY <4>1, <1>11, StepRows
    <3>2. absStored' = absStored
      BY <2>13, <1>14
    <3>3. Abstract!Effect(w, i)
      BY <2>5, <2>9, <2>10, <2>11, <2>12, <2>13, <3>1, <3>2, <1>2, <1>13 DEF Abstract!Effect
    <3>4. i \in 1 .. Len(absRound[w])
      BY <2>4, <1>5 DEF RoundRead
    <3> QED BY <3>3, <3>4
  <2>14. CASE ~r.isRead
    <3>1. absGot' = absGot
      <4>1. absGot'[w] = absGot[w]
        BY <2>7, <2>14, <1>4
      <4> QED BY <4>1, <1>11, KeptRow
    <3>2. absStored' = absStored \cup {r.key}
      BY <2>14, <1>14
    <3>3. Abstract!Effect(w, i)
      BY <2>5, <2>9, <2>10, <2>11, <2>12, <2>14, <3>1, <3>2, <1>2, <1>13 DEF Abstract!Effect
    <3>4. i \in 1 .. Len(absRound[w])
      BY <2>4, <1>5 DEF RoundRead
    <3> QED BY <3>3, <3>4
  <2> QED BY <2>13, <2>14
<1>17. CASE ~Calling(w, s)
  <2>1. \A t \in Servers : Calling(w, t) => Ahead(w, t)' = Ahead(w, t) /\ job'[w][t] = job[w][t]
    BY <1>8, <1>17
  <2>2. absTodo'[w] = absTodo[w]
    <3>1. ASSUME NEW j PROVE ToDo(w, j)' <=> ToDo(w, j)
      BY <2>1, <1>2, <1>10 DEF ToDo, ItemOf
    <3> QED BY <3>1, <1>12
  <2>3. absGot'[w] = absGot[w]
    <3>1. ASSUME NEW j PROVE GotIt(w, j)' <=> GotIt(w, j)
      BY <2>1, <1>2, <1>10 DEF GotIt, ItemOf
    <3> QED BY <3>1, <1>12
  <2>4. absTodo' = absTodo /\ absGot' = absGot
    BY <2>2, <2>3, <1>11, KeptRow
  <2>5. ASSUME NEW k, IsLoose(w, k)' PROVE IsLoose(w, k)
    <3>1. PICK t \in Servers : ~Calling(w, t)' /\ \E a \in Ahead(w, t)' :
            ~job'[w][t].requests[a].isRead /\ k = job'[w][t].requests[a].key
      BY <2>5 DEF IsLoose
    <3>2. ~Calling(w, t) /\ Ahead(w, t)' \subseteq Ahead(w, t) /\ job'[w][t].requests = job[w][t].requests
      BY <3>1, <1>8, <1>10
    <3> QED BY <3>1, <3>2 DEF IsLoose
  <2>6. ASSUME NEW k, IsLoose(w, k), r.isRead \/ k # r.key PROVE IsLoose(w, k)'
    <3>1. PICK t \in Servers : ~Calling(w, t) /\ \E a \in Ahead(w, t) :
            ~job[w][t].requests[a].isRead /\ k = job[w][t].requests[a].key
      BY <2>6 DEF IsLoose
    <3>2. PICK a \in Ahead(w, t) : ~job[w][t].requests[a].isRead /\ k = job[w][t].requests[a].key
      BY <3>1
    <3>3. a \in Ahead(w, t)'
      BY <3>2, <2>6, <1>7, <1>8
    <3>4. ~Calling(w, t)' /\ job'[w][t].requests = job[w][t].requests
      BY <3>1, <1>10
    <3> QED BY <3>2, <3>3, <3>4 DEF IsLoose
  <2>7. CASE r.isRead
    <3>1. absLoose'[w] = absLoose[w]
      BY <2>5, <2>6, <2>7, <1>12
    <3>2. absLoose' = absLoose
      BY <3>1, <1>11, KeptRow
    <3>3. absStored' = absStored
      BY <2>7, <1>14
    <3> QED BY <2>4, <3>2, <3>3, <1>2, <1>13 DEF Abstract!vars
  <2>8. CASE ~r.isRead
    <3>1. r.key \in absLoose[w]
      <4>1. IsLoose(w, r.key)
        BY <2>8, <1>7, <1>8, <1>17 DEF IsLoose
      <4> QED BY <4>1, <1>12
    <3>2. absLoose'[w] = absLoose[w] \/ absLoose'[w] = absLoose[w] \ {r.key}
      BY <2>5, <2>6, <1>12
    <3>3. absLoose' = absLoose \/ absLoose' = [absLoose EXCEPT ![w] = @ \ {r.key}]
      BY <3>2, <1>11, KeptRow, StepRows
    <3>4. absStored' = absStored \cup {r.key}
      BY <2>8, <1>14
    <3>5. Abstract!LateWrite(w)
      BY <2>4, <3>1, <3>3, <3>4, <1>2, <1>13 DEF Abstract!LateWrite
    <3> QED BY <3>5
  <2> QED BY <2>7, <2>8
<1> QED BY <1>16, <1>17

(* A batch that is sent: what goes over broken connections is lost.        *)
LEMMA AbsSendBatch ==
  ASSUME RoundInv, NEW w \in Workers, SendBatch(w)
  PROVE  Abstract!Begin(w)
<1>1. PICK requests : Sends(w, requests)
  BY SendFacts
<1>2. RoundInv'
  BY RoundSendBatch
<1>3. /\ requests \in Seq(Timestamped) /\ requests # <<>> /\ Numbered(requests)
      /\ batch' = [batch EXCEPT ![w] = requests] /\ pc[w] = "loop"
      /\ UNCHANGED <<opsCompleted, broken, mp>>
      /\ \A v \in Workers \ {w} : call'[v] = call[v] /\ job'[v] = job[v]
  BY <1>1 DEF Sends
<1>4. \A s \in Servers :
        /\ call'[w][s] = IF Part(requests, s) = {} THEN "none"
                         ELSE IF s \notin broken[w] THEN "pending" ELSE "failed"
        /\ job'[w][s] = IF Part(requests, s) # {} /\ s \notin broken[w]
                        THEN NewJob(Part(requests, s)) ELSE job[w][s]
  BY <1>1 DEF Sends
<1>5. batch'[w] = requests /\ \A v \in Workers \ {w} : batch'[v] = batch[v]
  BY <1>3 DEF RoundInv, ClientTypes
<1>6. StepOf(w)
  BY <1>3, <1>5 DEF StepOf
<1>7. /\ batch[w] = <<>> /\ \A s \in Servers : call[w][s] = "none"
      /\ \A s \in Servers : s \notin broken[w] => job[w][s] = NoJob
  BY <1>3 DEF RoundInv, RoundShape, CallShape
<1>8. \A s \in Servers : /\ ~Calling(w, s)
                         /\ Calling(w, s)' <=> Part(requests, s) # {} /\ s \notin broken[w]
  BY <1>4, <1>7 DEF Calling
<1>9. /\ \A i : (i \in absTodo[w] <=> ToDo(w, i)) /\ (i \in absTodo'[w] <=> ToDo(w, i)')
      /\ \A i : (i \in absGot[w] <=> GotIt(w, i)) /\ (i \in absGot'[w] <=> GotIt(w, i)')
      /\ \A i : (i \in absLost'[w] <=> IsLost(w, i)')
      /\ \A k : (k \in absLoose[w] <=> IsLoose(w, k)) /\ (k \in absLoose'[w] <=> IsLoose(w, k)')
  BY Rows, RowsNext DEF RowsRead
<1>10. InPlace' /\ PlacesFit' /\ RoundRead' /\ ItemsTyped' /\ RoundRead
  BY <1>2, ItemsInPlaceNext, PlacesNext, RoundRowNext, ItemTypesNext, RoundRow
<1>11. ASSUME NEW s \in Servers, Calling(w, s)'
       PROVE  job'[w][s].responses = <<>>
  BY <1>3, <1>4, <1>8, <1>11, NewJobType
<1>12. absGot' = absGot
  <2>1. ASSUME NEW i PROVE ~GotIt(w, i) /\ ~GotIt(w, i)'
    <3>1. ~GotIt(w, i)
      BY <1>8 DEF GotIt
    <3>2. ASSUME GotIt(w, i)' PROVE FALSE
      <4>1. PICK s \in Servers : Calling(w, s)' /\ \E a \in DOMAIN job'[w][s].responses : TRUE
        BY <3>2 DEF GotIt
      <4>2. job'[w][s].responses = <<>>
        BY <4>1, <1>11
      <4> QED BY <4>1, <4>2
    <3> QED BY <3>1, <3>2
  <2>2. absGot'[w] = absGot[w]
    BY <2>1, <1>9
  <2> QED BY <2>2, <1>6, KeptRow
<1>13. absLoose' = absLoose
  <2>1. ASSUME NEW s \in Servers
        PROVE  \/ Calling(w, s)' /\ Ahead(w, s) = {}
               \/ ~Calling(w, s)' /\ job'[w][s] = job[w][s] /\ Ahead(w, s)' = Ahead(w, s)
    <3>1. CASE Calling(w, s)'
      <4>1. job[w][s] = NoJob
        BY <3>1, <1>7, <1>8
      <4>2. Len(NoJob.requests) = 0 /\ Len(NoJob.responses) = 0
        BY DEF NoJob
      <4> QED BY <3>1, <4>1, <4>2 DEF Ahead
    <3>2. CASE ~Calling(w, s)'
      <4>1. job'[w][s] = job[w][s]
        BY <3>2, <1>4, <1>8
      <4> QED BY <3>2, <4>1 DEF Ahead
    <3> QED BY <3>1, <3>2
  <2>2. ASSUME NEW k PROVE IsLoose(w, k)' <=> IsLoose(w, k)
    BY <2>1, <1>8 DEF IsLoose
  <2>3. absLoose'[w] = absLoose[w]
    BY <2>2, <1>9
  <2> QED BY <2>3, <1>6, KeptRow
<1>14. absTodo'[w] = Items(w)' \ absLost'[w]
  <2>1. ASSUME NEW i, ToDo(w, i)' PROVE i \in Items(w)' /\ ~IsLost(w, i)'
    <3>1. PICK s \in Servers : Calling(w, s)' /\ \E a \in Ahead(w, s)' : i = ItemOf(w, job[w][s].requests[a])'
      BY <2>1 DEF ToDo
    <3>2. PICK a \in Ahead(w, s)' : i = ItemOf(w, job[w][s].requests[a])'
      BY <3>1
    <3>3. a \in DOMAIN job'[w][s].requests
      BY <1>10 DEF PlacesFit
    <3>4. i \in Items(w)' /\ getServerIdx(batch'[w][i].key) = s
      <4>1. (LET j == ItemOf(w, job[w][s].requests[a])
             IN j \in Items(w) /\ batch[w][j] = job[w][s].requests[a]
                /\ getServerIdx(job[w][s].requests[a].key) = s)'
        BY <3>1, <3>3, <1>10 DEF InPlace
      <4> QED BY <3>2, <4>1 DEF getServerIdx
    <3>5. call'[w][s] # "failed"
      BY <3>1 DEF Calling
    <3> QED BY <3>4, <3>5 DEF IsLost, getServerIdx
  <2>2. ASSUME NEW i \in Items(w)', ~IsLost(w, i)' PROVE ToDo(w, i)'
    <3>1. PICK s \in Servers : s = getServerIdx(batch'[w][i].key)
      BY <1>10 DEF ItemsTyped, getServerIdx
    <3>2. call'[w][s] # "failed"
      BY <2>2, <3>1 DEF IsLost, getServerIdx
    <3>3. Part(requests, s) # {}
      <4>1. i \in DOMAIN requests /\ getServerIdx(requests[i].key) = s
        BY <2>2, <3>1, <1>3, <1>5 DEF Items
      <4>2. requests[i] \in Part(requests, s)
        BY <4>1 DEF Part, Range
      <4> QED BY <4>2
    <3>4. Calling(w, s)'
      BY <3>2, <3>3, <1>4, <1>8
    <3>5. PICK a \in DOMAIN job'[w][s].requests : i = ItemOf(w, job[w][s].requests[a])'
      <4>1. (\A x \in Items(w) : getServerIdx(batch[w][x].key) = s =>
               \E a \in DOMAIN job[w][s].requests : x = ItemOf(w, job[w][s].requests[a]))'
        BY <3>4, <1>10 DEF InPlace
      <4>2. getServerIdx(batch[w][i].key)' = s
        BY <3>1 DEF getServerIdx
      <4> QED BY <2>2, <4>1, <4>2
    <3>6. a \in Ahead(w, s)'
      <4>1. Len(job'[w][s].responses) = 0
        BY <3>4, <1>11
      <4>2. DOMAIN job'[w][s].requests = 1 .. Len(job'[w][s].requests)
        BY <1>10 DEF PlacesFit
      <4> QED BY <4>1, <4>2 DEF Ahead
    <3> QED BY <3>4, <3>5, <3>6 DEF ToDo
  <2> QED BY <2>1, <2>2, <1>9
<1>15. absRound[w] = <<>> /\ absRound'[w] \in Seq(Abstract!Op) \ {<<>>} /\ 1 .. Len(absRound'[w]) = Items(w)'
  <2>1. absRound[w] \in Seq(Abstract!Op) /\ Len(absRound[w]) = 0
    BY <1>7, <1>10 DEF RoundRead
  <2>2. absRound'[w] \in Seq(Abstract!Op) /\ Len(absRound'[w]) = Len(requests) /\ 1 .. Len(absRound'[w]) = Items(w)'
    BY <1>5, <1>10 DEF RoundRead, Abstract!Op
  <2>3. Len(requests) # 0 /\ Len(<<>>) = 0
    BY <1>3
  <2>4. absRound[w] = <<>>
    BY <2>1
  <2>5. absRound'[w] # <<>>
    BY <2>2, <2>3
  <2> QED BY <2>2, <2>4, <2>5
<1>16. absLost'[w] \in SUBSET (1 .. Len(absRound'[w]))
  BY <1>9, <1>15 DEF IsLost
<1>17. absStored' = absStored
  BY <1>3 DEF absStored
<1>18. /\ absRound' = [absRound EXCEPT ![w] = absRound'[w]]
       /\ absLost' = [absLost EXCEPT ![w] = absLost'[w]]
       /\ absTodo' = [absTodo EXCEPT ![w] = (1 .. Len(absRound'[w])) \ absLost'[w]]
  BY <1>6, <1>14, <1>15, StepRows
<1> QED BY <1>3, <1>12, <1>13, <1>15, <1>16, <1>17, <1>18 DEF Abstract!Begin

(* A request sorted by timestamps has as many places as items.             *)
LEMMA RequestLength ==
  ASSUME RoundInv, NEW w \in Workers, NEW s \in Servers
  PROVE  Cardinality(Range(job[w][s].requests)) = Len(job[w][s].requests)
<1>1. PICK q : q = job[w][s].requests
  OBVIOUS
<1>2. q \in Seq(Timestamped)
  BY <1>1 DEF RoundInv, ServerTypes, Jobs
<1>3. \A a, b \in DOMAIN q : a < b => q[a].timestamp < q[b].timestamp
  BY <1>1 DEF RoundInv, RoundShape, JobShape
<1>4. PICK D : D = 1 .. Len(q)
  OBVIOUS
<1>5. D = DOMAIN q /\ IsFiniteSet(D) /\ Cardinality(D) = Len(q)
  BY <1>2, <1>4, FS_Interval
<1>6. \A a, b \in D : q[a] = q[b] => a = b
  <2> SUFFICES ASSUME NEW a \in D, NEW b \in D, q[a] = q[b], a < b \/ b < a PROVE FALSE
    BY <1>4
  <2>1. q[a] \in Timestamped /\ q[b] \in Timestamped
    BY <1>2, <1>5
  <2>2. q[a].timestamp \in Nat /\ q[b].timestamp \in Nat
    BY <2>1 DEF Timestamped
  <2> QED BY <2>2, <1>3, <1>5
<1>7. PICK T : T = Range(q)
  OBVIOUS
<1>8. q \in [D -> T] /\ \A t \in T : \E a \in D : q[a] = t
  BY <1>2, <1>5, <1>7 DEF Range
<1>9. Cardinality(T) = Cardinality(D)
  BY ONLY <1>5, <1>6, <1>8, SameCardinality
<1> QED BY <1>1, <1>5, <1>7, <1>9

(* What a round is counted for is the batch but for what was lost.         *)
LEMMA CountedItems ==
  ASSUME RoundInv, NEW w \in Workers, batch[w] # <<>>, \A s \in Servers : call[w][s] # "pending"
  PROVE  SumFunction([s \in Servers |-> CountResponses(w, s)])
           = Len(batch[w]) - Cardinality(absLost[w])
<1>1. PICK requests : requests = batch[w]
  OBVIOUS
<1>2. requests \in Seq(Timestamped) /\ Numbered(requests)
  BY <1>1 DEF RoundInv, ClientTypes, RoundShape
<1>3. PICK I : I = Items(w)
  OBVIOUS
<1>4. I = 1 .. Len(requests) /\ I = DOMAIN requests /\ IsFiniteSet(I) /\ Cardinality(I) = Len(requests)
  BY <1>1, <1>2, <1>3, FS_Interval DEF Items
<1>5. PICK L : L = absLost[w]
  OBVIOUS
<1>6. L = {i \in I : call[w][getServerIdx(requests[i].key)] = "failed"}
  BY <1>1, <1>3, <1>5 DEF absLost
<1>7. PICK P : P = I \ L
  OBVIOUS
<1>8. IsFiniteSet(L) /\ IsFiniteSet(P) /\ Cardinality(L) \in Nat
  BY <1>4, <1>6, <1>7, FS_Subset, FS_CardinalityType
<1>9. Cardinality(P) = Len(requests) - Cardinality(L)
  <2>1. Cardinality(I \ L) = Cardinality(I) - Cardinality(I \cap L)
    BY <1>4, FS_Difference
  <2>2. I \cap L = L
    BY <1>6
  <2> QED BY <2>1, <2>2, <1>4, <1>7
<1>10. PICK f : f = [i \in P |-> getServerIdx(requests[i].key)]
  OBVIOUS
<1>11. f \in [P -> Servers]
  <2>1. \A i \in P : getServerIdx(requests[i].key) \in Servers
    BY <1>1, <1>3, <1>7, ItemTypes DEF ItemsTyped
  <2> QED BY <2>1, <1>10
<1>12. PICK g : g = [s \in Servers |-> CountResponses(w, s)]
  OBVIOUS
<1>13. ASSUME NEW s \in Servers PROVE g[s] = Cardinality({i \in P : f[i] = s})
  <2>1. CallShape(w, s) /\ JobShape(w, s) /\ call[w][s] \in {"none", "replied", "failed"}
    BY DEF RoundInv, RoundShape, ClientTypes
  <2>2. PICK Q : Q = {i \in DOMAIN requests : getServerIdx(requests[i].key) = s}
    OBVIOUS
  <2>3. Cardinality(Part(requests, s)) = Cardinality(Q)
    BY <1>2, <2>2, PartFinite
  <2>4. g[s] = CountResponses(w, s)
    BY <1>12
  <2>5. CASE call[w][s] = "replied"
    <3>1. {i \in P : f[i] = s} = Q
      <4>1. \A i \in Q : i \in I /\ i \notin L
        BY <1>4, <1>6, <2>2, <2>5
      <4> QED BY <4>1, <1>4, <1>7, <1>10, <2>2
    <3>2. CountResponses(w, s) = Len(job[w][s].requests)
      BY <2>1, <2>5 DEF CountResponses, JobShape
    <3>3. Range(job[w][s].requests) = Part(requests, s)
      BY <1>1, <2>1, <2>5 DEF CallShape, Calling
    <3>4. Len(job[w][s].requests) = Cardinality(Part(requests, s))
      BY <3>3, RequestLength
    <3> QED BY <2>3, <2>4, <3>1, <3>2, <3>4
  <2>6. CASE call[w][s] # "replied"
    <3>1. {i \in P : f[i] = s} = {}
      <4> SUFFICES ASSUME NEW i \in P, f[i] = s PROVE FALSE
        OBVIOUS
      <4>1. getServerIdx(requests[i].key) = s /\ i \in I /\ i \notin L
        BY <1>7, <1>10
      <4>2. requests[i] \in Part(requests, s)
        BY <4>1, <1>4 DEF Part, Range
      <4>3. call[w][s] # "none"
        BY <4>2, <1>1, <2>1 DEF CallShape
      <4>4. call[w][s] # "failed"
        BY <4>1, <1>6
      <4> QED BY <4>3, <4>4, <2>1, <2>6
    <3>2. CountResponses(w, s) = 0
      BY <2>6 DEF CountResponses
    <3>3. Cardinality({}) = 0
      BY FS_EmptySet
    <3> QED BY <2>4, <3>1, <3>2, <3>3
  <2> QED BY <2>5, <2>6
<1>14. SumFunctionOnSet(g, Servers) = Cardinality(P)
  <2>1. \A s \in Servers : g[s] = Cardinality({i \in P : f[i] = s})
    BY <1>13
  <2> QED BY ONLY <1>8, <1>11, <2>1, ServersFinite, PartsAddUp
<1>15. SumFunction(g) = SumFunctionOnSet(g, Servers)
  BY <1>12 DEF SumFunction
<1> QED BY <1>1, <1>5, <1>9, <1>12, <1>14, <1>15

(* The end of a round.                                                     *)
LEMMA AbsCollect ==
  ASSUME RoundInv, NEW w \in Workers, CollectReplies(w)
  PROVE  Abstract!End(w)
<1>1. /\ pc[w] = "await" /\ \A s \in Servers : call[w][s] # "pending"
      /\ call' = [call EXCEPT ![w] = [s \in Servers |-> "none"]]
      /\ job' = [job EXCEPT ![w] = [s \in Servers |-> IF call[w][s] = "replied" THEN NoJob ELSE job[w][s]]]
      /\ batch' = [batch EXCEPT ![w] = <<>>]
      /\ mp' = mp
  BY DEF CollectReplies
<1>2. /\ \A s \in Servers : /\ call'[w][s] = "none"
                            /\ job'[w][s] = IF call[w][s] = "replied" THEN NoJob ELSE job[w][s]
      /\ batch'[w] = <<>> /\ StepOf(w)
  BY <1>1 DEF RoundInv, ClientTypes, ServerTypes, StepOf
<1>3. batch[w] # <<>>
  BY <1>1 DEF RoundInv, RoundShape
<1>4. \A s \in Servers : ~Calling(w, s)' /\ (Calling(w, s) <=> call[w][s] = "replied")
  BY <1>1, <1>2 DEF Calling
<1>5. /\ \A i : (i \in absTodo[w] <=> ToDo(w, i)) /\ (i \in absTodo'[w] <=> ToDo(w, i)')
      /\ \A i : (i \in absGot'[w] <=> GotIt(w, i)')
      /\ \A i : (i \in absLost'[w] <=> IsLost(w, i)')
      /\ \A k : (k \in absLoose[w] <=> IsLoose(w, k)) /\ (k \in absLoose'[w] <=> IsLoose(w, k)')
  BY Rows, RowsNext DEF RowsRead
<1>6. \A s \in Servers : Calling(w, s) => Ahead(w, s) = {}
  <2> SUFFICES ASSUME NEW s \in Servers, Calling(w, s) PROVE Ahead(w, s) = {}
    OBVIOUS
  <2>1. Len(job[w][s].responses) = Len(job[w][s].requests)
    BY <1>4 DEF RoundInv, RoundShape, JobShape
  <2>2. Len(job[w][s].requests) \in Nat
    BY Places DEF PlacesFit
  <2> QED BY <2>1, <2>2 DEF Ahead
<1>7. absTodo[w] = {} /\ absTodo'[w] = {}
  BY <1>4, <1>5, <1>6 DEF ToDo
<1>8. absGot'[w] = {}
  BY <1>4, <1>5 DEF GotIt
<1>9. absLost'[w] = {}
  BY <1>2, <1>5 DEF IsLost, Items
<1>10. absLoose'[w] = absLoose[w]
  <2>1. \A s \in Servers : Calling(w, s) => Ahead(w, s)' = {}
    <3>1. Len(NoJob.requests) = 0 /\ Len(NoJob.responses) = 0
      BY DEF NoJob
    <3> QED BY <3>1, <1>2, <1>4 DEF Ahead
  <2>2. \A s \in Servers : ~Calling(w, s) => job'[w][s] = job[w][s] /\ Ahead(w, s)' = Ahead(w, s)
    BY <1>2, <1>4 DEF Ahead
  <2>3. ASSUME NEW k PROVE IsLoose(w, k)' <=> IsLoose(w, k)
    BY <2>1, <2>2, <1>4 DEF IsLoose
  <2> QED BY <2>3, <1>5
<1>11. absRound[w] # <<>> /\ Len(absRound[w]) = Len(batch[w])
  <2>1. Len(absRound[w]) = Len(batch[w]) /\ batch[w] \in Seq(Timestamped)
    BY RoundRow DEF RoundRead, RoundInv, ClientTypes
  <2>2. Len(batch[w]) # 0 /\ Len(<<>>) = 0
    BY <2>1, <1>3
  <2> QED BY <2>1, <2>2
<1>12. absRound'[w] = <<>>
  <2>1. RoundInv'
    BY RoundCollect
  <2>2. absRound'[w] \in Seq(Abstract!Op) /\ Len(absRound'[w]) = 0
    BY <2>1, <1>2, RoundRowNext DEF RoundRead, Abstract!Op
  <2> QED BY <2>2
<1>13. absStored' = absStored
  BY <1>1 DEF absStored
<1>14. opsCompleted' = [opsCompleted EXCEPT ![w] = @ + Len(absRound[w]) - Cardinality(absLost[w])]
  <2>1. PICK n \in Nat : n = SumFunction([s \in Servers |-> CountResponses(w, s)])
    BY AnswerCount
  <2>2. n = Len(batch[w]) - Cardinality(absLost[w])
    BY <2>1, <1>1, <1>3, CountedItems
  <2>3. opsCompleted' = [opsCompleted EXCEPT ![w] = @ + n]
    BY <2>1 DEF CollectReplies
  <2>4. opsCompleted[w] \in Nat /\ Len(batch[w]) \in Nat
    BY DEF RoundInv, ClientTypes
  <2>5. Cardinality(absLost[w]) \in Nat
    <3>1. absLost[w] \subseteq Items(w)
      BY DEF absLost
    <3>2. IsFiniteSet(Items(w))
      BY <2>4, FS_Interval DEF Items
    <3> QED BY <3>1, <3>2, FS_Subset, FS_CardinalityType
  <2>6. opsCompleted[w] + n = opsCompleted[w] + Len(absRound[w]) - Cardinality(absLost[w])
    BY <2>2, <2>4, <2>5, <1>11
  <2> QED BY <2>3, <2>6
<1>15. /\ absTodo' = absTodo /\ absLoose' = absLoose
       /\ absRound' = [absRound EXCEPT ![w] = <<>>]
       /\ absGot' = [absGot EXCEPT ![w] = {}]
       /\ absLost' = [absLost EXCEPT ![w] = {}]
  BY <1>2, <1>7, <1>8, <1>9, <1>10, <1>12, KeptRow, StepRows
<1>16. absRound[w] # <<>> /\ absTodo[w] = {}
  BY <1>7, <1>11
<1>17. Abstract!Cardinality(absLost[w]) = Cardinality(absLost[w])
  BY DEF Abstract!Cardinality, Cardinality
<1> QED BY ONLY <1>13, <1>14, <1>15, <1>16, <1>17 DEF Abstract!End

LEMMA AbsInit == Init => Abstract!Init
<1> SUFFICES ASSUME Init PROVE Abstract!Init
  OBVIOUS
<1>1. \A w \in Workers : batch[w] = <<>> /\ \A s \in Servers : call[w][s] = "none" /\ job[w][s] = NoJob
  BY DEF Init
<1>2. NoJob.requests = <<>> /\ NoJob.responses = <<>> /\ Len(<<>>) = 0
  BY DEF NoJob
<1>3. \A w \in Workers, s \in Servers : ~Calling(w, s) /\ Ahead(w, s) = {}
  BY <1>1, <1>2 DEF Calling, Ahead
<1>4. ASSUME NEW w \in Workers
      PROVE  absTodo[w] = {} /\ absGot[w] = {} /\ absLost[w] = {} /\ absLoose[w] = {} /\ absRound[w] = <<>>
  <2>1. \A i : ~ToDo(w, i) /\ ~GotIt(w, i) /\ ~IsLoose(w, i)
    BY <1>3 DEF ToDo, GotIt, IsLoose
  <2>2. \A i : ~IsLost(w, i)
    BY <1>1, <1>2 DEF IsLost, Items
  <2>3. absRound[w] = <<>>
    <3>1. absRound[w] \in Seq(Abstract!Op) /\ Len(absRound[w]) = 0
      BY <1>1, <1>2, RoundInit, RoundRow DEF RoundRead, Abstract!Op
    <3> QED BY <3>1
  <2> QED BY <2>1, <2>2, <2>3, Rows DEF RowsRead
<1>5. absStored = {}
  BY DEF Init, absStored
<1>6. opsCompleted = [w \in Workers |-> 0]
  BY DEF Init
<1>7. /\ absRound = [w \in Workers |-> <<>>] /\ absTodo = [w \in Workers |-> {}]
      /\ absGot = [w \in Workers |-> {}] /\ absLost = [w \in Workers |-> {}]
      /\ absLoose = [w \in Workers |-> {}]
  BY <1>4, AbsRows DEF RowFunctions
<1> QED BY <1>5, <1>6, <1>7 DEF Abstract!Init

LEMMA AbsNext == RoundInv /\ [Next]_vars => [Abstract!Next]_(Abstract!vars)
<1> SUFFICES ASSUME RoundInv, [Next]_vars PROVE [Abstract!Next]_(Abstract!vars)
  OBVIOUS
<1>1. ASSUME UNCHANGED <<batch, call, job, mp, opsCompleted>> PROVE UNCHANGED Abstract!vars
  BY <1>1, AbsQuiet
<1>2. CASE Main
  BY <1>1, <1>2 DEF Main, TimeIsUp, WaitForWorkers, CollectResult, workerVars
<1>3. ASSUME NEW w \in Workers, Work(w) PROVE [Abstract!Next]_(Abstract!vars)
  <2>1. CASE Dial(w) \/ SendResult(w)
    BY <1>1, <2>1 DEF Dial, SendResult
  <2>2. CASE SendBatch(w)
    BY <2>2, AbsSendBatch DEF Abstract!Next
  <2>3. CASE CollectReplies(w)
    BY <2>3, AbsCollect DEF Abstract!Next
  <2> QED BY <1>3, <2>1, <2>2, <2>3 DEF Work
<1>4. ASSUME NEW w \in Workers, NEW s \in Servers, Request(w, s)
      PROVE  [Abstract!Next]_(Abstract!vars)
  <2>1. CASE Apply(w, s)
    BY <2>1, AbsApply DEF Abstract!Next
  <2>2. CASE Reply(w, s)
    BY <2>2, AbsReply
  <2> QED BY <1>4, <2>1, <2>2 DEF Request
<1>5. ASSUME NEW w \in Workers, NEW s \in Breakable, BreakConnection(w, s)
      PROVE  [Abstract!Next]_(Abstract!vars)
  BY <1>5, InRange, AbsBreak DEF Abstract!Next
<1>6. ASSUME NEW s \in Reporting, PrintStats(s) PROVE UNCHANGED Abstract!vars
  BY <1>1, <1>6 DEF PrintStats, CopyPuts, Report, workerVars
<1>7. CASE UNCHANGED vars
  BY <1>1, <1>7 DEF vars, workerVars
<1> QED BY <1>2, <1>3, <1>4, <1>5, <1>6, <1>7 DEF Next

(* Every behaviour of the baseline is one of the abstract store, for any   *)
(* number of workers and servers, any hash and any workload: an operation  *)
(* of a batch takes effect at one instant of its round, operations of one  *)
(* key in the order drawn, and a round counts what was not lost            *)
(* (client/main.go:103-142, server/main.go:71-101).                        *)
THEOREM BatchRefinement == Spec => ImplementsBatchStore
<1>1. Spec => []RoundInv
  BY RoundsHold
<1> QED BY <1>1, AbsInit, AbsNext, PTL DEF Spec, ImplementsBatchStore, Abstract!Spec
=============================================================================
