---------------------------- MODULE KvWedgeProofs ----------------------------
(* What abandoned calls do to the later ones, for any number of clients,   *)
(* servers and slots: a send queue that some call filled and left is lost  *)
(* to its client (WedgedForever), and no call that got its WRs posted      *)
(* lacks the completions that end it (EnoughToCome).                       *)
EXTENDS KvLedgerProofs

(* The steps that post nothing, take no CQE and close nothing.             *)
LEMMA NicKeepsCalls ==
  ASSUME TypeOK, NEW cl \in Clients, NEW s \in Servers,
         Nic(cl, s) \/ Fault(cl, s) \/ ServerRepost(cl, s)
  PROVE  /\ UNCHANGED callVars
         /\ \A d \in Clients, t \in Servers : Len(wq'[d][t]) = Len(wq[d][t])
<1>1. ASSUME NEW i \in DOMAIN wq[cl][s], NEW w, wq' = [wq EXCEPT ![cl][s][i] = w]
      PROVE  \A d \in Clients, t \in Servers : Len(wq'[d][t]) = Len(wq[d][t])
  <2>1. wq[cl][s] \in Seq(WorkRequest) BY DEF TypeOK
  <2>2. Len([wq[cl][s] EXCEPT ![i] = w]) = Len(wq[cl][s]) BY <2>1
  <2> QED BY <1>1, <2>2 DEF TypeOK
<1>2. CASE NicWrite(cl, s)
  <2>1. PICK i \in DOMAIN wq[cl][s] :
          wq' = [wq EXCEPT ![cl][s][i].done = TRUE] /\ UNCHANGED callVars
    BY <1>2 DEF NicWrite
  <2>2. wq' = [wq EXCEPT ![cl][s][i] = [wq[cl][s][i] EXCEPT !.done = TRUE]]
    BY <2>1
  <2> QED BY <1>1, <2>1, <2>2
<1>3. CASE NicRead(cl, s) BY <1>1, <1>3 DEF NicRead
<1>4. CASE NicSend(cl, s)
  <2>1. PICK i \in DOMAIN wq[cl][s] :
          wq' = [wq EXCEPT ![cl][s][i].done = TRUE] /\ UNCHANGED callVars
    BY <1>4 DEF NicSend
  <2>2. wq' = [wq EXCEPT ![cl][s][i] = [wq[cl][s][i] EXCEPT !.done = TRUE]]
    BY <2>1
  <2> QED BY <1>1, <2>1, <2>2
<1>5. CASE NicRetryRead(cl, s)
  <2>1. PICK i \in DOMAIN wq[cl][s] :
          wq' = [wq EXCEPT ![cl][s][i].val = mem[s][wq[cl][s][i].addr]] /\ UNCHANGED callVars
    BY <1>5 DEF NicRetryRead
  <2>2. wq' = [wq EXCEPT ![cl][s][i] =
                 [wq[cl][s][i] EXCEPT !.val = mem[s][wq[cl][s][i].addr]]]
    BY <2>1
  <2> QED BY <1>1, <2>1, <2>2
<1>6. CASE NicComplete(cl, s)
  <2>1. PICK i \in DOMAIN wq[cl][s] :
          wq' = [wq EXCEPT ![cl][s][i].cqe = "ok"] /\ UNCHANGED callVars
    BY <1>6 DEF NicComplete
  <2>2. wq' = [wq EXCEPT ![cl][s][i] = [wq[cl][s][i] EXCEPT !.cqe = "ok"]]
    BY <2>1
  <2> QED BY <1>1, <2>1, <2>2
<1>7. CASE NicFail(cl, s) \/ NicFlush(cl, s)
  <2>1. PICK i \in DOMAIN wq[cl][s] :
          wq' = [wq EXCEPT ![cl][s][i].cqe = "err"] /\ UNCHANGED callVars
    BY <1>7 DEF NicFail, NicFlush
  <2>2. wq' = [wq EXCEPT ![cl][s][i] = [wq[cl][s][i] EXCEPT !.cqe = "err"]]
    BY <2>1
  <2> QED BY <1>1, <2>1, <2>2
<1>8. CASE ServerRepost(cl, s) BY <1>8 DEF ServerRepost
<1>9. CASE ServerHandlerReturns(cl, s) BY <1>9 DEF ServerHandlerReturns
<1> QED BY <1>2, <1>3, <1>4, <1>5, <1>6, <1>7, <1>8, <1>9 DEF Nic, Fault

(* What Return, Await and Advance do to the goroutine of their client.     *)
LEMMA ReturnIdle ==
  ASSUME TypeOK, NEW cl \in Clients, NEW c, NEW r, Return(cl, c, r)
  PROVE  phase'[cl] = "idle"
BY DEF Return, TypeOK

LEMMA AwaitPolls ==
  ASSUME TypeOK, NEW cl \in Clients, NEW c, Await(cl, c)
  PROVE  call'[cl] = c /\ left'[cl] = Involved(c)
BY DEF Await, TypeOK

LEMMA AdvanceStays ==
  ASSUME TypeOK, NEW cl \in Clients, NEW s, NEW k, Advance(cl, s, k)
  PROVE  \/ phase'[cl] = "idle"
         \/ /\ phase'[cl] = phase[cl] /\ call'[cl] = call[cl]
            /\ left'[cl] = Involved(call[cl]) \/ left'[cl] \subseteq left[cl]
<1>1. CASE Return(cl, call[cl], [status |-> "ok", reads |-> Results(call[cl], buf[cl])])
  BY <1>1, ReturnIdle
<1>2. CASE UNCHANGED <<phase, call>>
  BY <1>2 DEF Advance, TypeOK, Return
<1> QED BY <1>1, <1>2 DEF Advance

(* No call of client cl can post to a queue that is full: one that needs   *)
(* the queue returns an error, one that does not leaves it alone.          *)
LEMMA SingleCallWedge ==
  ASSUME TypeOK, NEW cl \in Clients, NEW s \in Servers, Len(wq[cl][s]) = SQDepth,
         NEW k \in Keys, NEW c, c.keys = <<k>>, NEW wr, Issue(cl, c, wr)
  PROVE  /\ wq'[cl][s] = wq[cl][s]
         /\ phase'[cl] = "idle" \/ s \notin Involved(call'[cl])
<1>1. c.keys[1] = k /\ Involved(c) = {ShardOf(k)}
  BY DEF Involved
<1>2. CASE ShardOf(k) = s
  <2>1. ~Fits(wq[cl][s], 1) BY DEF Fits
  <2>2. wq' = wq /\ Return(cl, c, ErrRet) BY <1>1, <1>2, <2>1 DEF Issue
  <2> QED BY <2>2, ReturnIdle
<1>3. CASE ShardOf(k) # s
  <2>1. wq'[cl][s] = wq[cl][s] BY <1>1, <1>3 DEF Issue, TypeOK
  <2>2. CASE Await(cl, c) BY <1>1, <1>3, <2>1, <2>2, AwaitPolls
  <2>3. CASE Return(cl, c, ErrRet) BY <2>1, <2>3, ReturnIdle
  <2> QED BY <2>2, <2>3 DEF Issue
<1> QED BY <1>2, <1>3

(* The share of an involved server in a batch is not empty.                *)
LEMMA ShareOfInvolved ==
  ASSUME NEW ks \in KeySeqs, NEW s \in Servers
  PROVE  /\ Cardinality(IndicesAt(ks, s)) \in Nat
         /\ Cardinality(IndicesAt(ks, s)) = 0 <=> IndicesAt(ks, s) = {}
         /\ \A c : c.keys = ks => (s \in Involved(c) <=> IndicesAt(ks, s) # {})
<1>1. IndicesAt(ks, s) \in SUBSET (1 .. Len(ks)) /\ Len(ks) \in Nat
  BY KeySeqType DEF IndicesAt
<1>2. Cardinality(IndicesAt(ks, s)) \in Nat /\ IsFiniteSet(IndicesAt(ks, s))
  BY <1>1, InOrderType
<1>3. Cardinality(IndicesAt(ks, s)) = 0 <=> IndicesAt(ks, s) = {}
  BY <1>2, FS_EmptySet
<1>4. \A c : c.keys = ks => (s \in Involved(c) <=> IndicesAt(ks, s) # {})
  BY DEF Involved, IndicesAt
<1> QED BY <1>2, <1>3, <1>4

LEMMA PutBatchWedge ==
  ASSUME TypeOK, NEW cl \in Clients, NEW s \in Servers, Len(wq[cl][s]) = SQDepth,
         NEW ks \in KeySeqs, NEW vs, PutBatch(cl, ks, vs)
  PROVE  /\ Len(wq'[cl][s]) = Len(wq[cl][s])
         /\ phase'[cl] = "idle" \/ s \notin Involved(call'[cl])
<1> DEFINE c == [op |-> "PutBatch", keys |-> ks, vals |-> vs]
           chain(t) == WriteChain(ks, t)
           fitting == {t \in Involved(c) : Fits(wq[cl][t], Len(chain(t)))}
<1>1. c.keys = ks /\ Involved(c) \subseteq Servers
  BY InvolvedType
<1>2. wq[cl][s] \in Seq(WorkRequest)
  BY DEF TypeOK
<1>3. Len(ks) <= BufCells =>
        chain(s) \in Seq(WorkRequest) /\ Len(chain(s)) = Cardinality(IndicesAt(ks, s))
  BY WriteChainType
<1>4. Len(ks) <= BufCells => s \notin fitting
  BY <1>1, <1>2, <1>3, ShareOfInvolved DEF Fits
<1>5. Len(ks) <= BufCells /\ s \notin Involved(c) => Len(wq[cl][s] \o chain(s)) = Len(wq[cl][s])
  BY <1>1, <1>2, <1>3, ShareOfInvolved
<1>6. CASE Len(ks) > BufCells /\ wq' = wq /\ Return(cl, c, ErrRet)
  BY <1>6, ReturnIdle
<1>7. CASE /\ Len(ks) <= BufCells /\ fitting = Involved(c)
           /\ wq' = [wq EXCEPT ![cl] = [t \in Servers |-> @[t] \o chain(t)]]
           /\ Await(cl, c)
  <2>1. s \notin Involved(c) BY <1>4, <1>7
  <2>2. wq'[cl][s] = wq[cl][s] \o chain(s) BY <1>7 DEF TypeOK
  <2>3. call'[cl] = c BY <1>7, AwaitPolls
  <2> HIDE DEF c, chain, fitting
  <2> QED BY <1>5, <1>7, <2>1, <2>2, <2>3
<1>8. CASE /\ Len(ks) <= BufCells
           /\ \E f \in Involved(c) \ fitting, before \in SUBSET fitting :
                wq' = [wq EXCEPT ![cl] =
                         [t \in Servers |->
                            IF t \in before THEN @[t] \o chain(t)
                            ELSE IF t = f
                                 THEN @[t] \o SubSeq(chain(t), 1, SQDepth - Len(@[t]))
                                 ELSE @[t]]]
           /\ Return(cl, c, ErrRet)
  <2>1. PICK f \in Involved(c) \ fitting, before \in SUBSET fitting :
          wq' = [wq EXCEPT ![cl] =
                   [t \in Servers |->
                      IF t \in before THEN @[t] \o chain(t)
                      ELSE IF t = f
                           THEN @[t] \o SubSeq(chain(t), 1, SQDepth - Len(@[t]))
                           ELSE @[t]]]
    BY <1>8
  <2>2. s \notin before BY <1>4, <1>8
  <2>3. wq'[cl][s] = IF s = f
                     THEN wq[cl][s] \o SubSeq(chain(s), 1, SQDepth - Len(wq[cl][s]))
                     ELSE wq[cl][s]
    BY <2>1, <2>2 DEF TypeOK
  <2>4. SubSeq(chain(s), 1, SQDepth - Len(wq[cl][s])) = <<>>
    <3>1. SQDepth - Len(wq[cl][s]) = 0 BY <1>2
    <3>2. chain(s) \in Seq(WorkRequest) BY <1>3, <1>8
    <3> HIDE DEF chain
    <3> QED BY <3>1, <3>2
  <2>5. phase'[cl] = "idle" BY <1>8, ReturnIdle
  <2> HIDE DEF chain, c, fitting
  <2> QED BY <1>2, <2>3, <2>4, <2>5
<1> QED BY <1>6, <1>7, <1>8 DEF PutBatch

(* A batch of reads that was posted fits in localBuf.                      *)
LEMMA PostedReadsStaged ==
  ASSUME NEW cl \in Clients, NEW ks \in KeySeqs, NEW n \in 0 .. Len(ks),
         \A i \in 1 .. n : CanRead(cl, ks, i)
  PROVE  n <= BufCells
<1>1. n \in Nat BY KeySeqType
<1>2. CASE n = 0 BY <1>2, DepthAssumption
<1>3. CASE n # 0
  <2>1. n \in 1 .. n BY <1>1, <1>3
  <2> QED BY <2>1 DEF CanRead
<1> QED BY <1>2, <1>3

LEMMA GetBatchWedge ==
  ASSUME TypeOK, NEW cl \in Clients, NEW s \in Servers, Len(wq[cl][s]) = SQDepth,
         NEW ks \in KeySeqs, GetBatch(cl, ks)
  PROVE  /\ Len(wq'[cl][s]) = Len(wq[cl][s])
         /\ phase'[cl] = "idle" \/ s \notin Involved(call'[cl])
<1> DEFINE c == [op |-> "GetBatch", keys |-> ks, vals |-> <<>>]
<1>1. PICK n \in 0 .. Len(ks) :
        /\ \A i \in 1 .. n : CanRead(cl, ks, i)
        /\ wq' = [wq EXCEPT ![cl] = [t \in Servers |-> @[t] \o ReadsAt(ks, t, n)]]
        /\ (n = Len(ks) /\ Await(cl, c)) \/ Return(cl, c, ErrRet)
  BY DEF GetBatch
<1>2. n <= BufCells
  BY <1>1, PostedReadsStaged
<1>3. /\ ReadsAt(ks, s, n) \in Seq(WorkRequest)
      /\ Len(ReadsAt(ks, s, n)) = Cardinality(IndicesAt(ks, s) \cap (1 .. n))
  BY <1>2, ReadsAtType
<1>4. Len(ReadsAt(ks, s, n)) = 0
  <2>1. Len(wq[cl][s]) + Cardinality(IndicesAt(ks, s) \cap (1 .. n)) <= SQDepth
    BY <1>1, PostedReadsFit
  <2>2. Len(ReadsAt(ks, s, n)) \in Nat BY <1>3
  <2> QED BY <1>3, <2>1, <2>2
<1>5. wq[cl][s] \in Seq(WorkRequest)
  BY DEF TypeOK
<1>6. wq'[cl][s] = wq[cl][s] \o ReadsAt(ks, s, n)
  BY <1>1 DEF TypeOK
<1>7. Len(wq'[cl][s]) = Len(wq[cl][s])
  BY <1>3, <1>4, <1>5, <1>6
<1>8. CASE n = Len(ks) /\ Await(cl, c)
  <2>1. IndicesAt(ks, s) \cap (1 .. n) = IndicesAt(ks, s)
    BY <1>8 DEF IndicesAt
  <2>2. s \notin Involved(c)
    BY <1>3, <1>4, <2>1, ShareOfInvolved
  <2> QED BY <1>7, <1>8, <2>2, AwaitPolls
<1>9. CASE Return(cl, c, ErrRet)
  BY <1>7, <1>9, ReturnIdle
<1> QED BY <1>1, <1>8, <1>9

LEMMA CallWedge ==
  ASSUME TypeOK, NEW cl \in Clients, NEW s \in Servers, Len(wq[cl][s]) = SQDepth, Call(cl)
  PROVE  /\ Len(wq'[cl][s]) = Len(wq[cl][s])
         /\ phase'[cl] = "idle" \/ s \notin Involved(call'[cl])
<1>1. ASSUME NEW k \in Keys, NEW v,
             Put(cl, k, v) \/ Write(cl, k, v) \/ Send(cl, k, v) \/ Get(cl, k)
      PROVE  /\ wq'[cl][s] = wq[cl][s]
             /\ phase'[cl] = "idle" \/ s \notin Involved(call'[cl])
  <2>1. ASSUME NEW op, NEW vals, NEW wr,
               Issue(cl, [op |-> op, keys |-> <<k>>, vals |-> vals], wr)
        PROVE  /\ wq'[cl][s] = wq[cl][s]
               /\ phase'[cl] = "idle" \/ s \notin Involved(call'[cl])
    <3> DEFINE c == [op |-> op, keys |-> <<k>>, vals |-> vals]
    <3>1. c.keys = <<k>> /\ Issue(cl, c, wr) BY <2>1
    <3> HIDE DEF c
    <3> QED BY <3>1, SingleCallWedge
  <2> QED BY <1>1, <2>1 DEF Put, Write, Send, Get
<1> QED BY <1>1, PutBatchWedge, GetBatchWedge DEF Call

(* Only the connections of the call are polled.                            *)
LEMMA LeftStep ==
  ASSUME TypeInv, LeftInvolved, [Next]_vars
  PROVE  LeftInvolved'
<1> SUFFICES ASSUME NEW d \in Clients, phase'[d] = "polling"
             PROVE  left'[d] \subseteq Involved(call'[d])
  BY DEF LeftInvolved
<1> USE DEF TypeInv
<1>1. CASE phase'[d] = phase[d] /\ call'[d] = call[d] /\ left'[d] = left[d]
  BY <1>1 DEF LeftInvolved
<1>2. ASSUME NEW cl \in Clients, NEW c, NEW r, Return(cl, c, r)
      PROVE  phase'[d] = phase[d] /\ call'[d] = call[d] /\ left'[d] = left[d]
  BY <1>2 DEF Return, TypeOK
<1>3. ASSUME NEW cl \in Clients, NEW c, Await(cl, c)
      PROVE  \/ phase'[d] = phase[d] /\ call'[d] = call[d] /\ left'[d] = left[d]
             \/ left'[d] \subseteq Involved(call'[d])
  BY <1>3 DEF Await, TypeOK
<1>4. ASSUME NEW cl \in Clients, Call(cl)
      PROVE  \/ phase'[d] = phase[d] /\ call'[d] = call[d] /\ left'[d] = left[d]
             \/ left'[d] \subseteq Involved(call'[d])
  <2>1. \E c : Await(cl, c) \/ \E r : Return(cl, c, r)
    <3>1. ASSUME NEW c, NEW wr, Issue(cl, c, wr)
          PROVE  \E d1 : Await(cl, d1) \/ \E r : Return(cl, d1, r)
      BY <3>1 DEF Issue
    <3>2. CASE \E k \in Keys, t \in Tags :
                 Put(cl, k, <<k, t>>) \/ Write(cl, k, <<k, t>>) \/ Send(cl, k, <<k, t>>)
      BY <3>1, <3>2 DEF Put, Write, Send
    <3>3. CASE \E k \in Keys : Get(cl, k)
      BY <3>1, <3>3 DEF Get
    <3>4. CASE \E ks \in KeySeqs : \E vs \in ValuesFor(ks) : PutBatch(cl, ks, vs)
      BY <3>4 DEF PutBatch
    <3>5. CASE \E ks \in KeySeqs : GetBatch(cl, ks)
      BY <3>5 DEF GetBatch
    <3> QED BY <1>4, <3>2, <3>3, <3>4, <3>5 DEF Call
  <2>2. PICK c : Await(cl, c) \/ \E r : Return(cl, c, r)
    BY <2>1
  <2> QED BY <2>2, <1>2, <1>3
<1>5. ASSUME NEW cl \in Clients, Close(cl)
      PROVE  phase'[d] = phase[d] /\ call'[d] = call[d] /\ left'[d] = left[d]
  BY <1>5 DEF Close, TypeOK
<1>6. ASSUME NEW cl \in Clients, NEW s \in Servers, NEW k, Advance(cl, s, k), phase[cl] = "polling"
      PROVE  left'[d] \subseteq Involved(call'[d])
  <2>1. CASE cl # d
    <3>1. phase'[d] = phase[d] /\ call'[d] = call[d] /\ left'[d] = left[d]
      BY <1>2, <1>6, <2>1 DEF Advance, TypeOK
    <3> QED BY <3>1, <1>1
  <2>2. CASE cl = d
    BY <1>6, <2>2, AdvanceStays DEF LeftInvolved
  <2> QED BY <2>1, <2>2
<1>7. ASSUME NEW cl \in Clients, NEW s \in Servers, Poll(cl, s)
      PROVE  left'[d] \subseteq Involved(call'[d])
  <2>1. phase[cl] = "polling" /\ (Return(cl, call[cl], ErrRet) \/ \E k : Advance(cl, s, k))
    BY <1>7 DEF Poll, PollEmpty, PollCqe
  <2>2. CASE Return(cl, call[cl], ErrRet) BY <2>2, <1>1, <1>2
  <2> QED BY <2>1, <2>2, <1>6
<1>8. ASSUME NEW cl \in Clients, NEW s \in Servers,
             Nic(cl, s) \/ Fault(cl, s) \/ ServerRepost(cl, s)
      PROVE  phase'[d] = phase[d] /\ call'[d] = call[d] /\ left'[d] = left[d]
  BY <1>8, NicKeepsCalls DEF callVars
<1>9. CASE UNCHANGED vars
  BY <1>9, <1>1 DEF vars, callVars
<1> QED BY <1>1, <1>4, <1>5, <1>7, <1>8, <1>9 DEF Next, Progress

LEMMA WedgeStep ==
  ASSUME TypeInv, LeftInvolved, [Next]_vars,
         NEW d \in Clients, NEW s \in Servers, Wedged(d, s)
  PROVE  Wedged(d, s)' \/ phase'[d] = "closed"
<1> USE DEF TypeInv
<1>1. ASSUME Len(wq'[d][s]) = Len(wq[d][s]), phase'[d] = phase[d], call'[d] = call[d]
      PROVE  Wedged(d, s)'
  BY <1>1 DEF Wedged
<1>2. ASSUME NEW cl \in Clients, cl # d, Call(cl) \/ Progress(cl)
      PROVE  Wedged(d, s)'
  BY <1>1, <1>2, OthersKept
<1>3. CASE Call(d)
  <2>1. /\ Len(wq'[d][s]) = SQDepth
        /\ phase'[d] = "idle" \/ s \notin Involved(call'[d])
    BY <1>3, CallWedge DEF Wedged
  <2>2. phase'[d] \in {"idle", "polling", "closed"}
    BY TypeStep DEF TypeOK
  <2> QED BY <2>1, <2>2 DEF Wedged
<1>4. CASE Close(d)
  BY <1>4 DEF Close, TypeOK
<1>5. ASSUME NEW t \in Servers, Poll(d, t) PROVE Wedged(d, s)'
  <2>1. phase[d] = "polling" /\ t \in left[d]
    BY <1>5 DEF Poll, PollEmpty, PollCqe
  <2>2. s \notin Involved(call[d]) /\ t # s
    BY <2>1 DEF Wedged, LeftInvolved
  <2>3. wq'[d][s] = wq[d][s]
    BY <1>5, <2>2 DEF Poll, PollEmpty, PollCqe, nicVars, TypeOK
  <2>4. Return(d, call[d], ErrRet) \/ \E k : Advance(d, t, k)
    BY <1>5 DEF Poll, PollEmpty, PollCqe
  <2>5. phase'[d] = "idle" \/ (phase'[d] = phase[d] /\ call'[d] = call[d])
    BY <2>4, ReturnIdle, AdvanceStays
  <2> QED BY <1>1, <2>3, <2>5 DEF Wedged
<1>6. ASSUME NEW t \in Servers, Nic(d, t) \/ Fault(d, t) \/ ServerRepost(d, t)
      PROVE  Wedged(d, s)'
  BY <1>1, <1>6, NicKeepsCalls DEF callVars
<1>7. CASE UNCHANGED vars
  BY <1>7, <1>1 DEF vars, nicVars, callVars
<1> QED BY <1>2, <1>3, <1>4, <1>5, <1>6, <1>7 DEF Next, Progress

(* Once a call has filled the send queue of a connection and returned an   *)
(* error, the client never gets a slot of it back before it closes.        *)
THEOREM WedgeIsForever == Spec => WedgedForever
<1>1. Init => LeftInvolved
  BY DEF Init, LeftInvolved
<1>2. TypeInv /\ LeftInvolved /\ [Next]_vars => LeftInvolved'
  BY LeftStep
<1>3. TypeInv /\ LeftInvolved /\ [Next]_vars =>
        [\A cl \in Clients, s \in Servers :
           Wedged(cl, s) => Wedged(cl, s)' \/ phase'[cl] = "closed"]_vars
  BY WedgeStep
<1> QED BY <1>1, <1>2, <1>3, TypeInvariant, PTL DEF Spec, WedgedForever

-----------------------------------------------------------------------------
(* EnoughToCome.                                                           *)

USE ServersAssumption, KeysAssumption, DepthAssumption

Enough(cl) ==
  phase[cl] = "polling" =>
    completed[cl] + Cardinality(ToCome(cl)) >= Total(call[cl])

(* Places in the queues of a client are finitely many.                     *)
LEMMA PlacesCounted ==
  ASSUME NEW P \in SUBSET (Servers \X (1 .. SQDepth))
  PROVE  IsFiniteSet(P) /\ Cardinality(P) \in Nat
<1>1. IsFiniteSet(Servers)
  <2>1. 0 \in Int /\ NumServers - 1 \in Int OBVIOUS
  <2> QED BY <2>1, FS_Interval DEF Servers
<1>2. IsFiniteSet(1 .. SQDepth)
  <2>1. 1 \in Int /\ SQDepth \in Int OBVIOUS
  <2> QED BY <2>1, FS_Interval
<1>3. IsFiniteSet(Servers \X (1 .. SQDepth))
  BY <1>1, <1>2, FS_Product
<1>4. IsFiniteSet(P)
  BY <1>3, FS_Subset
<1> QED BY <1>4, FS_CardinalityType

LEMMA PlacesInjected ==
  ASSUME NEW S, NEW P \in SUBSET (Servers \X (1 .. SQDepth)), NEW F \in [S -> P],
         \A a, b \in S : F[a] = F[b] => a = b
  PROVE  Cardinality(S) \in Nat /\ Cardinality(P) \in Nat /\ Cardinality(S) <= Cardinality(P)
<1>1. IsFiniteSet(P) /\ Cardinality(P) \in Nat
  BY PlacesCounted
<1>2. F \in Injection(S, P)
  BY Fun_IsInj
<1>3. IsFiniteSet(S) /\ Cardinality(S) <= Cardinality(P)
  BY <1>1, <1>2, FS_Injection
<1> QED BY <1>1, <1>3, FS_CardinalityType

LEMMA ToComePlaces ==
  ASSUME NEW cl
  PROVE  /\ ToCome(cl) \in SUBSET (Servers \X (1 .. SQDepth))
         /\ ToCome(cl)' \in SUBSET (Servers \X (1 .. SQDepth))
BY DEF ToCome

(* When a WR of the queue to s is to come.                                 *)
LEMMA ComesNext ==
  ASSUME TypeOK', NEW cl \in Clients, NEW s \in Servers, s \in Involved(call'[cl]),
         NEW i \in DOMAIN wq'[cl][s], wq'[cl][s][i].sig,
         Counts(call'[cl].op, wq'[cl][s][i].id)
  PROVE  <<s, i>> \in ToCome(cl)'
<1>1. wq'[cl][s] \in Seq(WorkRequest) /\ Len(wq'[cl][s]) <= SQDepth
  BY DEF TypeOK
<1>2. i \in 1 .. SQDepth
  BY <1>1
<1> QED BY <1>2 DEF ToCome

LEMMA Joined ==
  ASSUME NEW q \in Seq(WorkRequest), NEW x \in Seq(WorkRequest)
  PROVE  /\ Len(q \o x) = Len(q) + Len(x) /\ Len(q) \in Nat /\ Len(x) \in Nat
         /\ DOMAIN q = 1 .. Len(q) /\ DOMAIN x = 1 .. Len(x)
         /\ DOMAIN (q \o x) = 1 .. Len(q) + Len(x)
         /\ \A j \in 1 .. Len(q) : (q \o x)[j] = q[j]
         /\ \A j \in 1 .. Len(x) : (q \o x)[Len(q) + j] = x[j]
OBVIOUS

(* A call posts WRs of which nothing is reported behind those there are.   *)
Extends(cl) ==
  \A s \in Servers : \E x \in Seq(WorkRequest) :
    wq'[cl][s] = wq[cl][s] \o x /\ \A j \in DOMAIN x : x[j].cqe = "none"

LEMMA ExtendsInOrder ==
  ASSUME TypeOK, NEW cl \in Clients, ReportedInOrder(cl), Extends(cl)
  PROVE  ReportedInOrder(cl)'
<1> SUFFICES ASSUME NEW s \in Servers, NEW k \in DOMAIN wq'[cl][s], NEW j \in 1 .. k - 1,
                    wq'[cl][s][k].cqe # "none"
             PROVE  wq'[cl][s][j].cqe # "none"
  BY DEF ReportedInOrder
<1> DEFINE q == wq[cl][s]
<1>1. q \in Seq(WorkRequest)
  BY DEF TypeOK
<1>2. PICK x \in Seq(WorkRequest) : wq'[cl][s] = q \o x /\ \A a \in DOMAIN x : x[a].cqe = "none"
  BY DEF Extends
<1> HIDE DEF q
<1>3. /\ Len(q) \in Nat /\ Len(x) \in Nat
      /\ DOMAIN q = 1 .. Len(q) /\ DOMAIN x = 1 .. Len(x)
      /\ DOMAIN (q \o x) = 1 .. Len(q) + Len(x)
      /\ \A a \in 1 .. Len(q) : (q \o x)[a] = q[a]
      /\ \A a \in 1 .. Len(x) : (q \o x)[Len(q) + a] = x[a]
  BY <1>1, Joined
<1>4. k \in 1 .. Len(q) + Len(x)
  BY <1>2, <1>3
<1>5. k \in 1 .. Len(q)
  <2> SUFFICES ASSUME k > Len(q) PROVE FALSE
    BY <1>3, <1>4
  <2>1. k - Len(q) \in 1 .. Len(x) /\ Len(q) + (k - Len(q)) = k
    BY <1>3, <1>4
  <2>2. (q \o x)[k] = x[k - Len(q)]
    BY <1>3, <2>1
  <2> QED BY <1>2, <1>3, <2>1, <2>2
<1>6. j \in 1 .. Len(q)
  BY <1>3, <1>5
<1>7. q[k].cqe # "none"
  BY <1>2, <1>3, <1>5
<1>8. q[j].cqe # "none"
  BY <1>3, <1>5, <1>7 DEF ReportedInOrder, q
<1> QED BY <1>2, <1>3, <1>6, <1>8

(* A call that returns needs nothing any more.                             *)
LEMMA ReturnEnough ==
  ASSUME TypeOK, NEW cl \in Clients, NEW c, NEW r, Return(cl, c, r)
  PROVE  Enough(cl)'
BY ReturnIdle DEF Enough

LEMMA IssueEnough ==
  ASSUME TypeOK, TypeOK', NEW cl \in Clients, ReportedInOrder(cl), NEW k \in Keys,
         NEW c, c.keys = <<k>>, Total(c) = 1, NEW wr \in WorkRequest,
         wr.cqe = "none", wr.sig, Counts(c.op, wr.id), Issue(cl, c, wr)
  PROVE  ReportedInOrder(cl)' /\ Enough(cl)'
<1> DEFINE s == ShardOf(k)
<1>1. s \in Servers /\ Involved(c) = {s} /\ c.keys[1] = k
  BY ShardType DEF Involved
<1> HIDE DEF s
<1>2. wq[cl][s] \in Seq(WorkRequest) /\ \A t \in Servers : wq[cl][t] \in Seq(WorkRequest)
  BY <1>1 DEF TypeOK
<1>3. CASE wq' = [wq EXCEPT ![cl][s] = Append(@, wr)] /\ Await(cl, c)
  <2>1. \A t \in Servers :
          wq'[cl][t] = IF t = s THEN Append(wq[cl][s], wr) ELSE wq[cl][t]
    BY <1>3 DEF TypeOK
  <2>2. Extends(cl)
    <3>1. \A t \in Servers :
            wq'[cl][t] = wq[cl][t] \o (IF t = s THEN <<wr>> ELSE <<>>)
      <4>1. \A q \in Seq(WorkRequest) : Append(q, wr) = q \o <<wr>> /\ q = q \o <<>>
        OBVIOUS
      <4> QED BY <1>2, <2>1, <4>1
    <3>2. <<wr>> \in Seq(WorkRequest) /\ DOMAIN <<wr>> = {1} /\ <<wr>>[1] = wr
      OBVIOUS
    <3>3. <<>> \in Seq(WorkRequest) /\ DOMAIN <<>> = {}
      OBVIOUS
    <3>4. ASSUME NEW t \in Servers
          PROVE  \E x \in Seq(WorkRequest) :
                   wq'[cl][t] = wq[cl][t] \o x /\ \A j \in DOMAIN x : x[j].cqe = "none"
      <4>1. CASE t = s
        <5>1. wq'[cl][t] = wq[cl][t] \o <<wr>> BY <3>1, <4>1
        <5> QED BY <3>2, <5>1
      <4>2. CASE t # s
        <5>1. wq'[cl][t] = wq[cl][t] \o <<>> BY <3>1, <4>2
        <5> QED BY <3>3, <5>1
      <4> QED BY <4>1, <4>2
    <3> QED BY <3>4 DEF Extends
  <2>3. call'[cl] = c /\ completed'[cl] = 0
    BY <1>3 DEF Await, TypeOK
  <2> DEFINE i == Len(wq'[cl][s])
  <2>4. i \in DOMAIN wq'[cl][s] /\ wq'[cl][s][i] = wr
    <3>1. \A q \in Seq(WorkRequest) :
            LET r == Append(q, wr) IN Len(r) \in DOMAIN r /\ r[Len(r)] = wr
      OBVIOUS
    <3>2. wq'[cl][s] = Append(wq[cl][s], wr) BY <1>1, <2>1
    <3> QED BY <1>2, <3>1, <3>2
  <2>5. <<s, i>> \in ToCome(cl)'
    BY <1>1, <2>3, <2>4, ComesNext
  <2>6. Cardinality(ToCome(cl)') \in Nat /\ IsFiniteSet(ToCome(cl)')
    BY ToComePlaces, PlacesCounted
  <2>7. Cardinality(ToCome(cl)') >= 1
    <3>1. Cardinality(ToCome(cl)') # 0 BY <2>5, <2>6, FS_EmptySet
    <3> QED BY <2>6, <3>1
  <2>8. Enough(cl)'
    BY <2>3, <2>6, <2>7 DEF Enough
  <2> QED BY <2>2, <2>8, ExtendsInOrder
<1>4. CASE wq' = wq /\ Return(cl, c, ErrRet)
  BY <1>4, ReturnEnough DEF ReportedInOrder
<1> QED BY <1>1, <1>3, <1>4 DEF Issue, s

LEMMA SingleEnough ==
  ASSUME TypeOK, TypeOK', NEW cl \in Clients, ReportedInOrder(cl), NEW k \in Keys, NEW v,
         Put(cl, k, v) \/ Write(cl, k, v) \/ Send(cl, k, v) \/ Get(cl, k)
  PROVE  ReportedInOrder(cl)' /\ Enough(cl)'
<1>1. ASSUME NEW op, NEW vals, NEW wr \in WorkRequest,
             Issue(cl, [op |-> op, keys |-> <<k>>, vals |-> vals], wr),
             op \in {"Put", "Write", "Send", "Get"},
             wr.id = IF op = "Get" THEN 2 ELSE 1, wr.sig, wr.cqe = "none"
      PROVE  ReportedInOrder(cl)' /\ Enough(cl)'
  <2> DEFINE c == [op |-> op, keys |-> <<k>>, vals |-> vals]
  <2>1. c.keys = <<k>> /\ c.op = op /\ Issue(cl, c, wr) BY <1>1
  <2> HIDE DEF c
  <2>2. Total(c) = 1 BY <1>1, <2>1 DEF Total
  <2>3. Counts(op, wr.id)
    <3>1. CASE op = "Get" BY <1>1, <3>1 DEF Counts
    <3>2. CASE op = "Put" BY <1>1, <3>2 DEF Counts
    <3>3. CASE op \in {"Write", "Send"}
      <4>1. wr.id > 0 BY <1>1, <3>3
      <4> QED BY <3>3, <4>1 DEF Counts
    <3> QED BY <1>1, <3>1, <3>2, <3>3
  <2> QED BY <1>1, <2>1, <2>2, <2>3, IssueEnough
<1>2. /\ 0 \in BufIndex /\ k \in Cells /\ RecvCell \in Cells
      /\ 1 \in Nat /\ 2 \in Nat /\ TRUE \in BOOLEAN
  BY CellsOfKeys, DepthAssumption DEF BufIndex
<1>3. \A op \in {"write", "read", "send"}, a \in Cells, id \in Nat :
        LET wr == Wr(op, 0, a, id, TRUE)
        IN wr \in WorkRequest /\ wr.id = id /\ wr.sig /\ wr.cqe = "none"
  BY <1>2, WrType DEF Wr
<1>4. CASE Put(cl, k, v)
  <2> DEFINE wr == Wr("write", 0, k, 1, TRUE)
  <2>1. Issue(cl, [op |-> "Put", keys |-> <<k>>, vals |-> <<v>>], wr) BY <1>4 DEF Put
  <2>2. wr \in WorkRequest /\ wr.id = 1 /\ wr.sig /\ wr.cqe = "none" BY <1>2, <1>3
  <2> HIDE DEF wr
  <2> QED BY <2>1, <2>2, <1>1
<1>5. CASE Write(cl, k, v)
  <2> DEFINE wr == Wr("write", 0, k, 1, TRUE)
  <2>1. Issue(cl, [op |-> "Write", keys |-> <<k>>, vals |-> <<v>>], wr) BY <1>5 DEF Write
  <2>2. wr \in WorkRequest /\ wr.id = 1 /\ wr.sig /\ wr.cqe = "none" BY <1>2, <1>3
  <2> HIDE DEF wr
  <2> QED BY <2>1, <2>2, <1>1
<1>6. CASE Send(cl, k, v)
  <2> DEFINE wr == Wr("send", 0, RecvCell, 1, TRUE)
  <2>1. Issue(cl, [op |-> "Send", keys |-> <<k>>, vals |-> <<v>>], wr) BY <1>6 DEF Send
  <2>2. wr \in WorkRequest /\ wr.id = 1 /\ wr.sig /\ wr.cqe = "none" BY <1>2, <1>3
  <2> HIDE DEF wr
  <2> QED BY <2>1, <2>2, <1>1
<1>7. CASE Get(cl, k)
  <2> DEFINE wr == Wr("read", 0, k, 2, TRUE)
  <2>1. Issue(cl, [op |-> "Get", keys |-> <<k>>, vals |-> <<>>], wr) BY <1>7 DEF Get
  <2>2. wr \in WorkRequest /\ wr.id = 2 /\ wr.sig /\ wr.cqe = "none" BY <1>2, <1>3
  <2> HIDE DEF wr
  <2> QED BY <2>1, <2>2, <1>1
<1> QED BY <1>4, <1>5, <1>6, <1>7

(* Whatever part of a batch is posted, nothing of it is reported yet.      *)
LEMMA ChainsUnreported ==
  ASSUME NEW ks \in KeySeqs, NEW s \in Servers
  PROVE  /\ \A j \in DOMAIN WriteChain(ks, s) : WriteChain(ks, s)[j].cqe = "none"
         /\ \A n : \A j \in DOMAIN ReadsAt(ks, s, n) : ReadsAt(ks, s, n)[j].cqe = "none"
BY DEF WriteChain, ReadsAt, Wr

LEMMA PutBatchInOrder ==
  ASSUME TypeOK, NEW cl \in Clients, ReportedInOrder(cl), NEW ks \in KeySeqs, NEW vs,
         PutBatch(cl, ks, vs)
  PROVE  ReportedInOrder(cl)'
<1> DEFINE c == [op |-> "PutBatch", keys |-> ks, vals |-> vs]
           chain(t) == WriteChain(ks, t)
           fitting == {t \in Involved(c) : Fits(wq[cl][t], Len(chain(t)))}
<1>1. \A t \in Servers :
        /\ wq[cl][t] \in Seq(WorkRequest) /\ Len(wq[cl][t]) <= SQDepth
        /\ wq[cl][t] = wq[cl][t] \o <<>>
  BY DEF TypeOK
<1>2. Len(ks) <= BufCells => \A t \in Servers :
        chain(t) \in Seq(WorkRequest) /\ \A j \in DOMAIN chain(t) : chain(t)[j].cqe = "none"
  BY WriteChainType, ChainsUnreported
<1>3. <<>> \in Seq(WorkRequest) /\ DOMAIN <<>> = {}
  OBVIOUS
<1>4. CASE wq' = wq
  BY <1>4 DEF ReportedInOrder
<1>5. CASE /\ Len(ks) <= BufCells
           /\ wq' = [wq EXCEPT ![cl] = [t \in Servers |-> @[t] \o chain(t)]]
  <2>1. \A t \in Servers : wq'[cl][t] = wq[cl][t] \o chain(t) BY <1>5 DEF TypeOK
  <2> HIDE DEF chain
  <2>2. Extends(cl) BY <1>2, <1>5, <2>1 DEF Extends
  <2> QED BY <2>2, ExtendsInOrder
<1>6. CASE /\ Len(ks) <= BufCells
           /\ \E f \in Involved(c) \ fitting, before \in SUBSET fitting :
                wq' = [wq EXCEPT ![cl] =
                         [t \in Servers |->
                            IF t \in before THEN @[t] \o chain(t)
                            ELSE IF t = f
                                 THEN @[t] \o SubSeq(chain(t), 1, SQDepth - Len(@[t]))
                                 ELSE @[t]]]
  <2>1. PICK f \in Involved(c) \ fitting, before \in SUBSET fitting :
          wq' = [wq EXCEPT ![cl] =
                   [t \in Servers |->
                      IF t \in before THEN @[t] \o chain(t)
                      ELSE IF t = f
                           THEN @[t] \o SubSeq(chain(t), 1, SQDepth - Len(@[t]))
                           ELSE @[t]]]
    BY <1>6
  <2>2. \A t \in Servers :
          wq'[cl][t] = IF t \in before THEN wq[cl][t] \o chain(t)
                       ELSE IF t = f
                            THEN wq[cl][t] \o SubSeq(chain(t), 1, SQDepth - Len(wq[cl][t]))
                            ELSE wq[cl][t]
    BY <2>1 DEF TypeOK
  <2>3. ~Fits(wq[cl][f], Len(chain(f))) /\ f \in Servers
    BY <2>1, InvolvedType
  <2> HIDE DEF chain, fitting, c
  <2>4. \A r \in Seq(WorkRequest), m \in Nat :
          m <= Len(r) /\ (\A j \in DOMAIN r : r[j].cqe = "none") =>
            /\ SubSeq(r, 1, m) \in Seq(WorkRequest)
            /\ \A j \in DOMAIN SubSeq(r, 1, m) : SubSeq(r, 1, m)[j].cqe = "none"
    OBVIOUS
  <2> DEFINE m == SQDepth - Len(wq[cl][f])
  <2>5. m \in Nat /\ m <= Len(chain(f))
    BY <1>1, <1>2, <1>6, <2>3 DEF Fits
  <2>6. /\ SubSeq(chain(f), 1, m) \in Seq(WorkRequest)
        /\ \A j \in DOMAIN SubSeq(chain(f), 1, m) : SubSeq(chain(f), 1, m)[j].cqe = "none"
    BY <1>2, <1>6, <2>3, <2>4, <2>5
  <2>7. ASSUME NEW t \in Servers
        PROVE  \E x \in Seq(WorkRequest) :
                 wq'[cl][t] = wq[cl][t] \o x /\ \A j \in DOMAIN x : x[j].cqe = "none"
    <3>1. CASE t \in before BY <1>2, <1>6, <2>2, <3>1
    <3>2. CASE t \notin before /\ t = f BY <2>2, <2>6, <3>2
    <3>3. CASE t \notin before /\ t # f
      <4>1. wq'[cl][t] = wq[cl][t] \o <<>> BY <1>1, <2>2, <3>3
      <4> QED BY <1>3, <4>1
    <3> QED BY <3>1, <3>2, <3>3
  <2> QED BY <2>7, ExtendsInOrder DEF Extends
<1> QED BY <1>4, <1>5, <1>6 DEF PutBatch

(* The last WR of the chain to each server involved will be counted.       *)
LEMMA PutBatchEnough ==
  ASSUME TypeOK, TypeOK', NEW cl \in Clients, NEW ks \in KeySeqs, NEW vs,
         PutBatch(cl, ks, vs)
  PROVE  Enough(cl)'
<1> DEFINE c == [op |-> "PutBatch", keys |-> ks, vals |-> vs]
<1>1. c.keys = ks /\ c.op = "PutBatch"
  OBVIOUS
<1>2. \/ Return(cl, c, ErrRet)
      \/ /\ Len(ks) <= BufCells
         /\ wq' = [wq EXCEPT ![cl] = [s \in Servers |-> @[s] \o WriteChain(ks, s)]]
         /\ Await(cl, c)
  BY DEF PutBatch
<1> HIDE DEF c
<1>3. CASE Return(cl, c, ErrRet)
  BY <1>3, ReturnEnough
<1>4. CASE /\ Len(ks) <= BufCells
           /\ wq' = [wq EXCEPT ![cl] = [s \in Servers |-> @[s] \o WriteChain(ks, s)]]
           /\ Await(cl, c)
  <2>1. call'[cl] = c /\ completed'[cl] = 0
    BY <1>4 DEF Await, TypeOK
  <2>2. Involved(c) \subseteq Servers
    BY <1>1, InvolvedType
  <2>3. \A s \in Servers : wq'[cl][s] = wq[cl][s] \o WriteChain(ks, s)
    BY <1>4 DEF TypeOK
  <2>4. ASSUME NEW s \in Involved(c)
        PROVE  <<s, Len(wq'[cl][s])>> \in ToCome(cl)'
    <3> DEFINE q == wq[cl][s]
               ch == WriteChain(ks, s)
               P == IndicesAt(ks, s)
               n == Cardinality(P)
    <3>1. s \in Servers BY <2>2
    <3>2. q \in Seq(WorkRequest) /\ ch \in Seq(WorkRequest) /\ Len(ch) = n
      BY <1>4, <3>1, WriteChainType DEF TypeOK
    <3>3. /\ n \in Nat /\ InOrder(P) \in [1 .. n -> P]
          /\ \A j \in 1 .. n : ch[j].id = InOrder(P)[j] /\ ch[j].sig = (j = n)
      BY <3>1, WriteChainFields
    <3>4. n # 0
      BY <1>1, <3>1, ShareOfInvolved
    <3>5. P \in SUBSET Nat /\ \A i \in P : i > 0
      BY <3>1, KeySeqType DEF IndicesAt
    <3>6. wq'[cl][s] = q \o ch BY <2>3, <3>1
    <3> HIDE DEF q, ch, P, n
    <3>7. n \in 1 .. n BY <3>3, <3>4
    <3>8. ch[n].sig /\ ch[n].id > 0 BY <3>3, <3>5, <3>7
    <3>9. /\ Len(q \o ch) = Len(q) + n /\ (q \o ch)[Len(q) + n] = ch[n]
          /\ Len(q) + n \in DOMAIN (q \o ch)
      <4>1. /\ Len(q \o ch) = Len(q) + Len(ch) /\ Len(q) \in Nat
            /\ DOMAIN (q \o ch) = 1 .. Len(q) + Len(ch)
            /\ \A j \in 1 .. Len(ch) : (q \o ch)[Len(q) + j] = ch[j]
        BY <3>2, Joined
      <4> QED BY <3>2, <3>7, <4>1
    <3> DEFINE i == Len(wq'[cl][s])
    <3>10. i \in DOMAIN wq'[cl][s] /\ wq'[cl][s][i] = ch[n]
      BY <3>6, <3>9
    <3>11. Counts(call'[cl].op, wq'[cl][s][i].id)
      BY <1>1, <2>1, <3>8, <3>10 DEF Counts
    <3> HIDE DEF i
    <3>12. s \in Involved(call'[cl]) /\ wq'[cl][s][i].sig
      BY <2>1, <3>8, <3>10
    <3> QED BY <3>1, <3>10, <3>11, <3>12, ComesNext DEF i
  <2> DEFINE F == [s \in Involved(c) |-> <<s, Len(wq'[cl][s])>>]
  <2>5. F \in [Involved(c) -> ToCome(cl)']
    BY <2>4
  <2>6. \A a, b \in Involved(c) : F[a] = F[b] => a = b
    OBVIOUS
  <2> HIDE DEF F
  <2>7. /\ Cardinality(Involved(c)) \in Nat /\ Cardinality(ToCome(cl)') \in Nat
        /\ Cardinality(Involved(c)) <= Cardinality(ToCome(cl)')
    BY <2>5, <2>6, ToComePlaces, PlacesInjected
  <2>8. Total(c) = Cardinality(Involved(c))
    BY <1>1 DEF Total
  <2> QED BY <2>1, <2>7, <2>8 DEF Enough
<1> QED BY <1>2, <1>3, <1>4

LEMMA GetBatchInOrder ==
  ASSUME TypeOK, NEW cl \in Clients, ReportedInOrder(cl), NEW ks \in KeySeqs,
         GetBatch(cl, ks)
  PROVE  ReportedInOrder(cl)'
<1>1. PICK n \in 0 .. Len(ks) :
        /\ \A i \in 1 .. n : CanRead(cl, ks, i)
        /\ wq' = [wq EXCEPT ![cl] = [t \in Servers |-> @[t] \o ReadsAt(ks, t, n)]]
  BY DEF GetBatch
<1>2. n <= BufCells
  BY <1>1, PostedReadsStaged
<1>3. \A t \in Servers : wq'[cl][t] = wq[cl][t] \o ReadsAt(ks, t, n)
  BY <1>1 DEF TypeOK
<1>4. Extends(cl)
  <2> SUFFICES ASSUME NEW t \in Servers
               PROVE  /\ ReadsAt(ks, t, n) \in Seq(WorkRequest)
                      /\ \A j \in DOMAIN ReadsAt(ks, t, n) : ReadsAt(ks, t, n)[j].cqe = "none"
    BY <1>3 DEF Extends
  <2>1. ReadsAt(ks, t, n) \in Seq(WorkRequest) BY <1>2, ReadsAtType
  <2> QED BY <2>1, ChainsUnreported
<1> QED BY <1>4, ExtendsInOrder

(* Every read of a batch will be counted.                                  *)
LEMMA GetBatchEnough ==
  ASSUME TypeOK, TypeOK', NEW cl \in Clients, NEW ks \in KeySeqs, GetBatch(cl, ks)
  PROVE  Enough(cl)'
<1> DEFINE c == [op |-> "GetBatch", keys |-> ks, vals |-> <<>>]
<1>1. c.keys = ks /\ c.op = "GetBatch"
  OBVIOUS
<1>2. PICK n \in 0 .. Len(ks) :
        /\ \A i \in 1 .. n : CanRead(cl, ks, i)
        /\ wq' = [wq EXCEPT ![cl] = [t \in Servers |-> @[t] \o ReadsAt(ks, t, n)]]
        /\ (n = Len(ks) /\ Await(cl, c)) \/ Return(cl, c, ErrRet)
  BY DEF GetBatch
<1> HIDE DEF c
<1>3. CASE Return(cl, c, ErrRet)
  BY <1>3, ReturnEnough
<1>4. CASE n = Len(ks) /\ Await(cl, c)
  <2>1. call'[cl] = c /\ completed'[cl] = 0
    BY <1>4 DEF Await, TypeOK
  <2>2. Len(ks) <= BufCells
    BY <1>2, <1>4, PostedReadsStaged
  <2> DEFINE items == 1 .. Len(ks)
             shard(i) == ShardOf(ks[i])
             P(s) == IndicesAt(ks, s)
             k(s) == Cardinality(P(s))
             ch(s) == ReadsAt(ks, s, Len(ks))
             pos(i) == CHOOSE a \in 1 .. k(shard(i)) : InOrder(P(shard(i)))[a] = i
             place(i) == Len(wq[cl][shard(i)]) + pos(i)
             F == [i \in items |-> <<shard(i), place(i)>>]
  <2>3. \A s \in Servers :
          /\ wq'[cl][s] = wq[cl][s] \o ch(s)
          /\ wq[cl][s] \in Seq(WorkRequest) /\ ch(s) \in Seq(WorkRequest)
          /\ DOMAIN ch(s) = 1 .. k(s)
          /\ \A i \in P(s) : \E a \in 1 .. k(s) : InOrder(P(s))[a] = i
          /\ \A j \in 1 .. k(s) : ch(s)[j].id = InOrder(P(s))[j] /\ ch(s)[j].sig = TRUE
    <3> TAKE s \in Servers
    <3>1. wq'[cl][s] = wq[cl][s] \o ch(s) /\ wq[cl][s] \in Seq(WorkRequest)
      BY <1>2, <1>4 DEF TypeOK
    <3>2. Len(ks) \in 0 .. Len(ks) BY KeySeqType
    <3>3. ch(s) \in Seq(WorkRequest) BY <2>2, <3>2, ReadsAtType
    <3>4. /\ DOMAIN ch(s) = 1 .. k(s)
          /\ \A i \in P(s) : \E a \in 1 .. k(s) : InOrder(P(s))[a] = i
          /\ \A j \in 1 .. k(s) : ch(s)[j].id = InOrder(P(s))[j] /\ ch(s)[j].sig = TRUE
      BY ReadsAtFields
    <3> QED BY <3>1, <3>3, <3>4
  <2>4. /\ Len(ks) \in Nat /\ \A i \in items : i \in Nat /\ i > 0
        /\ \A i \in items : /\ shard(i) \in Servers /\ shard(i) \in Involved(c)
                            /\ i \in P(shard(i))
    BY <1>1, KeySeqType, Shares DEF Involved
  <2> HIDE DEF ch, P, k, shard
  <2>5. \A i \in items :
          pos(i) \in 1 .. k(shard(i)) /\ InOrder(P(shard(i)))[pos(i)] = i
    BY <2>3, <2>4
  <2> HIDE DEF pos, items
  <2>6. ASSUME NEW i \in items PROVE <<shard(i), place(i)>> \in ToCome(cl)'
    <3> DEFINE s == shard(i)
               q == wq[cl][s]
    <3>1. s \in Servers /\ s \in Involved(c) BY <2>4
    <3>2. q \in Seq(WorkRequest) /\ ch(s) \in Seq(WorkRequest) /\ wq'[cl][s] = q \o ch(s)
      BY <2>3, <3>1
    <3>3. pos(i) \in DOMAIN ch(s) /\ ch(s)[pos(i)].id = i /\ ch(s)[pos(i)].sig
      <4>1. /\ DOMAIN ch(s) = 1 .. k(s)
            /\ \A j \in 1 .. k(s) : ch(s)[j].id = InOrder(P(s))[j] /\ ch(s)[j].sig = TRUE
        BY <2>3, <3>1
      <4>2. pos(i) \in 1 .. k(s) /\ InOrder(P(s))[pos(i)] = i
        BY <2>5
      <4> QED BY <4>1, <4>2
    <3> HIDE DEF q, s
    <3>4. /\ Len(q) + pos(i) \in DOMAIN (q \o ch(s))
          /\ (q \o ch(s))[Len(q) + pos(i)] = ch(s)[pos(i)]
      <4>1. /\ Len(q \o ch(s)) = Len(q) + Len(ch(s)) /\ Len(q) \in Nat /\ Len(ch(s)) \in Nat
            /\ DOMAIN ch(s) = 1 .. Len(ch(s))
            /\ DOMAIN (q \o ch(s)) = 1 .. Len(q) + Len(ch(s))
            /\ \A j \in 1 .. Len(ch(s)) : (q \o ch(s))[Len(q) + j] = ch(s)[j]
        BY <3>2, Joined
      <4> QED BY <3>3, <4>1
    <3>5. place(i) = Len(q) + pos(i) BY DEF q, s
    <3> HIDE DEF place
    <3>6. place(i) \in DOMAIN wq'[cl][s] /\ wq'[cl][s][place(i)] = ch(s)[pos(i)]
      BY <3>2, <3>4, <3>5
    <3>7. Counts(call'[cl].op, wq'[cl][s][place(i)].id)
      BY <1>1, <2>1, <2>4, <3>3, <3>6 DEF Counts
    <3>8. s \in Involved(call'[cl]) /\ wq'[cl][s][place(i)].sig
      BY <2>1, <3>1, <3>3, <3>6
    <3>9. <<s, place(i)>> \in ToCome(cl)'
      BY <3>1, <3>6, <3>7, <3>8, ComesNext
    <3> QED BY <3>9 DEF s
  <2>7. F \in [items -> ToCome(cl)']
    BY <2>6
  <2>8. ASSUME NEW a \in items, NEW b \in items, F[a] = F[b] PROVE a = b
    <3>1. shard(a) = shard(b) /\ place(a) = place(b) BY <2>8
    <3>2. Len(wq[cl][shard(a)]) \in Nat BY <2>3, <2>4
    <3>3. pos(a) \in Int /\ pos(b) \in Int BY <2>5
    <3>4. \A m \in Nat : \A x, y \in Int : m + x = m + y => x = y
      OBVIOUS
    <3>5. Len(wq[cl][shard(a)]) + pos(a) = Len(wq[cl][shard(a)]) + pos(b)
      BY <3>1
    <3>6. pos(a) = pos(b)
      <4> HIDE DEF place
      <4> QED BY <3>2, <3>3, <3>4, <3>5
    <3> QED BY <2>5, <3>1, <3>6
  <2> HIDE DEF F
  <2>9. /\ Cardinality(items) \in Nat /\ Cardinality(ToCome(cl)') \in Nat
        /\ Cardinality(items) <= Cardinality(ToCome(cl)')
    BY <2>7, <2>8, ToComePlaces, PlacesInjected
  <2>10. Cardinality(items) = Len(ks)
    <3>1. 1 \in Int /\ Len(ks) \in Int BY <2>4
    <3>2. Cardinality(1 .. Len(ks)) = IF 1 > Len(ks) THEN 0 ELSE Len(ks) - 1 + 1
      BY <3>1, FS_Interval
    <3> QED BY <2>4, <3>2 DEF items
  <2>11. Total(c) = Len(ks)
    BY <1>1 DEF Total
  <2> QED BY <2>1, <2>9, <2>10, <2>11 DEF Enough
<1> QED BY <1>2, <1>3, <1>4

LEMMA CallEnough ==
  ASSUME TypeOK, TypeOK', NEW cl \in Clients, ReportedInOrder(cl), Call(cl)
  PROVE  ReportedInOrder(cl)' /\ Enough(cl)'
<1>1. ASSUME NEW k \in Keys, NEW v,
             Put(cl, k, v) \/ Write(cl, k, v) \/ Send(cl, k, v) \/ Get(cl, k)
      PROVE  ReportedInOrder(cl)' /\ Enough(cl)'
  BY <1>1, SingleEnough
<1>2. ASSUME NEW ks \in KeySeqs, NEW vs, PutBatch(cl, ks, vs)
      PROVE  ReportedInOrder(cl)' /\ Enough(cl)'
  BY <1>2, PutBatchInOrder, PutBatchEnough
<1>3. ASSUME NEW ks \in KeySeqs, GetBatch(cl, ks)
      PROVE  ReportedInOrder(cl)' /\ Enough(cl)'
  BY <1>3, GetBatchInOrder, GetBatchEnough
<1> QED BY <1>1, <1>2, <1>3 DEF Call

(* What keeps the lengths, ids and flags of the queues keeps what is to    *)
(* come for the call.                                                      *)
LEMMA SameToCome ==
  ASSUME NEW cl \in Clients, call'[cl] = call[cl],
         \A t \in Servers :
           /\ DOMAIN wq'[cl][t] = DOMAIN wq[cl][t]
           /\ \A j \in DOMAIN wq[cl][t] :
                wq'[cl][t][j].id = wq[cl][t][j].id /\ wq'[cl][t][j].sig = wq[cl][t][j].sig
  PROVE  ToCome(cl)' = ToCome(cl)
BY DEF ToCome

LEMMA NicEnough ==
  ASSUME TypeOK, TypeOK', NEW cl \in Clients, ReportedInOrder(cl), Enough(cl),
         NEW s \in Servers, Nic(cl, s) \/ Fault(cl, s) \/ ServerRepost(cl, s)
  PROVE  ReportedInOrder(cl)' /\ Enough(cl)'
<1>1. phase' = phase /\ call' = call /\ completed' = completed
  BY NicMarks DEF callVars
<1>2. ToCome(cl)' = ToCome(cl) => Enough(cl)'
  BY <1>1 DEF Enough
<1>3. CASE wq' = wq
  BY <1>1, <1>2, <1>3 DEF ReportedInOrder, ToCome
<1>4. CASE wq' # wq
  <2>1. PICK i \in DOMAIN wq[cl][s], w \in WorkRequest :
          /\ Rewrites(cl, s, i, w)
          /\ w.id = wq[cl][s][i].id /\ w.sig = wq[cl][s][i].sig
          /\ w.cqe = wq[cl][s][i].cqe \/ Unreported(wq[cl][s], i)
    BY <1>4, NicMarks
  <2>2. ReportedInOrder(cl)'
    BY <2>1, MarkInOrder
  <2>3. \A t \in Servers :
          /\ DOMAIN wq'[cl][t] = DOMAIN wq[cl][t]
          /\ \A j \in DOMAIN wq[cl][t] :
               wq'[cl][t][j].id = wq[cl][t][j].id /\ wq'[cl][t][j].sig = wq[cl][t][j].sig
    BY <2>1, MarkKeeps
  <2>4. ToCome(cl)' = ToCome(cl)
    BY <1>1, <2>3, SameToCome
  <2> QED BY <1>2, <2>2, <2>4
<1> QED BY <1>3, <1>4

(* One turn of the poll loop either returns or counts k completions.       *)
LEMMA AdvanceCounts ==
  ASSUME TypeOK, NEW cl \in Clients, NEW s \in Servers, NEW k \in Nat, Advance(cl, s, k)
  PROVE  \/ phase'[cl] = "idle"
         \/ /\ phase'[cl] = phase[cl] /\ call'[cl] = call[cl]
            /\ completed'[cl] = completed[cl] + k
<1>1. CASE Return(cl, call[cl], [status |-> "ok", reads |-> Results(call[cl], buf[cl])])
  BY <1>1, ReturnIdle
<1>2. CASE /\ completed' = [completed EXCEPT ![cl] = completed[cl] + k]
           /\ UNCHANGED <<phase, call>>
  BY <1>2 DEF TypeOK
<1> QED BY <1>1, <1>2 DEF Advance

LEMMA PollEmptyEnough ==
  ASSUME TypeOK, NEW cl \in Clients, ReportedInOrder(cl), Enough(cl), NEW s \in Servers,
         PollEmpty(cl, s)
  PROVE  ReportedInOrder(cl)' /\ Enough(cl)'
<1>1. wq' = wq /\ Advance(cl, s, 0)
  BY DEF PollEmpty, nicVars
<1>2. \/ phase'[cl] = "idle"
      \/ /\ phase'[cl] = phase[cl] /\ call'[cl] = call[cl]
         /\ completed'[cl] = completed[cl] + 0
  BY <1>1, AdvanceCounts
<1>3. completed[cl] + 0 = completed[cl]
  BY DEF TypeOK
<1>4. call'[cl] = call[cl] => ToCome(cl)' = ToCome(cl)
  BY <1>1 DEF ToCome
<1> QED BY <1>1, <1>2, <1>3, <1>4 DEF ReportedInOrder, Enough

(* Taking a CQE takes away one place of ToCome at most, its own.           *)
LEMMA TakenPlace ==
  ASSUME TypeOK, NEW cl \in Clients, NEW s \in Servers, ReportedInOrder(cl),
         Ready(wq[cl][s]) # {}, call'[cl] = call[cl], TypeOK',
         wq' = [wq EXCEPT ![cl][s] = Reclaim(wq[cl][s], Oldest(wq[cl][s]))],
         NEW k \in {0, 1},
         k = 1 <=> Counts(call[cl].op, wq[cl][s][Oldest(wq[cl][s])].id)
  PROVE  /\ Cardinality(ToCome(cl)) \in Nat /\ Cardinality(ToCome(cl)') \in Nat
         /\ Cardinality(ToCome(cl)') + k >= Cardinality(ToCome(cl))
<1> DEFINE o == Oldest(wq[cl][s])
           D == ToCome(cl) \ {<<s, o>>}
           F == [p \in D |-> <<p[1], p[2] - Freed(cl, s, p[1])>>]
<1>1. /\ o \in Ready(wq[cl][s]) /\ o \in 1 .. Len(wq[cl][s])
      /\ \A j \in 1 .. o - 1 : ~wq[cl][s][j].sig
      /\ \A t \in Servers :
           /\ wq[cl][t] \in Seq(WorkRequest) /\ wq'[cl][t] \in Seq(WorkRequest)
           /\ DOMAIN wq[cl][t] = 1 .. Len(wq[cl][t]) /\ Len(wq[cl][t]) \in Nat
           /\ DOMAIN wq'[cl][t] = 1 .. Len(wq'[cl][t]) /\ Len(wq'[cl][t]) \in Nat
           /\ Freed(cl, s, t) \in Nat
           /\ Len(wq'[cl][t]) = Len(wq[cl][t]) - Freed(cl, s, t)
           /\ \A j \in DOMAIN wq'[cl][t] :
                /\ j + Freed(cl, s, t) \in DOMAIN wq[cl][t]
                /\ wq'[cl][t][j] = wq[cl][t][j + Freed(cl, s, t)]
      /\ ReportedInOrder(cl)'
  BY TakeQueue
<1>2. \A t \in Servers : Freed(cl, s, t) = IF t = s THEN o ELSE 0
  BY DEF Freed
<1>3. ASSUME NEW p \in D
      PROVE  /\ F[p] = <<p[1], p[2] - Freed(cl, s, p[1])>>
             /\ p[1] \in Servers /\ p[2] \in Nat /\ p = <<p[1], p[2]>>
             /\ Freed(cl, s, p[1]) \in Nat
             /\ F[p] \in ToCome(cl)'
  <2> DEFINE t == p[1]
             i == p[2]
             m == i - Freed(cl, s, t)
  <2>1. /\ t \in Servers /\ i \in Nat /\ p = <<t, i>> /\ t \in Involved(call[cl])
        /\ i \in DOMAIN wq[cl][t] /\ wq[cl][t][i].sig
        /\ Counts(call[cl].op, wq[cl][t][i].id)
    BY DEF ToCome
  <2>2. <<t, i>> # <<s, o>> BY <2>1
  <2> HIDE DEF o, t, i
  <2>3. i \in 1 .. Len(wq[cl][t]) BY <1>1, <2>1
  <2>4. i > Freed(cl, s, t)
    <3>1. CASE t = s
      <4>1. i # o BY <2>2, <3>1
      <4>2. o \in Nat BY <1>1
      <4>3. ~(i \in 1 .. o - 1) BY <1>1, <2>1, <3>1
      <4>4. i > o BY <2>1, <2>3, <4>1, <4>2, <4>3
      <4> QED BY <1>2, <2>1, <3>1, <4>4
    <3>2. CASE t # s BY <1>2, <2>1, <2>3, <3>2
    <3> QED BY <3>1, <3>2
  <2>5. Freed(cl, s, t) \in Nat /\ Len(wq'[cl][t]) = Len(wq[cl][t]) - Freed(cl, s, t)
    BY <1>1, <2>1
  <2>6. m \in 1 .. Len(wq'[cl][t]) /\ m + Freed(cl, s, t) = i
    <3>1. \A a, f, n \in Nat :
            a \in 1 .. n /\ a > f => a - f \in 1 .. n - f /\ a - f + f = a
      OBVIOUS
    <3>2. Len(wq[cl][t]) \in Nat BY <1>1, <2>1
    <3>3. /\ i - Freed(cl, s, t) \in 1 .. Len(wq[cl][t]) - Freed(cl, s, t)
          /\ i - Freed(cl, s, t) + Freed(cl, s, t) = i
      BY <2>1, <2>3, <2>4, <2>5, <3>1, <3>2
    <3> QED BY <2>5, <3>3
  <2>7. m \in DOMAIN wq'[cl][t] /\ wq'[cl][t][m] = wq[cl][t][i]
    <3>1. DOMAIN wq'[cl][t] = 1 .. Len(wq'[cl][t]) BY <1>1, <2>1
    <3>2. m \in DOMAIN wq'[cl][t] BY <2>6, <3>1
    <3>3. wq'[cl][t][m] = wq[cl][t][m + Freed(cl, s, t)] BY <1>1, <2>1, <3>2
    <3> QED BY <2>6, <3>2, <3>3
  <2> HIDE DEF m
  <2>8. <<t, m>> \in ToCome(cl)'
    BY <2>1, <2>7, ComesNext
  <2>9. F[p] = <<t, m>> BY DEF m, t, i
  <2> QED BY <2>1, <2>5, <2>8, <2>9 DEF m, t, i
<1>4. F \in [D -> ToCome(cl)']
  BY <1>3
<1>5. ASSUME NEW a \in D, NEW b \in D, F[a] = F[b] PROVE a = b
  <2> HIDE DEF D, F
  <2>1. /\ a[1] = b[1]
        /\ a[2] - Freed(cl, s, a[1]) = b[2] - Freed(cl, s, b[1])
    BY <1>3, <1>5
  <2>2. a[2] = b[2]
    <3>1. \A x, y, f \in Nat : x - f = y - f => x = y OBVIOUS
    <3> QED BY <1>3, <2>1, <3>1
  <2> QED BY <1>3, <2>1, <2>2
<1> HIDE DEF F, D
<1>6. /\ Cardinality(D) \in Nat /\ Cardinality(ToCome(cl)') \in Nat
      /\ Cardinality(D) <= Cardinality(ToCome(cl)')
  BY <1>4, <1>5, ToComePlaces, PlacesInjected
<1>7. IsFiniteSet(ToCome(cl)) /\ Cardinality(ToCome(cl)) \in Nat
  BY ToComePlaces, PlacesCounted
<1>8. CASE <<s, o>> \in ToCome(cl)
  <2>1. Cardinality(D) = Cardinality(ToCome(cl)) - 1
    <3>1. \A P, p : IsFiniteSet(P) /\ p \in P =>
            Cardinality(P \ {p}) = Cardinality(P) - 1
      BY FS_RemoveElement
    <3>2. Cardinality(ToCome(cl) \ {<<s, o>>}) = Cardinality(ToCome(cl)) - 1
      BY ONLY <1>7, <1>8, <3>1
    <3> QED BY <3>2 DEF D
  <2>2. k = 1
    BY <1>8 DEF ToCome
  <2> QED BY <1>6, <1>7, <2>1, <2>2
<1>9. CASE <<s, o>> \notin ToCome(cl)
  <2>1. D = ToCome(cl)
    BY <1>9 DEF D
  <2> QED BY <1>6, <1>7, <2>1
<1> QED BY <1>8, <1>9

LEMMA TotalType ==
  ASSUME NEW c, c.keys \in KeySeqs
  PROVE  Total(c) \in Nat
<1>1. Len(c.keys) \in Nat
  BY KeySeqType
<1>2. Cardinality(Involved(c)) \in Nat
  <2>1. 0 \in Int /\ NumServers - 1 \in Int OBVIOUS
  <2>2. IsFiniteSet(Servers) BY <2>1, FS_Interval DEF Servers
  <2> QED BY <2>2, InvolvedType, FS_Subset, FS_CardinalityType
<1> QED BY <1>1, <1>2 DEF Total

LEMMA PollCqeEnough ==
  ASSUME CallShape, TypeOK, TypeOK', NEW cl \in Clients, ReportedInOrder(cl), Enough(cl),
         NEW s \in Servers, PollCqe(cl, s)
  PROVE  ReportedInOrder(cl)' /\ Enough(cl)'
<1> DEFINE o == Oldest(wq[cl][s])
           k == IF Counts(call[cl].op, wq[cl][s][o].id) THEN 1 ELSE 0
<1>1. /\ phase[cl] = "polling" /\ Ready(wq[cl][s]) # {}
      /\ wq' = [wq EXCEPT ![cl][s] = Reclaim(wq[cl][s], Oldest(wq[cl][s]))]
      /\ Return(cl, call[cl], ErrRet) \/ Advance(cl, s, k)
  BY DEF PollCqe
<1>2. ReportedInOrder(cl)'
  BY <1>1, TakeQueue
<1>3. k \in {0, 1} /\ (k = 1 <=> Counts(call[cl].op, wq[cl][s][Oldest(wq[cl][s])].id))
  OBVIOUS
<1> HIDE DEF k, o
<1>4. CASE phase'[cl] = "idle"
  BY <1>2, <1>4 DEF Enough
<1>5. CASE /\ phase'[cl] = phase[cl] /\ call'[cl] = call[cl]
           /\ completed'[cl] = completed[cl] + k
  <2>1. /\ Cardinality(ToCome(cl)) \in Nat /\ Cardinality(ToCome(cl)') \in Nat
        /\ Cardinality(ToCome(cl)') + k >= Cardinality(ToCome(cl))
    BY <1>1, <1>3, <1>5, TakenPlace
  <2>2. completed[cl] + Cardinality(ToCome(cl)) >= Total(call[cl])
    BY <1>1 DEF Enough
  <2>3. completed[cl] \in Nat /\ Total(call[cl]) \in Nat
    <3>1. completed[cl] \in Nat BY DEF TypeOK
    <3>2. call[cl].keys \in KeySeqs BY <1>1 DEF CallShape
    <3> QED BY <3>1, <3>2, TotalType
  <2>4. \A a, b, x, y, n \in Nat : a + x >= n /\ y + b >= x => a + b + y >= n
    OBVIOUS
  <2>5. k \in Nat BY <1>3
  <2>6. completed[cl] + k + Cardinality(ToCome(cl)') >= Total(call[cl])
    BY <2>1, <2>2, <2>3, <2>4, <2>5
  <2>7. Total(call'[cl]) = Total(call[cl])
    BY <1>5
  <2> QED BY <1>2, <1>5, <2>6, <2>7 DEF Enough
<1> QED BY <1>1, <1>3, <1>4, <1>5, ReturnIdle, AdvanceCounts

AllInOrder == \A cl \in Clients : ReportedInOrder(cl)

LEMMA EnoughStep ==
  ASSUME TypeInv, TypeInv', AllInOrder, EnoughToCome, [Next]_vars
  PROVE  AllInOrder' /\ EnoughToCome'
<1> SUFFICES ASSUME NEW d \in Clients PROVE ReportedInOrder(d)' /\ Enough(d)'
  BY DEF AllInOrder, EnoughToCome, Enough
<1>1. TypeOK /\ TypeOK' /\ CallShape /\ ReportedInOrder(d) /\ Enough(d)
  BY DEF TypeInv, AllInOrder, EnoughToCome, Enough
<1>2. ASSUME wq'[d] = wq[d], phase'[d] = phase[d], call'[d] = call[d],
             completed'[d] = completed[d]
      PROVE  ReportedInOrder(d)' /\ Enough(d)'
  <2>1. ToCome(d)' = ToCome(d) BY <1>2 DEF ToCome
  <2> QED BY <1>1, <1>2, <2>1 DEF ReportedInOrder, Enough
<1>3. ASSUME NEW cl \in Clients, cl # d, Call(cl) \/ Progress(cl)
      PROVE  ReportedInOrder(d)' /\ Enough(d)'
  BY <1>1, <1>2, <1>3, OthersKept
<1>4. CASE Call(d)
  BY <1>1, <1>4, CallEnough
<1>5. CASE Close(d)
  <2>1. phase'[d] = "closed" /\ \A s \in Servers : wq'[d][s] = <<>>
    BY <1>1, <1>5 DEF Close, TypeOK
  <2> QED BY <2>1 DEF ReportedInOrder, Enough
<1>6. ASSUME NEW s \in Servers, Poll(d, s) PROVE ReportedInOrder(d)' /\ Enough(d)'
  BY <1>1, <1>6, PollEmptyEnough, PollCqeEnough DEF Poll
<1>7. ASSUME NEW s \in Servers, Nic(d, s) \/ Fault(d, s) \/ ServerRepost(d, s)
      PROVE  ReportedInOrder(d)' /\ Enough(d)'
  BY <1>1, <1>7, NicEnough
<1>8. CASE UNCHANGED vars
  BY <1>2, <1>8 DEF vars, nicVars, callVars
<1> QED BY <1>3, <1>4, <1>5, <1>6, <1>7, <1>8 DEF Next, Progress

(* Whatever its earlier calls left in its queues and whatever fails, no    *)
(* poll loop of client.go lacks the completions that end it: those that    *)
(* the call has counted and those of its WRs in the queues suffice.  What  *)
(* makes it inductive is that the NIC reports the WRs of a queue in order, *)
(* so the slots a CQE frees hold no other signaled WR.                     *)
THEOREM CompletionsSuffice == Spec => []EnoughToCome
<1>1. Init => AllInOrder /\ EnoughToCome
  BY DEF Init, AllInOrder, ReportedInOrder, EnoughToCome
<1>2. TypeInv /\ TypeInv' /\ AllInOrder /\ EnoughToCome /\ [Next]_vars =>
        AllInOrder' /\ EnoughToCome'
  BY EnoughStep
<1> QED BY <1>1, <1>2, TypeInvariant, PTL DEF Spec
=============================================================================
