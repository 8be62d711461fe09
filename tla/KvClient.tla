------------------------------ MODULE KvClient ------------------------------
(***************************************************************************)
(* The key-value operations of kv_rdma/kv/client.go over the queue pairs   *)
(* of kv_rdma/rdma/rdma.go.  A client stages data in its one registered    *)
(* buffer, posts work requests (WRs) on the queue pair of the server that  *)
(* owns each key and polls the completion queues until the call is over.   *)
(* The network card (NIC) executes and completes posted WRs on its own     *)
(* time; the server's processor only reposts the receive that a Send uses. *)
(*                                                                         *)
(* A connection of a client to a server is the sequence wq[cl][s] of the   *)
(* WRs that still hold a slot of its send queue.  A completion queue entry *)
(* (CQE) is a mark on its WR; taking a CQE frees the slots up to its WR.   *)
(* The WR of an untaken CQE still holds its slot, so a completion queue as *)
(* long as the send queue (both 128, client.go:75, rdma.go:286) loses no   *)
(* CQE, and its length is left out.                                        *)
(***************************************************************************)
EXTENDS Integers, Sequences, FiniteSets

CONSTANTS
  Clients,     \* kv.Client objects, each used by one goroutine
  NumServers,  \* len(c.connections)
  Keys,        \* keys, which are byte offsets in the server's memory
  Tags,        \* what distinguishes two values written to one key
  Ops,         \* the methods of Client the callers use
  MaxBatch,    \* bound: longest batch a caller passes
  SQDepth,     \* max_send_wr of CreateQP
  BufCells,    \* values that fit in localBuf
  Faults       \* whether queue pairs may fail and retransmit

AllOps == {"Put", "PutBatch", "Get", "GetBatch", "Send", "Write"}

ASSUME ServersAssumption == NumServers \in Nat \ {0}
ASSUME KeysAssumption == Keys \subseteq Nat
ASSUME OpsAssumption == Ops \subseteq AllOps
ASSUME DepthAssumption ==
  /\ MaxBatch \in Nat \ {0}
  /\ SQDepth \in Nat \ {0}
  /\ BufCells \in Nat \ {0}
ASSUME FaultsAssumption == Faults \in BOOLEAN

VARIABLES
  mem,        \* mem[s]: the memory server s registered, by offset
  recv,       \* recv[cl][s]: the server's receive for client cl
  wq,         \* wq[cl][s]: WRs that hold a send queue slot, oldest first
  qpErr,      \* qpErr[cl][s]: the queue pair is in the error state
  buf,        \* buf[cl]: localBuf, in cells of one value
  phase,      \* what the client's goroutine is doing
  call,       \* call[cl]: the current call, or the last one
  left,       \* connections the current pass of the poll loop has to poll
  completed,  \* completions the call has counted
  ret,        \* what the last call returned
  abandoned   \* history: some call of cl returned an error and left WRs

nicVars == <<mem, recv, wq, qpErr, buf>>
callVars == <<phase, call, left, completed, ret, abandoned>>
vars == <<nicVars, callVars>>

-----------------------------------------------------------------------------
(* Data.                                                                   *)

Servers == 0 .. (NumServers - 1)

Zero == <<>>
Value == {Zero} \cup (Keys \X Tags)

(* The server posts its receive at offset 0 of the store's own memory.     *)
RecvCell == 0
Cells == Keys \cup {RecvCell}
BufIndex == 0 .. (BufCells - 1)

KeySeqs == UNION {[1 .. n -> Keys] : n \in 1 .. MaxBatch}
ValSeqs == UNION {[1 .. n -> Value] : n \in 0 .. MaxBatch}

NoCall == [op |-> "none", keys |-> <<>>, vals |-> <<>>]
NoRet == [status |-> "none", reads |-> <<>>]
ErrRet == [status |-> "err", reads |-> <<>>]

ShardOf(k) == k % NumServers

WorkRequest ==
  [op : {"write", "read", "send"}, cell : BufIndex, addr : Cells, id : Nat,
   sig : BOOLEAN, done : BOOLEAN, cqe : {"none", "ok", "err"}, val : Value]

Wr(op, cell, addr, id, sig) ==
  [op |-> op, cell |-> cell, addr |-> addr, id |-> id, sig |-> sig,
   done |-> FALSE, cqe |-> "none", val |-> Zero]

-----------------------------------------------------------------------------
(* Queue pairs and completion queues.                                      *)

(* The WRs of queue q whose CQE waits in the completion queue: those that  *)
(* failed, and those that succeeded and were posted signaled.              *)
Ready(q) == {i \in DOMAIN q : q[i].cqe = "err" \/ (q[i].cqe = "ok" /\ q[i].sig)}

Oldest(q) == CHOOSE i \in Ready(q) : \A j \in Ready(q) : i <= j

(* Taking the CQE of WR i frees the slots of WR i and all before it.       *)
Reclaim(q, i) == SubSeq(q, i + 1, Len(q))

(* ibv_post_send fails with ENOMEM when the send queue has no room.        *)
FitsAlways(q, n) == TRUE
Fits(q, n) == Len(q) + n <= SQDepth

(* The elements of the finite set P of numbers, in increasing order.       *)
InOrder(P) ==
  CHOOSE f \in [1 .. Cardinality(P) -> P] :
    /\ \A a, b \in 1 .. Cardinality(P) : a < b => f[a] < f[b]
    /\ \A i \in P : \E a \in 1 .. Cardinality(P) : f[a] = i

-----------------------------------------------------------------------------
(* Calls.                                                                  *)

Involved(c) == {ShardOf(c.keys[i]) : i \in 1 .. Len(c.keys)}

(* The indices of the batch ks that go to server s.                        *)
IndicesAt(ks, s) == {i \in 1 .. Len(ks) : ShardOf(ks[i]) = s}

(* Where item i of a batch is staged: bufOffset grows by one value a time. *)
ItemCellNoAdvance(i) == 0
ItemCell(i) == i - 1

(* In a chain of n writes only the last is signaled.                       *)
SignaledNever(j, n) == FALSE
SignaledFirst(j, n) == j = 1
Signaled(j, n) == j = n

(* The chain of writes PutBatch builds for server s.                       *)
WriteChain(ks, s) ==
  LET P == IndicesAt(ks, s)
      n == Cardinality(P)
  IN [j \in 1 .. n |->
        LET i == InOrder(P)[j]
        IN Wr("write", ItemCell(i), ks[i], i, Signaled(j, n))]

(* The reads GetBatch posts to server s among the first n keys of ks.      *)
ReadsAt(ks, s, n) ==
  LET P == IndicesAt(ks, s) \cap (1 .. n)
  IN [j \in 1 .. Cardinality(P) |->
        LET i == InOrder(P)[j] IN Wr("read", ItemCell(i), ks[i], i, TRUE)]

(* The completions a call waits for: one per server involved for PutBatch, *)
(* one per key for GetBatch, one otherwise.                                *)
TotalOne(c) == 1
TotalPerKey(c) == IF c.op \in {"PutBatch", "GetBatch"} THEN Len(c.keys) ELSE 1
Total(c) ==
  CASE c.op = "PutBatch" -> Cardinality(Involved(c))
    [] c.op = "GetBatch" -> Len(c.keys)
    [] OTHER -> 1

(* Put waits for its own WR id 1, Get for 2; the others take any id > 0.   *)
Counts(op, id) ==
  CASE op = "Put" -> id = 1
    [] op = "Get" -> id = 2
    [] OTHER -> id > 0

(* What the call copies out of localBuf when it returns nil.               *)
Results(c, b) ==
  CASE c.op = "Get" -> <<b[0]>>
    [] c.op = "GetBatch" -> [i \in 1 .. Len(c.keys) |-> b[ItemCell(i)]]
    [] OTHER -> <<>>

(* The call is posted and the goroutine enters its poll loop.              *)
AwaitEverywhere(cl, c) ==
  /\ phase' = [phase EXCEPT ![cl] = "polling"]
  /\ call' = [call EXCEPT ![cl] = c]
  /\ left' = [left EXCEPT ![cl] = Servers]
  /\ completed' = [completed EXCEPT ![cl] = 0]
  /\ ret' = [ret EXCEPT ![cl] = NoRet]
  /\ UNCHANGED abandoned
Await(cl, c) ==
  /\ phase' = [phase EXCEPT ![cl] = "polling"]
  /\ call' = [call EXCEPT ![cl] = c]
  /\ left' = [left EXCEPT ![cl] = Involved(c)]
  /\ completed' = [completed EXCEPT ![cl] = 0]
  /\ ret' = [ret EXCEPT ![cl] = NoRet]
  /\ UNCHANGED abandoned

(* The call c returns r; what it posted and did not poll stays posted.     *)
Return(cl, c, r) ==
  /\ phase' = [phase EXCEPT ![cl] = "idle"]
  /\ call' = [call EXCEPT ![cl] = c]
  /\ left' = [left EXCEPT ![cl] = {}]
  /\ completed' = [completed EXCEPT ![cl] = 0]
  /\ ret' = [ret EXCEPT ![cl] = r]
  /\ abandoned' = [abandoned EXCEPT ![cl] =
                     @ \/ (r = ErrRet /\ \E s \in Servers : wq'[cl][s] # <<>>)]

(* A call of one WR: it is posted and awaited, or the post fails.          *)
Issue(cl, c, wr) ==
  LET s == ShardOf(c.keys[1])
  IN \/ /\ Fits(wq[cl][s], 1)
        /\ wq' = [wq EXCEPT ![cl][s] = Append(@, wr)]
        /\ Await(cl, c)
     \/ /\ ~Fits(wq[cl][s], 1)
        /\ wq' = wq
        /\ Return(cl, c, ErrRet)

Put(cl, k, v) ==
  /\ phase[cl] = "idle"
  /\ buf' = [buf EXCEPT ![cl][0] = v]
  /\ Issue(cl, [op |-> "Put", keys |-> <<k>>, vals |-> <<v>>],
           Wr("write", 0, k, 1, TRUE))
  /\ UNCHANGED <<mem, recv, qpErr>>

Write(cl, k, v) ==
  /\ phase[cl] = "idle"
  /\ buf' = [buf EXCEPT ![cl][0] = v]
  /\ Issue(cl, [op |-> "Write", keys |-> <<k>>, vals |-> <<v>>],
           Wr("write", 0, k, 1, TRUE))
  /\ UNCHANGED <<mem, recv, qpErr>>

(* A Send names no address: the server's receive decides where it lands.   *)
Send(cl, k, v) ==
  /\ phase[cl] = "idle"
  /\ buf' = [buf EXCEPT ![cl][0] = v]
  /\ Issue(cl, [op |-> "Send", keys |-> <<k>>, vals |-> <<v>>],
           Wr("send", 0, RecvCell, 1, TRUE))
  /\ UNCHANGED <<mem, recv, qpErr>>

Get(cl, k) ==
  /\ phase[cl] = "idle"
  /\ Issue(cl, [op |-> "Get", keys |-> <<k>>, vals |-> <<>>],
           Wr("read", 0, k, 2, TRUE))
  /\ UNCHANGED <<mem, recv, qpErr, buf>>

(* PutBatch stages every value first and gives up, with nothing posted,    *)
(* at the first that does not fit in localBuf.  Then it posts one chain    *)
(* per server, in the order of a Go map.  Where a chain does not fit, its  *)
(* first WRs are posted and the call returns; the chains of the servers in *)
(* "before" came earlier in that order.                                    *)
PutBatch(cl, ks, vs) ==
  LET c == [op |-> "PutBatch", keys |-> ks, vals |-> vs]
      chain(s) == WriteChain(ks, s)
      fitting == {s \in Involved(c) : Fits(wq[cl][s], Len(chain(s)))}
  IN /\ phase[cl] = "idle"
     /\ buf' = [buf EXCEPT ![cl] =
                  [b \in BufIndex |-> IF b < Len(ks) THEN vs[b + 1] ELSE @[b]]]
     /\ \/ /\ Len(ks) > BufCells
           /\ wq' = wq
           /\ Return(cl, c, ErrRet)
        \/ /\ Len(ks) <= BufCells
           /\ fitting = Involved(c)
           /\ wq' = [wq EXCEPT ![cl] =
                       [s \in Servers |-> @[s] \o chain(s)]]
           /\ Await(cl, c)
        \/ /\ Len(ks) <= BufCells
           /\ \E f \in Involved(c) \ fitting, before \in SUBSET fitting :
                wq' = [wq EXCEPT ![cl] =
                         [s \in Servers |->
                            IF s \in before THEN @[s] \o chain(s)
                            ELSE IF s = f
                                 THEN @[s] \o SubSeq(chain(s), 1, SQDepth - Len(@[s]))
                                 ELSE @[s]]]
           /\ Return(cl, c, ErrRet)
     /\ UNCHANGED <<mem, recv, qpErr>>

(* Key i of a batch of reads can be posted: it has room in localBuf and,   *)
(* after the keys before it, in the send queue of its server.              *)
CanRead(cl, ks, i) ==
  /\ i <= BufCells
  /\ LET s == ShardOf(ks[i])
     IN Fits(wq[cl][s], Cardinality(IndicesAt(ks, s) \cap (1 .. i)))

(* GetBatch posts its reads one by one, n of them before one fails.        *)
GetBatch(cl, ks) ==
  LET c == [op |-> "GetBatch", keys |-> ks, vals |-> <<>>]
  IN /\ phase[cl] = "idle"
     /\ \E n \in 0 .. Len(ks) :
          /\ \A i \in 1 .. n : CanRead(cl, ks, i)
          /\ wq' = [wq EXCEPT ![cl] =
                      [s \in Servers |-> @[s] \o ReadsAt(ks, s, n)]]
          /\ \/ n = Len(ks) /\ Await(cl, c)
             \/ n < Len(ks) /\ ~CanRead(cl, ks, n + 1) /\ Return(cl, c, ErrRet)
     /\ UNCHANGED <<mem, recv, qpErr, buf>>

(* One PollCQ of the loop, on the connection to s, that counted k CQEs     *)
(* (0 or 1).  GetBatch drains a completion queue before it goes on to the  *)
(* next.  At the end of a pass over the connections the call returns or    *)
(* starts another pass.                                                    *)
Advance(cl, s, k) ==
  LET c == call[cl]
      rest == IF c.op = "GetBatch" /\ k = 1 THEN left[cl] ELSE left[cl] \ {s}
      n == completed[cl] + k
  IN \/ /\ rest = {}
        /\ n >= Total(c)
        /\ Return(cl, c, [status |-> "ok", reads |-> Results(c, buf[cl])])
     \/ /\ rest # {} \/ n < Total(c)
        /\ left' = [left EXCEPT ![cl] = IF rest = {} THEN Involved(c) ELSE rest]
        /\ completed' = [completed EXCEPT ![cl] = n]
        /\ UNCHANGED <<phase, call, ret, abandoned>>

PollEmpty(cl, s) ==
  /\ phase[cl] = "polling" /\ s \in left[cl]
  /\ Ready(wq[cl][s]) = {}
  /\ Advance(cl, s, 0)
  /\ UNCHANGED nicVars

PollCqe(cl, s) ==
  LET q == wq[cl][s]
      i == Oldest(q)
  IN /\ phase[cl] = "polling" /\ s \in left[cl]
     /\ Ready(q) # {}
     /\ wq' = [wq EXCEPT ![cl][s] = Reclaim(q, i)]
     /\ \/ /\ q[i].cqe = "err"
           /\ Return(cl, call[cl], ErrRet)
        \/ /\ q[i].cqe = "ok"
           /\ Advance(cl, s, IF Counts(call[cl].op, q[i].id) THEN 1 ELSE 0)
     /\ UNCHANGED <<mem, recv, qpErr, buf>>

(* Close destroys the queue pairs and their completion queues.             *)
Close(cl) ==
  /\ phase[cl] = "idle"
  /\ phase' = [phase EXCEPT ![cl] = "closed"]
  /\ wq' = [wq EXCEPT ![cl] = [s \in Servers |-> <<>>]]
  /\ UNCHANGED <<mem, recv, qpErr, buf, call, left, completed, ret, abandoned>>

-----------------------------------------------------------------------------
(* The reliable connection and the server's side.                          *)

(* WR i is the next of its queue to take effect.  With max_rd_atomic = 1 a *)
(* read waits until the reads before it have completed.                    *)
Executable(q, i) ==
  /\ ~q[i].done /\ q[i].cqe = "none"
  /\ \A j \in 1 .. i - 1 :
       q[j].done /\ (q[i].op = "read" /\ q[j].op = "read" => q[j].cqe = "ok")

NicWrite(cl, s) ==
  \E i \in DOMAIN wq[cl][s] :
    LET w == wq[cl][s][i]
    IN /\ Executable(wq[cl][s], i) /\ ~qpErr[cl][s] /\ w.op = "write"
       /\ mem' = [mem EXCEPT ![s][w.addr] = buf[cl][w.cell]]
       /\ wq' = [wq EXCEPT ![cl][s][i].done = TRUE]
       /\ UNCHANGED <<recv, qpErr, buf, callVars>>

NicRead(cl, s) ==
  \E i \in DOMAIN wq[cl][s] :
    LET w == wq[cl][s][i]
    IN /\ Executable(wq[cl][s], i) /\ ~qpErr[cl][s] /\ w.op = "read"
       /\ wq' = [wq EXCEPT ![cl][s][i] = [w EXCEPT !.done = TRUE, !.val = mem[s][w.addr]]]
       /\ UNCHANGED <<mem, recv, qpErr, buf, callVars>>

(* A Send waits for a posted receive: rnr_retry = 7 retries without end.   *)
NicSend(cl, s) ==
  \E i \in DOMAIN wq[cl][s] :
    LET w == wq[cl][s][i]
    IN /\ Executable(wq[cl][s], i) /\ ~qpErr[cl][s] /\ w.op = "send"
       /\ recv[cl][s] = "posted"
       /\ mem' = [mem EXCEPT ![s][w.addr] = buf[cl][w.cell]]
       /\ recv' = [recv EXCEPT ![cl][s] = "filled"]
       /\ wq' = [wq EXCEPT ![cl][s][i].done = TRUE]
       /\ UNCHANGED <<qpErr, buf, callVars>>

(* The response to a read was lost: the retransmitted request reads again. *)
NicRetryRead(cl, s) ==
  \E i \in DOMAIN wq[cl][s] :
    LET w == wq[cl][s][i]
    IN /\ Faults /\ ~qpErr[cl][s]
       /\ w.op = "read" /\ w.done /\ w.cqe = "none"
       /\ wq' = [wq EXCEPT ![cl][s][i].val = mem[s][w.addr]]
       /\ UNCHANGED <<mem, recv, qpErr, buf, callVars>>

(* WR i is the oldest whose outcome the NIC has not reported.              *)
Unreported(q, i) == q[i].cqe = "none" /\ \A j \in 1 .. i - 1 : q[j].cqe # "none"

(* The acknowledgement arrives; a read's data has landed in localBuf.      *)
NicComplete(cl, s) ==
  \E i \in DOMAIN wq[cl][s] :
    LET w == wq[cl][s][i]
    IN /\ Unreported(wq[cl][s], i) /\ ~qpErr[cl][s] /\ w.done
       /\ wq' = [wq EXCEPT ![cl][s][i].cqe = "ok"]
       /\ buf' = IF w.op = "read" THEN [buf EXCEPT ![cl][w.cell] = w.val] ELSE buf
       /\ UNCHANGED <<mem, recv, qpErr, callVars>>

(* The retries are exhausted: the oldest WR fails, whether or not it took  *)
(* effect, and the queue pair stays in the error state.                    *)
NicFail(cl, s) ==
  \E i \in DOMAIN wq[cl][s] :
    /\ Faults /\ ~qpErr[cl][s] /\ Unreported(wq[cl][s], i)
    /\ wq' = [wq EXCEPT ![cl][s][i].cqe = "err"]
    /\ qpErr' = [qpErr EXCEPT ![cl][s] = TRUE]
    /\ UNCHANGED <<mem, recv, buf, callVars>>

(* In the error state the WRs left, and new ones, complete with an error.  *)
NicFlush(cl, s) ==
  \E i \in DOMAIN wq[cl][s] :
    /\ qpErr[cl][s] /\ Unreported(wq[cl][s], i)
    /\ wq' = [wq EXCEPT ![cl][s][i].cqe = "err"]
    /\ UNCHANGED <<mem, recv, qpErr, buf, callVars>>

(* handleConnection polls the receive's CQE and posts it again.            *)
ServerRepost(cl, s) ==
  /\ recv[cl][s] = "filled"
  /\ recv' = [recv EXCEPT ![cl][s] = "posted"]
  /\ UNCHANGED <<mem, wq, qpErr, buf, callVars>>

(* A failing PollCQ or PostRecv ends handleConnection; the queue pair, and *)
(* the memory behind it, live on.                                          *)
ServerHandlerReturns(cl, s) ==
  /\ Faults
  /\ recv[cl][s] = "filled"
  /\ recv' = [recv EXCEPT ![cl][s] = "gone"]
  /\ UNCHANGED <<mem, wq, qpErr, buf, callVars>>

-----------------------------------------------------------------------------
Init ==
  /\ mem = [s \in Servers |-> [a \in Cells |-> Zero]]
  /\ recv = [cl \in Clients |-> [s \in Servers |-> "posted"]]
  /\ wq = [cl \in Clients |-> [s \in Servers |-> <<>>]]
  /\ qpErr = [cl \in Clients |-> [s \in Servers |-> FALSE]]
  /\ buf = [cl \in Clients |-> [b \in BufIndex |-> Zero]]
  /\ phase = [cl \in Clients |-> "idle"]
  /\ call = [cl \in Clients |-> NoCall]
  /\ left = [cl \in Clients |-> {}]
  /\ completed = [cl \in Clients |-> 0]
  /\ ret = [cl \in Clients |-> NoRet]
  /\ abandoned = [cl \in Clients |-> FALSE]

(* The values a caller may write to the keys of a batch.                   *)
ValuesFor(ks) == {[i \in 1 .. Len(ks) |-> <<ks[i], t[i]>>] : t \in [1 .. Len(ks) -> Tags]}

Call(cl) ==
  \/ \E k \in Keys, t \in Tags :
       \/ "Put" \in Ops /\ Put(cl, k, <<k, t>>)
       \/ "Write" \in Ops /\ Write(cl, k, <<k, t>>)
       \/ "Send" \in Ops /\ Send(cl, k, <<k, t>>)
  \/ "Get" \in Ops /\ \E k \in Keys : Get(cl, k)
  \/ "PutBatch" \in Ops
       /\ \E ks \in KeySeqs : \E vs \in ValuesFor(ks) : PutBatch(cl, ks, vs)
  \/ "GetBatch" \in Ops /\ \E ks \in KeySeqs : GetBatch(cl, ks)

Poll(cl, s) == PollEmpty(cl, s) \/ PollCqe(cl, s)

Nic(cl, s) ==
  \/ NicWrite(cl, s) \/ NicRead(cl, s) \/ NicSend(cl, s)
  \/ NicComplete(cl, s) \/ NicFlush(cl, s)

Fault(cl, s) ==
  \/ NicRetryRead(cl, s) \/ NicFail(cl, s) \/ ServerHandlerReturns(cl, s)

(* Everything but the start of a call.                                     *)
Progress(cl) ==
  \/ Close(cl)
  \/ \E s \in Servers :
       Poll(cl, s) \/ Nic(cl, s) \/ Fault(cl, s) \/ ServerRepost(cl, s)

Next == \E cl \in Clients : Call(cl) \/ Progress(cl)

Spec == Init /\ [][Next]_vars

(* The poll loop is a busy loop that visits every connection; the NIC and  *)
(* the reliable protocol keep working; the handler polls in a busy loop.   *)
FairSpec ==
  /\ Spec
  /\ \A cl \in Clients, s \in Servers :
       /\ WF_vars(Poll(cl, s))
       /\ WF_vars(Nic(cl, s))
       /\ WF_vars(ServerRepost(cl, s))

-----------------------------------------------------------------------------
(* Properties.                                                             *)

CallRecords ==
  [op : AllOps \cup {"none"}, keys : KeySeqs \cup {<<>>}, vals : ValSeqs]

RetRecords ==
  [status : {"none", "err"}, reads : {<<>>}] \cup [status : {"ok"}, reads : ValSeqs]

(* Every variable stays in its range; in particular no queue pair ever     *)
(* holds more WRs than the send queue of CreateQP has slots.               *)
TypeOK ==
  /\ mem \in [Servers -> [Cells -> Value]]
  /\ recv \in [Clients -> [Servers -> {"posted", "filled", "gone"}]]
  /\ wq \in [Clients -> [Servers -> Seq(WorkRequest)]]
  /\ \A cl \in Clients, s \in Servers : Len(wq[cl][s]) <= SQDepth
  /\ qpErr \in [Clients -> [Servers -> BOOLEAN]]
  /\ buf \in [Clients -> [BufIndex -> Value]]
  /\ phase \in [Clients -> {"idle", "polling", "closed"}]
  /\ call \in [Clients -> CallRecords]
  /\ left \in [Clients -> SUBSET Servers]
  /\ completed \in [Clients -> Nat]
  /\ ret \in [Clients -> RetRecords]
  /\ abandoned \in [Clients -> BOOLEAN]

EveryoneClean == \A cl \in Clients : ~abandoned[cl]
OneSided == "Send" \notin Ops

(* While no call was abandoned and nobody uses Send, every offset of a     *)
(* server holds zeroes or a value written for that key, and only on the    *)
(* server that owns the key: a WR never carries the bytes of another call  *)
(* or another item of its batch out of the shared localBuf.                *)
KeyIntegrity ==
  EveryoneClean /\ OneSided =>
    \A s \in Servers, a \in Cells :
      mem[s][a] # Zero => s = ShardOf(a) /\ mem[s][a] \in {a} \X Tags

OkRead(cl) == ret[cl].status = "ok" /\ call[cl].op \in {"Get", "GetBatch"}
OkWrite(cl) == ret[cl].status = "ok" /\ call[cl].op \in {"Put", "Write", "PutBatch"}

(* Under the same conditions a read that returns nil returns, for each     *)
(* key, zeroes or a value written for that key: localBuf is copied only    *)
(* after every read of the call has landed in its own cell.                *)
ReadIntegrity ==
  EveryoneClean /\ OneSided =>
    \A cl \in Clients : OkRead(cl) =>
      /\ Len(ret[cl].reads) = Len(call[cl].keys)
      /\ \A i \in 1 .. Len(call[cl].keys) :
           ret[cl].reads[i] \in {Zero} \cup ({call[cl].keys[i]} \X Tags)

OthersSilent(cl) == \A other \in Clients \ {cl} : call[other] = NoCall

LastOfKey(ks, i) == \A j \in i + 1 .. Len(ks) : ks[j] # ks[i]

(* A write that returned nil is in the server's memory, the last of each   *)
(* key of a batch, on every server of the batch and not only on the one    *)
(* whose completion ended the poll loop.                                   *)
PutLanded ==
  OneSided => \A cl \in Clients :
    OkWrite(cl) /\ ~abandoned[cl] /\ OthersSilent(cl) =>
      \A i \in 1 .. Len(call[cl].keys) :
        LET k == call[cl].keys[i]
        IN LastOfKey(call[cl].keys, i) => mem[ShardOf(k)][k] = call[cl].vals[i]

(* A read that returned nil returned what the servers hold.                *)
GetCurrent ==
  OneSided => \A cl \in Clients :
    OkRead(cl) /\ ~abandoned[cl] /\ OthersSilent(cl) =>
      \A i \in 1 .. Len(call[cl].keys) :
        LET k == call[cl].keys[i] IN ret[cl].reads[i] = mem[ShardOf(k)][k]

(* No slot of the send queue is free and no call is polling for one: some  *)
(* call filled it and returned an error.                                   *)
Wedged(cl, s) ==
  /\ Len(wq[cl][s]) = SQDepth
  /\ phase[cl] = "idle" \/ (phase[cl] = "polling" /\ s \notin Involved(call[cl]))

(* Such a connection is lost until the client is closed: a call that needs *)
(* it fails at its post, before it polls, and only polling frees slots.    *)
WedgedForever ==
  [][\A cl \in Clients, s \in Servers :
       Wedged(cl, s) => Wedged(cl, s)' \/ phase'[cl] = "closed"]_vars

(* A SEND in the queue that no receive will ever take; nothing after it is *)
(* executed unless the connection fails, which flushes it.                 *)
SendIsStuck(cl, s) ==
  /\ recv[cl][s] = "gone" /\ ~qpErr[cl][s]
  /\ \E i \in DOMAIN wq[cl][s] : wq[cl][s][i].op = "send" /\ ~wq[cl][s][i].done

(* Every call of a client returns, whatever earlier calls left behind and  *)
(* whatever fails, unless a SEND is stuck in the queue of one of its       *)
(* servers: its own, or one whose call has returned on the completion of   *)
(* an abandoned WR (client.go:394-404).                                    *)
MustReturn(cl) ==
  phase[cl] = "polling" /\ \A s \in Involved(call[cl]) : ~SendIsStuck(cl, s)
EveryCallReturns == \A cl \in Clients : MustReturn(cl) ~> ~MustReturn(cl)

(* The WRs of cl whose completions the poll loop of its call will count.   *)
ToCome(cl) ==
  {p \in Servers \X (1 .. SQDepth) :
     LET q == wq[cl][p[1]]
         i == p[2]
     IN /\ p[1] \in Involved(call[cl]) /\ i \in DOMAIN q
        /\ q[i].sig /\ Counts(call[cl].op, q[i].id)}

(* No poll loop (client.go:192, 251, 300, 338) waits for a completion that *)
(* was never asked for or that an earlier call has taken: what the call    *)
(* has counted and what it will count suffice to end it, with whatever     *)
(* abandoned calls of the client have left in the queues, where one CQE    *)
(* frees the WRs before it and the CQEs of strangers are thrown away.      *)
EnoughToCome ==
  \A cl \in Clients :
    phase[cl] = "polling" =>
      completed[cl] + Cardinality(ToCome(cl)) >= Total(call[cl])

(* What client.go:281 says of Get and GetBatch, "reads data from the       *)
(* server", said of every call that returns nil.                           *)
GetReadsFromServer ==
  \A cl \in Clients : OkRead(cl) =>
    \A i \in 1 .. Len(call[cl].keys) :
      ret[cl].reads[i] \in {Zero} \cup ({call[cl].keys[i]} \X Tags)

(* What client.go:246-247 expects of PutBatch: after one completion per    *)
(* server involved its writes are complete, so none is left to execute.    *)
PutBatchWaitsForItsWrites ==
  \A cl \in Clients :
    ret[cl].status = "ok" /\ call[cl].op = "PutBatch" =>
      \A s \in Servers : \A i \in DOMAIN wq[cl][s] :
        wq[cl][s][i].op = "write" => wq[cl][s][i].done

(* What server.go:35 says of the registered memory, "memory for KV store": *)
(* an offset holds zeroes or a value stored under that key.                *)
MemoryIsTheStore ==
  \A s \in Servers, k \in Keys : mem[s][k] \in {Zero} \cup ({k} \X Tags)
=============================================================================
