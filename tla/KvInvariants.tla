---------------------------- MODULE KvInvariants ----------------------------
(* What is true of KvClient between any two steps and makes its properties *)
(* inductive: the shape of a call that is polling and the books the        *)
(* completions of a client balance until one of its calls is abandoned.    *)
EXTENDS KvClient

(* A call that polls has keys, and a batch of reads fits in localBuf.      *)
CallShape ==
  \A cl \in Clients : phase[cl] = "polling" =>
    /\ call[cl].keys \in KeySeqs
    /\ call[cl].op \in AllOps
    /\ call[cl].op = "GetBatch" => Len(call[cl].keys) <= BufCells

(* Only the connections of the call are polled.                            *)
LeftInvolved ==
  \A cl \in Clients : phase[cl] = "polling" => left[cl] \subseteq Involved(call[cl])

(* The ids the calls use.                                                  *)
Ids == 1 .. (MaxBatch + 1)

(* The ids of the signaled WRs of client cl whose CQE was not taken.       *)
Pending(cl) ==
  {id \in Ids : \E s \in Servers : \E i \in DOMAIN wq[cl][s] :
                  wq[cl][s][i].sig /\ wq[cl][s][i].id = id}

(* The poll loop counts the completion of any WR the client has posted.    *)
AllCount(cl) ==
  \A s \in Servers : \A i \in DOMAIN wq[cl][s] :
    wq[cl][s][i].id \in Ids /\ Counts(call[cl].op, wq[cl][s][i].id)

(* No two WRs of the client have one id.                                   *)
IdsDiffer(cl) ==
  \A s, t \in Servers : \A i \in DOMAIN wq[cl][s], j \in DOMAIN wq[cl][t] :
    wq[cl][s][i].id = wq[cl][t][j].id => s = t /\ i = j

(* The newest WR of a queue is signaled, so its CQE frees the whole queue. *)
TailSignaled(cl) ==
  \A s \in Servers : wq[cl][s] # <<>> => wq[cl][s][Len(wq[cl][s])].sig

(* The NIC reports the WRs of a queue in the order they were posted.       *)
ReportedInOrder(cl) ==
  \A s \in Servers : \A i \in DOMAIN wq[cl][s] : \A j \in 1 .. i - 1 :
    wq[cl][s][i].cqe # "none" => wq[cl][s][j].cqe # "none"

EmptyQueues(cl) == \A s \in Servers : wq[cl][s] = <<>>

(* The completions the poll loop counted and those still to come add up to *)
(* the number that ends it.                                                *)
Balanced(cl) ==
  /\ AllCount(cl) /\ IdsDiffer(cl) /\ TailSignaled(cl) /\ ReportedInOrder(cl)
  /\ completed[cl] + Cardinality(Pending(cl)) = Total(call[cl])

ClientLedger(cl) ==
  ~abandoned[cl] =>
    /\ phase[cl] = "idle" => EmptyQueues(cl)
    /\ phase[cl] = "polling" => Balanced(cl)

(* Until a call of a client is abandoned its queues are empty between      *)
(* calls, and in the poll loops (client.go:251-277, 338-361) every WR is   *)
(* accounted for: no loop ends early on a completion it should not have    *)
(* counted, none waits for one that will not come.                         *)
Ledger == \A cl \in Clients : ClientLedger(cl)

-----------------------------------------------------------------------------
(* What a WR of a client that abandoned no call carries.                   *)

Reads(c) == c.op \in {"Get", "GetBatch"}
Busy(cl) == phase[cl] = "polling" /\ ~abandoned[cl]

(* The item of the current call that WR w carries out.                     *)
ItemOf(w) == w.cell + 1

(* A WR carries out an item of the call, on the server that owns its key.  *)
Carries(cl) ==
  \A s \in Servers : \A j \in DOMAIN wq[cl][s] :
    LET w == wq[cl][s][j]
    IN /\ ItemOf(w) \in 1 .. Len(call[cl].keys)
       /\ w.addr = call[cl].keys[ItemOf(w)] /\ s = ShardOf(w.addr)
       /\ w.op = IF Reads(call[cl]) THEN "read" ELSE "write"
       /\ w.cqe = "ok" => w.done

(* A queue holds its items in the order of the batch.                      *)
Sorted(cl) ==
  \A s \in Servers : \A i, j \in DOMAIN wq[cl][s] :
    i < j => wq[cl][s][i].cell < wq[cl][s][j].cell

(* localBuf has a cell for each item; a write's value stays in its cell.   *)
Staged(cl) ==
  LET c == call[cl]
  IN /\ c.op # "Send"
     /\ Len(c.keys) <= BufCells
     /\ c.op = "Get" => Len(c.keys) = 1
     /\ ~Reads(c) =>
          /\ Len(c.vals) = Len(c.keys)
          /\ \A i \in 1 .. Len(c.keys) :
               c.vals[i] \in {c.keys[i]} \X Tags /\ buf[cl][ItemCell(i)] = c.vals[i]

(* While a client that abandoned no call polls (client.go:228-277,         *)
(* 311-361), the shared localBuf and the queues hold the items of its call *)
(* and nothing else.                                                       *)
ItemsInFlight ==
  OneSided => \A cl \in Clients : Busy(cl) => Carries(cl) /\ Sorted(cl) /\ Staged(cl)

(* A client that has closed, or has never called, has nothing outstanding  *)
(* and nothing to return; a polling call has returned nothing.             *)
Settled ==
  \A cl \in Clients :
    /\ phase[cl] = "closed" => EmptyQueues(cl)
    /\ phase[cl] = "polling" => ret[cl] = NoRet
    /\ call[cl] = NoCall => phase[cl] # "polling" /\ ~abandoned[cl] /\ ret[cl] = NoRet

(* The outstanding WRs of cl, and those that carry out item i.             *)
Outstanding(cl) == UNION {{wq[cl][s][j] : j \in DOMAIN wq[cl][s]} : s \in Servers}
Carrying(cl, i) == {w \in Outstanding(cl) : ItemOf(w) = i}

(* The items whose WR has not been executed.                               *)
Todo(cl) == {ItemOf(w) : w \in {x \in Outstanding(cl) : ~x.done}}

(* The value item i of a read has so far: in its WR until it has landed.   *)
Seen(cl, i) ==
  LET flying == {w \in Carrying(cl, i) : w.done /\ w.cqe # "ok"}
  IN IF ~Reads(call[cl]) \/ i \in Todo(cl) THEN Zero
     ELSE IF flying # {} THEN (CHOOSE w \in flying : TRUE).val
     ELSE buf[cl][ItemCell(i)]

(* What an offset may hold: zeroes or a value written for it.              *)
Proper(k) == {Zero} \cup ({k} \X Tags)

(* KeyIntegrity and ReadIntegrity are inductive together with what the     *)
(* reads under way have seen so far.                                       *)
ReadsProper ==
  OneSided /\ EveryoneClean =>
    \A cl \in Clients : Busy(cl) /\ Reads(call[cl]) =>
      \A i \in 1 .. Len(call[cl].keys) : Seen(cl, i) \in Proper(call[cl].keys[i])

(* Items of one key of a batch of writes take effect in their order.       *)
WritesInOrder ==
  OneSided => \A cl \in Clients :
    Busy(cl) /\ ~Reads(call[cl]) =>
      \A i \in Todo(cl), j \in 1 .. Len(call[cl].keys) :
        i < j /\ call[cl].keys[i] = call[cl].keys[j] => j \in Todo(cl)

(* While the other clients are silent each item that has taken effect      *)
(* agrees with the memory, unless the batch writes its key again later.    *)
EffectsStand ==
  OneSided => \A cl \in Clients :
    Busy(cl) /\ OthersSilent(cl) =>
      \A i \in (1 .. Len(call[cl].keys)) \ Todo(cl) :
        LET k == call[cl].keys[i]
            here == mem[ShardOf(k)][k]
        IN IF Reads(call[cl]) THEN Seen(cl, i) = here
           ELSE LastOfKey(call[cl].keys, i) => here = call[cl].vals[i]
=============================================================================
