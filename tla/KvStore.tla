------------------------------ MODULE KvStore -------------------------------
(***************************************************************************)
(* What the store promises its callers, whatever carries it out: a call    *)
(* takes effect key by key, each key atomically, at some time between its  *)
(* beginning and its return; a batch is not one atomic step, but items of  *)
(* one key keep their order.  A read may look again until it returns.      *)
(* A call that returns nil took effect on every key; one that returns an   *)
(* error took effect on some.  A client whose failed call is still running *)
(* in the network is broken: it promises nothing any more, and it may      *)
(* change the store.  Connections, queues and buffers do not appear here.  *)
(***************************************************************************)
EXTENDS Integers, Sequences

CONSTANTS Clients, Keys, Value, Zero

VARIABLES
  store,   \* store[k]: the value of key k
  phase,   \* "idle", "busy", "closed" or "broken"
  op,      \* the current call: whether it reads, its keys and values
  todo,    \* the items of the call yet to take effect
  got,     \* got[cl][i]: what item i of a read has seen
  ret      \* what the last call returned

vars == <<store, phase, op, todo, got, ret>>

NoOp == [reads |-> FALSE, keys |-> <<>>, vals |-> <<>>]
NoRet == [status |-> "none", reads |-> <<>>]
ErrRet == [status |-> "err", reads |-> <<>>]

Init ==
  /\ store = [k \in Keys |-> Zero]
  /\ phase = [cl \in Clients |-> "idle"]
  /\ op = [cl \in Clients |-> NoOp]
  /\ todo = [cl \in Clients |-> {}]
  /\ got = [cl \in Clients |-> <<>>]
  /\ ret = [cl \in Clients |-> NoRet]

Quiet(cl, p, r) ==
  /\ phase' = [phase EXCEPT ![cl] = p]
  /\ op' = [op EXCEPT ![cl] = NoOp]
  /\ todo' = [todo EXCEPT ![cl] = {}]
  /\ got' = [got EXCEPT ![cl] = <<>>]
  /\ ret' = [ret EXCEPT ![cl] = r]

(* Some call c begins; op' tells which.                                    *)
Begin(cl) ==
  LET c == op'[cl]
  IN /\ phase[cl] = "idle"
     /\ phase' = [phase EXCEPT ![cl] = "busy"]
     /\ c.keys \in Seq(Keys) \ {<<>>}
     /\ c.vals \in Seq(Value)
     /\ c.reads \/ Len(c.vals) = Len(c.keys)
     /\ op' = [op EXCEPT ![cl] = c]
     /\ todo' = [todo EXCEPT ![cl] = 1 .. Len(c.keys)]
     /\ got' = [got EXCEPT ![cl] = [i \in 1 .. Len(c.keys) |-> Zero]]
     /\ ret' = [ret EXCEPT ![cl] = NoRet]
     /\ UNCHANGED store

(* Item i is the first of its key that has not taken effect.               *)
FirstOfKey(cl, i) ==
  \A j \in todo[cl] : j < i => op[cl].keys[j] # op[cl].keys[i]

WriteEffect(cl, i) ==
  /\ phase[cl] = "busy" /\ ~op[cl].reads /\ i \in todo[cl] /\ FirstOfKey(cl, i)
  /\ store' = [store EXCEPT ![op[cl].keys[i]] = op[cl].vals[i]]
  /\ todo' = [todo EXCEPT ![cl] = @ \ {i}]
  /\ UNCHANGED <<phase, op, got, ret>>

(* i is any item of the call: a read may look again.                       *)
ReadEffect(cl, i) ==
  /\ phase[cl] = "busy" /\ op[cl].reads /\ i \in 1 .. Len(op[cl].keys)
  /\ got' = [got EXCEPT ![cl][i] = store[op[cl].keys[i]]]
  /\ todo' = [todo EXCEPT ![cl] = @ \ {i}]
  /\ UNCHANGED <<store, phase, op, ret>>

ReturnOk(cl) ==
  /\ phase[cl] = "busy" /\ todo[cl] = {}
  /\ Quiet(cl, "idle",
       [status |-> "ok", reads |-> IF op[cl].reads THEN got[cl] ELSE <<>>])
  /\ UNCHANGED store

(* From "idle" the call fails before it has any effect.                    *)
ReturnErr(cl) ==
  /\ phase[cl] \in {"idle", "busy"}
  /\ Quiet(cl, "idle", ErrRet)
  /\ UNCHANGED store

Break(cl) ==
  /\ phase[cl] \in {"idle", "busy"}
  /\ Quiet(cl, "broken", NoRet)
  /\ UNCHANGED store

Leave(cl) ==
  /\ phase[cl] = "idle"
  /\ phase' = [phase EXCEPT ![cl] = "closed"]
  /\ UNCHANGED <<store, op, todo, got, ret>>

(* A write some broken client left running lands, with whatever bytes.     *)
StrayWrite(cl) ==
  /\ phase[cl] = "broken"
  /\ \E k \in Keys, v \in Value : store' = [store EXCEPT ![k] = v]
  /\ UNCHANGED <<phase, op, todo, got, ret>>

Next ==
  \E cl \in Clients :
    \/ Begin(cl) \/ ReturnOk(cl) \/ ReturnErr(cl)
    \/ Break(cl) \/ Leave(cl) \/ StrayWrite(cl)
    \/ \E i \in 1 .. Len(op[cl].keys) : WriteEffect(cl, i) \/ ReadEffect(cl, i)

Spec == Init /\ [][Next]_vars
=============================================================================
