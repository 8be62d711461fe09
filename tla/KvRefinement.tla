---------------------------- MODULE KvRefinement ----------------------------
(* KvClient implements KvStore, as long as nobody uses Send.               *)
EXTENDS KvInvariants

absStore == [k \in Keys |-> mem[ShardOf(k)][k]]

absPhase ==
  [cl \in Clients |->
     IF abandoned[cl] THEN "broken"
     ELSE IF phase[cl] = "polling" THEN "busy" ELSE phase[cl]]

absOp ==
  [cl \in Clients |->
     [reads |-> Busy(cl) /\ Reads(call[cl]),
      keys |-> IF Busy(cl) THEN call[cl].keys ELSE <<>>,
      vals |-> IF Busy(cl) THEN call[cl].vals ELSE <<>>]]

absTodo ==
  [cl \in Clients |->
     IF Busy(cl) THEN Todo(cl) ELSE {}]

absGot ==
  [cl \in Clients |->
     IF Busy(cl) THEN [i \in 1 .. Len(call[cl].keys) |-> Seen(cl, i)] ELSE <<>>]

absRet ==
  [cl \in Clients |-> IF abandoned[cl] THEN NoRet ELSE ret[cl]]

Abstract ==
  INSTANCE KvStore
    WITH store <- absStore, phase <- absPhase, op <- absOp,
         todo <- absTodo, got <- absGot, ret <- absRet

(* Seen from outside, every behaviour of the clients over their queue      *)
(* pairs is one of the abstract store: each key of a call is read or       *)
(* written at one instant between its beginning and its return, also by    *)
(* concurrent clients, across retransmitted reads, and next to clients     *)
(* that an abandoned call has broken.                                      *)
ImplementsKvStore == Abstract!Spec
=============================================================================
