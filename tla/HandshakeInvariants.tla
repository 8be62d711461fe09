------------------------ MODULE HandshakeInvariants -------------------------
(* What makes the properties of Handshake inductive: how far a client has  *)
(* come decides which of its connections are untouched, and an info that   *)
(* was sent describes the queue pair it was sent for from then on.         *)
EXTENDS Handshake

(* Nothing has happened between the client and server s yet.               *)
Untouched(cl, s) ==
  /\ handler[cl][s] = "none" /\ toServer[cl][s] = NoInfo
  /\ cqp[cl][s] = NoQp

(* The client works on its servers in order; it still has one to connect   *)
(* to in every state but the last ones.                                    *)
InTurn(cl) ==
  /\ pc[cl] \in {"new", "dead", "connecting", "dialed", "waiting", "failed"} =>
       Target(cl) \in Servers
  /\ \A s \in Servers : s > Target(cl) => Untouched(cl, s)
  /\ pc[cl] \in {"new", "dead", "connecting"} => Untouched(cl, Target(cl))
  /\ pc[cl] = "dialed" =>
       toServer[cl][Target(cl)] = NoInfo /\ cqp[cl][Target(cl)] = NoQp
  /\ pc[cl] = "waiting" => cqp[cl][Target(cl)].state = "init"

(* An info in transit, or received, is that of its sender's QP, and a QP   *)
(* past INIT was given the other side's info.                              *)
InfosMatch(cl, s) ==
  /\ toServer[cl][s] \in {NoInfo, InfoOf(cqp[cl][s], cl)}
  /\ toClient[cl][s] \in {NoInfo, InfoOf(sqp[cl][s], s)}
  /\ cqp[cl][s].state \in {"rtr", "rts"} =>
       toClient[cl][s] # NoInfo /\ cqp[cl][s].peer = toClient[cl][s]
  /\ sqp[cl][s].state \in {"rtr", "rts"} =>
       toServer[cl][s] # NoInfo /\ sqp[cl][s].peer = toServer[cl][s]
  /\ cqp[cl][s].state = "rts" => cqp[cl][s].sqPsn = cqp[cl][s].psn
  /\ sqp[cl][s].state = "rts" => sqp[cl][s].sqPsn = sqp[cl][s].psn

(* What the handler has done to its QP so far.                             *)
HandlerStage(cl, s) ==
  /\ handler[cl][s] \in {"none", "backlog", "setup"} =>
       sqp[cl][s] = NoQp /\ toClient[cl][s] = NoInfo
  /\ handler[cl][s] = "decode" =>
       sqp[cl][s].state = "init" /\ toClient[cl][s] = NoInfo
  /\ handler[cl][s] \in {"rtr", "rts"} => toServer[cl][s] # NoInfo
  /\ handler[cl][s] = "rtr" => sqp[cl][s].state = "init"
  /\ handler[cl][s] = "rts" => sqp[cl][s].state = "rtr"

Pairing ==
  \A cl \in Clients :
    InTurn(cl) /\ \A s \in Servers : InfosMatch(cl, s) /\ HandlerStage(cl, s)

HsInv == TypeOK /\ Pairing /\ ShardsInPlace /\ CloseReleases
=============================================================================
