----------------------------- MODULE Handshake ------------------------------
(* How a client connects to its servers (Connect and connectToServer of    *)
(* kv_rdma/kv/client.go) and how a server answers (Start and               *)
(* handleConnection of kv_rdma/kv/server.go): over one TCP connection each *)
(* side tells the other the number of its queue pair (QP) and the packet   *)
(* sequence number (PSN) it will start from, and brings its QP from RESET  *)
(* through INIT and RTR to RTS.  Every step may fail; a failing side hangs *)
(* up and leaves behind whatever it has created.  NewClient comes before,  *)
(* Close after; Close gives back to the device what the client holds, in   *)
(* an order that matters, because the verbs refuse to free what is in use. *)
EXTENDS Integers, Sequences, FiniteSets

CONSTANTS
  Clients,     \* kv.Client objects, each connecting once
  NumServers,  \* len(serverAddrs)
  PSNs,        \* the values rand.Uint32() & 0xffffff may take
  Faults       \* whether steps may fail

ASSUME ServersAssumption == NumServers \in Nat \ {0}
ASSUME PsnAssumption == PSNs \subseteq Nat
ASSUME FaultsAssumption == Faults \in BOOLEAN

VARIABLES
  listening, \* the servers that accept connections
  device,    \* device[cl]: the client's context, protection domain, region
  pc,        \* pc[cl]: where the client is, from NewClient to Close
  conns,     \* conns[cl]: c.connections, the serverInfo of each
  handler,   \* handler[cl][s]: where handleConnection is
  toServer,  \* toServer[cl][s]: the client's info, once encoded
  toClient,  \* toClient[cl][s]: the server's info, once encoded
  hungUp,    \* hungUp[cl][s]: the ends that closed the TCP connection
  cqp,       \* cqp[cl][s]: the client's QP for server s
  sqp,       \* sqp[cl][s]: the server's QP for client cl
  nextQpn    \* the number the next QP of a host gets

hostVars == <<listening, device>>
vars == <<hostVars, pc, conns, handler, toServer, toClient, hungUp, cqp, sqp, nextQpn>>

Servers == 0 .. (NumServers - 1)
Hosts == Clients \cup Servers

(* HandshakeInfo; LID, GID, RKey and Addr all name the host.               *)
Info == [num : Nat, psn : PSNs, host : Hosts]
NoInfo == [num |-> 0, psn |-> 0, host |-> -1]

(* A QP and its completion queue: what was created, and the attributes     *)
(* RtrQP (the peer) and RtsQP (the first PSN to send) gave it.             *)
QpStates == {"none", "cq", "reset", "init", "rtr", "rts", "destroyed"}
Qp == [state : QpStates, num : Nat, psn : Nat, peer : Info \cup {NoInfo}, sqPsn : Nat]
NoQp == [state |-> "none", num |-> 0, psn |-> 0, peer |-> NoInfo, sqPsn |-> 0]

ClientPcs == {"new", "dead", "connecting", "dialed", "waiting", "connected", "failed", "closed"}
HandlerPcs == {"none", "backlog", "setup", "decode", "rtr", "rts", "recv", "serving", "returned"}

(* One value for each client and server.                                   *)
Cells(V) == [Clients -> [Servers -> V]]
Everywhere(v) == [cl \in Clients |-> [s \in Servers |-> v]]

(* What is left of a QP whose set-up stopped after reaching state st.      *)
HasNumber(st) == st \in {"reset", "init"}
Stopped(st, h) == [NoQp EXCEPT !.state = st, !.num = IF HasNumber(st) THEN nextQpn[h] ELSE 0]
Allocate(st, h) ==
  nextQpn' = [nextQpn EXCEPT ![h] = IF HasNumber(st) THEN @ + 1 ELSE @]

InfoNoPsn(qp, h) == [num |-> qp.num, psn |-> 0, host |-> h]
InfoOf(qp, h) == [num |-> qp.num, psn |-> qp.psn, host |-> h]
RtrOwnPsn(qp, info) == [qp EXCEPT !.state = "rtr", !.peer = [info EXCEPT !.psn = qp.psn]]
Rtr(qp, info) == [qp EXCEPT !.state = "rtr", !.peer = info]
Rts(qp) == [qp EXCEPT !.state = "rts", !.sqPsn = qp.psn]

NoHangUp(side, cl, s) == UNCHANGED hungUp
HangUp(side, cl, s) == hungUp' = [hungUp EXCEPT ![cl][s] = @ \cup {side}]

-----------------------------------------------------------------------------
(* Giving objects back.  The results of the verbs are ignored: an object   *)
(* another one still uses stays.                                           *)

HasQp(qp) == qp.state \in {"reset", "init", "rtr", "rts"}

DestroyQp(qp) == IF HasQp(qp) THEN [qp EXCEPT !.state = "cq"] ELSE qp
DestroyCq(qp) == IF qp.state = "cq" THEN [qp EXCEPT !.state = "destroyed"] ELSE qp
CloseConnCqFirst(qp) == DestroyQp(DestroyCq(qp))
CloseConn(qp) == DestroyCq(DestroyQp(qp))

(* ibv_dealloc_pd fails while the protection domain has a region or a QP.  *)
Deregister(d) == d \ {"mr"}
DeallocPd(d, used) == IF used \/ "mr" \in d THEN d ELSE d \ {"pd"}
CloseContext(d, used) == DeallocPd(d, used) \ {"ctx"}

-----------------------------------------------------------------------------
(* The client.  It works on the server after those it is connected to.     *)

(* NewContext opens a device and allocates a protection domain, and undoes *)
(* the first if the second fails; RegisterMR follows, and undoes nothing.  *)
NewContext == {"ctx", "pd"}
RegisterMR(d) == d \cup {"mr"}

NewClient(cl) ==
  /\ pc[cl] = "new"
  /\ \/ /\ device' = [device EXCEPT ![cl] = RegisterMR(NewContext)]
        /\ pc' = [pc EXCEPT ![cl] = "connecting"]
     \/ /\ Faults
        /\ \E d \in {{}, NewContext} : device' = [device EXCEPT ![cl] = d]
        /\ pc' = [pc EXCEPT ![cl] = "dead"]
  /\ UNCHANGED <<listening, conns, handler, toServer, toClient, hungUp, cqp, sqp, nextQpn>>

Target(cl) == Len(conns[cl])

FailConnect(cl) == pc' = [pc EXCEPT ![cl] = "failed"]

(* A server that does not listen yet, or never will, refuses.              *)
Dial(cl) ==
  LET s == Target(cl)
  IN /\ pc[cl] = "connecting"
     /\ \/ /\ s \in listening
           /\ pc' = [pc EXCEPT ![cl] = "dialed"]
           /\ handler' = [handler EXCEPT ![cl][s] = "backlog"]
        \/ /\ Faults \/ s \notin listening
           /\ FailConnect(cl)
           /\ UNCHANGED handler
     /\ UNCHANGED <<hostVars, conns, toServer, toClient, hungUp, cqp, sqp, nextQpn>>

(* Create the CQ and the QP, INIT, query port and GID, send the info.      *)
ClientSetup(cl) ==
  LET s == Target(cl)
  IN /\ pc[cl] = "dialed"
     /\ \/ \E psn \in PSNs :
             LET qp == [Stopped("init", cl) EXCEPT !.psn = psn]
             IN /\ cqp' = [cqp EXCEPT ![cl][s] = qp]
                /\ toServer' = [toServer EXCEPT ![cl][s] = InfoOf(qp, cl)]
                /\ Allocate("init", cl)
                /\ pc' = [pc EXCEPT ![cl] = "waiting"]
                /\ UNCHANGED hungUp
        \/ /\ Faults
           /\ \E st \in {"none", "cq", "reset", "init"} :
                /\ cqp' = [cqp EXCEPT ![cl][s] = Stopped(st, cl)]
                /\ Allocate(st, cl)
           /\ FailConnect(cl)
           /\ HangUp("client", cl, s)
           /\ UNCHANGED toServer
     /\ UNCHANGED <<hostVars, conns, handler, toClient, sqp>>

PrependConn(cs, info) == <<info>> \o cs
AddConn(cs, info) == Append(cs, info)

(* The server's info arrives: RTR, RTS, and the connection is added.  The  *)
(* TCP connection is closed on every path.                                 *)
ClientFinish(cl) ==
  LET s == Target(cl)
      info == toClient[cl][s]
      rtr == Rtr(cqp[cl][s], info)
  IN /\ pc[cl] = "waiting"
     /\ info # NoInfo
     /\ \/ /\ cqp' = [cqp EXCEPT ![cl][s] = Rts(rtr)]
           /\ conns' = [conns EXCEPT ![cl] = AddConn(@, info)]
           /\ pc' = [pc EXCEPT ![cl] =
                       IF Target(cl) + 1 = NumServers THEN "connected" ELSE "connecting"]
        \/ /\ Faults
           /\ \E qp \in {cqp[cl][s], rtr} : cqp' = [cqp EXCEPT ![cl][s] = qp]
           /\ FailConnect(cl)
           /\ UNCHANGED conns
     /\ HangUp("client", cl, s)
     /\ UNCHANGED <<hostVars, handler, toServer, toClient, sqp, nextQpn>>

(* The handler hung up before it sent its info.                            *)
ClientEof(cl) ==
  LET s == Target(cl)
  IN /\ pc[cl] = "waiting"
     /\ toClient[cl][s] = NoInfo /\ "server" \in hungUp[cl][s]
     /\ FailConnect(cl)
     /\ HangUp("client", cl, s)
     /\ UNCHANGED <<hostVars, conns, handler, toServer, toClient, cqp, sqp, nextQpn>>

(* Close gives back the QPs and CQs of c.connections, then the region, the *)
(* protection domain and the context; the callers defer it, so it runs     *)
(* after a failed Connect as well, but not after a failed NewClient.       *)
ToDestroy(cl) == 0 .. (Len(conns[cl]) - 1)

Close(cl) ==
  LET after == [s \in Servers |->
                  IF s \in ToDestroy(cl) THEN CloseConn(cqp[cl][s]) ELSE cqp[cl][s]]
      used == \E s \in Servers : HasQp(after[s])
  IN /\ pc[cl] \in {"connected", "failed"}
     /\ pc' = [pc EXCEPT ![cl] = "closed"]
     /\ cqp' = [cqp EXCEPT ![cl] = after]
     /\ device' = [device EXCEPT ![cl] = CloseContext(Deregister(@), used)]
     /\ UNCHANGED <<listening, conns, handler, toServer, toClient, hungUp, sqp, nextQpn>>

-----------------------------------------------------------------------------
(* The server.  A handler that returns hangs up and destroys nothing.      *)

HandlerReturnsOpen(cl, s) ==
  handler' = [handler EXCEPT ![cl][s] = "returned"] /\ UNCHANGED hungUp
HandlerReturns(cl, s) ==
  /\ handler' = [handler EXCEPT ![cl][s] = "returned"]
  /\ HangUp("server", cl, s)

Goto(cl, s, to) == handler' = [handler EXCEPT ![cl][s] = to] /\ UNCHANGED hungUp

(* NewServer, Listen: a server that fails at either never listens.         *)
Start(s) ==
  /\ s \notin listening
  /\ listening' = listening \cup {s}
  /\ UNCHANGED <<device, pc, conns, handler, toServer, toClient, hungUp, cqp, sqp, nextQpn>>

Accept(cl, s) ==
  /\ handler[cl][s] = "backlog"
  /\ Goto(cl, s, "setup") \/ (Faults /\ HandlerReturns(cl, s))
  /\ UNCHANGED <<hostVars, pc, conns, toServer, toClient, cqp, sqp, nextQpn>>

HandlerSetup(cl, s) ==
  /\ handler[cl][s] = "setup"
  /\ \E st \in {"none", "cq", "reset", "init"} :
       /\ \/ st = "init" /\ Goto(cl, s, "decode")
          \/ Faults /\ st # "init" /\ HandlerReturns(cl, s)
       /\ sqp' = [sqp EXCEPT ![cl][s] = Stopped(st, s)]
       /\ Allocate(st, s)
  /\ UNCHANGED <<hostVars, pc, conns, toServer, toClient, cqp>>

(* The client's info arrives, and the server's goes back before its QP is  *)
(* brought to RTR.                                                         *)
HandlerReply(cl, s) ==
  /\ handler[cl][s] = "decode"
  /\ toServer[cl][s] # NoInfo
  /\ \/ \E psn \in PSNs :
          LET qp == [sqp[cl][s] EXCEPT !.psn = psn]
          IN /\ sqp' = [sqp EXCEPT ![cl][s] = qp]
             /\ toClient' = [toClient EXCEPT ![cl][s] = InfoOf(qp, s)]
             /\ Goto(cl, s, "rtr")
     \/ /\ Faults
        /\ HandlerReturns(cl, s)
        /\ UNCHANGED <<sqp, toClient>>
  /\ UNCHANGED <<hostVars, pc, conns, toServer, cqp, nextQpn>>

HandlerEof(cl, s) ==
  /\ handler[cl][s] = "decode"
  /\ toServer[cl][s] = NoInfo /\ "client" \in hungUp[cl][s]
  /\ HandlerReturns(cl, s)
  /\ UNCHANGED <<hostVars, pc, conns, toServer, toClient, cqp, sqp, nextQpn>>

HandlerRtr(cl, s) ==
  /\ handler[cl][s] = "rtr"
  /\ \/ /\ sqp' = [sqp EXCEPT ![cl][s] = Rtr(@, toServer[cl][s])]
        /\ Goto(cl, s, "rts")
     \/ Faults /\ HandlerReturns(cl, s) /\ UNCHANGED sqp
  /\ UNCHANGED <<hostVars, pc, conns, toServer, toClient, cqp, nextQpn>>

HandlerRts(cl, s) ==
  /\ handler[cl][s] = "rts"
  /\ \/ /\ sqp' = [sqp EXCEPT ![cl][s] = Rts(@)]
        /\ Goto(cl, s, "recv")
     \/ Faults /\ HandlerReturns(cl, s) /\ UNCHANGED sqp
  /\ UNCHANGED <<hostVars, pc, conns, toServer, toClient, cqp, nextQpn>>

(* The first receive is posted and the polling loop entered, for good: the *)
(* handler never learns that its client has closed.                        *)
HandlerRecv(cl, s) ==
  /\ handler[cl][s] = "recv"
  /\ Goto(cl, s, "serving") \/ (Faults /\ HandlerReturns(cl, s))
  /\ UNCHANGED <<hostVars, pc, conns, toServer, toClient, cqp, sqp, nextQpn>>

-----------------------------------------------------------------------------
Init ==
  /\ listening = {}
  /\ device = [cl \in Clients |-> {}]
  /\ pc = [cl \in Clients |-> "new"]
  /\ conns = [cl \in Clients |-> <<>>]
  /\ handler = Everywhere("none")
  /\ toServer = Everywhere(NoInfo)
  /\ toClient = Everywhere(NoInfo)
  /\ hungUp = Everywhere({})
  /\ cqp = Everywhere(NoQp)
  /\ sqp = Everywhere(NoQp)
  /\ nextQpn = [h \in Hosts |-> 1]

Connect(cl) == Dial(cl) \/ ClientSetup(cl) \/ ClientFinish(cl) \/ ClientEof(cl)

Handle(cl, s) ==
  \/ Accept(cl, s) \/ HandlerSetup(cl, s) \/ HandlerReply(cl, s) \/ HandlerEof(cl, s)
  \/ HandlerRtr(cl, s) \/ HandlerRts(cl, s) \/ HandlerRecv(cl, s)

Next ==
  \/ \E s \in Servers : Start(s)
  \/ \E cl \in Clients :
       NewClient(cl) \/ Connect(cl) \/ Close(cl) \/ \E s \in Servers : Handle(cl, s)

Spec == Init /\ [][Next]_vars

(* The goroutines of the clients and of the handlers are scheduled.        *)
FairSpec ==
  /\ Spec
  /\ \A cl \in Clients : WF_vars(Connect(cl))
  /\ \A cl \in Clients, s \in Servers : WF_vars(Handle(cl, s))

-----------------------------------------------------------------------------
(* Properties.                                                             *)

TypeOK ==
  /\ listening \subseteq Servers
  /\ device \in [Clients -> SUBSET {"ctx", "pd", "mr"}]
  /\ pc \in [Clients -> ClientPcs]
  /\ conns \in [Clients -> Seq(Info)]
  /\ \A cl \in Clients : Len(conns[cl]) <= NumServers
  /\ handler \in Cells(HandlerPcs)
  /\ toServer \in Cells(Info \cup {NoInfo})
  /\ toClient \in Cells(Info \cup {NoInfo})
  /\ hungUp \in Cells(SUBSET {"client", "server"})
  /\ cqp \in Cells(Qp)
  /\ sqp \in Cells(Qp)
  /\ nextQpn \in [Hosts -> Nat]

(* qp, at host h, sends to the QP other of host g, expects the packets     *)
(* that one sends, and starts from the number that one expects.            *)
Joined(qp, h, other, g) ==
  /\ qp.state \in {"rtr", "rts"} => qp.peer.host = g /\ qp.peer.num = other.num
  /\ qp.state = "rts" /\ other.state \in {"rtr", "rts"} =>
       /\ other.peer.host = h /\ other.peer.num = qp.num
       /\ other.peer.psn = qp.sqPsn

(* However the handlers of one server interleave, the QP a client brought  *)
(* to RTR and the QP its handler brought to RTR name each other, and each  *)
(* starts sending from the PSN the other expects (client.go:119-126,       *)
(* server.go:143-150).                                                     *)
MutuallyJoined ==
  \A cl \in Clients, s \in Servers :
    /\ Joined(cqp[cl][s], cl, sqp[cl][s], s)
    /\ Joined(sqp[cl][s], s, cqp[cl][s], cl)

(* c.connections[i] leads to the server at serverAddrs[i], over a QP ready *)
(* to send: getServer (client.go:141-145) shards by position, so clients   *)
(* agree on the server of a key only if they agree on this.                *)
ShardsInPlace ==
  \A cl \in Clients : pc[cl] # "closed" =>
    \A i \in 1 .. Len(conns[cl]) :
      /\ conns[cl][i].host = i - 1
      /\ cqp[cl][i - 1].state = "rts"
      /\ cqp[cl][i - 1].peer = conns[cl][i]

Alive(qp) == qp.state \notin {"none", "destroyed"}

(* After Close the device holds nothing of a client whose Connect returned *)
(* nil; after a failed Connect it holds at most the QP and CQ of the one   *)
(* handshake that failed, and the protection domain only for that QP       *)
(* (client.go:435-449): nothing is refused because it is still in use.     *)
CloseReleases ==
  \A cl \in Clients : pc[cl] = "closed" =>
    /\ \A s \in Servers : Alive(cqp[cl][s]) => s = Target(cl)
    /\ (\A s \in Servers : ~HasQp(cqp[cl][s])) => device[cl] = {}

(* Connect returns and every handler ends the handshake, whatever fails on *)
(* either side: neither waits for an info that will not come.              *)
ConnectReturns ==
  \A cl \in Clients : pc[cl] = "connecting" ~> pc[cl] \in {"connected", "failed"}
HandlerSettles ==
  \A cl \in Clients, s \in Servers :
    handler[cl][s] # "none" ~> handler[cl][s] \in {"serving", "returned"}

(* What client.go:55 says of Connect, "connects to all servers": when it   *)
(* has returned nil, no handler has given up on the client before its own  *)
(* QP could receive from the client's.                                     *)
ConnectedMeansReady ==
  \A cl \in Clients : pc[cl] = "connected" =>
    \A s \in Servers :
      handler[cl][s] = "returned" => sqp[cl][s].state \in {"rtr", "rts"}
=============================================================================
