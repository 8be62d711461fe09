-------------------------- MODULE HandshakeProofs ---------------------------
(* Theorems about Handshake, for any number of clients and servers, any    *)
(* packet sequence numbers, with and without faults.                       *)
EXTENDS HandshakeInvariants, TLAPS

USE ServersAssumption, PsnAssumption, FaultsAssumption

(* The fields of the queue pairs the steps produce.                        *)
LEMMA NoQpType == NoQp \in Qp /\ NoInfo.psn = 0 /\ NoInfo.num = 0
BY DEF NoQp, Qp, QpStates, NoInfo

LEMMA StoppedType ==
  ASSUME TypeOK, NEW h \in Hosts, NEW st \in {"none", "cq", "reset", "init"}
  PROVE  /\ Stopped(st, h) \in Qp
         /\ Stopped(st, h).state = st
         /\ Allocate(st, h) => nextQpn' \in [Hosts -> Nat]
<1>1. nextQpn \in [Hosts -> Nat] /\ nextQpn[h] \in Nat
  BY DEF TypeOK
<1> DEFINE n == IF HasNumber(st) THEN nextQpn[h] ELSE 0
<1>2. n \in Nat BY <1>1
<1>3. Stopped(st, h) = [NoQp EXCEPT !.state = st, !.num = n]
  BY DEF Stopped
<1> HIDE DEF n
<1>4. [NoQp EXCEPT !.state = st, !.num = n] \in Qp
  BY <1>2 DEF NoQp, Qp, QpStates
<1>5. [NoQp EXCEPT !.state = st, !.num = n].state = st
  BY DEF NoQp
<1>6. ASSUME Allocate(st, h) PROVE nextQpn' \in [Hosts -> Nat]
  BY <1>1, <1>6 DEF Allocate
<1> QED BY <1>3, <1>4, <1>5, <1>6

LEMMA SetPsnType ==
  ASSUME NEW qp \in Qp, NEW psn \in PSNs, NEW h \in Hosts
  PROVE  LET new == [qp EXCEPT !.psn = psn]
         IN /\ new \in Qp
            /\ new.state = qp.state
            /\ InfoOf(new, h) \in Info
BY DEF Qp, InfoOf, Info

LEMMA RtrType ==
  ASSUME NEW qp \in Qp, NEW info \in Info
  PROVE  /\ Rtr(qp, info) \in Qp
         /\ Rtr(qp, info).state = "rtr"
         /\ Rtr(qp, info).peer = info
         /\ \A h : InfoOf(Rtr(qp, info), h) = InfoOf(qp, h)
         /\ Rtr(qp, info).psn = qp.psn
BY DEF Rtr, Qp, QpStates, InfoOf

LEMMA RtsType ==
  ASSUME NEW qp \in Qp
  PROVE  /\ Rts(qp) \in Qp
         /\ Rts(qp).state = "rts"
         /\ Rts(qp).peer = qp.peer
         /\ Rts(qp).psn = qp.psn
         /\ Rts(qp).sqPsn = qp.psn
         /\ \A h : InfoOf(Rts(qp), h) = InfoOf(qp, h)
BY DEF Rts, Qp, QpStates, InfoOf

LEMMA CloseConnType ==
  ASSUME NEW qp \in Qp
  PROVE  /\ CloseConn(qp) \in Qp
         /\ ~HasQp(CloseConn(qp))
         /\ CloseConn(qp).state \notin {"rtr", "rts"}
         /\ HasQp(qp) => ~Alive(CloseConn(qp))
         /\ \A h : InfoOf(CloseConn(qp), h) = InfoOf(qp, h)
BY DEF CloseConn, DestroyCq, DestroyQp, HasQp, Alive, Qp, QpStates, InfoOf

-----------------------------------------------------------------------------
(* Changing one cell.                                                      *)

Placed(new, old, cl, s, v) ==
  \A c \in Clients, t \in Servers :
    new[c][t] = IF c = cl /\ t = s THEN v ELSE old[c][t]

LEMMA Cell ==
  ASSUME NEW V, NEW f \in Cells(V), NEW cl \in Clients, NEW s \in Servers, NEW v \in V,
         NEW g, g = [f EXCEPT ![cl][s] = v]
  PROVE  g \in Cells(V) /\ Placed(g, f, cl, s, v)
<1>1. f[cl] \in [Servers -> V] BY DEF Cells
<1>2. [f[cl] EXCEPT ![s] = v] \in [Servers -> V] BY <1>1
<1>3. g = [f EXCEPT ![cl] = [f[cl] EXCEPT ![s] = v]] OBVIOUS
<1>4. g \in Cells(V) BY <1>2, <1>3 DEF Cells
<1>5. Placed(g, f, cl, s, v) BY <1>1, <1>3 DEF Placed, Cells
<1> QED BY <1>4, <1>5

(* The same of the function under its name, which a proof can leave as it  *)
(* is.                                                                      *)
Setting(f, cl, s, v) == [f EXCEPT ![cl][s] = v]

LEMMA SetCell ==
  ASSUME NEW V, NEW f \in Cells(V), NEW cl \in Clients, NEW s \in Servers, NEW v \in V
  PROVE  Setting(f, cl, s, v) \in Cells(V) /\ Placed(Setting(f, cl, s, v), f, cl, s, v)
BY Cell DEF Setting

LEMMA CellValue ==
  ASSUME NEW V, NEW f \in Cells(V), NEW cl \in Clients, NEW s \in Servers
  PROVE  f[cl][s] \in V
BY DEF Cells

LEMMA EverywhereType ==
  ASSUME NEW V, NEW v \in V
  PROVE  /\ Everywhere(v) \in Cells(V)
         /\ \A c \in Clients, t \in Servers : Everywhere(v)[c][t] = v
BY DEF Everywhere, Cells

LEMMA HangUpType ==
  ASSUME TypeOK, NEW cl \in Clients, NEW s \in Servers,
         NEW side \in {"client", "server"}, HangUp(side, cl, s)
  PROVE  hungUp' \in Cells(SUBSET {"client", "server"})
<1> DEFINE ends == hungUp[cl][s] \cup {side}
<1>1. hungUp \in Cells(SUBSET {"client", "server"}) BY DEF TypeOK
<1>2. ends \in SUBSET {"client", "server"} BY <1>1, CellValue
<1>3. hungUp' = [hungUp EXCEPT ![cl][s] = ends] BY DEF HangUp
<1> HIDE DEF ends
<1> QED BY <1>1, <1>2, <1>3, Cell

(* Where a handler goes, and what that does to the TCP connection.         *)
LEMMA GotoMoves ==
  ASSUME TypeOK, NEW cl \in Clients, NEW s \in Servers,
         NEW to \in HandlerPcs, Goto(cl, s, to)
  PROVE  /\ handler' \in Cells(HandlerPcs) /\ Placed(handler', handler, cl, s, to)
         /\ hungUp' \in Cells(SUBSET {"client", "server"})
<1>1. handler \in Cells(HandlerPcs) /\ hungUp \in Cells(SUBSET {"client", "server"})
  BY DEF TypeOK
<1>2. handler' = [handler EXCEPT ![cl][s] = to] /\ hungUp' = hungUp
  BY DEF Goto
<1>3. handler' \in Cells(HandlerPcs) /\ Placed(handler', handler, cl, s, to)
  BY <1>1, <1>2, Cell
<1> QED BY <1>1, <1>2, <1>3

LEMMA ReturnMoves ==
  ASSUME TypeOK, NEW cl \in Clients, NEW s \in Servers, HandlerReturns(cl, s)
  PROVE  /\ handler' \in Cells(HandlerPcs) /\ Placed(handler', handler, cl, s, "returned")
         /\ hungUp' \in Cells(SUBSET {"client", "server"})
<1>1. handler \in Cells(HandlerPcs) BY DEF TypeOK
<1>2. handler' = [handler EXCEPT ![cl][s] = "returned"] /\ HangUp("server", cl, s)
  BY DEF HandlerReturns
<1>3. "returned" \in HandlerPcs BY DEF HandlerPcs
<1>4. handler' \in Cells(HandlerPcs) /\ Placed(handler', handler, cl, s, "returned")
  BY <1>1, <1>2, <1>3, Cell
<1> QED BY <1>2, <1>4, HangUpType

-----------------------------------------------------------------------------
(* Type correctness.                                                       *)

LEMMA InitType == Init => TypeOK
<1> SUFFICES ASSUME Init PROVE TypeOK
  OBVIOUS
<1>1. "none" \in HandlerPcs /\ NoInfo \in Info \cup {NoInfo}
        /\ {} \in SUBSET {"client", "server"} /\ NoQp \in Qp
  BY NoQpType DEF HandlerPcs
<1>2. /\ handler \in Cells(HandlerPcs) /\ hungUp \in Cells(SUBSET {"client", "server"})
      /\ toServer \in Cells(Info \cup {NoInfo}) /\ toClient \in Cells(Info \cup {NoInfo})
      /\ cqp \in Cells(Qp) /\ sqp \in Cells(Qp)
  BY <1>1, EverywhereType DEF Init
<1>3. conns \in [Clients -> Seq(Info)] /\ \A cl \in Clients : Len(conns[cl]) <= NumServers
  BY DEF Init
<1>4. pc \in [Clients -> ClientPcs] /\ device \in [Clients -> SUBSET {"ctx", "pd", "mr"}]
        /\ nextQpn \in [Hosts -> Nat] /\ listening \subseteq Servers
  BY DEF Init, ClientPcs
<1> QED BY <1>2, <1>3, <1>4 DEF TypeOK

(* The client's steps change only one of its own cells.                    *)
LEMMA ClientSetupType ==
  ASSUME TypeOK, NEW cl \in Clients, Target(cl) \in Servers, ClientSetup(cl)
  PROVE  /\ TypeOK'
         /\ pc'[cl] \in {"waiting", "failed"} /\ \A c \in Clients \ {cl} : pc'[c] = pc[c]
         /\ \E qp \in Qp :
              /\ qp.state \in {"none", "cq", "reset", "init"}
              /\ Placed(cqp', cqp, cl, Target(cl), qp)
              /\ \/ /\ pc'[cl] = "waiting" /\ qp.state = "init"
                    /\ Placed(toServer', toServer, cl, Target(cl), InfoOf(qp, cl))
                 \/ pc'[cl] = "failed" /\ toServer' = toServer
<1> DEFINE s == Target(cl)
<1> USE DEF ClientPcs
<1>1. cl \in Hosts BY DEF Hosts
<1>2. /\ cqp \in Cells(Qp) /\ toServer \in Cells(Info \cup {NoInfo})
      /\ pc \in [Clients -> ClientPcs] /\ hungUp \in Cells(SUBSET {"client", "server"})
  BY DEF TypeOK
<1>3. CASE \E psn \in PSNs :
             LET qp == [Stopped("init", cl) EXCEPT !.psn = psn]
             IN /\ cqp' = [cqp EXCEPT ![cl][s] = qp]
                /\ toServer' = [toServer EXCEPT ![cl][s] = InfoOf(qp, cl)]
                /\ Allocate("init", cl)
                /\ pc' = [pc EXCEPT ![cl] = "waiting"]
                /\ UNCHANGED hungUp
  <2> PICK psn \in PSNs :
             LET qp == [Stopped("init", cl) EXCEPT !.psn = psn]
             IN /\ cqp' = [cqp EXCEPT ![cl][s] = qp]
                /\ toServer' = [toServer EXCEPT ![cl][s] = InfoOf(qp, cl)]
                /\ Allocate("init", cl)
                /\ pc' = [pc EXCEPT ![cl] = "waiting"]
                /\ UNCHANGED hungUp
    BY <1>3
  <2> DEFINE qp == [Stopped("init", cl) EXCEPT !.psn = psn]
  <2>1. Stopped("init", cl) \in Qp /\ Stopped("init", cl).state = "init"
          /\ nextQpn' \in [Hosts -> Nat]
    BY <1>1, StoppedType
  <2>2. qp \in Qp /\ qp.state = "init" /\ InfoOf(qp, cl) \in Info
    BY <1>1, <2>1, SetPsnType
  <2>3. /\ cqp' = [cqp EXCEPT ![cl][s] = qp]
        /\ toServer' = [toServer EXCEPT ![cl][s] = InfoOf(qp, cl)]
        /\ pc' = [pc EXCEPT ![cl] = "waiting"] /\ hungUp' = hungUp
    OBVIOUS
  <2> HIDE DEF qp
  <2>4. cqp' \in Cells(Qp) /\ Placed(cqp', cqp, cl, s, qp)
    <3>1. cqp' = Setting(cqp, cl, s, qp) BY <2>3 DEF Setting
    <3>2. s \in Servers OBVIOUS
    <3> HIDE DEF s
    <3> QED BY ONLY <1>2, <2>2, <3>1, <3>2, cl \in Clients, SetCell
  <2>5. /\ toServer' \in Cells(Info \cup {NoInfo})
        /\ Placed(toServer', toServer, cl, s, InfoOf(qp, cl))
    <3>1. InfoOf(qp, cl) \in Info \cup {NoInfo} BY <2>2
    <3>2. toServer' = Setting(toServer, cl, s, InfoOf(qp, cl)) BY <2>3 DEF Setting
    <3>3. s \in Servers OBVIOUS
    <3> HIDE DEF s
    <3> QED BY ONLY <1>2, <3>1, <3>2, <3>3, cl \in Clients, SetCell
  <2>6. pc' \in [Clients -> ClientPcs] /\ pc'[cl] = "waiting"
          /\ \A c \in Clients \ {cl} : pc'[c] = pc[c]
    BY <1>2, <2>3
  <2>7. UNCHANGED <<listening, device, conns, handler, toClient, sqp>>
    BY DEF ClientSetup, hostVars
  <2>8. TypeOK' BY <2>1, <2>3, <2>4, <2>5, <2>6, <2>7 DEF TypeOK
  <2> QED BY <2>2, <2>4, <2>5, <2>6, <2>8
<1>4. CASE /\ \E st \in {"none", "cq", "reset", "init"} :
                /\ cqp' = [cqp EXCEPT ![cl][s] = Stopped(st, cl)]
                /\ Allocate(st, cl)
           /\ FailConnect(cl)
           /\ HangUp("client", cl, s)
           /\ UNCHANGED toServer
  <2> PICK st \in {"none", "cq", "reset", "init"} :
                /\ cqp' = [cqp EXCEPT ![cl][s] = Stopped(st, cl)]
                /\ Allocate(st, cl)
    BY <1>4
  <2> DEFINE qp == Stopped(st, cl)
  <2>1. qp \in Qp /\ qp.state = st /\ nextQpn' \in [Hosts -> Nat]
    BY <1>1, StoppedType
  <2>2. cqp' = [cqp EXCEPT ![cl][s] = qp] OBVIOUS
  <2> HIDE DEF qp
  <2>3. cqp' \in Cells(Qp) /\ Placed(cqp', cqp, cl, s, qp)
    BY <1>2, <2>1, <2>2, Cell
  <2>4. pc' \in [Clients -> ClientPcs] /\ pc'[cl] = "failed"
          /\ \A c \in Clients \ {cl} : pc'[c] = pc[c]
    BY <1>2, <1>4 DEF FailConnect
  <2>5. hungUp' \in Cells(SUBSET {"client", "server"})
    BY <1>4, HangUpType
  <2>6. UNCHANGED <<listening, device, conns, handler, toServer, toClient, sqp>>
    BY <1>4 DEF ClientSetup, hostVars
  <2>7. TypeOK' BY <2>1, <2>3, <2>4, <2>5, <2>6 DEF TypeOK
  <2> QED BY <2>1, <2>3, <2>4, <2>6, <2>7
<1> QED BY <1>3, <1>4 DEF ClientSetup

(* The info of the server arrives at a client whose QP is in INIT.         *)
LEMMA ClientFinishType ==
  ASSUME TypeOK, NEW cl \in Clients, Target(cl) \in Servers, ClientFinish(cl)
  PROVE  LET s == Target(cl)
             info == toClient[cl][s]
             qp == cqp[cl][s]
         IN /\ TypeOK'
            /\ qp \in Qp /\ info \in Info
            /\ \A c \in Clients \ {cl} : pc'[c] = pc[c] /\ conns'[c] = conns[c]
            /\ \/ /\ Placed(cqp', cqp, cl, s, Rts(Rtr(qp, info)))
                  /\ conns'[cl] = Append(conns[cl], info)
                  /\ pc'[cl] = IF s + 1 = NumServers THEN "connected" ELSE "connecting"
               \/ /\ cqp' = cqp \/ Placed(cqp', cqp, cl, s, Rtr(qp, info))
                  /\ conns'[cl] = conns[cl] /\ pc'[cl] = "failed"
<1> DEFINE s == Target(cl)
           info == toClient[cl][s]
           qp == cqp[cl][s]
<1> USE DEF ClientPcs
<1>1. /\ cqp \in Cells(Qp) /\ toClient \in Cells(Info \cup {NoInfo})
      /\ pc \in [Clients -> ClientPcs] /\ conns \in [Clients -> Seq(Info)]
  BY DEF TypeOK
<1>2. s = Len(conns[cl]) /\ s \in 0 .. (NumServers - 1) /\ conns[cl] \in Seq(Info)
  BY <1>1 DEF Target, Servers
<1>3. qp \in Qp /\ info \in Info
  <2>1. info \in Info \cup {NoInfo} BY <1>1, CellValue
  <2> QED BY <1>1, <2>1, CellValue DEF ClientFinish
<1>4. Rtr(qp, info) \in Qp /\ Rts(Rtr(qp, info)) \in Qp
  BY <1>3, RtrType, RtsType
<1>5. hungUp' \in Cells(SUBSET {"client", "server"})
  <2>1. HangUp("client", cl, s) BY DEF ClientFinish
  <2> QED BY <2>1, HangUpType
<1>6. UNCHANGED <<listening, device, handler, toServer, toClient, sqp, nextQpn>>
  BY DEF ClientFinish, hostVars
<1>7. CASE /\ cqp' = [cqp EXCEPT ![cl][s] = Rts(Rtr(qp, info))]
           /\ conns' = [conns EXCEPT ![cl] = AddConn(@, info)]
           /\ pc' = [pc EXCEPT ![cl] =
                       IF Target(cl) + 1 = NumServers THEN "connected" ELSE "connecting"]
  <2>1. cqp' \in Cells(Qp) /\ Placed(cqp', cqp, cl, s, Rts(Rtr(qp, info)))
    <3> DEFINE new == Rts(Rtr(qp, info))
    <3>1. new \in Qp BY <1>4
    <3>2. cqp' = [cqp EXCEPT ![cl][s] = new] BY <1>7
    <3> HIDE DEF new
    <3>3. cqp' \in Cells(Qp) /\ Placed(cqp', cqp, cl, s, new)
      <4>1. cqp' = Setting(cqp, cl, s, new) BY <3>2 DEF Setting
      <4> QED BY <1>1, <3>1, <4>1, SetCell
    <3> QED BY <3>3 DEF new
  <2>2. /\ AddConn(conns[cl], info) \in Seq(Info)
        /\ Len(AddConn(conns[cl], info)) <= NumServers
    BY <1>2, <1>3 DEF AddConn
  <2>3. /\ conns' \in [Clients -> Seq(Info)]
        /\ conns'[cl] = Append(conns[cl], info)
        /\ \A c \in Clients \ {cl} : conns'[c] = conns[c]
    BY <1>1, <1>7, <2>2 DEF AddConn
  <2>4. \A c \in Clients : Len(conns'[c]) <= NumServers
    BY <1>1, <1>7, <2>2 DEF TypeOK
  <2>5. /\ pc' \in [Clients -> ClientPcs]
        /\ pc'[cl] = IF s + 1 = NumServers THEN "connected" ELSE "connecting"
        /\ \A c \in Clients \ {cl} : pc'[c] = pc[c]
    BY <1>1, <1>7
  <2>6. TypeOK' BY <1>5, <1>6, <2>1, <2>3, <2>4, <2>5 DEF TypeOK
  <2> QED BY <1>3, <2>1, <2>3, <2>5, <2>6
<1>8. CASE /\ \E q \in {qp, Rtr(qp, info)} : cqp' = [cqp EXCEPT ![cl][s] = q]
           /\ FailConnect(cl)
           /\ UNCHANGED conns
  <2> PICK q \in {qp, Rtr(qp, info)} : cqp' = [cqp EXCEPT ![cl][s] = q]
    BY <1>8
  <2>1. q \in Qp BY <1>3, <1>4
  <2>2. cqp' \in Cells(Qp) /\ Placed(cqp', cqp, cl, s, q)
    <3>1. cqp' = Setting(cqp, cl, s, q) BY DEF Setting
    <3>2. s \in Servers OBVIOUS
    <3> HIDE DEF s
    <3> QED BY ONLY <1>1, <2>1, <3>1, <3>2, cl \in Clients, SetCell
  <2>3. q = qp => cqp' = cqp
    BY <1>1 DEF Cells
  <2>4. /\ pc' \in [Clients -> ClientPcs] /\ pc'[cl] = "failed"
        /\ \A c \in Clients \ {cl} : pc'[c] = pc[c]
    BY <1>1, <1>8 DEF FailConnect
  <2>5. TypeOK' BY <1>5, <1>6, <1>8, <2>2, <2>4 DEF TypeOK
  <2> QED BY <1>3, <1>8, <2>2, <2>3, <2>4, <2>5
<1> QED BY <1>7, <1>8 DEF ClientFinish

LEMMA CloseType ==
  ASSUME TypeOK, NEW cl \in Clients, Close(cl)
  PROVE  /\ TypeOK'
         /\ pc'[cl] = "closed" /\ \A c \in Clients \ {cl} : pc'[c] = pc[c]
         /\ \A c \in Clients \ {cl} : device'[c] = device[c] /\ cqp'[c] = cqp[c]
         /\ \A s \in Servers : cqp'[cl][s] =
              IF s \in ToDestroy(cl) THEN CloseConn(cqp[cl][s]) ELSE cqp[cl][s]
         /\ (\A s \in Servers : ~HasQp(cqp'[cl][s])) => device'[cl] = {}
<1> DEFINE after == [s \in Servers |->
                  IF s \in ToDestroy(cl) THEN CloseConn(cqp[cl][s]) ELSE cqp[cl][s]]
           used == \E s \in Servers : HasQp(after[s])
<1> USE DEF ClientPcs
<1>1. /\ cqp \in [Clients -> [Servers -> Qp]]
      /\ pc \in [Clients -> ClientPcs] /\ device \in [Clients -> SUBSET {"ctx", "pd", "mr"}]
  BY DEF TypeOK, Cells
<1>2. after \in [Servers -> Qp]
  <2>1. ASSUME NEW s \in Servers PROVE cqp[cl][s] \in Qp /\ CloseConn(cqp[cl][s]) \in Qp
    BY <1>1, CloseConnType
  <2> QED BY <2>1
<1>3. cqp' = [cqp EXCEPT ![cl] = after] BY DEF Close
<1>4. cqp' \in Cells(Qp) /\ cqp'[cl] = after /\ \A c \in Clients \ {cl} : cqp'[c] = cqp[c]
  BY <1>1, <1>2, <1>3 DEF Cells
<1>5. /\ CloseContext(Deregister(device[cl]), used) \in SUBSET {"ctx", "pd", "mr"}
      /\ ~used => CloseContext(Deregister(device[cl]), used) = {}
  <2> HIDE DEF used
  <2>1. device[cl] \in SUBSET {"ctx", "pd", "mr"} BY <1>1
  <2> QED BY <2>1 DEF CloseContext, Deregister, DeallocPd
<1>6. device' = [device EXCEPT ![cl] = CloseContext(Deregister(device[cl]), used)]
  BY DEF Close
<1>7. /\ device' \in [Clients -> SUBSET {"ctx", "pd", "mr"}]
      /\ ~used => device'[cl] = {}
      /\ \A c \in Clients \ {cl} : device'[c] = device[c]
  <2> HIDE DEF used
  <2> QED BY <1>1, <1>5, <1>6
<1>8. /\ pc' \in [Clients -> ClientPcs] /\ pc'[cl] = "closed"
      /\ \A c \in Clients \ {cl} : pc'[c] = pc[c]
  BY <1>1 DEF Close
<1>9. TypeOK' BY <1>4, <1>7, <1>8 DEF TypeOK, Close
<1>10. ~used <=> \A s \in Servers : ~HasQp(cqp'[cl][s])
  BY <1>4
<1> QED BY <1>4, <1>7, <1>8, <1>9, <1>10

(* The handler's steps change only its own cells.                          *)
OfHandler == <<listening, device, pc, conns, toServer, cqp>>

LEMMA HandlerMoveType ==
  ASSUME TypeOK, NEW cl \in Clients, NEW s \in Servers,
         Accept(cl, s) \/ HandlerEof(cl, s) \/ HandlerRecv(cl, s)
  PROVE  /\ TypeOK' /\ UNCHANGED OfHandler /\ UNCHANGED <<sqp, toClient>>
         /\ handler[cl][s] # "none"
         /\ \E to \in {"setup", "serving", "returned"} : Placed(handler', handler, cl, s, to)
<1> USE DEF HandlerPcs
<1>1. UNCHANGED OfHandler /\ UNCHANGED <<sqp, toClient, nextQpn>>
  BY DEF Accept, HandlerEof, HandlerRecv, OfHandler, hostVars
<1>2. handler[cl][s] # "none" BY DEF Accept, HandlerEof, HandlerRecv
<1>3. Goto(cl, s, "setup") \/ Goto(cl, s, "serving") \/ HandlerReturns(cl, s)
  BY DEF Accept, HandlerEof, HandlerRecv
<1>4. /\ handler' \in Cells(HandlerPcs) /\ hungUp' \in Cells(SUBSET {"client", "server"})
      /\ \E to \in {"setup", "serving", "returned"} : Placed(handler', handler, cl, s, to)
  BY <1>3, GotoMoves, ReturnMoves
<1> QED BY <1>1, <1>2, <1>4 DEF TypeOK, OfHandler

LEMMA HandlerSetupType ==
  ASSUME TypeOK, NEW cl \in Clients, NEW s \in Servers, HandlerSetup(cl, s)
  PROVE  /\ TypeOK' /\ UNCHANGED OfHandler /\ toClient' = toClient
         /\ \E qp \in Qp :
              /\ qp.state \in {"none", "cq", "reset", "init"}
              /\ Placed(sqp', sqp, cl, s, qp)
              /\ \/ qp.state = "init" /\ Placed(handler', handler, cl, s, "decode")
                 \/ Placed(handler', handler, cl, s, "returned")
<1> USE DEF HandlerPcs
<1> PICK st \in {"none", "cq", "reset", "init"} :
       /\ \/ st = "init" /\ Goto(cl, s, "decode")
          \/ Faults /\ st # "init" /\ HandlerReturns(cl, s)
       /\ sqp' = [sqp EXCEPT ![cl][s] = Stopped(st, s)]
       /\ Allocate(st, s)
  BY DEF HandlerSetup
<1> DEFINE qp == Stopped(st, s)
<1>1. qp \in Qp /\ qp.state = st /\ nextQpn' \in [Hosts -> Nat]
  <2>1. s \in Hosts BY DEF Hosts
  <2> QED BY <2>1, StoppedType
<1>2. sqp' = [sqp EXCEPT ![cl][s] = qp] OBVIOUS
<1> HIDE DEF qp
<1>3. sqp \in Cells(Qp) BY DEF TypeOK
<1>4. sqp' \in Cells(Qp) /\ Placed(sqp', sqp, cl, s, qp)
  BY <1>1, <1>2, <1>3, Cell
<1>5. /\ handler' \in Cells(HandlerPcs) /\ hungUp' \in Cells(SUBSET {"client", "server"})
      /\ \/ st = "init" /\ Placed(handler', handler, cl, s, "decode")
         \/ Placed(handler', handler, cl, s, "returned")
  BY GotoMoves, ReturnMoves
<1>6. UNCHANGED OfHandler /\ toClient' = toClient
  BY DEF HandlerSetup, OfHandler, hostVars
<1>7. TypeOK' BY <1>1, <1>4, <1>5, <1>6 DEF TypeOK, OfHandler
<1> QED BY <1>1, <1>4, <1>5, <1>6, <1>7

LEMMA HandlerReplyType ==
  ASSUME TypeOK, NEW cl \in Clients, NEW s \in Servers, HandlerReply(cl, s)
  PROVE  /\ TypeOK' /\ UNCHANGED OfHandler
         /\ handler[cl][s] = "decode" /\ toServer[cl][s] # NoInfo
         /\ \/ /\ Placed(handler', handler, cl, s, "rtr")
               /\ \E qp \in Qp :
                    /\ qp.state = sqp[cl][s].state
                    /\ Placed(sqp', sqp, cl, s, qp)
                    /\ Placed(toClient', toClient, cl, s, InfoOf(qp, s))
            \/ /\ Placed(handler', handler, cl, s, "returned")
               /\ UNCHANGED <<sqp, toClient>>
<1> USE DEF HandlerPcs
<1>1. /\ sqp \in Cells(Qp) /\ toClient \in Cells(Info \cup {NoInfo}) /\ s \in Hosts
      /\ sqp[cl][s] \in Qp
  BY CellValue DEF TypeOK, Hosts
<1>2. UNCHANGED OfHandler /\ nextQpn' = nextQpn
        /\ handler[cl][s] = "decode" /\ toServer[cl][s] # NoInfo
  BY DEF HandlerReply, OfHandler, hostVars
<1>3. CASE \E psn \in PSNs :
          LET qp == [sqp[cl][s] EXCEPT !.psn = psn]
          IN /\ sqp' = [sqp EXCEPT ![cl][s] = qp]
             /\ toClient' = [toClient EXCEPT ![cl][s] = InfoOf(qp, s)]
             /\ Goto(cl, s, "rtr")
  <2> PICK psn \in PSNs :
          LET qp == [sqp[cl][s] EXCEPT !.psn = psn]
          IN /\ sqp' = [sqp EXCEPT ![cl][s] = qp]
             /\ toClient' = [toClient EXCEPT ![cl][s] = InfoOf(qp, s)]
             /\ Goto(cl, s, "rtr")
    BY <1>3
  <2> DEFINE qp == [sqp[cl][s] EXCEPT !.psn = psn]
  <2>1. qp \in Qp /\ qp.state = sqp[cl][s].state /\ InfoOf(qp, s) \in Info
    BY <1>1, SetPsnType
  <2>2. /\ sqp' = [sqp EXCEPT ![cl][s] = qp]
        /\ toClient' = [toClient EXCEPT ![cl][s] = InfoOf(qp, s)]
        /\ Goto(cl, s, "rtr")
    OBVIOUS
  <2> HIDE DEF qp
  <2>3. sqp' \in Cells(Qp) /\ Placed(sqp', sqp, cl, s, qp)
    BY <1>1, <2>1, <2>2, Cell
  <2>4. InfoOf(qp, s) \in Info \cup {NoInfo} BY <2>1
  <2>5. /\ toClient' \in Cells(Info \cup {NoInfo})
        /\ Placed(toClient', toClient, cl, s, InfoOf(qp, s))
    BY <1>1, <2>2, <2>4, Cell
  <2>6. /\ handler' \in Cells(HandlerPcs) /\ Placed(handler', handler, cl, s, "rtr")
        /\ hungUp' \in Cells(SUBSET {"client", "server"})
    BY <2>2, GotoMoves
  <2>7. TypeOK' BY <1>2, <2>3, <2>5, <2>6 DEF TypeOK, OfHandler
  <2> QED BY <1>2, <2>1, <2>3, <2>5, <2>6, <2>7
<1>4. CASE HandlerReturns(cl, s) /\ UNCHANGED <<sqp, toClient>>
  <2>1. /\ handler' \in Cells(HandlerPcs) /\ Placed(handler', handler, cl, s, "returned")
        /\ hungUp' \in Cells(SUBSET {"client", "server"})
    BY <1>4, ReturnMoves
  <2>2. TypeOK' BY <1>2, <1>4, <2>1 DEF TypeOK, OfHandler
  <2> QED BY <1>2, <1>4, <2>1, <2>2
<1> QED BY <1>3, <1>4 DEF HandlerReply

(* Both steps modify the QP the handler set up.                            *)
LEMMA HandlerModifyType ==
  ASSUME TypeOK, NEW cl \in Clients, NEW s \in Servers, NEW new \in Qp, NEW to \in HandlerPcs,
         \/ sqp' = [sqp EXCEPT ![cl][s] = new] /\ Goto(cl, s, to)
         \/ HandlerReturns(cl, s) /\ UNCHANGED sqp,
         UNCHANGED OfHandler, UNCHANGED <<toClient, nextQpn>>
  PROVE  /\ TypeOK'
         /\ \/ Placed(sqp', sqp, cl, s, new) /\ Placed(handler', handler, cl, s, to)
            \/ sqp' = sqp /\ Placed(handler', handler, cl, s, "returned")
<1>1. sqp \in Cells(Qp) BY DEF TypeOK
<1>2. CASE sqp' = [sqp EXCEPT ![cl][s] = new] /\ Goto(cl, s, to)
  <2>1. sqp' \in Cells(Qp) /\ Placed(sqp', sqp, cl, s, new)
    BY <1>1, <1>2, Cell
  <2>2. /\ handler' \in Cells(HandlerPcs) /\ Placed(handler', handler, cl, s, to)
        /\ hungUp' \in Cells(SUBSET {"client", "server"})
    BY <1>2, GotoMoves
  <2> QED BY <2>1, <2>2 DEF TypeOK, OfHandler
<1>3. CASE HandlerReturns(cl, s) /\ UNCHANGED sqp
  <2>1. /\ handler' \in Cells(HandlerPcs) /\ Placed(handler', handler, cl, s, "returned")
        /\ hungUp' \in Cells(SUBSET {"client", "server"})
    BY <1>3, ReturnMoves
  <2> QED BY <1>3, <2>1 DEF TypeOK, OfHandler
<1> QED BY <1>2, <1>3

LEMMA HandlerRtrType ==
  ASSUME TypeOK, Pairing, NEW cl \in Clients, NEW s \in Servers, HandlerRtr(cl, s)
  PROVE  /\ TypeOK' /\ UNCHANGED OfHandler /\ toClient' = toClient
         /\ handler[cl][s] = "rtr" /\ sqp[cl][s] \in Qp /\ toServer[cl][s] \in Info
         /\ \/ /\ Placed(sqp', sqp, cl, s, Rtr(sqp[cl][s], toServer[cl][s]))
               /\ Placed(handler', handler, cl, s, "rts")
            \/ sqp' = sqp /\ Placed(handler', handler, cl, s, "returned")
<1> DEFINE new == Rtr(sqp[cl][s], toServer[cl][s])
<1>1. /\ handler[cl][s] = "rtr" /\ UNCHANGED OfHandler /\ UNCHANGED <<toClient, nextQpn>>
      /\ \/ sqp' = [sqp EXCEPT ![cl][s] = new] /\ Goto(cl, s, "rts")
         \/ HandlerReturns(cl, s) /\ UNCHANGED sqp
  BY DEF HandlerRtr, OfHandler, hostVars
<1>2. sqp[cl][s] \in Qp /\ toServer[cl][s] \in Info \cup {NoInfo}
  BY CellValue DEF TypeOK
<1>3. toServer[cl][s] # NoInfo
  BY <1>1 DEF Pairing, HandlerStage
<1>4. new \in Qp /\ "rts" \in HandlerPcs
  BY <1>2, <1>3, RtrType DEF HandlerPcs
<1> HIDE DEF new
<1>5. /\ TypeOK'
      /\ \/ Placed(sqp', sqp, cl, s, new) /\ Placed(handler', handler, cl, s, "rts")
         \/ sqp' = sqp /\ Placed(handler', handler, cl, s, "returned")
  BY <1>1, <1>4, HandlerModifyType
<1> QED BY <1>1, <1>2, <1>3, <1>5 DEF new

LEMMA HandlerRtsType ==
  ASSUME TypeOK, NEW cl \in Clients, NEW s \in Servers, HandlerRts(cl, s)
  PROVE  /\ TypeOK' /\ UNCHANGED OfHandler /\ toClient' = toClient
         /\ handler[cl][s] = "rts" /\ sqp[cl][s] \in Qp
         /\ \/ /\ Placed(sqp', sqp, cl, s, Rts(sqp[cl][s]))
               /\ Placed(handler', handler, cl, s, "recv")
            \/ sqp' = sqp /\ Placed(handler', handler, cl, s, "returned")
<1> DEFINE new == Rts(sqp[cl][s])
<1>1. /\ handler[cl][s] = "rts" /\ UNCHANGED OfHandler /\ UNCHANGED <<toClient, nextQpn>>
      /\ \/ sqp' = [sqp EXCEPT ![cl][s] = new] /\ Goto(cl, s, "recv")
         \/ HandlerReturns(cl, s) /\ UNCHANGED sqp
  BY DEF HandlerRts, OfHandler, hostVars
<1>2. sqp[cl][s] \in Qp BY CellValue DEF TypeOK
<1>3. new \in Qp /\ "recv" \in HandlerPcs BY <1>2, RtsType DEF HandlerPcs
<1> HIDE DEF new
<1>4. /\ TypeOK'
      /\ \/ Placed(sqp', sqp, cl, s, new) /\ Placed(handler', handler, cl, s, "recv")
         \/ sqp' = sqp /\ Placed(handler', handler, cl, s, "returned")
  BY <1>1, <1>3, HandlerModifyType
<1> QED BY <1>1, <1>2, <1>4 DEF new

-----------------------------------------------------------------------------
(* The invariant.                                                          *)

(* A step that leaves the cells of a client and server alone.              *)
LEMMA CellFrame ==
  ASSUME NEW c \in Clients, NEW t \in Servers,
         InfosMatch(c, t), HandlerStage(c, t),
         handler'[c][t] = handler[c][t],
         toServer'[c][t] = toServer[c][t], toClient'[c][t] = toClient[c][t],
         cqp'[c][t] = cqp[c][t], sqp'[c][t] = sqp[c][t]
  PROVE  InfosMatch(c, t)' /\ HandlerStage(c, t)'
BY DEF InfosMatch, HandlerStage, InfoOf

LEMMA InTurnFrame ==
  ASSUME NEW c \in Clients, InTurn(c), pc'[c] = pc[c], conns'[c] = conns[c],
         \A t \in Servers : /\ handler'[c][t] = handler[c][t] \/ handler[c][t] # "none"
                            /\ toServer'[c][t] = toServer[c][t]
                            /\ cqp'[c][t] = cqp[c][t]
  PROVE  InTurn(c)'
<1>1. Target(c)' = Target(c) BY DEF Target
<1>2. pc[c] \in {"new", "dead", "connecting", "dialed", "waiting", "failed"} => Target(c) \in Servers
  BY DEF InTurn
<1>3. \A t \in Servers : Untouched(c, t) => Untouched(c, t)'
  BY DEF Untouched
<1> QED BY <1>1, <1>2, <1>3 DEF InTurn

(* A step of a handler: what is left to show is about its own cells.       *)
LEMMA HandlerFrame ==
  ASSUME Pairing, NEW cl \in Clients, NEW s \in Servers, NEW to,
         UNCHANGED OfHandler, handler[cl][s] # "none",
         Placed(handler', handler, cl, s, to),
         \A c \in Clients, t \in Servers : c # cl \/ t # s =>
           sqp'[c][t] = sqp[c][t] /\ toClient'[c][t] = toClient[c][t],
         InfosMatch(cl, s)', HandlerStage(cl, s)'
  PROVE  Pairing'
<1>1. ASSUME NEW c \in Clients PROVE InTurn(c)'
  <2>1. InTurn(c) BY DEF Pairing
  <2>2. pc'[c] = pc[c] /\ conns'[c] = conns[c] BY DEF OfHandler
  <2>3. \A t \in Servers : /\ handler'[c][t] = handler[c][t] \/ handler[c][t] # "none"
                           /\ toServer'[c][t] = toServer[c][t]
                           /\ cqp'[c][t] = cqp[c][t]
    BY DEF OfHandler, Placed
  <2> QED BY <2>1, <2>2, <2>3, InTurnFrame
<1>2. ASSUME NEW c \in Clients, NEW t \in Servers
      PROVE InfosMatch(c, t)' /\ HandlerStage(c, t)'
  <2>1. CASE c = cl /\ t = s BY <2>1
  <2>2. CASE c # cl \/ t # s
    <3>1. InfosMatch(c, t) /\ HandlerStage(c, t) BY DEF Pairing
    <3>2. handler'[c][t] = handler[c][t] BY <2>2 DEF Placed
    <3>3. toServer'[c][t] = toServer[c][t] /\ cqp'[c][t] = cqp[c][t] BY DEF OfHandler
    <3> QED BY <2>2, <3>1, <3>2, <3>3, CellFrame
  <2> QED BY <2>1, <2>2
<1> QED BY <1>1, <1>2 DEF Pairing

LEMMA InitPairing == Init => Pairing
<1> SUFFICES ASSUME Init PROVE Pairing
  OBVIOUS
<1>1. \A c \in Clients, t \in Servers :
        /\ handler[c][t] = "none" /\ toServer[c][t] = NoInfo /\ toClient[c][t] = NoInfo
        /\ cqp[c][t] = NoQp /\ sqp[c][t] = NoQp
  <2>1. \A v : \A c \in Clients, t \in Servers : Everywhere(v)[c][t] = v
    BY DEF Everywhere
  <2> QED BY <2>1 DEF Init
<1>2. ASSUME NEW c \in Clients PROVE InTurn(c)
  <2>1. pc[c] = "new" /\ Target(c) = 0 /\ 0 \in Servers
    BY DEF Init, Target, Servers
  <2> QED BY <1>1, <2>1 DEF InTurn, Untouched
<1>3. ASSUME NEW c \in Clients, NEW t \in Servers
      PROVE InfosMatch(c, t) /\ HandlerStage(c, t)
  <2>1. NoQp.state = "none" BY DEF NoQp
  <2> QED BY <1>1, <2>1 DEF InfosMatch, HandlerStage
<1> QED BY <1>2, <1>3 DEF Pairing

LEMMA HandlerPairing ==
  ASSUME TypeOK, Pairing, NEW cl \in Clients, NEW s \in Servers, Handle(cl, s)
  PROVE  TypeOK' /\ Pairing' /\ UNCHANGED OfHandler
<1>1. InfosMatch(cl, s) /\ HandlerStage(cl, s) BY DEF Pairing
<1>2. CASE Accept(cl, s) \/ HandlerEof(cl, s) \/ HandlerRecv(cl, s)
  <2>1. /\ TypeOK' /\ UNCHANGED OfHandler /\ UNCHANGED <<sqp, toClient>>
        /\ handler[cl][s] # "none"
    BY <1>2, HandlerMoveType
  <2>2. PICK to \in {"setup", "serving", "returned"} : Placed(handler', handler, cl, s, to)
    BY <1>2, HandlerMoveType
  <2>3. handler'[cl][s] = to BY <2>2 DEF Placed
  <2>4. to = "setup" => handler[cl][s] = "backlog"
    <3>1. handler \in Cells(HandlerPcs) BY DEF TypeOK
    <3>2. handler'[cl][s] = "setup" => ~HandlerEof(cl, s) /\ ~HandlerRecv(cl, s)
      <4>1. HandlerEof(cl, s) => handler'[cl][s] = "returned"
        BY <3>1 DEF HandlerEof, HandlerReturns, Cells
      <4>2. HandlerRecv(cl, s) => handler'[cl][s] \in {"serving", "returned"}
        BY <3>1 DEF HandlerRecv, HandlerReturns, Goto, Cells
      <4> QED BY <4>1, <4>2
    <3> QED BY <1>2, <2>3, <3>2 DEF Accept
  <2>5. HandlerStage(cl, s)' BY <1>1, <2>1, <2>2, <2>3, <2>4 DEF HandlerStage, OfHandler
  <2>6. InfosMatch(cl, s)' BY <1>1, <2>1 DEF InfosMatch, OfHandler, InfoOf
  <2> QED BY <2>1, <2>2, <2>5, <2>6, HandlerFrame
<1>3. CASE HandlerSetup(cl, s)
  <2>1. TypeOK' /\ UNCHANGED OfHandler /\ toClient' = toClient
    BY <1>3, HandlerSetupType
  <2>2. PICK qp \in Qp :
              /\ qp.state \in {"none", "cq", "reset", "init"}
              /\ Placed(sqp', sqp, cl, s, qp)
              /\ \/ qp.state = "init" /\ Placed(handler', handler, cl, s, "decode")
                 \/ Placed(handler', handler, cl, s, "returned")
    BY <1>3, HandlerSetupType
  <2>3. handler[cl][s] = "setup" /\ toClient[cl][s] = NoInfo
    BY <1>1, <1>3 DEF HandlerSetup, HandlerStage
  <2>4. PICK to \in {"decode", "returned"} :
          Placed(handler', handler, cl, s, to) /\ (to = "decode" => qp.state = "init")
    BY <2>2
  <2>5. handler'[cl][s] = to /\ sqp'[cl][s] = qp BY <2>2, <2>4 DEF Placed
  <2>6. HandlerStage(cl, s)' BY <2>1, <2>2, <2>3, <2>4, <2>5 DEF HandlerStage
  <2>7. InfosMatch(cl, s)' BY <1>1, <2>1, <2>2, <2>3, <2>5 DEF InfosMatch, OfHandler, InfoOf
  <2>8. \A c \in Clients, t \in Servers : c # cl \/ t # s =>
           sqp'[c][t] = sqp[c][t] /\ toClient'[c][t] = toClient[c][t]
    BY <2>1, <2>2 DEF Placed
  <2> QED BY <2>1, <2>3, <2>4, <2>6, <2>7, <2>8, HandlerFrame
<1>4. CASE HandlerReply(cl, s)
  <2>1. /\ TypeOK' /\ UNCHANGED OfHandler
        /\ handler[cl][s] = "decode" /\ toServer[cl][s] # NoInfo
    BY <1>4, HandlerReplyType
  <2>2. sqp[cl][s].state = "init" /\ toClient[cl][s] = NoInfo
    BY <1>1, <2>1 DEF HandlerStage
  <2>3. CASE /\ Placed(handler', handler, cl, s, "rtr")
             /\ \E qp \in Qp :
                  /\ qp.state = sqp[cl][s].state
                  /\ Placed(sqp', sqp, cl, s, qp)
                  /\ Placed(toClient', toClient, cl, s, InfoOf(qp, s))
    <3> PICK qp \in Qp :
                  /\ qp.state = sqp[cl][s].state
                  /\ Placed(sqp', sqp, cl, s, qp)
                  /\ Placed(toClient', toClient, cl, s, InfoOf(qp, s))
      BY <2>3
    <3>1. /\ handler'[cl][s] = "rtr" /\ sqp'[cl][s] = qp /\ toClient'[cl][s] = InfoOf(qp, s)
          /\ toServer'[cl][s] = toServer[cl][s] /\ cqp'[cl][s] = cqp[cl][s]
      BY <2>1, <2>3 DEF Placed, OfHandler
    <3>2. HandlerStage(cl, s)' BY <2>1, <2>2, <3>1 DEF HandlerStage
    <3>3. cqp[cl][s].state \notin {"rtr", "rts"} BY <1>1, <2>2 DEF InfosMatch
    <3>4. InfosMatch(cl, s)'
      BY <1>1, <2>2, <3>1, <3>3 DEF InfosMatch, InfoOf
    <3>5. \A c \in Clients, t \in Servers : c # cl \/ t # s =>
             sqp'[c][t] = sqp[c][t] /\ toClient'[c][t] = toClient[c][t]
      BY DEF Placed
    <3> QED BY <2>1, <2>3, <3>2, <3>4, <3>5, HandlerFrame
  <2>4. CASE Placed(handler', handler, cl, s, "returned") /\ UNCHANGED <<sqp, toClient>>
    <3>1. handler'[cl][s] = "returned" BY <2>4 DEF Placed
    <3>2. HandlerStage(cl, s)' BY <3>1 DEF HandlerStage
    <3>3. InfosMatch(cl, s)' BY <1>1, <2>1, <2>4 DEF InfosMatch, OfHandler, InfoOf
    <3> QED BY <2>1, <2>4, <3>2, <3>3, HandlerFrame
  <2> QED BY <1>4, <2>3, <2>4, HandlerReplyType
<1>5. CASE HandlerRtr(cl, s)
  <2>1. /\ TypeOK' /\ UNCHANGED OfHandler /\ toClient' = toClient
        /\ handler[cl][s] = "rtr" /\ sqp[cl][s] \in Qp /\ toServer[cl][s] \in Info
    BY <1>5, HandlerRtrType
  <2>2. toServer[cl][s] # NoInfo BY <1>1, <2>1 DEF HandlerStage
  <2>3. CASE /\ Placed(sqp', sqp, cl, s, Rtr(sqp[cl][s], toServer[cl][s]))
             /\ Placed(handler', handler, cl, s, "rts")
    <3> DEFINE new == Rtr(sqp[cl][s], toServer[cl][s])
    <3>1. /\ new.state = "rtr" /\ new.peer = toServer[cl][s]
          /\ \A h : InfoOf(new, h) = InfoOf(sqp[cl][s], h)
      BY <2>1, RtrType
    <3> HIDE DEF new
    <3>2. /\ handler'[cl][s] = "rts" /\ sqp'[cl][s] = new /\ toClient'[cl][s] = toClient[cl][s]
          /\ toServer'[cl][s] = toServer[cl][s] /\ cqp'[cl][s] = cqp[cl][s]
      BY <2>1, <2>3 DEF Placed, OfHandler, new
    <3>3. HandlerStage(cl, s)' BY <2>2, <3>1, <3>2 DEF HandlerStage
    <3>4. toClient[cl][s] \in {NoInfo, InfoOf(new, s)}
      BY <1>1, <3>1 DEF InfosMatch
    <3>5. InfosMatch(cl, s)'
      <4>1. InfoOf(cqp[cl][s], cl)' = InfoOf(cqp[cl][s], cl) /\ InfoOf(sqp[cl][s], s)' = InfoOf(new, s)
        BY <3>2 DEF InfoOf
      <4> QED BY <1>1, <2>2, <3>1, <3>2, <3>4, <4>1 DEF InfosMatch
    <3>6. \A c \in Clients, t \in Servers : c # cl \/ t # s =>
             sqp'[c][t] = sqp[c][t] /\ toClient'[c][t] = toClient[c][t]
      BY <2>1, <2>3 DEF Placed
    <3> QED BY <2>1, <2>3, <3>3, <3>5, <3>6, HandlerFrame
  <2>4. CASE sqp' = sqp /\ Placed(handler', handler, cl, s, "returned")
    <3>1. handler'[cl][s] = "returned" BY <2>4 DEF Placed
    <3>2. HandlerStage(cl, s)' BY <3>1 DEF HandlerStage
    <3>3. InfosMatch(cl, s)' BY <1>1, <2>1, <2>4 DEF InfosMatch, OfHandler, InfoOf
    <3> QED BY <2>1, <2>4, <3>2, <3>3, HandlerFrame
  <2> QED BY <1>5, <2>3, <2>4, HandlerRtrType
<1>6. CASE HandlerRts(cl, s)
  <2>1. /\ TypeOK' /\ UNCHANGED OfHandler /\ toClient' = toClient
        /\ handler[cl][s] = "rts" /\ sqp[cl][s] \in Qp
    BY <1>6, HandlerRtsType
  <2>2. /\ sqp[cl][s].state = "rtr" /\ toServer[cl][s] # NoInfo
        /\ sqp[cl][s].peer = toServer[cl][s]
    BY <1>1, <2>1 DEF HandlerStage, InfosMatch
  <2>3. CASE /\ Placed(sqp', sqp, cl, s, Rts(sqp[cl][s]))
             /\ Placed(handler', handler, cl, s, "recv")
    <3> DEFINE new == Rts(sqp[cl][s])
    <3>1. /\ new.state = "rts" /\ new.peer = sqp[cl][s].peer /\ new.sqPsn = new.psn
          /\ \A h : InfoOf(new, h) = InfoOf(sqp[cl][s], h)
      BY <2>1, RtsType
    <3> HIDE DEF new
    <3>2. /\ handler'[cl][s] = "recv" /\ sqp'[cl][s] = new /\ toClient'[cl][s] = toClient[cl][s]
          /\ toServer'[cl][s] = toServer[cl][s] /\ cqp'[cl][s] = cqp[cl][s]
      BY <2>1, <2>3 DEF Placed, OfHandler, new
    <3>3. HandlerStage(cl, s)' BY <3>2 DEF HandlerStage
    <3>4. toClient[cl][s] \in {NoInfo, InfoOf(new, s)}
      BY <1>1, <3>1 DEF InfosMatch
    <3>5. InfosMatch(cl, s)'
      <4>1. InfoOf(cqp[cl][s], cl)' = InfoOf(cqp[cl][s], cl) /\ InfoOf(sqp[cl][s], s)' = InfoOf(new, s)
        BY <3>2 DEF InfoOf
      <4> QED BY <1>1, <2>2, <3>1, <3>2, <3>4, <4>1 DEF InfosMatch
    <3>6. \A c \in Clients, t \in Servers : c # cl \/ t # s =>
             sqp'[c][t] = sqp[c][t] /\ toClient'[c][t] = toClient[c][t]
      BY <2>1, <2>3 DEF Placed
    <3> QED BY <2>1, <2>3, <3>3, <3>5, <3>6, HandlerFrame
  <2>4. CASE sqp' = sqp /\ Placed(handler', handler, cl, s, "returned")
    <3>1. handler'[cl][s] = "returned" BY <2>4 DEF Placed
    <3>2. HandlerStage(cl, s)' BY <3>1 DEF HandlerStage
    <3>3. InfosMatch(cl, s)' BY <1>1, <2>1, <2>4 DEF InfosMatch, OfHandler, InfoOf
    <3> QED BY <2>1, <2>4, <3>2, <3>3, HandlerFrame
  <2> QED BY <1>6, <2>3, <2>4, HandlerRtsType
<1> QED BY <1>2, <1>3, <1>4, <1>5, <1>6 DEF Handle

(* The properties for one client.                                          *)
InPlace(cl) ==
  pc[cl] # "closed" =>
    \A i \in 1 .. Len(conns[cl]) :
      /\ conns[cl][i].host = i - 1
      /\ cqp[cl][i - 1].state = "rts"
      /\ cqp[cl][i - 1].peer = conns[cl][i]

Released(cl) ==
  pc[cl] = "closed" =>
    /\ \A s \in Servers : Alive(cqp[cl][s]) => s = Target(cl)
    /\ (\A s \in Servers : ~HasQp(cqp[cl][s])) => device[cl] = {}

LEMMA HandlerKeeps ==
  ASSUME HsInv, NEW cl \in Clients, NEW s \in Servers, Handle(cl, s)
  PROVE  HsInv'
<1>1. TypeOK' /\ Pairing' /\ UNCHANGED OfHandler
  BY HandlerPairing DEF HsInv
<1>2. UNCHANGED <<pc, conns, cqp, device>> BY <1>1 DEF OfHandler
<1>3. ShardsInPlace' BY <1>2 DEF HsInv, ShardsInPlace
<1>4. CloseReleases' BY <1>2 DEF HsInv, CloseReleases, Target
<1> QED BY <1>1, <1>3, <1>4 DEF HsInv

(* A step of a client: what is left to show is about that client.          *)
LEMMA ClientFrame ==
  ASSUME HsInv, NEW cl \in Clients,
         TypeOK', UNCHANGED <<sqp, toClient>>,
         \A c \in Clients : c # cl =>
           /\ pc'[c] = pc[c] /\ conns'[c] = conns[c] /\ device'[c] = device[c]
           /\ \A t \in Servers : /\ handler'[c][t] = handler[c][t]
                                 /\ toServer'[c][t] = toServer[c][t]
                                 /\ cqp'[c][t] = cqp[c][t],
         InTurn(cl)',
         \A t \in Servers : InfosMatch(cl, t)' /\ HandlerStage(cl, t)',
         InPlace(cl)', Released(cl)'
  PROVE  HsInv'
<1>1. ASSUME NEW c \in Clients, c # cl
      PROVE  /\ InTurn(c)' /\ InPlace(c)' /\ Released(c)'
             /\ \A t \in Servers : InfosMatch(c, t)' /\ HandlerStage(c, t)'
  <2>1. /\ InTurn(c) /\ InPlace(c) /\ Released(c)
        /\ \A t \in Servers : InfosMatch(c, t) /\ HandlerStage(c, t)
    BY DEF HsInv, Pairing, ShardsInPlace, CloseReleases, InPlace, Released
  <2>2. InTurn(c)' BY <1>1, <2>1, InTurnFrame
  <2>3. \A t \in Servers : InfosMatch(c, t)' /\ HandlerStage(c, t)'
    BY <1>1, <2>1, CellFrame
  <2>4. InPlace(c)'
    <3>1. \A i \in 1 .. Len(conns[c]) : i - 1 \in Servers
      <4>1. Len(conns[c]) <= NumServers /\ conns[c] \in Seq(Info)
        BY DEF HsInv, TypeOK
      <4> QED BY <4>1 DEF Servers
    <3> QED BY <1>1, <2>1, <3>1 DEF InPlace
  <2>5. Released(c)' BY <1>1, <2>1 DEF Released, Target
  <2> QED BY <2>2, <2>3, <2>4, <2>5
<1>2. Pairing' BY <1>1 DEF Pairing
<1>3. ShardsInPlace' BY <1>1 DEF ShardsInPlace, InPlace
<1>4. CloseReleases' BY <1>1 DEF CloseReleases, Released
<1> QED BY <1>2, <1>3, <1>4 DEF HsInv

LEMMA NewClientKeeps ==
  ASSUME HsInv, NEW cl \in Clients, NewClient(cl)
  PROVE  HsInv'
<1> USE DEF ClientPcs
<1>1. TypeOK /\ InTurn(cl) /\ InPlace(cl)
        /\ \A t \in Servers : InfosMatch(cl, t) /\ HandlerStage(cl, t)
  BY DEF HsInv, Pairing, ShardsInPlace, InPlace
<1>2. UNCHANGED <<listening, conns, handler, toServer, toClient, hungUp, cqp, sqp, nextQpn>>
  BY DEF NewClient, NewContext, RegisterMR
<1>3. /\ pc' \in [Clients -> ClientPcs] /\ device' \in [Clients -> SUBSET {"ctx", "pd", "mr"}]
      /\ pc[cl] = "new" /\ pc'[cl] \in {"connecting", "dead"}
      /\ \A c \in Clients : c # cl => pc'[c] = pc[c] /\ device'[c] = device[c]
  <2>1. pc \in [Clients -> ClientPcs] /\ device \in [Clients -> SUBSET {"ctx", "pd", "mr"}]
    BY <1>1 DEF TypeOK
  <2>2. PICK d \in SUBSET {"ctx", "pd", "mr"}, p \in {"connecting", "dead"} :
          /\ pc[cl] = "new" /\ pc' = [pc EXCEPT ![cl] = p]
          /\ device' = [device EXCEPT ![cl] = d]
    <3>1. CASE /\ device' = [device EXCEPT ![cl] = {"ctx", "pd", "mr"}]
               /\ pc' = [pc EXCEPT ![cl] = "connecting"]
      BY <3>1 DEF NewClient, NewContext, RegisterMR
    <3>2. CASE /\ \E d \in {{}, {"ctx", "pd"}} : device' = [device EXCEPT ![cl] = d]
               /\ pc' = [pc EXCEPT ![cl] = "dead"]
      <4>1. PICK d \in {{}, {"ctx", "pd"}} : device' = [device EXCEPT ![cl] = d]
        BY <3>2
      <4>2. d \in SUBSET {"ctx", "pd", "mr"} OBVIOUS
      <4> QED BY <3>2, <4>1, <4>2 DEF NewClient, NewContext, RegisterMR
    <3> QED BY <3>1, <3>2 DEF NewClient, NewContext, RegisterMR
  <2> QED BY <2>1, <2>2
<1>4. TypeOK' BY <1>1, <1>2, <1>3 DEF TypeOK
<1>5. InTurn(cl)' BY <1>1, <1>2, <1>3 DEF InTurn, Target, Untouched
<1>6. \A t \in Servers : InfosMatch(cl, t)' /\ HandlerStage(cl, t)'
  BY <1>1, <1>2, CellFrame
<1>7. InPlace(cl)' /\ Released(cl)' BY <1>1, <1>2, <1>3 DEF InPlace, Released
<1> QED BY <1>2, <1>3, <1>4, <1>5, <1>6, <1>7, ClientFrame

LEMMA DialKeeps ==
  ASSUME HsInv, NEW cl \in Clients, Dial(cl)
  PROVE  HsInv'
<1> USE DEF ClientPcs
<1> DEFINE s == Target(cl)
<1>1. TypeOK /\ InTurn(cl) /\ InPlace(cl)
        /\ \A t \in Servers : InfosMatch(cl, t) /\ HandlerStage(cl, t)
  BY DEF HsInv, Pairing, ShardsInPlace, InPlace
<1>2. UNCHANGED <<listening, device, conns, toServer, toClient, hungUp, cqp, sqp, nextQpn>>
  BY DEF Dial, hostVars
<1>3. pc[cl] = "connecting" /\ s \in Servers /\ Untouched(cl, s)
  BY <1>1 DEF Dial, InTurn
<1>4. CASE /\ pc' = [pc EXCEPT ![cl] = "dialed"]
           /\ handler' = [handler EXCEPT ![cl][s] = "backlog"]
  <2>1. handler \in Cells(HandlerPcs) /\ "backlog" \in HandlerPcs
    BY <1>1 DEF TypeOK, HandlerPcs
  <2>2. handler' \in Cells(HandlerPcs) /\ Placed(handler', handler, cl, s, "backlog")
    BY <1>3, <1>4, <2>1, Cell
  <2>3. /\ pc' \in [Clients -> ClientPcs] /\ pc'[cl] = "dialed"
        /\ \A c \in Clients : c # cl => pc'[c] = pc[c]
    BY <1>1, <1>4 DEF TypeOK
  <2>4. TypeOK' BY <1>1, <1>2, <2>2, <2>3 DEF TypeOK
  <2>5. Target(cl)' = s BY <1>2 DEF Target
  <2>6. InTurn(cl)'
    <3>1. \A t \in Servers : t > s => Untouched(cl, t)'
      <4>1. ASSUME NEW t \in Servers, t > s PROVE Untouched(cl, t)'
        <5>1. t # s BY <4>1, <1>3 DEF Servers
        <5> QED BY <1>1, <1>2, <2>2, <4>1, <5>1 DEF InTurn, Untouched, Placed
      <4> QED BY <4>1
    <3>2. toServer'[cl][s] = NoInfo /\ cqp'[cl][s] = NoQp
      BY <1>2, <1>3 DEF Untouched
    <3> QED BY <1>3, <2>3, <2>5, <3>1, <3>2 DEF InTurn
  <2>7. ASSUME NEW t \in Servers PROVE InfosMatch(cl, t)' /\ HandlerStage(cl, t)'
    <3>1. CASE t = s
      <4>1. handler'[cl][t] = "backlog" /\ handler[cl][t] = "none"
        BY <1>3, <2>2, <3>1 DEF Placed, Untouched
      <4>2. InfosMatch(cl, t) /\ HandlerStage(cl, t) BY <1>1
      <4>3. HandlerStage(cl, t)' BY <1>2, <4>1, <4>2 DEF HandlerStage
      <4>4. InfosMatch(cl, t)' BY <1>2, <4>2 DEF InfosMatch, InfoOf
      <4> QED BY <4>3, <4>4
    <3>2. CASE t # s
      <4>1. handler'[cl][t] = handler[cl][t] BY <2>2, <3>2 DEF Placed
      <4> QED BY <1>1, <1>2, <4>1, CellFrame
    <3> QED BY <3>1, <3>2
  <2>8. InPlace(cl)' /\ Released(cl)' BY <1>1, <1>2, <1>3, <2>3 DEF InPlace, Released
  <2>9. \A c \in Clients : c # cl => \A t \in Servers : handler'[c][t] = handler[c][t]
    BY <2>2 DEF Placed
  <2> QED BY <1>2, <2>3, <2>4, <2>6, <2>7, <2>8, <2>9, ClientFrame
<1>5. CASE FailConnect(cl) /\ UNCHANGED handler
  <2>1. /\ pc' \in [Clients -> ClientPcs] /\ pc'[cl] = "failed"
        /\ \A c \in Clients : c # cl => pc'[c] = pc[c]
    BY <1>1, <1>5 DEF TypeOK, FailConnect
  <2>2. TypeOK' BY <1>1, <1>2, <1>5, <2>1 DEF TypeOK
  <2>3. InTurn(cl)' BY <1>1, <1>2, <1>3, <1>5, <2>1 DEF InTurn, Target, Untouched
  <2>4. \A t \in Servers : InfosMatch(cl, t)' /\ HandlerStage(cl, t)'
    BY <1>1, <1>2, <1>5, CellFrame
  <2>5. InPlace(cl)' /\ Released(cl)' BY <1>1, <1>2, <1>3, <2>1 DEF InPlace, Released
  <2> QED BY <1>2, <1>5, <2>1, <2>2, <2>3, <2>4, <2>5, ClientFrame
<1> QED BY <1>4, <1>5 DEF Dial

LEMMA ClientEofKeeps ==
  ASSUME HsInv, NEW cl \in Clients, ClientEof(cl)
  PROVE  HsInv'
<1> USE DEF ClientPcs
<1> DEFINE s == Target(cl)
<1>1. TypeOK /\ InTurn(cl) /\ InPlace(cl)
        /\ \A t \in Servers : InfosMatch(cl, t) /\ HandlerStage(cl, t)
  BY DEF HsInv, Pairing, ShardsInPlace, InPlace
<1>2. UNCHANGED <<listening, device, conns, handler, toServer, toClient, cqp, sqp, nextQpn>>
  BY DEF ClientEof, hostVars
<1>3. pc[cl] = "waiting" /\ s \in Servers
  BY <1>1 DEF ClientEof, InTurn
<1>4. hungUp' \in Cells(SUBSET {"client", "server"})
  <2>1. HangUp("client", cl, s) BY DEF ClientEof
  <2> QED BY <1>1, <1>3, <2>1, HangUpType
<1>5. /\ pc' \in [Clients -> ClientPcs] /\ pc'[cl] = "failed"
      /\ \A c \in Clients : c # cl => pc'[c] = pc[c]
  BY <1>1 DEF TypeOK, FailConnect, ClientEof
<1>6. TypeOK' BY <1>1, <1>2, <1>4, <1>5 DEF TypeOK
<1>7. InTurn(cl)' BY <1>1, <1>2, <1>3, <1>5 DEF InTurn, Target, Untouched
<1>8. \A t \in Servers : InfosMatch(cl, t)' /\ HandlerStage(cl, t)'
  BY <1>1, <1>2, CellFrame
<1>9. InPlace(cl)' /\ Released(cl)' BY <1>1, <1>2, <1>3, <1>5 DEF InPlace, Released
<1> QED BY <1>2, <1>5, <1>6, <1>7, <1>8, <1>9, ClientFrame

LEMMA ClientSetupKeeps ==
  ASSUME HsInv, NEW cl \in Clients, ClientSetup(cl)
  PROVE  HsInv'
<1> DEFINE s == Target(cl)
<1>1. TypeOK /\ InTurn(cl) /\ InPlace(cl)
        /\ \A t \in Servers : InfosMatch(cl, t) /\ HandlerStage(cl, t)
  BY DEF HsInv, Pairing, ShardsInPlace, InPlace
<1>2. UNCHANGED <<listening, device, conns, handler, toClient, sqp>>
  BY DEF ClientSetup, hostVars
<1>3. /\ pc[cl] = "dialed" /\ s \in Servers /\ s = Len(conns[cl])
      /\ toServer[cl][s] = NoInfo /\ cqp[cl][s] = NoQp
  BY <1>1 DEF ClientSetup, InTurn, Target
<1>4. /\ TypeOK'
      /\ pc'[cl] \in {"waiting", "failed"} /\ \A c \in Clients \ {cl} : pc'[c] = pc[c]
  BY <1>1, <1>3, ClientSetupType
<1>5. PICK qp \in Qp :
        /\ qp.state \in {"none", "cq", "reset", "init"}
        /\ Placed(cqp', cqp, cl, s, qp)
        /\ \/ /\ pc'[cl] = "waiting" /\ qp.state = "init"
              /\ Placed(toServer', toServer, cl, s, InfoOf(qp, cl))
           \/ pc'[cl] = "failed" /\ toServer' = toServer
  BY <1>1, <1>3, ClientSetupType
<1>6. /\ cqp'[cl][s] = qp /\ toServer'[cl][s] \in {NoInfo, InfoOf(qp, cl)}
      /\ pc'[cl] = "waiting" => qp.state = "init"
      /\ \A t \in Servers : t # s => cqp'[cl][t] = cqp[cl][t] /\ toServer'[cl][t] = toServer[cl][t]
      /\ \A c \in Clients : c # cl => \A t \in Servers :
           cqp'[c][t] = cqp[c][t] /\ toServer'[c][t] = toServer[c][t]
  BY <1>3, <1>5 DEF Placed
<1>7. Target(cl)' = s BY <1>2 DEF Target
<1>8. InTurn(cl)'
  <2>1. ASSUME NEW t \in Servers, t > s PROVE Untouched(cl, t)'
    <3>1. t # s BY <1>3, <2>1 DEF Servers
    <3> QED BY <1>1, <1>2, <1>6, <2>1, <3>1 DEF InTurn, Untouched
  <2> QED BY <1>3, <1>4, <1>6, <1>7, <2>1 DEF InTurn
<1>9. ASSUME NEW t \in Servers PROVE InfosMatch(cl, t)' /\ HandlerStage(cl, t)'
  <2>1. InfosMatch(cl, t) /\ HandlerStage(cl, t) BY <1>1
  <2>2. CASE t # s BY <1>2, <1>6, <2>1, <2>2, CellFrame
  <2>3. CASE t = s
    <3>1. cqp'[cl][t] = qp /\ toServer'[cl][t] \in {NoInfo, InfoOf(qp, cl)} /\ toServer[cl][t] = NoInfo
      BY <1>3, <1>6, <2>3
    <3>2. sqp[cl][t].state \notin {"rtr", "rts"} /\ handler[cl][t] \notin {"rtr", "rts"}
      BY <2>1, <3>1 DEF InfosMatch, HandlerStage
    <3>3. HandlerStage(cl, t)' BY <1>2, <2>1, <3>2 DEF HandlerStage
    <3>4. InfoOf(cqp[cl][t], cl)' = InfoOf(qp, cl) /\ InfoOf(sqp[cl][t], t)' = InfoOf(sqp[cl][t], t)
      BY <1>2, <3>1 DEF InfoOf
    <3>5. InfosMatch(cl, t)' BY <1>2, <1>5, <2>1, <3>1, <3>2, <3>4 DEF InfosMatch
    <3> QED BY <3>3, <3>5
  <2> QED BY <2>2, <2>3
<1>10. InPlace(cl)'
  <2>1. \A i \in 1 .. Len(conns[cl]) : i - 1 \in Servers /\ i - 1 # s
    <3>1. Len(conns[cl]) <= NumServers /\ conns[cl] \in Seq(Info)
      BY <1>1 DEF TypeOK
    <3> QED BY <1>3, <3>1 DEF Servers
  <2> QED BY <1>1, <1>2, <1>3, <1>6, <2>1 DEF InPlace
<1>11. Released(cl)' BY <1>4 DEF Released
<1> QED BY <1>2, <1>4, <1>6, <1>8, <1>9, <1>10, <1>11, ClientFrame

LEMMA CloseKeeps ==
  ASSUME HsInv, NEW cl \in Clients, Close(cl)
  PROVE  HsInv'
<1>1. TypeOK /\ InTurn(cl) /\ InPlace(cl)
        /\ \A t \in Servers : InfosMatch(cl, t) /\ HandlerStage(cl, t)
  BY DEF HsInv, Pairing, ShardsInPlace, InPlace
<1>2. UNCHANGED <<listening, conns, handler, toServer, toClient, hungUp, sqp, nextQpn>>
  BY DEF Close
<1>3. /\ TypeOK'
      /\ pc'[cl] = "closed" /\ \A c \in Clients \ {cl} : pc'[c] = pc[c]
      /\ \A c \in Clients \ {cl} : device'[c] = device[c] /\ cqp'[c] = cqp[c]
      /\ \A s \in Servers : cqp'[cl][s] =
           IF s \in ToDestroy(cl) THEN CloseConn(cqp[cl][s]) ELSE cqp[cl][s]
      /\ (\A s \in Servers : ~HasQp(cqp'[cl][s])) => device'[cl] = {}
  BY <1>1, CloseType
<1>4. pc[cl] \in {"connected", "failed"} BY DEF Close
<1>5. /\ Len(conns[cl]) \in Nat /\ Len(conns[cl]) <= NumServers
      /\ \A s \in Servers : cqp[cl][s] \in Qp
  <2>1. conns[cl] \in Seq(Info) /\ Len(conns[cl]) <= NumServers /\ cqp \in Cells(Qp)
    BY <1>1 DEF TypeOK
  <2> QED BY <2>1, CellValue
<1>6. ToDestroy(cl) \subseteq Servers /\ ToDestroy(cl) = 0 .. (Len(conns[cl]) - 1)
  BY <1>5 DEF ToDestroy, Servers
<1>7. Target(cl)' = Target(cl) /\ Target(cl) = Len(conns[cl]) BY <1>2 DEF Target
<1>8. \A t \in Servers : t > Target(cl) => t \notin ToDestroy(cl)
  BY <1>5, <1>6, <1>7 DEF Servers
<1>9. InTurn(cl)' BY <1>1, <1>2, <1>3, <1>7, <1>8 DEF InTurn, Untouched
<1>10. ASSUME NEW t \in Servers PROVE InfosMatch(cl, t)' /\ HandlerStage(cl, t)'
  <2>1. InfosMatch(cl, t) /\ HandlerStage(cl, t) BY <1>1
  <2>2. CASE t \notin ToDestroy(cl)
    <3>1. cqp'[cl][t] = cqp[cl][t] BY <1>3, <2>2
    <3> QED BY <1>2, <2>1, <3>1, CellFrame
  <2>3. CASE t \in ToDestroy(cl)
    <3>1. cqp'[cl][t] = CloseConn(cqp[cl][t]) BY <1>3, <2>3
    <3>2. /\ cqp'[cl][t].state \notin {"rtr", "rts"}
          /\ InfoOf(cqp[cl][t], cl)' = InfoOf(cqp[cl][t], cl)
      BY <1>5, <3>1, CloseConnType DEF InfoOf
    <3>3. InfoOf(sqp[cl][t], t)' = InfoOf(sqp[cl][t], t) BY <1>2 DEF InfoOf
    <3>4. InfosMatch(cl, t)' BY <1>2, <2>1, <3>2, <3>3 DEF InfosMatch
    <3>5. HandlerStage(cl, t)' BY <1>2, <2>1 DEF HandlerStage
    <3> QED BY <3>4, <3>5
  <2> QED BY <2>2, <2>3
<1>11. InPlace(cl)' BY <1>3 DEF InPlace
<1>12. Released(cl)'
  <2>1. ASSUME NEW t \in Servers, Alive(cqp'[cl][t]) PROVE t = Target(cl)
    <3>1. CASE t \in ToDestroy(cl)
      <4>1. t + 1 \in 1 .. Len(conns[cl]) /\ (t + 1) - 1 = t
        BY <1>5, <1>6, <3>1
      <4>2. cqp[cl][t].state = "rts" BY <1>1, <1>4, <4>1 DEF InPlace
      <4>3. ~Alive(CloseConn(cqp[cl][t]))
        BY <1>5, <4>2, CloseConnType DEF HasQp
      <4> QED BY <1>3, <2>1, <3>1, <4>3
    <3>2. CASE t > Target(cl)
      <4>1. cqp'[cl][t] = NoQp BY <1>1, <1>3, <1>8, <3>2 DEF InTurn, Untouched
      <4> QED BY <2>1, <4>1 DEF Alive, NoQp
    <3> QED BY <1>5, <1>6, <1>7, <3>1, <3>2 DEF Servers
  <2> QED BY <1>3, <1>7, <2>1 DEF Released
<1> QED BY <1>2, <1>3, <1>9, <1>10, <1>11, <1>12, ClientFrame

LEMMA ClientFinishKeeps ==
  ASSUME HsInv, NEW cl \in Clients, ClientFinish(cl)
  PROVE  HsInv'
<1> DEFINE s == Target(cl)
           info == toClient[cl][s]
           qp == cqp[cl][s]
<1>1. TypeOK /\ InTurn(cl) /\ InPlace(cl)
        /\ \A t \in Servers : InfosMatch(cl, t) /\ HandlerStage(cl, t)
  BY DEF HsInv, Pairing, ShardsInPlace, InPlace
<1>2. UNCHANGED <<listening, device, handler, toServer, toClient, sqp>>
  BY DEF ClientFinish, hostVars
<1>3. /\ pc[cl] = "waiting" /\ s \in Servers /\ s = Len(conns[cl]) /\ qp.state = "init"
      /\ info # NoInfo /\ conns[cl] \in Seq(Info) /\ Len(conns[cl]) <= NumServers
  BY <1>1 DEF ClientFinish, InTurn, Target, TypeOK
<1>4. /\ TypeOK'
      /\ qp \in Qp /\ info \in Info
      /\ \A c \in Clients \ {cl} : pc'[c] = pc[c] /\ conns'[c] = conns[c]
      /\ \/ /\ Placed(cqp', cqp, cl, s, Rts(Rtr(qp, info)))
            /\ conns'[cl] = Append(conns[cl], info)
            /\ pc'[cl] = IF s + 1 = NumServers THEN "connected" ELSE "connecting"
         \/ /\ cqp' = cqp \/ Placed(cqp', cqp, cl, s, Rtr(qp, info))
            /\ conns'[cl] = conns[cl] /\ pc'[cl] = "failed"
  BY <1>1, <1>3, ClientFinishType
<1>5. info = InfoOf(sqp[cl][s], s) /\ info.host = s
  <2>1. info \in {NoInfo, InfoOf(sqp[cl][s], s)} BY <1>1, <1>3 DEF InfosMatch
  <2> QED BY <1>3, <2>1 DEF InfoOf
(* Whatever QP the step leaves at s, the others are as before.             *)
<1>6. ASSUME NEW q \in Qp, \A h : InfoOf(q, h) = InfoOf(qp, h),
             q.state \in {"rtr", "rts"} => q.peer = info,
             q.state = "rts" => q.sqPsn = q.psn,
             Placed(cqp', cqp, cl, s, q)
      PROVE  /\ \A t \in Servers : InfosMatch(cl, t)' /\ HandlerStage(cl, t)'
             /\ \A t \in Servers : t # s => cqp'[cl][t] = cqp[cl][t]
             /\ cqp'[cl][s] = q
             /\ \A c \in Clients : c # cl => \A t \in Servers : cqp'[c][t] = cqp[c][t]
  <2>1. /\ \A t \in Servers : t # s => cqp'[cl][t] = cqp[cl][t]
        /\ cqp'[cl][s] = q
        /\ \A c \in Clients : c # cl => \A t \in Servers : cqp'[c][t] = cqp[c][t]
    BY <1>3, <1>6 DEF Placed
  <2>2. ASSUME NEW t \in Servers PROVE InfosMatch(cl, t)' /\ HandlerStage(cl, t)'
    <3>1. InfosMatch(cl, t) /\ HandlerStage(cl, t) BY <1>1
    <3>2. CASE t # s BY <1>2, <2>1, <3>1, <3>2, CellFrame
    <3>3. CASE t = s
      <4>1. cqp'[cl][t] = q /\ toClient[cl][t] = info /\ info # NoInfo
        BY <1>3, <2>1, <3>3
      <4>2. InfoOf(cqp[cl][t], cl)' = InfoOf(cqp[cl][t], cl) /\ InfoOf(sqp[cl][t], t)' = InfoOf(sqp[cl][t], t)
        <5>1. InfoOf(cqp[cl][t], cl)' = InfoOf(q, cl) BY <4>1 DEF InfoOf
        <5> QED BY <1>2, <1>6, <3>3, <5>1 DEF InfoOf
      <4>3. InfosMatch(cl, t)' BY <1>2, <1>6, <3>1, <4>1, <4>2 DEF InfosMatch
      <4>4. HandlerStage(cl, t)' BY <1>2, <3>1 DEF HandlerStage
      <4> QED BY <4>3, <4>4
    <3> QED BY <3>2, <3>3
  <2> QED BY <2>1, <2>2
<1>7. CASE /\ Placed(cqp', cqp, cl, s, Rts(Rtr(qp, info)))
           /\ conns'[cl] = Append(conns[cl], info)
           /\ pc'[cl] = IF s + 1 = NumServers THEN "connected" ELSE "connecting"
  <2> DEFINE new == Rts(Rtr(qp, info))
  <2>1. /\ new \in Qp /\ new.state = "rts" /\ new.peer = info /\ new.sqPsn = new.psn
        /\ \A h : InfoOf(new, h) = InfoOf(qp, h)
    BY <1>4, RtrType, RtsType
  <2>2. Placed(cqp', cqp, cl, s, new) BY <1>7
  <2> HIDE DEF new
  <2>3. /\ \A t \in Servers : InfosMatch(cl, t)' /\ HandlerStage(cl, t)'
        /\ \A t \in Servers : t # s => cqp'[cl][t] = cqp[cl][t]
        /\ cqp'[cl][s] = new
        /\ \A c \in Clients : c # cl => \A t \in Servers : cqp'[c][t] = cqp[c][t]
    BY <1>6, <2>1, <2>2
  <2>4. Target(cl)' = s + 1 /\ Len(conns'[cl]) = s + 1
    BY <1>3, <1>4, <1>7 DEF Target
  <2>5. InTurn(cl)'
    <3>1. \A t \in Servers : t > s => Untouched(cl, t)'
      <4>1. ASSUME NEW t \in Servers, t > s PROVE Untouched(cl, t)'
        <5>1. t # s BY <1>3, <4>1 DEF Servers
        <5> QED BY <1>1, <1>2, <2>3, <4>1, <5>1 DEF InTurn, Untouched
      <4> QED BY <4>1
    <3>2. CASE s + 1 = NumServers
      <4>1. pc'[cl] = "connected" BY <1>7, <3>2
      <4>2. \A t \in Servers : t > s + 1 => t > s BY <1>3 DEF Servers
      <4> QED BY <2>4, <3>1, <4>1, <4>2 DEF InTurn
    <3>3. CASE s + 1 # NumServers
      <4>1. pc'[cl] = "connecting" BY <1>7, <3>3
      <4>2. s + 1 \in Servers /\ \A t \in Servers : t >= s + 1 => t > s
        BY <1>3, <3>3, ServersAssumption DEF Servers
      <4> QED BY <2>4, <3>1, <4>1, <4>2 DEF InTurn, Servers
    <3> QED BY <3>2, <3>3
  <2>6. InPlace(cl)'
    <3>1. ASSUME NEW i \in 1 .. Len(conns'[cl])
          PROVE  /\ conns'[cl][i].host = i - 1
                 /\ cqp'[cl][i - 1].state = "rts"
                 /\ cqp'[cl][i - 1].peer = conns'[cl][i]
      <4>1. CASE i = s + 1
        <5>1. conns'[cl][i] = info /\ i - 1 = s BY <1>3, <1>4, <1>7, <4>1
        <5> QED BY <1>5, <2>1, <2>3, <5>1
      <4>2. CASE i # s + 1
        <5>1. i \in 1 .. Len(conns[cl]) /\ i - 1 \in Servers /\ i - 1 # s
          BY <1>3, <2>4, <4>2 DEF Servers
        <5>2. conns'[cl][i] = conns[cl][i] BY <1>3, <1>4, <1>7, <5>1
        <5> QED BY <1>1, <1>3, <2>3, <5>1, <5>2 DEF InPlace
      <4> QED BY <4>1, <4>2
    <3> QED BY <3>1 DEF InPlace
  <2>7. Released(cl)' BY <1>7 DEF Released
  <2>8. \A c \in Clients : c # cl => /\ pc'[c] = pc[c] /\ conns'[c] = conns[c] /\ device'[c] = device[c]
                                     /\ \A t \in Servers : /\ handler'[c][t] = handler[c][t]
                                                           /\ toServer'[c][t] = toServer[c][t]
                                                           /\ cqp'[c][t] = cqp[c][t]
    BY <1>2, <1>4, <2>3
  <2> QED BY <1>2, <1>4, <2>3, <2>5, <2>6, <2>7, <2>8, ClientFrame
<1>8. CASE /\ cqp' = cqp \/ Placed(cqp', cqp, cl, s, Rtr(qp, info))
           /\ conns'[cl] = conns[cl] /\ pc'[cl] = "failed"
  <2>1. PICK q \in Qp : /\ \A h : InfoOf(q, h) = InfoOf(qp, h)
                        /\ q.state \in {"init", "rtr"}
                        /\ q.state = "rtr" => q.peer = info
                        /\ Placed(cqp', cqp, cl, s, q)
    <3>1. CASE cqp' = cqp
      <4>1. Placed(cqp', cqp, cl, s, qp) BY <3>1 DEF Placed
      <4> QED BY <1>3, <1>4, <4>1
    <3>2. CASE Placed(cqp', cqp, cl, s, Rtr(qp, info))
      BY <1>4, <3>2, RtrType
    <3> QED BY <1>8, <3>1, <3>2
  <2>2. /\ \A t \in Servers : InfosMatch(cl, t)' /\ HandlerStage(cl, t)'
        /\ \A t \in Servers : t # s => cqp'[cl][t] = cqp[cl][t]
        /\ cqp'[cl][s] = q
        /\ \A c \in Clients : c # cl => \A t \in Servers : cqp'[c][t] = cqp[c][t]
    BY <1>6, <2>1
  <2>3. Target(cl)' = s BY <1>8 DEF Target
  <2>4. InTurn(cl)'
    <3>1. ASSUME NEW t \in Servers, t > s PROVE Untouched(cl, t)'
      <4>1. t # s BY <1>3, <3>1 DEF Servers
      <4> QED BY <1>1, <1>2, <2>2, <3>1, <4>1 DEF InTurn, Untouched
    <3> QED BY <1>3, <1>8, <2>3, <3>1 DEF InTurn
  <2>5. InPlace(cl)'
    <3>1. \A i \in 1 .. Len(conns[cl]) : i - 1 \in Servers /\ i - 1 # s
      BY <1>3 DEF Servers
    <3> QED BY <1>1, <1>3, <1>8, <2>2, <3>1 DEF InPlace
  <2>6. Released(cl)' BY <1>8 DEF Released
  <2>7. \A c \in Clients : c # cl => /\ pc'[c] = pc[c] /\ conns'[c] = conns[c] /\ device'[c] = device[c]
                                     /\ \A t \in Servers : /\ handler'[c][t] = handler[c][t]
                                                           /\ toServer'[c][t] = toServer[c][t]
                                                           /\ cqp'[c][t] = cqp[c][t]
    BY <1>2, <1>4, <2>2
  <2> QED BY <1>2, <1>4, <2>2, <2>4, <2>5, <2>6, <2>7, ClientFrame
<1> QED BY <1>4, <1>7, <1>8

-----------------------------------------------------------------------------
LEMMA HsInvInit == Init => HsInv
<1> SUFFICES ASSUME Init PROVE HsInv
  OBVIOUS
<1>1. TypeOK /\ Pairing BY InitType, InitPairing
<1>2. \A cl \in Clients : pc[cl] = "new" /\ Len(conns[cl]) = 0
  BY DEF Init
<1>3. ShardsInPlace /\ CloseReleases BY <1>2 DEF ShardsInPlace, CloseReleases
<1> QED BY <1>1, <1>3 DEF HsInv

LEMMA HsInvNext == HsInv /\ [Next]_vars => HsInv'
<1> SUFFICES ASSUME HsInv, [Next]_vars PROVE HsInv'
  OBVIOUS
<1>1. ASSUME NEW s \in Servers, Start(s) PROVE HsInv'
  <2>1. /\ UNCHANGED <<device, pc, conns, handler, toServer, toClient, hungUp, cqp, sqp, nextQpn>>
        /\ listening' = listening \cup {s}
    BY <1>1 DEF Start
  <2>2. TypeOK' BY <2>1 DEF HsInv, TypeOK
  <2>3. Pairing'
    BY <2>1 DEF HsInv, Pairing, InTurn, Target, Untouched, InfosMatch, InfoOf, HandlerStage
  <2>4. ShardsInPlace' BY <2>1 DEF HsInv, ShardsInPlace
  <2>5. CloseReleases' BY <2>1 DEF HsInv, CloseReleases, Target
  <2> QED BY <2>2, <2>3, <2>4, <2>5 DEF HsInv
<1>2. ASSUME NEW cl \in Clients, Connect(cl) PROVE HsInv'
  BY <1>2, DialKeeps, ClientSetupKeeps, ClientFinishKeeps, ClientEofKeeps DEF Connect
<1>3. ASSUME UNCHANGED vars PROVE HsInv'
  <2>1. UNCHANGED <<listening, device, pc, conns, handler, toServer, toClient, hungUp, cqp, sqp, nextQpn>>
    BY <1>3 DEF vars, hostVars
  <2>2. TypeOK' BY <2>1 DEF HsInv, TypeOK
  <2>3. Pairing'
    BY <2>1 DEF HsInv, Pairing, InTurn, Target, Untouched, InfosMatch, InfoOf, HandlerStage
  <2>4. ShardsInPlace' BY <2>1 DEF HsInv, ShardsInPlace
  <2>5. CloseReleases' BY <2>1 DEF HsInv, CloseReleases, Target
  <2> QED BY <2>2, <2>3, <2>4, <2>5 DEF HsInv
<1> QED BY <1>1, <1>2, <1>3, NewClientKeeps, CloseKeeps, HandlerKeeps DEF Next

(* The invariant holds in every reachable state of the handshake, whatever *)
(* fails and however handlers interleave (client.go:31-139, server.go:66-  *)
(* 181).                                                                   *)
THEOREM HandshakeInvariant == Spec => []HsInv
<1> QED BY HsInvInit, HsInvNext, PTL DEF Spec

(* Every variable of the handshake keeps its type: in particular no client *)
(* ever adds more connections than it has server addresses.                *)
THEOREM HandshakeTypes == Spec => []TypeOK
<1>1. HsInv => TypeOK BY DEF HsInv
<1> QED BY <1>1, HandshakeInvariant, PTL

(* Two QPs past INIT name each other, and each sends from the PSN the      *)
(* other expects (client.go:119-126, server.go:143-150).                   *)
THEOREM HandshakeJoins == Spec => []MutuallyJoined
<1>1. HsInv => MutuallyJoined
  <2> SUFFICES ASSUME HsInv, NEW cl \in Clients, NEW s \in Servers
               PROVE  /\ Joined(cqp[cl][s], cl, sqp[cl][s], s)
                      /\ Joined(sqp[cl][s], s, cqp[cl][s], cl)
    BY DEF MutuallyJoined
  <2>1. InfosMatch(cl, s) BY DEF HsInv, Pairing
  <2>2. \A qp, h : /\ InfoOf(qp, h).host = h /\ InfoOf(qp, h).num = qp.num
                   /\ InfoOf(qp, h).psn = qp.psn
    BY DEF InfoOf
  <2> QED BY <2>1, <2>2 DEF InfosMatch, Joined
<1> QED BY <1>1, HandshakeInvariant, PTL

(* The position of a connection is the position of its server's address,   *)
(* which is what getServer shards by (client.go:141-145).                  *)
THEOREM HandshakeShards == Spec => []ShardsInPlace
<1>1. HsInv => ShardsInPlace BY DEF HsInv
<1> QED BY <1>1, HandshakeInvariant, PTL

(* Close frees whatever a complete Connect created, and after a failed one *)
(* all but the handshake that failed (client.go:435-449).                  *)
THEOREM HandshakeReleases == Spec => []CloseReleases
<1>1. HsInv => CloseReleases BY DEF HsInv
<1> QED BY <1>1, HandshakeInvariant, PTL
=============================================================================
