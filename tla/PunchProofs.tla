----------------------------- MODULE PunchProofs ------------------------------
(***************************************************************************)
(* Proofs of the safety properties of Punch, for every set of clients,     *)
(* every choice of NATs and calls, and whatever the network does.          *)
(*                                                                         *)
(* The inductive invariant has four parts, each kept by a step from itself *)
(* and the parts before it: TypeOK; Ports, who owns the local port; Traced,*)
(* which leads every datagram, coroutine and role back to a call that was  *)
(* introduced; Links, which leads QUIC's answers back to who gave them.    *)
(***************************************************************************)
EXTENDS Punch, TLAPS

-----------------------------------------------------------------------------
(* Types. *)

\* What an exchange leaves on the network and which holes it opens.
LEMMA ExchangeSpec ==
    ASSUME NEW m, NEW out, Exchange(m, out)
    PROVE  /\ net' \subseteq net \cup out
           /\ hole' = hole \cup {<<d.from, d.to>> : d \in out}
BY DEF Exchange

\* The initial values have their types.
LEMMA InitTypeOK == Init => TypeOK
BY DEF Init, TypeOK

\* Every step keeps the types.
LEMMA NextTypeOK == TypeOK /\ [Next]_vars => TypeOK'
<1> SUFFICES ASSUME TypeOK, [Next]_vars PROVE TypeOK'
    OBVIOUS
<1> USE DEF TypeOK, history
<1>1. ASSUME NEW a \in Client, NEW b \in Client, Introduce(a, b) PROVE TypeOK'
    BY <1>1 DEF Introduce, client, ConnectToHost, SuccessConnectToClient, Datagram, Stun
<1>2. ASSUME NEW r \in punching, PunchAgain(r) PROVE TypeOK'
    <2>1. r \in Punching
        OBVIOUS
    <2>2. [r EXCEPT !.sent = @ + 1] \in Punching
        BY <1>2, <2>1, ConstantsOK DEF Punching, PunchAgain
    <2>3. makePunchRequest(r.type, r.client, r.peer) \in Datagram
        BY <2>1 DEF Punching, makePunchRequest, Datagram, Stun
    <2> QED
        BY <1>2, <2>1, <2>2, <2>3 DEF PunchAgain, Punching
<1>3. ASSUME NEW r \in punching, PunchEnds(r) PROVE TypeOK'
    BY <1>3 DEF PunchEnds
<1>4. ASSUME NEW m \in net, Receive(m) PROVE TypeOK'
    <2>1. m \in Datagram /\ m.to \in Client /\ m.from \in Client
        BY DEF Datagram
    <2>2. ASSUME NEW role \in Punch, initP2PConnection(m.to, m.from, role, m)
          PROVE  TypeOK'
        <3>1. makePunchRequest(role, m.to, m.from) \in Datagram
            BY <2>1, <2>2 DEF makePunchRequest, Datagram, Stun
        <3>2. [client |-> m.to, peer |-> m.from, type |-> role, sent |-> 1] \in Punching
            BY <2>1, <2>2, ConstantsOK DEF Punching
        <3> QED
            BY <2>1, <2>2, <3>1, <3>2 DEF initP2PConnection, Exchange, makePunchRequest
    <2>3. CASE RecvConnectToHost(m)
        BY <2>2, <2>3 DEF RecvConnectToHost, Punch
    <2>4. CASE RecvSuccessConnectToClient(m)
        BY <2>2, <2>4 DEF RecvSuccessConnectToClient, Punch
    <2>5. CASE RecvPunch(m)
        <3>1. [at |-> "close", role |-> m.type, peer |-> m.from] \in Handover
            BY <2>1, <2>5 DEF RecvPunch, Handover
        <3> QED
            BY <2>1, <2>5, <3>1 DEF RecvPunch, Exchange
    <2>7. CASE QuicAccept(m)
        <3>1. QuicPacket("QuicReply", m.to, m.from) \in Datagram
            BY <2>1 DEF QuicPacket, Datagram, Quic
        <3>2. [peer |-> m.from, up |-> TRUE] \in Connection
            BY <2>1 DEF Connection
        <3> QED
            BY <2>1, <2>7, <3>1, <3>2 DEF QuicAccept, Exchange, QuicPacket
    <2>8. CASE QuicConnected(m)
        <3>1. [peer |-> m.from, up |-> TRUE] \in Connection
            BY <2>1 DEF Connection
        <3> QED
            BY <2>1, <2>8, <3>1 DEF QuicConnected, Exchange
    <2>9. CASE StrayQuic(m)
        BY <2>1, <2>9 DEF StrayQuic, Exchange
    <2> QED
        BY <1>4, <2>3, <2>4, <2>5, <2>7, <2>8, <2>9 DEF Receive
<1>5. ASSUME NEW m \in net, Discard(m) PROVE TypeOK'
    BY <1>5 DEF Discard, client
<1>6. ASSUME NEW c \in Client, QuicRetransmit(c) PROVE TypeOK'
    <2>1. connection_[c].peer \in Client
        BY <1>6 DEF QuicRetransmit, Connection
    <2> QED
        BY <1>6, <2>1 DEF QuicRetransmit, client, QuicPacket, Datagram, Quic
<1>7. ASSUME NEW c \in Client, Exit(c) PROVE TypeOK'
    BY <1>7 DEF Exit
<1>8. CASE UNCHANGED vars
    BY <1>8 DEF vars
<1>9. ASSUME NEW c \in Client, startConnection(c) PROVE TypeOK'
    <2>0. handover[c] \in Handover /\ handover[c].peer \in Client
        BY <1>9 DEF startConnection, CloseSocket, MakeObject, StartListener, StartClient,
                    StartDangling, HandsOver, Handover
    <2>1. \A step \in {"close", "make", "start"} : [handover[c] EXCEPT !.at = step] \in Handover
        BY <2>0 DEF Handover
    <2>2. CASE CloseSocket(c)
        BY <2>1, <2>2 DEF CloseSocket
    <2>3. CASE MakeObject(c)
        BY <2>1, <2>3 DEF MakeObject
    <2>4. CASE StartListener(c)
        BY <2>4 DEF StartListener
    <2>5. CASE StartClient(c)
        <3>1. QuicPacket("QuicInitial", c, handover[c].peer) \in Datagram
            BY <2>0 DEF QuicPacket, Datagram, Quic
        <3>2. [peer |-> handover[c].peer, up |-> FALSE] \in Connection
            BY <2>0 DEF Connection
        <3> QED
            BY <2>0, <2>5, <3>1, <3>2 DEF StartClient
    <2>6. CASE StartDangling(c)
        BY <2>6 DEF StartDangling
    <2> QED
        BY <1>9, <2>2, <2>3, <2>4, <2>5, <2>6 DEF startConnection
<1> QED
    BY <1>1, <1>2, <1>3, <1>4, <1>5, <1>6, <1>7, <1>8, <1>9 DEF Next

\* Every variable keeps its type.
THEOREM TypeCorrect == Spec => []TypeOK
BY InitTypeOK, NextTypeOK, PTL DEF Spec

-----------------------------------------------------------------------------
(* The local port. *)

\* The ASIO socket is closed before the hand-over makes an object, and in the chat
\* after it; no coroutine reads and MsQuic has no port while it lasts; and a listener's
\* connection is up from the start.
Ports ==
    /\ OnePortOwner
    /\ \A c \in Client : handover[c] # None =>
          /\ ~ listening[c] /\ ~ listener_[c] /\ connection_[c] = None
          /\ handover[c].at # "close" => ~ socket_[c]
    /\ \A c \in Client : appState_[c] = "Chat" /\ handover[c] = None => ~ socket_[c]
    /\ \A c \in Client : listener_[c] /\ connection_[c] # None => connection_[c].up

\* At the start every socket is open and MsQuic has no port.
LEMMA InitPorts == Init => Ports
BY DEF Init, Ports, OnePortOwner

\* Every step keeps the port with one owner.
LEMMA NextPorts == TypeOK /\ Ports /\ [Next]_vars => Ports'
<1> SUFFICES ASSUME TypeOK, Ports, [Next]_vars PROVE Ports'
    OBVIOUS
<1> USE DEF TypeOK, Ports, OnePortOwner
<1>1. ASSUME UNCHANGED <<appState_, socket_, listening, handover, listener_, connection_>>
      PROVE  Ports'
    BY <1>1
<1>2. ASSUME NEW m \in net, Receive(m) PROVE Ports'
    <2>1. m.to \in Client /\ m.from \in Client
        BY DEF Datagram
    <2>2. CASE RecvConnectToHost(m) \/ RecvSuccessConnectToClient(m)
        BY <1>1, <2>2 DEF RecvConnectToHost, RecvSuccessConnectToClient, initP2PConnection
    <2>3. CASE RecvPunch(m)
        <3>1. [at |-> "close", role |-> m.type, peer |-> m.from]
                  \in [at : {"close", "make", "start"}, role : {"ServerPunch", "ClientPunch"},
                      peer : Client]
            BY <2>1, <2>3 DEF RecvPunch, Punch
        <3>2. [at |-> "close", role |-> m.type, peer |-> m.from] # None
            BY <3>1, ConstantsOK
        <3> QED
            BY <2>1, <2>3, <3>2 DEF RecvPunch, Dispatches
    <2>5. CASE QuicAccept(m)
        BY <2>1, <2>5 DEF QuicAccept
    <2>6. CASE QuicConnected(m)
        <3>1. [peer |-> m.from, up |-> FALSE] \in [peer : Client, up : BOOLEAN]
            BY <2>1
        <3>2. connection_[m.to] # None
            BY <2>6, <3>1, ConstantsOK DEF QuicConnected
        <3> QED
            BY <2>1, <2>6, <3>2 DEF QuicConnected
    <2>7. CASE StrayQuic(m)
        BY <2>1, <2>7 DEF StrayQuic
    <2> QED
        BY <1>2, <2>2, <2>3, <2>5, <2>6, <2>7 DEF Receive
<1>3. ASSUME NEW c \in Client, Exit(c) PROVE Ports'
    BY <1>3 DEF Exit
<1>4. ASSUME NEW c \in Client, startConnection(c) PROVE Ports'
    <2>1. CASE CloseSocket(c)
        BY <2>1, ConstantsOK DEF CloseSocket, HandsOver, Handover, Punch
    <2>2. CASE MakeObject(c)
        BY <2>2, ConstantsOK DEF MakeObject, HandsOver, Handover, Punch
    <2>3. CASE StartListener(c)
        BY <2>3 DEF StartListener, HandsOver
    <2>4. CASE StartClient(c)
        BY <2>4 DEF StartClient, HandsOver
    <2>5. CASE StartDangling(c)
        BY <2>5 DEF StartDangling, HandsOver
    <2> QED
        BY <1>4, <2>1, <2>2, <2>3, <2>4, <2>5 DEF startConnection
<1> QED
    BY <1>1, <1>2, <1>3, <1>4 DEF Next, vars, client, Introduce, PunchAgain, PunchEnds,
                            Discard, QuicRetransmit

\* The local port has one owner.
THEOREM PortsExclusive == Spec => []OnePortOwner
<1>1. TypeOK /\ Ports /\ [Next]_vars => (TypeOK /\ Ports)'
    BY NextTypeOK, NextPorts
<1>2. Ports => OnePortOwner
    BY DEF Ports
<1> QED
    BY InitTypeOK, InitPorts, <1>1, <1>2, PTL DEF Spec

-----------------------------------------------------------------------------
(* Everything leads back to a call that was introduced. *)

TracedDatagram(m) ==
    /\ m.type = "ConnectToHost" => <<m.to, m.from>> \in introduced
    /\ m.type = "SuccessConnectToClient" => <<m.from, m.to>> \in introduced
    /\ m.type = "ServerPunch" => <<m.from, m.to>> \in introduced /\ <<m.from, m.to>> \in hole
    /\ m.type = "ClientPunch" => <<m.to, m.from>> \in introduced /\ <<m.from, m.to>> \in hole
    /\ m.type = "QuicInitial" => <<m.to, m.from>> \in introduced

TracedCoroutine(r) ==
    /\ r.type = "ServerPunch" => <<r.client, r.peer>> \in introduced
    /\ r.type = "ClientPunch" => <<r.peer, r.client>> \in introduced

TracedHandover(c) ==
    handover[c] # None =>
        /\ Reached(c, handover[c].peer)
        /\ handover[c].role = "ServerPunch" => <<handover[c].peer, c>> \in introduced
        /\ handover[c].role = "ClientPunch" => <<c, handover[c].peer>> \in introduced

Traced ==
    /\ \A m \in net : TracedDatagram(m)
    /\ \A r \in punching : TracedCoroutine(r)
    /\ \A c \in Client : TracedHandover(c)
    /\ RoleFollowsCall

\* At the start there is nothing to trace.
LEMMA InitTraced == Init => Traced
BY DEF Init, Traced, RoleFollowsCall, TracedHandover

\* What has been traced stays so while introductions and holes are added.
LEMMA TracedMonotonic ==
    ASSUME introduced \subseteq introduced', hole \subseteq hole', Traced
    PROVE  /\ \A m \in net : TracedDatagram(m)'
           /\ \A r \in punching : TracedCoroutine(r)'
           /\ (UNCHANGED <<listener_, connection_>>) => RoleFollowsCall'
           /\ \A c \in Client : handover'[c] = handover[c] => TracedHandover(c)'
<1>1. \A m \in net : TracedDatagram(m)'
    BY DEF Traced, TracedDatagram
<1>2. \A r \in punching : TracedCoroutine(r)'
    BY DEF Traced, TracedCoroutine
<1>3. (UNCHANGED <<listener_, connection_>>) => RoleFollowsCall'
    BY DEF Traced, RoleFollowsCall, Reached
<1>4. \A c \in Client : handover'[c] = handover[c] => TracedHandover(c)'
    BY DEF Traced, TracedHandover, Reached
<1> QED
    BY <1>1, <1>2, <1>3, <1>4

\* RoleFollowsCall for one client, which keeps it as long as its role stays.
RoleOf(c) ==
    /\ listener_[c] => \E b \in Client : <<c, b>> \in introduced /\ Reached(c, b)
    /\ connection_[c] # None /\ ~ listener_[c] =>
          /\ <<connection_[c].peer, c>> \in introduced
          /\ Reached(c, connection_[c].peer)

\* RoleOf is kept by a step that changes neither the client's listener nor its
\* connection, and takes back no introduction and no hole.
LEMMA RoleKept ==
    ASSUME NEW c \in Client, Traced, introduced \subseteq introduced', hole \subseteq hole',
           listener_'[c] = listener_[c], connection_'[c] = connection_[c]
    PROVE  RoleOf(c)'
BY DEF Traced, RoleFollowsCall, RoleOf, Reached

\* Every step keeps the traces.
LEMMA NextTraced == TypeOK /\ Ports /\ Traced /\ [Next]_vars => Traced'
<1> SUFFICES ASSUME TypeOK, Ports, Traced, [Next]_vars PROVE Traced'
    OBVIOUS
<1>1. ASSUME NEW a \in Client, NEW b \in Client, Introduce(a, b) PROVE Traced'
    <2>1. introduced \subseteq introduced' /\ hole \subseteq hole'
        BY <1>1 DEF Introduce
    <2>2. TracedDatagram(ConnectToHost(a, b))'
          /\ TracedDatagram(SuccessConnectToClient(a, b))'
        BY <1>1 DEF Introduce, TracedDatagram, ConnectToHost, SuccessConnectToClient
    <2> QED
        BY <1>1, <2>1, <2>2, TracedMonotonic DEF Introduce, client, Traced
<1>2. ASSUME NEW r \in punching, PunchAgain(r) PROVE Traced'
    <2>1. introduced \subseteq introduced' /\ hole \subseteq hole'
        BY <1>2 DEF PunchAgain
    <2>2. TracedCoroutine(r)' /\ r \in Punching
        BY <2>1, TracedMonotonic DEF TypeOK
    <2>3. TracedDatagram(makePunchRequest(r.type, r.client, r.peer))'
        BY <1>2, <2>2 DEF PunchAgain, TracedDatagram, TracedCoroutine, makePunchRequest,
                          Punching, Punch
    <2>4. TracedCoroutine([r EXCEPT !.sent = @ + 1])'
        BY <2>2 DEF TracedCoroutine, Punching
    <2> QED
        BY <1>2, <2>1, <2>3, <2>4, TracedMonotonic DEF PunchAgain, Traced
<1>3. ASSUME NEW r \in punching, PunchEnds(r) PROVE Traced'
    BY <1>3, TracedMonotonic DEF PunchEnds, Traced
<1>4. ASSUME NEW m \in net, Receive(m) PROVE Traced'
    <2>1. m.to \in Client /\ m.from \in Client /\ TracedDatagram(m)
        BY DEF TypeOK, Datagram, Traced
    <2>2. Arrives(m) /\ UNCHANGED introduced
        BY <1>4 DEF Receive, RecvConnectToHost, RecvSuccessConnectToClient, RecvPunch,
                    QuicAccept, QuicConnected, StrayQuic, initP2PConnection
    <2>3. ASSUME NEW role \in Punch, initP2PConnection(m.to, m.from, role, m),
                 role = "ServerPunch" => <<m.to, m.from>> \in introduced,
                 role = "ClientPunch" => <<m.from, m.to>> \in introduced
          PROVE  Traced'
        <3> DEFINE p == makePunchRequest(role, m.to, m.from)
                   r == [client |-> m.to, peer |-> m.from, type |-> role, sent |-> 1]
        <3>1. /\ net' \subseteq net \cup {p}
              /\ hole' = hole \cup {<<d.from, d.to>> : d \in {p}}
            BY <2>3, ExchangeSpec DEF initP2PConnection
        <3>2. <<m.to, m.from>> \in hole' /\ hole \subseteq hole'
            BY <3>1 DEF makePunchRequest
        <3>3. TracedDatagram(p)' /\ TracedCoroutine(r)'
            BY <2>2, <2>3, <3>2 DEF TracedDatagram, TracedCoroutine, makePunchRequest, Punch
        <3>4. punching' = punching \cup {r} /\ UNCHANGED <<handover, listener_, connection_>>
            BY <2>3 DEF initP2PConnection
        <3> HIDE DEF p, r
        <3> QED
            BY <2>2, <3>1, <3>2, <3>3, <3>4, TracedMonotonic DEF Traced
    <2>4. CASE RecvConnectToHost(m)
        BY <2>1, <2>3, <2>4 DEF RecvConnectToHost, TracedDatagram, Punch
    <2>5. CASE RecvSuccessConnectToClient(m)
        BY <2>1, <2>3, <2>5 DEF RecvSuccessConnectToClient, TracedDatagram, Punch
    <2>6. CASE RecvPunch(m)
        <3>1. /\ net' \subseteq net /\ hole' = hole
              /\ UNCHANGED <<punching, listener_, connection_>>
            BY <2>6, ExchangeSpec DEF RecvPunch, Exchange
        <3>2. Reached(m.to, m.from)
            BY <2>1, <2>2, <2>6 DEF RecvPunch, TracedDatagram, Reached, Arrives, Passes, Punch
        <3>3. handover' = [handover EXCEPT ![m.to] =
                              [at |-> "close", role |-> m.type, peer |-> m.from]]
            BY <2>6 DEF RecvPunch
        <3>4. TracedHandover(m.to)'
            BY <2>1, <2>2, <3>1, <3>2, <3>3
               DEF TracedHandover, TracedDatagram, Reached, TypeOK
        <3>5. \A c \in Client : TracedHandover(c)'
            BY <2>2, <3>1, <3>3, <3>4, TracedMonotonic DEF TypeOK
        <3> QED
            BY <2>2, <3>1, <3>5, TracedMonotonic DEF Traced
    <2>8. CASE QuicAccept(m)
        <3> DEFINE q == QuicPacket("QuicReply", m.to, m.from)
        <3>1. net' \subseteq net \cup {q} /\ hole \subseteq hole'
            BY <2>8, ExchangeSpec DEF QuicAccept
        <3>2. TracedDatagram(q)'
            BY DEF TracedDatagram, QuicPacket
        <3>3. RoleFollowsCall'
            BY <2>1, <2>2, <2>8, <3>1 DEF QuicAccept, RoleFollowsCall, Reached, Traced, TypeOK
        <3> HIDE DEF q
        <3> QED
            BY <2>2, <2>8, <3>1, <3>2, <3>3, TracedMonotonic DEF QuicAccept, Traced
    <2>9. CASE QuicConnected(m)
        <3>1. net' \subseteq net /\ hole' = hole
            BY <2>9 DEF QuicConnected, Exchange
        <3>2. [peer |-> m.from, up |-> FALSE] \in [peer : Client, up : BOOLEAN]
            BY <2>1
        <3>3. /\ connection_[m.to] = [peer |-> m.from, up |-> FALSE]
              /\ connection_[m.to] # None
            BY <2>9, <3>2, ConstantsOK DEF QuicConnected
        <3>4. /\ connection_' = [connection_ EXCEPT ![m.to] = [peer |-> m.from, up |-> TRUE]]
              /\ UNCHANGED listener_
            BY <2>9 DEF QuicConnected
        <3>5. ASSUME NEW c \in Client PROVE RoleOf(c)'
            <4>1. CASE c = m.to
                <5>1. RoleOf(c)
                    BY DEF Traced, RoleFollowsCall, RoleOf
                <5>2. connection_'[c].peer = m.from /\ connection_[c].peer = m.from
                    BY <2>1, <3>3, <3>4, <4>1 DEF TypeOK
                <5> QED
                    BY <2>2, <3>1, <3>3, <3>4, <4>1, <5>1, <5>2 DEF RoleOf, Reached
            <4>2. CASE c # m.to
                BY <2>1, <2>2, <3>1, <3>4, <4>2, RoleKept DEF TypeOK
            <4> QED
                BY <4>1, <4>2
        <3>6. RoleFollowsCall'
            BY <3>5 DEF RoleFollowsCall, RoleOf
        <3> QED
            BY <2>2, <2>9, <3>1, <3>6, TracedMonotonic DEF QuicConnected, Traced
    <2>10. CASE StrayQuic(m)
        BY <2>2, <2>10, TracedMonotonic DEF StrayQuic, Exchange, Traced
    <2> QED
        BY <1>4, <2>4, <2>5, <2>6, <2>8, <2>9, <2>10 DEF Receive
<1>5. ASSUME NEW m \in net, Discard(m) PROVE Traced'
    BY <1>5, TracedMonotonic DEF Discard, client, Traced
<1>6. ASSUME NEW c \in Client, QuicRetransmit(c) PROVE Traced'
    <2>1. ~ listener_[c]
        BY <1>6 DEF QuicRetransmit, Ports
    <2>2. <<connection_[c].peer, c>> \in introduced
        BY <1>6, <2>1 DEF QuicRetransmit, Traced, RoleFollowsCall
    <2>3. TracedDatagram(QuicPacket("QuicInitial", c, connection_[c].peer))'
        BY <1>6, <2>2 DEF QuicRetransmit, client, TracedDatagram, QuicPacket
    <2> QED
        BY <1>6, <2>3, TracedMonotonic DEF QuicRetransmit, client, Traced
<1>7. ASSUME NEW c \in Client, Exit(c) PROVE Traced'
    <2>1. RoleFollowsCall'
        BY <1>7 DEF Exit, RoleFollowsCall, Reached, Traced, TypeOK
    <2> QED
        BY <1>7, <2>1, TracedMonotonic DEF Exit, Traced
<1>8. CASE UNCHANGED vars
    BY <1>8, TracedMonotonic DEF vars, Traced
<1>9. ASSUME NEW c \in Client, startConnection(c) PROVE Traced'
    <2>0. handover[c] # None /\ handover[c] \in Handover /\ TracedHandover(c)
        BY <1>9 DEF startConnection, CloseSocket, MakeObject, StartListener, StartClient,
                    StartDangling, HandsOver, Traced, TypeOK
    <2>8. PICK p \in Client : p = handover[c].peer
        BY <2>0 DEF Handover
    <2>1. UNCHANGED introduced /\ hole \subseteq hole' /\ punching' \subseteq punching
        BY <1>9 DEF startConnection, CloseSocket, MakeObject, StartListener, StartClient,
                    StartDangling
    <2>2. TracedHandover(c)'
        BY <1>9, <2>0, <2>1
           DEF startConnection, CloseSocket, MakeObject, StartListener, StartClient,
               StartDangling, TracedHandover, Reached, TypeOK, Handover
    <2>3. \A d \in Client \ {c} : handover'[d] = handover[d]
        BY <1>9 DEF startConnection, CloseSocket, MakeObject, StartListener, StartClient,
                    StartDangling, TypeOK
    <2>4. \A d \in Client : TracedHandover(d)'
        BY <2>1, <2>2, <2>3, TracedMonotonic
    <2>5. CASE UNCHANGED <<listener_, connection_, net>>
        BY <2>1, <2>4, <2>5, TracedMonotonic DEF Traced
    <2>6. CASE StartListener(c)
        <3>1. /\ UNCHANGED <<net, hole, connection_>>
              /\ listener_' = [listener_ EXCEPT ![c] = TRUE]
              /\ <<c, p>> \in introduced /\ Reached(c, p)
            BY <2>0, <2>6, <2>8 DEF StartListener, TracedHandover
        <3>3. \A d \in Client : RoleOf(d)'
            <4> SUFFICES ASSUME NEW d \in Client PROVE RoleOf(d)'
                OBVIOUS
            <4>1. CASE d = c
                BY <2>1, <3>1, <4>1 DEF RoleOf, Reached, TypeOK
            <4>2. CASE d # c
                BY <2>1, <3>1, <4>2, RoleKept DEF TypeOK
            <4> QED
                BY <4>1, <4>2
        <3>4. RoleFollowsCall'
            BY <3>3 DEF RoleFollowsCall, RoleOf
        <3> QED
            BY <2>1, <2>4, <3>1, <3>4, TracedMonotonic DEF Traced
    <2>7. CASE StartClient(c)
        <3> DEFINE q == QuicPacket("QuicInitial", c, p)
        <3>1. /\ net' = net \cup {q} /\ UNCHANGED listener_
              /\ connection_' = [connection_ EXCEPT ![c] = [peer |-> p, up |-> FALSE]]
              /\ <<p, c>> \in introduced /\ Reached(c, p)
            BY <2>0, <2>7, <2>8 DEF StartClient, TracedHandover
        <3>2. ~ listener_[c]
            BY <2>0 DEF Ports
        <3>3. TracedDatagram(q)'
            BY <2>1, <3>1 DEF TracedDatagram, QuicPacket
        <3>4. Reached(c, p)'
            BY <2>1, <3>1, <2>7 DEF Reached, StartClient
        <3>5. \A d \in Client : RoleOf(d)'
            <4> SUFFICES ASSUME NEW d \in Client PROVE RoleOf(d)'
                OBVIOUS
            <4>1. CASE d = c
                BY <2>1, <3>1, <3>2, <3>4, <4>1 DEF RoleOf, Reached, TypeOK
            <4>2. CASE d # c
                BY <2>1, <3>1, <4>2, RoleKept DEF TypeOK
            <4> QED
                BY <4>1, <4>2
        <3>6. RoleFollowsCall'
            BY <3>5 DEF RoleFollowsCall, RoleOf
        <3> HIDE DEF q
        <3> QED
            BY <2>1, <2>4, <3>1, <3>3, <3>6, TracedMonotonic DEF Traced
    <2> QED
        BY <1>9, <2>5, <2>6, <2>7 DEF startConnection, CloseSocket, MakeObject, StartDangling
<1> QED
    BY <1>1, <1>2, <1>3, <1>4, <1>5, <1>6, <1>7, <1>8, <1>9 DEF Next

\* Roles follow the calls.
THEOREM RolesFollowCalls == Spec => []RoleFollowsCall
<1> DEFINE I == TypeOK /\ Ports /\ Traced
<1>1. Init => I
    BY InitTypeOK, InitPorts, InitTraced
<1>2. I /\ [Next]_vars => I'
    BY NextTypeOK, NextPorts, NextTraced
<1>3. I => RoleFollowsCall
    BY DEF Traced
<1> QED
    BY <1>1, <1>2, <1>3, PTL DEF Spec

-----------------------------------------------------------------------------
(* QUIC's answers lead back to who gave them. *)

Links ==
    /\ \A m \in net : m.type = "QuicReply" => Answered(m.from, m.to)
    /\ LinkMutual

\* At the start there is no connection.
LEMMA InitLinks == Init => Links
BY DEF Init, Links, LinkMutual

\* An answer stays given while its giver keeps its listener and connection.
LEMMA AnsweredKept ==
    ASSUME NEW a \in Client, NEW b \in Client, Answered(a, b),
           introduced \subseteq introduced', left \subseteq left', taken \subseteq taken',
           listener_'[a] = listener_[a], connection_'[a] = connection_[a]
    PROVE  Answered(a, b)'
BY DEF Answered

\* Steps that leave all listeners and connections alone, and send no answer.
LEMMA LinksKept ==
    ASSUME TypeOK, Links, introduced \subseteq introduced',
           left \subseteq left', taken \subseteq taken',
           UNCHANGED <<listener_, connection_>>,
           \A m \in net' : m.type = "QuicReply" => m \in net
    PROVE  Links'
<1>1. \A a, b \in Client : Answered(a, b) => Answered(a, b)'
    BY AnsweredKept
<1>2. \A m \in net : m.from \in Client /\ m.to \in Client
    BY DEF TypeOK, Datagram
<1>3. \A c \in Client : connection_[c] # None => connection_[c].peer \in Client
    BY DEF TypeOK, Connection
<1> QED
    BY <1>1, <1>2, <1>3 DEF Links, LinkMutual

\* Every step keeps the links.
LEMMA NextLinks == TypeOK /\ Ports /\ Traced /\ Links /\ [Next]_vars => Links'
<1> SUFFICES ASSUME TypeOK, Ports, Traced, Links, [Next]_vars PROVE Links'
    OBVIOUS
<1>0. /\ \A m \in net : m.from \in Client /\ m.to \in Client
      /\ \A c \in Client : connection_[c] # None => connection_[c].peer \in Client
    BY DEF TypeOK, Datagram, Connection
<1>1. ASSUME NEW a \in Client, NEW b \in Client, Introduce(a, b) PROVE Links'
    <2>1. \A m \in net' : m.type = "QuicReply" => m \in net
        BY <1>1 DEF Introduce, ConnectToHost, SuccessConnectToClient
    <2> QED
        BY <1>1, <2>1, LinksKept DEF Introduce, client, history
<1>2. ASSUME NEW r \in punching, PunchAgain(r) \/ PunchEnds(r) PROVE Links'
    <2>1. r.type # "QuicReply"
        BY DEF TypeOK, Punching, Punch
    <2>2. \A m \in net' : m.type = "QuicReply" => m \in net
        BY <1>2, <2>1 DEF PunchAgain, PunchEnds, makePunchRequest
    <2> QED
        BY <1>2, <2>2, LinksKept DEF PunchAgain, PunchEnds, history
<1>3. ASSUME NEW m \in net, Receive(m) PROVE Links'
    <2>1. m.to \in Client /\ m.from \in Client
        BY <1>0
    <2>2. ASSUME NEW role \in Punch, initP2PConnection(m.to, m.from, role, m) PROVE Links'
        <3>1. net' \subseteq net \cup {makePunchRequest(role, m.to, m.from)}
            BY <2>2, ExchangeSpec DEF initP2PConnection
        <3>2. \A d \in net' : d.type = "QuicReply" => d \in net
            BY <3>1 DEF makePunchRequest, Punch
        <3> QED
            BY <2>2, <3>2, LinksKept DEF initP2PConnection, history
    <2>3. CASE RecvConnectToHost(m)
        BY <2>2, <2>3 DEF RecvConnectToHost, Punch
    <2>4. CASE RecvSuccessConnectToClient(m)
        BY <2>2, <2>4 DEF RecvSuccessConnectToClient, Punch
    <2>5. CASE RecvPunch(m)
        <3>1. \A d \in net' : d.type = "QuicReply" => d \in net
            BY <2>5, ExchangeSpec DEF RecvPunch
        <3> QED
            BY <2>5, <3>1, LinksKept DEF RecvPunch, history
    <2>6. CASE QuicAccept(m)
        <3> DEFINE q == QuicPacket("QuicReply", m.to, m.from)
        <3>1. /\ net' \subseteq net \cup {q} /\ UNCHANGED <<introduced, listener_, left>>
              /\ taken' = taken \cup {<<m.to, m.from>>}
            BY <2>6, ExchangeSpec DEF QuicAccept
        <3>2. connection_' = [connection_ EXCEPT ![m.to] = [peer |-> m.from, up |-> TRUE]]
            BY <2>6 DEF QuicAccept
        <3>3. listener_[m.to] /\ <<m.to, m.from>> \in introduced
            BY <2>6 DEF QuicAccept, Traced, TracedDatagram
        <3>4. Answered(m.to, m.from)'
            BY <2>1, <3>1, <3>2, <3>3 DEF Answered, TypeOK
        <3>5. \A a, b \in Client : Answered(a, b) => Answered(a, b)'
            <4> SUFFICES ASSUME NEW a \in Client, NEW b \in Client, Answered(a, b)
                         PROVE  Answered(a, b)'
                OBVIOUS
            <4>1. CASE a = m.to
                BY <2>1, <3>1, <3>2, <3>3, <4>1 DEF Answered, TypeOK
            <4>2. CASE a # m.to
                BY <3>1, <3>2, <4>2, AnsweredKept DEF TypeOK
            <4> QED
                BY <4>1, <4>2
        <3>6. q.from = m.to /\ q.to = m.from
            BY DEF QuicPacket
        <3>7. \A d \in net' : d.type = "QuicReply" => Answered(d.from, d.to)'
            BY <1>0, <2>1, <3>1, <3>4, <3>5, <3>6 DEF Links
        <3>8. LinkMutual'
            BY <1>0, <3>1, <3>2, <3>3, <3>5 DEF Links, LinkMutual, TypeOK
        <3> QED
            BY <3>7, <3>8 DEF Links
    <2>7. CASE QuicConnected(m)
        <3>1. /\ net' \subseteq net
              /\ UNCHANGED <<introduced, listener_, left, taken>>
              /\ connection_' = [connection_ EXCEPT ![m.to] = [peer |-> m.from, up |-> TRUE]]
              /\ Answered(m.from, m.to)
            BY <2>7 DEF QuicConnected, Exchange, Links, history
        <3>2. [peer |-> m.from, up |-> FALSE] \in [peer : Client, up : BOOLEAN]
            BY <2>1
        <3>3. connection_[m.to] # None /\ ~ connection_[m.to].up
            BY <2>7, <3>2, ConstantsOK DEF QuicConnected
        <3>4. ~ listener_[m.to]
            BY <2>1, <3>3 DEF Ports
        <3>5. \A a, b \in Client : Answered(a, b) => Answered(a, b)'
            <4> SUFFICES ASSUME NEW a \in Client, NEW b \in Client, Answered(a, b)
                         PROVE  Answered(a, b)'
                OBVIOUS
            <4>1. CASE a = m.to
                BY <3>1, <3>4, <4>1 DEF Answered
            <4>2. CASE a # m.to
                BY <3>1, <4>2, AnsweredKept DEF TypeOK
            <4> QED
                BY <4>1, <4>2
        <3>6. LinkMutual'
            BY <1>0, <2>1, <3>1, <3>5 DEF Links, LinkMutual, TypeOK
        <3> QED
            BY <1>0, <3>1, <3>5, <3>6 DEF Links
    <2>8. CASE StrayQuic(m)
        <3>1. \A d \in net' : d.type = "QuicReply" => d \in net
            BY <2>8 DEF StrayQuic, Exchange
        <3> QED
            BY <2>8, <3>1, LinksKept DEF StrayQuic, history
    <2> QED
        BY <1>3, <2>3, <2>4, <2>5, <2>6, <2>7, <2>8 DEF Receive
<1>4. ASSUME NEW m \in net, Discard(m) PROVE Links'
    BY <1>4, LinksKept DEF Discard, client, history
<1>5. ASSUME NEW c \in Client, QuicRetransmit(c) PROVE Links'
    <2>1. \A m \in net' : m.type = "QuicReply" => m \in net
        BY <1>5 DEF QuicRetransmit, QuicPacket
    <2> QED
        BY <1>5, <2>1, LinksKept DEF QuicRetransmit, client, history
<1>6. ASSUME NEW c \in Client, Exit(c) PROVE Links'
    <2>1. left' = left \cup {c} /\ UNCHANGED <<net, introduced, taken>>
        BY <1>6 DEF Exit
    <2>2. /\ listener_' = [listener_ EXCEPT ![c] = FALSE]
          /\ connection_' = [connection_ EXCEPT ![c] = None]
        BY <1>6 DEF Exit
    <2>3. \A a, b \in Client : Answered(a, b) => Answered(a, b)'
        <3> SUFFICES ASSUME NEW a \in Client, NEW b \in Client, Answered(a, b)
                     PROVE  Answered(a, b)'
            OBVIOUS
        <3>1. CASE a = c
            BY <2>1, <3>1 DEF Answered
        <3>2. CASE a # c
            BY <2>1, <2>2, <3>2, AnsweredKept DEF TypeOK
        <3> QED
            BY <3>1, <3>2
    <2> QED
        BY <1>0, <2>1, <2>2, <2>3 DEF Links, LinkMutual, TypeOK
<1>7. CASE UNCHANGED vars
    BY <1>7, LinksKept DEF vars
<1>8. ASSUME NEW c \in Client, startConnection(c) PROVE Links'
    <2>1. /\ \A d \in net' : d.type = "QuicReply" => d \in net
          /\ UNCHANGED <<introduced, left, taken>>
        BY <1>8 DEF startConnection, CloseSocket, MakeObject, StartListener, StartClient,
                    StartDangling, QuicPacket, history
    <2>2. CASE UNCHANGED <<listener_, connection_>>
        BY <2>1, <2>2, LinksKept
    <2>3. CASE StartListener(c) \/ StartClient(c)
        <3>1. ~ listener_[c]
            BY <2>3 DEF StartListener, StartClient, HandsOver, Ports
        <3>2. \A d \in Client \ {c} :
                  listener_'[d] = listener_[d] /\ connection_'[d] = connection_[d]
            BY <2>3 DEF StartListener, StartClient, TypeOK
        <3>3. \A a, b \in Client : Answered(a, b) => Answered(a, b)'
            <4> SUFFICES ASSUME NEW a \in Client, NEW b \in Client, Answered(a, b)
                         PROVE  Answered(a, b)'
                OBVIOUS
            <4>1. CASE a = c
                BY <2>1, <3>1, <4>1 DEF Answered
            <4>2. CASE a # c
                BY <2>1, <3>2, <4>2, AnsweredKept
            <4> QED
                BY <4>1, <4>2
        <3>4. listener_'[c] \/ ~ connection_'[c].up
            BY <2>3 DEF StartListener, StartClient, TypeOK
        <3> QED
            BY <1>0, <2>1, <3>2, <3>3, <3>4 DEF Links, LinkMutual
    <2> QED
        BY <1>8, <2>2, <2>3 DEF startConnection, CloseSocket, MakeObject, StartDangling
<1> QED
    BY <1>1, <1>2, <1>3, <1>4, <1>5, <1>6, <1>7, <1>8 DEF Next

\* A connection that is up at the callee is one its caller has accepted.
THEOREM LinksMutual == Spec => []LinkMutual
<1> DEFINE I == TypeOK /\ Ports /\ Traced /\ Links
<1>1. Init => I
    BY InitTypeOK, InitPorts, InitTraced, InitLinks
<1>2. I /\ [Next]_vars => I'
    BY NextTypeOK, NextPorts, NextTraced, NextLinks
<1>3. I => LinkMutual
    BY DEF Links
<1> QED
    BY <1>1, <1>2, <1>3, PTL DEF Spec

===============================================================================
