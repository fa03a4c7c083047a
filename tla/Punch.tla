-------------------------------- MODULE Punch ---------------------------------
(***************************************************************************)
(* Hole punching and the hand-over from ASIO to MsQuic, as the clients     *)
(* (client/src/Client.cpp) do it from the moment the server has introduced *)
(* a caller to the callee who accepted.                                    *)
(*                                                                         *)
(* Of the pair, the caller is sent ConnectToHost, punches with ServerPunch *)
(* and starts a QUIC listener when the callee's ClientPunch reaches it; the*)
(* callee is sent SuccessConnectToClient, punches with ClientPunch and     *)
(* starts a QUIC client when the caller's ServerPunch reaches it.          *)
(*                                                                         *)
(* A client stands for its public endpoint, and the server is represented  *)
(* by what it promises: the right address, sent to each of the two.  A NAT *)
(* that filters by address and port (Restricted) lets a datagram in only   *)
(* from an address its client has sent to.                                 *)
(*                                                                         *)
(* A client has an io thread, which runs listener(), the punching and the  *)
(* hand-over to MsQuic; the menu thread and MsQuic's own threads run       *)
(* beside it, so the hand-over is taken step by step.                      *)
(***************************************************************************)
EXTENDS Naturals

CONSTANTS
    Client,         \* the clients
    None,           \* no connection
    Restricted,     \* clients behind a NAT that filters by address and port
    Calls,          \* who may call whom, as pairs of a caller and a callee
    Unreliable,     \* whether datagrams may be lost, doubled and overtake others
    Leavers,        \* the clients whose users may type /exit
    MaxPunches      \* punches one call sends, 10 in the code

ASSUME ConstantsOK ==
    /\ Restricted \subseteq Client
    /\ Calls \subseteq Client \X Client
    /\ Leavers \subseteq Client
    /\ Unreliable \in BOOLEAN
    /\ MaxPunches \in Nat \ {0}
    /\ None \notin [peer : Client, up : BOOLEAN]
    /\ None \notin [at : {"close", "make", "start"}, role : {"ServerPunch", "ClientPunch"},
                   peer : Client]

VARIABLES
    appState_,      \* "Menu" or "Chat", or "Dead" once the process has crashed
    socket_,        \* whether the ASIO socket is open
    listening,      \* whether the coroutine listener() waits for a datagram
    punching,       \* the coroutines initP2PConnection waiting for their timer
    handover,       \* where the io thread is in startConnection, and for which punch
    made,           \* the clients that hold the object startConnection is to start
    listener_,      \* whether a QUIC listener is bound to the client's port
    connection_,    \* the QUIC connection: its peer, and whether it answered
    hole,           \* <<c, p>>: c has sent to p, and c's NAT lets p in
    introduced,     \* the calls the server has introduced
    net,            \* the datagrams on their way
    \* History, which no action reads:
    left,           \* the clients whose users have typed /exit in the chat
    taken           \* <<a, b>>: a's listener has taken a connection of b

vars == <<appState_, socket_, listening, punching, handover, made, listener_, connection_,
          hole, introduced, net, left, taken>>
client == <<appState_, socket_, listening, punching, handover, made, listener_, connection_>>
history == <<left, taken>>

-----------------------------------------------------------------------------
(* Datagrams.  One from the server carries the client it tells about as from. *)

Punch == {"ServerPunch", "ClientPunch"}
Quic == {"QuicInitial", "QuicReply"}
Stun == Punch \cup {"ConnectToHost", "SuccessConnectToClient"}

Datagram == [type : Stun \cup Quic, from : Client, to : Client]
Connection == [peer : Client, up : BOOLEAN]
Punching == [client : Client, peer : Client, type : Punch, sent : 1..MaxPunches]
Handover == [at : {"close", "make", "start"}, role : Punch, peer : Client]

ConnectToHost(a, b) == [type |-> "ConnectToHost", from |-> b, to |-> a]
SuccessConnectToClient(a, b) == [type |-> "SuccessConnectToClient", from |-> a, to |-> b]
makePunchRequest(role, c, p) == [type |-> role, from |-> c, to |-> p]
QuicPacket(t, c, p) == [type |-> t, from |-> c, to |-> p]

\* The receiver's NAT lets the datagram in; it let the server in long before.
Passes(m) ==
    \/ m.type \notin Punch \cup Quic
    \/ m.to \notin Restricted
    \/ <<m.to, m.from>> \in hole

\* On a reliable path QUIC does not overtake the punches sent before it.
InOrder(m) ==
    m.type \in Quic =>
        \A p \in net : ~ (p.type \in Punch /\ p.from = m.from /\ p.to = m.to)

Arrives(m) ==
    /\ m \in net
    /\ Passes(m)
    /\ Unreliable \/ InOrder(m)

\* m is consumed, and out is sent.  On an unreliable path m stays where it is: a
\* datagram doubled is one received again, and a datagram lost is one never received.
Exchange(m, out) ==
    /\ net' = IF Unreliable THEN net \cup out ELSE (net \ {m}) \cup out
    /\ hole' = hole \cup {<<d.from, d.to>> : d \in out}

-----------------------------------------------------------------------------
(* Introduction and punching. *)

\* handleConnectConsent of the server: one datagram to each of the two.
Introduce(a, b) ==
    /\ <<a, b>> \in Calls \ introduced
    /\ introduced' = introduced \cup {<<a, b>>}
    /\ net' = net \cup {ConnectToHost(a, b), SuccessConnectToClient(a, b)}
    /\ UNCHANGED <<client, hole, history>>

\* listener() hands a datagram on only in the menu, from an open socket.
Dispatches(c) == listening[c] /\ socket_[c] /\ appState_[c] = "Menu"

\* initP2PConnection: the first punch leaves at once.
initP2PConnection(c, p, role, m) ==
    /\ Exchange(m, {makePunchRequest(role, c, p)})
    /\ punching' = punching \cup {[client |-> c, peer |-> p, type |-> role, sent |-> 1]}
    /\ UNCHANGED <<appState_, socket_, listening, handover, made, listener_, connection_,
                   introduced, history>>

\* Mutant of RecvConnectToHost: the caller punches as the callee does.
RecvConnectToHostSwapped(m) ==
    /\ Arrives(m) /\ Dispatches(m.to)
    /\ m.type = "ConnectToHost"
    /\ initP2PConnection(m.to, m.from, "ClientPunch", m)

RecvConnectToHost(m) ==
    /\ Arrives(m) /\ Dispatches(m.to)
    /\ m.type = "ConnectToHost"
    /\ initP2PConnection(m.to, m.from, "ServerPunch", m)

RecvSuccessConnectToClient(m) ==
    /\ Arrives(m) /\ Dispatches(m.to)
    /\ m.type = "SuccessConnectToClient"
    /\ initP2PConnection(m.to, m.from, "ClientPunch", m)

\* Mutants of PunchAgain: one punch too many; the count does not advance.
PunchAgainOnceMore(r) ==
    /\ handover[r.client] = None
    /\ appState_[r.client] = "Menu"
    /\ socket_[r.client]
    /\ r.sent <= MaxPunches
    /\ punching' = (punching \ {r}) \cup {[r EXCEPT !.sent = @ + 1]}
    /\ net' = net \cup {makePunchRequest(r.type, r.client, r.peer)}
    /\ hole' = hole \cup {<<r.client, r.peer>>}
    /\ UNCHANGED <<appState_, socket_, listening, handover, made, listener_, connection_,
                   introduced, history>>

PunchAgainUncounted(r) ==
    /\ handover[r.client] = None
    /\ appState_[r.client] = "Menu"
    /\ socket_[r.client]
    /\ r.sent < MaxPunches
    /\ net' = net \cup {makePunchRequest(r.type, r.client, r.peer)}
    /\ hole' = hole \cup {<<r.client, r.peer>>}
    /\ UNCHANGED <<client, introduced, history>>

\* The timer has expired and another punch leaves.
PunchAgain(r) ==
    /\ handover[r.client] = None
    /\ appState_[r.client] = "Menu"
    /\ socket_[r.client]
    /\ r.sent < MaxPunches
    /\ punching' = (punching \ {r}) \cup {[r EXCEPT !.sent = @ + 1]}
    /\ net' = net \cup {makePunchRequest(r.type, r.client, r.peer)}
    /\ hole' = hole \cup {<<r.client, r.peer>>}
    /\ UNCHANGED <<appState_, socket_, listening, handover, made, listener_, connection_,
                   introduced, history>>

\* The timer has expired and the coroutine ends: in the chat, after the last
\* punch, or on the exception that sending from a closed socket throws.
PunchEnds(r) ==
    /\ handover[r.client] = None
    /\ \/ appState_[r.client] = "Chat"
       \/ r.sent = MaxPunches
       \/ ~ socket_[r.client]
    /\ punching' = punching \ {r}
    /\ UNCHANGED <<appState_, socket_, listening, handover, made, listener_, connection_,
                   hole, introduced, net, history>>

-----------------------------------------------------------------------------
(* The hand-over to MsQuic. *)

\* Mutant of RecvPunch: the second handler is a copy of the first and keeps its role.
RecvPunchCopied(m) ==
    /\ Arrives(m) /\ Dispatches(m.to)
    /\ m.type \in Punch
    /\ appState_' = [appState_ EXCEPT ![m.to] = "Chat"]
    /\ listening' = [listening EXCEPT ![m.to] = FALSE]
    /\ handover' = [handover EXCEPT ![m.to] =
                        [at |-> "close", role |-> "ClientPunch", peer |-> m.from]]
    /\ Exchange(m, {})
    /\ UNCHANGED <<socket_, punching, made, listener_, connection_, introduced, history>>

\* A punch has arrived: the client is in the chat, and the io thread, which runs the
\* coroutine listener(), goes on to startConnection.  Whatever the menu thread does
\* meanwhile, the coroutine ends after that: in the chat, or on the closed socket.
RecvPunch(m) ==
    /\ Arrives(m) /\ Dispatches(m.to)
    /\ m.type \in Punch
    /\ appState_' = [appState_ EXCEPT ![m.to] = "Chat"]
    /\ listening' = [listening EXCEPT ![m.to] = FALSE]
    /\ handover' = [handover EXCEPT ![m.to] =
                        [at |-> "close", role |-> m.type, peer |-> m.from]]
    /\ Exchange(m, {})
    /\ UNCHANGED <<socket_, punching, made, listener_, connection_, introduced, history>>

HandsOver(c, step) == handover[c] # None /\ handover[c].at = step

\* Mutant of CloseSocket: the socket stays open until its destructor runs.
CloseSocketLater(c) ==
    /\ HandsOver(c, "close")
    /\ handover' = [handover EXCEPT ![c].at = "make"]
    /\ UNCHANGED <<appState_, socket_, listening, punching, made, listener_, connection_,
                   hole, introduced, net, history>>

\* startConnection: the socket is closed first, to free its port ...
CloseSocket(c) ==
    /\ HandsOver(c, "close")
    /\ socket_' = [socket_ EXCEPT ![c] = FALSE]
    /\ handover' = [handover EXCEPT ![c].at = "make"]
    /\ UNCHANGED <<appState_, listening, punching, made, listener_, connection_,
                   hole, introduced, net, history>>

\* ... then listener_ or connection_ is given a new object ...
MakeObject(c) ==
    /\ HandsOver(c, "make")
    /\ made' = made \cup {c}
    /\ handover' = [handover EXCEPT ![c].at = "start"]
    /\ UNCHANGED <<appState_, socket_, listening, punching, listener_, connection_,
                   hole, introduced, net, history>>

\* ... which is started through that pointer.  A QUIC listener takes the port and
\* waits for whoever connects.
StartListener(c) ==
    /\ HandsOver(c, "start") /\ c \in made
    /\ handover[c].role = "ClientPunch"
    /\ listener_' = [listener_ EXCEPT ![c] = TRUE]
    /\ made' = made \ {c}
    /\ handover' = [handover EXCEPT ![c] = None]
    /\ UNCHANGED <<appState_, socket_, listening, punching, connection_,
                   hole, introduced, net, history>>

\* Mutant of StartClient: the connection counts as up before it was answered.
StartClientHasty(c) ==
    LET p == handover[c].peer
    IN /\ HandsOver(c, "start") /\ c \in made
       /\ handover[c].role = "ServerPunch"
       /\ connection_' = [connection_ EXCEPT ![c] = [peer |-> p, up |-> TRUE]]
       /\ net' = net \cup {QuicPacket("QuicInitial", c, p)}
       /\ hole' = hole \cup {<<c, p>>}
       /\ made' = made \ {c}
       /\ handover' = [handover EXCEPT ![c] = None]
       /\ UNCHANGED <<appState_, socket_, listening, punching, listener_, introduced, history>>

\* A QUIC client takes the port and connects to whoever sent the punch.
StartClient(c) ==
    LET p == handover[c].peer
    IN /\ HandsOver(c, "start") /\ c \in made
       /\ handover[c].role = "ServerPunch"
       /\ connection_' = [connection_ EXCEPT ![c] = [peer |-> p, up |-> FALSE]]
       /\ net' = net \cup {QuicPacket("QuicInitial", c, p)}
       /\ hole' = hole \cup {<<c, p>>}
       /\ made' = made \ {c}
       /\ handover' = [handover EXCEPT ![c] = None]
       /\ UNCHANGED <<appState_, socket_, listening, punching, listener_, introduced, history>>

\* /exit has reset the pointer before Start was called through it, which is undefined:
\* the process dies, or nothing is started.
StartDangling(c) ==
    /\ HandsOver(c, "start") /\ c \notin made
    /\ handover' = [handover EXCEPT ![c] = None]
    /\ \/ /\ appState_' = [appState_ EXCEPT ![c] = "Dead"]
          /\ punching' = {r \in punching : r.client # c}
       \/ UNCHANGED <<appState_, punching>>
    /\ UNCHANGED <<socket_, listening, made, listener_, connection_, hole, introduced, net,
                   history>>

startConnection(c) ==
    \/ CloseSocket(c)
    \/ MakeObject(c)
    \/ StartListener(c)
    \/ StartClient(c)
    \/ StartDangling(c)

\* MsQuic repeats its first flight, and at some time gives up, which neither
\* changes the state of the application nor drops connection_.
QuicRetransmit(c) ==
    /\ connection_[c] # None
    /\ ~ connection_[c].up
    /\ net' = net \cup {QuicPacket("QuicInitial", c, connection_[c].peer)}
    /\ hole' = hole \cup {<<c, connection_[c].peer>>}
    /\ UNCHANGED <<client, introduced, history>>

\* The listener's callback takes any connection, in place of the one it had; a
\* repeated first flight belongs to the connection it has.
QuicAccept(m) ==
    /\ Arrives(m)
    /\ m.type = "QuicInitial"
    /\ listener_[m.to]
    /\ connection_' = [connection_ EXCEPT ![m.to] = [peer |-> m.from, up |-> TRUE]]
    /\ taken' = taken \cup {<<m.to, m.from>>}
    /\ Exchange(m, {QuicPacket("QuicReply", m.to, m.from)})
    /\ UNCHANGED <<appState_, socket_, listening, punching, handover, made, listener_,
                   introduced, left>>

\* QUIC_CONNECTION_EVENT_CONNECTED of the client.
QuicConnected(m) ==
    /\ Arrives(m)
    /\ m.type = "QuicReply"
    /\ connection_[m.to] = [peer |-> m.from, up |-> FALSE]
    /\ connection_' = [connection_ EXCEPT ![m.to] = [peer |-> m.from, up |-> TRUE]]
    /\ Exchange(m, {})
    /\ UNCHANGED <<appState_, socket_, listening, punching, handover, made, listener_,
                   introduced, history>>

\* A QUIC packet at a client still in the menu: parseRawMessage throws, and the
\* exception ends listener(), but neither closes the socket nor enters the chat.
StrayQuic(m) ==
    /\ Arrives(m) /\ Dispatches(m.to)
    /\ m.type \in Quic
    /\ listening' = [listening EXCEPT ![m.to] = FALSE]
    /\ Exchange(m, {})
    /\ UNCHANGED <<appState_, socket_, punching, handover, made, listener_, connection_,
                   introduced, history>>

\* A datagram the NAT blocks, or which nobody waits for.
Discard(m) ==
    /\ ~ Unreliable
    /\ \/ ~ Passes(m)
       \/ m.type \in Stun /\ ~ Dispatches(m.to)
       \/ m.type = "QuicInitial" /\ ~ Dispatches(m.to) /\ ~ listener_[m.to]
       \/ m.type = "QuicReply" /\ ~ Dispatches(m.to)
             /\ connection_[m.to] # [peer |-> m.from, up |-> FALSE]
    /\ net' = net \ {m}
    /\ UNCHANGED <<client, hole, introduced, history>>

\* /exit in the chat: listener() is spawned again, on a socket nobody reopened; while
\* the io thread is in startConnection it is not run before that socket is closed.
Exit(c) ==
    /\ c \in Leavers
    /\ appState_[c] = "Chat"
    /\ appState_' = [appState_ EXCEPT ![c] = "Menu"]
    /\ connection_' = [connection_ EXCEPT ![c] = None]
    /\ listener_' = [listener_ EXCEPT ![c] = FALSE]
    /\ made' = made \ {c}
    /\ listening' = [listening EXCEPT ![c] = socket_[c] /\ handover[c] = None]
    /\ left' = left \cup {c}
    /\ UNCHANGED <<socket_, punching, handover, hole, introduced, net, taken>>

-----------------------------------------------------------------------------
Receive(m) ==
    \/ RecvConnectToHost(m)
    \/ RecvSuccessConnectToClient(m)
    \/ RecvPunch(m)
    \/ QuicAccept(m)
    \/ QuicConnected(m)
    \/ StrayQuic(m)

Init ==
    /\ appState_ = [c \in Client |-> "Menu"]
    /\ socket_ = [c \in Client |-> TRUE]
    /\ listening = [c \in Client |-> TRUE]
    /\ punching = {}
    /\ handover = [c \in Client |-> None]
    /\ made = {}
    /\ listener_ = [c \in Client |-> FALSE]
    /\ connection_ = [c \in Client |-> None]
    /\ hole = {}
    /\ introduced = {}
    /\ net = {}
    /\ left = {}
    /\ taken = {}

Next ==
    \/ \E a, b \in Client : Introduce(a, b)
    \/ \E r \in punching : PunchAgain(r) \/ PunchEnds(r)
    \/ \E m \in net : Receive(m) \/ Discard(m)
    \/ \E c \in Client : startConnection(c) \/ QuicRetransmit(c) \/ Exit(c)

Spec == Init /\ [][Next]_vars

\* Timers expire, the io thread goes on, MsQuic repeats its first flight for longer than
\* a hand-over takes, and every datagram is dealt with.  Nothing is promised of the users.
Fairness ==
    /\ WF_vars(\E r \in punching : PunchAgain(r) \/ PunchEnds(r))
    /\ \A c \in Client : WF_vars(startConnection(c)) /\ WF_vars(QuicRetransmit(c))
    /\ \A t \in Stun \cup Quic, a, b \in Client :
        WF_vars(LET m == [type |-> t, from |-> a, to |-> b]
                IN m \in net /\ (Receive(m) \/ Discard(m)))

FairSpec == Spec /\ Fairness

-----------------------------------------------------------------------------
(* Properties. *)

TypeOK ==
    /\ appState_ \in [Client -> {"Menu", "Chat", "Dead"}]
    /\ socket_ \in [Client -> BOOLEAN]
    /\ listening \in [Client -> BOOLEAN]
    /\ punching \subseteq Punching
    /\ handover \in [Client -> Handover \cup {None}]
    /\ made \subseteq Client
    /\ listener_ \in [Client -> BOOLEAN]
    /\ connection_ \in [Client -> Connection \cup {None}]
    /\ hole \subseteq Client \X Client
    /\ introduced \subseteq Calls
    /\ net \subseteq Datagram
    /\ left \subseteq Client
    /\ taken \subseteq Client \X Client

\* c may be reached by p: p has sent to c, through c's NAT if it has one.
Reached(c, p) ==
    /\ <<p, c>> \in hole
    /\ c \in Restricted => <<c, p>> \in hole

\* Only somebody whose call was answered becomes a QUIC listener, and only a
\* callee the QUIC client of its caller: each has been reached by the other, so
\* roles of one call are never the same on both sides.
RoleFollowsCall ==
    \A c \in Client :
        /\ listener_[c] => \E b \in Client : <<c, b>> \in introduced /\ Reached(c, b)
        /\ connection_[c] # None /\ ~ listener_[c] =>
              /\ <<connection_[c].peer, c>> \in introduced
              /\ Reached(c, connection_[c].peer)

\* a has taken b's connection, and has it still, unless another callee of a connected
\* later or a's user left the chat.
Answered(a, b) ==
    /\ <<a, b>> \in taken
    /\ \/ a \in left
       \/ /\ listener_[a]
          /\ \E c \in Client :
                /\ connection_[a] = [peer |-> c, up |-> TRUE]
                /\ c # b => <<a, c>> \in introduced

\* A connection that is up at the callee is one its caller has accepted: no callee
\* talks to somebody who does not know of it, whatever was lost or doubled.
LinkMutual ==
    \A b \in Client :
        connection_[b] # None /\ ~ listener_[b] /\ connection_[b].up =>
            Answered(connection_[b].peer, b)

\* The local port has one owner: while the ASIO socket is open MsQuic has neither a
\* listener nor a connection on it, and the coroutine only reads an open socket, however
\* the steps of the hand-over, of /exit and of MsQuic's callbacks fall.
OnePortOwner ==
    \A c \in Client :
        /\ socket_[c] => ~ listener_[c] /\ connection_[c] = None
        /\ listening[c] => socket_[c]

Connected(a, b) ==
    /\ listener_[a] /\ connection_[a] = [peer |-> b, up |-> TRUE]
    /\ connection_[b] = [peer |-> a, up |-> TRUE]

\* The punches of a call are both on their way and will both be let in.
Crossing(a, b) ==
    LET there == makePunchRequest("ServerPunch", a, b)
        back == makePunchRequest("ClientPunch", b, a)
    IN /\ {there, back} \subseteq net
       /\ Passes(there) /\ Passes(back)
       /\ Dispatches(a) /\ Dispatches(b)

\* Punches that cross are enough: on a reliable path the pair connects, whatever
\* the two timers do (README.md:75-76).  Not so if the callee calls the caller as
\* well: then both may become QUIC clients, and wait for each other.
CrossingConnects ==
    \A a, b \in Client :
        Crossing(a, b) ~> Connected(a, b) \/ <<b, a>> \in introduced

\* A call is given up after its last punch: no coroutine punches for ever.
PunchingStops == <>[](punching = {})

\* Once both have sent to each other, so that both NATs are open, the direct
\* connection is established (README.md:75-76).
OpenPortsConnect ==
    \A a, b \in Client :
        <<a, b>> \in introduced /\ {<<a, b>>, <<b, a>>} \subseteq hole ~> Connected(a, b)

\* Who has had a chat as a listener, left it, and is back in the menu with that listener
\* gone, can be called again (Client.cpp:164-169, 181-182).
MenuListens ==
    \A c \in left :
        appState_[c] = "Menu" /\ ~ listener_[c] /\ (\E p \in Client : <<c, p>> \in taken)
            => listening[c]

===============================================================================
