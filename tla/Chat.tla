--------------------------------- MODULE Chat ----------------------------------
(***************************************************************************)
(* The chat (client/src/Connection.cpp, Stream.cpp, and menuLoop and the   *)
(* listener's callback in Client.cpp), from the moment the punches have    *)
(* handed the ports over to MsQuic.  One caller listens; the callees it    *)
(* has called are the QUIC clients that connect to it.  The menu thread of *)
(* each client types and leaves while MsQuic's threads run the callbacks.  *)
(*                                                                         *)
(* A Connection object is named <<c, k>>: the one client c made for the    *)
(* connection of callee k.  MsQuic itself, and the path under it, are      *)
(* taken for what they promise: a stream delivers its bytes in order,      *)
(* closing a handle completes its sends and ends its callbacks, and the    *)
(* other side learns of it in time, or by a timeout, or not at all.        *)
(* Streams carry bytes: a line is there when its last byte has come, and   *)
(* whether MsQuic cut it or joined it to the next is left out.             *)
(***************************************************************************)
EXTENDS Naturals, Sequences

CONSTANTS
    Caller,         \* who listens
    Callee,         \* who connect
    None,           \* no connection
    Leavers,        \* the clients whose users may type /exit
    MaxLines        \* bound: lines each user types in the chat

ASSUME ChatConstantsOK ==
    /\ Caller \notin Callee
    /\ None \notin Callee \cup (({Caller} \cup Callee) \X Callee)
    /\ Leavers \subseteq {Caller} \cup Callee
    /\ MaxLines \in [{Caller} \cup Callee -> Nat]

Client == {Caller} \cup Callee
Object == {o \in Client \X Callee : o[1] \in {Caller, o[2]}}
\* The object at the other end of the same connection.
Other(o) == <<IF o[1] = Caller THEN o[2] ELSE Caller, o[2]>>

VARIABLES
    appState_,      \* "Menu" or "Chat"
    menu,           \* what the menu thread is about to do, and with which object
    listener_,      \* whether the caller's QUIC listener runs
    connection_,    \* the callee of the connection a client holds, or None
    link,           \* what became of each object's QUIC connection
    stream_,        \* the objects that have their stream
    typed,          \* how many lines each user has typed in the chat
    opened,         \* the callees that have opened their stream
    configuring,    \* the callees whose NEW_CONNECTION is still being called back for
    configured,     \* the callees whose connection the caller has configured
    sent,           \* the lines each object has given to its stream, by number
    received,       \* how many of the other's lines each object has printed
    unfreed,        \* the QUIC_BUFFERs MsQuic has of each object
    leaked,         \* the objects of which a QUIC_BUFFER will never be freed
    \* History, which no action reads:
    deleted,        \* how often each object was deleted
    late            \* the callees that connected to a caller who was leaving

vars == <<appState_, menu, listener_, connection_, link, stream_, opened, configuring,
          configured, typed, sent, received, unfreed, leaked, deleted, late>>
objects == <<link, stream_, opened, configuring, configured, unfreed, leaked, deleted>>
lines == <<typed, sent, received>>

-----------------------------------------------------------------------------
(* The menu thread: menuLoop in the chat. *)

Reading(c) == menu[c] = [at |-> "getline", object |-> None]
Go(c, step, o) == menu' = [menu EXCEPT ![c] = [at |-> step, object |-> o]]
\* A line other than /exit: only a client that has a connection goes on to send.
TypeLine(c) ==
    /\ appState_[c] = "Chat"
    /\ Reading(c)
    /\ typed[c] < MaxLines[c]
    /\ typed' = [typed EXCEPT ![c] = @ + 1]
    /\ IF connection_[c] = None
       THEN UNCHANGED menu
       ELSE Go(c, "send", <<c, connection_[c]>>)
    /\ UNCHANGED <<appState_, listener_, connection_, objects, sent, received, late>>

\* Connection::SendMessage without a stream: the line is dropped.  So it is, or else the
\* client dies of it (Crash), when the object was deleted meanwhile.
DropLine(c) ==
    /\ menu[c].at = "send"
    /\ menu[c].object \notin stream_
    /\ Go(c, "getline", None)
    /\ UNCHANGED <<appState_, listener_, connection_, objects, lines, late>>

\* Mutant of SendLine: a line is dropped while MsQuic still has the one before.
SendLineUnlessBusy(c) ==
    LET o == menu[c].object
    IN /\ menu[c].at = "send"
       /\ o \in stream_
       /\ IF link[o] = "up" /\ unfreed[o] = 0
          THEN /\ sent' = [sent EXCEPT ![o] = Append(@, typed[c])]
               /\ unfreed' = [unfreed EXCEPT ![o] = @ + 1]
          ELSE UNCHANGED <<sent, unfreed>>
       /\ Go(c, "getline", None)
       /\ UNCHANGED <<appState_, listener_, connection_, link, stream_, opened,
                      configuring, configured, leaked, deleted, typed, received, late>>

\* Stream::Send: MsQuic takes the buffer, or refuses it when the connection is down,
\* and nobody looks at which.
SendLine(c) ==
    LET o == menu[c].object
    IN /\ menu[c].at = "send"
       /\ o \in stream_
       /\ IF link[o] = "up"
          THEN /\ sent' = [sent EXCEPT ![o] = Append(@, typed[c])]
               /\ unfreed' = [unfreed EXCEPT ![o] = @ + 1]
               /\ UNCHANGED leaked
          ELSE leaked' = leaked \cup {o} /\ UNCHANGED <<sent, unfreed>>
       /\ Go(c, "getline", None)
       /\ UNCHANGED <<appState_, listener_, connection_, link, stream_, opened,
                      configuring, configured, deleted, typed, received, late>>

\* /exit: the state of the application changes first ...
Exit(c) ==
    /\ c \in Leavers
    /\ appState_[c] = "Chat"
    /\ Reading(c)
    /\ appState_' = [appState_ EXCEPT ![c] = "Menu"]
    /\ Go(c, "exit", None)
    /\ UNCHANGED <<listener_, connection_, objects, lines, late>>

\* ... connection_.reset() takes the pointer ...
ExitTakes(c) ==
    /\ menu[c].at = "exit"
    /\ Go(c, "exit delete", IF connection_[c] = None THEN None ELSE <<c, connection_[c]>>)
    /\ UNCHANGED <<appState_, listener_, connection_, objects, lines, late>>

\* The objects os are no more, nor their streams; MsQuic gives back all buffers.
Vanish(os) ==
    /\ link' = [o \in Object |-> IF o \in os THEN "gone" ELSE link[o]]
    /\ stream_' = stream_ \ os
    /\ unfreed' = [o \in Object |-> IF o \in os THEN 0 ELSE unfreed[o]]

\* The objects os are deleted.
Delete(os) ==
    /\ Vanish(os)
    /\ deleted' = [o \in Object |-> IF o \in os THEN deleted[o] + 1 ELSE deleted[o]]

\* Mutant of ExitDeletes: the connection is forgotten, not deleted (release).
ExitDeletesNothing(c) ==
    /\ menu[c].at = "exit delete"
    /\ connection_' = [connection_ EXCEPT ![c] = None]
    /\ Go(c, "exit listener", None)
    /\ UNCHANGED <<appState_, listener_, objects, lines, late>>

\* ... clears it and deletes the object ...
ExitDeletes(c) ==
    /\ menu[c].at = "exit delete"
    /\ connection_' = [connection_ EXCEPT ![c] = None]
    /\ Delete({menu[c].object} \cap Object)
    /\ Go(c, "exit listener", None)
    /\ UNCHANGED <<appState_, listener_, opened, configuring, configured, leaked,
                   lines, late>>

\* ... and listener_.reset() waits for the callbacks of the listener and ends them.
ExitListener(c) ==
    /\ menu[c].at = "exit listener"
    /\ c = Caller => configuring = {}
    /\ listener_' = (listener_ /\ c # Caller)
    /\ Go(c, "getline", None)
    /\ UNCHANGED <<appState_, connection_, objects, lines, late>>

-----------------------------------------------------------------------------
(* The callbacks of MsQuic. *)

\* Mutant of NewConnection: the object there was is released, not deleted.
NewConnectionReleasesOld(k) ==
    /\ listener_
    /\ link[<<k, k>>] = "starting"
    /\ link[<<Caller, k>>] = "none"
    /\ link' = [link EXCEPT ![<<Caller, k>>] = "new"]
    /\ connection_' = [connection_ EXCEPT ![Caller] = k]
    /\ configuring' = configuring \cup {k}
    /\ late' = IF appState_[Caller] = "Menu" THEN late \cup {k} ELSE late
    /\ UNCHANGED <<appState_, menu, listener_, stream_, opened, configured, unfreed, leaked,
                   deleted, lines>>

\* QUIC_LISTENER_EVENT_NEW_CONNECTION: the new object takes the place of the one
\* there was, which is deleted under whoever uses it ...
NewConnection(k) ==
    LET old == {<<Caller, connection_[Caller]>>} \cap Object
    IN /\ listener_
       /\ link[<<k, k>>] = "starting"
       /\ link[<<Caller, k>>] = "none"
       /\ link' = [o \in Object |-> IF o \in old THEN "gone"
                                    ELSE IF o = <<Caller, k>> THEN "new" ELSE link[o]]
       /\ stream_' = stream_ \ old
       /\ unfreed' = [o \in Object |-> IF o \in old THEN 0 ELSE unfreed[o]]
       /\ deleted' = [o \in Object |-> IF o \in old THEN deleted[o] + 1 ELSE deleted[o]]
       /\ connection_' = [connection_ EXCEPT ![Caller] = k]
       /\ configuring' = configuring \cup {k}
       /\ late' = IF appState_[Caller] = "Menu" THEN late \cup {k} ELSE late
       /\ UNCHANGED <<appState_, menu, listener_, opened, configured, leaked, lines>>

\* ... and the callback goes on to configure the connection that is held by then, whichever
\* it is: one that is not new any more refuses, and there may be none.
SetConfiguration(k) ==
    LET o == <<Caller, connection_[Caller]>>
    IN /\ k \in configuring
       /\ configuring' = configuring \ {k}
       /\ IF o \in Object /\ link[o] = "new"
          THEN /\ link' = [link EXCEPT ![o] = "up"]
               /\ configured' = configured \cup {connection_[Caller]}
          ELSE UNCHANGED <<link, configured>>
       /\ UNCHANGED <<appState_, menu, listener_, connection_, stream_, opened, unfreed,
                      leaked, deleted, lines, late>>

\* QUIC_CONNECTION_EVENT_CONNECTED of a callee, which opens the stream at once.
onClientConnected(k) ==
    /\ link[<<k, k>>] = "starting"
    /\ k \in configured
    /\ link' = [link EXCEPT ![<<k, k>>] = "up"]
    /\ stream_' = stream_ \cup {<<k, k>>}
    /\ opened' = opened \cup {k}
    /\ UNCHANGED <<appState_, menu, listener_, connection_, configuring, configured, unfreed,
                   leaked, deleted, lines, late>>

\* QUIC_CONNECTION_EVENT_PEER_STREAM_STARTED of the caller.
onServerIncomingStream(k) ==
    /\ link[<<Caller, k>>] = "up"
    /\ k \in opened
    /\ <<Caller, k>> \notin stream_
    /\ stream_' = stream_ \cup {<<Caller, k>>}
    /\ UNCHANGED <<appState_, menu, listener_, connection_, link, opened, configuring,
                   configured, unfreed, leaked, deleted, lines, late>>

\* Mutant of OnDataReceive: the last of the buffers is not read.
OnDataReceiveButLast(o) ==
    /\ o \in stream_
    /\ link[o] = "up"
    /\ received[o] + 1 < Len(sent[Other(o)])
    /\ received' = [received EXCEPT ![o] = @ + 1]
    /\ UNCHANGED <<appState_, menu, listener_, connection_, objects, typed, sent, late>>

\* QUIC_STREAM_EVENT_RECEIVE: whatever has come is printed, also in the menu.
OnDataReceive(o) ==
    /\ o \in stream_
    /\ link[o] = "up"
    /\ received[o] < Len(sent[Other(o)])
    /\ received' = [received EXCEPT ![o] = @ + 1]
    /\ UNCHANGED <<appState_, menu, listener_, connection_, objects, typed, sent, late>>

\* Mutant of SendComplete: the QUIC_BUFFER is deleted again.
SendCompleteTwice(o) ==
    /\ o \in stream_
    /\ unfreed[o] > 0
    /\ unfreed' = [unfreed EXCEPT ![o] = @ - 2]
    /\ UNCHANGED <<appState_, menu, listener_, connection_, link, stream_, opened,
                   configuring, configured, leaked, deleted, lines, late>>

\* QUIC_STREAM_EVENT_SEND_COMPLETE: the QUIC_BUFFER is deleted, though not its bytes.
SendComplete(o) ==
    /\ o \in stream_
    /\ unfreed[o] > 0
    /\ unfreed' = [unfreed EXCEPT ![o] = @ - 1]
    /\ UNCHANGED <<appState_, menu, listener_, connection_, link, stream_, opened,
                   configuring, configured, leaked, deleted, lines, late>>

\* Mutant of Shutdown: the callback deletes the connection it is called for.
ShutdownDeletes(o) ==
    /\ link[o] \in {"starting", "new", "up"}
    /\ connection_' = [connection_ EXCEPT ![o[1]] = None]
    /\ Delete({o})
    /\ UNCHANGED <<appState_, menu, listener_, opened, configuring, configured, leaked,
                   lines, late>>

\* SHUTDOWN_INITIATED_BY_TRANSPORT or _BY_PEER, and SHUTDOWN_COMPLETE: every send is
\* cancelled and the callbacks print, but connection_ and stream_ stay.
Shutdown(o) ==
    /\ link[o] \in {"starting", "new", "up"}
    /\ link' = [link EXCEPT ![o] = "down"]
    /\ unfreed' = [unfreed EXCEPT ![o] = 0]
    /\ UNCHANGED <<appState_, menu, listener_, connection_, stream_, opened, configuring,
                   configured, leaked, deleted, lines, late>>

-----------------------------------------------------------------------------
(* The use of an object after its deletion. *)

\* The menu thread goes on with an object that another thread has deleted, or the callback
\* with one that /exit has taken away.
UsesFreed(c) ==
    \/ /\ menu[c].at \in {"send", "exit delete"}
       /\ menu[c].object # None
       /\ link[menu[c].object] = "gone"
    \/ /\ c = Caller
       /\ configuring # {}
       /\ connection_[c] = None

\* What happens then is undefined.  Either nothing does (DropLine, ExitDeletes and
\* SetConfiguration go on), or the process dies, and all its connections with it.
Crash(c) ==
    /\ UsesFreed(c)
    /\ Go(c, "dead", None)
    /\ connection_' = [connection_ EXCEPT ![c] = None]
    /\ listener_' = (listener_ /\ c # Caller)
    /\ configuring' = IF c = Caller THEN {} ELSE configuring
    /\ Vanish({o \in Object : o[1] = c /\ link[o] # "none"})
    /\ UNCHANGED <<appState_, opened, configured, leaked, deleted, lines, late>>

-----------------------------------------------------------------------------
Init ==
    /\ appState_ = [c \in Client |-> "Chat"]
    /\ menu = [c \in Client |-> [at |-> "getline", object |-> None]]
    /\ listener_ = TRUE
    /\ connection_ = [c \in Client |-> IF c = Caller THEN None ELSE c]
    /\ link = [o \in Object |-> IF o[1] = Caller THEN "none" ELSE "starting"]
    /\ stream_ = {}
    /\ opened = {}
    /\ configuring = {}
    /\ configured = {}
    /\ typed = [c \in Client |-> 0]
    /\ sent = [o \in Object |-> <<>>]
    /\ received = [o \in Object |-> 0]
    /\ unfreed = [o \in Object |-> 0]
    /\ leaked = {}
    /\ deleted = [o \in Object |-> 0]
    /\ late = {}

\* The rest of what the menu thread does with a line it has read.
MenuThread(c) ==
    \/ DropLine(c)
    \/ SendLine(c)
    \/ ExitTakes(c)
    \/ ExitDeletes(c)
    \/ ExitListener(c)

Callback ==
    \/ \E k \in Callee : NewConnection(k) \/ SetConfiguration(k)
    \/ \E k \in Callee : onClientConnected(k) \/ onServerIncomingStream(k)
    \/ \E o \in Object : OnDataReceive(o) \/ SendComplete(o) \/ Shutdown(o)

Next ==
    \/ \E c \in Client : TypeLine(c) \/ Exit(c) \/ MenuThread(c) \/ Crash(c)
    \/ Callback

Spec == Init /\ [][Next]_vars

\* A thread that is running goes on, and MsQuic delivers what it has taken.  Nothing is promised of the users, of the path, or of the timeouts.
Fairness ==
    /\ \A c \in Client : WF_vars(MenuThread(c))
    /\ \A k \in Callee : WF_vars(SetConfiguration(k)) /\ WF_vars(onServerIncomingStream(k))
    /\ \A o \in Object : WF_vars(OnDataReceive(o))

FairSpec == Spec /\ Fairness

-----------------------------------------------------------------------------
(* Properties. *)

Step == {"getline", "send", "exit", "exit delete", "exit listener", "dead"}

\* Every variable has its type.
TypeOK ==
    /\ appState_ \in [Client -> {"Menu", "Chat"}]
    /\ menu \in [Client -> [at : Step, object : Object \cup {None}]]
    /\ listener_ \in BOOLEAN
    /\ connection_ \in [Client -> Callee \cup {None}]
    /\ link \in [Object -> {"none", "new", "starting", "up", "down", "gone"}]
    /\ stream_ \subseteq Object
    /\ opened \subseteq Callee
    /\ configuring \subseteq Callee
    /\ configured \subseteq Callee
    /\ \A c \in Client : typed[c] \in 0..MaxLines[c]
    /\ \A o \in Object : sent[o] \in Seq(1..MaxLines[o[1]])
    /\ \A o \in Object : received[o] \in 0..MaxLines[Other(o)[1]]
    /\ \A o \in Object : unfreed[o] \in 0..MaxLines[o[1]]
    /\ leaked \subseteq Object
    /\ deleted \in [Object -> Nat]
    /\ late \subseteq Callee

\* No thread of a client uses an object that was deleted, nor does the client die of it, but
\* for the caller, and for it only while it leaves or after a second callee has connected,
\* whose connection took the place of the first.
UsesLiveObject ==
    \A c \in Client : UsesFreed(c) \/ menu[c].at = "dead" =>
        /\ c = Caller
        /\ appState_[c] = "Menu" \/ \E o \in Object : deleted[o] > 0

\* Every object is held by connection_ until it is deleted, and deleted once, whatever
\* order /exit and the callbacks come in, but for one case: a callee connects to a
\* caller between /exit and listener_.reset().
OneOwner ==
    late = {} =>
        \A o \in Object :
            /\ link[o] \notin {"none", "gone"} => connection_[o[1]] = o[2]
            /\ deleted[o] <= 1

\* The lines that reach a stream are consecutive: of what a user types some lines may
\* be dropped before the stream exists and after the connection has ended, and none
\* in between.
NoLineSkipped ==
    \A o \in Object : \A i \in 1 .. Len(sent[o]) - 1 : sent[o][i + 1] = sent[o][i] + 1

\* What a user sees of an object: an end of a chat, which is open while lines can be put
\* on its stream.
StateOf(o) ==
    CASE link[o] \in {"down", "gone"} -> "over"
      [] link[o] = "up" /\ o \in stream_ -> "open"
      [] OTHER -> "waiting"

V == INSTANCE Conversation
     WITH End <- Object,
          Owner <- [o \in Object |-> o[1]],
          Peer <- [o \in Object |-> Other(o)],
          left <- {c \in Client : appState_[c] = "Menu" \/ menu[c].at = "dead"},
          state <- [o \in Object |-> StateOf(o)],
          saying <- [c \in Client |-> IF menu[c].at = "send" THEN menu[c].object ELSE None],
          said <- sent,
          heard <- received

\* Whatever callbacks replace, delete or shut down while a user types: an object once over
\* stays over, a client in the chat has at most one open, and a line typed then is put on
\* that one's stream, next after the one before, unless it is over first; and a client dies
\* only while it leaves, or of a line whose object was over before it could be said.
ImplementsConversation == V!Spec

\* A line that reached the stream is printed by the other side in the end, whatever
\* either user does, unless the connection of one of them ends.
LinesArrive ==
    \A o \in Object : []<>(\/ received[Other(o)] = Len(sent[o])
                           \/ "up" # link[o]
                           \/ "up" # link[Other(o)])

===============================================================================
