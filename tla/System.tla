-------------------------------- MODULE System ---------------------------------
(***************************************************************************)
(* The server (Server) and its clients (Menu), joined by a network that    *)
(* may lose, double and reorder what either side sends.  Server lets       *)
(* anybody ask for anything; here every request is one a client has made   *)
(* from what its user typed and from what the server had sent before.      *)
(***************************************************************************)
EXTENDS Server

CONSTANTS
    Client, NoName, Torn, Saves, Calls, Commands, MaxLines,     \* see Menu
    MaxRequests,    \* bound: requests on their way before a next line is typed
    MaxFaults       \* bound: losses, copies, moves and crashes together

ASSUME SystemConstantsOK ==
    /\ Name = Client \cup {Torn}
    /\ Torn \notin Client
    /\ NoName \notin Name
    /\ \A n \in Name : Trim[n] = n
    /\ Endpoint \subseteq Client \X Nat
    /\ \A c \in Client : <<c, 1>> \in Endpoint
    /\ Saves \subseteq Client
    /\ Calls \subseteq Client \X Client
    /\ MaxLines \in [Client -> Nat]
    /\ Commands \in [Client -> SUBSET {"/login", "/list", "/accept", "/reject"}]
    /\ {MaxRequests, MaxFaults} \subseteq Nat

VARIABLES token_, pendingIncomingUser_, menu, io, file, address, requests,
          punching, lines, shown, answers, raced, asked, accepted,     \* see Menu
          faults          \* how many faults have happened

M == INSTANCE Menu

\* Of the clients, all but what is on its way to the server.
private == <<token_, pendingIncomingUser_, menu, io, file, address, punching,
             lines, shown, answers, raced, asked, accepted>>
clients == <<private, requests>>
systemVars == <<vars, clients, faults>>

-----------------------------------------------------------------------------
(* What joins them. *)

Fault == faults < MaxFaults /\ faults' = faults + 1
NoFault == UNCHANGED faults

\* worker: the handler of the request's type.
Handle(r) ==
    \/ r.type = "BindingRequest" /\ HandleBindingRequest(r.clientName, r.from)
    \/ r.type = "GetConnectedList" /\ HandleGetConnectionList(r.jwtToken, r.from)
    \/ /\ r.type = "ConnectToClient"
       /\ HandleConnectToClient(r.jwtToken, r.clientNameToConnect, r.from)
    \/ /\ r.type = "ConnectConsent"
       /\ HandleConnectConsent(r.jwtToken, r.targetName, r.isAccepted, r.from)

\* The bounds of the server.
Room(r) ==
    /\ Cardinality(net) < MaxInFlight
    /\ r.type = "BindingRequest" => Len(csv) < MaxRows

\* A request arrives, or a copy of one that is still on its way.
Serve(r) ==
    /\ Room(r)
    /\ Handle(r)
    /\ \/ requests' = requests \ {r} /\ NoFault
       \/ requests' = requests /\ Fault
    /\ UNCHANGED private

LoseRequest(r) ==
    /\ requests' = requests \ {r}
    /\ Fault
    /\ UNCHANGED <<vars, private>>

\* listener() of the client that has the address; a copy may still be on its way.
Deliver(d) ==
    /\ \E c \in Client : address[c] = d.to /\ M!dispatchResponse(c, d)
    /\ \/ Leave(d) /\ NoFault
       \/ UNCHANGED vars /\ Fault

\* An answer to an address nobody has any more.
Unreachable(d) ==
    /\ \A c \in Client : address[c] # d.to
    /\ Leave(d)
    /\ UNCHANGED <<clients, faults>>

LoseAnswer(d) ==
    /\ Leave(d)
    /\ Fault
    /\ UNCHANGED clients

ServerAlone ==
    /\ \/ (Resume \/ Tick) /\ NoFault
       \/ Restart /\ Fault
    /\ UNCHANGED clients

ClientAlone(c) ==
    /\ menu[c] = "getline" => Cardinality(requests) < MaxRequests
    /\ \/ M!ClientStep(c) /\ NoFault
       \/ M!ClientFault(c) /\ Fault
    /\ UNCHANGED vars

SystemInit == Init /\ M!InitClients /\ faults = 0

SystemNext ==
    \/ \E r \in requests : Serve(r) \/ LoseRequest(r)
    \/ \E d \in net : Deliver(d) \/ Unreachable(d) \/ LoseAnswer(d)
    \/ ServerAlone
    \/ \E c \in Client : ClientAlone(c)

SystemSpec == SystemInit /\ [][SystemNext]_systemVars

-----------------------------------------------------------------------------
(* Properties. *)

\* Every variable of the clients has its type; those of the server have Server's.
SystemTypeOK ==
    /\ token_ \in [Client -> tokens \cup {NoToken}]
    /\ file \in [Client -> tokens \cup {NoToken}]
    /\ pendingIncomingUser_ \in [Client -> Name \cup {NoName}]
    /\ menu \in [Client -> {"getline", "/accept", "/reject", "clear"}]
    /\ \A c \in Client :
        \/ io[c] = M!Idle
        \/ io[c].at \in {"token", "save"} /\ io[c].value \in tokens
        \/ io[c].at \in {"pending", "cleared"} /\ io[c].value \in Client
    /\ address \in [Client -> Endpoint]
    /\ \A r \in requests : r.from \in Endpoint
    /\ punching \subseteq [client : Client, role : {"ServerPunch", "ClientPunch"},
                           peer : Client, address : Endpoint \cup {Garbage}]
    /\ \A c \in Client : lines[c] \in 0..MaxLines[c]
    /\ {shown, answers} \subseteq [Client -> [Client -> Nat]]
    /\ raced \subseteq Client \X Name
    /\ asked \subseteq Calls
    /\ faults \in 0..MaxFaults
    /\ accepted \subseteq Client \X Name

\* A client punches only for a call that one of the two has typed and the other has
\* accepted, in the role that goes with its side of the call, and towards an address
\* of that very user: whatever was lost, doubled, torn or overtaken on the way.
PunchesForWantedCall ==
    \A p \in punching :
        LET caller == IF p.role = "ServerPunch" THEN p.client ELSE p.peer
            callee == IF p.role = "ServerPunch" THEN p.peer ELSE p.client
        IN /\ <<caller, callee>> \in asked
           /\ <<callee, caller>> \in accepted
           /\ p.address # Garbage => p.address[1] = p.peer

\* A client answers no caller more often than it has shown a call of that very caller,
\* though the io thread may show and assign calls while the menu thread answers.  The
\* one way there is to answer a call twice is a copy of pendingIncomingUser_ that is
\* taken from under its assignment (Client.cpp:280 against 502), which raced records.
AnsweredOnce ==
    \A c, n \in Client : <<c, n>> \notin raced => answers[c][n] <= shown[c][n]

\* What Server assumes of its surroundings, real clients keep: every step of the
\* system is one that Server allows, so what is shown of Server holds here.
ImplementsServer == Spec

===============================================================================
