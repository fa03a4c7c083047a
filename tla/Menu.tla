--------------------------------- MODULE Menu ----------------------------------
(***************************************************************************)
(* The client before the chat (client/src/Client.cpp): the menu thread,    *)
(* which turns the lines of its user into requests, and the io thread,     *)
(* which handles what the server sends.  They share token_ and             *)
(* pendingIncomingUser_, two strings without a lock: an assignment by the  *)
(* io thread begins and ends, and what the menu thread does in between is  *)
(* a data race.  A string read then is the old one, the new one, or a mix  *)
(* of both: as a name the mix is Torn, which nobody has, and as a token it *)
(* is one no server accepts, like NoToken.                                 *)
(*                                                                         *)
(* A client is named after its user and reaches the server from address,   *)
(* <<client, i>>: no two clients ever share one.  Each runs on a machine   *)
(* of its own, so that token.txt, whose path is fixed, is its own as well. *)
(***************************************************************************)
EXTENDS Naturals

CONSTANTS
    Client,         \* the users
    Endpoint,       \* the addresses of the clients
    NoToken,        \* no token, or one that is no longer one
    NoName,         \* the empty string
    Torn,           \* a name that is the mix of two
    Saves,          \* the clients that can open their token.txt
    Calls,          \* who may type /connect for whom, as pairs
    Commands,       \* which of the other lines each user may type
    MaxLines        \* bound: lines each user types

VARIABLES
    token_,         \* the token, shared by the threads
    pendingIncomingUser_, \* who calls, shared by the threads
    menu,           \* what the menu thread is about to do
    io,             \* the assignment the io thread is in, if any
    file,           \* token.txt
    address,        \* where the NAT of the client lets it appear
    requests,       \* the datagrams on their way to the server
    punching,       \* every coroutine initP2PConnection spawned, and for whom
    \* History, which no action reads but to count:
    lines,          \* how many lines its user has typed
    shown,          \* for each caller, how many calls its user was shown
    answers,        \* for each caller, how many consents it has sent
    raced,          \* <<b, a>>: b has answered a's call while it was being assigned
    asked,          \* <<a, b>>: a's user has typed /connect b
    accepted        \* <<b, a>>: b has sent its consent to a

clientVars == <<token_, pendingIncomingUser_, menu, io, file, address, requests,
                punching, lines, shown, answers, raced, asked, accepted>>
shared == <<token_, pendingIncomingUser_>>
counts == <<shown, answers, raced, asked, accepted>>

Idle == [at |-> "run", value |-> NoName]

-----------------------------------------------------------------------------
(* The two strings. *)

\* What a copy of token_ may hold.
CopiesOfToken(c) ==
    {token_[c]} \cup IF io[c].at = "token" THEN {io[c].value, NoToken} ELSE {}

\* What a copy of pendingIncomingUser_ may hold.
CopiesOfPending(c) ==
    {pendingIncomingUser_[c]}
    \cup IF io[c].at = "pending" THEN {io[c].value, Torn} ELSE {}

-----------------------------------------------------------------------------
(* The menu thread. *)

MakeRequest(r) == requests' = requests \cup {r}

Binding(c) == [type |-> "BindingRequest", from |-> address[c], clientName |-> c]
GetConnectedList(c, tok) ==
    [type |-> "GetConnectedList", from |-> address[c], jwtToken |-> tok]
ConnectToClient(c, tok, n) ==
    [type |-> "ConnectToClient", from |-> address[c], jwtToken |-> tok,
     clientNameToConnect |-> n]
ConnectConsent(c, tok, n, yes) ==
    [type |-> "ConnectConsent", from |-> address[c], jwtToken |-> tok,
     targetName |-> n, isAccepted |-> yes]

\* menuLoop has read another line.
GetLine(c) ==
    /\ menu[c] = "getline"
    /\ lines[c] < MaxLines[c]
    /\ lines' = [lines EXCEPT ![c] = @ + 1]

Type(c, command) == GetLine(c) /\ command \in Commands[c]

Login(c) ==
    /\ Type(c, "/login")
    /\ MakeRequest(Binding(c))
    /\ UNCHANGED <<shared, menu, io, file, address, punching, counts>>

List(c) ==
    /\ Type(c, "/list")
    /\ \E tok \in CopiesOfToken(c) : MakeRequest(GetConnectedList(c, tok))
    /\ UNCHANGED <<shared, menu, io, file, address, punching, counts>>

Connect(c, n) ==
    /\ GetLine(c)
    /\ <<c, n>> \in Calls
    /\ \E tok \in CopiesOfToken(c) : MakeRequest(ConnectToClient(c, tok, n))
    /\ asked' = asked \cup {<<c, n>>}
    /\ UNCHANGED <<shared, menu, io, file, address, punching, shown, answers,
                   raced, accepted>>

\* /accept and /reject: without a call they only print.  The length of a string is
\* the last that its assignment writes, so empty() never sees the call too early.
Decide(c, decision) ==
    /\ Type(c, decision)
    /\ menu' = [menu EXCEPT ![c] = IF pendingIncomingUser_[c] = NoName THEN @ ELSE decision]
    /\ UNCHANGED <<shared, io, file, address, requests, punching, counts>>

\* One more for client c and caller n.
Counted(f, c, n) ==
    [f EXCEPT ![c] = [m \in Client |-> IF m = n THEN f[c][m] + 1 ELSE f[c][m]]]

\* n was answered; raced says that the copy was not of the call that was pending.
CountAnswer(c, n) ==
    /\ answers' = Counted(answers, c, n)
    /\ raced' = raced \cup ({<<c, n>>} \ {<<c, pendingIncomingUser_[c]>>})

\* Mutants of answerConsent: a call that was accepted stays pending; a call that
\* was rejected is accepted.
answerConsentKept(c) ==
    /\ menu[c] \in {"/accept", "/reject"}
    /\ \E tok \in CopiesOfToken(c), n \in CopiesOfPending(c) :
        /\ MakeRequest(ConnectConsent(c, tok, n, menu[c] = "/accept"))
        /\ accepted' = IF menu[c] = "/accept" THEN accepted \cup {<<c, n>>} ELSE accepted
        /\ CountAnswer(c, n)
    /\ menu' = [menu EXCEPT ![c] = "getline"]
    /\ UNCHANGED <<shared, io, file, address, punching, lines, shown, asked>>

answerConsentAlways(c) ==
    /\ menu[c] \in {"/accept", "/reject"}
    /\ \E tok \in CopiesOfToken(c), n \in CopiesOfPending(c) :
        /\ MakeRequest(ConnectConsent(c, tok, n, TRUE))
        /\ accepted' = IF menu[c] = "/accept" THEN accepted \cup {<<c, n>>} ELSE accepted
        /\ CountAnswer(c, n)
    /\ menu' = [menu EXCEPT ![c] = "clear"]
    /\ UNCHANGED <<shared, io, file, address, punching, lines, shown, asked>>

\* answerConsent: both strings are copied into the request ...
answerConsent(c) ==
    /\ menu[c] \in {"/accept", "/reject"}
    /\ \E tok \in CopiesOfToken(c), n \in CopiesOfPending(c) :
        /\ MakeRequest(ConnectConsent(c, tok, n, menu[c] = "/accept"))
        /\ accepted' = IF menu[c] = "/accept" THEN accepted \cup {<<c, n>>} ELSE accepted
        /\ CountAnswer(c, n)
    /\ menu' = [menu EXCEPT ![c] = "clear"]
    /\ UNCHANGED <<shared, io, file, address, punching, lines, shown, asked>>

\* Mutant of Clear: it disturbs whatever assignment is going on.
ClearAnything(c) ==
    /\ menu[c] = "clear"
    /\ menu' = [menu EXCEPT ![c] = "getline"]
    /\ pendingIncomingUser_' = [pendingIncomingUser_ EXCEPT ![c] = NoName]
    /\ io' = [io EXCEPT ![c].at = IF @ = "run" THEN @ ELSE "cleared"]
    /\ UNCHANGED <<token_, file, address, requests, punching, lines, counts>>

\* ... and pendingIncomingUser_ is cleared, with the call that came meanwhile.
Clear(c) ==
    /\ menu[c] = "clear"
    /\ menu' = [menu EXCEPT ![c] = "getline"]
    /\ pendingIncomingUser_' = [pendingIncomingUser_ EXCEPT ![c] = NoName]
    /\ io' = [io EXCEPT ![c].at = IF @ = "pending" THEN "cleared" ELSE @]
    /\ UNCHANGED <<token_, file, address, requests, punching, lines, counts>>

MenuThread(c) ==
    \/ Login(c)
    \/ List(c)
    \/ \E n \in Client : Connect(c, n)
    \/ \E decision \in {"/accept", "/reject"} : Decide(c, decision)
    \/ answerConsent(c)
    \/ Clear(c)

-----------------------------------------------------------------------------
(* The io thread: dispatchResponse, for a datagram d to c. *)

Start(c, s) == io' = [io EXCEPT ![c] = s]

\* The token is assigned first and saved then.
RecvBindingResponse(c, d) ==
    /\ d.type = "SuccessBinding"
    /\ io[c] = Idle
    /\ Start(c, [at |-> "token", value |-> d.jwtToken])
    /\ UNCHANGED <<shared, menu, file, address, requests, punching, lines, counts>>

\* saveToken: token.txt, if it can be opened, is truncated ...
AssignToken(c) ==
    /\ io[c].at = "token"
    /\ token_' = [token_ EXCEPT ![c] = io[c].value]
    /\ IF c \in Saves
       THEN file' = [file EXCEPT ![c] = NoToken] /\ Start(c, [io[c] EXCEPT !.at = "save"])
       ELSE UNCHANGED file /\ Start(c, Idle)
    /\ UNCHANGED <<pendingIncomingUser_, menu, address, requests, punching, lines, counts>>

\* ... and written when it is closed.
SaveToken(c) ==
    /\ io[c].at = "save"
    /\ file' = [file EXCEPT ![c] = io[c].value]
    /\ Start(c, Idle)
    /\ UNCHANGED <<shared, menu, address, requests, punching, lines, counts>>

\* The call is shown first and assigned after.
RecvIncomingConnectionRequest(c, d) ==
    /\ d.type = "IncomingConnectionRequest"
    /\ io[c] = Idle
    /\ Start(c, [at |-> "pending", value |-> d.clientName])
    /\ shown' = Counted(shown, c, d.clientName)
    /\ UNCHANGED <<shared, menu, file, address, requests, punching, lines,
                   answers, raced, asked, accepted>>

\* When clear() ran in between, nothing is certain of the result.
AssignPending(c) ==
    /\ \/ /\ io[c].at = "pending"
          /\ pendingIncomingUser_' = [pendingIncomingUser_ EXCEPT ![c] = io[c].value]
       \/ /\ io[c].at = "cleared"
          /\ \E n \in {NoName, io[c].value, Torn} :
               pendingIncomingUser_' = [pendingIncomingUser_ EXCEPT ![c] = n]
    /\ Start(c, Idle)
    /\ UNCHANGED <<token_, menu, file, address, requests, punching, lines, counts>>

Role(d) == IF d.type = "ConnectToHost" THEN "ServerPunch" ELSE "ClientPunch"

\* An introduction spawns initP2PConnection, whether or not a call was made.
RecvIntroduction(c, d) ==
    /\ d.type \in {"ConnectToHost", "SuccessConnectToClient"}
    /\ io[c] = Idle
    /\ punching' = punching \cup {[client |-> c, role |-> Role(d), peer |-> d.clientName,
                                   address |-> d.address]}
    /\ UNCHANGED <<shared, menu, io, file, address, requests, lines, counts>>

\* A list and an error are printed.
RecvPrinted(c, d) ==
    /\ d.type \in {"SuccessConnectedList", "Error"}
    /\ io[c] = Idle
    /\ UNCHANGED clientVars

dispatchResponse(c, d) ==
    \/ RecvBindingResponse(c, d)
    \/ RecvIncomingConnectionRequest(c, d)
    \/ RecvIntroduction(c, d)
    \/ RecvPrinted(c, d)

IoThread(c) == AssignToken(c) \/ SaveToken(c) \/ AssignPending(c)

-----------------------------------------------------------------------------
(* The surroundings of a client. *)

\* Mutant of loadToken: the file is one that another client has written.
loadTokenShared(c) == \E f \in {file[d] : d \in Client} : token_' = [token_ EXCEPT ![c] = f]

loadToken(c) == token_' = [token_ EXCEPT ![c] = file[c]]

\* The process dies, for instance of a data race, and is started again.
RestartClient(c) ==
    /\ loadToken(c)
    /\ pendingIncomingUser_' = [pendingIncomingUser_ EXCEPT ![c] = NoName]
    /\ menu' = [menu EXCEPT ![c] = "getline"]
    /\ Start(c, Idle)
    /\ UNCHANGED <<file, address, requests, punching, lines, shown, answers, raced,
                   asked, accepted>>

\* The NAT gives the client another address, and the server is not told.
Move(c) ==
    LET next == <<c, address[c][2] + 1>>
    IN /\ next \in Endpoint
       /\ address' = [address EXCEPT ![c] = next]
       /\ UNCHANGED <<shared, menu, io, file, requests, punching, lines, counts>>

InitClients ==
    /\ token_ = [c \in Client |-> NoToken]
    /\ pendingIncomingUser_ = [c \in Client |-> NoName]
    /\ menu = [c \in Client |-> "getline"]
    /\ io = [c \in Client |-> Idle]
    /\ file = [c \in Client |-> NoToken]
    /\ address = [c \in Client |-> <<c, 1>>]
    /\ requests = {}
    /\ punching = {}
    /\ lines = [c \in Client |-> 0]
    /\ shown = [c \in Client |-> [n \in Client |-> 0]]
    /\ answers = [c \in Client |-> [n \in Client |-> 0]]
    /\ raced = {}
    /\ asked = {}
    /\ accepted = {}

ClientStep(c) == MenuThread(c) \/ IoThread(c)
ClientFault(c) == RestartClient(c) \/ Move(c)

===============================================================================
