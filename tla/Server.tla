-------------------------------- MODULE Server --------------------------------
(***************************************************************************)
(* The rendezvous server (server/src/server.cpp).  Every datagram is       *)
(* handled by a coroutine of its own (worker) on a one-threaded io_context,*)
(* so a handler runs undisturbed up to the first send it waits for.  Only  *)
(* handleConnectConsent still reads the registry after such a wait: it is  *)
(* split there, and the coroutines suspended in between are consents.      *)
(*                                                                         *)
(* Datagrams carry no bytes here: a record holds the fields of the         *)
(* attribute the client decodes.  Cookies and transaction identifiers are  *)
(* echoed and never compared by either program, and are left out.          *)
(***************************************************************************)
EXTENDS Naturals, Sequences, FiniteSets, SequencesExt

CONSTANTS
    Name,           \* user names, the peerId of tokens
    Endpoint,       \* UDP addresses a datagram may come from
    NoToken,        \* the empty token_ of a client that never logged in
    Garbage,        \* what a read through a dangling reference may yield
    TokenLife,      \* ticks a token stays valid, one hour in the code
    CsvHasHeader,   \* whether data.csv starts with the line naming its columns
    SaveMayFail,    \* whether data.csv may be impossible to open for writing
    Unparsable,     \* names that spoil their row of data.csv: those with a comma
    Trim,           \* for a name, what data.csv brings it back as: the same, or
                    \* without the blanks and tabs at its ends
    TokenMayFail,   \* whether signing a token may fail
    MaxRows,        \* bound: rows written to data.csv
    MaxTime,        \* bound: ticks of the clock
    MaxRestarts,    \* bound: crashes of the server
    MaxInFlight,    \* bound: answers on their way before a next request comes
    MaxConsents,    \* bound: coroutines suspended in handleConnectConsent
    MaxTold         \* bound: introductions sent, a coroutine begun sends two

ASSUME ConstantsOK ==
    /\ NoToken \notin [peerId : Name, exp : Nat]
    /\ Garbage \notin Endpoint
    /\ TokenLife \in Nat
    /\ Unparsable \subseteq Name
    /\ Trim \in [Name -> Name]
    /\ {CsvHasHeader, SaveMayFail, TokenMayFail} \subseteq BOOLEAN
    /\ {MaxRows, MaxTime, MaxRestarts, MaxInFlight, MaxConsents,
        MaxTold} \subseteq Nat

VARIABLES
    connected_clients,  \* the registry: a vector of names and endpoints
    csv,                \* the rows of data.csv, its header line apart
    consents,           \* coroutines waiting for their ConnectToHost to be sent
    now,                \* the clock tokens expire by
    restarts,           \* how often the process was started again
    tokens,             \* the tokens handed to clients
    net,                \* the datagrams on their way to clients
    \* History, which no action reads:
    heard,              \* every name and endpoint the registry has stored
    latest,             \* for a name, the last endpoint stored
    seen,               \* the names stored since the last restart
    told                \* every introduction sent, of either kind

vars == <<connected_clients, csv, consents, now, restarts, tokens, net,
          heard, latest, seen, told>>
history == <<heard, latest, seen, told>>

-----------------------------------------------------------------------------
(* What the server stores and sends. *)

ConnectedClient == [name : Name, endpoint : Endpoint]
Token == [peerId : Name, exp : Nat]

\* A coroutine suspended in handleConnectConsent: where its host is, whom the
\* host accepted, the element it refers to (res_attr), and how many elements
\* the vector had when it took that reference.
Consent == [to : Endpoint, target : Name, ref : Nat \ {0}, size : Nat]

SuccessBinding(e, tok) ==
    [type |-> "SuccessBinding", to |-> e, address |-> e, jwtToken |-> tok]
SuccessConnectedList(e, names) ==
    [type |-> "SuccessConnectedList", to |-> e, connectedList |-> names]
IncomingConnectionRequest(e, caller) ==
    [type |-> "IncomingConnectionRequest", to |-> e, clientName |-> caller]
ConnectToHost(e, host, address) ==
    [type |-> "ConnectToHost", to |-> e, clientName |-> host, address |-> address]
SuccessConnectToClient(e, target, address) ==
    [type |-> "SuccessConnectToClient", to |-> e, clientName |-> target, address |-> address]
Error(e, why) == [type |-> "Error", to |-> e, error |-> why]

Introduction ==
    [type : {"ConnectToHost", "SuccessConnectToClient"}, to : Endpoint,
     clientName : Name, address : Endpoint \cup {Garbage}]

Datagram ==
    Introduction
    \cup [type : {"SuccessBinding"}, to : Endpoint, address : Endpoint, jwtToken : Token]
    \cup [type : {"SuccessConnectedList"}, to : Endpoint, connectedList : Seq(Name)]
    \cup [type : {"IncomingConnectionRequest"}, to : Endpoint, clientName : Name]
    \cup [type : {"Error"}, to : Endpoint,
          error : {"Unauthorized", "Not found client", "Connection rejected by user",
                   "Internal server error"}]

\* std::ranges::find by name: the first match, or 0 for end().
Find(clients, n) == SelectInSeq(clients, LAMBDA c : c.name = n)

\* Whether push_back on a vector that has only grown by push_back from empty
\* to n elements moves them: its capacity doubles.
Reallocates(n) == n = 0 \/ \E k \in 0..n : n = 2^k

\* Whether some push_back has moved the elements since w took its reference.
Dangling(w) == \E n \in w.size .. (Len(connected_clients) - 1) : Reallocates(n)

verifyJwt(tok) == tok # NoToken /\ now <= tok.exp
makeToken(n) == [peerId |-> n, exp |-> now + TokenLife]

-----------------------------------------------------------------------------
(* Steps the handlers share. *)

Send(d) == net' = net \cup {d}
Introduce(d) == Send(d) /\ told' = told \cup {d}

\* Mutants of Stored: of several elements of the name the last is updated; the name is
\* erased first and pushed to the end.
StoredInLast(n, e) ==
    LET i == SelectLastInSeq(connected_clients, LAMBDA c : c.name = n)
    IN IF i = 0
       THEN Append(connected_clients, [name |-> n, endpoint |-> e])
       ELSE [connected_clients EXCEPT ![i].endpoint = e]

StoredLast(n, e) ==
    Append(SelectSeq(connected_clients, LAMBDA c : c.name # n), [name |-> n, endpoint |-> e])

\* The registry after n has been stored under endpoint e.
Stored(n, e) ==
    LET i == Find(connected_clients, n)
    IN IF i = 0
       THEN Append(connected_clients, [name |-> n, endpoint |-> e])
       ELSE [connected_clients EXCEPT ![i].endpoint = e]

Store(n, e) ==
    /\ connected_clients' = Stored(n, e)
    /\ heard' = heard \cup {<<n, e>>}
    /\ latest' = [latest EXCEPT ![n] = e]
    /\ seen' = seen \cup {n}

\* Mutants of saveUser, whose parameters are three strings: the name and the
\* address are swapped; the file is opened without ios::app and loses its rows.
saveUserSwapped(n, e) == csv' = Append(csv, [name |-> e, endpoint |-> n])
saveUserTruncating(n, e) == csv' = <<[name |-> n, endpoint |-> e]>>

\* A row is appended; a file that cannot be opened is passed over in silence.
saveUser(n, e) ==
    \/ csv' = Append(csv, [name |-> n, endpoint |-> e])
    \/ SaveMayFail /\ UNCHANGED csv

\* Mutant of loadUsers: one endpoint object is shared by every entry.
loadUsersShared ==
    [i \in DOMAIN csv |-> [name |-> csv[i].name, endpoint |-> csv[Len(csv)].endpoint]]

\* Without the header line read_header throws and the registry stays empty;
\* with it every row is pushed, also several of one name, up to the first that
\* read_row throws for.  The reader trims the fields of a row.
loadUsers ==
    LET bad == SelectInSeq(csv, LAMBDA r : r.name \in Unparsable)
        n == IF ~ CsvHasHeader THEN 0 ELSE IF bad = 0 THEN Len(csv) ELSE bad - 1
    IN [i \in 1 .. n |-> [name |-> Trim[csv[i].name], endpoint |-> csv[i].endpoint]]

Unauthorized(tok, e) ==
    /\ ~ verifyJwt(tok)
    /\ Send(Error(e, "Unauthorized"))
    /\ UNCHANGED <<connected_clients, csv, consents, now, restarts, tokens, history>>

NotFound(tok, target, e) ==
    /\ verifyJwt(tok)
    /\ Find(connected_clients, target) = 0
    /\ Send(Error(e, "Not found client"))
    /\ UNCHANGED <<connected_clients, csv, consents, now, restarts, tokens, history>>

-----------------------------------------------------------------------------
(* The request handlers. *)

\* The client is in the registry before the token is signed: a token that
\* cannot be signed leaves it there, unsaved.
HandleBindingRequest(n, e) ==
    /\ Store(n, e)
    /\ \/ /\ tokens' = tokens \cup {makeToken(n)}
          /\ saveUser(n, e)
          /\ Send(SuccessBinding(e, makeToken(n)))
       \/ /\ TokenMayFail
          /\ Send(Error(e, "Internal server error"))
          /\ UNCHANGED <<tokens, csv>>
    /\ UNCHANGED <<consents, now, restarts, told>>

HandleGetConnectionList(tok, e) ==
    \/ Unauthorized(tok, e)
    \/ /\ verifyJwt(tok)
       /\ Send(SuccessConnectedList(e, [i \in DOMAIN connected_clients |->
                                            connected_clients[i].name]))
       /\ UNCHANGED <<connected_clients, csv, consents, now, restarts, tokens, history>>

\* The caller gets no answer, and its own entry keeps its endpoint.
HandleConnectToClient(tok, target, e) ==
    \/ Unauthorized(tok, e)
    \/ NotFound(tok, target, e)
    \/ /\ verifyJwt(tok)
       /\ Find(connected_clients, target) # 0
       /\ Send(IncomingConnectionRequest(
                connected_clients[Find(connected_clients, target)].endpoint, tok.peerId))
       /\ UNCHANGED <<connected_clients, csv, consents, now, restarts, tokens, history>>

RejectConsent(tok, target, e) ==
    /\ verifyJwt(tok)
    /\ Find(connected_clients, target) # 0
    /\ Send(Error(connected_clients[Find(connected_clients, target)].endpoint,
                  "Connection rejected by user"))
    /\ UNCHANGED <<connected_clients, csv, consents, now, restarts, tokens, history>>

\* Mutant of sendConnectMessage: it runs before the host's entry is updated.
sendConnectMessageEarly(t, host, e) ==
    Introduce(ConnectToHost(connected_clients'[t].endpoint, host,
                            connected_clients[Find(connected_clients, host)].endpoint))

\* sendConnectMessage: element t of the registry is told where the host is.
sendConnectMessage(t, host, e) ==
    Introduce(ConnectToHost(connected_clients'[t].endpoint, host, e))

\* The host is registered: its entry takes the endpoint its consent came from,
\* the caller is told, and the coroutine waits.  A send that throws ends it.
AcceptConsent(tok, target, e) ==
    LET t == Find(connected_clients, target)
    IN /\ verifyJwt(tok)
       /\ t # 0
       /\ Find(connected_clients, tok.peerId) # 0
       /\ Cardinality(consents) < MaxConsents /\ Cardinality(told) < MaxTold
       /\ Store(tok.peerId, e)
       /\ \/ /\ sendConnectMessage(t, tok.peerId, e)
             /\ consents' = consents \cup {[to |-> e, target |-> target, ref |-> t,
                                            size |-> Len(connected_clients)]}
          \/ UNCHANGED <<consents, net, told>>
       /\ UNCHANGED <<csv, now, restarts, tokens>>

\* The host is not registered: the caller is told nothing, the host is.
AcceptFromStranger(tok, target, e) ==
    LET t == Find(connected_clients, target)
    IN /\ verifyJwt(tok)
       /\ t # 0
       /\ Find(connected_clients, tok.peerId) = 0
       /\ Cardinality(told) < MaxTold
       /\ Introduce(SuccessConnectToClient(e, target, connected_clients[t].endpoint))
       /\ UNCHANGED <<connected_clients, csv, consents, now, restarts, tokens, heard, latest, seen>>

HandleConnectConsent(tok, target, isAccepted, e) ==
    \/ Unauthorized(tok, e)
    \/ NotFound(tok, target, e)
    \/ ~ isAccepted /\ RejectConsent(tok, target, e)
    \/ isAccepted /\ AcceptConsent(tok, target, e)
    \/ isAccepted /\ AcceptFromStranger(tok, target, e)

\* Mutant of ResumeConsent: the host's own endpoint is sent as the caller's.
ResumeConsentSwapped(w) ==
    /\ ~ Dangling(w)
    /\ Introduce(SuccessConnectToClient(w.to, w.target, w.to))
    /\ consents' = consents \ {w}
    /\ UNCHANGED <<connected_clients, csv, now, restarts, tokens, heard, latest, seen>>

\* ConnectToHost has been sent: res_attr is read again and the host answered.
ResumeConsent(w) ==
    /\ ~ Dangling(w)
    /\ Introduce(SuccessConnectToClient(w.to, w.target, connected_clients[w.ref].endpoint))
    /\ consents' = consents \ {w}
    /\ UNCHANGED <<connected_clients, csv, now, restarts, tokens, heard, latest, seen>>

\* The same when the vector has moved: undefined behaviour.  Either the read
\* yields garbage, or the process dies, which is a step of Restart.
ResumeDangling(w) ==
    /\ Dangling(w)
    /\ Introduce(SuccessConnectToClient(w.to, w.target, Garbage))
    /\ consents' = consents \ {w}
    /\ UNCHANGED <<connected_clients, csv, now, restarts, tokens, heard, latest, seen>>

\* The process dies and is started again; tokens stay valid, since the secret
\* they are signed with is read from .env.
Restart ==
    /\ restarts < MaxRestarts
    /\ connected_clients' = loadUsers
    /\ consents' = {}
    /\ restarts' = restarts + 1
    /\ seen' = {}
    /\ UNCHANGED <<csv, now, tokens, net, heard, latest, told>>

-----------------------------------------------------------------------------
(* The surroundings: time, and the network towards the clients. *)

Tick ==
    /\ now < MaxTime
    /\ now' = now + 1
    /\ UNCHANGED <<connected_clients, csv, consents, restarts, tokens, net, history>>

\* A datagram arrives or is lost; what a client does with it is not of this module.
Leave(d) ==
    /\ net' = net \ {d}
    /\ UNCHANGED <<connected_clients, csv, consents, now, restarts, tokens, history>>

\* A client logs in from any endpoint, asks with any token it was given, calls
\* any name, and answers the call of somebody who held a token.
Request ==
    /\ Cardinality(net) < MaxInFlight
    /\ \E e \in Endpoint :
        \/ Len(csv) < MaxRows /\ \E n \in Name : HandleBindingRequest(n, e)
        \/ \E tok \in tokens \cup {NoToken} :
            \/ HandleGetConnectionList(tok, e)
            \/ \E target \in Name : HandleConnectToClient(tok, target, e)
            \/ \E caller \in tokens, isAccepted \in BOOLEAN :
                HandleConnectConsent(tok, caller.peerId, isAccepted, e)

Resume == \E w \in consents : ResumeConsent(w) \/ ResumeDangling(w)

Init ==
    /\ connected_clients = <<>>
    /\ csv = <<>>
    /\ consents = {}
    /\ now = 0
    /\ restarts = 0
    /\ tokens = {}
    /\ net = {}
    /\ heard = {}
    /\ latest = [n \in Name |-> Garbage]
    /\ seen = {}
    /\ told = {}

Next == Request \/ Resume \/ Restart \/ Tick \/ \E d \in net : Leave(d)

Spec == Init /\ [][Next]_vars

-----------------------------------------------------------------------------
(* Properties. *)

\* Every variable has its type.
TypeOK ==
    /\ connected_clients \in Seq(ConnectedClient)
    /\ csv \in Seq(ConnectedClient)
    /\ consents \subseteq Consent
    /\ now \in Nat
    /\ restarts \in Nat
    /\ tokens \subseteq Token
    /\ net \subseteq Datagram
    /\ heard \subseteq Name \X Endpoint
    /\ latest \in [Name -> Endpoint \cup {Garbage}]
    /\ seen \subseteq Name
    /\ told \subseteq Introduction

\* The element a suspended coroutine of handleConnectConsent refers to is still
\* that of the client its host accepted, whatever other handlers did to the registry
\* meanwhile: elements change their endpoint, never their place.
ReferencesStay ==
    \A w \in consents :
        /\ w.ref \in 1 .. Len(connected_clients)
        /\ connected_clients[w.ref].name = w.target

\* Who holds a token is in the registry: handleConnectConsent looks its host up
\* by token and would otherwise answer half of the introduction only.  It must
\* survive a crash, so it rests on saveUser and loadUsers as well.
TokenHolderRegistered ==
    \A tok \in tokens : Find(connected_clients, tok.peerId) # 0

\* e was stored for n, or for a name that a crash may have made n of.
HeardAs(n, e) == \E m \in Name : <<m, e>> \in heard /\ n \in {m, Trim[m]}

\* A ConnectToHost with the host's address went to an endpoint of the caller.
CallerTold(caller, host) ==
    \E h \in told :
        /\ h.type = "ConnectToHost"
        /\ h.address = host
        /\ HeardAs(caller, h.to)

\* Nobody is told to reach a caller before that caller was told, at the address
\* the answer goes to, that it is coming (README.md:73-74: the server sends each
\* of the two the address of the other).
BothTold ==
    \A s \in told : s.type = "SuccessConnectToClient" => CallerTold(s.clientName, s.to)

\* An address handed out in an introduction is one the registry has stored for
\* the very user it is said to belong to, across crashes and whatever the other
\* coroutines did to the registry between the two halves of an introduction.
AddressGenuine ==
    \A d \in told : <<d.clientName, d.address>> \in heard

\* The same but for what a dangling reference yields (README.md:73-74).
AddressOfThatUser ==
    \A d \in told : d.address # Garbage => <<d.clientName, d.address>> \in heard

\* The same where users whose names differ in blanks at the ends only are not told
\* apart, as after a crash; where no name has such blanks, there are no such users.
AddressGenuineUnlessDangling ==
    \A d \in told : d.address # Garbage => HeardAs(d.clientName, d.address)

\* A crash brings back the oldest saved row of a user, but no longer than until that
\* user is heard of: from the first login or consent after it the entry that find
\* reaches holds the last endpoint of its user, however many rows there are of the name
\* (README.md:23: the server keeps each client's IP and port).
FreshOnceSeen ==
    \A n \in seen :
        LET i == Find(connected_clients, n)
        IN i # 0 /\ connected_clients[i].endpoint = latest[n]

\* No login is lost from data.csv: whoever has a token is in it, under that name.
Persistent ==
    /\ CsvHasHeader /\ ~ SaveMayFail /\ Unparsable = {}
    /\ \A n \in Name : Trim[n] = n

\* The address find yields for a name.
Entry(n) ==
    LET i == Find(connected_clients, n)
    IN IF i = 0 THEN Garbage ELSE connected_clients[i].endpoint

D == INSTANCE Directory
     WITH None <- Garbage, Durable <- Persistent, Alike <- [n \in Name |-> {n, Trim[n]}],
          entry <- [n \in Name |-> Entry(n)],
          known <- {k \in Name \X Endpoint : HeardAs(k[1], k[2])},
          confirmed <- {tok.peerId : tok \in tokens}

\* Whatever coroutines interleave and crashes throw away, the server is a directory
\* with one current address per user, which introduces the caller before the host,
\* forgets nobody who has a token if data.csv is intact, and invents no address.
ImplementsDirectory == D!Spec

===============================================================================
