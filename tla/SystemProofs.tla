----------------------------- MODULE SystemProofs ------------------------------
(***************************************************************************)
(* Proofs about the whole system, for any number of users and addresses,   *)
(* whatever is typed, lost, copied, moved or crashes, and however torn the *)
(* strings are that the threads of a client share.  One invariant carries  *)
(* them: everything on its way was made of what its sender had.            *)
(***************************************************************************)
EXTENDS System, ServerProofs

-----------------------------------------------------------------------------
(* The invariant. *)

\* The tokens a client may hold: those the server has signed for its user.
Own(c) == {tok \in tokens : tok.peerId = c} \cup {NoToken}

\* Who has called c and was signed a token for.
Callers(c) == {n \in {tok.peerId : tok \in tokens} : <<n, c>> \in asked}

\* One has typed the call, and the other has accepted it.
Wanted(caller, callee) == <<caller, callee>> \in asked /\ <<callee, caller>> \in accepted

IoStep == [at : {"run", "token", "save", "pending", "cleared"},
           value : tokens \cup Client \cup {NoName}]

\* The types the steps of a client rest on.
ClientTypes ==
    /\ tokens \subseteq [peerId : Client, exp : Nat]
    /\ token_ \in [Client -> tokens \cup {NoToken}]
    /\ file \in [Client -> tokens \cup {NoToken}]
    /\ pendingIncomingUser_ \in [Client -> Client \cup {Torn, NoName}]
    /\ menu \in [Client -> {"getline", "/accept", "/reject", "clear"}]
    /\ io \in [Client -> IoStep]
    /\ address \in [Client -> Endpoint]
    /\ asked \subseteq Calls

\* What a client knows: its own tokens and who has called it.  An answer is under way
\* only while there is a call, and a call cleared under its assignment is gone.
Private(c) ==
    /\ token_[c] \in Own(c)
    /\ file[c] \in Own(c)
    /\ io[c].at = "run" => io[c].value = NoName
    /\ io[c].at \in {"token", "save"} => io[c].value \in Own(c) \ {NoToken}
    /\ io[c].at \in {"pending", "cleared"} => io[c].value \in Callers(c)
    /\ io[c].at = "cleared" => pendingIncomingUser_[c] = NoName
    /\ pendingIncomingUser_[c] \in Callers(c) \cup {Torn, NoName}
    /\ menu[c] \in {"/accept", "/reject"} => pendingIncomingUser_[c] # NoName
    /\ address[c][1] = c

\* A request names its sender or carries its token, calls whom its user has typed, and
\* accepts what its user has accepted.
RequestOK(r) ==
    /\ r.from \in Endpoint
    /\ r.type = "BindingRequest" => r.clientName = r.from[1]
    /\ r.type = "GetConnectedList" => r.jwtToken \in Own(r.from[1])
    /\ r.type = "ConnectToClient" =>
          /\ r.jwtToken \in Own(r.from[1])
          /\ <<r.from[1], r.clientNameToConnect>> \in asked
    /\ r.type = "ConnectConsent" =>
          /\ r.jwtToken \in Own(r.from[1])
          /\ r.targetName \in Callers(r.from[1]) \cup {Torn}
          /\ r.isAccepted \in BOOLEAN
          /\ r.isAccepted => <<r.from[1], r.targetName>> \in accepted

\* An answer goes to the user it is for.
AnswerOK(d) ==
    /\ d.type = "SuccessBinding" => d.jwtToken \in tokens /\ d.jwtToken.peerId = d.to[1]
    /\ d.type = "IncomingConnectionRequest" => d.clientName \in Callers(d.to[1])
    /\ d.type = "ConnectToHost" => Wanted(d.to[1], d.clientName)
    /\ d.type = "SuccessConnectToClient" => Wanted(d.clientName, d.to[1])
    /\ d.type \in {"ConnectToHost", "SuccessConnectToClient"} /\ d.address # Garbage =>
          d.address[1] = d.clientName

\* Every row of a registry or a file has an address of its own user.
RowsOK(rows) ==
    \A i \in 1 .. Len(rows) : rows[i].name \in Client /\ rows[i].endpoint[1] = rows[i].name

Traced ==
    /\ \A c \in Client : Private(c)
    /\ \A r \in requests : RequestOK(r)
    /\ \A d \in net : AnswerOK(d)
    /\ \A w \in consents : Wanted(w.target, w.to[1])
    /\ RowsOK(connected_clients)
    /\ RowsOK(csv)

Inv ==
    /\ TypeOK
    /\ ReferencesStay
    /\ ClientTypes
    /\ Traced

-----------------------------------------------------------------------------
(* What lasts. *)

\* Tokens, calls and consents are only added, and what rests on them lasts.
LEMMA Lasting ==
    ASSUME tokens \subseteq tokens', asked \subseteq asked', accepted \subseteq accepted'
    PROVE  /\ \A c : Own(c) \subseteq Own(c)' /\ Callers(c) \subseteq Callers(c)'
           /\ \A a, b : Wanted(a, b) => Wanted(a, b)'
           /\ \A r : RequestOK(r) => RequestOK(r)'
           /\ \A d : AnswerOK(d) => AnswerOK(d)'
<1>1. \A c : Own(c) \subseteq Own(c)' /\ Callers(c) \subseteq Callers(c)'
    BY DEF Own, Callers
<1>2. \A a, b : Wanted(a, b) => Wanted(a, b)'
    BY DEF Wanted
<1>3. \A r : RequestOK(r) => RequestOK(r)'
    BY <1>1 DEF RequestOK
<1>4. \A d : AnswerOK(d) => AnswerOK(d)'
    BY <1>1, <1>2 DEF AnswerOK
<1> QED
    BY <1>1, <1>2, <1>3, <1>4

\* A step of the server leaves the clients as they were.
LEMMA ClientsKept ==
    ASSUME ClientTypes, \A c \in Client : Private(c), UNCHANGED private,
           tokens \subseteq tokens', tokens' \subseteq [peerId : Client, exp : Nat]
    PROVE  ClientTypes' /\ \A c \in Client : Private(c)'
<1>1. asked' = asked /\ accepted' = accepted /\ Torn' = Torn
    BY DEF private
<1>2. \A c : Own(c) \subseteq Own(c)' /\ Callers(c) \subseteq Callers(c)'
    BY <1>1, Lasting
<1>3. ClientTypes'
    <2>1. IoStep \subseteq IoStep'
        BY DEF IoStep
    <2> QED
        BY <2>1 DEF ClientTypes, private
<1>4. \A c \in Client : Private(c)'
    BY <1>2 DEF Private, private
<1> QED
    BY <1>3, <1>4

\* At the start.
LEMMA InitInv == SystemInit => Inv
<1> SUFFICES ASSUME SystemInit PROVE Inv
    OBVIOUS
<1>1. TypeOK /\ ReferencesStay
    BY InitTypeOK, InitReferences DEF SystemInit
<1>2. ClientTypes
    BY SystemConstantsOK DEF SystemInit, Init, M!InitClients, ClientTypes, IoStep, M!Idle
<1>3. \A c \in Client : Private(c)
    BY DEF SystemInit, Init, M!InitClients, Private, Own, M!Idle
<1>4. Traced
    BY <1>3 DEF SystemInit, Init, M!InitClients, Traced, RowsOK
<1> QED
    BY <1>1, <1>2, <1>4 DEF Inv

-----------------------------------------------------------------------------
(* Every step of the system is one that Server allows. *)

\* A name with a row is one of a user.
LEMMA FoundIsClient ==
    ASSUME Inv, NEW n, Find(connected_clients, n) # 0
    PROVE  LET i == Find(connected_clients, n)
           IN /\ i \in 1 .. Len(connected_clients)
              /\ connected_clients[i].name = n
              /\ n \in Client
              /\ connected_clients[i].endpoint \in Endpoint
              /\ connected_clients[i].endpoint[1] = n
<1>1. connected_clients \in Seq(ConnectedClient)
    BY DEF Inv, TypeOK
<1>2. /\ Find(connected_clients, n) \in 1 .. Len(connected_clients)
      /\ connected_clients[Find(connected_clients, n)].name = n
      /\ connected_clients[Find(connected_clients, n)].endpoint \in Endpoint
    BY <1>1, FindSpec, EntryTypes
<1> QED
    BY <1>2 DEF Inv, Traced, RowsOK

\* A request made by a client is one the server may get.  A consent to a torn name,
\* which nobody has, is answered like a call of that name.
LEMMA HandledIsRequested ==
    ASSUME Inv, NEW r \in requests, Room(r), Handle(r)
    PROVE  Request
<1>1. RequestOK(r) /\ r.from \in Endpoint /\ r.from[1] \in Client /\ Cardinality(net) < MaxInFlight
    BY SystemConstantsOK DEF Inv, Traced, RequestOK, Room
<1>2. \A c : Own(c) \subseteq tokens \cup {NoToken}
    BY DEF Own
<1>3. Client \subseteq Name /\ Torn \in Name /\ Torn \notin Client
    BY SystemConstantsOK
<1>4. CASE r.type = "BindingRequest" /\ HandleBindingRequest(r.clientName, r.from)
    <2>1. r.clientName \in Name /\ Len(csv) < MaxRows
        BY <1>1, <1>3, <1>4 DEF RequestOK, Room
    <2> QED
        BY <1>1, <1>4, <2>1 DEF Request
<1>5. CASE r.type = "GetConnectedList" /\ HandleGetConnectionList(r.jwtToken, r.from)
    BY <1>1, <1>2, <1>5 DEF Request, RequestOK
<1>6. CASE /\ r.type = "ConnectToClient"
           /\ HandleConnectToClient(r.jwtToken, r.clientNameToConnect, r.from)
    <2>1. r.jwtToken \in tokens \cup {NoToken} /\ r.clientNameToConnect \in Name
        BY <1>1, <1>2, <1>3, <1>6, SystemConstantsOK DEF RequestOK, Inv, ClientTypes
    <2> QED
        BY <1>1, <1>6, <2>1 DEF Request
<1>7. CASE /\ r.type = "ConnectConsent"
           /\ HandleConnectConsent(r.jwtToken, r.targetName, r.isAccepted, r.from)
    <2>1. /\ r.jwtToken \in tokens \cup {NoToken}
          /\ r.targetName \in Callers(r.from[1]) \cup {Torn}
          /\ r.isAccepted \in BOOLEAN
        BY <1>1, <1>2, <1>7 DEF RequestOK
    <2>2. CASE r.targetName \in Callers(r.from[1])
        <3>1. PICK caller \in tokens : caller.peerId = r.targetName
            BY <2>2 DEF Callers
        <3> QED
            BY <1>1, <1>7, <2>1, <3>1 DEF Request
    <2>3. CASE r.targetName = Torn
        <3>1. Find(connected_clients, Torn) = 0
            BY <1>3, FoundIsClient
        <3>2. HandleConnectToClient(r.jwtToken, Torn, r.from)
            BY <1>7, <2>3, <3>1 DEF HandleConnectConsent, HandleConnectToClient, RejectConsent,
                                    AcceptConsent, AcceptFromStranger
        <3> QED
            BY <1>1, <1>3, <2>1, <3>2 DEF Request
    <2> QED
        BY <2>1, <2>2, <2>3
<1> QED
    BY <1>4, <1>5, <1>6, <1>7 DEF Handle

\* What Server assumes of its surroundings, the clients keep.
LEMMA StepIsServers == Inv /\ [SystemNext]_systemVars => [Next]_vars
<1> SUFFICES ASSUME Inv, [SystemNext]_systemVars PROVE [Next]_vars
    OBVIOUS
<1>1. ASSUME NEW r \in requests, Serve(r) \/ LoseRequest(r) PROVE [Next]_vars
    BY <1>1, HandledIsRequested DEF Serve, LoseRequest, Next
<1>2. ASSUME NEW d \in net, Deliver(d) \/ Unreachable(d) \/ LoseAnswer(d) PROVE [Next]_vars
    BY <1>2 DEF Deliver, Unreachable, LoseAnswer, Next
<1>3. CASE ServerAlone
    BY <1>3 DEF ServerAlone, Next
<1>4. ASSUME NEW c \in Client, ClientAlone(c) PROVE [Next]_vars
    BY <1>4 DEF ClientAlone
<1>5. CASE UNCHANGED systemVars
    BY <1>5 DEF systemVars
<1> QED
    BY <1>1, <1>2, <1>3, <1>4, <1>5 DEF SystemNext

-----------------------------------------------------------------------------
(* The steps of the server. *)

\* What the server has and sends stays in order.
ServerSide ==
    /\ tokens \subseteq [peerId : Client, exp : Nat]
    /\ \A d \in net : AnswerOK(d)
    /\ \A w \in consents : Wanted(w.target, w.to[1])
    /\ RowsOK(connected_clients)
    /\ RowsOK(csv)

\* A handler that only answers.
LEMMA AnswerKeeps ==
    ASSUME Inv, UNCHANGED <<asked, accepted>>, NEW d, AnswerOK(d), Send(d),
           UNCHANGED <<connected_clients, csv, consents, now, restarts, tokens, history>>
    PROVE  tokens \subseteq tokens' /\ ServerSide'
<1>1. \A x : AnswerOK(x) => AnswerOK(x)'
    BY Lasting
<1>2. \A x \in net' : AnswerOK(x)'
    BY <1>1 DEF Inv, Traced, Send
<1>3. RowsOK(connected_clients)' /\ RowsOK(csv)'
    BY DEF Inv, Traced, RowsOK
<1>4. \A w \in consents' : Wanted(w.target, w.to[1])'
    BY DEF Inv, Traced, Wanted
<1> QED
    BY <1>2, <1>3, <1>4 DEF ServerSide, Inv, ClientTypes

\* A user stored under an address of its own keeps the rows in order.
LEMMA StoreKeepsRows ==
    ASSUME Inv, NEW n \in Client, NEW e \in Endpoint, e[1] = n, Store(n, e)
    PROVE  /\ RowsOK(connected_clients)'
           /\ Len(connected_clients') >= Len(connected_clients)
           /\ \A i \in 1 .. Len(connected_clients) :
                  connected_clients'[i].name = connected_clients[i].name
<1>1. n \in Name /\ connected_clients \in Seq(ConnectedClient)
    BY SystemConstantsOK DEF Inv, TypeOK
<1>2. \A i \in 1 .. Len(connected_clients') :
          \/ connected_clients'[i] = [name |-> n, endpoint |-> e]
          \/ i \in 1 .. Len(connected_clients) /\ connected_clients'[i] = connected_clients[i]
    BY <1>1, StoredSpec DEF Store
<1>3. /\ Len(connected_clients') >= Len(connected_clients)
      /\ \A i \in 1 .. Len(connected_clients) :
             connected_clients'[i].name = connected_clients[i].name
    BY <1>1, StoredSpec DEF Store
<1>4. RowsOK(connected_clients)'
    BY <1>2 DEF RowsOK, Inv, Traced
<1> QED
    BY <1>3, <1>4

\* An error that is answered breaks nothing.
LEMMA ErrorKeeps ==
    ASSUME Inv, UNCHANGED <<asked, accepted>>, NEW tok, NEW n, NEW e,
           Unauthorized(tok, e) \/ NotFound(tok, n, e) \/ RejectConsent(tok, n, e)
    PROVE  tokens \subseteq tokens' /\ ServerSide'
<1>1. \A to, why : AnswerOK(Error(to, why))
    BY DEF AnswerOK, Error
<1> QED
    BY <1>1, AnswerKeeps DEF Unauthorized, NotFound, RejectConsent

\* A login is stored under the address it came from, and the token goes there.
LEMMA BindingKeeps ==
    ASSUME Inv, UNCHANGED <<asked, accepted>>, NEW e \in Endpoint,
           HandleBindingRequest(e[1], e)
    PROVE  tokens \subseteq tokens' /\ ServerSide'
<1> DEFINE n == e[1]
<1>1. n \in Client /\ n \in Name
    BY SystemConstantsOK
<1>2. makeToken(n) \in [peerId : Client, exp : Nat]
    BY <1>1, ConstantsOK DEF makeToken, Inv, TypeOK
<1>3. /\ tokens' \in {tokens, tokens \cup {makeToken(n)}}
      /\ tokens \subseteq tokens'
      /\ consents' = consents
      /\ Store(n, e)
    BY DEF HandleBindingRequest
<1>4. RowsOK(connected_clients)'
    BY <1>1, <1>3, StoreKeepsRows
<1>5. RowsOK(csv)'
    <2>1. CASE csv' = csv
        BY <2>1 DEF Inv, Traced, RowsOK
    <2>2. CASE csv' = Append(csv, [name |-> n, endpoint |-> e])
        <3>1. csv \in Seq(ConnectedClient) /\ [name |-> n, endpoint |-> e] \in ConnectedClient
            BY <1>1 DEF Inv, TypeOK, ConnectedClient
        <3>2. \A i \in 1 .. Len(csv') :
                  \/ csv'[i] = [name |-> n, endpoint |-> e]
                  \/ i \in 1 .. Len(csv) /\ csv'[i] = csv[i]
            BY <2>2, <3>1
        <3> QED
            BY <1>1, <3>2 DEF Inv, Traced, RowsOK
    <2> QED
        BY <2>1, <2>2 DEF HandleBindingRequest, saveUser
<1>6. \A d \in net' : AnswerOK(d)'
    <2>1. \A d : AnswerOK(d) => AnswerOK(d)'
        BY <1>3, Lasting
    <2>2. \A why : AnswerOK(Error(e, why))'
        BY DEF AnswerOK, Error
    <2>3. \A tok \in tokens' : tok.peerId = n => AnswerOK(SuccessBinding(e, tok))'
        BY DEF AnswerOK, SuccessBinding
    <2>4. \A why : net' = net \cup {Error(e, why)} => \A d \in net' : AnswerOK(d)'
        BY <2>1, <2>2 DEF Inv, Traced
    <2>5. ASSUME NEW tok \in tokens', tok.peerId = n, net' = net \cup {SuccessBinding(e, tok)}
          PROVE  \A d \in net' : AnswerOK(d)'
        BY <2>1, <2>3, <2>5 DEF Inv, Traced
    <2>6. makeToken(n).peerId = n
        BY DEF makeToken
    <2> QED
        BY <2>4, <2>5, <2>6 DEF HandleBindingRequest, Send
<1>7. \A w \in consents' : Wanted(w.target, w.to[1])'
    BY <1>3 DEF Inv, Traced, Wanted
<1> QED
    BY <1>2, <1>3, <1>4, <1>5, <1>6, <1>7 DEF ServerSide, Inv, ClientTypes

\* A consent that is accepted introduces two who want it, each under its own address.
LEMMA AcceptKeeps ==
    ASSUME Inv, UNCHANGED <<asked, accepted>>, NEW e \in Endpoint,
           NEW tok \in Own(e[1]), NEW target, Wanted(target, e[1]),
           AcceptConsent(tok, target, e) \/ AcceptFromStranger(tok, target, e)
    PROVE  tokens \subseteq tokens' /\ ServerSide'
<1> DEFINE t == Find(connected_clients, target)
<1>1. /\ t \in 1 .. Len(connected_clients)
      /\ connected_clients[t].name = target
      /\ connected_clients[t].endpoint[1] = target
      /\ target \in Client
    BY FoundIsClient DEF AcceptConsent, AcceptFromStranger
<1>2. tok.peerId = e[1] /\ e[1] \in Client /\ tokens' = tokens /\ csv' = csv
    BY SystemConstantsOK DEF AcceptConsent, AcceptFromStranger, verifyJwt, Own
<1>3. /\ \A d : AnswerOK(d) => AnswerOK(d)'
      /\ \A a, b : Wanted(a, b) => Wanted(a, b)'
    BY <1>2, Lasting
<1>4. RowsOK(csv)' /\ tokens' \subseteq [peerId : Client, exp : Nat]
    BY <1>2 DEF Inv, Traced, RowsOK, ClientTypes
<1>5. CASE AcceptConsent(tok, target, e)
    <2>1. Store(e[1], e)
        BY <1>2, <1>5 DEF AcceptConsent
    <2>2. RowsOK(connected_clients)'
        BY <1>2, <2>1, StoreKeepsRows
    <2>3. connected_clients'[t].endpoint[1] = target
        <3>1. /\ t \in 1 .. Len(connected_clients')
              /\ connected_clients'[t].name = connected_clients[t].name
            <4>1. /\ Len(connected_clients') >= Len(connected_clients)
                  /\ \A i \in 1 .. Len(connected_clients) :
                         connected_clients'[i].name = connected_clients[i].name
                BY <1>2, <2>1, StoreKeepsRows
            <4>2. connected_clients \in Seq(ConnectedClient)
                  /\ connected_clients' \in Seq(ConnectedClient)
                BY <1>2, <2>1, StoredSpec, SystemConstantsOK DEF Store, Inv, TypeOK
            <4> QED
                BY <1>1, <4>1, <4>2
        <3> QED
            BY <1>1, <2>2, <3>1 DEF RowsOK
    <2>4. AnswerOK(ConnectToHost(connected_clients'[t].endpoint, e[1], e))
        BY <2>3 DEF AnswerOK, ConnectToHost
    <2>5. \A d \in net' : AnswerOK(d)'
        <3>1. net' = net \/ net' = net \cup {ConnectToHost(connected_clients'[t].endpoint, e[1], e)}
            BY <1>2, <1>5 DEF AcceptConsent, sendConnectMessage, Introduce, Send
        <3> QED
            BY <1>3, <2>4, <3>1 DEF Inv, Traced
    <2>6. \A w \in consents' : Wanted(w.target, w.to[1])'
        BY <1>3, <1>5 DEF AcceptConsent, Inv, Traced
    <2> QED
        BY <1>2, <1>4, <2>2, <2>5, <2>6 DEF ServerSide
<1>6. CASE AcceptFromStranger(tok, target, e)
    <2>1. AnswerOK(SuccessConnectToClient(e, target, connected_clients[t].endpoint))
        BY <1>1 DEF AnswerOK, SuccessConnectToClient
    <2> QED
        BY <1>2, <1>3, <1>4, <1>6, <2>1
        DEF AcceptFromStranger, Introduce, Send, ServerSide, Inv, Traced, RowsOK
<1> QED
    BY <1>5, <1>6

\* The handler of any request a client has made.
LEMMA HandleKeeps ==
    ASSUME Inv, UNCHANGED <<asked, accepted>>, NEW r \in requests, Handle(r)
    PROVE  tokens \subseteq tokens' /\ ServerSide'
<1>1. RequestOK(r)
    BY DEF Inv, Traced
<1>2. CASE r.type = "BindingRequest" /\ HandleBindingRequest(r.clientName, r.from)
    BY <1>1, <1>2, BindingKeeps DEF RequestOK
<1>3. CASE r.type = "GetConnectedList" /\ HandleGetConnectionList(r.jwtToken, r.from)
    <2>1. \A names : AnswerOK(SuccessConnectedList(r.from, names))
        BY DEF AnswerOK, SuccessConnectedList
    <2> QED
        BY <1>3, <2>1, AnswerKeeps, ErrorKeeps DEF HandleGetConnectionList
<1>4. CASE /\ r.type = "ConnectToClient"
           /\ HandleConnectToClient(r.jwtToken, r.clientNameToConnect, r.from)
    <2> DEFINE target == r.clientNameToConnect
               i == Find(connected_clients, target)
    <2>1. ASSUME verifyJwt(r.jwtToken), i # 0
          PROVE  AnswerOK(IncomingConnectionRequest(connected_clients[i].endpoint,
                                                    r.jwtToken.peerId))
        <3>1. connected_clients[i].endpoint[1] = target
            BY <2>1, FoundIsClient
        <3>2. r.jwtToken \in tokens /\ r.jwtToken.peerId = r.from[1]
              /\ <<r.from[1], target>> \in asked
            BY <1>1, <1>4, <2>1 DEF RequestOK, Own, verifyJwt
        <3>3. r.jwtToken.peerId \in Callers(target)
            BY <3>2 DEF Callers
        <3> QED
            BY <3>1, <3>3 DEF AnswerOK, IncomingConnectionRequest
    <2> QED
        BY <1>4, <2>1, AnswerKeeps, ErrorKeeps DEF HandleConnectToClient
<1>5. CASE /\ r.type = "ConnectConsent"
           /\ HandleConnectConsent(r.jwtToken, r.targetName, r.isAccepted, r.from)
    <2>1. CASE \/ Unauthorized(r.jwtToken, r.from) \/ NotFound(r.jwtToken, r.targetName, r.from)
               \/ RejectConsent(r.jwtToken, r.targetName, r.from)
        BY <2>1, ErrorKeeps
    <2>2. CASE /\ r.isAccepted
               /\ \/ AcceptConsent(r.jwtToken, r.targetName, r.from)
                  \/ AcceptFromStranger(r.jwtToken, r.targetName, r.from)
        <3>1. r.targetName \in Client /\ Torn \notin Client
            BY <2>2, FoundIsClient, SystemConstantsOK DEF AcceptConsent, AcceptFromStranger
        <3>2. r.targetName \in Callers(r.from[1]) /\ <<r.from[1], r.targetName>> \in accepted
            BY <1>1, <1>5, <2>2, <3>1 DEF RequestOK
        <3>3. Wanted(r.targetName, r.from[1])
            BY <3>2 DEF Wanted, Callers
        <3> QED
            BY <1>1, <1>5, <2>2, <3>3, AcceptKeeps DEF RequestOK
    <2> QED
        BY <1>5, <2>1, <2>2 DEF HandleConnectConsent
<1> QED
    BY <1>2, <1>3, <1>4, <1>5 DEF Handle

\* The server on its own: coroutines that go on, the clock, a crash.
LEMMA ServerAloneKeeps ==
    ASSUME Inv, ServerAlone
    PROVE  tokens \subseteq tokens' /\ ServerSide' /\ UNCHANGED clients
<1>1. tokens' = tokens /\ UNCHANGED clients /\ asked' = asked /\ accepted' = accepted /\ csv' = csv
    BY DEF ServerAlone, Resume, ResumeConsent, ResumeDangling, Tick, Restart, clients, private
<1>2. /\ \A d : AnswerOK(d) => AnswerOK(d)'
      /\ \A a, b : Wanted(a, b) => Wanted(a, b)'
    BY <1>1, Lasting
<1>3. RowsOK(csv)' /\ tokens' \subseteq [peerId : Client, exp : Nat]
    BY <1>1 DEF Inv, Traced, RowsOK, ClientTypes
<1>4. ASSUME NEW w \in consents, ResumeConsent(w) \/ ResumeDangling(w) PROVE ServerSide'
    <2>1. connected_clients[w.ref].endpoint[1] = w.target
        BY DEF Inv, Traced, RowsOK, ReferencesStay
    <2>2. Wanted(w.target, w.to[1])
        BY DEF Inv, Traced
    <2>3. /\ AnswerOK(SuccessConnectToClient(w.to, w.target, connected_clients[w.ref].endpoint))
          /\ AnswerOK(SuccessConnectToClient(w.to, w.target, Garbage))
        BY <2>1, <2>2 DEF AnswerOK, SuccessConnectToClient
    <2>4. /\ \A d \in net' : AnswerOK(d)'
          /\ consents' \subseteq consents /\ connected_clients' = connected_clients
        BY <1>2, <1>4, <2>3 DEF ResumeConsent, ResumeDangling, Introduce, Send, Inv, Traced
    <2> QED
        BY <1>2, <1>3, <2>4 DEF ServerSide, Inv, Traced, RowsOK
<1>5. CASE Tick
    <2>1. net' = net /\ connected_clients' = connected_clients /\ consents' = consents
        BY <1>5 DEF Tick
    <2>2. \A d \in net' : AnswerOK(d)'
        BY <1>2, <2>1 DEF Inv, Traced
    <2>3. \A w \in consents' : Wanted(w.target, w.to[1])'
        BY <1>2, <2>1 DEF Inv, Traced
    <2>4. RowsOK(connected_clients)'
        BY <2>1 DEF Inv, Traced, RowsOK
    <2> QED
        BY <1>1, <1>3, <2>2, <2>3, <2>4 DEF ServerSide
<1>6. CASE Restart
    <2>1. csv \in Seq(ConnectedClient)
        BY DEF Inv, TypeOK
    <2>2. \A i \in 1 .. Len(csv) : csv[i].name \in Name /\ Trim[csv[i].name] = csv[i].name
        BY <2>1, EntryTypes, SystemConstantsOK
    <2>3. RowsOK(loadUsers)
        BY <2>1, <2>2, LoadedFields DEF RowsOK, Inv, Traced
    <2>4. RowsOK(connected_clients)'
        BY <1>6, <2>3 DEF Restart, RowsOK
    <2>5. net' = net /\ consents' = {}
        BY <1>6 DEF Restart
    <2>6. \A d \in net' : AnswerOK(d)'
        BY <1>2, <2>5 DEF Inv, Traced
    <2>7. \A w \in consents' : Wanted(w.target, w.to[1])'
        BY <2>5
    <2> QED
        BY <1>1, <1>3, <2>4, <2>6, <2>7 DEF ServerSide
<1> QED
    BY <1>1, <1>4, <1>5, <1>6 DEF ServerAlone, Resume

-----------------------------------------------------------------------------
(* The steps of a client. *)

ClientSide ==
    /\ ClientTypes
    /\ \A c \in Client : Private(c)
    /\ \A r \in requests : RequestOK(r)

\* What is known of a client that a step leaves alone lasts.
LEMMA PrivateLasts ==
    ASSUME tokens \subseteq tokens', asked \subseteq asked', accepted \subseteq accepted',
           NEW x, Private(x), token_'[x] = token_[x], file'[x] = file[x], io'[x] = io[x],
           pendingIncomingUser_'[x] = pendingIncomingUser_[x], menu'[x] = menu[x],
           address'[x] = address[x]
    PROVE  Private(x)'
<1>1. Own(x) \subseteq Own(x)' /\ Callers(x) \subseteq Callers(x)'
    BY Lasting
<1> QED
    BY <1>1 DEF Private

\* What the menu thread copies of token_ is a token of its own, or none.
LEMMA CopiedToken ==
    ASSUME NEW c \in Client, Private(c)
    PROVE  M!CopiesOfToken(c) \subseteq Own(c)
BY DEF M!CopiesOfToken, Private, Own

\* What it copies of pendingIncomingUser_ is a caller, or torn.
LEMMA CopiedPending ==
    ASSUME NEW c \in Client, Private(c), menu[c] \in {"/accept", "/reject"}
    PROVE  M!CopiesOfPending(c) \subseteq Callers(c) \cup {Torn}
BY DEF M!CopiesOfPending, Private

\* A line that only makes a request of what the client has.
LEMMA RequestKeeps ==
    ASSUME Inv, NEW r, requests' = requests \cup {r}, RequestOK(r)', tokens' = tokens,
           asked \subseteq asked', asked' \subseteq Calls, accepted \subseteq accepted',
           UNCHANGED <<token_, pendingIncomingUser_, menu, io, file, address>>
    PROVE  ClientSide'
<1>1. \A x \in requests' : RequestOK(x)'
    BY Lasting DEF Inv, Traced
<1>2. \A x \in Client : Private(x)'
    BY PrivateLasts DEF Inv, Traced
<1>3. ClientTypes'
    BY DEF Inv, ClientTypes, IoStep
<1> QED
    BY <1>1, <1>2, <1>3 DEF ClientSide

\* The steps of the menu thread.
LEMMA MenuKeeps ==
    ASSUME Inv, NEW c \in Client, M!MenuThread(c), tokens' = tokens
    PROVE  ClientSide' /\ asked \subseteq asked' /\ accepted \subseteq accepted'
<1>1. Private(c) /\ address[c] \in Endpoint /\ address[c][1] = c
    BY DEF Inv, Traced, Private, ClientTypes
<1>2. \A tok \in M!CopiesOfToken(c) : tok \in Own(c)
    BY <1>1, CopiedToken
<1>3. Own(c)' = Own(c)
    BY DEF Own
<1>4. CASE M!Login(c)
    <2>1. PICK r : r = M!Binding(c)
        OBVIOUS
    <2>2. RequestOK(r)'
        BY <1>1, <2>1 DEF RequestOK, M!Binding
    <2> QED
        BY <1>4, <2>1, <2>2, RequestKeeps
        DEF M!Login, M!MakeRequest, M!shared, M!counts, Inv, ClientTypes
<1>5. CASE M!List(c)
    <2>1. PICK tok \in M!CopiesOfToken(c) : M!MakeRequest(M!GetConnectedList(c, tok))
        BY <1>5 DEF M!List
    <2>2. PICK r : r = M!GetConnectedList(c, tok)
        OBVIOUS
    <2>3. RequestOK(r)'
        BY <1>1, <1>2, <1>3, <2>2 DEF RequestOK, M!GetConnectedList
    <2> QED
        BY <1>5, <2>1, <2>2, <2>3, RequestKeeps
        DEF M!List, M!MakeRequest, M!shared, M!counts, Inv, ClientTypes
<1>6. ASSUME NEW n \in Client, M!Connect(c, n) PROVE ClientSide' /\ asked \subseteq asked'
    <2>1. PICK tok \in M!CopiesOfToken(c) : M!MakeRequest(M!ConnectToClient(c, tok, n))
        BY <1>6 DEF M!Connect
    <2>2. <<c, n>> \in asked' /\ asked \subseteq asked' /\ asked' \subseteq Calls
        BY <1>6 DEF M!Connect, Inv, ClientTypes
    <2>3. PICK r : r = M!ConnectToClient(c, tok, n)
        OBVIOUS
    <2>4. RequestOK(r)'
        BY <1>1, <1>2, <1>3, <2>2, <2>3 DEF RequestOK, M!ConnectToClient
    <2> QED
        BY <1>6, <2>1, <2>2, <2>3, <2>4, RequestKeeps DEF M!Connect, M!MakeRequest, M!shared
<1> DEFINE Rest == \A x \in Client \ {c} : Private(x)'
<1>7. ASSUME NEW decision \in {"/accept", "/reject"}, M!Decide(c, decision) PROVE ClientSide'
    <2>1. Rest
        BY <1>7, PrivateLasts DEF M!Decide, M!shared, M!counts, Inv, Traced, ClientTypes
    <2>2. Private(c)'
        BY <1>1, <1>7
        DEF M!Decide, M!shared, M!counts, Inv, ClientTypes, Private, Own, Callers
    <2>3. ClientTypes'
        BY <1>7 DEF M!Decide, M!shared, M!counts, Inv, ClientTypes, IoStep
    <2>4. \A r \in requests' : RequestOK(r)'
        BY <1>7, Lasting DEF M!Decide, M!counts, Inv, Traced
    <2> QED
        BY <2>1, <2>2, <2>3, <2>4 DEF ClientSide
<1>8. ASSUME M!answerConsent(c) PROVE ClientSide' /\ accepted \subseteq accepted'
    <2>1. PICK tok \in M!CopiesOfToken(c), n \in M!CopiesOfPending(c) :
              /\ M!MakeRequest(M!ConnectConsent(c, tok, n, menu[c] = "/accept"))
              /\ accepted' = IF menu[c] = "/accept" THEN accepted \cup {<<c, n>>} ELSE accepted
        BY <1>8 DEF M!answerConsent
    <2>2. n \in Callers(c) \cup {Torn}
        BY <1>1, <1>8, CopiedPending DEF M!answerConsent
    <2>3. accepted \subseteq accepted' /\ (menu[c] = "/accept" => <<c, n>> \in accepted')
        BY <2>1
    <2>4. Callers(c)' = Callers(c)
        BY <1>8 DEF M!answerConsent, Callers
    <2>5. PICK r : r = M!ConnectConsent(c, tok, n, menu[c] = "/accept")
        OBVIOUS
    <2>6. r.isAccepted \in BOOLEAN /\ (r.isAccepted => <<c, n>> \in accepted')
        BY <2>3, <2>5 DEF M!ConnectConsent
    <2>7. RequestOK(r)'
        BY <1>1, <1>2, <1>3, <2>2, <2>4, <2>5, <2>6 DEF RequestOK, M!ConnectConsent
    <2>8. Rest
        BY <1>8, <2>3, PrivateLasts DEF M!answerConsent, M!shared, Inv, Traced, ClientTypes
    <2>9. Private(c)'
        BY <1>1, <1>3, <1>8, <2>4 DEF M!answerConsent, M!shared, Inv, ClientTypes, Private
    <2>10. ClientTypes'
        BY <1>8 DEF M!answerConsent, M!shared, Inv, ClientTypes, IoStep
    <2>11. \A x \in requests' : RequestOK(x)'
        BY <1>8, <2>1, <2>3, <2>5, <2>7, Lasting DEF M!answerConsent, M!MakeRequest, Inv, Traced
    <2> QED
        BY <2>3, <2>8, <2>9, <2>10, <2>11 DEF ClientSide
<1>9. CASE M!Clear(c)
    <2>1. Rest
        BY <1>9, PrivateLasts DEF M!Clear, M!counts, Inv, Traced, ClientTypes
    <2>2. Callers(c)' = Callers(c)
        BY <1>9 DEF M!Clear, M!counts, Callers
    <2>3. Private(c)'
        BY <1>1, <1>3, <1>9, <2>2 DEF M!Clear, M!counts, Inv, ClientTypes, Private, IoStep
    <2>4. ClientTypes'
        BY <1>9 DEF M!Clear, M!counts, Inv, ClientTypes, IoStep
    <2>5. \A r \in requests' : RequestOK(r)'
        BY <1>9, Lasting DEF M!Clear, M!counts, Inv, Traced
    <2> QED
        BY <1>9, <2>1, <2>3, <2>4, <2>5 DEF ClientSide, M!Clear, M!counts
<1>10. \/ M!Login(c) \/ M!List(c) \/ M!Clear(c) => asked' = asked /\ accepted' = accepted
    BY DEF M!Login, M!List, M!Clear, M!counts
<1>11. \A n, decision :
          /\ M!Connect(c, n) => accepted' = accepted
          /\ M!Decide(c, decision) => asked' = asked /\ accepted' = accepted
          /\ M!answerConsent(c) => asked' = asked
    BY DEF M!Connect, M!Decide, M!answerConsent, M!counts
<1> QED
    BY <1>4, <1>5, <1>6, <1>7, <1>8, <1>9, <1>10, <1>11 DEF M!MenuThread

\* The steps of the io thread.
LEMMA IoKeeps ==
    ASSUME Inv, NEW c \in Client, M!IoThread(c), tokens' = tokens
    PROVE  ClientSide' /\ asked \subseteq asked' /\ accepted \subseteq accepted'
<1>1. /\ Private(c) /\ io[c] \in IoStep
      /\ asked' = asked /\ accepted' = accepted /\ requests' = requests
    BY DEF Inv, Traced, ClientTypes, M!IoThread, M!AssignToken, M!SaveToken, M!AssignPending,
           M!counts
<1>2. Own(c)' = Own(c) /\ Callers(c)' = Callers(c)
    BY <1>1 DEF Own, Callers
<1>3. \A x \in Client \ {c} : Private(x)'
    BY <1>1, PrivateLasts
    DEF M!IoThread, M!AssignToken, M!SaveToken, M!AssignPending, M!Start, M!shared, M!counts,
        Inv, Traced, ClientTypes
<1>4. Private(c)' /\ ClientTypes'
    <2>1. Own(c) \subseteq tokens \cup {NoToken} /\ Callers(c) \subseteq Client
        BY DEF Own, Callers, Inv, ClientTypes
    <2>2. CASE M!AssignToken(c)
        <3>1. Private(c)'
            BY <1>1, <1>2, <2>2
            DEF M!AssignToken, M!Start, M!Idle, M!counts, Private, Inv, ClientTypes, IoStep, Own
        <3>2. ClientTypes'
            BY <1>1, <2>1, <2>2
            DEF M!AssignToken, M!Start, M!Idle, M!counts, Private, Inv, ClientTypes, IoStep
        <3> QED
            BY <3>1, <3>2
    <2>3. CASE M!SaveToken(c)
        <3>1. Private(c)'
            BY <1>1, <1>2, <2>3
            DEF M!SaveToken, M!Start, M!Idle, M!shared, M!counts, Private, Inv, ClientTypes, IoStep
        <3>2. ClientTypes'
            BY <1>1, <2>1, <2>3
            DEF M!SaveToken, M!Start, M!Idle, M!shared, M!counts, Private, Inv, ClientTypes, IoStep
        <3> QED
            BY <3>1, <3>2
    <2>4. CASE M!AssignPending(c)
        <3>1. PICK n \in Callers(c) \cup {Torn, NoName} :
                  /\ pendingIncomingUser_' = [pendingIncomingUser_ EXCEPT ![c] = n]
                  /\ menu[c] \in {"/accept", "/reject"} => n # NoName
            BY <1>1, <2>1, <2>4, SystemConstantsOK DEF M!AssignPending, Private
        <3>2. Private(c)'
            BY <1>1, <1>2, <2>4, <3>1
            DEF M!AssignPending, M!Start, M!Idle, M!counts, Private, Inv, ClientTypes, IoStep
        <3>3. ClientTypes'
            BY <1>1, <2>1, <2>4, <3>1
            DEF M!AssignPending, M!Start, M!Idle, M!counts, Inv, ClientTypes, IoStep
        <3> QED
            BY <3>2, <3>3
    <2> QED
        BY <2>2, <2>3, <2>4 DEF M!IoThread
<1>5. \A r \in requests' : RequestOK(r)'
    BY <1>1, Lasting DEF Inv, Traced
<1> QED
    BY <1>1, <1>3, <1>4, <1>5 DEF ClientSide

\* A client that is started again has the token it saved; one that moves is still the
\* only one with its address.
LEMMA FaultKeeps ==
    ASSUME Inv, NEW c \in Client, M!ClientFault(c), tokens' = tokens
    PROVE  ClientSide' /\ asked' = asked /\ accepted' = accepted
<1>1. Private(c) /\ asked' = asked /\ accepted' = accepted /\ requests' = requests
    BY DEF Inv, Traced, M!ClientFault, M!RestartClient, M!Move, M!counts
<1>2. Own(c)' = Own(c) /\ Callers(c)' = Callers(c)
    BY <1>1 DEF Own, Callers
<1>3. \A x \in Client \ {c} : Private(x)'
    BY <1>1, PrivateLasts
    DEF M!ClientFault, M!RestartClient, M!Move, M!Start, M!loadToken, M!shared, M!counts,
        Inv, Traced, ClientTypes
<1>4. Private(c)' /\ ClientTypes'
    <2>1. CASE M!RestartClient(c)
        BY <1>1, <1>2, <2>1
        DEF M!RestartClient, M!loadToken, M!Start, M!Idle, Private, Inv, ClientTypes, IoStep
    <2>2. CASE M!Move(c)
        <3>1. Private(c)'
            BY <1>1, <1>2, <2>2 DEF M!Move, M!shared, M!counts, Private, Inv, ClientTypes
        <3>2. ClientTypes'
            BY <1>1, <2>2 DEF M!Move, M!shared, M!counts, Inv, ClientTypes, IoStep
        <3> QED
            BY <3>1, <3>2
    <2> QED
        BY <2>1, <2>2 DEF M!ClientFault
<1>5. \A r \in requests' : RequestOK(r)'
    BY <1>1, Lasting DEF Inv, Traced
<1> QED
    BY <1>1, <1>3, <1>4, <1>5 DEF ClientSide

\* What a client does with an answer for it.
LEMMA DispatchKeeps ==
    ASSUME Inv, NEW d \in net, NEW c \in Client, address[c] = d.to, M!dispatchResponse(c, d),
           tokens' = tokens
    PROVE  ClientSide' /\ asked' = asked /\ accepted' = accepted
<1>1. /\ Private(c) /\ AnswerOK(d) /\ d.to[1] = c
      /\ asked' = asked /\ accepted' = accepted /\ requests' = requests
    BY DEF Inv, Traced, Private, M!dispatchResponse, M!RecvBindingResponse,
           M!RecvIncomingConnectionRequest, M!RecvIntroduction, M!RecvPrinted, M!counts,
           M!clientVars
<1>2. Own(c)' = Own(c) /\ Callers(c)' = Callers(c)
    BY <1>1 DEF Own, Callers
<1>3. PICK step :
          /\ io' = [io EXCEPT ![c] = step]
          /\ \/ step = io[c]
             \/ step.at = "token" /\ step.value \in Own(c) \ {NoToken} /\ step \in IoStep
             \/ step.at = "pending" /\ step.value \in Callers(c) /\ step \in IoStep
          /\ UNCHANGED <<token_, pendingIncomingUser_, menu, file, address>>
    <2>1. CASE M!RecvBindingResponse(c, d)
        <3>1. d.jwtToken \in tokens /\ d.jwtToken.peerId = c /\ d.jwtToken # NoToken
            BY <1>1, <2>1, SystemConstantsOK, ConstantsOK
            DEF M!RecvBindingResponse, AnswerOK, Inv, TypeOK, Token
        <3> QED
            BY <2>1, <3>1 DEF M!RecvBindingResponse, M!Start, M!shared, Own, IoStep
    <2>2. CASE M!RecvIncomingConnectionRequest(c, d)
        <3>1. d.clientName \in Callers(c) /\ d.clientName \in Client
            BY <1>1, <2>2 DEF M!RecvIncomingConnectionRequest, AnswerOK, Callers, Inv, ClientTypes
        <3> QED
            BY <2>2, <3>1 DEF M!RecvIncomingConnectionRequest, M!Start, M!shared, IoStep
    <2>3. CASE M!RecvIntroduction(c, d) \/ M!RecvPrinted(c, d)
        <3>1. io = [io EXCEPT ![c] = io[c]]
            BY DEF Inv, ClientTypes
        <3> QED
            BY <2>3, <3>1 DEF M!RecvIntroduction, M!RecvPrinted, M!shared, M!clientVars
    <2> QED
        BY <2>1, <2>2, <2>3 DEF M!dispatchResponse
<1>4. \A x \in Client \ {c} : Private(x)'
    BY <1>1, <1>3, PrivateLasts DEF Inv, Traced, ClientTypes
<1>5. Private(c)'
    BY <1>1, <1>2, <1>3 DEF Private, Inv, ClientTypes
<1>6. ClientTypes'
    BY <1>1, <1>3 DEF Inv, ClientTypes, IoStep
<1>7. \A r \in requests' : RequestOK(r)'
    BY <1>1, Lasting DEF Inv, Traced
<1> QED
    BY <1>1, <1>4, <1>5, <1>6, <1>7 DEF ClientSide

-----------------------------------------------------------------------------
(* The invariant holds. *)

\* Every step leaves what is known of the clients and of what is on its way true.
LEMMA NextTraced == Inv /\ [SystemNext]_systemVars => (ClientTypes /\ Traced)'
<1> SUFFICES ASSUME Inv, [SystemNext]_systemVars PROVE (ClientTypes /\ Traced)'
    OBVIOUS
<1>1. ASSUME ClientSide', ServerSide' PROVE (ClientTypes /\ Traced)'
    BY <1>1 DEF ClientSide, ServerSide, Traced
\* A step of the server; what has not reached it is still on its way.
<1>2. ASSUME tokens \subseteq tokens', ServerSide', UNCHANGED private, requests' \subseteq requests
      PROVE  (ClientTypes /\ Traced)'
    <2>1. asked' = asked /\ accepted' = accepted
        BY <1>2 DEF private
    <2>2. ClientTypes' /\ \A c \in Client : Private(c)'
        BY <1>2, ClientsKept DEF Inv, Traced, ServerSide
    <2>3. \A r \in requests' : RequestOK(r)'
        BY <1>2, <2>1, Lasting DEF Inv, Traced
    <2> QED
        BY <1>1, <1>2, <2>2, <2>3 DEF ClientSide
\* A step of a client, while the server at most loses an answer.
<1>3. ASSUME ClientSide', asked \subseteq asked', accepted \subseteq accepted', net' \subseteq net,
             UNCHANGED <<connected_clients, csv, consents, tokens>>
      PROVE  (ClientTypes /\ Traced)'
    <2>1. /\ \A d \in net' : AnswerOK(d)'
          /\ \A w \in consents' : Wanted(w.target, w.to[1])'
        BY <1>3, Lasting DEF Inv, Traced
    <2>2. RowsOK(connected_clients)' /\ RowsOK(csv)'
        BY <1>3 DEF Inv, Traced, RowsOK
    <2>3. tokens' \subseteq [peerId : Client, exp : Nat]
        BY <1>3 DEF Inv, ClientTypes
    <2> QED
        BY <1>1, <1>3, <2>1, <2>2, <2>3 DEF ServerSide
\* An answer that leaves.
<1>4. ASSUME NEW d, Leave(d), UNCHANGED <<private, requests>> PROVE (ClientTypes /\ Traced)'
    <2>1. /\ \A c \in Client : Private(c)'
          /\ ClientTypes'
        BY <1>4, ClientsKept DEF Inv, Traced, ClientTypes, Leave
    <2>2. asked' = asked /\ accepted' = accepted
        BY <1>4 DEF private
    <2>3. \A r \in requests' : RequestOK(r)'
        BY <1>4, <2>2, Lasting DEF Inv, Traced, Leave
    <2> QED
        BY <1>3, <1>4, <2>1, <2>2, <2>3 DEF ClientSide, Leave
<1>5. ASSUME NEW r \in requests, Serve(r) PROVE (ClientTypes /\ Traced)'
    <2>1. UNCHANGED private /\ requests' \subseteq requests /\ asked' = asked /\ accepted' = accepted
        BY <1>5 DEF Serve, private
    <2> QED
        BY <1>2, <1>5, <2>1, HandleKeeps DEF Serve
<1>6. ASSUME NEW r \in requests, LoseRequest(r) PROVE (ClientTypes /\ Traced)'
    <2>1. /\ UNCHANGED private /\ requests' \subseteq requests
          /\ UNCHANGED <<connected_clients, csv, consents, tokens, net, asked, accepted>>
        BY <1>6 DEF LoseRequest, vars, private
    <2>2. ClientTypes' /\ \A c \in Client : Private(c)'
        BY <2>1, ClientsKept DEF Inv, Traced, ClientTypes
    <2>3. \A r2 \in requests' : RequestOK(r2)'
        BY <2>1, Lasting DEF Inv, Traced
    <2> QED
        BY <1>3, <2>1, <2>2, <2>3 DEF ClientSide
<1>7. ASSUME NEW d \in net, Deliver(d) PROVE (ClientTypes /\ Traced)'
    <2>1. /\ net' \subseteq net
          /\ UNCHANGED <<connected_clients, csv, consents, tokens>>
        BY <1>7 DEF Deliver, Leave, vars
    <2>2. ClientSide' /\ asked' = asked /\ accepted' = accepted
        BY <1>7, <2>1, DispatchKeeps DEF Deliver
    <2> QED
        BY <1>3, <2>1, <2>2
<1>8. ASSUME NEW d \in net, Unreachable(d) \/ LoseAnswer(d) PROVE (ClientTypes /\ Traced)'
    BY <1>4, <1>8 DEF Unreachable, LoseAnswer, clients
<1>9. CASE ServerAlone
    BY <1>2, <1>9, ServerAloneKeeps DEF clients
<1>10. ASSUME NEW c \in Client, ClientAlone(c) PROVE (ClientTypes /\ Traced)'
    <2>1. UNCHANGED <<connected_clients, csv, consents, tokens, net>>
        BY <1>10 DEF ClientAlone, vars
    <2>2. ClientSide' /\ asked \subseteq asked' /\ accepted \subseteq accepted'
        BY <1>10, <2>1, MenuKeeps, IoKeeps, FaultKeeps DEF ClientAlone, M!ClientStep
    <2> QED
        BY <1>3, <2>1, <2>2
<1>11. CASE UNCHANGED systemVars
    BY <1>11 DEF systemVars, vars, clients, private, history, Inv, ClientTypes, IoStep, Traced,
                 Private, RequestOK, AnswerOK, RowsOK, Wanted, Own, Callers
<1> QED
    BY <1>5, <1>6, <1>7, <1>8, <1>9, <1>10, <1>11 DEF SystemNext

\* The invariant is inductive.
LEMMA NextInv == Inv /\ [SystemNext]_systemVars => Inv'
<1> SUFFICES ASSUME Inv, [SystemNext]_systemVars PROVE Inv'
    OBVIOUS
<1>1. TypeOK' /\ ReferencesStay'
    BY StepIsServers, NextTypeOK, NextReferences DEF Inv
<1>2. (ClientTypes /\ Traced)'
    BY NextTraced
<1> QED
    BY <1>1, <1>2 DEF Inv

\* Whatever the users do and the network does, the server sees only what Server allows:
\* its theorems hold of the whole system.
THEOREM SystemImplementsServer == SystemSpec => ImplementsServer
<1>1. SystemInit => Init
    BY DEF SystemInit
<1> QED
    BY <1>1, InitInv, NextInv, StepIsServers, PTL DEF SystemSpec, ImplementsServer, Spec

-----------------------------------------------------------------------------
(* Introductions. *)

\* A step that spawns a punching coroutine got an introduction that both had wanted.
LEMMA NextPunches == Inv /\ PunchesForWantedCall /\ [SystemNext]_systemVars => PunchesForWantedCall'
<1> SUFFICES ASSUME Inv, PunchesForWantedCall, [SystemNext]_systemVars
             PROVE  PunchesForWantedCall'
    OBVIOUS
<1> DEFINE Good(p) ==
        LET caller == IF p.role = "ServerPunch" THEN p.client ELSE p.peer
            callee == IF p.role = "ServerPunch" THEN p.peer ELSE p.client
        IN Wanted(caller, callee) /\ (p.address # Garbage => p.address[1] = p.peer)
<1>1. \A p \in punching : Good(p)
    BY DEF PunchesForWantedCall, Wanted
<1>2. ASSUME asked \subseteq asked', accepted \subseteq accepted', \A p \in punching' : Good(p)
      PROVE  PunchesForWantedCall'
    BY <1>2 DEF PunchesForWantedCall, Wanted
<1>3. ASSUME punching' = punching, asked \subseteq asked', accepted \subseteq accepted'
      PROVE  PunchesForWantedCall'
    BY <1>1, <1>2, <1>3
<1>4. ASSUME NEW d \in net, Deliver(d) PROVE PunchesForWantedCall'
    <2>1. PICK c \in Client : address[c] = d.to /\ M!dispatchResponse(c, d)
        BY <1>4 DEF Deliver
    <2>2. tokens' = tokens
        BY <1>4 DEF Deliver, Leave, vars
    <2>3. asked' = asked /\ accepted' = accepted
        BY <2>1, <2>2, DispatchKeeps
    <2>4. CASE M!RecvIntroduction(c, d)
        <3>1. AnswerOK(d) /\ d.to[1] = c /\ d.type \in {"ConnectToHost", "SuccessConnectToClient"}
            BY <2>1, <2>4 DEF M!RecvIntroduction, Inv, Traced, Private
        <3>2. PICK p : p = [client |-> c, role |-> M!Role(d), peer |-> d.clientName,
                            address |-> d.address]
            OBVIOUS
        <3>3. punching' = punching \cup {p}
            BY <2>4, <3>2 DEF M!RecvIntroduction
        <3>4. Good(p)
            BY <3>1, <3>2 DEF AnswerOK, M!Role
        <3> QED
            BY <1>1, <1>2, <2>3, <3>3, <3>4
    <2>5. CASE punching' = punching
        BY <1>3, <2>3, <2>5
    <2> QED
        BY <2>1, <2>4, <2>5
        DEF M!dispatchResponse, M!RecvBindingResponse, M!RecvIncomingConnectionRequest,
            M!RecvPrinted, M!clientVars
<1>5. ASSUME NEW c \in Client, ClientAlone(c) PROVE PunchesForWantedCall'
    <2>1. asked \subseteq asked' /\ accepted \subseteq accepted'
        BY <1>5, MenuKeeps, IoKeeps, FaultKeeps DEF ClientAlone, M!ClientStep, vars
    <2>2. punching' = punching
        BY <1>5
        DEF ClientAlone, M!ClientStep, M!ClientFault, M!MenuThread, M!IoThread, M!Login, M!List,
            M!Connect, M!Decide, M!answerConsent, M!Clear, M!AssignToken, M!SaveToken,
            M!AssignPending, M!RestartClient, M!Move
    <2> QED
        BY <1>3, <2>1, <2>2
<1>6. ASSUME UNCHANGED private PROVE PunchesForWantedCall'
    BY <1>3, <1>6 DEF private
<1>7. ASSUME NEW r \in requests, Serve(r) \/ LoseRequest(r) PROVE UNCHANGED private
    BY <1>7 DEF Serve, LoseRequest
<1>8. ASSUME NEW d \in net, Unreachable(d) \/ LoseAnswer(d) PROVE UNCHANGED private
    BY <1>8 DEF Unreachable, LoseAnswer, clients
<1>9. ServerAlone \/ UNCHANGED systemVars => UNCHANGED private
    BY DEF ServerAlone, clients, systemVars
<1> QED
    BY <1>4, <1>5, <1>6, <1>7, <1>8, <1>9 DEF SystemNext

\* A client punches only for a call that was typed and accepted, in its role, and towards
\* an address of that user.
THEOREM PunchesWanted == SystemSpec => []PunchesForWantedCall
<1>1. SystemInit => PunchesForWantedCall
    BY DEF SystemInit, M!InitClients, PunchesForWantedCall
<1> QED
    BY <1>1, InitInv, NextInv, NextPunches, PTL DEF SystemSpec

-----------------------------------------------------------------------------
(* Consents. *)

\* A call of n that waits to be answered, and one that is just being shown.
Waiting(c, n) == IF pendingIncomingUser_[c] = n /\ menu[c] # "clear" THEN 1 ELSE 0
Showing(c, n) == IF io[c].at \in {"pending", "cleared"} /\ io[c].value = n THEN 1 ELSE 0

\* Every call of n that was shown to c is answered, waits, is just being shown, or was
\* lost, unless an answer took it from under its assignment.
Even(c, n) ==
    <<c, n>> \notin raced => answers[c][n] + Waiting(c, n) + Showing(c, n) <= shown[c][n]

Balance ==
    /\ shown \in [Client -> [Client -> Nat]]
    /\ answers \in [Client -> [Client -> Nat]]
    /\ \A c, n \in Client : Even(c, n)

\* At the start.
LEMMA InitBalance == SystemInit => Balance
<1> SUFFICES ASSUME SystemInit PROVE Balance
    OBVIOUS
<1>1. \A c, n \in Client :
          answers[c][n] = 0 /\ shown[c][n] = 0 /\ Waiting(c, n) = 0 /\ Showing(c, n) = 0
    BY SystemConstantsOK DEF SystemInit, M!InitClients, M!Idle, Waiting, Showing
<1> QED
    BY <1>1 DEF SystemInit, M!InitClients, Balance, Even

\* What counting one more changes.
LEMMA CountedSpec ==
    ASSUME NEW f \in [Client -> [Client -> Nat]], NEW c \in Client, NEW n
    PROVE  /\ M!Counted(f, c, n) \in [Client -> [Client -> Nat]]
           /\ \A x \in Client \ {c} : M!Counted(f, c, n)[x] = f[x]
           /\ \A m \in Client \ {n} : M!Counted(f, c, n)[c][m] = f[c][m]
           /\ n \in Client => M!Counted(f, c, n)[c][n] = f[c][n] + 1
<1> DEFINE g == [m \in Client |-> IF m = n THEN f[c][m] + 1 ELSE f[c][m]]
<1>1. g \in [Client -> Nat]
    OBVIOUS
<1>2. M!Counted(f, c, n) = [f EXCEPT ![c] = g]
    BY DEF M!Counted
<1>3. (\A m \in Client \ {n} : g[m] = f[c][m]) /\ (n \in Client => g[n] = f[c][n] + 1)
    OBVIOUS
<1> HIDE DEF g
<1> QED
    BY <1>1, <1>2, <1>3

\* A client that a step leaves alone stays balanced; only one may move.
LEMMA BalanceOfOne ==
    ASSUME Balance, NEW c \in Client, raced \subseteq raced',
           shown' \in [Client -> [Client -> Nat]], answers' \in [Client -> [Client -> Nat]],
           \A x \in Client \ {c} :
               /\ shown'[x] = shown[x] /\ answers'[x] = answers[x] /\ menu'[x] = menu[x]
               /\ io'[x] = io[x] /\ pendingIncomingUser_'[x] = pendingIncomingUser_[x],
           \A n \in Client : Even(c, n)'
    PROVE  Balance'
<1>1. \A x \in Client \ {c}, n \in Client : Even(x, n)'
    BY DEF Balance, Even, Waiting, Showing
<1> QED
    BY <1>1 DEF Balance

\* What a client's balance says in numbers.
LEMMA BalanceNumbers ==
    ASSUME Balance, NEW c \in Client, NEW n \in Client
    PROVE  /\ answers[c][n] \in Nat /\ shown[c][n] \in Nat
           /\ Waiting(c, n) \in {0, 1} /\ Showing(c, n) \in {0, 1}
           /\ Waiting(c, n)' \in {0, 1} /\ Showing(c, n)' \in {0, 1}
BY DEF Balance, Waiting, Showing

\* The menu thread sends one consent for a call that waits, and clears it then.
LEMMA MenuBalance ==
    ASSUME Inv, Balance, NEW c \in Client, M!MenuThread(c)
    PROVE  Balance'
<1>1. Private(c) /\ menu \in [Client -> {"getline", "/accept", "/reject", "clear"}]
      /\ io \in [Client -> IoStep]
    BY DEF Inv, Traced, ClientTypes
<1>3. ASSUME UNCHANGED <<shown, answers, raced, menu, io, pendingIncomingUser_>> PROVE Balance'
    BY <1>3 DEF Balance, Even, Waiting, Showing
<1>4. CASE M!Login(c) \/ M!List(c) \/ \E n \in Client : M!Connect(c, n)
    BY <1>3, <1>4 DEF M!Login, M!List, M!Connect, M!shared, M!counts
<1>5. ASSUME NEW decision \in {"/accept", "/reject"}, M!Decide(c, decision) PROVE Balance'
    <2>1. /\ UNCHANGED <<shown, answers, raced, io, pendingIncomingUser_>>
          /\ \A x \in Client \ {c} : menu'[x] = menu[x]
          /\ menu[c] = "getline" /\ menu'[c] # "clear"
        BY <1>1, <1>5 DEF M!Decide, M!Type, M!GetLine, M!shared, M!counts
    <2>2. \A n \in Client : Even(c, n)'
        BY <2>1 DEF Balance, Even, Waiting, Showing
    <2> QED
        BY <2>1, <2>2, BalanceOfOne DEF Balance
<1>6. CASE M!answerConsent(c)
    <2>1. PICK n : M!CountAnswer(c, n)
        BY <1>6 DEF M!answerConsent
    <2>2. /\ UNCHANGED <<shown, io, pendingIncomingUser_>>
          /\ menu' = [menu EXCEPT ![c] = "clear"]
          /\ menu[c] \in {"/accept", "/reject"}
        BY <1>6 DEF M!answerConsent, M!shared
    <2>3. answers' = M!Counted(answers, c, n) /\ answers \in [Client -> [Client -> Nat]]
        BY <2>1 DEF M!CountAnswer, Balance
    <2>4. /\ answers' \in [Client -> [Client -> Nat]]
          /\ \A x \in Client \ {c} : answers'[x] = answers[x]
          /\ \A m \in Client \ {n} : answers'[c][m] = answers[c][m]
          /\ n \in Client => answers'[c][n] = answers[c][n] + 1
        <3> DEFINE g == M!Counted(answers, c, n)
        <3>1. /\ g \in [Client -> [Client -> Nat]]
              /\ \A x \in Client \ {c} : g[x] = answers[x]
              /\ \A m \in Client \ {n} : g[c][m] = answers[c][m]
              /\ n \in Client => g[c][n] = answers[c][n] + 1
            BY <2>3, CountedSpec, Zenon
        <3>2. answers' = g
            BY <2>3
        <3> HIDE DEF g
        <3> QED
            BY <3>1, <3>2
    <2>5. raced \subseteq raced' /\ (n # pendingIncomingUser_[c] => <<c, n>> \in raced')
        BY <2>1 DEF M!CountAnswer
    <2>6. ASSUME NEW m \in Client, <<c, m>> \notin raced'
          PROVE  (answers[c][m] + Waiting(c, m) + Showing(c, m) <= shown[c][m])'
        <3>1. /\ Waiting(c, m)' = 0 /\ Showing(c, m)' = Showing(c, m)
              /\ m = n => Waiting(c, m) = 1
            BY <1>1, <2>2, <2>5, <2>6 DEF Waiting, Showing
        <3>2. answers[c][m] + Waiting(c, m) + Showing(c, m) <= shown[c][m]
            BY <2>5, <2>6 DEF Balance, Even
        <3>3. answers'[c][m] = IF m = n THEN answers[c][m] + 1 ELSE answers[c][m]
            BY <2>4
        <3> QED
            BY <2>2, <3>1, <3>2, <3>3, BalanceNumbers
    <2>7. \A m \in Client : Even(c, m)'
        BY <2>6 DEF Even
    <2> QED
        BY <1>1, <2>2, <2>4, <2>5, <2>7, BalanceOfOne DEF Balance
<1>7. CASE M!Clear(c)
    <2>1. /\ UNCHANGED <<shown, answers, raced>>
          /\ menu' = [menu EXCEPT ![c] = "getline"]
          /\ pendingIncomingUser_' = [pendingIncomingUser_ EXCEPT ![c] = NoName]
          /\ io' = [io EXCEPT ![c].at = IF @ = "pending" THEN "cleared" ELSE @]
          /\ menu[c] = "clear"
        BY <1>7 DEF M!Clear, M!counts
    <2>2. ASSUME NEW m \in Client PROVE Even(c, m)'
        <3>1. m # NoName
            BY SystemConstantsOK
        <3>2. Waiting(c, m)' = 0
            BY <2>1, <3>1 DEF Waiting, Inv, ClientTypes
        <3>3. Showing(c, m)' = Showing(c, m)
            BY <1>1, <2>1 DEF Showing, IoStep
        <3>4. answers'[c][m] = answers[c][m] /\ shown'[c][m] = shown[c][m] /\ raced' = raced
            BY <2>1
        <3>5. <<c, m>> \notin raced => answers[c][m] + Waiting(c, m) + Showing(c, m) <= shown[c][m]
            BY DEF Balance, Even
        <3> QED
            BY <3>2, <3>3, <3>4, <3>5, BalanceNumbers DEF Even
    <2> QED
        BY <1>1, <2>1, <2>2, BalanceOfOne DEF Balance, Inv, ClientTypes
<1> QED
    BY <1>4, <1>5, <1>6, <1>7 DEF M!MenuThread

\* The io thread assigns a call once, after it has shown it.
LEMMA IoBalance ==
    ASSUME Inv, Balance, NEW c \in Client, M!IoThread(c)
    PROVE  Balance'
<1>1. io \in [Client -> IoStep]
      /\ pendingIncomingUser_ \in [Client -> Client \cup {Torn, NoName}]
    BY DEF Inv, ClientTypes
<1>2. UNCHANGED <<shown, answers, raced, menu>> /\ io'[c].at \notin {"pending", "cleared"}
      /\ \A x \in Client \ {c} : /\ io'[x] = io[x]
                                 /\ pendingIncomingUser_'[x] = pendingIncomingUser_[x]
    BY <1>1 DEF M!IoThread, M!AssignToken, M!SaveToken, M!AssignPending, M!Start, M!Idle,
                M!shared, M!counts, IoStep
<1>3. ASSUME NEW m \in Client PROVE Even(c, m)'
    <2>1. m # NoName /\ m # Torn
        BY SystemConstantsOK
    <2>2. Showing(c, m)' = 0
        BY <1>2 DEF Showing
    <2>3. Waiting(c, m)' <= Waiting(c, m) + Showing(c, m)
        <3>1. CASE M!AssignPending(c)
            <4>1. pendingIncomingUser_'[c] = m => Showing(c, m) = 1
                BY <1>1, <2>1, <3>1 DEF M!AssignPending, Showing
            <4> QED
                BY <4>1, BalanceNumbers DEF Waiting
        <3>2. CASE M!AssignToken(c) \/ M!SaveToken(c)
            <4>1. pendingIncomingUser_' = pendingIncomingUser_
                BY <3>2 DEF M!AssignToken, M!SaveToken, M!shared
            <4>2. Waiting(c, m)' = Waiting(c, m)
                BY <1>2, <4>1 DEF Waiting
            <4> QED
                BY <4>2, BalanceNumbers
        <3> QED
            BY <3>1, <3>2 DEF M!IoThread
    <2> QED
        BY <1>2, <2>2, <2>3, BalanceNumbers DEF Balance, Even
<1> QED
    BY <1>2, <1>3, BalanceOfOne DEF Balance

\* A call that is shown is counted before it can be answered.
LEMMA DispatchBalance ==
    ASSUME Inv, Balance, NEW c \in Client, NEW d, M!dispatchResponse(c, d)
    PROVE  Balance'
<1>1. io \in [Client -> IoStep] /\ io[c] = M!Idle
    BY DEF Inv, ClientTypes, M!dispatchResponse, M!RecvBindingResponse,
           M!RecvIncomingConnectionRequest, M!RecvIntroduction, M!RecvPrinted
<1>2. UNCHANGED <<answers, raced, menu, pendingIncomingUser_>>
      /\ \A x \in Client \ {c} : io'[x] = io[x]
    BY <1>1 DEF M!dispatchResponse, M!RecvBindingResponse, M!RecvIncomingConnectionRequest,
                M!RecvIntroduction, M!RecvPrinted, M!Start, M!shared, M!counts, M!clientVars
<1>3. /\ shown' \in [Client -> [Client -> Nat]]
      /\ \A x \in Client \ {c} : shown'[x] = shown[x]
      /\ \A m \in Client : shown'[c][m] >= shown[c][m] + Showing(c, m)'
    <2>1. CASE M!RecvIncomingConnectionRequest(c, d)
        <3>1. PICK n : n = d.clientName
            OBVIOUS
        <3>2. shown' = M!Counted(shown, c, n) /\ shown \in [Client -> [Client -> Nat]]
            BY <2>1, <3>1 DEF M!RecvIncomingConnectionRequest, Balance
        <3>3. io'[c].value = n
            BY <1>1, <2>1, <3>1 DEF M!RecvIncomingConnectionRequest, M!Start
        <3>4. \A m \in Client : Showing(c, m)' \in {0, 1} /\ (m # n => Showing(c, m)' = 0)
            BY <3>3 DEF Showing
        <3>5. /\ shown' \in [Client -> [Client -> Nat]]
              /\ \A x \in Client \ {c} : shown'[x] = shown[x]
              /\ \A m \in Client \ {n} : shown'[c][m] = shown[c][m]
              /\ n \in Client => shown'[c][n] = shown[c][n] + 1
            <4> DEFINE g == M!Counted(shown, c, n)
            <4>1. /\ g \in [Client -> [Client -> Nat]]
                  /\ \A x \in Client \ {c} : g[x] = shown[x]
                  /\ \A m \in Client \ {n} : g[c][m] = shown[c][m]
                  /\ n \in Client => g[c][n] = shown[c][n] + 1
                BY <3>2, CountedSpec, Zenon
            <4>2. shown' = g
                BY <3>2
            <4> HIDE DEF g
            <4> QED
                BY <4>1, <4>2
        <3> QED
            BY <3>2, <3>4, <3>5
    <2>2. CASE M!RecvBindingResponse(c, d) \/ M!RecvIntroduction(c, d) \/ M!RecvPrinted(c, d)
        <3>1. shown' = shown /\ \A m \in Client : Showing(c, m)' = 0
            BY <1>1, <2>2
            DEF M!RecvBindingResponse, M!RecvIntroduction, M!RecvPrinted, M!Start, M!counts,
                M!clientVars, M!Idle, Showing
        <3> QED
            BY <3>1 DEF Balance
    <2> QED
        BY <2>1, <2>2 DEF M!dispatchResponse
<1>4. ASSUME NEW m \in Client PROVE Even(c, m)'
    <2>1. Waiting(c, m)' = Waiting(c, m) /\ Showing(c, m) = 0
        BY <1>1, <1>2 DEF Waiting, Showing, M!Idle
    <2>2. shown'[c][m] \in Nat
        BY <1>3
    <2> QED
        BY <1>2, <1>3, <2>1, <2>2, BalanceNumbers DEF Balance, Even
<1> QED
    BY <1>2, <1>3, <1>4, BalanceOfOne DEF Balance

\* A client that is started again has forgotten its calls.
LEMMA FaultBalance ==
    ASSUME Inv, Balance, NEW c \in Client, M!ClientFault(c)
    PROVE  Balance'
<1>1. CASE M!RestartClient(c)
    <2>1. UNCHANGED <<shown, answers, raced>>
          /\ \A x \in Client \ {c} :
                /\ menu'[x] = menu[x] /\ io'[x] = io[x]
                /\ pendingIncomingUser_'[x] = pendingIncomingUser_[x]
        BY <1>1 DEF M!RestartClient, M!Start, Inv, ClientTypes
    <2>2. ASSUME NEW m \in Client PROVE Even(c, m)'
        <3>1. Waiting(c, m)' = 0 /\ Showing(c, m)' = 0
            BY <1>1, SystemConstantsOK
            DEF M!RestartClient, M!Start, M!Idle, Waiting, Showing, Inv, ClientTypes
        <3> QED
            BY <2>1, <3>1, BalanceNumbers DEF Balance, Even
    <2> QED
        BY <2>1, <2>2, BalanceOfOne DEF Balance
<1>2. CASE M!Move(c)
    BY <1>2 DEF M!Move, M!shared, M!counts, Balance, Even, Waiting, Showing
<1> QED
    BY <1>1, <1>2 DEF M!ClientFault

\* Every step keeps the balance.
LEMMA NextBalance == Inv /\ Balance /\ [SystemNext]_systemVars => Balance'
<1> SUFFICES ASSUME Inv, Balance, [SystemNext]_systemVars PROVE Balance'
    OBVIOUS
<1>1. ASSUME UNCHANGED private PROVE Balance'
    BY <1>1 DEF private, Balance, Even, Waiting, Showing
<1>2. ASSUME NEW r \in requests, Serve(r) \/ LoseRequest(r) PROVE UNCHANGED private
    BY <1>2 DEF Serve, LoseRequest
<1>3. ASSUME NEW d \in net, Unreachable(d) \/ LoseAnswer(d) PROVE UNCHANGED private
    BY <1>3 DEF Unreachable, LoseAnswer, clients
<1>4. ServerAlone \/ UNCHANGED systemVars => UNCHANGED private
    BY DEF ServerAlone, clients, systemVars
<1>5. ASSUME NEW d \in net, Deliver(d) PROVE Balance'
    BY <1>5, DispatchBalance DEF Deliver
<1>6. ASSUME NEW c \in Client, ClientAlone(c) PROVE Balance'
    BY <1>6, MenuBalance, IoBalance, FaultBalance DEF ClientAlone, M!ClientStep
<1> QED
    BY <1>1, <1>2, <1>3, <1>4, <1>5, <1>6 DEF SystemNext

\* No caller is answered more often than shown, unless a call was copied from under
\* its assignment.
THEOREM NoSecondAnswer == SystemSpec => []AnsweredOnce
<1>1. Balance => AnsweredOnce
    <2> SUFFICES ASSUME Balance, NEW c \in Client, NEW n \in Client, <<c, n>> \notin raced
                 PROVE  answers[c][n] <= shown[c][n]
        BY DEF AnsweredOnce
    <2> QED
        BY BalanceNumbers DEF Balance, Even
<1> QED
    BY <1>1, InitBalance, InitInv, NextInv, NextBalance, PTL DEF SystemSpec

-----------------------------------------------------------------------------
(* Types. *)

Coroutine == [client : Client, role : {"ServerPunch", "ClientPunch"},
              peer : Client, address : Endpoint \cup {Garbage}]

\* The types that no other proof rests on.
OtherTypes ==
    /\ lines \in [Client -> Nat]
    /\ \A c \in Client : lines[c] <= MaxLines[c]
    /\ faults \in 0..MaxFaults
    /\ accepted \subseteq Client \X Name
    /\ punching \subseteq Coroutine
    /\ raced \subseteq Client \X Name

\* A line that is typed is one of those the bound allows.
LEMMA LineCounted ==
    ASSUME OtherTypes, NEW c \in Client, M!GetLine(c)
    PROVE  lines' \in [Client -> Nat] /\ \A x \in Client : lines'[x] <= MaxLines[x]
<1>1. lines[c] \in Nat /\ MaxLines[c] \in Nat /\ lines[c] < MaxLines[c]
    BY SystemConstantsOK DEF OtherTypes, M!GetLine
<1>2. lines' = [lines EXCEPT ![c] = @ + 1]
    BY DEF M!GetLine
<1>3. lines'[c] = lines[c] + 1 /\ lines[c] + 1 <= MaxLines[c]
    BY <1>1, <1>2 DEF OtherTypes
<1>4. \A x \in Client \ {c} : lines'[x] = lines[x]
    BY <1>2 DEF OtherTypes
<1> QED
    BY <1>1, <1>2, <1>3, <1>4 DEF OtherTypes

\* Every step keeps these types.
LEMMA NextOtherTypes == Inv /\ OtherTypes /\ [SystemNext]_systemVars => OtherTypes'
<1> SUFFICES ASSUME Inv, OtherTypes, [SystemNext]_systemVars PROVE OtherTypes'
    OBVIOUS
<1>1. faults' \in 0..MaxFaults
    <2>1. MaxFaults \in Nat /\ faults \in 0..MaxFaults
        BY SystemConstantsOK DEF OtherTypes
    <2>2. faults' = faults \/ Fault
        BY DEF SystemNext, Serve, LoseRequest, Deliver, Unreachable, LoseAnswer, ServerAlone,
               ClientAlone, NoFault, systemVars
    <2> QED
        BY <2>1, <2>2 DEF Fault
<1>2. ASSUME UNCHANGED <<lines, accepted, punching, raced>> PROVE OtherTypes'
    BY <1>1, <1>2 DEF OtherTypes
<1>3. ASSUME UNCHANGED private PROVE OtherTypes'
    BY <1>2, <1>3 DEF private
<1>4. ASSUME NEW r \in requests, Serve(r) \/ LoseRequest(r) PROVE UNCHANGED private
    BY <1>4 DEF Serve, LoseRequest
<1>5. ASSUME NEW d \in net, Unreachable(d) \/ LoseAnswer(d) PROVE UNCHANGED private
    BY <1>5 DEF Unreachable, LoseAnswer, clients
<1>6. ServerAlone \/ UNCHANGED systemVars => UNCHANGED private
    BY DEF ServerAlone, clients, systemVars
<1>7. ASSUME NEW d \in net, Deliver(d) PROVE OtherTypes'
    <2>1. PICK c \in Client : address[c] = d.to /\ M!dispatchResponse(c, d)
        BY <1>7 DEF Deliver
    <2>2. CASE M!RecvIntroduction(c, d)
        <3>1. d \in Introduction /\ AnswerOK(d) /\ d.to[1] = c
            BY <2>1, <2>2
            DEF M!RecvIntroduction, Inv, TypeOK, Datagram, Introduction, Traced, Private
        <3>2. d.clientName \in Client
            BY <3>1, SystemConstantsOK DEF AnswerOK, Introduction, Wanted, Inv, ClientTypes
        <3>3. [client |-> c, role |-> M!Role(d), peer |-> d.clientName, address |-> d.address]
                  \in Coroutine
            BY <3>1, <3>2 DEF Introduction, Coroutine, M!Role
        <3> QED
            BY <1>1, <2>2, <3>3 DEF M!RecvIntroduction, M!counts, OtherTypes
    <2>3. CASE ~ M!RecvIntroduction(c, d)
        BY <1>2, <2>1, <2>3
        DEF M!dispatchResponse, M!RecvBindingResponse, M!RecvIncomingConnectionRequest,
            M!RecvPrinted, M!counts, M!clientVars
    <2> QED
        BY <2>2, <2>3
<1>8. ASSUME NEW c \in Client, ClientAlone(c) PROVE OtherTypes'
    <2>1. CASE M!answerConsent(c)
        <3>1. PICK n \in M!CopiesOfPending(c) :
                  /\ accepted' \subseteq accepted \cup {<<c, n>>}
                  /\ raced' \subseteq raced \cup {<<c, n>>}
            BY <2>1 DEF M!answerConsent, M!CountAnswer
        <3>2. Callers(c) \subseteq Name /\ Torn \in Name
            BY SystemConstantsOK DEF Callers, Inv, ClientTypes
        <3>3. n \in Name
            BY <2>1, <3>2, CopiedPending DEF M!answerConsent, Inv, Traced
        <3> QED
            BY <1>1, <2>1, <3>1, <3>3 DEF M!answerConsent, OtherTypes
    <2>2. ASSUME NEW n, NEW decision, M!Login(c) \/ M!List(c) \/ M!Connect(c, n) \/ M!Decide(c, decision)
          PROVE OtherTypes'
        <3>1. M!GetLine(c) /\ UNCHANGED <<accepted, punching, raced>>
            BY <2>2 DEF M!Login, M!List, M!Connect, M!Decide, M!Type, M!counts
        <3> QED
            BY <1>1, <3>1, LineCounted DEF OtherTypes
    <2>3. CASE M!Clear(c) \/ M!IoThread(c) \/ M!ClientFault(c)
        BY <1>2, <2>3
        DEF M!Clear, M!IoThread, M!AssignToken, M!SaveToken, M!AssignPending, M!ClientFault,
            M!RestartClient, M!Move, M!counts
    <2> QED
        BY <1>8, <2>1, <2>2, <2>3 DEF ClientAlone, M!ClientStep, M!MenuThread
<1> QED
    BY <1>3, <1>4, <1>5, <1>6, <1>7, <1>8 DEF SystemNext

\* Every variable of the clients keeps its type.
THEOREM SystemTypes == SystemSpec => []SystemTypeOK
<1>1. SystemInit => OtherTypes
    BY SystemConstantsOK DEF SystemInit, M!InitClients, OtherTypes
<1>2. Inv /\ Balance /\ OtherTypes => SystemTypeOK
    <2> SUFFICES ASSUME Inv, Balance, OtherTypes PROVE SystemTypeOK
        OBVIOUS
    <2>1. \A c \in Client :
            \/ io[c] = M!Idle
            \/ io[c].at \in {"token", "save"} /\ io[c].value \in tokens
            \/ io[c].at \in {"pending", "cleared"} /\ io[c].value \in Client
        <3> SUFFICES ASSUME NEW c \in Client
                     PROVE  \/ io[c] = M!Idle
                            \/ io[c].at \in {"token", "save"} /\ io[c].value \in tokens
                            \/ io[c].at \in {"pending", "cleared"} /\ io[c].value \in Client
            OBVIOUS
        <3>1. Private(c) /\ io[c] \in IoStep
            BY DEF Inv, Traced, ClientTypes
        <3>2. Own(c) \ {NoToken} \subseteq tokens /\ Callers(c) \subseteq Client
            BY DEF Own, Callers, Inv, ClientTypes
        <3> QED
            BY <3>1, <3>2 DEF Private, IoStep, M!Idle
    <2>2. pendingIncomingUser_ \in [Client -> Name \cup {NoName}]
        BY SystemConstantsOK DEF Inv, ClientTypes
    <2>3. \A c \in Client : lines[c] \in 0..MaxLines[c]
        BY SystemConstantsOK DEF OtherTypes
    <2>4. \A r \in requests : r.from \in Endpoint
        BY DEF Inv, Traced, RequestOK
    <2> QED
        BY <2>1, <2>2, <2>3, <2>4 DEF SystemTypeOK, OtherTypes, Balance, Inv, ClientTypes, Coroutine
<1> QED
    BY <1>1, <1>2, InitInv, InitBalance, NextInv, NextBalance, NextOtherTypes, PTL DEF SystemSpec

===============================================================================
