----------------------------- MODULE ServerProofs -----------------------------
(***************************************************************************)
(* Proofs of the safety properties of Server, for every set of names and   *)
(* endpoints and without the bounds of the runs.  What rests on data.csv   *)
(* coming back whole after a crash is proved under Persistent.             *)
(***************************************************************************)
EXTENDS Server, TLAPS, WellFoundedInduction, SequenceTheorems

-----------------------------------------------------------------------------
(* The registry's operators. *)

\* The minimum of a non-empty set of numbers is one of them.
LEMMA MinInSet ==
    ASSUME NEW S \in SUBSET Nat, S # {}
    PROVE  Min(S) \in S
<1>1. PICK x \in S : \A y \in S : ~ (<<y, x>> \in OpToRel(<, Nat))
    BY WFMin, NatLessThanWellFounded
<1>2. ASSUME NEW y \in S PROVE x =< y
    <2>1. <<y, x>> \notin {ss \in Nat \X Nat : ss[1] < ss[2]}
        BY <1>1 DEF OpToRel
    <2>2. x \in Nat /\ y \in Nat
        OBVIOUS
    <2>3. ~ (y < x)
        BY <2>1, <2>2
    <2> QED
        BY <2>2, <2>3
<1> QED
    BY <1>2 DEF Min

\* Find returns the place of an element with the name, or 0 if there is none.
LEMMA FindSpec ==
    ASSUME NEW clients \in Seq(ConnectedClient), NEW n
    PROVE  /\ Find(clients, n) \in 0 .. Len(clients)
           /\ Find(clients, n) # 0 => clients[Find(clients, n)].name = n
           /\ Find(clients, n) = 0 => \A i \in 1 .. Len(clients) : clients[i].name # n
<1> DEFINE I == {i \in 1 .. Len(clients) : clients[i].name = n}
<1>1. Find(clients, n) = IF I # {} THEN Min(I) ELSE 0
    BY DEF Find, SelectInSeq
<1>2. I \in SUBSET Nat
    OBVIOUS
<1>3. I # {} => Min(I) \in I
    BY <1>2, MinInSet
<1> QED
    BY <1>1, <1>3

\* The registry after a name has been stored: every element is an old one or the
\* one stored, no element changes its name, and the name is there.
LEMMA StoredSpec ==
    ASSUME connected_clients \in Seq(ConnectedClient), NEW n \in Name, NEW e \in Endpoint
    PROVE  LET s == Stored(n, e)
               new == [name |-> n, endpoint |-> e]
           IN /\ s \in Seq(ConnectedClient)
              /\ Len(s) >= Len(connected_clients)
              /\ \A i \in 1 .. Len(connected_clients) : s[i].name = connected_clients[i].name
              /\ \A i \in 1 .. Len(s) :
                     s[i] = new \/ (i \in 1 .. Len(connected_clients) /\ s[i] = connected_clients[i])
              /\ \E i \in 1 .. Len(s) : s[i] = new
<1> DEFINE k == Find(connected_clients, n)
           new == [name |-> n, endpoint |-> e]
           s == Stored(n, e)
<1>1. /\ k \in 0 .. Len(connected_clients)
      /\ k # 0 => connected_clients[k].name = n
    BY FindSpec
<1>2. new \in ConnectedClient
    BY DEF ConnectedClient
<1>3. CASE k = 0
    <2>1. s = Append(connected_clients, new)
        BY <1>3 DEF Stored
    <2> HIDE DEF new, s
    <2> QED
        BY <1>2, <2>1 DEF new, s
<1>4. CASE k # 0
    <2>1. k \in 1 .. Len(connected_clients) /\ connected_clients[k] \in ConnectedClient
        BY <1>1, <1>4
    <2>2. [connected_clients[k] EXCEPT !.endpoint = e] = new
        BY <1>1, <1>4, <2>1 DEF ConnectedClient
    <2>3. s = [connected_clients EXCEPT ![k] = new]
        BY <1>4, <2>2 DEF Stored
    <2>4. new.name = n
        OBVIOUS
    <2> HIDE DEF k, new, s
    <2> QED
        BY <1>1, <1>2, <1>4, <2>1, <2>3, <2>4 DEF new, s
<1> QED
    BY <1>3, <1>4

-----------------------------------------------------------------------------
(* Types. *)

\* The initial values have their types.
LEMMA InitTypeOK == Init => TypeOK
BY DEF Init, TypeOK

\* An answer of the right type leaves the network well typed, and an introduction
\* the history too.
LEMMA AnswerTypes ==
    ASSUME NEW e \in Endpoint
    PROVE  /\ \A why \in {"Unauthorized", "Not found client", "Connection rejected by user",
                          "Internal server error"} : Error(e, why) \in Datagram
           /\ \A tok \in Token : SuccessBinding(e, tok) \in Datagram
           /\ \A names \in Seq(Name) : SuccessConnectedList(e, names) \in Datagram
           /\ \A n \in Name : IncomingConnectionRequest(e, n) \in Datagram
           /\ \A n \in Name, a \in Endpoint \cup {Garbage} :
                  /\ ConnectToHost(e, n, a) \in Introduction
                  /\ SuccessConnectToClient(e, n, a) \in Introduction
BY DEF Error, SuccessBinding, SuccessConnectedList, IncomingConnectionRequest,
       ConnectToHost, SuccessConnectToClient, Datagram, Introduction

\* Storing a client keeps the types of the registry and its history.
LEMMA StoreTypes ==
    ASSUME TypeOK, NEW n \in Name, NEW e \in Endpoint, Store(n, e)
    PROVE  /\ connected_clients' \in Seq(ConnectedClient)
           /\ heard' \subseteq Name \X Endpoint
           /\ latest' \in [Name -> Endpoint \cup {Garbage}]
           /\ seen' \subseteq Name
<1>1. Stored(n, e) \in Seq(ConnectedClient)
    BY StoredSpec DEF TypeOK
<1> QED
    BY <1>1 DEF TypeOK, Store

\* The endpoint of an element that Find reaches, and the elements' names.
LEMMA EntryTypes ==
    ASSUME NEW clients \in Seq(ConnectedClient)
    PROVE  /\ \A i \in 1 .. Len(clients) :
                  clients[i].name \in Name /\ clients[i].endpoint \in Endpoint
           /\ \A n : Find(clients, n) # 0 => Find(clients, n) \in 1 .. Len(clients)
           /\ [i \in DOMAIN clients |-> clients[i].name] \in Seq(Name)
<1>1. \A i \in 1 .. Len(clients) : clients[i] \in ConnectedClient
    OBVIOUS
<1>2. \A i \in 1 .. Len(clients) :
          clients[i].name \in Name /\ clients[i].endpoint \in Endpoint
    BY <1>1 DEF ConnectedClient
<1>3. [i \in DOMAIN clients |-> clients[i].name] \in Seq(Name)
    <2>1. DOMAIN clients = 1 .. Len(clients) /\ Len(clients) \in Nat
        OBVIOUS
    <2>2. [i \in 1 .. Len(clients) |-> clients[i].name] \in [1 .. Len(clients) -> Name]
        BY <1>2
    <2> QED
        BY <2>1, <2>2, IsASeq
<1> QED
    BY <1>2, <1>3, FindSpec

\* What is read from data.csv is a sequence of its rows, with their names trimmed.
LEMMA LoadedRows ==
    ASSUME csv \in Seq(ConnectedClient)
    PROVE  /\ loadUsers \in Seq(ConnectedClient)
           /\ \A i \in 1 .. Len(loadUsers) :
                 /\ i \in 1 .. Len(csv)
                 /\ loadUsers[i] = [name |-> Trim[csv[i].name], endpoint |-> csv[i].endpoint]
           /\ CsvHasHeader /\ Unparsable = {} => Len(loadUsers) = Len(csv)
<1> DEFINE I == {i \in 1 .. Len(csv) : csv[i].name \in Unparsable}
           bad == SelectInSeq(csv, LAMBDA r : r.name \in Unparsable)
           m == IF ~ CsvHasHeader THEN 0 ELSE IF bad = 0 THEN Len(csv) ELSE bad - 1
           row(i) == [name |-> Trim[csv[i].name], endpoint |-> csv[i].endpoint]
<1>1. bad = IF I # {} THEN Min(I) ELSE 0
    BY DEF SelectInSeq
<1>2. I \in SUBSET Nat
    OBVIOUS
<1>3. bad # 0 => bad \in 1 .. Len(csv)
    BY <1>1, <1>2, MinInSet
<1>4. Unparsable = {} => bad = 0
    BY <1>1
<1>5. loadUsers = [i \in 1 .. m |-> row(i)]
    BY DEF loadUsers
<1> HIDE DEF bad, I
<1>6. /\ m \in Nat /\ m =< Len(csv)
      /\ CsvHasHeader /\ Unparsable = {} => m = Len(csv)
    BY <1>3, <1>4
<1> HIDE DEF m
<1>7. ASSUME NEW i \in 1 .. m PROVE row(i) \in ConnectedClient /\ i \in 1 .. Len(csv)
    <2>1. i \in 1 .. Len(csv) /\ csv[i] \in ConnectedClient
        BY <1>6
    <2>2. csv[i].name \in Name /\ csv[i].endpoint \in Endpoint
        BY <2>1 DEF ConnectedClient
    <2> QED
        BY <2>1, <2>2, ConstantsOK DEF ConnectedClient
<1>8. \A i \in 1 .. m : loadUsers[i] = row(i)
    BY <1>5
<1> HIDE DEF row
<1>9. loadUsers \in Seq(ConnectedClient) /\ Len(loadUsers) = m
    BY <1>5, <1>6, <1>7
<1> QED
    BY <1>6, <1>7, <1>8, <1>9 DEF row

\* The same, field by field.
LEMMA LoadedFields ==
    ASSUME csv \in Seq(ConnectedClient)
    PROVE  \A i \in 1 .. Len(loadUsers) :
              /\ i \in 1 .. Len(csv)
              /\ loadUsers[i].name = Trim[csv[i].name]
              /\ loadUsers[i].endpoint = csv[i].endpoint
<1>1. \A i \in 1 .. Len(loadUsers) :
          /\ i \in 1 .. Len(csv)
          /\ loadUsers[i] = [name |-> Trim[csv[i].name], endpoint |-> csv[i].endpoint]
    BY LoadedRows
<1> SUFFICES ASSUME NEW i \in 1 .. Len(loadUsers)
             PROVE  /\ i \in 1 .. Len(csv)
                    /\ loadUsers[i].name = Trim[csv[i].name]
                    /\ loadUsers[i].endpoint = csv[i].endpoint
    OBVIOUS
<1>2. PICK n, e : n = Trim[csv[i].name] /\ e = csv[i].endpoint
    OBVIOUS
<1>3. loadUsers[i] = [name |-> n, endpoint |-> e] /\ i \in 1 .. Len(csv)
    BY <1>1, <1>2
<1> QED
    BY <1>2, <1>3

\* Every step keeps the types.
LEMMA NextTypeOK == TypeOK /\ ReferencesStay /\ [Next]_vars => TypeOK'
<1> SUFFICES ASSUME TypeOK, ReferencesStay, [Next]_vars PROVE TypeOK'
    OBVIOUS
<1> DEFINE Why == {"Unauthorized", "Not found client", "Connection rejected by user",
                   "Internal server error"}
<1>1. ASSUME NEW d \in Datagram, Send(d) PROVE net' \subseteq Datagram
    BY <1>1 DEF Send, TypeOK
<1>2. ASSUME NEW d \in Introduction, Introduce(d)
      PROVE  net' \subseteq Datagram /\ told' \subseteq Introduction
    BY <1>2 DEF Introduce, Send, TypeOK, Datagram
<1>3. ASSUME NEW n, Find(connected_clients, n) # 0
      PROVE  connected_clients[Find(connected_clients, n)].endpoint \in Endpoint
    BY <1>3, EntryTypes DEF TypeOK
<1>4. ASSUME UNCHANGED <<connected_clients, csv, consents, now, restarts, tokens, history>>,
             NEW d \in Datagram, Send(d)
      PROVE  TypeOK'
    BY <1>1, <1>4 DEF TypeOK, history
<1>5. ASSUME NEW n \in Name, NEW e \in Endpoint, HandleBindingRequest(n, e) PROVE TypeOK'
    <2>1. /\ connected_clients' \in Seq(ConnectedClient)
          /\ heard' \subseteq Name \X Endpoint
          /\ latest' \in [Name -> Endpoint \cup {Garbage}]
          /\ seen' \subseteq Name
        BY <1>5, StoreTypes DEF HandleBindingRequest
    <2>2. makeToken(n) \in Token
        BY ConstantsOK DEF makeToken, Token, TypeOK
    <2>3. saveUser(n, e) => csv' \in Seq(ConnectedClient)
        <3>1. [name |-> n, endpoint |-> e] \in ConnectedClient
            BY DEF ConnectedClient
        <3> QED
            BY <3>1 DEF saveUser, TypeOK
    <2>4. net' \subseteq Datagram
        BY <1>1, <1>5, <2>2, AnswerTypes DEF HandleBindingRequest
    <2> QED
        BY <1>5, <2>1, <2>2, <2>3, <2>4 DEF HandleBindingRequest, TypeOK
<1>6. ASSUME NEW tok, NEW e \in Endpoint, HandleGetConnectionList(tok, e) PROVE TypeOK'
    <2>1. CASE Unauthorized(tok, e)
        BY <1>4, <2>1, AnswerTypes DEF Unauthorized
    <2>2. [i \in DOMAIN connected_clients |-> connected_clients[i].name] \in Seq(Name)
        BY EntryTypes DEF TypeOK
    <2> QED
        BY <1>4, <1>6, <2>1, <2>2, AnswerTypes DEF HandleGetConnectionList
<1>7. ASSUME NEW tok \in tokens \cup {NoToken}, NEW target, NEW e \in Endpoint,
             HandleConnectToClient(tok, target, e)
      PROVE  TypeOK'
    <2>1. CASE Unauthorized(tok, e) \/ NotFound(tok, target, e)
        BY <1>4, <2>1, AnswerTypes DEF Unauthorized, NotFound
    <2>2. verifyJwt(tok) => tok.peerId \in Name
        BY DEF verifyJwt, TypeOK, Token
    <2> QED
        BY <1>3, <1>4, <1>7, <2>1, <2>2, AnswerTypes DEF HandleConnectToClient
<1>8. ASSUME NEW tok \in tokens \cup {NoToken}, NEW target \in Name, NEW e \in Endpoint,
             NEW isAccepted \in BOOLEAN, HandleConnectConsent(tok, target, isAccepted, e)
      PROVE  TypeOK'
    <2> DEFINE t == Find(connected_clients, target)
    <2>1. CASE Unauthorized(tok, e) \/ NotFound(tok, target, e)
        BY <1>4, <2>1, AnswerTypes DEF Unauthorized, NotFound
    <2>2. CASE RejectConsent(tok, target, e)
        BY <1>3, <1>4, <2>2, AnswerTypes DEF RejectConsent
    <2>3. CASE AcceptConsent(tok, target, e)
        <3>1. tok.peerId \in Name /\ t # 0 /\ Store(tok.peerId, e)
            BY <2>3 DEF AcceptConsent, verifyJwt, TypeOK, Token
        <3>2. /\ connected_clients' \in Seq(ConnectedClient)
              /\ heard' \subseteq Name \X Endpoint
              /\ latest' \in [Name -> Endpoint \cup {Garbage}]
              /\ seen' \subseteq Name
            BY <3>1, StoreTypes
        <3>3. t \in 1 .. Len(connected_clients)
            BY <3>1, EntryTypes DEF TypeOK
        <3>4. t \in 1 .. Len(connected_clients')
            <4>1. Len(Stored(tok.peerId, e)) >= Len(connected_clients)
                BY <3>1, StoredSpec DEF TypeOK
            <4> QED
                BY <3>1, <3>2, <3>3, <4>1 DEF Store, TypeOK
        <3>5. connected_clients'[t].endpoint \in Endpoint
            BY <3>2, <3>4, EntryTypes
        <3>6. ConnectToHost(connected_clients'[t].endpoint, tok.peerId, e) \in Introduction
            BY <3>1, <3>5, AnswerTypes
        <3>7. [to |-> e, target |-> target, ref |-> t, size |-> Len(connected_clients)] \in Consent
            BY <3>3 DEF Consent, TypeOK
        <3>8. net' \subseteq Datagram /\ told' \subseteq Introduction
            BY <1>2, <2>3, <3>6 DEF AcceptConsent, sendConnectMessage, TypeOK
        <3> QED
            BY <2>3, <3>2, <3>7, <3>8 DEF AcceptConsent, TypeOK
    <2>4. CASE AcceptFromStranger(tok, target, e)
        <3>1. connected_clients[t].endpoint \in Endpoint
            BY <1>3, <2>4 DEF AcceptFromStranger
        <3> QED
            BY <1>2, <2>4, <3>1, AnswerTypes DEF AcceptFromStranger, TypeOK
    <2> QED
        BY <1>8, <2>1, <2>2, <2>3, <2>4 DEF HandleConnectConsent
<1>9. ASSUME NEW w \in consents, ResumeConsent(w) \/ ResumeDangling(w) PROVE TypeOK'
    <2>1. /\ w.to \in Endpoint /\ w.target \in Name
          /\ connected_clients[w.ref].endpoint \in Endpoint
        BY EntryTypes DEF TypeOK, Consent, ReferencesStay
    <2> QED
        BY <1>2, <1>9, <2>1, AnswerTypes DEF ResumeConsent, ResumeDangling, TypeOK
<1>10. CASE Restart
    BY <1>10, LoadedRows DEF Restart, TypeOK, history
<1>11. CASE Tick \/ (\E d \in net : Leave(d)) \/ UNCHANGED vars
    BY <1>11 DEF Tick, Leave, vars, TypeOK, history
<1>12. \A caller \in tokens : caller.peerId \in Name
    BY DEF TypeOK, Token
<1> QED
    BY <1>5, <1>6, <1>7, <1>8, <1>9, <1>10, <1>11, <1>12 DEF Next, Request, Resume

-----------------------------------------------------------------------------
(* Steps. *)

\* Steps that only answer, or let time or a datagram pass.
Quiet ==
    UNCHANGED <<connected_clients, csv, consents, restarts, tokens, heard, latest, seen, told>>

\* The steps that do more, each with what its handler found out.
Accepting(tok, target, e) ==
    /\ Find(connected_clients, target) # 0
    /\ AcceptConsent(tok, target, e) \/ AcceptFromStranger(tok, target, e)

\* Every step is one of these.
LEMMA StepCases ==
    ASSUME TypeOK, [Next]_vars
    PROVE  \/ Quiet
           \/ \E n \in Name, e \in Endpoint : HandleBindingRequest(n, e)
           \/ \E tok \in tokens, target \in Name, e \in Endpoint : Accepting(tok, target, e)
           \/ \E w \in consents : ResumeConsent(w) \/ ResumeDangling(w)
           \/ Restart
<1>1. ASSUME NEW e \in Endpoint, NEW tok \in tokens \cup {NoToken},
             HandleGetConnectionList(tok, e)
      PROVE  Quiet
    BY <1>1 DEF HandleGetConnectionList, Unauthorized, Quiet, history
<1>2. ASSUME NEW e \in Endpoint, NEW tok \in tokens \cup {NoToken}, NEW target \in Name,
             HandleConnectToClient(tok, target, e)
      PROVE  Quiet
    BY <1>2 DEF HandleConnectToClient, Unauthorized, NotFound, Quiet, history
<1>3. ASSUME NEW e \in Endpoint, NEW tok \in tokens \cup {NoToken}, NEW target \in Name,
             NEW isAccepted \in BOOLEAN, HandleConnectConsent(tok, target, isAccepted, e)
      PROVE  Quiet \/ (tok \in tokens /\ Accepting(tok, target, e))
    BY <1>3 DEF HandleConnectConsent, Unauthorized, NotFound, RejectConsent, Accepting,
                AcceptConsent, AcceptFromStranger, verifyJwt, Quiet, history
<1>4. \A caller \in tokens : caller.peerId \in Name
    BY DEF TypeOK, Token
<1>5. CASE Tick \/ (\E d \in net : Leave(d)) \/ UNCHANGED vars
    BY <1>5 DEF Tick, Leave, vars, Quiet, history
<1> QED
    BY <1>1, <1>2, <1>3, <1>4, <1>5 DEF Next, Request, Resume

-----------------------------------------------------------------------------
(* Suspended coroutines. *)

\* At the start no coroutine is suspended.
LEMMA InitReferences == Init => ReferencesStay
BY DEF Init, ReferencesStay

\* Storing a client moves no element.
LEMMA ReferencesKept ==
    ASSUME TypeOK, ReferencesStay, NEW n \in Name, NEW e \in Endpoint, Store(n, e)
    PROVE  /\ \A i \in 1 .. Len(connected_clients) :
                  i \in 1 .. Len(connected_clients') /\ connected_clients'[i].name = connected_clients[i].name
           /\ \A w \in consents :
                  /\ w.ref \in 1 .. Len(connected_clients')
                  /\ connected_clients'[w.ref].name = w.target
<1>1. connected_clients' = Stored(n, e)
    BY DEF Store
<1>2. /\ Stored(n, e) \in Seq(ConnectedClient)
      /\ Len(Stored(n, e)) >= Len(connected_clients)
      /\ \A i \in 1 .. Len(connected_clients) :
            Stored(n, e)[i].name = connected_clients[i].name
    BY StoredSpec DEF TypeOK
<1>3. Len(connected_clients) \in Nat /\ Len(connected_clients') \in Nat
    BY <1>1, <1>2 DEF TypeOK
<1> QED
    BY <1>1, <1>2, <1>3 DEF ReferencesStay

\* Every step keeps the references.
LEMMA NextReferences == TypeOK /\ ReferencesStay /\ [Next]_vars => ReferencesStay'
<1> SUFFICES ASSUME TypeOK, ReferencesStay, [Next]_vars PROVE ReferencesStay'
    OBVIOUS
<1>1. CASE Quiet
    BY <1>1 DEF Quiet, ReferencesStay
<1>2. ASSUME NEW n \in Name, NEW e \in Endpoint, HandleBindingRequest(n, e)
      PROVE  ReferencesStay'
    BY <1>2, ReferencesKept DEF HandleBindingRequest, ReferencesStay
<1>3. ASSUME NEW tok \in tokens, NEW target \in Name, NEW e \in Endpoint,
             Accepting(tok, target, e)
      PROVE  ReferencesStay'
    <2> DEFINE t == Find(connected_clients, target)
    <2>1. CASE AcceptFromStranger(tok, target, e)
        BY <2>1 DEF AcceptFromStranger, ReferencesStay
    <2>2. CASE AcceptConsent(tok, target, e)
        <3>1. tok.peerId \in Name /\ Store(tok.peerId, e)
            BY <2>2 DEF AcceptConsent, TypeOK, Token
        <3>2. t \in 1 .. Len(connected_clients) /\ connected_clients[t].name = target
            BY <1>3, EntryTypes, FindSpec DEF Accepting, TypeOK
        <3>3. t \in 1 .. Len(connected_clients') /\ connected_clients'[t].name = target
            BY <3>1, <3>2, ReferencesKept
        <3>4. \A w \in consents' : w \in consents \/ (w.ref = t /\ w.target = target)
            BY <2>2 DEF AcceptConsent
        <3> HIDE DEF t
        <3> QED
            BY <3>1, <3>3, <3>4, ReferencesKept DEF ReferencesStay
    <2> QED
        BY <1>3, <2>1, <2>2 DEF Accepting
<1>4. ASSUME NEW w \in consents, ResumeConsent(w) \/ ResumeDangling(w) PROVE ReferencesStay'
    BY <1>4 DEF ResumeConsent, ResumeDangling, ReferencesStay
<1>5. CASE Restart
    BY <1>5 DEF Restart, ReferencesStay
<1> QED
    BY <1>1, <1>2, <1>3, <1>4, <1>5, StepCases

\* Every variable keeps its type.
THEOREM TypeCorrect == Spec => []TypeOK
<1>1. TypeOK /\ ReferencesStay /\ [Next]_vars => (TypeOK /\ ReferencesStay)'
    BY NextTypeOK, NextReferences
<1> QED
    BY InitTypeOK, InitReferences, <1>1, PTL DEF Spec

\* The element a suspended coroutine refers to stays that of the accepted client.
THEOREM ReferencesStable == Spec => []ReferencesStay
<1>1. TypeOK /\ ReferencesStay /\ [Next]_vars => (TypeOK /\ ReferencesStay)'
    BY NextTypeOK, NextReferences
<1> QED
    BY InitTypeOK, InitReferences, <1>1, PTL DEF Spec

-----------------------------------------------------------------------------
(* Addresses. *)

\* The registry holds what was stored for its names, as far as data.csv tells them
\* apart; data.csv holds what was stored; introductions hand out the same, but for
\* what a dangling reference yields.
EntriesHeard ==
    \A i \in 1 .. Len(connected_clients) :
        HeardAs(connected_clients[i].name, connected_clients[i].endpoint)

RowsHeard == \A i \in 1 .. Len(csv) : <<csv[i].name, csv[i].endpoint>> \in heard

Genuine == EntriesHeard /\ RowsHeard /\ AddressGenuineUnlessDangling

\* At the start nothing is stored and nothing told.
LEMMA InitGenuine == Init => Genuine
BY DEF Init, Genuine, EntriesHeard, RowsHeard, AddressGenuineUnlessDangling

\* What was heard once was heard for good.
LEMMA HeardKept ==
    ASSUME heard \subseteq heard', NEW n, NEW e, HeardAs(n, e)
    PROVE  HeardAs(n, e)'
BY DEF HeardAs

\* One more introduction, with an address heard for its user or unusable.
LEMMA ToldGenuine ==
    ASSUME AddressGenuineUnlessDangling, heard \subseteq heard', NEW d,
           told' = told \/ told' = told \cup {d},
           d.address # Garbage => HeardAs(d.clientName, d.address)'
    PROVE  AddressGenuineUnlessDangling'
<1> SUFFICES ASSUME NEW x \in told', x.address # Garbage
             PROVE  HeardAs(x.clientName, x.address)'
    BY DEF AddressGenuineUnlessDangling
<1>1. CASE x \in told
    <2>1. HeardAs(x.clientName, x.address)
        BY <1>1 DEF AddressGenuineUnlessDangling
    <2> QED
        BY <2>1, HeardKept
<1>2. CASE x = d
    BY <1>2
<1> QED
    BY <1>1, <1>2

\* Storing a client keeps the registry genuine.
LEMMA GenuineStored ==
    ASSUME TypeOK, Genuine, NEW n \in Name, NEW e \in Endpoint, Store(n, e)
    PROVE  heard \subseteq heard' /\ <<n, e>> \in heard' /\ EntriesHeard'
<1> DEFINE s == Stored(n, e)
<1>1. connected_clients' = s /\ heard' = heard \cup {<<n, e>>}
    BY DEF Store
<1>2. \A i \in 1 .. Len(s) :
          \/ s[i] = [name |-> n, endpoint |-> e]
          \/ i \in 1 .. Len(connected_clients) /\ s[i] = connected_clients[i]
    BY StoredSpec DEF TypeOK
<1> HIDE DEF s
<1>3. ASSUME NEW i \in 1 .. Len(s)
      PROVE  \E m \in Name : <<m, s[i].endpoint>> \in heard' /\ s[i].name \in {m, Trim[m]}
    <2>1. CASE s[i] = [name |-> n, endpoint |-> e]
        BY <1>1, <2>1
    <2>2. CASE i \in 1 .. Len(connected_clients) /\ s[i] = connected_clients[i]
        BY <1>1, <2>2 DEF Genuine, EntriesHeard, HeardAs
    <2> QED
        BY <1>2, <2>1, <2>2
<1> QED
    BY <1>1, <1>3 DEF EntriesHeard, HeardAs

\* Every step hands out genuine addresses only.
LEMMA NextGenuine == TypeOK /\ ReferencesStay /\ Genuine /\ [Next]_vars => Genuine'
<1> SUFFICES ASSUME TypeOK, ReferencesStay, Genuine, [Next]_vars PROVE Genuine'
    OBVIOUS
<1>0. ASSUME UNCHANGED <<connected_clients, csv, heard>>
      PROVE  EntriesHeard' /\ RowsHeard' /\ heard \subseteq heard'
    BY <1>0 DEF Genuine, EntriesHeard, RowsHeard, HeardAs
<1>1. CASE Quiet
    BY <1>0, <1>1 DEF Quiet, Genuine, AddressGenuineUnlessDangling, HeardAs
<1>2. ASSUME NEW n \in Name, NEW e \in Endpoint, HandleBindingRequest(n, e)
      PROVE  Genuine'
    <2> DEFINE row == [name |-> n, endpoint |-> e]
    <2>1. heard \subseteq heard' /\ <<n, e>> \in heard' /\ UNCHANGED told /\ EntriesHeard'
        BY <1>2, GenuineStored DEF HandleBindingRequest
    <2>2. csv' = csv \/ csv' = Append(csv, row)
        BY <1>2 DEF HandleBindingRequest, saveUser
    <2>3. row \in ConnectedClient /\ <<row.name, row.endpoint>> = <<n, e>>
        BY DEF ConnectedClient
    <2> HIDE DEF row
    <2>4. \A i \in 1 .. Len(csv') : csv'[i] = row \/ (i \in 1 .. Len(csv) /\ csv'[i] = csv[i])
        BY <2>2, <2>3 DEF TypeOK
    <2>5. RowsHeard'
        BY <2>1, <2>3, <2>4 DEF Genuine, RowsHeard
    <2>6. AddressGenuineUnlessDangling'
        BY <2>1, ToldGenuine DEF Genuine, AddressGenuineUnlessDangling, HeardAs
    <2> QED
        BY <2>1, <2>5, <2>6 DEF Genuine
<1>3. ASSUME NEW tok \in tokens, NEW target \in Name, NEW e \in Endpoint,
             Accepting(tok, target, e)
      PROVE  Genuine'
    <2> DEFINE t == Find(connected_clients, target)
    <2>1. CASE AcceptFromStranger(tok, target, e)
        <3>1. t \in 1 .. Len(connected_clients) /\ connected_clients[t].name = target
            BY <1>3, EntryTypes, FindSpec DEF Accepting, TypeOK
        <3>2. PICK a : a = connected_clients[t].endpoint
            OBVIOUS
        <3>3. HeardAs(target, a)
            BY <3>1, <3>2 DEF Genuine, EntriesHeard
        <3>4. /\ told' = told \cup {SuccessConnectToClient(e, target, a)}
              /\ UNCHANGED <<connected_clients, csv, heard>>
            BY <2>1, <3>2 DEF AcceptFromStranger, Introduce
        <3>5. HeardAs(target, a)'
            BY <3>3, <3>4, HeardKept
        <3>6. AddressGenuineUnlessDangling'
            BY <3>4, <3>5, ToldGenuine DEF Genuine, SuccessConnectToClient
        <3> QED
            BY <1>0, <3>4, <3>6 DEF Genuine
    <2>2. CASE AcceptConsent(tok, target, e)
        <3>1. PICK n \in Name : n = tok.peerId
            BY DEF TypeOK, Token
        <3>2. Store(n, e) /\ UNCHANGED csv
            BY <2>2, <3>1 DEF AcceptConsent
        <3>3. heard \subseteq heard' /\ <<n, e>> \in heard' /\ EntriesHeard'
            BY <3>1, <3>2, GenuineStored
        <3>4. HeardAs(n, e)'
            BY <3>3 DEF HeardAs
        <3>5. PICK d : d = ConnectToHost(connected_clients'[t].endpoint, n, e)
            OBVIOUS
        <3>6. told' = told \/ told' = told \cup {d}
            BY <2>2, <3>1, <3>5 DEF AcceptConsent, sendConnectMessage, Introduce
        <3>7. d.clientName = n /\ d.address = e
            BY <3>5 DEF ConnectToHost
        <3>8. AddressGenuineUnlessDangling'
            BY <3>3, <3>4, <3>6, <3>7, ToldGenuine DEF Genuine
        <3> QED
            BY <3>2, <3>3, <3>8 DEF Genuine, RowsHeard
    <2> QED
        BY <1>3, <2>1, <2>2 DEF Accepting
<1>4. ASSUME NEW w \in consents, ResumeConsent(w) PROVE Genuine'
    <2>1. PICK a : a = connected_clients[w.ref].endpoint
        OBVIOUS
    <2>2. HeardAs(w.target, a)
        BY <2>1 DEF Genuine, EntriesHeard, ReferencesStay
    <2>3. /\ told' = told \cup {SuccessConnectToClient(w.to, w.target, a)}
          /\ UNCHANGED <<connected_clients, csv, heard>>
        BY <1>4, <2>1 DEF ResumeConsent, Introduce
    <2>4. HeardAs(w.target, a)'
        BY <2>2, <2>3, HeardKept
    <2>5. AddressGenuineUnlessDangling'
        BY <2>3, <2>4, ToldGenuine DEF Genuine, SuccessConnectToClient
    <2> QED
        BY <1>0, <2>3, <2>5 DEF Genuine
<1>5. ASSUME NEW w \in consents, ResumeDangling(w) PROVE Genuine'
    <2>1. PICK d : d = SuccessConnectToClient(w.to, w.target, Garbage)
        OBVIOUS
    <2>2. told' = told \cup {d} /\ UNCHANGED <<connected_clients, csv, heard>>
        BY <1>5, <2>1 DEF ResumeDangling, Introduce
    <2>3. d.address = Garbage
        BY <2>1 DEF SuccessConnectToClient
    <2>4. AddressGenuineUnlessDangling'
        BY <2>2, <2>3, ToldGenuine DEF Genuine
    <2> QED
        BY <1>0, <2>2, <2>4 DEF Genuine
<1>6. CASE Restart
    <2>1. connected_clients' = loadUsers /\ UNCHANGED <<csv, heard, told>>
        BY <1>6 DEF Restart
    <2>2. \A i \in 1 .. Len(loadUsers) :
              /\ i \in 1 .. Len(csv)
              /\ loadUsers[i].name = Trim[csv[i].name] /\ loadUsers[i].endpoint = csv[i].endpoint
        BY LoadedFields DEF TypeOK
    <2>3. \A i \in 1 .. Len(csv) : csv[i].name \in Name
        BY EntryTypes DEF TypeOK
    <2>4. EntriesHeard'
        BY <2>1, <2>2, <2>3 DEF EntriesHeard, HeardAs, Genuine, RowsHeard
    <2>5. AddressGenuineUnlessDangling' /\ RowsHeard'
        BY <2>1 DEF Genuine, RowsHeard, AddressGenuineUnlessDangling, HeardAs
    <2> QED
        BY <2>4, <2>5 DEF Genuine
<1> QED
    BY <1>1, <1>2, <1>3, <1>4, <1>5, <1>6, StepCases

\* Every address in an introduction was stored for the user it is said to be of, or for
\* one whose name differs in blanks at the ends only, unless it was read through a
\* dangling reference.
THEOREM AddressesGenuine == Spec => []AddressGenuineUnlessDangling
<1> DEFINE I == TypeOK /\ ReferencesStay /\ Genuine
<1>1. Init => I
    BY InitTypeOK, InitReferences, InitGenuine
<1>2. I /\ [Next]_vars => I'
    BY NextTypeOK, NextReferences, NextGenuine
<1>3. I => AddressGenuineUnlessDangling
    BY DEF Genuine
<1> QED
    BY <1>1, <1>2, <1>3, PTL DEF Spec

-----------------------------------------------------------------------------
(* Find reaches the first element of a name, and goes on doing so. *)

\* The minimum of a set of numbers is below all of them.
LEMMA MinBelow ==
    ASSUME NEW S \in SUBSET Nat, NEW y \in S
    PROVE  Min(S) =< y
<1>1. PICK x \in S : \A z \in S : ~ (<<z, x>> \in OpToRel(<, Nat))
    BY WFMin, NatLessThanWellFounded
<1>2. ASSUME NEW z \in S PROVE x =< z
    <2>1. <<z, x>> \notin {ss \in Nat \X Nat : ss[1] < ss[2]}
        BY <1>1 DEF OpToRel
    <2> QED
        BY <2>1
<1>3. \E m \in S : \A z \in S : m =< z
    BY <1>2
<1> QED
    BY <1>3 DEF Min

\* No element before the one Find returns has the name.
LEMMA FindFirst ==
    ASSUME NEW clients \in Seq(ConnectedClient), NEW n,
           NEW i \in 1 .. Len(clients), clients[i].name = n
    PROVE  Find(clients, n) # 0 /\ Find(clients, n) =< i
<1> DEFINE I == {j \in 1 .. Len(clients) : clients[j].name = n}
<1>1. Find(clients, n) = IF I # {} THEN Min(I) ELSE 0
    BY DEF Find, SelectInSeq
<1>2. I \in SUBSET Nat /\ i \in I
    OBVIOUS
<1>3. Min(I) =< i
    BY <1>2, MinBelow
<1>4. Find(clients, n) # 0
    BY FindSpec
<1> QED
    BY <1>1, <1>2, <1>3, <1>4

\* A longer sequence with the same names in front does not change what is found.
LEMMA FindKept ==
    ASSUME NEW c \in Seq(ConnectedClient), NEW s \in Seq(ConnectedClient), NEW n,
           Len(s) >= Len(c), \A i \in 1 .. Len(c) : s[i].name = c[i].name,
           Find(c, n) # 0
    PROVE  Find(s, n) = Find(c, n)
<1> DEFINE f == Find(c, n)
           g == Find(s, n)
<1>1. f \in 1 .. Len(c) /\ c[f].name = n /\ f \in 1 .. Len(s)
    BY FindSpec
<1>2. g # 0 /\ g =< f
    BY <1>1, FindFirst
<1>3. g \in 1 .. Len(s) /\ s[g].name = n
    BY <1>2, FindSpec
<1>4. g \in 1 .. Len(c) /\ c[g].name = n
    BY <1>1, <1>2, <1>3
<1>5. f =< g
    BY <1>4, FindFirst
<1> QED
    BY <1>1, <1>2, <1>3, <1>5

\* An entry is an endpoint, or Garbage for a name that is not registered.
LEMMA EntryType ==
    ASSUME TypeOK, NEW n
    PROVE  /\ Entry(n) \in Endpoint \cup {Garbage}
           /\ Find(connected_clients, n) = 0 <=> Entry(n) = Garbage
           /\ Find(connected_clients, n) # 0 =>
                 Entry(n) = connected_clients[Find(connected_clients, n)].endpoint
BY EntryTypes, ConstantsOK DEF Entry, TypeOK

\* Storing a client changes its entry and no other.
LEMMA EntryStored ==
    ASSUME TypeOK, NEW n \in Name, NEW e \in Endpoint, Store(n, e), NEW m \in Name
    PROVE  Entry(m)' = IF m = n THEN e ELSE Entry(m)
<1> DEFINE cc == connected_clients
           s == Stored(n, e)
           k == Find(cc, n)
           new == [name |-> n, endpoint |-> e]
<1>1. connected_clients' = s
    BY DEF Store
<1>2. /\ s \in Seq(ConnectedClient) /\ cc \in Seq(ConnectedClient)
      /\ Len(s) >= Len(cc)
      /\ \A i \in 1 .. Len(cc) : s[i].name = cc[i].name
    BY StoredSpec DEF TypeOK
<1>3. Entry(m)' = IF Find(s, m) = 0 THEN Garbage ELSE s[Find(s, m)].endpoint
    BY <1>1 DEF Entry
<1>4. /\ k \in 0 .. Len(cc)
      /\ k # 0 => cc[k].name = n
      /\ k = 0 => \A i \in 1 .. Len(cc) : cc[i].name # n
    BY <1>2, FindSpec
<1>5. new \in ConnectedClient /\ new.name = n /\ new.endpoint = e
    BY DEF ConnectedClient
<1>6. CASE k = 0
    <2>1. s = Append(cc, new)
        BY <1>6 DEF Stored
    <2> HIDE DEF new
    <2>2. /\ Len(s) = Len(cc) + 1 /\ s[Len(cc) + 1] = new
          /\ \A i \in 1 .. Len(cc) : s[i] = cc[i]
        BY <1>2, <1>5, <2>1
    <2>3. CASE m = n
        <3>1. Find(s, m) # 0
            BY <1>2, <1>5, <2>2, <2>3, FindFirst
        <3>2. Find(s, m) \in 1 .. Len(s) /\ s[Find(s, m)].name = n
            BY <1>2, <2>3, <3>1, FindSpec
        <3>3. Find(s, m) = Len(cc) + 1
            BY <1>2, <1>4, <1>6, <2>2, <3>2
        <3> QED
            BY <1>3, <1>5, <2>2, <2>3, <3>1, <3>3
    <2>4. CASE m # n /\ Find(cc, m) # 0
        <3>1. Find(s, m) = Find(cc, m) /\ Find(cc, m) \in 1 .. Len(cc)
            BY <1>2, <2>4, FindKept, FindSpec
        <3> QED
            BY <1>3, <2>2, <2>4, <3>1 DEF Entry
    <2>5. CASE m # n /\ Find(cc, m) = 0
        <3>1. \A i \in 1 .. Len(cc) : cc[i].name # m
            BY <1>2, <2>5, FindSpec
        <3>2. \A i \in 1 .. Len(s) : s[i].name # m
            BY <1>2, <1>5, <2>2, <2>5, <3>1
        <3>3. Find(s, m) = 0
            BY <1>2, <3>2, FindSpec, EntryTypes
        <3> QED
            BY <1>3, <2>5, <3>3 DEF Entry
    <2> QED
        BY <2>3, <2>4, <2>5
<1>7. CASE k # 0
    <2>1. cc[k] \in ConnectedClient /\ k \in 1 .. Len(cc)
        BY <1>2, <1>4, <1>7
    <2>2. [cc[k] EXCEPT !.endpoint = e] = new
        BY <1>4, <1>7, <2>1 DEF ConnectedClient
    <2>3. s = [cc EXCEPT ![k] = new]
        BY <1>7, <2>2 DEF Stored
    <2> HIDE DEF new
    <2>4. /\ Len(s) = Len(cc) /\ s[k] = new
          /\ \A i \in 1 .. Len(cc) : i # k => s[i] = cc[i]
        BY <1>2, <1>5, <2>1, <2>3
    <2>5. CASE Find(cc, m) # 0
        <3>1. /\ Find(s, m) = Find(cc, m) /\ Find(cc, m) \in 1 .. Len(cc)
              /\ cc[Find(cc, m)].name = m
            BY <1>2, <2>5, FindKept, FindSpec
        <3>2. m = n => Find(cc, m) = k
            OBVIOUS
        <3>3. m # n => Find(cc, m) # k
            BY <1>4, <1>7, <3>1
        <3> QED
            BY <1>3, <1>5, <2>4, <2>5, <3>1, <3>2, <3>3 DEF Entry
    <2>6. CASE Find(cc, m) = 0
        <3>1. m # n
            BY <1>7, <2>6
        <3>2. \A i \in 1 .. Len(s) : s[i].name # m
            BY <1>2, <2>4, <2>6, FindSpec
        <3>3. Find(s, m) = 0
            BY <1>2, <3>2, FindSpec, EntryTypes
        <3> QED
            BY <1>3, <2>6, <3>1, <3>3 DEF Entry
    <2> QED
        BY <2>5, <2>6
<1> QED
    BY <1>6, <1>7

-----------------------------------------------------------------------------
(* Freshness. *)

\* The entry of a name stored since the last restart is the last endpoint stored.
FreshEntries == \A n \in seen : Entry(n) = latest[n] /\ Entry(n) # Garbage

\* At the start no name has been stored.
LEMMA InitFresh == Init => FreshEntries
BY DEF Init, FreshEntries

\* Storing a client keeps the entries fresh.
LEMMA FreshStored ==
    ASSUME TypeOK, FreshEntries, NEW n \in Name, NEW e \in Endpoint, Store(n, e)
    PROVE  FreshEntries'
<1>1. seen' = seen \cup {n} /\ latest' = [latest EXCEPT ![n] = e]
    BY DEF Store
<1>2. \A m \in seen' : m \in Name
    BY <1>1 DEF TypeOK
<1>3. ASSUME NEW m \in seen' PROVE Entry(m)' = latest'[m] /\ Entry(m)' # Garbage
    <2>1. m \in Name /\ (m = n \/ m \in seen)
        BY <1>1, <1>2, <1>3
    <2>2. Entry(m)' = IF m = n THEN e ELSE Entry(m)
        BY <2>1, EntryStored
    <2>3. latest'[m] = IF m = n THEN e ELSE latest[m]
        BY <1>1, <2>1 DEF TypeOK
    <2>4. e # Garbage
        BY ConstantsOK
    <2> QED
        BY <2>1, <2>2, <2>3, <2>4 DEF FreshEntries
<1> QED
    BY <1>3 DEF FreshEntries

\* Every step keeps the entries fresh.
LEMMA NextFresh == TypeOK /\ FreshEntries /\ [Next]_vars => FreshEntries'
<1> SUFFICES ASSUME TypeOK, FreshEntries, [Next]_vars PROVE FreshEntries'
    OBVIOUS
<1>0. ASSUME UNCHANGED <<connected_clients, latest, seen>> PROVE FreshEntries'
    BY <1>0 DEF FreshEntries, Entry
<1>1. CASE Quiet
    BY <1>0, <1>1 DEF Quiet
<1>2. ASSUME NEW n \in Name, NEW e \in Endpoint, HandleBindingRequest(n, e)
      PROVE  FreshEntries'
    BY <1>2, FreshStored DEF HandleBindingRequest
<1>3. ASSUME NEW tok \in tokens, NEW target \in Name, NEW e \in Endpoint,
             Accepting(tok, target, e)
      PROVE  FreshEntries'
    <2>1. CASE AcceptFromStranger(tok, target, e)
        BY <1>0, <2>1 DEF AcceptFromStranger
    <2>2. CASE AcceptConsent(tok, target, e)
        <3>1. tok.peerId \in Name
            BY DEF TypeOK, Token
        <3> QED
            BY <2>2, <3>1, FreshStored DEF AcceptConsent
    <2> QED
        BY <1>3, <2>1, <2>2 DEF Accepting
<1>4. ASSUME NEW w \in consents, ResumeConsent(w) \/ ResumeDangling(w) PROVE FreshEntries'
    BY <1>0, <1>4 DEF ResumeConsent, ResumeDangling
<1>5. CASE Restart
    BY <1>5 DEF Restart, FreshEntries
<1> QED
    BY <1>1, <1>2, <1>3, <1>4, <1>5, StepCases

\* From the first login or consent of a user after a start, Find reaches the endpoint
\* last stored for that user, also with several rows of the name.
THEOREM EntriesFresh == Spec => []FreshOnceSeen
<1> DEFINE I == TypeOK /\ ReferencesStay /\ FreshEntries
<1>1. Init => I
    BY InitTypeOK, InitReferences, InitFresh
<1>2. I /\ [Next]_vars => I'
    BY NextTypeOK, NextReferences, NextFresh
<1>3. I => FreshOnceSeen
    BY DEF FreshEntries, FreshOnceSeen, Entry
<1> QED
    BY <1>1, <1>2, <1>3, PTL DEF Spec

-----------------------------------------------------------------------------
(* What rests on data.csv. *)

\* Who holds a token has an element in the registry and a row to restore it from.
Remembered ==
    \A tok \in tokens :
        /\ \E i \in 1 .. Len(connected_clients) : connected_clients[i].name = tok.peerId
        /\ \E i \in 1 .. Len(csv) : csv[i].name = tok.peerId

\* Every suspended coroutine has had its ConnectToHost sent.
FirstHalfSent == \A w \in consents : CallerTold(w.target, w.to)

Both == FirstHalfSent /\ BothTold

\* At the start nobody holds a token and nothing has been told.
LEMMA InitRemembered == Init => Remembered /\ Both
BY DEF Init, Remembered, Both, FirstHalfSent, BothTold

\* A remembered token holder is found.
LEMMA RememberedFound ==
    ASSUME TypeOK, Remembered
    PROVE  TokenHolderRegistered
BY FindSpec DEF TypeOK, Remembered, TokenHolderRegistered

\* Storing a client forgets nobody.
LEMMA RememberedStored ==
    ASSUME TypeOK, ReferencesStay, NEW n \in Name, NEW e \in Endpoint, Store(n, e)
    PROVE  /\ \E i \in 1 .. Len(connected_clients') : connected_clients'[i].name = n
           /\ \A m : (\E i \in 1 .. Len(connected_clients) : connected_clients[i].name = m)
                   => \E i \in 1 .. Len(connected_clients') : connected_clients'[i].name = m
<1>1. \E i \in 1 .. Len(Stored(n, e)) : Stored(n, e)[i] = [name |-> n, endpoint |-> e]
    BY StoredSpec DEF TypeOK
<1>2. connected_clients' = Stored(n, e)
    BY DEF Store
<1> QED
    BY <1>1, <1>2, ReferencesKept

\* Every step remembers the token holders, if data.csv comes back whole.
LEMMA NextRemembered ==
    Persistent /\ TypeOK /\ ReferencesStay /\ Remembered /\ [Next]_vars => Remembered'
<1> SUFFICES ASSUME Persistent, TypeOK, ReferencesStay, Remembered, [Next]_vars
             PROVE  Remembered'
    OBVIOUS
<1>1. CASE Quiet
    BY <1>1 DEF Quiet, Remembered
<1>2. ASSUME NEW n \in Name, NEW e \in Endpoint, HandleBindingRequest(n, e)
      PROVE  Remembered'
    <2> DEFINE row == [name |-> n, endpoint |-> e]
    <2>1. /\ \E i \in 1 .. Len(connected_clients') : connected_clients'[i].name = n
          /\ \A m : (\E i \in 1 .. Len(connected_clients) : connected_clients[i].name = m)
                  => \E i \in 1 .. Len(connected_clients') : connected_clients'[i].name = m
        BY <1>2, RememberedStored DEF HandleBindingRequest
    <2>2. CASE UNCHANGED <<tokens, csv>>
        BY <2>1, <2>2 DEF Remembered
    <2>3. CASE tokens' = tokens \cup {makeToken(n)} /\ csv' = Append(csv, row)
        <3>1. row \in ConnectedClient /\ row.name = n /\ makeToken(n).peerId = n
            BY DEF ConnectedClient, makeToken
        <3> HIDE DEF row
        <3>2. /\ Len(csv') = Len(csv) + 1 /\ csv'[Len(csv) + 1] = row
              /\ \A i \in 1 .. Len(csv) : csv'[i] = csv[i] /\ i \in 1 .. Len(csv')
              /\ Len(csv) + 1 \in 1 .. Len(csv')
            BY <2>3, <3>1 DEF TypeOK
        <3>3. \A tok \in tokens' : tok \in tokens \/ tok.peerId = n
            BY <2>3, <3>1
        <3> QED
            BY <2>1, <3>1, <3>2, <3>3 DEF Remembered
    <2> QED
        BY <1>2, <2>2, <2>3 DEF HandleBindingRequest, saveUser, Persistent
<1>3. ASSUME NEW tok \in tokens, NEW target \in Name, NEW e \in Endpoint,
             Accepting(tok, target, e)
      PROVE  Remembered'
    <2>1. CASE AcceptFromStranger(tok, target, e)
        BY <2>1 DEF AcceptFromStranger, Remembered
    <2>2. CASE AcceptConsent(tok, target, e)
        <3>1. tok.peerId \in Name /\ Store(tok.peerId, e) /\ UNCHANGED <<csv, tokens>>
            BY <2>2 DEF AcceptConsent, TypeOK, Token
        <3> QED
            BY <3>1, RememberedStored DEF Remembered
    <2> QED
        BY <1>3, <2>1, <2>2 DEF Accepting
<1>4. ASSUME NEW w \in consents, ResumeConsent(w) \/ ResumeDangling(w) PROVE Remembered'
    BY <1>4 DEF ResumeConsent, ResumeDangling, Remembered
<1>5. CASE Restart
    <2>1. connected_clients' = loadUsers /\ UNCHANGED <<csv, tokens>>
        BY <1>5 DEF Restart
    <2>2. \A i \in 1 .. Len(csv) : csv[i].name \in Name /\ Trim[csv[i].name] = csv[i].name
        BY EntryTypes DEF Persistent, TypeOK
    <2>3. \A i \in 1 .. Len(csv) : i \in 1 .. Len(loadUsers) /\ loadUsers[i].name = csv[i].name
        <3>1. Len(loadUsers) = Len(csv)
            BY LoadedRows DEF Persistent, TypeOK
        <3> QED
            BY <2>2, <3>1, LoadedFields DEF TypeOK
    <2> QED
        BY <2>1, <2>3 DEF Remembered
<1> QED
    BY <1>1, <1>2, <1>3, <1>4, <1>5, StepCases

\* A caller that was told stays told.
LEMMA CallerToldKept ==
    ASSUME told \subseteq told', heard \subseteq heard', NEW n, NEW e, CallerTold(n, e)
    PROVE  CallerTold(n, e)'
<1>1. PICK h \in told : h.type = "ConnectToHost" /\ h.address = e /\ HeardAs(n, h.to)
    BY DEF CallerTold
<1>2. HeardAs(n, h.to)'
    BY <1>1, HeardKept
<1> QED
    BY <1>1, <1>2 DEF CallerTold

\* Every step tells both, if token holders are registered.
LEMMA NextBoth ==
    TypeOK /\ TokenHolderRegistered /\ ReferencesStay /\ Genuine /\ Both /\ [Next]_vars => Both'
<1> SUFFICES ASSUME TypeOK, TokenHolderRegistered, ReferencesStay, Genuine, Both, [Next]_vars
             PROVE  Both'
    OBVIOUS
<1> USE DEF Both, FirstHalfSent, BothTold
<1>1. CASE Quiet
    BY <1>1 DEF Quiet, CallerTold, HeardAs
<1>2. ASSUME NEW n \in Name, NEW e \in Endpoint, HandleBindingRequest(n, e) PROVE Both'
    <2>1. heard \subseteq heard' /\ UNCHANGED <<told, consents>>
        BY <1>2 DEF HandleBindingRequest, Store
    <2> QED
        BY <2>1, CallerToldKept
<1>3. ASSUME NEW tok \in tokens, NEW target \in Name, NEW e \in Endpoint,
             Accepting(tok, target, e)
      PROVE  Both'
    <2> DEFINE t == Find(connected_clients, target)
               h == ConnectToHost(connected_clients'[t].endpoint, tok.peerId, e)
               w == [to |-> e, target |-> target, ref |-> t, size |-> Len(connected_clients)]
    <2>1. AcceptConsent(tok, target, e)
        BY <1>3 DEF Accepting, AcceptFromStranger, TokenHolderRegistered
    <2>2. tok.peerId \in Name /\ Store(tok.peerId, e)
        BY <2>1 DEF AcceptConsent, TypeOK, Token
    <2>3. heard \subseteq heard'
        BY <2>2, GenuineStored
    <2>4. CASE UNCHANGED <<consents, told>>
        BY <2>3, <2>4, CallerToldKept
    <2>5. CASE told' = told \cup {h} /\ consents' = consents \cup {w}
        <3>1. t \in 1 .. Len(connected_clients) /\ connected_clients[t].name = target
            BY <1>3, EntryTypes, FindSpec DEF Accepting, TypeOK
        <3>2. t \in 1 .. Len(connected_clients') /\ connected_clients'[t].name = target
            BY <2>2, <3>1, ReferencesKept
        <3>3. \E m \in Name :
                  <<m, connected_clients'[t].endpoint>> \in heard' /\ target \in {m, Trim[m]}
            BY <2>2, <3>2, GenuineStored DEF EntriesHeard, HeardAs
        <3>4. /\ h.type = "ConnectToHost" /\ h.address = e
              /\ h.to = connected_clients'[t].endpoint
              /\ w.to = e /\ w.target = target
            BY DEF ConnectToHost
        <3> HIDE DEF h, w, t
        <3>5. CallerTold(target, e)'
            BY <2>5, <3>3, <3>4 DEF CallerTold, HeardAs
        <3> QED
            BY <2>3, <2>5, <3>4, <3>5, CallerToldKept
    <2> QED
        BY <2>1, <2>4, <2>5 DEF AcceptConsent, sendConnectMessage, Introduce
<1>4. ASSUME NEW w \in consents, ResumeConsent(w) \/ ResumeDangling(w) PROVE Both'
    <2>1. PICK a : told' = told \cup {SuccessConnectToClient(w.to, w.target, a)}
        BY <1>4 DEF ResumeConsent, ResumeDangling, Introduce
    <2>2. /\ SuccessConnectToClient(w.to, w.target, a).to = w.to
          /\ SuccessConnectToClient(w.to, w.target, a).clientName = w.target
        BY DEF SuccessConnectToClient
    <2>3. consents' \subseteq consents /\ heard' = heard
        BY <1>4 DEF ResumeConsent, ResumeDangling
    <2> QED
        BY <2>1, <2>2, <2>3, CallerToldKept
<1>5. CASE Restart
    BY <1>5 DEF Restart, CallerTold, HeardAs
<1> QED
    BY <1>1, <1>2, <1>3, <1>4, <1>5, StepCases

\* If data.csv comes back whole, token holders are in the registry.
THEOREM HoldersRegistered == Persistent => (Spec => []TokenHolderRegistered)
<1> SUFFICES ASSUME Persistent PROVE Spec => []TokenHolderRegistered
    OBVIOUS
<1> DEFINE I == TypeOK /\ ReferencesStay /\ Remembered
<1>1. Init => I
    BY InitTypeOK, InitReferences, InitRemembered
<1>2. I /\ [Next]_vars => I'
    BY NextTypeOK, NextReferences, NextRemembered
<1>3. I => TokenHolderRegistered
    BY RememberedFound
<1> QED
    BY <1>1, <1>2, <1>3, PTL DEF Spec

\* If data.csv comes back whole, nobody is answered before the other was told.
THEOREM BothAreTold == Persistent => (Spec => []BothTold)
<1> SUFFICES ASSUME Persistent PROVE Spec => []BothTold
    OBVIOUS
<1> DEFINE I == TypeOK /\ ReferencesStay /\ Genuine /\ Remembered /\ Both
<1>1. Init => I
    BY InitTypeOK, InitReferences, InitGenuine, InitRemembered
<1>2. I /\ [Next]_vars => I'
    BY NextTypeOK, NextReferences, NextGenuine, NextRemembered, RememberedFound, NextBoth
<1>3. I => BothTold
    BY DEF Both
<1> QED
    BY <1>1, <1>2, <1>3, PTL DEF Spec

===============================================================================
