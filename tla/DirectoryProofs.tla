---------------------------- MODULE DirectoryProofs ----------------------------
(***************************************************************************)
(* Server implements Directory, for every set of names and endpoints: each *)
(* step of the server is a step of the directory or leaves it as it is.    *)
(***************************************************************************)
EXTENDS ServerProofs

-----------------------------------------------------------------------------
(* A reference held by a suspended coroutine is to the entry of its name. *)

\* The element res_attr refers to is the first of its name: the entry.
RefersToEntry ==
    \A w \in consents : w.ref = Find(connected_clients, w.target)

\* At the start no coroutine is suspended.
LEMMA InitRefersToEntry == Init => RefersToEntry
BY DEF Init, RefersToEntry

\* Storing a client leaves what is found where it was.
LEMMA FoundStays ==
    ASSUME TypeOK, NEW n \in Name, NEW e \in Endpoint, Store(n, e),
           NEW m, Find(connected_clients, m) # 0
    PROVE  Find(connected_clients', m) = Find(connected_clients, m)
<1>1. /\ Stored(n, e) \in Seq(ConnectedClient) /\ connected_clients \in Seq(ConnectedClient)
      /\ Len(Stored(n, e)) >= Len(connected_clients)
      /\ \A i \in 1 .. Len(connected_clients) :
            Stored(n, e)[i].name = connected_clients[i].name
    BY StoredSpec DEF TypeOK
<1>2. Find(Stored(n, e), m) = Find(connected_clients, m)
    BY <1>1, FindKept
<1> QED
    BY <1>2 DEF Store

\* Every step keeps the references to entries.
LEMMA NextRefersToEntry ==
    TypeOK /\ ReferencesStay /\ RefersToEntry /\ [Next]_vars => RefersToEntry'
<1> SUFFICES ASSUME TypeOK, ReferencesStay, RefersToEntry, [Next]_vars
             PROVE  RefersToEntry'
    OBVIOUS
<1>0. \A w \in consents : Find(connected_clients, w.target) # 0
    BY DEF RefersToEntry, ReferencesStay
<1>1. CASE Quiet
    BY <1>1 DEF Quiet, RefersToEntry
<1>2. ASSUME NEW n \in Name, NEW e \in Endpoint, HandleBindingRequest(n, e)
      PROVE  RefersToEntry'
    BY <1>0, <1>2, FoundStays DEF HandleBindingRequest, RefersToEntry
<1>3. ASSUME NEW tok \in tokens, NEW target \in Name, NEW e \in Endpoint,
             Accepting(tok, target, e)
      PROVE  RefersToEntry'
    <2> DEFINE t == Find(connected_clients, target)
    <2>1. CASE AcceptFromStranger(tok, target, e)
        BY <2>1 DEF AcceptFromStranger, RefersToEntry
    <2>2. CASE AcceptConsent(tok, target, e)
        <3>1. tok.peerId \in Name /\ Store(tok.peerId, e)
            BY <2>2 DEF AcceptConsent, TypeOK, Token
        <3>2. Find(connected_clients', target) = t
            BY <1>3, <3>1, FoundStays DEF Accepting
        <3>3. \A w \in consents' : w \in consents \/ (w.ref = t /\ w.target = target)
            BY <2>2 DEF AcceptConsent
        <3>4. \A w \in consents : Find(connected_clients', w.target) = w.ref
            BY <1>0, <3>1, FoundStays DEF RefersToEntry
        <3> HIDE DEF t
        <3> QED
            BY <3>2, <3>3, <3>4 DEF RefersToEntry
    <2> QED
        BY <1>3, <2>1, <2>2 DEF Accepting
<1>4. ASSUME NEW w \in consents, ResumeConsent(w) \/ ResumeDangling(w) PROVE RefersToEntry'
    BY <1>4 DEF ResumeConsent, ResumeDangling, RefersToEntry
<1>5. CASE Restart
    BY <1>5 DEF Restart, RefersToEntry
<1> QED
    BY <1>1, <1>2, <1>3, <1>4, <1>5, StepCases

-----------------------------------------------------------------------------
(* The refinement. *)

\* The states of Server from which every step is one of Directory.
Refines ==
    /\ TypeOK /\ ReferencesStay /\ Genuine /\ RefersToEntry
    /\ Persistent => Remembered /\ Both

\* Refines holds at the start and is kept.
LEMMA RefinesInvariant == Spec => []Refines
<1>1. Init => Refines
    BY InitTypeOK, InitReferences, InitGenuine, InitRefersToEntry, InitRemembered DEF Refines
<1>2. Refines /\ [Next]_vars => Refines'
    BY NextTypeOK, NextReferences, NextGenuine, NextRefersToEntry, NextRemembered,
       RememberedFound, NextBoth DEF Refines
<1> QED
    BY <1>1, <1>2, PTL DEF Spec

\* What the directory knows, in the server's terms.
Known == {k \in Name \X Endpoint : HeardAs(k[1], k[2])}

\* A pair is known if it was heard.
LEMMA KnownIs ==
    ASSUME NEW n \in Name, NEW e \in Endpoint
    PROVE  <<n, e>> \in Known <=> HeardAs(n, e)
<1>1. <<n, e>> \in Name \X Endpoint /\ <<n, e>>[1] = n /\ <<n, e>>[2] = e
    OBVIOUS
<1> QED
    BY <1>1 DEF Known

\* What is known stays known while nothing is stored.
LEMMA KnownKept == UNCHANGED heard => Known' = Known
BY DEF Known, HeardAs

\* The server starts as an empty directory.
LEMMA InitRefines == Init => D!Init
<1> SUFFICES ASSUME Init PROVE D!Init
    OBVIOUS
<1>1. connected_clients = <<>> /\ tokens = {} /\ heard = {} /\ told = {}
    BY DEF Init
<1>2. \A n \in Name : Entry(n) = Garbage
    <2> SUFFICES ASSUME NEW n \in Name PROVE Entry(n) = Garbage
        OBVIOUS
    <2>1. connected_clients \in Seq(ConnectedClient) /\ Len(connected_clients) = 0
        BY <1>1
    <2>2. Find(connected_clients, n) \in 0 .. 0
        BY <2>1, FindSpec
    <2> QED
        BY <2>2 DEF Entry
<1>3. Known = {}
    BY <1>1 DEF Known, HeardAs
<1> QED
    BY <1>1, <1>2, <1>3 DEF D!Init, Known

\* Storing a client is the directory's Enter.
LEMMA StoreEnters ==
    ASSUME TypeOK, NEW n \in Name, NEW e \in Endpoint, Store(n, e)
    PROVE  D!Enter(n, e)
<1>1. \A m \in Name : Entry(m)' = IF m = n THEN e ELSE Entry(m)
    BY EntryStored
<1>2. heard' = heard \cup {<<n, e>>}
    BY DEF Store
<1> DEFINE alike == {n, Trim[n]}
<1>3. ASSUME NEW m \in Name, NEW f \in Endpoint
      PROVE  HeardAs(m, f)' <=> HeardAs(m, f) \/ (m \in alike /\ f = e)
    <2>1. \A x \in Name : <<x, f>> \in heard' <=> <<x, f>> \in heard \/ (x = n /\ f = e)
        BY <1>2
    <2> QED
        BY <2>1 DEF HeardAs
<1>4. alike \subseteq Name
    BY ConstantsOK
<1> HIDE DEF alike
<1>5. Known' = Known \cup (alike \X {e})
    <2>1. ASSUME NEW k \in Name \X Endpoint
          PROVE  k \in Known' <=> k \in Known \cup (alike \X {e})
        <3>1. PICK m \in Name, f \in Endpoint : k = <<m, f>>
            OBVIOUS
        <3>2. k \in Known <=> HeardAs(m, f)
            BY <3>1, KnownIs
        <3>3. k \in Known' <=> HeardAs(m, f)'
            BY <3>1 DEF Known
        <3> QED
            BY <1>3, <3>1, <3>2, <3>3
    <2>2. Known \subseteq Name \X Endpoint /\ Known' \subseteq Name \X Endpoint
        BY DEF Known
    <2> QED
        BY <1>4, <2>1, <2>2
<1>6. [m \in Name |-> {m, Trim[m]}][n] = alike
    BY DEF alike
<1> QED
    BY <1>1, <1>5, <1>6 DEF D!Enter, Known

\* A login is a Register, confirmed if its token could be signed.
LEMMA BindingRegisters ==
    ASSUME TypeOK, NEW n \in Name, NEW e \in Endpoint, HandleBindingRequest(n, e)
    PROVE  D!Register(n, e)
<1>1. D!Enter(n, e) /\ UNCHANGED told
    BY StoreEnters DEF HandleBindingRequest
<1>2. makeToken(n).peerId = n
    BY DEF makeToken
<1>3. \/ {tok.peerId : tok \in tokens'} = {tok.peerId : tok \in tokens} \cup {n}
      \/ tokens' = tokens
    <2>1. CASE tokens' = tokens \cup {makeToken(n)}
        BY <1>2, <2>1
    <2>2. CASE tokens' = tokens
        BY <2>2
    <2> QED
        BY <2>1, <2>2 DEF HandleBindingRequest
<1> QED
    BY <1>1, <1>3 DEF D!Register

\* An accepted call invites the caller, or answers a host that nobody knows.
LEMMA AcceptingRefines ==
    ASSUME Refines, NEW tok \in tokens, NEW target \in Name, NEW e \in Endpoint,
           Accepting(tok, target, e)
    PROVE  D!InviteCaller(target, tok.peerId, e) \/ D!AnswerHost(target, e)
<1> DEFINE t == Find(connected_clients, target)
           host == tok.peerId
<1>1. TypeOK /\ host \in Name /\ t # 0
    BY DEF Refines, TypeOK, Token, Accepting
<1>2. Entry(target) # Garbage /\ Entry(target) = connected_clients[t].endpoint
    BY <1>1, EntryType
<1>3. CASE AcceptConsent(tok, target, e)
    <2>1. Store(host, e) /\ Find(connected_clients, host) # 0 /\ UNCHANGED tokens
        BY <1>3 DEF AcceptConsent
    <2>2. Entry(host) # Garbage
        BY <1>1, <2>1, EntryType
    <2>3. Entry(target)' = connected_clients'[t].endpoint
        <3>1. Find(connected_clients', target) = t
            BY <1>1, <2>1, FoundStays
        <3> QED
            BY <1>1, <3>1 DEF Entry
    <2>4. told' \in {told, told \cup {ConnectToHost(Entry(target)', host, e)}}
        BY <1>3, <2>3 DEF AcceptConsent, sendConnectMessage, Introduce
    <2>5. D!Enter(host, e)
        BY <1>1, <2>1, StoreEnters
    <2> QED
        BY <1>1, <1>2, <2>1, <2>2, <2>4, <2>5
        DEF D!InviteCaller, D!ConnectToHost, ConnectToHost
<1>4. CASE AcceptFromStranger(tok, target, e)
    <2>1. ~ Persistent
        BY <1>4, RememberedFound DEF Refines, AcceptFromStranger, TokenHolderRegistered
    <2>2. /\ told' = told \cup {SuccessConnectToClient(e, target, Entry(target))}
          /\ UNCHANGED <<connected_clients, heard, tokens>>
        BY <1>2, <1>4 DEF AcceptFromStranger, Introduce
    <2>3. \A n \in Name : Entry(n)' = Entry(n)
        BY <2>2 DEF Entry
    <2>4. Known' = Known
        BY <2>2, KnownKept
    <2> QED
        BY <1>1, <1>2, <2>1, <2>2, <2>3, <2>4
        DEF D!AnswerHost, D!SuccessConnectToClient, SuccessConnectToClient, Known
<1> QED
    BY <1>3, <1>4 DEF Accepting

\* A coroutine that goes on answers the host of a caller that was invited.
LEMMA ResumeRefines ==
    ASSUME Refines, NEW w \in consents, ResumeConsent(w) \/ ResumeDangling(w)
    PROVE  D!AnswerHost(w.target, w.to)
<1>1. /\ TypeOK /\ w.target \in Name /\ w.to \in Endpoint
      /\ w.ref = Find(connected_clients, w.target) /\ w.ref # 0
    BY DEF Refines, TypeOK, Consent, RefersToEntry, ReferencesStay
<1>2. Entry(w.target) # Garbage /\ Entry(w.target) = connected_clients[w.ref].endpoint
    BY <1>1, EntryType
<1>3. PICK address \in {Entry(w.target), Garbage} :
          told' = told \cup {SuccessConnectToClient(w.to, w.target, address)}
    BY <1>2 DEF ResumeConsent, ResumeDangling, Introduce
<1>4. UNCHANGED <<connected_clients, heard, tokens>>
    BY DEF ResumeConsent, ResumeDangling
<1>5. \A n \in Name : Entry(n)' = Entry(n)
    BY <1>4 DEF Entry
<1>6. Persistent => D!Invited(w.target, w.to)
    <2> SUFFICES ASSUME Persistent PROVE D!Invited(w.target, w.to)
        OBVIOUS
    <2>1. PICK h \in told :
              h.type = "ConnectToHost" /\ h.address = w.to /\ HeardAs(w.target, h.to)
        BY DEF Refines, Both, FirstHalfSent, CallerTold
    <2>2. h.to \in Endpoint
        BY <1>1, <2>1 DEF HeardAs, TypeOK
    <2>3. <<w.target, h.to>> \in Known
        BY <1>1, <2>1, <2>2, KnownIs
    <2> QED
        BY <2>1, <2>3 DEF D!Invited, Known
<1>7. Known' = Known
    BY <1>4, KnownKept
<1> QED
    BY <1>1, <1>2, <1>3, <1>4, <1>5, <1>6, <1>7
    DEF D!AnswerHost, D!SuccessConnectToClient, SuccessConnectToClient, Known

\* A restart loses entries, but keeps no wrong one and, if data.csv is intact, the
\* ones of users who have a token.
LEMMA RestartRefines ==
    ASSUME Refines, Refines', Restart
    PROVE  D!Crash
<1>1. UNCHANGED <<heard, tokens, told>>
    BY DEF Restart, history
<1>2. \A n \in Name : Entry(n)' \in Endpoint \cup {Garbage}
    <2>1. connected_clients' \in Seq(ConnectedClient)
        BY DEF Refines, TypeOK
    <2> QED
        BY <2>1, EntryTypes DEF Entry
<1>3. \A n \in Name : Entry(n)' # Garbage => <<n, Entry(n)'>> \in Known
    <2> SUFFICES ASSUME NEW n \in Name, Entry(n)' # Garbage
                 PROVE  <<n, Entry(n)'>> \in Known
        OBVIOUS
    <2> DEFINE i == Find(connected_clients', n)
    <2>1. i # 0 /\ Entry(n)' = connected_clients'[i].endpoint
        BY DEF Entry
    <2>2. connected_clients' \in Seq(ConnectedClient)
        BY DEF Refines, TypeOK
    <2>3. i \in 1 .. Len(connected_clients') /\ connected_clients'[i].name = n
        BY <2>1, <2>2, FindSpec
    <2> HIDE DEF i
    <2>4. \E m \in Name :
              <<m, connected_clients'[i].endpoint>> \in heard' /\ n \in {m, Trim[m]}
        BY <2>3 DEF Refines, Genuine, EntriesHeard, HeardAs
    <2>5. PICK e \in Endpoint : e = Entry(n)'
        BY <1>2
    <2>6. HeardAs(n, e)
        BY <1>1, <2>1, <2>4, <2>5 DEF HeardAs
    <2> QED
        BY <2>5, <2>6, KnownIs
<1>4. Persistent => \A tok \in tokens : Entry(tok.peerId)' # Garbage
    <2> SUFFICES ASSUME Persistent, NEW tok \in tokens
                 PROVE  Entry(tok.peerId)' # Garbage
        OBVIOUS
    <2>1. connected_clients' \in Seq(ConnectedClient)
        BY DEF Refines, TypeOK
    <2>2. Find(connected_clients', tok.peerId) # 0
        BY <1>1, <2>1, FindSpec DEF Refines, Remembered
    <2> QED
        BY <2>1, <2>2, EntryTypes, ConstantsOK DEF Entry
<1>5. \A tok \in tokens : tok.peerId \in Name
    BY DEF Refines, TypeOK, Token
<1>6. Known' = Known
    BY <1>1, KnownKept
<1> QED
    BY <1>1, <1>2, <1>3, <1>4, <1>5, <1>6 DEF D!Crash, Known

\* Every step is a step of the directory or leaves it as it is.
LEMMA StepRefines == Refines /\ Refines' /\ [Next]_vars => [D!Next]_(D!vars)
<1> SUFFICES ASSUME Refines, Refines', [Next]_vars PROVE [D!Next]_(D!vars)
    OBVIOUS
<1>1. CASE Quiet
    <2>1. \A n \in Name : Entry(n)' = Entry(n)
        BY <1>1 DEF Quiet, Entry
    <2>2. Known' = Known
        BY <1>1, KnownKept DEF Quiet
    <2> QED
        BY <1>1, <2>1, <2>2 DEF Quiet, D!vars, Known
<1>2. ASSUME NEW n \in Name, NEW e \in Endpoint, HandleBindingRequest(n, e) PROVE D!Next
    BY <1>2, BindingRegisters DEF D!Next, Refines
<1>3. ASSUME NEW tok \in tokens, NEW target \in Name, NEW e \in Endpoint,
             Accepting(tok, target, e)
      PROVE  D!Next
    BY <1>3, AcceptingRefines DEF D!Next, Refines, TypeOK, Token
<1>4. ASSUME NEW w \in consents, ResumeConsent(w) \/ ResumeDangling(w) PROVE D!Next
    BY <1>4, ResumeRefines DEF D!Next, Refines, TypeOK, Consent
<1>5. CASE Restart
    BY <1>5, RestartRefines DEF D!Next
<1> QED
    BY <1>1, <1>2, <1>3, <1>4, <1>5, StepCases DEF Refines

\* The server implements the directory: its entries are what find yields, users are
\* confirmed by their token, and it is durable if data.csv comes back whole.
THEOREM ServerImplementsDirectory == Spec => ImplementsDirectory
BY InitRefines, RefinesInvariant, StepRefines, PTL DEF Spec, ImplementsDirectory, D!Spec

===============================================================================
