-------------------------------- MODULE Codec ---------------------------------
(***************************************************************************)
(* The wire format between clients and server: how either side writes a    *)
(* message into a datagram (Client::MakeRequest, Server::parseStunMessage- *)
(* ToRaw and the lengths the handlers put into its header) and how the     *)
(* other reads it (the two functions parseRawMessage).                     *)
(*                                                                         *)
(* A text is a value and its number of bytes; an integer is the tuple of   *)
(* its bytes, the most significant first.  A body consists of fields, each *)
(* at its offset, and reading finds a field only where it was written and  *)
(* if it was received whole.  Both hosts are little-endian.                *)
(***************************************************************************)
EXTENDS Naturals, Sequences, SequencesExt, FiniteSets

CONSTANTS
    Text,       \* names a user may give or ask for: records of value and bytes
    Token,      \* what a client has as its token: one of the server's, or empty
    Endpoint,   \* addresses of four bytes with ports of two
    Unknown,    \* what is read of a text that was not received whole
    Registry,   \* the registries the server may start with: sequences of names
    MaxUsers    \* bound: users when another may log in

Header == 20    \* bytes before the body
Buffer == 1024  \* bytes either side receives, whatever the datagram has
MaxUdp == 65507 \* bytes the socket sends in one datagram, or it throws
Range16 == 65536

Byte == 0 .. 255
\* What the server remembers as a name has come in a datagram.  A name of blanks comes
\* back from data.csv without them, and so may be empty.
Name == {x \in [v : STRING, n : 0 .. MaxUdp - Header] : x.n = 0 => x.v = ""}

\* What has no bytes is the empty string.
ASSUME ConstantsOK ==
    /\ \A t \in Text \cup Token : t \in [v : STRING, n : Nat] /\ (t.n = 0 => t.v = "")
    /\ Unknown \in STRING
    /\ Endpoint \subseteq [address : [1 .. 4 -> Byte], port : [1 .. 2 -> Byte]]
    /\ Registry \subseteq Seq(Name)
    /\ MaxUsers \in Nat

VARIABLES
    names,  \* the names of connected_clients
    sent,   \* the message one side means to send
    wire,   \* the datagram that carries it
    got     \* the message the other side has understood

vars == <<names, sent, wire, got>>

None == [type |-> "None"]
Garbage(n) == [v |-> Unknown, n |-> n]

-----------------------------------------------------------------------------
(* Integers. *)

Int16(k) == <<(k \div 256) % 256, k % 256>>
Value(x) == x[1] * 256 + x[2]

\* std::byteswap; and memcpy from an integer of the host to bytes, or back.
byteswap(x) == Reverse(x)
memcpy(x) == Reverse(x)

-----------------------------------------------------------------------------
(* Bodies. *)

\* Where each of the fields begins that follow each other, and where the last ends.
Offsets(fields) ==
    LET at[i \in 1 .. Len(fields) + 1] == IF i = 1 THEN 0 ELSE at[i - 1] + fields[i - 1].n
    IN at

Bytes(fields) == Offsets(fields)[Len(fields) + 1]

Layout(fields) ==
    LET at == Offsets(fields)
    IN [i \in DOMAIN fields |-> [at |-> at[i], v |-> fields[i].v, n |-> fields[i].n]]

Field16(k) == [v |-> memcpy(byteswap(Int16(k))), n |-> 2]
FieldPort(e) == [v |-> memcpy(byteswap(e.port)), n |-> 2]

\* A datagram whose header gives the length, and whose body has size bytes.
Packet(to, type, length, size, fields) ==
    [to |-> to, type |-> type, length |-> memcpy(byteswap(Int16(length))),
     size |-> size, body |-> Layout(fields)]

LengthOf(d) == Value(byteswap(memcpy(d.length)))

\* What n bytes at an offset hold: one value, or none that is known.
Read(d, at, n) ==
    {d.body[i].v : i \in {j \in DOMAIN d.body :
                             /\ d.body[j].at = at /\ d.body[j].n = n
                             /\ at + n =< d.size /\ at + n =< Buffer - Header}}

Read16(d, at) == {Value(byteswap(memcpy(x))) : x \in Read(d, at, 2)}

ReadText(d, at, n) ==
    LET r == Read(d, at, n) IN IF r = {} THEN Garbage(n) ELSE [v |-> CHOOSE x \in r : TRUE, n |-> n]

-----------------------------------------------------------------------------
(* Requests. *)

BindingAttribute(name) == [type |-> "BindingRequest", clientName |-> name]
GetConnectedList(tok) == [type |-> "GetConnectedList", jwtToken |-> tok]
ConnectToClientAttribute(tok, name) ==
    [type |-> "ConnectToClient", jwtToken |-> tok, clientNameToConnect |-> name]
ConnectConsent(tok, name, a) ==
    [type |-> "ConnectConsent", jwtToken |-> tok, targetName |-> name, isAccepted |-> a]
BadRequest(why) == [type |-> "Error", error |-> why]

ARequest ==
    {BindingAttribute(n) : n \in Text} \cup {GetConnectedList(tok) : tok \in Token}
    \cup {ConnectToClientAttribute(tok, n) : tok \in Token, n \in Text}
    \cup {ConnectConsent(tok, n, a) : tok \in Token, n \in Text, a \in BOOLEAN}

\* The payload of a request, in the order it is copied.
Payload(r) ==
    CASE r.type = "BindingRequest" -> <<r.clientName>>
      [] r.type = "GetConnectedList" -> <<r.jwtToken>>
      [] r.type = "ConnectToClient" ->
            <<Field16(r.jwtToken.n), r.jwtToken, r.clientNameToConnect>>
      [] r.type = "ConnectConsent" ->
            <<Field16(r.jwtToken.n), r.jwtToken,
              [v |-> <<IF r.isAccepted THEN 1 ELSE 0>>, n |-> 1], r.targetName>>

MakeRequest(r) ==
    LET k == Bytes(Payload(r)) IN Packet("server", r.type, k, k, Payload(r))

\* The size of the token a body begins with.
TokenSize(d) == CHOOSE x \in Read16(d, 0) : TRUE

\* A request whose body has a token and n bytes more, if the length allows both.
Checked(d, n, request) ==
    CASE LengthOf(d) < 2 + n -> BadRequest("Empty body")
      [] LengthOf(d) >= 2 + n /\ LengthOf(d) < 2 + TokenSize(d) + n -> BadRequest("Invalid format")
      [] OTHER -> request

\* The rest of a request, a text, from an offset on.
Rest(d, at) == ReadText(d, at, LengthOf(d) - at)

\* Mutant of parseConsent: the name begins where the flag is.
parseConsentEarly(d) ==
    Checked(d, 1, ConnectConsent(ReadText(d, 2, TokenSize(d)), Rest(d, 2 + TokenSize(d)),
                                 Read(d, 2 + TokenSize(d), 1) # {<<0>>}))

parseConsent(d) ==
    Checked(d, 1, ConnectConsent(ReadText(d, 2, TokenSize(d)), Rest(d, 3 + TokenSize(d)),
                                 Read(d, 2 + TokenSize(d), 1) # {<<0>>}))

parseCall(d) ==
    Checked(d, 0, ConnectToClientAttribute(ReadText(d, 2, TokenSize(d)),
                                           Rest(d, 2 + TokenSize(d))))

\* Mutant of parseRequest: a login without a name is taken for one.
parseRequestUnchecked(d) ==
    CASE d.type = "BindingRequest" -> BindingAttribute(Rest(d, 0))
      [] d.type = "GetConnectedList" -> GetConnectedList(Rest(d, 0))
      [] d.type = "ConnectToClient" -> parseCall(d)
      [] d.type = "ConnectConsent" -> parseConsent(d)

\* Server::parseRawMessage.
parseRequest(d) ==
    CASE d.type = "BindingRequest" ->
            IF LengthOf(d) = 0 THEN BadRequest("Empty body") ELSE BindingAttribute(Rest(d, 0))
      [] d.type = "GetConnectedList" -> GetConnectedList(Rest(d, 0))
      [] d.type = "ConnectToClient" -> parseCall(d)
      [] d.type = "ConnectConsent" -> parseConsent(d)

-----------------------------------------------------------------------------
(* Responses. *)

BindingResponse(e, tok) == [type |-> "SuccessBinding", endpoint |-> e, jwtToken |-> tok]
GetConnectedListResponse(ns) == [type |-> "SuccessConnectedList", connectedList |-> ns]
ConnectToHost(e, n) == [type |-> "ConnectToHost", endpoint |-> e, clientName |-> n]
ConnectToClientResponse(e, n) ==
    [type |-> "SuccessConnectToClient", endpoint |-> e, clientName |-> n]
IncomingConnectionRequest(n) == [type |-> "IncomingConnectionRequest", clientName |-> n]
ErrorResponse(error) == [type |-> "Error", error |-> error]

NotFound == [v |-> "Not found client", n |-> 16]
Rejected == [v |-> "Connection rejected by user", n |-> 27]
Unauthorized == [v |-> "Unauthorized: Invalid or expired token", n |-> 38]
InternalError == [v |-> "Internal server error", n |-> 21]

\* The messages the server may have to send, with the registry as it is.
AResponse ==
    {BindingResponse(e, tok) : e \in Endpoint, tok \in Token}
    \cup {GetConnectedListResponse(names)}
    \cup {ConnectToHost(e, n) : e \in Endpoint, n \in Range(names)}
    \cup {ConnectToClientResponse(e, n) : e \in Endpoint, n \in Range(names)}
    \cup {IncomingConnectionRequest(n) : n \in Range(names)}
    \cup {ErrorResponse(t) : t \in {NotFound, Rejected, Unauthorized, InternalError}}

\* Mutant of AddressOf: the value is not swapped.
AddressOfUnswapped(r) ==
    IF r.type = "ConnectToHost" THEN r.endpoint.address ELSE memcpy(r.endpoint.address)

\* How the handlers take the address of an endpoint into a uint32_t: its bytes
\* copied, or, in sendConnectMessage, its value swapped.
AddressOf(r) ==
    IF r.type = "ConnectToHost" THEN byteswap(r.endpoint.address) ELSE memcpy(r.endpoint.address)

EndpointFields(r) ==
    <<FieldPort(r.endpoint), [v |-> memcpy(AddressOf(r)), n |-> 4]>>

\* How many names follow, and each after its size.
ListFields(ns) ==
    [i \in 1 .. 2 * Len(ns) + 1 |->
        IF i = 1 THEN Field16(Len(ns))
        ELSE IF i % 2 = 0 THEN Field16(ns[i \div 2].n) ELSE ns[i \div 2]]

Fields(r) ==
    CASE r.type = "SuccessBinding" -> EndpointFields(r) \o <<r.jwtToken>>
      [] r.type = "SuccessConnectedList" -> ListFields(r.connectedList)
      [] r.type \in {"ConnectToHost", "SuccessConnectToClient"} ->
            EndpointFields(r) \o <<r.clientName>>
      [] r.type = "IncomingConnectionRequest" -> <<r.clientName>>
      [] r.type = "Error" -> <<r.error>>

\* Mutant of messageLength: one less for a text that is counted by hand.
messageLengthShort(r) ==
    IF r.type = "Error" /\ r.error = NotFound THEN 15 ELSE Bytes(Fields(r)) % Range16

\* What a handler writes into the header: two lengths are counted by hand, that of
\* a list is summed up in 16 bits.
messageLength(r) ==
    CASE r.type = "Error" /\ r.error = NotFound -> 16
      [] r.type = "Error" /\ r.error = Rejected -> 27
      [] OTHER -> Bytes(Fields(r)) % Range16

\* parseStunMessageToRaw: the body of a list has the length in the header, any
\* other the length of its fields.
parseStunMessageToRaw(r) ==
    Packet("client", r.type, messageLength(r),
           IF r.type = "SuccessConnectedList" THEN messageLength(r) ELSE Bytes(Fields(r)),
           Fields(r))

\* Writing a list runs past the end of its body, which may end the process.
Overruns(r) == r.type = "SuccessConnectedList" /\ messageLength(r) < Bytes(Fields(r))

-----------------------------------------------------------------------------
(* What a client makes of a response. *)

\* makeStrAddress writes the bytes of the integer, in the order they have in memory.
makeStrAddress(address) == memcpy(address)

ReadEndpoint(d) ==
    [port |-> byteswap(memcpy(CHOOSE x \in Read(d, 0, 2) : TRUE)),
     address |-> makeStrAddress(memcpy(CHOOSE x \in Read(d, 2, 4) : TRUE))]

\* Mutant of ReadName: a name that goes past the end is read.
ReadNameUnchecked(d, s) ==
    LET size == Read16(d, s.at)
        n == CHOOSE k \in size : TRUE
        name == Read(d, s.at + 2, n)
    IN IF s.end # "no" THEN s
       ELSE IF s.at + 2 > LengthOf(d) THEN [s EXCEPT !.end = "length"]
       ELSE IF size = {} THEN [s EXCEPT !.end = "unknown size"]
       ELSE IF name = {} THEN [s EXCEPT !.end = "unknown name"]
       ELSE [at |-> s.at + 2 + n, end |-> "no",
             names |-> Append(s.names, [v |-> CHOOSE x \in name : TRUE, n |-> n])]

\* One turn of the loop over a list: at is the offset, and end says why no other
\* turn follows.
ReadName(d, s) ==
    LET size == Read16(d, s.at)
        n == CHOOSE k \in size : TRUE
        name == Read(d, s.at + 2, n)
    IN IF s.end # "no" THEN s
       ELSE IF s.at + 2 > LengthOf(d) THEN [s EXCEPT !.end = "length"]
       ELSE IF size = {} THEN [s EXCEPT !.end = "unknown size"]
       ELSE IF s.at + 2 + n > LengthOf(d) THEN [s EXCEPT !.end = "length"]
       ELSE IF name = {} THEN [s EXCEPT !.end = "unknown name"]
       ELSE [at |-> s.at + 2 + n, end |-> "no",
             names |-> Append(s.names, [v |-> CHOOSE x \in name : TRUE, n |-> n])]

\* How many names the list says it has, and the turns of the loop.
ListCount(d) == CHOOSE k \in Read16(d, 0) : TRUE

Turns(d) ==
    LET turn[i \in 0 .. ListCount(d)] ==
            IF i = 0 THEN [at |-> 2, end |-> "no", names |-> <<>>] ELSE ReadName(d, turn[i - 1])
    IN turn

\* The lists a client may show.  Where its buffer ends, the rest is whatever follows
\* in memory: more names, all of them garbage, or none.  In a body too short for the
\* number of names none is read, whatever the number is taken to be.
ReadList(d) ==
    LET s == Turns(d)[ListCount(d)]
        more == Append(s.names, Garbage(0))
    IN CASE LengthOf(d) < 2 -> {<<>>}
         [] LengthOf(d) >= 2 /\ s.end = "unknown size" -> {s.names, more}
         [] LengthOf(d) >= 2 /\ s.end = "unknown name" -> {more}
         [] OTHER -> {s.names}

\* The client's parseRawMessage, and all it may return.
parseResponse(d) ==
    CASE d.type = "SuccessBinding" -> {BindingResponse(ReadEndpoint(d), Rest(d, 6))}
      [] d.type = "SuccessConnectedList" ->
            {GetConnectedListResponse(ns) : ns \in ReadList(d)}
      [] d.type = "ConnectToHost" -> {ConnectToHost(ReadEndpoint(d), Rest(d, 6))}
      [] d.type = "SuccessConnectToClient" ->
            {ConnectToClientResponse(ReadEndpoint(d), Rest(d, 6))}
      [] d.type = "IncomingConnectionRequest" -> {IncomingConnectionRequest(Rest(d, 0))}
      [] d.type = "Error" -> {ErrorResponse(Rest(d, 0))}

-----------------------------------------------------------------------------
(* One message at a time. *)

\* The socket refuses a datagram that is too long, and its coroutine ends.
Transmit(d) ==
    wire' = IF Header + d.size =< MaxUdp THEN d ELSE None

\* A read past the end of the buffer, or of a body without the number of its names,
\* which may end the process.
Overreads(d) ==
    \/ LengthOf(d) > Buffer - Header
    \/ d.type = "SuccessConnectedList" /\ LengthOf(d) < 2

ClientSends(r) ==
    /\ wire = None
    /\ sent' = r
    /\ got' = None
    /\ Transmit(MakeRequest(r))
    /\ UNCHANGED names

\* A name that logs in is remembered as it was understood.
ServerReceives ==
    /\ wire # None /\ wire.to = "server"
    /\ wire' = None
    /\ \/ /\ got' = parseRequest(wire)
          /\ names' = IF got'.type = "BindingRequest" /\ ~ Contains(names, got'.clientName)
                      THEN Append(names, got'.clientName) ELSE names
       \/ Overreads(wire) /\ UNCHANGED <<names, got>>
    /\ UNCHANGED sent

ServerSends(r) ==
    /\ wire = None
    /\ sent' = r
    /\ got' = None
    /\ Transmit(parseStunMessageToRaw(r)) \/ (Overruns(r) /\ UNCHANGED wire)
    /\ UNCHANGED names

ClientReceives ==
    /\ wire # None /\ wire.to = "client"
    /\ wire' = None
    /\ \/ got' \in parseResponse(wire)
       \/ Overreads(wire) /\ UNCHANGED got
    /\ UNCHANGED <<names, sent>>

Init ==
    /\ names \in Registry
    /\ sent = None /\ wire = None /\ got = None

Next ==
    \/ \E r \in ARequest :
        (r.type = "BindingRequest" => Len(names) < MaxUsers) /\ ClientSends(r)
    \/ \E r \in AResponse : ServerSends(r)
    \/ ServerReceives
    \/ ClientReceives

Spec == Init /\ [][Next]_vars

-----------------------------------------------------------------------------
(* Properties. *)

\* What is remembered, sent and understood are messages of the program, and who is
\* taken to log in has a name.
TypeOK ==
    /\ \A i \in DOMAIN names : names[i] \in Name
    /\ sent \in ARequest \cup AResponse \cup {None}
    /\ wire = None \/ wire.to \in {"client", "server"}
    /\ got # None /\ got.type = "BindingRequest" =>
          got.clientName \in Name /\ got.clientName.n # 0

Fits(fields) == Header + Bytes(fields) =< Buffer

\* The server understands a request as the client meant it, if it fits into the
\* buffer, but for a login without a name.
RequestUnderstood ==
    got # None /\ sent \in ARequest =>
        IF sent = BindingAttribute([v |-> "", n |-> 0]) THEN got.type = "Error"
        ELSE Fits(Payload(sent)) => got = sent

\* A client understands a response as the server meant it, if it fits into the
\* buffer: also its length, which handlers count apart from the body.
ResponseUnderstood ==
    got # None /\ sent \notin ARequest /\ Fits(Fields(sent)) => got = sent

\* Both halves of an introduction and the answer to a login carry the address of the
\* endpoint they speak of, however long the name, through three ways of swapping
\* bytes: a client punches where the server has heard the other.
PunchesAtEndpoint ==
    got # None /\ "endpoint" \in DOMAIN sent => got.endpoint = sent.endpoint

\* The names that n bytes of a list have whole, at most as many as its number says.
Whole(ns, n) ==
    LET count == Len(ns) % Range16
        k == CHOOSE i \in 0 .. count :
                /\ i = 0 \/ Bytes(ListFields(SubSeq(ns, 1, i))) =< n
                /\ i = count \/ Bytes(ListFields(SubSeq(ns, 1, i + 1))) > n
    IN SubSeq(ns, 1, k)

\* However long the list, its length wrapped or its end cut off: a client shows the
\* names that reached it whole, in order, and only where its buffer ends garbage.
ListPrefix ==
    got # None /\ sent.type = "SuccessConnectedList" =>
        LET length == messageLength(sent)
            room == Buffer - Header
            whole == Whole(sent.connectedList, IF length < room THEN length ELSE room)
        IN got.connectedList \in {whole} \cup
              IF length > room THEN {Append(whole, Garbage(0))} ELSE {}

===============================================================================
