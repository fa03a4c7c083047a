# UdpHolePunching in TLA+

Models, model checking and proofs for the rendezvous server and the clients of
UdpHolePunching. Paths below are relative to the repository's root.

## 1. Inventory

| Part | State | Operations | Where modelled |
|---|---|---|---|
| Server, registry and handlers (`server/src/server.cpp`) | `connected_clients`, a vector of name and endpoint; the coroutines in flight | `BindingRequest`, `GetConnectedList`, `ConnectToClient`, `ConnectConsent` | `Server`, and `Directory` for what they promise |
| Server, persistence (`server.cpp:552-586`) | rows of `data.csv` | `saveUser` after every login, `loadUsers` at start | `Server` |
| Server, `JwtManager` | the secret | `makeToken`, `verifyJwt` | `Server`, by effect |
| Wire format (`server.cpp`, `StunMessage.cpp`, `MakeStunRequest.cpp`, `Client.cpp`) | none | two encoders, two decoders, two buffers of 1024 bytes | `Codec` |
| Client, menu and io thread (`client/src/Client.cpp`) | `token_`, `pendingIncomingUser_`, `token.txt` | `/login /list /connect /accept /reject`, `dispatchResponse`, `saveToken`, `loadToken` | `Menu`, joined to `Server` by `System` |
| Client, punching and hand-over (`Client.cpp:126-157, 193-309, 398-459`) | `appState_`, `socket_`, `listener_`, `connection_`, coroutines | `listener`, `initP2PConnection`, `startConnection`, `/exit` | `Punch` |
| Client, `Connection` and `Stream` | one QUIC connection per chat, its stream and buffers | MsQuic callbacks, `SendMessage`, `Send`, `/exit` | `Chat`; the CONNECTED event also in `Punch` |
| `Config`, `QuicNetLog`, the `main.cpp` files | – | start-up and logging | no |

How they interact. A client logs in (the server stores the endpoint it sees and
signs a token), asks for another by name (`ConnectToClient`: that one is
notified), who answers (`ConnectConsent`), and the server introduces the
two: `ConnectToHost` to the caller, `SuccessConnectToClient` to the callee.
Both punch, `ServerPunch` from the caller and `ClientPunch` from the callee.
Whoever receives a punch closes its ASIO socket and gives the port to MsQuic:
as a listener after a `ClientPunch`, as a QUIC client after a `ServerPunch`.
The callee opens one stream, on which both then send lines.

What is hard. The server is single-threaded, but `handleConnectConsent` keeps a
reference over a `co_await`. A crash throws away everything but `data.csv` and
the tokens already signed. Between clients, two NATs, two timers and two
protocols on one port interleave, on a network without any guarantee. In the
client a menu thread, the io thread and MsQuic's threads share plain fields, and
destroy objects under each other. Lengths are counted by hand, in 16 bits, and
messages are cut by fixed buffers. The hazards are listed, with lines, in
`PROJECT.json`.

What makes each part correct:

- *Server*: an introduction reaches both sides (`BothTold`); the addresses in it
  belong to the users named (`AddressGenuine`, `AddressOfThatUser`); the registry's entry is
  the latest address from the first time a user is seen after a crash (`FreshOnceSeen`); a suspended handler refers to what it referred to
  (`ReferencesStay`); who has a token is known (`TokenHolderRegistered`). All in
  one: it is a directory (`ImplementsDirectory`).
- *Clients before the chat*: nobody punches for a call that was not typed on one side
  and accepted on the other (`PunchesForWantedCall`); a caller is answered no more often
  than its calls were shown (`AnsweredOnce`, but for a data race that section 3 names).
- *Punching*: one owner of the port (`OnePortOwner`); opposite roles at the two ends
  of a call (`RoleFollowsCall`); no one-sided connection (`LinkMutual`); punching
  ends (`PunchingStops`) and achieves a connection (`CrossingConnects`,
  `OpenPortsConnect`); who is back in the menu can be called (`MenuListens`).
- *Chat*: no thread uses a deleted object (`UsesLiveObject`); an object has one
  owner and is deleted once (`OneOwner`); no line is skipped (`NoLineSkipped`), every
  line sent arrives (`LinesArrive`). All in one, but for the arrival: it is a conversation
  (`ImplementsConversation`).
- *Wire format*: what was meant is what is understood, where it fits
  (`RequestUnderstood`, `ResponseUnderstood`), addresses always
  (`PunchesAtEndpoint`), and of a list what came whole (`ListPrefix`).

## 2. Modules

| Module | Stands for |
|---|---|
| `Directory` | the abstract rendezvous service |
| `Server` | the server, for whoever sends it anything; implements `Directory` |
| `Menu` | the clients before the chat: menu thread, io thread, token file |
| `System` | `Server` and `Menu` joined by a network; implements `Server` |
| `Punch` | the clients from the introduction to the QUIC connection |
| `Chat` | the clients on an established or coming QUIC connection; implements `Conversation` |
| `Conversation` | the abstract chat: what a user may count on |
| `Codec` | the bytes of every message, in both directions |
| `ServerProofs`, `DirectoryProofs`, `SystemProofs`, `PunchProofs`, `ChatProofs`, `ConversationProofs`, `CodecProofs` | the theorems |
| `MCServer`, `MCSystem`, `MCPunch`, `MCChat`, `MCCodec` | call relations, limits and symmetry sets for TLC |

`Punch` begins where `System` ends (a coroutine in `punching`), and `Chat` where
`Punch` ends (the ports belong to MsQuic). They are not composed into one state space:
what passes from one to the next is a call with two roles and an address, and that is
what `PunchesForWantedCall` and `RoleFollowsCall` establish for the next.

### Server and Directory

Between two waits a coroutine runs undisturbed: `main` runs one `io_context` on one
thread. Each handler is therefore one action; its final answer, sent by `worker`,
belongs to the action, because nothing that follows the wait for it reads shared
state. `handleConnectConsent` is the exception: after `co_await
sendConnectMessage` (line 504) it reads `res_attr` again. It is split there into
`AcceptConsent`, which leaves a record in `consents`, and `ResumeConsent`. That
record holds the element referred to and the length of the vector when the
reference was taken. `Dangling` compares this with the capacities libstdc++'s and
libc++'s doubling gives a vector grown by `push_back`: the elements have moved if
an element was appended at length 0, 1, 2, 4, .... `ResumeDangling` is the
undefined read: it delivers `Garbage`, which stands for any value. That the process
dies instead is a step of `Restart`, which may happen at any time.

`Send` never waits for the network; a send that throws in line 504 ends the
coroutine, which is the second alternative of `AcceptConsent`. A final answer or a
notification that cannot be sent is a lost datagram (`Leave`).

| TLA+ | Code |
|---|---|
| `connected_clients`, `Find`, `Stored` | the vector; `std::ranges::find` by name; push or update (284-294) |
| `csv`, `saveUser`, `loadUsers` | data rows of `data.csv`; `CsvHasHeader` says whether its first line names the columns. The code never writes one: it is there only if a person put it there |
| `Unparsable` | names whose row `read_row` rejects (a comma in the name); loading stops there |
| `Trim` | what the reader of `data.csv` makes of a name: it takes the blanks and tabs off its ends |
| `tokens`, `verifyJwt`, `makeToken` | every token handed out; name and expiry. Clients use their own tokens or none |
| `net` | datagrams towards clients, which arrive or get lost |
| `heard`, `latest`, `seen`, `told` | history variables for the properties; no action reads them |

`Directory` has no vector, file, token or coroutine: one address per user,
`Register`, `InviteCaller`, `AnswerHost` and `Crash`. The refinement
(`ImplementsDirectory`) maps a user's entry to the address `find` reaches (`Entry`), what is known to
`heard`, the confirmed users to those with a token, and `Durable` to `Persistent`:
only an intact `data.csv`, which brings every name back as it was, makes the directory
forget nobody and invite every caller before it answers the host. `Alike` names the users a
crash may make one of: an address heard for `"alice "` may come back as that of `alice`
(`HeardAs`). Where no name has blanks at its ends, `HeardAs` is `heard`.

### Menu and System

The two threads of a client share `token_` and `pendingIncomingUser_` without a lock.
An assignment by the io thread has a beginning (`io[c].at`) and an end
(`AssignToken`, `AssignPending`); what the menu thread copies in between is the old
string, the new one or a mix. As a name the mix is `Torn`, a name nobody
has; as a token it is one no server accepts, as bad as `NoToken`. The
length of a string is the last thing its assignment writes, so `empty()` does not
see a call before it is there. A `clear()` in the middle of an assignment leaves any of
three results (`cleared`). A crash of the client, which a data race may also cause, is
`RestartClient`: it comes back with what is in `token.txt`, which `saveToken` truncates
first and writes later.

`lines`, `shown`, `answers`, `raced`, `asked` and `accepted` record what users typed, saw and
answered, for the properties and the bounds. Calls shown and answers sent are counted for each
caller; `raced` has the callers whose name was copied into an answer while it was not the call
pending, because its assignment was still under way.

`System` extends `Server` and instantiates `Menu` over shared variables. `Serve` gives a
request to its handler, `Deliver` an answer to the client that has the
address at that moment; `Unreachable` answers go nowhere. Faults (`MaxFaults` in
all): a request or answer is lost, or handled while a copy stays on its way; the NAT
gives a client another address (`Move`), and the server is not told; a client or the
server dies and is started again. Each client runs on a machine of its own: two
clients in one directory would share `token.txt`, whose path is fixed
(`Client.cpp:318`), and the mutant `loadTokenShared` shows what would follow. No user's name
has blanks at its ends (`SystemConstantsOK`); what those do is `Server`'s part.

### Punch

A client stands for its public endpoint. `Introduce` is the server's promise, one
datagram to each side. `punching` holds the coroutines of `initP2PConnection`; the
first punch leaves with the introduction's arrival, `PunchAgain` is one more turn
of its loop, `PunchEnds` its three exits (line 299, the tenth punch, and the
exception of a closed socket, 306).

The hand-over runs without a wait in the io thread, but the menu thread and MsQuic's run beside
it, and from the moment the state has changed (246, 261) the menu thread takes `/exit`. So it is
step by step: `RecvPunch` changes the state, `CloseSocket` closes the socket (399), `MakeObject`
makes a listener or a connection (425, 436), `StartListener` or `StartClient` starts it through the
pointer and takes the port (426, 445). `handover` says where the io thread is and for which punch;
as long as it is there, no other coroutine runs. `Exit` may come anywhere in between; if it resets
the pointer before the start, that start is undefined (`StartDangling`): the process dies
(`"Dead"`), or nothing is started. `/exit` itself is one step here; `Chat` has it statement by
statement. `listening` is the coroutine `listener()`: it ends at the hand-over, or (`StrayQuic`) on
the exception for an unknown message type.

`left` and `taken` are history: whose users have typed `/exit`, and which connections a listener
has taken. `LinkMutual` needs both, as a caller may drop a connection it took only by leaving the
chat or for another callee.

`Restricted` clients are behind a NAT that lets a datagram in only from an address
the client has sent to (`hole`, set by every punch and QUIC packet sent);
the others have public addresses or full-cone NATs. The mapping itself is stable:
the address the server sees is the address peers reach. MsQuic is
reduced to a first flight, which it may repeat for as long as there is no answer,
and an answer. It is external; the model keeps what the code's callbacks make of it.
On an unreliable path (`Unreliable`) a datagram stays in `net` for ever: it may be received
never, later, or again, after any other. Without it datagrams are delivered unless the receiver's NAT or state
discards them, and a QUIC packet does not overtake a punch of the same
sender; punches may still overtake each other. `Calls` may contain a call in both
directions: then each client runs two coroutines that punch in different roles.

Left out: the MsQuic disconnect events (they only print, and keep `connection_`; see
`Chat`), failing `Start` calls (they only print).

### Chat and Conversation

One caller, who listens, and the callees that connect to it. `<<c, k>>` is the
`Connection` object client `c` has for the connection with callee `k`; `link` says what
became of its QUIC connection, `stream_` which objects have their stream, and `unfreed`
how many `QUIC_BUFFER`s MsQuic has. The menu thread goes statement by statement where a callback
can come in between: testing `connection_` and calling `SendMessage` (`TypeLine`, then
`DropLine` or `SendLine`), and `/exit` (`Exit`, `ExitTakes`, `ExitDeletes`,
`ExitListener`: `reset()` takes the pointer before it deletes). The callbacks are actions of
their own; that of the listener is two, as it assigns `connection_` (`NewConnection`) and then
reads it again to configure whatever connection it finds there (`SetConfiguration`). Callbacks for
two callees may overlap; `listener_.reset()` waits for them (`configuring`), `connection_.reset()`
does not. A thread that goes on with an object deleted under it (`UsesFreed`) does something
undefined: either nothing comes of it, or the process dies (`Crash`), and its connections with it.
Reading a pointer and the call through it are one step, and so is a call: what happens when an
object is deleted in the middle of `Stream::Send` is left out. MsQuic is external, taken for what it promises: bytes of a stream arrive in order,
closing a handle completes its sends and ends its callbacks. A connection may go down at
any time (`Shutdown`), and only prints.

`Conversation` has no objects, threads, buffers or callbacks. A chat has two ends; an end
waits, is open, and is over for good. A client in the chat has at most one open end. A line
typed while there is one is said there, next after the one before, or dropped because that end
is over first; only without one may a line go to an end that waits, or nowhere. Who goes on with an end that is over, or is leaving, may die of it (`Die`). In the
refinement an object is an end, open while it has a stream on a connection that is up
(`StateOf`); the line the menu thread is about to send is the one being said.

### Codec

A message goes through the encoder, a datagram and the decoder. An integer is
the tuple of its bytes, so that `byteswap` and the copies between
integers and bytes (`memcpy` on a little-endian host) are modelled by what they do;
texts are a value and a length. A body is a list of fields at offsets, and a read at an offset gives a field only if one
was written exactly there and received whole. Every length and number in a message has 16 bits, and
sums wrap. Reads past what was received and writes past what was allocated leave the result open
(`Garbage`, with the text `Unknown`); a datagram larger than UDP carries is not sent. A list whose length wraps to 0 or 1
has no room for the number of its names, which the client reads all the same (`Overreads`); its
loop then finds no room for a name. A name that is remembered may be empty, though none can log
in with it: `CSVReader` trims blanks when `data.csv` is read. Requests that no client makes are left out.

## 3. Runs

| Run | Instance | Result |
|---|---|---|
| `server` | 3 users, 2 endpoints, header present, 3 rows, tokens that may fail, 1 crash | six invariants hold (5.0 million states) |
| `server_lossy` | 2 users, one with an unparsable name, rows may get lost, tokens expire after the first tick, 1 crash | the invariant that does not need the file holds, and `Directory` is implemented |
| `system` | 3 users, one of whom moves, 2+2+3 lines, one fault of any kind | three invariants hold (5.0 million states) |
| `punch` | one caller, two callees, unreliable network, filtering NAT at the caller, 2 punches, `/exit` of all | four invariants hold (585,281 states) |
| `punch_live` | two clients that call each other, two filtering NATs, reliable, 2 punches, fair | two invariants and two liveness properties hold (117,760 states) |
| `chat` | one caller with three lines, two callees with one and none, `/exit` of two | four invariants and a liveness property hold, and `Conversation` is implemented (1,322,234 states) |
| `codec` | 8 names, 2 tokens, 2 endpoints, 11 registries, all at the limits | five invariants hold (12,329 states) |
| `server_dangling` | 3 users, no crash, two introductions | `AddressGenuine` violated |
| `server_headerless` | 2 users, no header, 1 crash | `BothTold` violated |
| `server_trimmed` | 2 users whose names differ in a blank at the end, 1 crash | `AddressOfThatUser` violated |
| `punch_open` | one call, two filtering NATs, 10 punches | `OpenPortsConnect` violated |
| `punch_exit` | one call, `/exit` | `MenuListens` violated |

**Bounds.** `MaxRows` bounds logins, `MaxTime` ticks, `MaxRestarts` crashes,
`MaxInFlight` answers in flight when the next request comes, `MaxConsents` suspended
coroutines, `MaxTold` introductions begun; `MaxPunches` is the code's 10 in the two
runs that show a violation, and 2 in `punch` and `punch_live`; `MaxLines` bounds what
users type, `MaxRequests` requests on their way when the next line is typed,
`MaxFaults` faults, `MaxUsers` logins in `Codec`.

- *Server.* Three users are needed for the registry to move while a consent is suspended (two
  take part in the call, a third logs in at length 2), and three rows let one of them
  log in again or all three log in once. Two endpoints suffice for an address to be
  changed or exchanged. A second crash starts from the same file as the first plus a
  row; one introduction suffices for properties that speak of one introduction. The
  proofs drop all these bounds.
- *System.* Three users: two may call `b` at once, so that one call overtakes the
  answer to the other, and `b` calls back. `b` needs three lines to log in, accept, and
  do one thing more; the others two. Only `b` moves and can save its token, since that is where the
  interesting answers go. One fault shows each kind alone; the proofs allow
  any number. Tokens do not expire here; that is `server_lossy`'s part.
- *Punch.* In `punch` every punch arrives any number of times, since the network doubles, and a
  second one is sent for the loop to be stopped in between; two callees are needed for a
  listener to be offered a second connection. In `punch_live` both calls exist, and
  two punches suffice for either coroutine to be early, late, or stopped in between. A user
  who leaves is no part of `punch_live`: nothing is promised to who has left.
- *Chat.* Three lines of the caller put one before, one during and one after the
  connection of a second callee; one callee types, so that sends cross; the silent
  one does not leave, the other two do.
- *Codec.* Each request has a name that just fits 1024 bytes and one that just does
  not; lists end on the limit, one byte after it, in a name, in a size and between
  names, hold an empty name, and wrap the length, to 0 and to 1 too. The proofs drop the
  choice of names.

Users and endpoints are symmetric where no constant singles one out, and so are the two
callees of `punch` and the two others of `system`. No symmetry is used with liveness,
and in `server_lossy`, where the refinement is checked, only states and steps are compared, all of
which the endpoints' symmetry preserves.

`CHECK_DEADLOCK FALSE` is set for the runs of `Punch`, `Chat` and `System`: a call that was
given up, a chat that stays, or users with no line left are legitimate ends.

**Fairness.** In `Punch!FairSpec` timers expire (`WF` on the steps of punching
coroutines), since `io_context` runs as long as its work guard lives; the io thread goes on in
a hand-over; MsQuic repeats its first flight for longer than the other side's hand-over takes,
seconds against microseconds; and every datagram is dealt with: delivered, or discarded by NAT
or receiver (`WF` per datagram). Repetition is needed because a first flight may come while the
port belongs to nobody, between `CloseSocket` and `StartListener`. Users need not do anything.
In `Chat!FairSpec` a menu thread that has read a line goes on, so does a callback that has
begun, and MsQuic delivers what it has taken. Users, the path and timeouts owe nothing: connections
may stay in the handshake, or up, for ever.

**Findings.** Five runs disagree with what the repository says; `PROJECT.json` quotes
the lines.

1. `server_dangling`: between `ConnectToHost` and the answer to the host, a third
   user registers, `push_back` reallocates, and `res_attr` dangles.
2. `server_headerless`: the file the server creates has no header, so `loadUsers`
   reads nothing after a restart; tokens stay valid. The consent of a forgotten
   host is answered to the host only.
3. `server_trimmed`: the reader of `data.csv` trims, so after a restart `"alice "` is an entry of
   `alice`, and if it is the older one, its address is handed out as that of `alice`.
4. `punch_open`: A's punch opens A's NAT, but is blocked by B's; B's punch then reaches A, which
   enters the chat and punches no more. B's NAT is open, but nothing comes from A
   any more (a listener is silent), so B never connects.
   In the other role A's QUIC packet ends B's listener (`StrayQuic`).
5. `punch_exit`: after `/exit` the listener is spawned on the closed socket.

`CrossingConnects` is the part of `OpenPortsConnect` that does hold: if both
punches are in flight at once and will pass, the pair connects.

**Exceptions the properties name.** Some passing properties hold only with an exception,
which the model reaches and which a reader should know of:

- Two users who call each other may both become QUIC clients and wait for each other
  (`CrossingConnects` excludes calls that cross as well).
- A second callee's connection deletes the first one's object while the menu thread may be
  sending on it (`Client.cpp:412` against 184), and the caller may die of it; it may also die while
  it leaves, of an object the listener's callback has replaced or is about to configure
  (`UsesLiveObject` excludes a caller that leaves or has had an object deleted).
- `/exit` in the hand-over may reset the pointer startConnection is about to call through
  (`StartDangling`).
- A callee that connects between `connection_.reset()` and `listener_.reset()` stays
  connected to a client that is back in the menu (`late` in `OneOwner`).
- Lines typed before the stream exists are dropped, although `Client.cpp:254` has told
  the user to type (`NoLineSkipped` allows them at the beginning and the end).
- A send that MsQuic refuses is never looked at; its `QUIC_BUFFER` leaks (`leaked`).
  The bytes of every line leak (`Stream.cpp:42, 55`), which no state shows.
- `answerConsent` clears whatever call has arrived since, unseen. It may also copy the name of a
  caller that is just being assigned; that call then stays pending and may be answered again, and
  the call that was shown before it is never answered (`AnsweredOnce` leaves out what is in `raced`).
- A crash brings back the oldest row of a user; it stays until the user is heard of again
  (`FreshOnceSeen` speaks of the time after that).
- A client whose address changed is introduced at its old one until it logs in or accepts
  a call (`server.cpp:400`): `PunchesForWantedCall` says "an address of that
  user", not its present one.
- The length of a user list wraps at 65536 (`ListPrefix`: what is shown is a prefix, the
  empty one if the length has become 0 or 1).

## 4. Proofs

The theorems hold for every value of the constants that satisfies the named assumptions
(`ConstantsOK`, `SystemConstantsOK`, `ChatConstantsOK`: types of the constants; `None`, `Garbage`, `Torn` and
the like are distinct from what they stand in for; at least one punch per call; in `Codec`, a
text without bytes is the empty string, and a remembered name has come in a datagram). The
bounds of the runs are constants too, so nothing depends on them.

*Server.* `TypeOK` is not inductive alone: `ResumeConsent` reads element `w.ref`, so it
needs `ReferencesStay`, and the two are proved together (`TypeCorrect`,
`ReferencesStable`). The rest is one invariant on top of another:

- `Genuine`: every entry, every saved row and every introduction not garbage has been
  heard, entries and introductions under that name or one trimmed to it. Saved rows are needed
  because a crash turns them into entries. Hence `AddressesGenuine`, whatever is lost from the file.
- `FreshEntries`: for each name seen since the last crash the first match holds `latest`.
  Names need not be distinct in a registry that was loaded: that the first match is updated, and
  the first match is read, is what counts. Hence `EntriesFresh`.
- `Remembered`: registry and file both hold every name that has a token. It
  needs `Persistent` (header present, rows are written, no name spoils its row or is trimmed),
  which is the hypothesis of `HoldersRegistered`.
- `Both`: each suspended consent has its `ConnectToHost` behind it, sent to an endpoint of
  the accepted caller (which is `Genuine` again). With `HoldersRegistered` the branch
  without `ConnectToHost` is dead; hence `BothAreTold`.
  The run `server_headerless` shows that the hypothesis cannot be dropped.

The lemmas on `Find` and `Stored` say what they return and keep (`FindSpec`, `StoredSpec`).

*Refinement.* `ServerImplementsDirectory` (`DirectoryProofs`): every step of `Server` is a
step of `Directory` under the mapping, or changes nothing there. The argument is about
the first match of a name in the registry: storing a user changes its own entry and no
other (`EntryStored`), first matches never move, and so a suspended consent refers to
the entry of its caller (`RefersToEntry`). TLC checks it for a file that may lose rows; the case of a
durable file, where more is promised, is by proof only.

*System.* One invariant, `Inv`: besides the types it says what each client knows
(`Private`: its own tokens, who has called it), and that whatever is on its way was made of what its
sender had (`RequestOK`, `AnswerOK`, `RowsOK`). It is needed in full: that an introduction is
wanted rests on the consent, that on the token being the sender's own, that on
the answer having reached the right client, and that on the rows of the registry, over
a crash. From it:

- `SystemImplementsServer`: every step is one of `Server!Next`, so the theorems on the
  server hold of the whole system. The one case that takes an argument is the consent to a
  torn name, which `Server` has no request for: nobody has that name, so the handler
  answers as it answers a call of it (`HandledIsRequested`).
- `PunchesWanted`: a coroutine is spawned for an introduction, and those are wanted.
- `NoSecondAnswer`, with a count for each caller that was not `raced` (`Balance`): answers, plus
  its call if it waits, plus its call if it is being shown, are at most what was shown. A plain
  `answers <= shown` is not inductive, since it forgets that a waiting call has not been answered.
- `SystemTypes`.

*Punch.* `IInv` is built in four layers, each kept by a step from itself and those before:
`TypeOK`; `Ports` (a hand-over has neither listener nor connection, and past its first step no
socket; in the chat after it the socket is closed; a listener's connection is up);
`Traced` (every datagram, coroutine, hand-over, listener and connection leads back to an introduced
call, and the holes its sender needed are there); `Links` (a QUIC reply on its way, and a
connection that is up, comes from a listener who has taken that peer). They give `PortsExclusive`,
`RolesFollowCalls` and `LinksMutual`.

*Chat.* None of the properties is inductive. `IInv` has five parts, proved together:

- `Types`.
- `Menus`: the object the menu thread is about to use is one of its own client's.
- `Ownership`: an object that has a connection is the one `connection_` holds, as long as its
  client is in the chat or nobody was `late`; one that has none yet, or is deleted, is not held;
  what `/exit` is about to delete is what `connection_` holds. Hence `OwnedOnce`. What is held must be stated for the chat and for `late = {}` apart: a late callee
  breaks it only for a caller who has left.
- `Living`: an object is gone only if it was deleted or its client has died; the callback finds no
  connection to configure only if the caller has left; only the caller dies, and only then. With
  `Ownership` (what a callee's menu thread uses is held) it gives `LiveObjects`.
- `Lines`: the lines on a stream are consecutive, and the last of them is the last typed, or the
  one before that while a line is being sent, if the connection is up (`Sendable`). Without that
  the next line could leave a gap. Hence `LinesConsecutive`.

*Refinement of `Conversation`.* `ChatImplementsConversation` goes step by step over the menu thread and the
callbacks, from `IInv`. That a line is typed for the open end rests on `Ownership`: an open end is
the one held (`OpenIsHeld`). That `Say` leaves no gap is `Sendable`. That no second end opens
in the chat (`StreamOpens`) is `Ownership` after the step. A crash is a `Die` (`CrashDies`), as what a
client dies of in the chat is a line for an object that is gone.

*Codec.* The properties compare what is understood with what was sent, so the invariant, `IInv`,
says that what is under way was written from `sent` by one of the two encoders, and is from there on
about single messages. `Offsets` and the turns of the client's loop are recursive functions. That they
exist, and what holds of them at every index, is proved with least elements (`Least`): a first index
where a claim fails follows one where it holds. On that rest:

- `OffsetsStep`, `OffsetsGrow`: fields follow each other without overlap. Two fields may begin at
  one offset only if the first is empty. `ReadField`: what is read at the offset of a field, at its
  length, is that field, if it was received whole.
- `Int16Value`, `ReverseTwice`: integers and addresses survive the copies and swaps.
- `RequestRead`, `EndpointRead`, `TextRead`: each kind of message, field by field.
- `AllTurns`: after `i` turns the loop has read the first `i` names, or it has ended at the
  first name that is not whole, for the reason it says. `WholeSpec`: that is the prefix
  `Whole` names, the only one, as offsets grow by two bytes at least (`EndGrows`). With `ListFits`, a list that
  fits has all its names.

*Only model-checked.* The three liveness properties (`CrossingConnects`, `PunchingStops`,
`LinesArrive`): fairness and `ENABLED` are outside the prover's reach. Every
invariant and every refinement that a run checks is proved.

## 5. Plan

Done: all modules of section 2 with their runs, and the proofs of section 4. Next:

1. An abstract specification of `Punch`, what `Chat` and the users need of it: roles, the port's owner,
   connections that are mutual; with its refinement and proof.
2. Two of the exceptions of section 3 as invariants of their own, stronger than the exception: who
   the accepted caller of `answerConsent` can be, and what an introduction to an old address leads to.
3. The safety part of the liveness properties: that a step once possible stays possible until taken.

## 6. Not modelled

`Config` and the `main.cpp` files (start-up only), `QuicNetLog` (logging), cryptography
(tokens are unforgeable, QUIC's handshake is two packets), NATs that change the mapping
per destination (the code has no answer to them), how MsQuic cuts and joins the bytes of a
stream (each part is printed as a message, `Stream.cpp:58`), requests that no client
makes, two clients in one directory, and the CMake and vcpkg files.
