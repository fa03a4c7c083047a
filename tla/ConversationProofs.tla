--------------------------- MODULE ConversationProofs ---------------------------
(***************************************************************************)
(* Chat implements Conversation, for any callees and numbers of lines:     *)
(* every step of a menu thread or of a callback is a step of the           *)
(* conversation or leaves it as it is.                                     *)
(***************************************************************************)
EXTENDS ChatProofs

-----------------------------------------------------------------------------
(* What the instance is made of. *)

State == [o \in Object |-> StateOf(o)]
Saying == [c \in Client |-> IF menu[c].at = "send" THEN menu[c].object ELSE None]
Left == {c \in Client : appState_[c] = "Menu" \/ menu[c].at = "dead"}

\* A step that changes nothing a user sees.
Unseen ==
    /\ UNCHANGED <<typed, sent, received>>
    /\ Left' = Left
    /\ Saying' = Saying
    /\ State' = State

\* Such a step leaves the conversation as it is.
LEMMA UnseenStutters == Unseen => UNCHANGED V!vars
BY DEF Unseen, V!vars, Saying, State, Left

\* Nobody leaves but by /exit, or by dying.
LEMMA LeftStays ==
    ASSUME UNCHANGED appState_,
           \A c \in Client : menu'[c] = menu[c] \/ (menu'[c].at # "dead" /\ menu[c].at # "dead")
    PROVE  Left' = Left
<1>1. \A c \in Client : menu'[c].at = "dead" <=> menu[c].at = "dead"
    OBVIOUS
<1> QED
    BY <1>1 DEF Left

\* Which objects are open: those with a stream on a connection that is up.
LEMMA StateSpec ==
    \A o \in Object :
        /\ State[o] = "open" <=> link[o] = "up" /\ o \in stream_
        /\ State[o] = "over" <=> link[o] \in {"down", "gone"}
        /\ State[o] \in {"waiting", "open", "over"}
BY DEF State, StateOf

\* Who is in the chat holds the object that is open, and so has no other.
LEMMA OpenIsHeld ==
    ASSUME IInv, NEW o \in Object, State[o] = "open", appState_[o[1]] = "Chat"
    PROVE  connection_[o[1]] = o[2] /\ o = <<o[1], connection_[o[1]]>>
<1>1. link[o] = "up"
    BY StateSpec
<1>2. connection_[o[1]] = o[2]
    BY <1>1 DEF IInv, Ownership
<1>3. o = <<o[1], o[2]>>
    BY Objects
<1> QED
    BY <1>2, <1>3

\* The ends of a client that are open.
LEMMA OpenEndsSpec ==
    \A c : V!OpenEnds(c) = {o \in Object : o[1] = c /\ State[o] = "open"}
BY DEF V!OpenEnds, V!Mine, State

-----------------------------------------------------------------------------
(* The start, and the steps of a menu thread. *)

\* A chat starts as a conversation in which nobody has said anything.
LEMMA ChatStarts == Init => V!Init
<1> SUFFICES ASSUME Init PROVE V!Init
    OBVIOUS
<1>1. \A o \in Object : link[o] \in {"none", "new", "starting"}
    BY DEF Init
<1>2. State = [o \in Object |-> "waiting"]
    BY <1>1 DEF State, StateOf
<1>3. Saying = [c \in Client |-> None]
    BY DEF Init, Saying
<1>4. Left = {}
    <2>1. \A c \in Client : appState_[c] # "Menu" /\ menu[c].at # "dead"
        BY DEF Init
    <2> QED
        BY <2>1 DEF Left
<1> QED
    BY <1>2, <1>3, <1>4 DEF Init, V!Init, State, Saying, Left

\* A line is typed for the open object, if there is one.
LEMMA TypeLineTypes ==
    ASSUME IInv, NEW c \in Client, TypeLine(c)
    PROVE  V!Type(c)
<1>1. /\ appState_[c] = "Chat" /\ menu[c].at = "getline" /\ menu[c].object = None
      /\ typed' = [typed EXCEPT ![c] = @ + 1]
      /\ UNCHANGED <<appState_, link, stream_, sent, received>>
    BY DEF TypeLine, Reading, objects
<1>2. menu \in [Client -> [at : Step, object : Object \cup {None}]]
    BY DEF IInv, Types
<1>3. State' = State /\ Left' = Left /\ c \notin Left
    <2>1. State' = State /\ c \notin Left
        BY <1>1 DEF State, StateOf, Left
    <2>2. menu' = menu \/ menu' = [menu EXCEPT ![c] = [at |-> "send", object |-> <<c, connection_[c]>>]]
        BY DEF TypeLine, Go
    <2>3. \A x \in Client : menu'[x] = menu[x] \/ (menu'[x].at # "dead" /\ menu[x].at # "dead")
        BY <1>1, <1>2, <2>2
    <2> QED
        BY <1>1, <2>1, <2>3, LeftStays
<1>4. Saying[c] = None
    BY <1>1 DEF Saying
<1>5. PICK e : /\ e = IF connection_[c] = None THEN None ELSE <<c, connection_[c]>>
               /\ Saying' = [Saying EXCEPT ![c] = e]
    <2>1. CASE connection_[c] = None
        <3>1. menu' = menu
            BY <2>1 DEF TypeLine
        <3>2. Saying' = [Saying EXCEPT ![c] = None]
            BY <1>4, <3>1 DEF Saying
        <3> QED
            BY <2>1, <3>2
    <2>2. CASE connection_[c] # None
        <3>1. menu' = [menu EXCEPT ![c] = [at |-> "send", object |-> <<c, connection_[c]>>]]
            BY <2>2 DEF TypeLine, Go
        <3>2. Saying' = [Saying EXCEPT ![c] = <<c, connection_[c]>>]
            BY <1>2, <3>1 DEF Saying
        <3> QED
            BY <2>2, <3>2
    <2> QED
        BY <2>1, <2>2
<1>6. e \in IF V!OpenEnds(c) = {} THEN V!Mine(c) \cup {None} ELSE V!OpenEnds(c)
    <2>1. connection_[c] # None => <<c, connection_[c]>> \in Object
        BY DEF IInv, Menus, MenuOf
    <2>2. CASE V!OpenEnds(c) = {}
        <3>1. e = None \/ (e \in Object /\ e[1] = c)
            BY <1>5, <2>1
        <3> QED
            BY <2>2, <3>1 DEF V!Mine
    <2>3. CASE V!OpenEnds(c) # {}
        <3>1. PICK o \in Object : o[1] = c /\ State[o] = "open"
            BY <2>3, OpenEndsSpec
        <3>2. connection_[c] = o[2] /\ o = <<c, connection_[c]>> /\ o[2] \in Callee
            BY <1>1, <3>1, OpenIsHeld, Objects
        <3>3. e = o
            BY <1>5, <3>2, ChatConstantsOK
        <3> QED
            BY <2>3, <3>1, <3>3, OpenEndsSpec
    <2> QED
        BY <2>2, <2>3
<1> QED
    BY <1>1, <1>3, <1>4, <1>5, <1>6 DEF V!Type, State, Saying, Left

\* A line is put on the stream next after the one before, or is dropped because the
\* connection is not up.
LEMMA SendLineSays ==
    ASSUME IInv, NEW c \in Client, SendLine(c) \/ DropLine(c)
    PROVE  \E e \in Object : V!Say(c, e) \/ V!Drop(c, e)
<1>1. menu \in [Client -> [at : Step, object : Object \cup {None}]]
    BY DEF IInv, Types
<1>2. /\ menu[c].at = "send"
      /\ menu' = [menu EXCEPT ![c] = [at |-> "getline", object |-> None]]
      /\ UNCHANGED <<appState_, link, stream_, typed, received>>
    BY DEF SendLine, DropLine, Go, objects, lines
<1>3. PICK o \in Object : o = menu[c].object /\ o[1] = c
    BY <1>1, <1>2 DEF IInv, Menus, MenuOf
<1>4. State' = State /\ Left' = Left
    <2>1. \A x \in Client : menu'[x] = menu[x] \/ (menu'[x].at # "dead" /\ menu[x].at # "dead")
        BY <1>1, <1>2
    <2> QED
        BY <1>2, <2>1, LeftStays DEF State, StateOf
<1>5. Saying[c] = o /\ Saying' = [Saying EXCEPT ![c] = None]
    BY <1>1, <1>2, <1>3 DEF Saying
<1>6. CASE SendLine(c) /\ link[o] = "up"
    <2>1. o \in stream_ /\ sent' = [sent EXCEPT ![o] = Append(@, typed[c])]
        BY <1>3, <1>6 DEF SendLine
    <2>2. State[o] = "open"
        BY <1>3, <1>6, <2>1, StateSpec
    <2>3. menu[o[1]] = [at |-> "send", object |-> o]
        BY <1>1, <1>2, <1>3
    <2>4. sent[o] # <<>> => sent[o][Len(sent[o])] + 1 = typed[c]
        BY <1>3, <1>6, <2>3 DEF IInv, Lines, Sendable
    <2>5. V!Say(c, o)
        BY <1>2, <1>3, <1>4, <1>5, <2>1, <2>2, <2>4 DEF V!Say, State, Saying, Left
    <2> QED
        BY <1>3, <2>5
<1>7. CASE DropLine(c) \/ link[o] # "up"
    <2>1. State[o] # "open"
        BY <1>3, <1>7, StateSpec DEF DropLine
    <2>2. UNCHANGED sent
        BY <1>3, <1>7 DEF SendLine, DropLine, lines
    <2>3. V!Drop(c, o)
        BY <1>2, <1>3, <1>4, <1>5, <2>1, <2>2 DEF V!Drop, State, Saying, Left
    <2> QED
        BY <1>3, <2>3
<1> QED
    BY <1>6, <1>7

\* Who types /exit leaves with no line on its way.
LEMMA ExitLeaves ==
    ASSUME IInv, NEW c \in Client, Exit(c)
    PROVE  V!Leave(c)
<1>1. /\ appState_[c] = "Chat" /\ menu[c].at = "getline"
      /\ appState_' = [appState_ EXCEPT ![c] = "Menu"]
      /\ menu' = [menu EXCEPT ![c] = [at |-> "exit", object |-> None]]
      /\ UNCHANGED <<link, stream_, typed, sent, received>>
    BY DEF Exit, Reading, Go, objects, lines
<1>2. /\ menu \in [Client -> [at : Step, object : Object \cup {None}]]
      /\ appState_ \in [Client -> {"Menu", "Chat"}]
    BY DEF IInv, Types
<1>3. State' = State /\ Saying[c] = None
    BY <1>1 DEF State, StateOf, Saying
<1>4. Saying' = Saying
    BY <1>1, <1>2 DEF Saying
<1>5. Left' = Left \cup {c} /\ c \notin Left
    <2>1. \A x \in Client : menu'[x].at = "dead" <=> menu[x].at = "dead"
        BY <1>1, <1>2
    <2> QED
        BY <1>1, <1>2, <2>1 DEF Left
<1> QED
    BY <1>1, <1>3, <1>4, <1>5 DEF V!Leave, State, Saying, Left

\* The objects that are deleted are over afterwards, and nothing else changes.
LEMMA DeletingCloses ==
    ASSUME IInv, NEW old \in SUBSET Object, \A x \in old, y \in old : x = y,
           \A o \in Object \ old : StateOf(o)' = StateOf(o),
           \A o \in old : StateOf(o)' = "over",
           UNCHANGED <<typed, sent, received>>, Left' = Left, Saying' = Saying
    PROVE  Unseen \/ \E o \in Object : V!Close(o)
<1>1. CASE \A o \in old : State[o] = "over"
    <2>1. \A o \in Object : StateOf(o)' = StateOf(o)
        BY <1>1 DEF State
    <2>2. State' = State
        BY <2>1 DEF State
    <2> QED
        BY <2>2 DEF Unseen
<1>2. ASSUME NEW o \in old, State[o] # "over" PROVE V!Close(o)
    <2>1. State' = [State EXCEPT ![o] = "over"]
        <3>1. \A x \in Object : StateOf(x)' = IF x = o THEN "over" ELSE StateOf(x)
            BY <1>2
        <3> QED
            BY <3>1 DEF State
    <2> QED
        BY <1>2, <2>1 DEF V!Close, State, Saying, Left
<1> QED
    BY <1>1, <1>2

\* The steps of /exit after the first: an object that is still there is over.
LEMMA ExitCloses ==
    ASSUME IInv, NEW c \in Client, ExitTakes(c) \/ ExitDeletes(c) \/ ExitListener(c)
    PROVE  Unseen \/ \E o \in Object : V!Close(o)
<1>1. menu \in [Client -> [at : Step, object : Object \cup {None}]]
    BY DEF IInv, Types
<1>2. /\ menu[c].at \in {"exit", "exit delete", "exit listener"}
      /\ \E at \in {"exit delete", "exit listener", "getline"} : \E x :
            menu' = [menu EXCEPT ![c] = [at |-> at, object |-> x]]
      /\ UNCHANGED <<appState_, typed, sent, received>>
    BY DEF ExitTakes, ExitDeletes, ExitListener, Go, lines
<1>3. Saying' = Saying /\ Left' = Left
    <2>1. PICK at \in {"exit delete", "exit listener", "getline"}, x \in {menu'[c].object} :
              menu' = [menu EXCEPT ![c] = [at |-> at, object |-> x]]
        BY <1>1, <1>2
    <2>2. menu[c].at \notin {"send", "dead"} /\ menu'[c].at \notin {"send", "dead"}
        BY <1>1, <1>2, <2>1
    <2>3. \A b \in Client \ {c} : menu'[b] = menu[b]
        BY <1>1, <2>1
    <2>4. Saying' = Saying
        BY <2>2, <2>3 DEF Saying
    <2> QED
        BY <1>2, <2>2, <2>3, <2>4, LeftStays
<1>4. CASE ExitTakes(c) \/ ExitListener(c)
    <2>1. UNCHANGED <<link, stream_>>
        BY <1>4 DEF ExitTakes, ExitListener, objects
    <2> QED
        BY <1>2, <1>3, <2>1 DEF Unseen, State, StateOf
<1>5. CASE ExitDeletes(c)
    <2> DEFINE old == {menu[c].object} \cap Object
    <2>1. /\ link' = [o \in Object |-> IF o \in old THEN "gone" ELSE link[o]]
          /\ stream_' = stream_ \ old
        BY <1>5 DEF ExitDeletes, Delete, Vanish
    <2>2. \A o \in Object \ old : StateOf(o)' = StateOf(o)
        BY <2>1 DEF StateOf
    <2>3. \A o \in old : StateOf(o)' = "over"
        BY <2>1 DEF StateOf
    <2> QED
        BY <1>2, <1>3, <2>2, <2>3, DeletingCloses
<1> QED
    BY <1>4, <1>5

-----------------------------------------------------------------------------
(* The steps of the callbacks. *)

\* A new connection ends the chat it replaces, and waits for its stream.
LEMMA NewConnectionCloses ==
    ASSUME IInv, NEW k \in Callee, NewConnection(k)
    PROVE  Unseen \/ \E o \in Object : V!Close(o)
<1> DEFINE old == {<<Caller, connection_[Caller]>>} \cap Object
           new == <<Caller, k>>
<1>1. /\ link[new] = "none"
      /\ link' = [o \in Object |-> IF o \in old THEN "gone"
                                   ELSE IF o = new THEN "new" ELSE link[o]]
      /\ stream_' = stream_ \ old
      /\ UNCHANGED <<appState_, menu, typed, sent, received>>
    BY DEF NewConnection, lines
<1>2. new \in Object /\ new \notin stream_
    <2>1. new \in Object
        BY Objects
    <2>2. new \in stream_ => link[new] \in {"up", "down"}
        BY <2>1 DEF IInv, Lines
    <2> QED
        BY <1>1, <2>1, <2>2
<1>3. \A o \in Object \ old : StateOf(o)' = StateOf(o)
    BY <1>1, <1>2 DEF StateOf
<1>4. \A o \in old : StateOf(o)' = "over"
    BY <1>1 DEF StateOf
<1>5. Saying' = Saying /\ Left' = Left
    BY <1>1 DEF Saying, Left
<1> QED
    BY <1>1, <1>3, <1>4, <1>5, DeletingCloses

\* Whichever side's stream is there, a client in the chat opens no second end.
LEMMA StreamOpens ==
    ASSUME IInv, IInv', NEW o \in Object, State[o] = "waiting",
           link'[o] = "up", stream_' = stream_ \cup {o},
           \A x \in Object \ {o} : link'[x] = link[x],
           UNCHANGED <<appState_, menu, typed, sent, received>>
    PROVE  V!Open(o)
<1>1. State' = [State EXCEPT ![o] = "open"]
    <2>1. \A x \in Object : StateOf(x)' = IF x = o THEN "open" ELSE StateOf(x)
        BY DEF StateOf
    <2> QED
        BY <2>1 DEF State
<1>2. ASSUME o[1] \notin Left PROVE V!OpenEnds(o[1]) = {}
    <2> SUFFICES ASSUME NEW x \in Object, x[1] = o[1], State[x] = "open" PROVE FALSE
        BY OpenEndsSpec
    <2>1. x # o /\ link'[x] = "up" /\ link'[o] = "up"
        BY StateSpec
    <2>2. appState_'[o[1]] = "Chat"
        BY <1>2, Objects DEF Left, IInv, Types
    <2>3. connection_'[o[1]] = o[2] /\ connection_'[x[1]] = x[2]
        BY <2>1, <2>2 DEF IInv, Ownership
    <2> QED
        BY <2>1, <2>3, Objects
<1>3. Saying' = Saying /\ Left' = Left
    BY DEF Saying, Left
<1> QED
    BY <1>1, <1>2, <1>3 DEF V!Open, State, Saying, Left

\* The callbacks: they open, close and print.
LEMMA CallbackSeen ==
    ASSUME IInv, IInv', Callback
    PROVE  Unseen \/ \E o \in Object : V!Open(o) \/ V!Close(o) \/ V!Hear(o)
<1>1. ASSUME NEW k \in Callee, NewConnection(k)
      PROVE  Unseen \/ \E o \in Object : V!Close(o)
    BY <1>1, NewConnectionCloses
<1>2. ASSUME NEW k \in Callee, onClientConnected(k)
      PROVE  V!Open(<<k, k>>) /\ <<k, k>> \in Object
    <2>1. /\ link[<<k, k>>] = "starting" /\ link' = [link EXCEPT ![<<k, k>>] = "up"]
          /\ stream_' = stream_ \cup {<<k, k>>}
          /\ UNCHANGED <<appState_, menu, typed, sent, received>>
        BY <1>2 DEF onClientConnected, lines
    <2>2. <<k, k>> \in Object
        BY Objects
    <2>3. link \in [Object -> {"none", "new", "starting", "up", "down", "gone"}]
        BY DEF IInv, Types
    <2>4. State[<<k, k>>] = "waiting"
        BY <2>1, <2>2 DEF State, StateOf
    <2>5. link'[<<k, k>>] = "up" /\ \A x \in Object \ {<<k, k>>} : link'[x] = link[x]
        BY <2>1, <2>2, <2>3
    <2> QED
        BY <2>1, <2>2, <2>4, <2>5, StreamOpens
<1>3. ASSUME NEW k \in Callee, onServerIncomingStream(k)
      PROVE  V!Open(<<Caller, k>>) /\ <<Caller, k>> \in Object
    <2>1. /\ link[<<Caller, k>>] = "up" /\ link' = link
          /\ <<Caller, k>> \notin stream_ /\ stream_' = stream_ \cup {<<Caller, k>>}
          /\ UNCHANGED <<appState_, menu, typed, sent, received>>
        BY <1>3 DEF onServerIncomingStream, lines
    <2>2. <<Caller, k>> \in Object
        BY Objects
    <2>3. State[<<Caller, k>>] = "waiting"
        BY <2>1, <2>2 DEF State, StateOf
    <2> QED
        BY <2>1, <2>2, <2>3, StreamOpens
<1>4. ASSUME NEW o \in Object, OnDataReceive(o) PROVE V!Hear(o)
    <2>1. /\ o \in stream_ /\ link[o] = "up" /\ received[o] < Len(sent[Other(o)])
          /\ received' = [received EXCEPT ![o] = @ + 1]
          /\ UNCHANGED <<appState_, menu, link, stream_, typed, sent>>
        BY <1>4 DEF OnDataReceive, objects
    <2>2. State[o] = "open" /\ State' = State /\ Saying' = Saying
        BY <2>1, StateSpec DEF State, StateOf, Saying
    <2>3. Left' = Left
        BY <2>1 DEF Left
    <2> QED
        BY <2>1, <2>2, <2>3 DEF V!Hear, State, Saying, Left
<1>5. ASSUME NEW o \in Object, SendComplete(o) PROVE Unseen
    <2>1. UNCHANGED <<appState_, menu, link, stream_, typed, sent, received>>
        BY <1>5 DEF SendComplete, lines
    <2> QED
        BY <2>1 DEF Unseen, State, StateOf, Saying, Left
<1>6. ASSUME NEW o \in Object, Shutdown(o) PROVE V!Close(o)
    <2>1. /\ link[o] \in {"starting", "new", "up"} /\ link' = [link EXCEPT ![o] = "down"]
          /\ UNCHANGED <<appState_, menu, stream_, typed, sent, received>>
        BY <1>6 DEF Shutdown, lines
    <2>2. link \in [Object -> {"none", "new", "starting", "up", "down", "gone"}]
        BY DEF IInv, Types
    <2>3. State[o] # "over"
        BY <2>1, StateSpec
    <2>4. \A x \in Object : StateOf(x)' = IF x = o THEN "over" ELSE StateOf(x)
        BY <2>1, <2>2 DEF StateOf
    <2>5. State' = [State EXCEPT ![o] = "over"] /\ Saying' = Saying /\ Left' = Left
        BY <2>1, <2>4 DEF State, Saying, Left
    <2> QED
        BY <2>1, <2>3, <2>5 DEF V!Close, State, Saying, Left
<1>7. ASSUME NEW k \in Callee, SetConfiguration(k) PROVE Unseen
    <2> DEFINE o == <<Caller, connection_[Caller]>>
    <2>1. UNCHANGED <<appState_, menu, stream_, typed, sent, received>>
        BY <1>7 DEF SetConfiguration, lines
    <2>2. \/ o \in Object /\ link[o] = "new" /\ link' = [link EXCEPT ![o] = "up"]
          \/ UNCHANGED link
        BY <1>7 DEF SetConfiguration
    <2> HIDE DEF o
    <2>3. \A x \in Object : StateOf(x)' = StateOf(x)
        <3> SUFFICES ASSUME NEW x \in Object PROVE StateOf(x)' = StateOf(x)
            OBVIOUS
        <3>1. \/ link'[x] = link[x]
              \/ link[x] = "new" /\ link'[x] = "up"
            BY <2>2 DEF IInv, Types
        <3>2. link[x] = "new" => x \notin stream_
            BY DEF IInv, Lines
        <3> QED
            BY <2>1, <3>1, <3>2 DEF StateOf
    <2> QED
        BY <2>1, <2>3 DEF Unseen, State, Saying, Left
<1> QED
    BY <1>1, <1>2, <1>3, <1>4, <1>5, <1>6, <1>7 DEF Callback

\* Who uses what is gone has left already, or has typed a line for what is over.
LEMMA CrashDies ==
    ASSUME IInv, NEW c \in Client, Crash(c)
    PROVE  V!Die(c)
<1> DEFINE os == {o \in Object : o[1] = c /\ link[o] # "none"}
<1>1. menu \in [Client -> [at : Step, object : Object \cup {None}]]
    BY DEF IInv, Types
<1>2. /\ UsesFreed(c)
      /\ menu' = [menu EXCEPT ![c] = [at |-> "dead", object |-> None]]
      /\ link' = [o \in Object |-> IF o \in os THEN "gone" ELSE link[o]]
      /\ stream_' = stream_ \ os
      /\ UNCHANGED <<appState_, typed, sent, received>>
    BY DEF Crash, Vanish, Go, lines
<1>3. c \in Left \/ (Saying[c] # None /\ State[Saying[c]] = "over")
    <2>1. CASE menu[c].at = "send" /\ menu[c].object # None /\ link[menu[c].object] = "gone"
        <3>1. menu[c].object \in Object /\ Saying[c] = menu[c].object
            BY <1>1, <2>1 DEF Saying
        <3> QED
            BY <2>1, <3>1, StateSpec
    <2>2. CASE menu[c].at = "exit delete"
        BY <2>2 DEF IInv, Menus, MenuOf, Left
    <2>3. CASE c = Caller /\ configuring # {} /\ connection_[c] = None
        BY <2>3 DEF IInv, Living, Left
    <2> QED
        BY <1>2, <2>1, <2>2, <2>3 DEF UsesFreed
<1>4. Left' = Left \cup {c}
    <2>1. \A x \in Client : menu'[x].at = "dead" <=> menu[x].at = "dead" \/ x = c
        BY <1>1, <1>2
    <2> QED
        BY <1>2, <2>1 DEF Left
<1>5. Saying' = [Saying EXCEPT ![c] = None]
    BY <1>1, <1>2 DEF Saying
<1>6. os \in SUBSET V!Mine(c) /\ V!OpenEnds(c) \subseteq os
    <2>1. \A o \in Object : State[o] = "open" => link[o] # "none"
        BY StateSpec
    <2>2. V!OpenEnds(c) \subseteq os
        BY <2>1, OpenEndsSpec
    <2>3. V!Mine(c) = {o \in Object : o[1] = c}
        BY DEF V!Mine
    <2> QED
        BY <2>2, <2>3
<1>7. State' = [o \in Object |-> IF o \in os THEN "over" ELSE State[o]]
    <2>1. \A o \in Object : StateOf(o)' = IF o \in os THEN "over" ELSE StateOf(o)
        BY <1>2 DEF StateOf
    <2> QED
        BY <2>1 DEF State
<1> HIDE DEF os
<1> QED
    BY <1>2, <1>3, <1>4, <1>5, <1>6, <1>7 DEF V!Die, State, Saying, Left

-----------------------------------------------------------------------------
\* Every step is a step of the conversation or leaves it as it is.
LEMMA ChatStep == IInv /\ IInv' /\ [Next]_vars => [V!Next]_(V!vars)
<1> SUFFICES ASSUME IInv, IInv', [Next]_vars PROVE [V!Next]_(V!vars)
    OBVIOUS
<1>1. CASE UNCHANGED vars
    BY <1>1, UnseenStutters DEF vars, Unseen, State, StateOf, Saying, Left
<1>2. ASSUME NEW c \in Client, TypeLine(c) PROVE V!Next
    BY <1>2, TypeLineTypes DEF V!Next
<1>3. ASSUME NEW c \in Client, Exit(c) PROVE V!Next
    BY <1>3, ExitLeaves DEF V!Next
<1>4. ASSUME NEW c \in Client, SendLine(c) \/ DropLine(c) PROVE V!Next
    BY <1>4, SendLineSays DEF V!Next
<1>5. ASSUME NEW c \in Client, ExitTakes(c) \/ ExitDeletes(c) \/ ExitListener(c)
      PROVE  [V!Next]_(V!vars)
    BY <1>5, ExitCloses, UnseenStutters DEF V!Next
<1>6. CASE Callback
    BY <1>6, CallbackSeen, UnseenStutters DEF V!Next
<1>7. ASSUME NEW c \in Client, Crash(c) PROVE V!Next
    BY <1>7, CrashDies DEF V!Next
<1> QED
    BY <1>1, <1>2, <1>3, <1>4, <1>5, <1>6, <1>7 DEF Next, MenuThread

\* The chat implements the conversation: objects are ends, open while they have a stream on
\* a connection that is up, and what is put on a stream is said.
THEOREM ChatImplementsConversation == Spec => ImplementsConversation
BY ChatStarts, Always, ChatStep, PTL DEF Spec, ImplementsConversation, V!Spec

===============================================================================
