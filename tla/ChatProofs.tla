------------------------------ MODULE ChatProofs -------------------------------
(***************************************************************************)
(* Proofs of the safety properties of Chat, for any callees, any number of *)
(* lines, and whoever may leave.                                           *)
(***************************************************************************)
EXTENDS Chat, SequenceTheorems, TLAPS

-----------------------------------------------------------------------------
(* The invariant. *)

\* The types of the variables, the bounds on lines apart.
Types ==
    /\ appState_ \in [Client -> {"Menu", "Chat"}]
    /\ menu \in [Client -> [at : Step, object : Object \cup {None}]]
    /\ listener_ \in BOOLEAN
    /\ connection_ \in [Client -> Callee \cup {None}]
    /\ link \in [Object -> {"none", "new", "starting", "up", "down", "gone"}]
    /\ stream_ \subseteq Object
    /\ opened \subseteq Callee
    /\ configuring \subseteq Callee
    /\ configured \subseteq Callee
    /\ typed \in [Client -> Nat]
    /\ sent \in [Object -> Seq(Nat)]
    /\ received \in [Object -> Nat]
    /\ unfreed \in [Object -> Nat]
    /\ leaked \subseteq Object
    /\ deleted \in [Object -> Nat]
    /\ late \subseteq Callee

\* What the menu thread is about to do concerns an object of its own, and who is in
\* the middle of /exit is in the menu.
MenuOf(c) ==
    /\ connection_[c] # None => <<c, connection_[c]>> \in Object
    /\ menu[c].object # None => menu[c].object[1] = c
    /\ menu[c].at = "getline" => menu[c].object = None
    /\ menu[c].at = "send" => menu[c].object # None /\ appState_[c] = "Chat"
    /\ menu[c].at \in {"exit", "exit delete", "exit listener"} => appState_[c] = "Menu"

Menus == \A c \in Client : MenuOf(c)

\* An object is alive while its client holds it, at least in the chat; it is deleted when it is
\* not held any more, and what /exit deletes is still held unless somebody was late.
Ownership ==
    /\ \A o \in Object :
        /\ link[o] \notin {"none", "gone"} /\ (appState_[o[1]] = "Chat" \/ late = {}) =>
              connection_[o[1]] = o[2]
        /\ link[o] \in {"none", "gone"} => connection_[o[1]] # o[2]
        /\ link[o] = "gone" /\ o[1] # Caller => appState_[o[1]] = "Menu"
        /\ link[o] # "gone" => deleted[o] = 0
        /\ late = {} => deleted[o] <= 1
    /\ \A c \in Client :
        menu[c].at = "exit delete" /\ (late = {} \/ c # Caller) =>
            menu[c].object = IF connection_[c] = None THEN None ELSE <<c, connection_[c]>>

\* An object is gone only if it was deleted, or its client has died; the callback finds a
\* connection to configure unless /exit took it away; and only the caller dies.
Living ==
    /\ \A o \in Object : link[o] = "gone" => deleted[o] > 0 \/ menu[o[1]].at = "dead"
    /\ configuring # {} /\ connection_[Caller] = None => appState_[Caller] = "Menu"
    /\ \A c \in Client :
        menu[c].at = "dead" =>
            c = Caller /\ (appState_[c] = "Menu" \/ \E o \in Object : deleted[o] > 0)

\* The last line of an object came before the one that is just being sent, at once before it
\* if the connection is up.
Sendable(o, last) ==
    LET next == IF menu[o[1]] = [at |-> "send", object |-> o] THEN last + 1 ELSE last
    IN /\ next <= typed[o[1]]
       /\ link[o] = "up" => o \in stream_ /\ next = typed[o[1]]

\* Lines by number, one after the other.
Consecutive(s) ==
    \A i \in 1 .. Len(s) : s[i] > 0 /\ s[i] + Len(s) = s[Len(s)] + i

\* The lines of an object are consecutive, and as long as its connection is up the last
\* is the one typed last, or the one before if that is just being sent.
Lines ==
    /\ \A c \in Client :
        /\ typed[c] <= MaxLines[c]
        /\ menu[c].at = "send" => typed[c] > 0
    /\ \A o \in Object :
        /\ o \in stream_ => link[o] \in {"up", "down"}
        /\ link[o] \in {"none", "new", "starting"} => sent[o] = <<>>
        /\ Consecutive(sent[o])
        /\ sent[o] # <<>> => Sendable(o, sent[o][Len(sent[o])])
        /\ received[o] <= Len(sent[Other(o)])
        /\ unfreed[o] <= Len(sent[o])

IInv ==
    /\ Types
    /\ Menus
    /\ Ownership
    /\ Living
    /\ Lines

-----------------------------------------------------------------------------
(* Lines and objects. *)

\* The line after the last one is put behind it.
LEMMA AppendConsecutive ==
    ASSUME NEW s \in Seq(Nat), NEW n \in Nat, n > 0, Consecutive(s), s # <<>> => s[Len(s)] + 1 = n
    PROVE  /\ Append(s, n) \in Seq(Nat) /\ Append(s, n) # <<>>
           /\ Len(Append(s, n)) = Len(s) + 1 /\ Append(s, n)[Len(s) + 1] = n
           /\ Consecutive(Append(s, n))
<1> DEFINE t == Append(s, n)
<1>1. Len(s) \in Nat /\ t \in Seq(Nat) /\ Len(t) = Len(s) + 1
    OBVIOUS
<1>2. t[Len(s) + 1] = n /\ (\A i \in 1 .. Len(s) : t[i] = s[i])
    OBVIOUS
<1>3. t # <<>>
    BY <1>1
<1>4. ASSUME NEW i \in 1 .. Len(t) PROVE t[i] > 0 /\ t[i] + Len(t) = t[Len(t)] + i
    <2>1. CASE i = Len(s) + 1
        BY <1>1, <1>2, <2>1
    <2>2. CASE i # Len(s) + 1
        <3>1. i \in 1 .. Len(s) /\ i \in Nat
            BY <1>1, <2>2
        <3>2. s # <<>> /\ s[i] \in Nat /\ s[Len(s)] \in Nat
            BY <1>1, <3>1
        <3>3. t[i] = s[i] /\ t[Len(t)] = s[Len(s)] + 1 /\ s[i] > 0 /\ s[i] + Len(s) = s[Len(s)] + i
            BY <1>1, <1>2, <3>1, <3>2 DEF Consecutive
        <3>4. t[i] + Len(t) = s[i] + Len(s) + 1 /\ t[Len(t)] + i = s[Len(s)] + i + 1
            <4>1. Len(s) \in Nat /\ Len(t) = Len(s) + 1
                BY <1>1
            <4>2. \A x \in Nat, z \in Nat, m \in Nat :
                      x + m = z + i => x + (m + 1) = x + m + 1 /\ (z + 1) + i = z + i + 1
                BY <3>1
            <4> QED
                BY <3>2, <3>3, <4>1, <4>2
        <3> QED
            BY <3>3, <3>4
    <2> QED
        BY <2>1, <2>2
<1>5. Consecutive(t)
    BY <1>4 DEF Consecutive
<1> QED
    BY <1>1, <1>2, <1>3, <1>5

\* An object belongs to the caller or to its callee, and so does the one at the other end.
LEMMA Objects ==
    /\ \A o \in Object : /\ o = <<o[1], o[2]>> /\ o[1] \in Client /\ o[2] \in Callee
                         /\ o[1] = Caller \/ o[1] = o[2]
                         /\ Other(o) \in Object /\ Other(Other(o)) = o
    /\ \A k \in Callee : <<Caller, k>> \in Object /\ <<k, k>> \in Object /\ Caller # k
    /\ None \notin Object
    /\ \A c : <<c, None>> \notin Object
<1>1. \A o \in Object : /\ o = <<o[1], o[2]>> /\ o[1] \in Client /\ o[2] \in Callee
                        /\ o[1] = Caller \/ o[1] = o[2]
    BY DEF Object
<1>2. \A k \in Callee : <<Caller, k>> \in Object /\ <<k, k>> \in Object /\ Caller # k
    BY ChatConstantsOK DEF Object, Client
<1>3. \A o \in Object : Other(o) \in Object /\ Other(Other(o)) = o
    <2> SUFFICES ASSUME NEW o \in Object PROVE Other(o) \in Object /\ Other(Other(o)) = o
        OBVIOUS
    <2>1. CASE o[1] = Caller
        BY <1>1, <1>2, <2>1 DEF Other
    <2>2. CASE o[1] # Caller
        BY <1>1, <1>2, <2>2 DEF Other
    <2> QED
        BY <2>1, <2>2
<1>4. None \notin Object
    BY ChatConstantsOK DEF Object, Client
<1>5. \A c : <<c, None>> \notin Object
    BY <1>1, ChatConstantsOK
<1> QED
    BY <1>1, <1>2, <1>3, <1>4, <1>5

\* At the start.
LEMMA InitIInv == Init => IInv
<1> SUFFICES ASSUME Init PROVE IInv
    OBVIOUS
<1>1. Types
    BY ChatConstantsOK DEF Init, Types, Step, Client, Object
<1>2. Menus
    BY Objects, ChatConstantsOK DEF Init, Menus, MenuOf, Client
<1>3. Ownership
    <2>1. \A o \in Object : link[o] # "gone" /\ deleted[o] = 0
                            /\ (link[o] # "none" <=> connection_[o[1]] = o[2])
        BY Objects, ChatConstantsOK DEF Init
    <2>2. \A c \in Client : menu[c].at = "getline"
        BY DEF Init
    <2>3. \A o \in Object : deleted[o] <= 1
        BY <2>1
    <2> QED
        BY <2>1, <2>2, <2>3 DEF Ownership
<1>4. Lines
    <2>1. \A o \in Object : link[o] \in {"none", "new", "starting"} /\ sent[o] = <<>>
                            /\ received[o] = 0 /\ unfreed[o] = 0
        BY DEF Init
    <2>2. \A c \in Client : typed[c] = 0 /\ MaxLines[c] \in Nat /\ menu[c].at = "getline"
        BY ChatConstantsOK DEF Init, Client
    <2>3. stream_ = {} /\ Len(<<>>) = 0
        BY DEF Init
    <2>4. \A c \in Client : typed[c] <= MaxLines[c] /\ menu[c].at # "send"
        BY <2>2
    <2>5. ASSUME NEW o \in Object
          PROVE  /\ received[o] <= Len(sent[Other(o)]) /\ unfreed[o] <= Len(sent[o])
                 /\ Consecutive(sent[o])
        <3>1. Len(sent[o]) = 0 /\ Len(sent[Other(o)]) = 0 /\ received[o] = 0 /\ unfreed[o] = 0
            BY <2>1, <2>3, Objects
        <3> QED
            BY <3>1 DEF Consecutive
    <2> QED
        BY <2>1, <2>3, <2>4, <2>5 DEF Lines
<1>5. Living
    <2>1. configuring = {} /\ \A c \in Client : menu[c].at = "getline"
        BY DEF Init
    <2>2. \A o \in Object : link[o] # "gone"
        BY DEF Init
    <2> QED
        BY <2>1, <2>2 DEF Living
<1> QED
    BY <1>1, <1>2, <1>3, <1>4, <1>5 DEF IInv

-----------------------------------------------------------------------------
(* What a step leaves alone. *)

\* The menu thread of one client goes on.
LEMMA GoSpec ==
    ASSUME Types, NEW c \in Client, NEW step \in Step, NEW o \in Object \cup {None}, Go(c, step, o)
    PROVE  /\ menu' \in [Client -> [at : Step, object : Object \cup {None}]]
           /\ menu'[c] = [at |-> step, object |-> o]
           /\ menu'[c].at = step /\ menu'[c].object = o
           /\ \A x \in Client \ {c} : menu'[x] = menu[x]
<1>1. /\ menu' \in [Client -> [at : Step, object : Object \cup {None}]]
      /\ menu'[c] = [at |-> step, object |-> o]
      /\ \A x \in Client \ {c} : menu'[x] = menu[x]
    BY DEF Types, Go
<1>2. menu'[c].at = step /\ menu'[c].object = o
    BY <1>1
<1> QED
    BY <1>1, <1>2

\* A step that changes neither who holds what nor what lives, and begins no deletion.
LEMMA OwnershipQuiet ==
    ASSUME Ownership, UNCHANGED <<appState_, connection_, deleted, late>>,
           \A o \in Object : \/ link'[o] = link[o]
                             \/ /\ link[o] \notin {"none", "gone"}
                                /\ link'[o] \notin {"none", "gone"},
           \A c \in Client : menu'[c].at = "exit delete" => menu'[c] = menu[c]
    PROVE  Ownership'
<1>1. \A o \in Object :
        /\ link'[o] = "gone" => link[o] = "gone"
        /\ link[o] = "gone" => link'[o] = "gone"
        /\ link'[o] = "none" => link[o] = "none"
        /\ link[o] = "none" => link'[o] = "none"
    OBVIOUS
<1> QED
    BY <1>1 DEF Ownership

\* A step in which nobody dies, and no object goes but by being deleted.
LEMMA LivingQuiet ==
    ASSUME Living,
           \A o \in Object : /\ link'[o] = "gone" => link[o] = "gone" \/ deleted'[o] > 0
                             /\ deleted[o] > 0 => deleted'[o] > 0,
           \A c \in Client : menu'[c] = menu[c] \/ (menu'[c].at # "dead" /\ menu[c].at # "dead"),
           \A c \in Client : appState_[c] = "Menu" => appState_'[c] = "Menu",
           configuring' # {} /\ connection_'[Caller] = None =>
               appState_'[Caller] = "Menu" \/ (configuring # {} /\ connection_[Caller] = None)
    PROVE  Living'
<1>1. Caller \in Client
    BY DEF Client
<1>2. ASSUME NEW o \in Object, link'[o] = "gone"
      PROVE  deleted'[o] > 0 \/ menu'[o[1]].at = "dead"
    <2>1. o[1] \in Client
        BY Objects
    <2>2. CASE deleted'[o] > 0
        BY <2>2
    <2>3. CASE ~(deleted'[o] > 0)
        <3>1. link[o] = "gone" /\ ~(deleted[o] > 0)
            BY <1>2, <2>3
        <3>2. menu[o[1]].at = "dead"
            BY <3>1 DEF Living
        <3>3. menu'[o[1]] = menu[o[1]]
            BY <2>1, <3>2
        <3> QED
            BY <3>2, <3>3
    <2> QED
        BY <2>2, <2>3
<1>3. configuring' # {} /\ connection_'[Caller] = None => appState_'[Caller] = "Menu"
    BY <1>1 DEF Living
<1>4. ASSUME NEW c \in Client, menu'[c].at = "dead"
      PROVE  c = Caller /\ (appState_'[c] = "Menu" \/ \E o \in Object : deleted'[o] > 0)
    <2>1. menu[c].at = "dead"
        BY <1>4
    <2>2. c = Caller /\ (appState_[c] = "Menu" \/ \E o \in Object : deleted[o] > 0)
        BY <2>1 DEF Living
    <2>3. ASSUME NEW o \in Object, deleted[o] > 0 PROVE deleted'[o] > 0
        BY <2>3
    <2> QED
        BY <2>2, <2>3
<1> QED
    BY <1>2, <1>3, <1>4 DEF Living

\* A step that sends and receives nothing: connections come up only without lines, and
\* go down, be their stream closed or not.
LEMMA LinesQuiet ==
    ASSUME Types, Lines, UNCHANGED <<typed, sent, received>>,
           \A c \in Client : menu'[c].at = "send" \/ menu[c].at = "send" => menu'[c] = menu[c],
           \A o \in Object :
               /\ o \in stream_' => link'[o] \in {"up", "down"}
               /\ link'[o] \in {"none", "new", "starting"} => link[o] \in {"none", "new", "starting"}
               /\ link'[o] = "up" => \/ link[o] = "up" /\ (o \in stream_ => o \in stream_')
                                     \/ link[o] \in {"none", "new", "starting"}
               /\ unfreed'[o] <= unfreed[o] /\ unfreed'[o] \in Nat
    PROVE  Lines'
<1>1. \A c \in Client : typed'[c] <= MaxLines[c] /\ (menu'[c].at = "send" => typed'[c] > 0)
    BY DEF Lines
<1>2. ASSUME NEW o \in Object, sent[o] # <<>> PROVE Sendable(o, sent[o][Len(sent[o])])'
    <2>1. o[1] \in Client
        BY Objects
    <2>2. menu'[o[1]] = [at |-> "send", object |-> o] <=> menu[o[1]] = [at |-> "send", object |-> o]
        BY <2>1
    <2>3. link'[o] = "up" => link[o] = "up" /\ (o \in stream_ => o \in stream_')
        BY <1>2 DEF Lines
    <2>4. Sendable(o, sent[o][Len(sent[o])])
        BY <1>2 DEF Lines
    <2> QED
        BY <2>2, <2>3, <2>4 DEF Sendable
<1>3. \A o \in Object : unfreed'[o] <= Len(sent[o])
    <2> SUFFICES ASSUME NEW o \in Object PROVE unfreed'[o] <= Len(sent[o])
        OBVIOUS
    <2>1. unfreed[o] \in Nat /\ unfreed'[o] \in Nat /\ Len(sent[o]) \in Nat
        BY DEF Types
    <2> QED
        BY <2>1 DEF Lines
<1>4. \A o \in Object : /\ o \in stream_' => link'[o] \in {"up", "down"}
                        /\ link'[o] \in {"none", "new", "starting"} => sent'[o] = <<>>
    BY DEF Lines
<1> QED
    BY <1>1, <1>2, <1>3, <1>4 DEF Lines

\* A step of one menu thread leaves the others alone.
LEMMA MenusStep ==
    ASSUME Menus, NEW c \in Client, MenuOf(c)',
           \A x \in Client \ {c} :
               menu'[x] = menu[x] /\ appState_'[x] = appState_[x] /\ connection_'[x] = connection_[x]
    PROVE  Menus'
<1>1. ASSUME NEW x \in Client \ {c} PROVE MenuOf(x)'
    <2>1. MenuOf(x) /\ menu'[x] = menu[x] /\ appState_'[x] = appState_[x]
          /\ connection_'[x] = connection_[x]
        BY DEF Menus
    <2> QED
        BY <2>1 DEF MenuOf
<1> QED
    BY <1>1 DEF Menus

\* The menu thread has dealt with a line, and the line has not gone to p.
LEMMA SendableAfter ==
    ASSUME Types, Lines, NEW c \in Client, NEW p \in Object, sent[p] # <<>>,
           UNCHANGED <<typed, link, stream_>>, sent'[p] = sent[p], menu'[c].at = "getline",
           \A x \in Client \ {c} : menu'[x] = menu[x],
           link[p] = "up" => menu[c] # [at |-> "send", object |-> p]
    PROVE  Sendable(p, sent[p][Len(sent[p])])'
<1> DEFINE last == sent[p][Len(sent[p])]
<1>1. Sendable(p, last)
    BY DEF Lines
<1>2. last \in Nat /\ typed[p[1]] \in Nat /\ p[1] \in Client
    BY Objects DEF Types
<1>3. Sendable(p, last)'
    <2>1. CASE menu'[p[1]] = menu[p[1]]
        BY <1>1, <2>1 DEF Sendable
    <2>2. CASE menu'[p[1]] # menu[p[1]]
        <3>1. p[1] = c /\ menu'[p[1]] # [at |-> "send", object |-> p]
            BY <1>2, <2>2
        <3>2. last <= typed[p[1]] /\ (link[p] = "up" => p \in stream_ /\ last = typed[p[1]])
            BY <1>1, <1>2, <3>1 DEF Sendable
        <3> QED
            BY <3>1, <3>2 DEF Sendable
    <2> QED
        BY <2>1, <2>2
<1> QED
    BY <1>3

-----------------------------------------------------------------------------
(* The steps of the menu thread. *)

\* A line is typed: what is to be sent is sent with the object that is held.
LEMMA TypeLineKeeps ==
    ASSUME IInv, NEW c \in Client, TypeLine(c)
    PROVE  IInv'
<1> USE DEF IInv
<1> DEFINE o == <<c, connection_[c]>>
<1>1. /\ UNCHANGED <<appState_, listener_, connection_, link, stream_, opened, configuring, configured, unfreed, leaked,
                     deleted, sent, received, late>>
      /\ typed' = [typed EXCEPT ![c] = @ + 1]
      /\ typed[c] < MaxLines[c]
      /\ menu[c] = [at |-> "getline", object |-> None] /\ appState_[c] = "Chat"
    BY DEF TypeLine, objects, Reading
<1>2. typed' \in [Client -> Nat] /\ typed'[c] = typed[c] + 1 /\ typed[c] \in Nat
      /\ \A x \in Client \ {c} : typed'[x] = typed[x]
    BY <1>1 DEF Types
<1>3. /\ menu' \in [Client -> [at : Step, object : Object \cup {None}]]
      /\ menu'[c] = IF connection_[c] = None THEN menu[c] ELSE [at |-> "send", object |-> o]
      /\ \A x \in Client \ {c} : menu'[x] = menu[x]
      /\ connection_[c] # None => o \in Object
    <2>1. CASE connection_[c] = None
        BY <2>1 DEF TypeLine, Types
    <2>2. CASE connection_[c] # None
        <3>1. o \in Object /\ "send" \in Step /\ Go(c, "send", o)
            BY <2>2 DEF TypeLine, Menus, MenuOf, Step
        <3> QED
            BY <2>2, <3>1, GoSpec
    <2> QED
        BY <2>1, <2>2
<1>4. Types'
    BY <1>1, <1>2, <1>3 DEF Types
<1>5. Menus'
    <2>1. ASSUME NEW x \in Client \ {c} PROVE menu'[x] = menu[x] /\ x \in Client
        BY <1>3
    <2>2. connection_[c] # None => o[1] = c /\ o # None
        BY Objects, <1>3
    <2>3. MenuOf(c)'
        <3>1. connection_'[c] # None => <<c, connection_'[c]>> \in Object
            BY <1>1, <1>3
        <3>2. CASE connection_[c] = None
            BY <1>1, <1>3, <3>1, <3>2 DEF MenuOf
        <3>3. CASE connection_[c] # None
            <4>1. menu'[c].at = "send" /\ menu'[c].object = o
                BY <1>3, <3>3
            <4> QED
                BY <1>1, <2>2, <3>1, <3>3, <4>1 DEF MenuOf
        <3> QED
            BY <3>2, <3>3
    <2> QED
        BY <1>1, <2>1, <2>3, MenusStep
<1>6. Ownership'
    <2>1. \A x \in Client : menu'[x].at = "exit delete" => menu'[x] = menu[x]
        <3>1. menu'[c] = menu[c] \/ menu'[c].at = "send"
            BY <1>3
        <3> QED
            BY <1>3, <3>1
    <2>2. \A p \in Object : link'[p] = link[p]
        BY <1>1
    <2> QED
        BY <1>1, <2>1, <2>2, OwnershipQuiet
<1>7. Lines'
    <2>1. \A x \in Client : typed'[x] <= MaxLines[x] /\ (menu'[x].at = "send" => typed'[x] > 0)
        BY <1>1, <1>2, <1>3, ChatConstantsOK DEF Lines, Client
    <2>2. ASSUME NEW p \in Object, sent[p] # <<>> PROVE Sendable(p, sent[p][Len(sent[p])])'
        <3>1. sent[p][Len(sent[p])] \in Nat
            BY <2>2 DEF Types
        <3>2. Sendable(p, sent[p][Len(sent[p])])
            BY <2>2 DEF Lines
        <3>3. CASE p[1] # c
            BY <1>1, <1>2, <1>3, <3>2, <3>3, Objects DEF Sendable
        <3>4. CASE p[1] = c
            <4>1. link[p] = "up" => connection_[c] = p[2] /\ o = p /\ connection_[c] # None
                BY <1>1, <3>4, Objects, ChatConstantsOK DEF Ownership
            <4> QED
                BY <1>1, <1>2, <1>3, <3>1, <3>2, <3>4, <4>1 DEF Sendable
        <3> QED
            BY <3>3, <3>4
    <2> QED
        BY <1>1, <2>1, <2>2 DEF Lines
<1>8. Living'
    <2>1. \A x \in Client : menu'[x] = menu[x] \/ (menu'[x].at # "dead" /\ menu[x].at # "dead")
        BY <1>1, <1>3
    <2>2. \A p \in Object : link'[p] = link[p] /\ deleted'[p] = deleted[p]
        BY <1>1
    <2> QED
        BY <1>1, <2>1, <2>2, LivingQuiet
<1> QED
    BY <1>4, <1>5, <1>6, <1>7, <1>8

\* A line is dropped, because the connection has no stream.
LEMMA DropLineKeeps ==
    ASSUME IInv, NEW c \in Client, DropLine(c)
    PROVE  IInv'
<1> USE DEF IInv
<1>1. /\ UNCHANGED <<appState_, listener_, connection_, link, stream_, opened, configuring, configured, unfreed, leaked,
                     deleted, typed, sent, received, late>>
      /\ menu[c].at = "send" /\ menu[c].object \notin stream_
    BY DEF DropLine, objects, lines
<1>2. /\ menu' \in [Client -> [at : Step, object : Object \cup {None}]]
      /\ menu'[c] = [at |-> "getline", object |-> None]
      /\ \A x \in Client \ {c} : menu'[x] = menu[x]
    BY GoSpec DEF DropLine, Step
<1>3. Types'
    BY <1>1, <1>2 DEF Types
<1>4. Menus'
    <2>1. menu'[c].at = "getline" /\ menu'[c].object = None
        BY <1>2
    <2>2. MenuOf(c)'
        BY <1>1, <2>1 DEF Menus, MenuOf
    <2> QED
        BY <1>1, <1>2, <2>2, MenusStep
<1>5. Ownership'
    <2>1. \A x \in Client : menu'[x].at = "exit delete" => menu'[x] = menu[x]
        <3>1. menu'[c].at = "getline"
            BY <1>2
        <3> QED
            BY <1>2, <3>1
    <2>2. \A p \in Object : link'[p] = link[p]
        BY <1>1
    <2> QED
        BY <1>1, <2>1, <2>2, OwnershipQuiet
<1>6. Lines'
    <2>1. \A x \in Client : typed'[x] <= MaxLines[x] /\ (menu'[x].at = "send" => typed'[x] > 0)
        BY <1>1, <1>2 DEF Lines
    <2>2. ASSUME NEW p \in Object, sent[p] # <<>> PROVE Sendable(p, sent[p][Len(sent[p])])'
        <3>1. link[p] = "up" => menu[c] # [at |-> "send", object |-> p]
            BY <1>1, <2>2 DEF Lines, Sendable
        <3> QED
            BY <1>1, <1>2, <2>2, <3>1, SendableAfter
    <2> QED
        BY <1>1, <2>1, <2>2 DEF Lines
<1>7. Living'
    <2>1. \A x \in Client : menu'[x] = menu[x] \/ (menu'[x].at # "dead" /\ menu[x].at # "dead")
        BY <1>1, <1>2
    <2>2. \A p \in Object : link'[p] = link[p] /\ deleted'[p] = deleted[p]
        BY <1>1
    <2> QED
        BY <1>1, <2>1, <2>2, LivingQuiet
<1> QED
    BY <1>3, <1>4, <1>5, <1>6, <1>7

\* A line is given to the stream, or refused since the connection is down.
LEMMA SendLineKeeps ==
    ASSUME IInv, NEW c \in Client, SendLine(c)
    PROVE  IInv'
<1> USE DEF IInv
<1> DEFINE o == menu[c].object
           s == sent[o]
<1>1. /\ UNCHANGED <<appState_, listener_, connection_, link, stream_, opened, configuring, configured, deleted, typed,
                     received, late>>
      /\ menu[c].at = "send" /\ o \in stream_
    BY DEF SendLine
<1>2. /\ menu' \in [Client -> [at : Step, object : Object \cup {None}]]
      /\ menu'[c] = [at |-> "getline", object |-> None]
      /\ \A x \in Client \ {c} : menu'[x] = menu[x]
    BY GoSpec DEF SendLine, Step
<1>3. /\ o \in Object /\ o[1] = c /\ menu[c] = [at |-> "send", object |-> o]
      /\ s \in Seq(Nat) /\ Len(s) \in Nat /\ unfreed[o] \in Nat
      /\ typed[c] \in Nat /\ typed[c] > 0
    <2>1. o \in Object
        BY <1>1 DEF Types
    <2>2. o[1] = c
        BY <1>1, <2>1, Objects DEF Menus, MenuOf
    <2> QED
        BY <1>1, <2>1, <2>2 DEF Types, Lines
<1>4. \/ /\ link[o] = "up" /\ UNCHANGED leaked
         /\ sent' = [sent EXCEPT ![o] = Append(@, typed[c])]
         /\ unfreed' = [unfreed EXCEPT ![o] = @ + 1]
      \/ /\ link[o] # "up" /\ leaked' = leaked \cup {o}
         /\ UNCHANGED <<sent, unfreed>>
    BY DEF SendLine
<1>5. Types'
    <2>1. CASE link[o] = "up"
        <3>1. /\ sent' = [sent EXCEPT ![o] = Append(s, typed[c])]
              /\ unfreed' = [unfreed EXCEPT ![o] = unfreed[o] + 1] /\ leaked' = leaked
            BY <1>4, <2>1
        <3>2. Append(s, typed[c]) \in Seq(Nat) /\ unfreed[o] + 1 \in Nat
            BY <1>3
        <3>3. sent' \in [Object -> Seq(Nat)] /\ unfreed' \in [Object -> Nat]
            BY <1>3, <3>1, <3>2 DEF Types
        <3> QED
            BY <1>1, <1>2, <3>1, <3>3 DEF Types
    <2>2. CASE link[o] # "up"
        BY <1>1, <1>2, <1>3, <1>4, <2>2 DEF Types
    <2> QED
        BY <2>1, <2>2
<1>6. Menus'
    <2>1. menu'[c].at = "getline" /\ menu'[c].object = None
        BY <1>2
    <2>2. MenuOf(c)'
        BY <1>1, <2>1 DEF Menus, MenuOf
    <2> QED
        BY <1>1, <1>2, <2>2, MenusStep
<1>7. Ownership'
    <2>1. \A x \in Client : menu'[x].at = "exit delete" => menu'[x] = menu[x]
        <3>1. menu'[c].at = "getline"
            BY <1>2
        <3> QED
            BY <1>2, <3>1
    <2>2. \A p \in Object : link'[p] = link[p]
        BY <1>1
    <2> QED
        BY <1>1, <2>1, <2>2, OwnershipQuiet
<1>8. Lines'
    <2>1. \A x \in Client : typed'[x] <= MaxLines[x] /\ (menu'[x].at = "send" => typed'[x] > 0)
        BY <1>1, <1>2 DEF Lines
    <2>2. ASSUME NEW p \in Object, sent[p] # <<>>, sent'[p] = sent[p], p = o => link[o] # "up"
          PROVE  Sendable(p, sent[p][Len(sent[p])])'
        <3>1. link[p] = "up" => menu[c] # [at |-> "send", object |-> p]
            BY <1>3, <2>2
        <3> QED
            BY <1>1, <1>2, <2>2, <3>1, SendableAfter
    <2>3. CASE link[o] # "up"
        BY <1>1, <1>4, <2>1, <2>2, <2>3 DEF Lines
    <2>4. CASE link[o] = "up"
        <3> DEFINE t == Append(s, typed[c])
        <3>1. /\ sent'[o] = t /\ unfreed'[o] = unfreed[o] + 1
              /\ \A p \in Object \ {o} : sent'[p] = sent[p] /\ unfreed'[p] = unfreed[p]
            BY <1>3, <1>4, <2>4 DEF Types
        <3>2. Consecutive(s) /\ (s # <<>> => s[Len(s)] + 1 = typed[c])
            BY <1>3, <2>4 DEF Lines, Sendable
        <3>3. Len(t) = Len(s) + 1 /\ t[Len(t)] = typed[c] /\ Consecutive(t)
            BY <1>3, <3>2, AppendConsecutive
        <3> HIDE DEF t
        <3>4. ASSUME NEW p \in Object, p = o PROVE Sendable(p, sent[p][Len(sent[p])])'
            <4>1. menu'[p[1]] # [at |-> "send", object |-> p]
                BY <1>2, <1>3, <3>4
            <4>2. sent'[p][Len(sent'[p])] = typed'[p[1]] /\ typed'[p[1]] \in Nat /\ p \in stream_'
                BY <1>1, <1>3, <3>1, <3>3, <3>4
            <4> QED
                BY <4>1, <4>2 DEF Sendable
        <3>5. ASSUME NEW p \in Object
              PROVE  received'[p] <= Len(sent'[Other(p)]) /\ unfreed'[p] <= Len(sent'[p])
            <4>1. /\ Other(p) \in Object /\ received[p] <= Len(sent[Other(p)])
                  /\ unfreed[p] <= Len(sent[p])
                BY Objects DEF Lines
            <4>2. /\ received[p] \in Nat /\ unfreed[p] \in Nat /\ Len(sent[p]) \in Nat
                  /\ Len(sent[Other(p)]) \in Nat
                BY <4>1 DEF Types
            <4>3. received[p] <= Len(sent'[Other(p)])
                BY <1>3, <3>1, <3>3, <4>1, <4>2
            <4>4. unfreed'[p] <= Len(sent'[p])
                <5>1. CASE p = o
                    BY <1>3, <3>1, <3>3, <4>1, <5>1
                <5>2. CASE p # o
                    BY <3>1, <4>1, <5>2
                <5> QED
                    BY <5>1, <5>2
            <4> QED
                BY <1>1, <4>3, <4>4
        <3>6. ASSUME NEW p \in Object
              PROVE  /\ link'[p] \in {"none", "new", "starting"} => sent'[p] = <<>>
                     /\ Consecutive(sent'[p])
                     /\ sent'[p] # <<>> => Sendable(p, sent[p][Len(sent[p])])'
            <4>1. CASE p = o
                <5>1. link'[p] = "up" /\ Consecutive(sent'[p])
                    BY <1>1, <2>4, <3>1, <3>3, <4>1
                <5> QED
                    BY <3>4, <4>1, <5>1
            <4>2. CASE p # o
                <5>1. sent'[p] = sent[p] /\ link'[p] = link[p]
                    BY <1>1, <3>1, <4>2
                <5>2. sent[p] # <<>> => Sendable(p, sent[p][Len(sent[p])])'
                    BY <2>2, <4>2, <5>1
                <5> QED
                    BY <5>1, <5>2 DEF Lines
            <4> QED
                BY <4>1, <4>2
        <3>7. \A p \in Object : p \in stream_' => link'[p] \in {"up", "down"}
            BY <1>1 DEF Lines
        <3> QED
            BY <2>1, <3>5, <3>6, <3>7 DEF Lines
    <2> QED
        BY <2>3, <2>4
<1>9. Living'
    <2>1. \A x \in Client : menu'[x] = menu[x] \/ (menu'[x].at # "dead" /\ menu[x].at # "dead")
        BY <1>1, <1>2
    <2>2. \A p \in Object : link'[p] = link[p] /\ deleted'[p] = deleted[p]
        BY <1>1
    <2> QED
        BY <1>1, <2>1, <2>2, LivingQuiet
<1> QED
    BY <1>5, <1>6, <1>7, <1>8, <1>9

\* /exit: the state of the application changes.
LEMMA ExitKeeps ==
    ASSUME IInv, NEW c \in Client, Exit(c)
    PROVE  IInv'
<1> USE DEF IInv
<1>1. /\ UNCHANGED <<listener_, connection_, link, stream_, opened, configuring, configured, unfreed, leaked, deleted,
                     typed, sent, received, late>>
      /\ appState_' = [appState_ EXCEPT ![c] = "Menu"]
      /\ menu[c] = [at |-> "getline", object |-> None] /\ appState_[c] = "Chat"
    BY DEF Exit, Reading, objects, lines
<1>2. /\ menu' \in [Client -> [at : Step, object : Object \cup {None}]]
      /\ menu'[c].at = "exit" /\ menu'[c].object = None
      /\ \A x \in Client \ {c} : menu'[x] = menu[x]
    <2>1. "exit" \in Step /\ Go(c, "exit", None)
        BY DEF Exit, Step
    <2> QED
        BY <2>1, GoSpec
<1>3. /\ appState_'[c] = "Menu"
      /\ \A x \in Client \ {c} : appState_'[x] = appState_[x]
    BY <1>1 DEF Types
<1>4. Types'
    BY <1>1, <1>2 DEF Types
<1>5. Menus'
    <2>1. MenuOf(c)'
        BY <1>1, <1>2, <1>3 DEF Menus, MenuOf
    <2> QED
        BY <1>1, <1>2, <1>3, <2>1, MenusStep
<1>6. Ownership'
    <2>1. \A o \in Object : /\ appState_'[o[1]] = "Chat" => appState_[o[1]] = "Chat"
                            /\ appState_[o[1]] = "Menu" => appState_'[o[1]] = "Menu"
        BY <1>3, Objects
    <2>2. \A x \in Client : menu'[x].at = "exit delete" => menu'[x] = menu[x]
        BY <1>2
    <2>3. /\ \A o \in Object : link'[o] = link[o] /\ deleted'[o] = deleted[o]
          /\ connection_' = connection_ /\ late' = late
        BY <1>1
    <2>4. \A o \in Object : appState_'[o[1]] = "Chat" \/ late' = {} =>
              appState_[o[1]] = "Chat" \/ late = {}
        BY <2>1, <2>3
    <2>5. ASSUME NEW o \in Object
          PROVE  /\ link'[o] \notin {"none", "gone"}
                    /\ (appState_'[o[1]] = "Chat" \/ late' = {}) => connection_'[o[1]] = o[2]
                 /\ link'[o] \in {"none", "gone"} => connection_'[o[1]] # o[2]
                 /\ link'[o] = "gone" /\ o[1] # Caller => appState_'[o[1]] = "Menu"
                 /\ link'[o] # "gone" => deleted'[o] = 0
                 /\ late' = {} => deleted'[o] <= 1
        <3>1. /\ link[o] \notin {"none", "gone"}
                 /\ (appState_[o[1]] = "Chat" \/ late = {}) => connection_[o[1]] = o[2]
              /\ link[o] \in {"none", "gone"} => connection_[o[1]] # o[2]
              /\ link[o] = "gone" /\ o[1] # Caller => appState_[o[1]] = "Menu"
              /\ link[o] # "gone" => deleted[o] = 0
              /\ late = {} => deleted[o] <= 1
            BY DEF Ownership
        <3> QED
            BY <2>1, <2>3, <2>4, <3>1
    <2>6. \A x \in Client :
              menu'[x].at = "exit delete" /\ (late' = {} \/ x # Caller) =>
                  menu'[x].object = IF connection_'[x] = None THEN None ELSE <<x, connection_'[x]>>
        BY <2>2, <2>3 DEF Ownership
    <2> QED
        BY <2>5, <2>6 DEF Ownership
<1>7. Lines'
    <2>1. \A x \in Client : menu'[x].at = "send" \/ menu[x].at = "send" => menu'[x] = menu[x]
        BY <1>1, <1>2
    <2> QED
        BY <1>1, <2>1, LinesQuiet DEF Lines, Types
<1>8. Living'
    <2>1. \A x \in Client : menu'[x] = menu[x] \/ (menu'[x].at # "dead" /\ menu[x].at # "dead")
        BY <1>1, <1>2
    <2>2. \A p \in Object : link'[p] = link[p] /\ deleted'[p] = deleted[p]
        BY <1>1
    <2> QED
        BY <1>1, <1>3, <2>1, <2>2, LivingQuiet
<1> QED
    BY <1>4, <1>5, <1>6, <1>7, <1>8

\* ... connection_.reset() takes the pointer.
LEMMA ExitTakesKeeps ==
    ASSUME IInv, NEW c \in Client, ExitTakes(c)
    PROVE  IInv'
<1> USE DEF IInv
<1> DEFINE o == IF connection_[c] = None THEN None ELSE <<c, connection_[c]>>
<1>1. /\ UNCHANGED <<appState_, listener_, connection_, link, stream_, opened, configuring, configured, unfreed, leaked,
                     deleted, typed, sent, received, late>>
      /\ menu[c].at = "exit"
    BY DEF ExitTakes, objects, lines
<1>2. /\ menu' \in [Client -> [at : Step, object : Object \cup {None}]]
      /\ menu'[c].at = "exit delete" /\ menu'[c].object = o
      /\ \A x \in Client \ {c} : menu'[x] = menu[x]
    <2>1. "exit delete" \in Step /\ Go(c, "exit delete", o)
        BY DEF ExitTakes, Step
    <2>2. o \in Object \cup {None}
        BY DEF Menus, MenuOf
    <2> HIDE DEF o
    <2> QED
        BY <2>1, <2>2, GoSpec
<1>3. Types'
    BY <1>1, <1>2 DEF Types
<1>4. Menus'
    <2>1. menu'[c].at = "exit delete" /\ menu'[c].object = o
        BY <1>2
    <2>3. o # None => o[1] = c
        OBVIOUS
    <2>2. MenuOf(c)'
        BY <1>1, <2>1, <2>3 DEF Menus, MenuOf
    <2> QED
        BY <1>1, <1>2, <2>2, MenusStep
<1>5. Ownership'
    <2>1. \A p \in Object : link'[p] = link[p] /\ deleted'[p] = deleted[p]
        BY <1>1
    <2>2. menu'[c].object = IF connection_'[c] = None THEN None ELSE <<c, connection_'[c]>>
        BY <1>1, <1>2
    <2> QED
        BY <1>1, <1>2, <2>1, <2>2 DEF Ownership
<1>6. Lines'
    <2>1. \A x \in Client : menu'[x].at = "send" \/ menu[x].at = "send" => menu'[x] = menu[x]
        BY <1>1, <1>2
    <2> QED
        BY <1>1, <2>1, LinesQuiet DEF Lines, Types
<1>7. Living'
    <2>1. \A x \in Client : menu'[x] = menu[x] \/ (menu'[x].at # "dead" /\ menu[x].at # "dead")
        BY <1>1, <1>2
    <2>2. \A p \in Object : link'[p] = link[p] /\ deleted'[p] = deleted[p]
        BY <1>1
    <2> QED
        BY <1>1, <2>1, <2>2, LivingQuiet
<1> QED
    BY <1>3, <1>4, <1>5, <1>6, <1>7

\* ... clears it and deletes the object, which is alive unless a callee was late.
LEMMA ExitDeletesKeeps ==
    ASSUME IInv, NEW c \in Client, ExitDeletes(c)
    PROVE  IInv'
<1> USE DEF IInv
<1> DEFINE os == {menu[c].object} \cap Object
<1>1. /\ UNCHANGED <<appState_, listener_, opened, configuring, configured, leaked, typed, sent, received, late>>
      /\ menu[c].at = "exit delete" /\ appState_[c] = "Menu"
      /\ connection_' = [connection_ EXCEPT ![c] = None]
      /\ link' = [o \in Object |-> IF o \in os THEN "gone" ELSE link[o]]
      /\ stream_' = stream_ \ os
      /\ unfreed' = [o \in Object |-> IF o \in os THEN 0 ELSE unfreed[o]]
      /\ deleted' = [o \in Object |-> IF o \in os THEN deleted[o] + 1 ELSE deleted[o]]
    BY DEF ExitDeletes, Delete, Vanish, lines, Menus, MenuOf
<1>2. /\ menu' \in [Client -> [at : Step, object : Object \cup {None}]]
      /\ menu'[c].at = "exit listener" /\ menu'[c].object = None
      /\ \A x \in Client \ {c} : menu'[x] = menu[x]
    <2>1. "exit listener" \in Step /\ Go(c, "exit listener", None)
        BY DEF ExitDeletes, Step
    <2> QED
        BY <2>1, GoSpec
<1>3. /\ connection_'[c] = None
      /\ \A x \in Client \ {c} : connection_'[x] = connection_[x]
    BY <1>1 DEF Types
<1>4. \A o \in os : o \in Object /\ o[1] = c /\ o = menu[c].object
    BY Objects DEF Menus, MenuOf
<1>5. Types'
    <2>1. /\ link' \in [Object -> {"none", "new", "starting", "up", "down", "gone"}]
          /\ stream_' \subseteq Object
          /\ unfreed' \in [Object -> Nat] /\ deleted' \in [Object -> Nat]
        <3> HIDE DEF os
        <3>1. link' \in [Object -> {"none", "new", "starting", "up", "down", "gone"}]
            BY <1>1 DEF Types
        <3>2. unfreed' \in [Object -> Nat]
            BY <1>1 DEF Types
        <3>3. deleted' \in [Object -> Nat]
            <4>1. \A o \in Object : deleted[o] \in Nat /\ deleted[o] + 1 \in Nat
                BY DEF Types
            <4> QED
                BY <1>1, <4>1
        <3>4. stream_' \subseteq Object
            BY <1>1 DEF Types
        <3> QED
            BY <3>1, <3>2, <3>3, <3>4
    <2>2. connection_' \in [Client -> Callee \cup {None}]
        BY <1>1 DEF Types
    <2> HIDE DEF os
    <2> QED
        BY <1>1, <1>2, <2>1, <2>2 DEF Types
<1>6. Menus'
    <2>1. MenuOf(c)'
        BY <1>1, <1>2, <1>3 DEF Menus, MenuOf
    <2> QED
        BY <1>1, <1>2, <1>3, <2>1, MenusStep
<1> HIDE DEF os
<1>7. Ownership'
    <2>1. ASSUME NEW o \in Object
          PROVE  /\ link'[o] \notin {"none", "gone"} /\ (appState_'[o[1]] = "Chat" \/ late' = {}) =>
                       connection_'[o[1]] = o[2]
                 /\ link'[o] \in {"none", "gone"} => connection_'[o[1]] # o[2]
                 /\ link'[o] = "gone" /\ o[1] # Caller => appState_'[o[1]] = "Menu"
                 /\ link'[o] # "gone" => deleted'[o] = 0
                 /\ late' = {} => deleted'[o] <= 1
        <3>1. /\ o = <<o[1], o[2]>> /\ o[1] \in Client /\ o[2] # None
              /\ link'[o] = IF o \in os THEN "gone" ELSE link[o]
              /\ deleted'[o] = IF o \in os THEN deleted[o] + 1 ELSE deleted[o]
              /\ late' = late /\ appState_' = appState_
            BY <1>1, Objects, ChatConstantsOK
        <3>2. late = {} /\ o[1] = c => (o \in os <=> connection_[c] = o[2])
            <4>1. late = {} => menu[c].object = IF connection_[c] = None THEN None ELSE <<c, connection_[c]>>
                BY <1>1 DEF Ownership
            <4>2. o \in os <=> o = menu[c].object
                BY DEF os
            <4>3. o # None
                BY Objects
            <4> QED
                BY <3>1, <4>1, <4>2, <4>3
        <3>3. CASE o[1] = c
            <4>1. connection_'[o[1]] # o[2] /\ appState_'[o[1]] = "Menu"
                BY <1>1, <1>3, <3>1, <3>3
            <4>2. link'[o] \notin {"none", "gone"} => late # {}
                BY <3>1, <3>2, <3>3 DEF Ownership
            <4>3. late = {} => deleted'[o] <= 1
                <5>1. late = {} /\ o \in os => deleted[o] = 0
                    BY <3>1, <3>2, <3>3 DEF Ownership
                <5>2. late = {} => deleted[o] <= 1
                    BY DEF Ownership
                <5> QED
                    BY <3>1, <5>1, <5>2
            <4>4. link'[o] # "gone" => deleted'[o] = 0
                BY <3>1 DEF Ownership
            <4> QED
                BY <1>1, <3>1, <4>1, <4>2, <4>3, <4>4
        <3>4. CASE o[1] # c
            <4>1. o \notin os
                BY <1>4, <3>4
            <4>2. link'[o] = link[o] /\ deleted'[o] = deleted[o] /\ connection_'[o[1]] = connection_[o[1]]
                BY <1>3, <3>1, <3>4, <4>1
            <4> QED
                BY <3>1, <4>2 DEF Ownership
        <3> QED
            BY <3>3, <3>4
    <2>2. \A x \in Client : menu'[x].at = "exit delete" /\ (late' = {} \/ x # Caller) =>
              menu'[x].object = IF connection_'[x] = None THEN None ELSE <<x, connection_'[x]>>
        <3>1. ASSUME NEW x \in Client, menu'[x].at = "exit delete" PROVE x \in Client \ {c}
            BY <1>2, <3>1
        <3>2. late' = late
            BY <1>1
        <3> QED
            BY <1>2, <1>3, <3>1, <3>2 DEF Ownership
    <2> QED
        BY <2>1, <2>2 DEF Ownership
<1>8. Lines'
    <2>1. \A x \in Client : menu'[x].at = "send" \/ menu[x].at = "send" => menu'[x] = menu[x]
        BY <1>1, <1>2
    <2>2. ASSUME NEW o \in Object
          PROVE  /\ o \in stream_' => link'[o] \in {"up", "down"}
                 /\ link'[o] \in {"none", "new", "starting"} => link[o] \in {"none", "new", "starting"}
                 /\ link'[o] = "up" => link[o] = "up" /\ (o \in stream_ => o \in stream_')
                 /\ unfreed'[o] <= unfreed[o] /\ unfreed'[o] \in Nat
        <3>1. /\ stream_' \subseteq stream_ /\ (o \in stream_ => o \in os \/ o \in stream_')
              /\ (o \in stream_' => o \notin os)
              /\ link'[o] = IF o \in os THEN "gone" ELSE link[o]
              /\ unfreed'[o] = IF o \in os THEN 0 ELSE unfreed[o]
              /\ unfreed[o] \in Nat
            BY <1>1 DEF Types
        <3> QED
            BY <3>1 DEF Lines
    <2> QED
        BY <1>1, <2>1, <2>2, LinesQuiet
<1>9. Living'
    <2>1. \A x \in Client : menu'[x] = menu[x] \/ (menu'[x].at # "dead" /\ menu[x].at # "dead")
        BY <1>1, <1>2
    <2>2. ASSUME NEW o \in Object
          PROVE  /\ link'[o] = "gone" => link[o] = "gone" \/ deleted'[o] > 0
                 /\ deleted[o] > 0 => deleted'[o] > 0
        <3>1. /\ link'[o] = IF o \in os THEN "gone" ELSE link[o]
              /\ deleted'[o] = IF o \in os THEN deleted[o] + 1 ELSE deleted[o]
              /\ deleted[o] \in Nat
            BY <1>1 DEF Types
        <3> QED
            BY <3>1
    <2>3. connection_'[Caller] = None => connection_[Caller] = None \/ appState_[Caller] = "Menu"
        <3>1. Caller \in Client
            BY DEF Client
        <3> QED
            BY <1>1, <1>3, <3>1
    <2> QED
        BY <1>1, <2>1, <2>2, <2>3, LivingQuiet
<1> QED
    BY <1>5, <1>6, <1>7, <1>8, <1>9

\* ... and listener_.reset() ends the callbacks of the listener.
LEMMA ExitListenerKeeps ==
    ASSUME IInv, NEW c \in Client, ExitListener(c)
    PROVE  IInv'
<1> USE DEF IInv
<1>1. /\ UNCHANGED <<appState_, connection_, link, stream_, opened, configuring, configured, unfreed, leaked, deleted,
                     typed, sent, received, late>>
      /\ menu[c].at = "exit listener" /\ listener_' \in BOOLEAN
    BY DEF ExitListener, objects, lines
<1>2. /\ menu' \in [Client -> [at : Step, object : Object \cup {None}]]
      /\ menu'[c].at = "getline" /\ menu'[c].object = None
      /\ \A x \in Client \ {c} : menu'[x] = menu[x]
    <2>1. "getline" \in Step /\ Go(c, "getline", None)
        BY DEF ExitListener, Step
    <2> QED
        BY <2>1, GoSpec
<1>3. Types'
    BY <1>1, <1>2 DEF Types
<1>4. Menus'
    <2>1. MenuOf(c)'
        BY <1>1, <1>2 DEF Menus, MenuOf
    <2> QED
        BY <1>1, <1>2, <2>1, MenusStep
<1>5. Ownership'
    <2>1. \A x \in Client : menu'[x].at = "exit delete" => menu'[x] = menu[x]
        BY <1>2
    <2>2. \A p \in Object : link'[p] = link[p]
        BY <1>1
    <2> QED
        BY <1>1, <2>1, <2>2, OwnershipQuiet
<1>6. Lines'
    <2>1. \A x \in Client : menu'[x].at = "send" \/ menu[x].at = "send" => menu'[x] = menu[x]
        BY <1>1, <1>2
    <2>2. \A o \in Object : /\ o \in stream_ => link[o] \in {"up", "down"}
                            /\ unfreed[o] <= unfreed[o] /\ unfreed[o] \in Nat
        BY DEF Lines, Types
    <2> QED
        BY <1>1, <2>1, <2>2, LinesQuiet
<1>7. Living'
    <2>1. \A x \in Client : menu'[x] = menu[x] \/ (menu'[x].at # "dead" /\ menu[x].at # "dead")
        BY <1>1, <1>2
    <2>2. \A p \in Object : link'[p] = link[p] /\ deleted'[p] = deleted[p]
        BY <1>1
    <2> QED
        BY <1>1, <2>1, <2>2, LivingQuiet
<1> QED
    BY <1>3, <1>4, <1>5, <1>6, <1>7

-----------------------------------------------------------------------------
(* The callbacks. *)

\* A callback leaves the menus alone, but for what the caller holds.
LEMMA MenusQuiet ==
    ASSUME Menus, UNCHANGED <<appState_, menu>>,
           \A c \in Client : connection_'[c] = connection_[c] \/ <<c, connection_'[c]>> \in Object
    PROVE  Menus'
BY DEF Menus, MenuOf

\* A callee connects: the object it is given takes the place of the one there was.
LEMMA NewConnectionKeeps ==
    ASSUME IInv, NEW k \in Callee, NewConnection(k)
    PROVE  IInv'
<1> USE DEF IInv
<1> DEFINE old == {<<Caller, connection_[Caller]>>} \cap Object
           new == <<Caller, k>>
<1>1. /\ UNCHANGED <<appState_, menu, listener_, opened, configured, leaked, typed, sent, received>>
      /\ configuring' = configuring \cup {k}
      /\ link[new] = "none"
      /\ link' = [o \in Object |-> IF o \in old THEN "gone" ELSE IF o = new THEN "new" ELSE link[o]]
      /\ stream_' = stream_ \ old
      /\ unfreed' = [o \in Object |-> IF o \in old THEN 0 ELSE unfreed[o]]
      /\ deleted' = [o \in Object |-> IF o \in old THEN deleted[o] + 1 ELSE deleted[o]]
      /\ connection_' = [connection_ EXCEPT ![Caller] = k]
      /\ late' = IF appState_[Caller] = "Menu" THEN late \cup {k} ELSE late
    BY DEF NewConnection, lines
<1>2. /\ Caller \in Client /\ new \in Object /\ new[1] = Caller /\ new[2] = k
    BY Objects DEF Client
<1>3. /\ connection_'[Caller] = k /\ connection_' \in [Client -> Callee \cup {None}]
      /\ \A x \in Client \ {Caller} : connection_'[x] = connection_[x]
    BY <1>1, <1>2 DEF Types
<1>4. \A o \in Object : o \in old <=> o[1] = Caller /\ connection_[Caller] = o[2]
    BY Objects
<1>5. new \notin old
    BY <1>1, <1>2, <1>4 DEF Ownership
<1>6. late \subseteq late' /\ late' \subseteq Callee /\ (appState_[Caller] = "Menu" => late' # {})
    BY <1>1 DEF Types
<1> HIDE DEF old, new
<1>7. ASSUME NEW o \in Object
      PROVE  /\ link'[o] = IF o \in old THEN "gone" ELSE IF o = new THEN "new" ELSE link[o]
             /\ unfreed'[o] = IF o \in old THEN 0 ELSE unfreed[o]
             /\ deleted'[o] = IF o \in old THEN deleted[o] + 1 ELSE deleted[o]
             /\ deleted[o] \in Nat /\ deleted'[o] \in Nat
             /\ unfreed[o] \in Nat /\ unfreed'[o] \in Nat
    <2>1. unfreed[o] \in Nat /\ deleted[o] \in Nat /\ deleted[o] + 1 \in Nat
        BY DEF Types
    <2> QED
        BY <1>1, <2>1
<1>8. Types'
    <2>1. link' \in [Object -> {"none", "new", "starting", "up", "down", "gone"}]
        BY <1>1 DEF Types
    <2>2. unfreed' \in [Object -> Nat]
        BY <1>1, <1>7
    <2>3. deleted' \in [Object -> Nat]
        BY <1>1, <1>7
    <2>4. stream_' \subseteq Object
        BY <1>1 DEF Types
    <2> QED
        BY <1>1, <1>3, <1>6, <2>1, <2>2, <2>3, <2>4 DEF Types
<1>9. Menus'
    <2>1. \A c \in Client : connection_'[c] = connection_[c] \/ <<c, connection_'[c]>> \in Object
        BY <1>2, <1>3 DEF new
    <2> QED
        BY <1>1, <2>1, MenusQuiet
<1>10. Ownership'
    <2>1. ASSUME NEW o \in Object
          PROVE  /\ link'[o] \notin {"none", "gone"} /\ (appState_'[o[1]] = "Chat" \/ late' = {}) =>
                       connection_'[o[1]] = o[2]
                 /\ link'[o] \in {"none", "gone"} => connection_'[o[1]] # o[2]
                 /\ link'[o] = "gone" /\ o[1] # Caller => appState_'[o[1]] = "Menu"
                 /\ link'[o] # "gone" => deleted'[o] = 0
                 /\ late' = {} => deleted'[o] <= 1
        <3>1. o = <<o[1], o[2]>> /\ o[1] \in Client /\ appState_' = appState_
              /\ (late' = {} => late = {})
            BY <1>1, <1>6, Objects
        <3>2. CASE o[1] # Caller
            <4>1. o \notin old /\ o # new
                BY <1>2, <1>4, <3>2
            <4>2. link'[o] = link[o] /\ deleted'[o] = deleted[o] /\ connection_'[o[1]] = connection_[o[1]]
                BY <1>3, <1>7, <3>1, <3>2, <4>1
            <4> QED
                BY <3>1, <4>2 DEF Ownership
        <3>3. CASE o = new
            <4>1. link'[o] = "new" /\ connection_'[o[1]] = o[2] /\ o[1] = Caller
                BY <1>2, <1>3, <1>5, <1>7, <3>3
            <4>2. deleted'[o] = 0
                BY <1>1, <1>5, <1>7, <3>3 DEF Ownership
            <4> QED
                BY <4>1, <4>2
        <3>4. CASE o[1] = Caller /\ o # new
            <4>1. connection_'[o[1]] # o[2]
                BY <1>3, <3>1, <3>4 DEF new
            <4>2. appState_[Caller] \in {"Menu", "Chat"}
                BY <1>2 DEF Types
            <4>3. link'[o] \notin {"none", "gone"} => appState_'[o[1]] # "Chat" /\ late' # {}
                <5> SUFFICES ASSUME link'[o] \notin {"none", "gone"}
                             PROVE  appState_[Caller] # "Chat"
                    BY <1>6, <3>1, <3>4, <4>2
                <5>1. o \notin old /\ link'[o] = link[o]
                    BY <1>7, <3>4
                <5> QED
                    BY <1>4, <3>4, <5>1 DEF Ownership
            <4>4. link'[o] # "gone" => deleted'[o] = 0
                BY <1>7, <3>4 DEF Ownership
            <4>5. late' = {} => deleted'[o] <= 1
                <5>1. CASE o \in old
                    <6>1. deleted[o] = 0
                        BY <1>4, <5>1 DEF Ownership
                    <6> QED
                        BY <1>7, <5>1, <6>1
                <5>2. CASE o \notin old
                    BY <1>7, <3>1, <5>2 DEF Ownership
                <5> QED
                    BY <5>1, <5>2
            <4> QED
                BY <3>4, <4>1, <4>3, <4>4, <4>5
        <3> QED
            BY <3>2, <3>3, <3>4
    <2>2. \A x \in Client : menu'[x].at = "exit delete" /\ (late' = {} \/ x # Caller) =>
              menu'[x].object = IF connection_'[x] = None THEN None ELSE <<x, connection_'[x]>>
        <3>1. ASSUME NEW x \in Client, menu'[x].at = "exit delete", late' = {} \/ x # Caller
              PROVE  x # Caller
            BY <1>1, <1>6, <3>1 DEF Menus, MenuOf
        <3>2. late' = {} => late = {}
            BY <1>6
        <3> QED
            BY <1>1, <1>3, <3>1, <3>2 DEF Ownership
    <2> QED
        BY <2>1, <2>2 DEF Ownership
<1>11. Lines'
    <2>1. ASSUME NEW o \in Object
          PROVE  /\ o \in stream_' => link'[o] \in {"up", "down"}
                 /\ link'[o] \in {"none", "new", "starting"} => link[o] \in {"none", "new", "starting"}
                 /\ link'[o] = "up" => \/ link[o] = "up" /\ (o \in stream_ => o \in stream_')
                                       \/ link[o] \in {"none", "new", "starting"}
                 /\ unfreed'[o] <= unfreed[o] /\ unfreed'[o] \in Nat
        <3>1. /\ o \in stream_ => o \in old \/ o \in stream_'
              /\ o \in stream_' => o \in stream_ /\ o \notin old
            BY <1>1
        <3>2. o \in stream_ => link[o] \in {"up", "down"}
            BY DEF Lines
        <3> QED
            BY <1>1, <1>7, <3>1, <3>2
    <2> QED
        BY <1>1, <2>1, LinesQuiet
<1>12. Living'
    <2>1. \A o \in Object : /\ link'[o] = "gone" => link[o] = "gone" \/ deleted'[o] > 0
                            /\ deleted[o] > 0 => deleted'[o] > 0
        BY <1>7
    <2>2. connection_'[Caller] # None
        BY <1>3, ChatConstantsOK
    <2> QED
        BY <1>1, <2>1, <2>2, LivingQuiet
<1> QED
    BY <1>8, <1>9, <1>10, <1>11, <1>12

\* At most a connection goes from not yet up to up, or from that to down.
Ageing(o) ==
    /\ \/ link'[o] = link[o]
       \/ link[o] \notin {"none", "gone"} /\ link'[o] \notin {"none", "gone"}
    /\ o \in stream_' => link'[o] \in {"up", "down"}
    /\ link'[o] \in {"none", "new", "starting"} => link[o] \in {"none", "new", "starting"}
    /\ link'[o] = "up" => \/ link[o] = "up" /\ (o \in stream_ => o \in stream_')
                          \/ link[o] \in {"none", "new", "starting"}
    /\ unfreed'[o] <= unfreed[o]

\* A callback that does no more keeps the invariant.
LEMMA CallbackKeeps ==
    ASSUME IInv, Types',
           UNCHANGED <<appState_, menu, connection_, deleted, late, typed, sent, received>>,
           configuring' \subseteq configuring,
           \A o \in Object : Ageing(o)
    PROVE  IInv'
<1> USE DEF IInv
<1>1. Menus'
    BY MenusQuiet
<1>2. Ownership'
    BY OwnershipQuiet DEF Ageing
<1>3. Lines'
    <2>1. \A o \in Object : unfreed'[o] \in Nat
        BY DEF Types
    <2> QED
        BY <2>1, LinesQuiet DEF Ageing
<1>4. Living'
    <2>1. \A o \in Object : link'[o] = "gone" => link[o] = "gone"
        BY DEF Ageing
    <2>2. configuring' # {} => configuring # {}
        OBVIOUS
    <2> QED
        BY <2>1, <2>2, LivingQuiet
<1> QED
    BY <1>1, <1>2, <1>3, <1>4

\* The callback configures the connection that is held, if it is new.
LEMMA SetConfigurationKeeps ==
    ASSUME IInv, NEW k \in Callee, SetConfiguration(k)
    PROVE  IInv'
<1> USE DEF IInv
<1> DEFINE o == <<Caller, connection_[Caller]>>
<1>1. /\ UNCHANGED <<appState_, menu, listener_, connection_, stream_, opened, unfreed, leaked,
                     deleted, late, typed, sent, received>>
      /\ configuring' = configuring \ {k}
    BY DEF SetConfiguration, lines
<1>2. \/ /\ o \in Object /\ link[o] = "new" /\ link' = [link EXCEPT ![o] = "up"]
         /\ configured' = configured \cup {connection_[Caller]}
      \/ UNCHANGED <<link, configured>>
    BY DEF SetConfiguration
<1>3. o \in Object => connection_[Caller] \in Callee
    BY Objects
<1> HIDE DEF o
<1>4. Types'
    BY <1>1, <1>2, <1>3 DEF Types
<1>5. ASSUME NEW p \in Object
      PROVE  /\ link'[p] = link[p] \/ (link[p] = "new" /\ link'[p] = "up")
             /\ p \in stream_ => link[p] \in {"up", "down"}
             /\ unfreed'[p] <= unfreed[p]
    <2>1. unfreed[p] \in Nat /\ unfreed'[p] = unfreed[p]
        BY <1>1 DEF Types
    <2> QED
        BY <1>2, <2>1 DEF Types, Lines
<1>6. \A p \in Object : Ageing(p)
    BY <1>1, <1>5 DEF Ageing
<1> QED
    BY <1>1, <1>4, <1>6, CallbackKeeps

\* The callee's connection is up and its stream is opened.
LEMMA ClientConnectedKeeps ==
    ASSUME IInv, NEW k \in Callee, onClientConnected(k)
    PROVE  IInv'
<1> USE DEF IInv
<1>1. /\ UNCHANGED <<appState_, menu, listener_, connection_, configuring, configured, unfreed,
                     leaked, deleted, late, typed, sent, received>>
      /\ link[<<k, k>>] = "starting" /\ link' = [link EXCEPT ![<<k, k>>] = "up"]
      /\ stream_' = stream_ \cup {<<k, k>>} /\ opened' = opened \cup {k}
    BY DEF onClientConnected, lines
<1>2. <<k, k>> \in Object
    BY Objects
<1>3. Types'
    BY <1>1, <1>2 DEF Types
<1>4. ASSUME NEW o \in Object
      PROVE  /\ link'[o] = IF o = <<k, k>> THEN "up" ELSE link[o]
             /\ o \in stream_' <=> o \in stream_ \/ o = <<k, k>>
             /\ o \in stream_ => link[o] \in {"up", "down"}
             /\ unfreed'[o] <= unfreed[o]
    <2>1. unfreed[o] \in Nat /\ unfreed'[o] = unfreed[o]
        BY <1>1 DEF Types
    <2> QED
        BY <1>1, <1>2, <2>1 DEF Types, Lines
<1>5. \A o \in Object : Ageing(o)
    BY <1>1, <1>4 DEF Ageing
<1> QED
    BY <1>1, <1>3, <1>5, CallbackKeeps

\* The caller is told of the stream.
LEMMA IncomingStreamKeeps ==
    ASSUME IInv, NEW k \in Callee, onServerIncomingStream(k)
    PROVE  IInv'
<1> USE DEF IInv
<1>1. /\ UNCHANGED <<appState_, menu, listener_, connection_, link, opened, configuring, configured, unfreed, leaked, deleted,
                     late, typed, sent, received>>
      /\ link[<<Caller, k>>] = "up" /\ stream_' = stream_ \cup {<<Caller, k>>}
    BY DEF onServerIncomingStream, lines
<1>2. <<Caller, k>> \in Object
    BY Objects
<1>3. Types'
    BY <1>1, <1>2 DEF Types
<1>4. ASSUME NEW o \in Object
      PROVE  /\ link'[o] = link[o]
             /\ o \in stream_' => link[o] \in {"up", "down"}
             /\ o \in stream_ => o \in stream_'
             /\ unfreed'[o] <= unfreed[o]
    <2>1. unfreed[o] \in Nat /\ unfreed'[o] = unfreed[o]
        BY <1>1 DEF Types
    <2>2. o \in stream_ => link[o] \in {"up", "down"}
        BY DEF Lines
    <2> QED
        BY <1>1, <2>1, <2>2
<1>5. \A o \in Object : Ageing(o)
    BY <1>1, <1>4 DEF Ageing
<1> QED
    BY <1>1, <1>3, <1>5, CallbackKeeps

\* A line that has come is printed.
LEMMA DataReceiveKeeps ==
    ASSUME IInv, NEW o \in Object, OnDataReceive(o)
    PROVE  IInv'
<1> USE DEF IInv
<1>1. /\ UNCHANGED <<appState_, menu, listener_, connection_, link, stream_, opened, configuring, configured, unfreed, leaked,
                     deleted, late, typed, sent>>
      /\ received[o] < Len(sent[Other(o)])
      /\ received' = [received EXCEPT ![o] = @ + 1]
    BY DEF OnDataReceive, objects
<1>2. received' \in [Object -> Nat] /\ received'[o] = received[o] + 1 /\ received[o] \in Nat
      /\ \A p \in Object \ {o} : received'[p] = received[p]
    BY <1>1 DEF Types
<1>3. Types'
    BY <1>1, <1>2 DEF Types
<1>4. Menus'
    BY <1>1, MenusQuiet
<1>5. Ownership'
    BY <1>1, OwnershipQuiet
<1>6. Lines'
    <2>1. \A p \in Object : received'[p] <= Len(sent[Other(p)])
        <3>1. Other(o) \in Object
            BY Objects
        <3>2. Len(sent[Other(o)]) \in Nat
            BY <3>1 DEF Types
        <3> QED
            BY <1>1, <1>2, <3>2 DEF Lines
    <2>2. \A p \in Object : sent[p] # <<>> => Sendable(p, sent[p][Len(sent[p])])'
        BY <1>1 DEF Lines, Sendable
    <2> QED
        BY <1>1, <2>1, <2>2 DEF Lines
<1>7. Living'
    BY <1>1, LivingQuiet
<1> QED
    BY <1>3, <1>4, <1>5, <1>6, <1>7

\* A QUIC_BUFFER is freed.
LEMMA SendCompleteKeeps ==
    ASSUME IInv, NEW o \in Object, SendComplete(o)
    PROVE  IInv'
<1> USE DEF IInv
<1>1. /\ UNCHANGED <<appState_, menu, listener_, connection_, link, stream_, opened, configuring, configured, leaked, deleted,
                     late, typed, sent, received>>
      /\ unfreed[o] > 0 /\ unfreed' = [unfreed EXCEPT ![o] = @ - 1]
    BY DEF SendComplete, lines
<1>2. unfreed' \in [Object -> Nat]
    BY <1>1 DEF Types
<1>3. Types'
    BY <1>1, <1>2 DEF Types
<1>4. ASSUME NEW p \in Object
      PROVE  /\ link'[p] = link[p]
             /\ p \in stream_ => link[p] \in {"up", "down"}
             /\ unfreed'[p] <= unfreed[p]
    BY <1>1 DEF Types, Lines
<1>5. \A p \in Object : Ageing(p)
    BY <1>1, <1>4 DEF Ageing
<1> QED
    BY <1>1, <1>3, <1>5, CallbackKeeps

\* A connection goes down; its object and its stream stay.
LEMMA ShutdownKeeps ==
    ASSUME IInv, NEW o \in Object, Shutdown(o)
    PROVE  IInv'
<1> USE DEF IInv
<1>1. /\ UNCHANGED <<appState_, menu, listener_, connection_, stream_, opened, configuring, configured, leaked, deleted,
                     late, typed, sent, received>>
      /\ link[o] \in {"starting", "new", "up"} /\ link' = [link EXCEPT ![o] = "down"]
      /\ unfreed' = [unfreed EXCEPT ![o] = 0]
    BY DEF Shutdown, lines
<1>2. Types'
    BY <1>1 DEF Types
<1>3. ASSUME NEW p \in Object
      PROVE  /\ link'[p] = IF p = o THEN "down" ELSE link[p]
             /\ p \in stream_ => link[p] \in {"up", "down"}
             /\ unfreed'[p] <= unfreed[p]
    BY <1>1 DEF Types, Lines
<1>4. \A p \in Object : Ageing(p)
    BY <1>1, <1>3 DEF Ageing
<1> QED
    BY <1>1, <1>2, <1>4, CallbackKeeps

-----------------------------------------------------------------------------
(* The use of an object after its deletion. *)

\* Only the caller can come to use an object that is gone, and only in /exit or after an object
\* was deleted.
LEMMA FreedIsCallers ==
    ASSUME IInv, NEW c \in Client, UsesFreed(c)
    PROVE  c = Caller /\ (appState_[c] = "Menu" \/ \E o \in Object : deleted[o] > 0)
<1> USE DEF IInv
<1>1. CASE c = Caller /\ configuring # {} /\ connection_[c] = None
    BY <1>1 DEF Living
<1>2. CASE ~(c = Caller /\ configuring # {} /\ connection_[c] = None)
    <2> DEFINE o == menu[c].object
    <2>1. /\ menu[c].at \in {"send", "exit delete"} /\ o # None /\ link[o] = "gone"
          /\ o \in Object /\ o[1] = c /\ o = <<c, o[2]>>
        <3>1. menu[c].at \in {"send", "exit delete"} /\ o # None /\ link[o] = "gone"
            BY <1>2 DEF UsesFreed
        <3>2. o \in Object /\ o[1] = c
            <4>1. o \in Object
                BY <3>1 DEF Types
            <4>2. MenuOf(c)
                BY DEF Menus
            <4> QED
                BY <3>1, <4>1, <4>2 DEF MenuOf
        <3> QED
            BY <3>1, <3>2, Objects
    <2>2. c = Caller
        <3>1. CASE menu[c].at = "send"
            BY <2>1, <3>1 DEF Ownership, Menus, MenuOf
        <3>2. CASE menu[c].at = "exit delete"
            <4>1. c # Caller => o = IF connection_[c] = None THEN None ELSE <<c, connection_[c]>>
                BY <3>2 DEF Ownership
            <4>2. connection_[c] # o[2]
                BY <2>1 DEF Ownership
            <4>3. o # <<c, connection_[c]>>
                <5>1. ASSUME o = <<c, connection_[c]>> PROVE o[2] = connection_[c]
                    BY <5>1
                <5> QED
                    BY <4>2, <5>1
            <4> QED
                BY <2>1, <4>1, <4>3
        <3> QED
            BY <2>1, <3>1, <3>2
    <2>3. deleted[o] > 0 \/ menu[o[1]].at = "dead"
        BY <2>1 DEF Living
    <2> QED
        BY <2>1, <2>2, <2>3
<1> QED
    BY <1>1, <1>2

\* The client dies, and its objects with it.
LEMMA CrashKeeps ==
    ASSUME IInv, NEW c \in Client, Crash(c)
    PROVE  IInv'
<1> USE DEF IInv
<1> DEFINE os == {o \in Object : o[1] = c /\ link[o] # "none"}
<1>1. /\ UNCHANGED <<appState_, opened, configured, leaked, deleted, typed, sent, received, late>>
      /\ connection_' = [connection_ EXCEPT ![c] = None]
      /\ listener_' \in BOOLEAN
      /\ configuring' = IF c = Caller THEN {} ELSE configuring
      /\ link' = [o \in Object |-> IF o \in os THEN "gone" ELSE link[o]]
      /\ stream_' = stream_ \ os
      /\ unfreed' = [o \in Object |-> IF o \in os THEN 0 ELSE unfreed[o]]
    BY DEF Crash, Vanish, lines
<1>2. /\ menu' \in [Client -> [at : Step, object : Object \cup {None}]]
      /\ menu'[c].at = "dead" /\ menu'[c].object = None
      /\ \A x \in Client \ {c} : menu'[x] = menu[x]
    <2>1. "dead" \in Step /\ Go(c, "dead", None)
        BY DEF Crash, Step
    <2> QED
        BY <2>1, GoSpec
<1>3. /\ connection_'[c] = None
      /\ \A x \in Client \ {c} : connection_'[x] = connection_[x]
    BY <1>1 DEF Types
<1>4. c = Caller /\ (appState_[c] = "Menu" \/ \E o \in Object : deleted[o] > 0)
    BY FreedIsCallers DEF Crash
<1>5. \A o \in Object : o \in os <=> o[1] = c /\ link[o] # "none"
    OBVIOUS
<1> HIDE DEF os
<1>6. ASSUME NEW o \in Object
      PROVE  /\ link'[o] = IF o \in os THEN "gone" ELSE link[o]
             /\ unfreed'[o] = IF o \in os THEN 0 ELSE unfreed[o]
             /\ unfreed[o] \in Nat /\ unfreed'[o] \in Nat /\ unfreed'[o] <= unfreed[o]
             /\ o[1] \in Client /\ o[2] # None
    <2>1. unfreed[o] \in Nat
        BY DEF Types
    <2> QED
        BY <1>1, <2>1, Objects, ChatConstantsOK
<1>7. Types'
    <2>1. link' \in [Object -> {"none", "new", "starting", "up", "down", "gone"}]
        BY <1>1 DEF Types
    <2>2. unfreed' \in [Object -> Nat]
        BY <1>1, <1>6
    <2>3. stream_' \subseteq Object
        BY <1>1 DEF Types
    <2>4. connection_' \in [Client -> Callee \cup {None}] /\ configuring' \subseteq Callee
        BY <1>1 DEF Types
    <2> QED
        BY <1>1, <1>2, <2>1, <2>2, <2>3, <2>4 DEF Types
<1>8. Menus'
    <2>1. MenuOf(c)'
        BY <1>1, <1>2, <1>3 DEF Menus, MenuOf
    <2> QED
        BY <1>1, <1>2, <1>3, <2>1, MenusStep
<1>9. Ownership'
    <2>1. ASSUME NEW o \in Object
          PROVE  /\ link'[o] \notin {"none", "gone"} /\ (appState_'[o[1]] = "Chat" \/ late' = {}) =>
                       connection_'[o[1]] = o[2]
                 /\ link'[o] \in {"none", "gone"} => connection_'[o[1]] # o[2]
                 /\ link'[o] = "gone" /\ o[1] # Caller => appState_'[o[1]] = "Menu"
                 /\ link'[o] # "gone" => deleted'[o] = 0
                 /\ late' = {} => deleted'[o] <= 1
        <3>1. CASE o[1] = c
            <4>1. link'[o] \in {"none", "gone"} /\ connection_'[o[1]] # o[2]
                BY <1>3, <1>5, <1>6, <3>1
            <4>2. link'[o] # "gone" => link[o] # "gone"
                BY <1>6
            <4> QED
                BY <1>1, <1>4, <3>1, <4>1, <4>2 DEF Ownership
        <3>2. CASE o[1] # c
            <4>1. link'[o] = link[o] /\ connection_'[o[1]] = connection_[o[1]]
                BY <1>3, <1>5, <1>6, <3>2
            <4> QED
                BY <1>1, <4>1 DEF Ownership
        <3> QED
            BY <3>1, <3>2
    <2>2. \A x \in Client : menu'[x].at = "exit delete" /\ (late' = {} \/ x # Caller) =>
              menu'[x].object = IF connection_'[x] = None THEN None ELSE <<x, connection_'[x]>>
        <3>1. ASSUME NEW x \in Client, menu'[x].at = "exit delete" PROVE x \in Client \ {c}
            BY <1>2, <3>1
        <3>2. late' = late
            BY <1>1
        <3> QED
            BY <1>2, <1>3, <3>1, <3>2 DEF Ownership
    <2> QED
        BY <2>1, <2>2 DEF Ownership
<1>10. Living'
    <2>1. ASSUME NEW o \in Object, link'[o] = "gone" PROVE deleted'[o] > 0 \/ menu'[o[1]].at = "dead"
        <3>1. CASE o[1] = c
            BY <1>2, <3>1
        <3>2. CASE o[1] # c
            <4>1. link[o] = "gone" /\ menu'[o[1]] = menu[o[1]]
                BY <1>2, <1>5, <1>6, <2>1, <3>2
            <4> QED
                BY <1>1, <4>1 DEF Living
        <3> QED
            BY <3>1, <3>2
    <2>2. configuring' = {}
        BY <1>1, <1>4
    <2>3. ASSUME NEW x \in Client, menu'[x].at = "dead"
          PROVE  x = Caller /\ (appState_'[x] = "Menu" \/ \E o \in Object : deleted'[o] > 0)
        <3>1. CASE x = c
            BY <1>1, <1>4, <3>1
        <3>2. CASE x # c
            BY <1>1, <1>2, <2>3, <3>2 DEF Living
        <3> QED
            BY <3>1, <3>2
    <2> QED
        BY <2>1, <2>2, <2>3 DEF Living
<1>11. Lines'
    <2>1. \A x \in Client : typed'[x] <= MaxLines[x] /\ (menu'[x].at = "send" => typed'[x] > 0)
        BY <1>1, <1>2 DEF Lines
    <2>2. ASSUME NEW o \in Object
          PROVE  /\ o \in stream_' => link'[o] \in {"up", "down"}
                 /\ link'[o] \in {"none", "new", "starting"} => sent'[o] = <<>>
                 /\ Consecutive(sent'[o])
                 /\ received'[o] <= Len(sent'[Other(o)])
                 /\ unfreed'[o] <= Len(sent'[o])
        <3>1. o \in stream_' => o \in stream_ /\ o \notin os
            BY <1>1
        <3>2. Len(sent[o]) \in Nat
            BY DEF Types
        <3>3. unfreed[o] <= Len(sent[o])
            BY DEF Lines
        <3>4. unfreed'[o] <= Len(sent[o])
            BY <1>6, <3>2, <3>3
        <3> QED
            BY <1>1, <1>6, <3>1, <3>4 DEF Lines
    <2>3. ASSUME NEW o \in Object, sent[o] # <<>> PROVE Sendable(o, sent[o][Len(sent[o])])'
        <3> DEFINE last == sent[o][Len(sent[o])]
        <3>1. Sendable(o, last)
            BY <2>3 DEF Lines
        <3>2. last \in Nat /\ typed[o[1]] \in Nat /\ o[1] \in Client
            BY <2>3, Objects DEF Types
        <3>3. Sendable(o, last)'
            <4>1. CASE o[1] = c
                <5>1. link'[o] # "up" /\ menu'[o[1]] # [at |-> "send", object |-> o]
                    BY <1>2, <1>5, <1>6, <4>1
                <5>2. last <= typed[o[1]]
                    BY <3>1, <3>2 DEF Sendable
                <5> QED
                    BY <1>1, <5>1, <5>2 DEF Sendable
            <4>2. CASE o[1] # c
                <5>1. link'[o] = link[o] /\ menu'[o[1]] = menu[o[1]] /\ (o \in stream_ => o \in stream_')
                    BY <1>1, <1>2, <1>5, <1>6, <3>2, <4>2
                <5> QED
                    BY <1>1, <3>1, <5>1 DEF Sendable
            <4> QED
                BY <4>1, <4>2
        <3> QED
            BY <3>3
    <2> QED
        BY <1>1, <2>1, <2>2, <2>3 DEF Lines
<1> QED
    BY <1>7, <1>8, <1>9, <1>10, <1>11

-----------------------------------------------------------------------------
(* The theorems. *)

\* Every step keeps the invariant.
LEMMA NextIInv == IInv /\ [Next]_vars => IInv'
<1> SUFFICES ASSUME IInv, [Next]_vars PROVE IInv'
    OBVIOUS
<1>1. CASE UNCHANGED vars
    <2>1. Types' /\ Menus' /\ Ownership' /\ Living'
        BY <1>1 DEF IInv, Types, Menus, MenuOf, Ownership, Living, vars
    <2>2. Lines'
        BY <1>1 DEF IInv, Lines, Sendable, vars
    <2> QED
        BY <2>1, <2>2 DEF IInv
<1>2. ASSUME NEW c \in Client, TypeLine(c) \/ Exit(c) \/ MenuThread(c) \/ Crash(c) PROVE IInv'
    BY <1>2, TypeLineKeeps, DropLineKeeps, SendLineKeeps, ExitKeeps, ExitTakesKeeps,
       ExitDeletesKeeps, ExitListenerKeeps, CrashKeeps DEF MenuThread
<1>3. ASSUME NEW k \in Callee, \/ NewConnection(k) \/ SetConfiguration(k)
                               \/ onClientConnected(k) \/ onServerIncomingStream(k)
      PROVE  IInv'
    BY <1>3, NewConnectionKeeps, SetConfigurationKeeps, ClientConnectedKeeps, IncomingStreamKeeps
<1>4. ASSUME NEW o \in Object, OnDataReceive(o) \/ SendComplete(o) \/ Shutdown(o)
      PROVE  IInv'
    BY <1>4, DataReceiveKeeps, SendCompleteKeeps, ShutdownKeeps
<1> QED
    BY <1>1, <1>2, <1>3, <1>4 DEF Next, Callback

\* So it always holds.
LEMMA Always == Spec => []IInv
<1>1. Init => IInv
    BY InitIInv
<1>2. IInv /\ [Next]_vars => IInv'
    BY NextIInv
<1> QED
    BY <1>1, <1>2, PTL DEF Spec

\* The lines of an object are numbers up to its user's last.
LEMMA LinesInRange ==
    ASSUME IInv, NEW o \in Object
    PROVE  /\ Len(sent[o]) \in 0 .. MaxLines[o[1]]
           /\ \A i \in 1 .. Len(sent[o]) : sent[o][i] \in 1 .. MaxLines[o[1]]
<1> USE DEF IInv
<1> DEFINE s == sent[o]
           n == Len(s)
           max == MaxLines[o[1]]
<1>1. /\ s \in Seq(Nat) /\ n \in Nat /\ o[1] \in Client
      /\ max \in Nat /\ typed[o[1]] \in Nat /\ typed[o[1]] <= max
    <2>1. o[1] \in Client
        BY Objects
    <2>2. s \in Seq(Nat) /\ typed[o[1]] \in Nat
        BY <2>1 DEF Types
    <2>3. typed[o[1]] <= max
        BY <2>1 DEF Lines
    <2>4. max \in Nat
        BY <2>1, ChatConstantsOK DEF Client
    <2> QED
        BY <2>1, <2>2, <2>3, <2>4
<1>2. CASE n = 0
    BY <1>1, <1>2
<1>3. CASE n # 0
    <2>1. s # <<>> /\ n \in 1 .. n /\ 1 \in 1 .. n
        BY <1>1, <1>3
    <2>2. \A i \in 1 .. n : s[i] \in Nat /\ s[i] > 0 /\ s[i] + n = s[n] + i
        BY <1>1 DEF Lines, Consecutive
    <2>3. s[n] \in Nat /\ s[1] \in Nat
        BY <2>1, <2>2
    <2>4. s[n] <= typed[o[1]]
        <3>1. Sendable(o, s[n])
            BY <2>1 DEF Lines
        <3>2. s[n] <= typed[o[1]] \/ s[n] + 1 <= typed[o[1]]
            BY <3>1 DEF Sendable
        <3> QED
            BY <1>1, <2>3, <3>2
    <2> HIDE DEF s, n, max
    <2>5. s[n] <= max
        BY <1>1, <2>3, <2>4
    <2>6. n <= s[n]
        <3>1. s[1] > 0 /\ s[1] + n = s[n] + 1
            BY <2>1, <2>2
        <3>2. \A a \in Nat, z \in Nat, m \in Nat : a > 0 /\ a + m = z + 1 => m <= z
            OBVIOUS
        <3> QED
            BY <1>1, <2>3, <3>1, <3>2
    <2>7. ASSUME NEW i \in 1 .. n PROVE s[i] <= s[n]
        <3>1. s[i] \in Nat /\ s[i] + n = s[n] + i
            BY <2>2
        <3>2. \A a \in Nat, z \in Nat, m \in Nat :
                  \A j \in 1 .. m : a + m = z + j => a <= z
            OBVIOUS
        <3> QED
            BY <1>1, <2>3, <3>1, <3>2
    <2>8. n \in 0 .. max
        BY <1>1, <2>3, <2>5, <2>6
    <2>9. ASSUME NEW i \in 1 .. n PROVE s[i] \in 1 .. max
        <3>1. s[i] \in Nat /\ s[i] > 0 /\ s[i] <= s[n]
            BY <2>2, <2>7
        <3> QED
            BY <1>1, <2>3, <2>5, <3>1
    <2> QED
        BY <2>8, <2>9 DEF s, n, max
<1> QED
    BY <1>2, <1>3

\* Every variable has its type: no user types, and no stream is given or delivers, more lines
\* than the user at its end has typed, and no QUIC_BUFFER is freed that was not taken.
THEOREM TypeCorrect == Spec => []TypeOK
<1>1. ASSUME IInv PROVE TypeOK
    <2>1. \A c \in Client : typed[c] \in 0 .. MaxLines[c]
        BY <1>1, ChatConstantsOK DEF IInv, Types, Lines, Client
    <2>2. ASSUME NEW o \in Object
          PROVE  /\ sent[o] \in Seq(1 .. MaxLines[o[1]])
                 /\ received[o] \in 0 .. MaxLines[Other(o)[1]]
                 /\ unfreed[o] \in 0 .. MaxLines[o[1]]
        <3>1. /\ Other(o) \in Object /\ o[1] \in Client /\ Other(o)[1] \in Client
              /\ MaxLines[o[1]] \in Nat /\ MaxLines[Other(o)[1]] \in Nat
            BY Objects, ChatConstantsOK DEF Client
        <3>2. sent[o] \in Seq(1 .. MaxLines[o[1]])
            <4>1. sent[o] \in Seq(Nat) /\ \A i \in 1 .. Len(sent[o]) : sent[o][i] \in 1 .. MaxLines[o[1]]
                BY <1>1, LinesInRange DEF IInv, Types
            <4>2. /\ Len(sent[o]) \in Nat
                  /\ sent[o] \in [1 .. Len(sent[o]) -> 1 .. MaxLines[o[1]]]
                BY <4>1, LenProperties
            <4> QED
                BY <4>2, SeqDef
        <3>3. received[o] \in 0 .. MaxLines[Other(o)[1]]
            <4>1. Len(sent[Other(o)]) \in 0 .. MaxLines[Other(o)[1]]
                BY <1>1, <3>1, LinesInRange
            <4>2. received[o] \in Nat /\ received[o] <= Len(sent[Other(o)])
                BY <1>1 DEF IInv, Types, Lines
            <4> QED
                BY <3>1, <4>1, <4>2
        <3>4. unfreed[o] \in 0 .. MaxLines[o[1]]
            <4>1. Len(sent[o]) \in 0 .. MaxLines[o[1]]
                BY <1>1, LinesInRange
            <4>2. unfreed[o] \in Nat /\ unfreed[o] <= Len(sent[o])
                BY <1>1 DEF IInv, Types, Lines
            <4> QED
                BY <3>1, <4>1, <4>2
        <3> QED
            BY <3>2, <3>3, <3>4
    <2> QED
        BY <1>1, <2>1, <2>2 DEF IInv, Types, TypeOK
<1> QED
    BY <1>1, Always, PTL

\* No thread uses an object that was deleted, nor does a client die of it, but the caller's: in
\* /exit, or after the connection of a second callee has taken the place of the first.
THEOREM LiveObjects == Spec => []UsesLiveObject
<1>1. ASSUME IInv PROVE UsesLiveObject
    BY <1>1, FreedIsCallers DEF IInv, Living, UsesLiveObject
<1> QED
    BY <1>1, Always, PTL

\* An object is held until it is deleted, and deleted once, unless a callee connects to a
\* caller between /exit and listener_.reset().
THEOREM OwnedOnce == Spec => []OneOwner
<1>1. IInv => OneOwner
    BY DEF IInv, Ownership, OneOwner
<1> QED
    BY <1>1, Always, PTL

\* The lines that reach a stream are consecutive: none is dropped between two that are sent.
THEOREM LinesConsecutive == Spec => []NoLineSkipped
<1>1. ASSUME IInv PROVE NoLineSkipped
    <2> SUFFICES ASSUME NEW o \in Object, NEW i \in 1 .. Len(sent[o]) - 1
                 PROVE  sent[o][i + 1] = sent[o][i] + 1
        BY DEF NoLineSkipped
    <2>1. sent[o] \in Seq(Nat) /\ Len(sent[o]) \in Nat /\ Consecutive(sent[o])
        BY <1>1 DEF IInv, Types, Lines
    <2>2. /\ i \in 1 .. Len(sent[o]) /\ i + 1 \in 1 .. Len(sent[o])
          /\ Len(sent[o]) \in 1 .. Len(sent[o])
        BY <2>1
    <2>3. /\ sent[o][i] \in Nat /\ sent[o][i + 1] \in Nat /\ sent[o][Len(sent[o])] \in Nat
        BY <2>1, <2>2
    <2>4. /\ sent[o][i] + Len(sent[o]) = sent[o][Len(sent[o])] + i
          /\ sent[o][i + 1] + Len(sent[o]) = sent[o][Len(sent[o])] + (i + 1)
        BY <2>1, <2>2 DEF Consecutive
    <2>5. \A a \in Nat, b \in Nat, z \in Nat, n \in Nat : a + n = z + i /\ b + n = z + (i + 1) => b = a + 1
        BY <2>1
    <2> QED
        BY <2>1, <2>3, <2>4, <2>5
<1> QED
    BY <1>1, Always, PTL

===============================================================================
