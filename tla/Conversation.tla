----------------------------- MODULE Conversation ------------------------------
(***************************************************************************)
(* What a user may count on in a chat, with neither objects nor threads    *)
(* nor buffers.  Every chat of two clients has an end for each; an end     *)
(* waits, is open, and is over for good.  A line typed while an end is     *)
(* open is said there, next after the one before, unless that end is over  *)
(* first.  Chat implements it.                                             *)
(***************************************************************************)
EXTENDS Naturals, Sequences

CONSTANTS
    Client,     \* who chats
    End,        \* the ends of their chats
    Owner,      \* the client of an end
    Peer,       \* the other end of the same chat
    None        \* no end

VARIABLES
    left,       \* the clients whose users have left, or whose program has died
    state,      \* of an end: "waiting", "open" or "over"
    typed,      \* how many lines each user has typed
    saying,     \* where the line a user has typed is about to be said, if anywhere
    said,       \* the lines said at each end, by number
    heard       \* how many lines of the other end each end has printed

vars == <<left, state, typed, saying, said, heard>>

Mine(c) == {e \in End : Owner[e] = c}
OpenEnds(c) == {e \in Mine(c) : state[e] = "open"}

\* A user types a line: for an end that is open, or, if there is none, for whichever
\* end there is or for nobody.
Type(c) ==
    /\ c \notin left
    /\ saying[c] = None
    /\ typed' = [typed EXCEPT ![c] = @ + 1]
    /\ \E e \in IF OpenEnds(c) = {} THEN Mine(c) \cup {None} ELSE OpenEnds(c) :
          saying' = [saying EXCEPT ![c] = e]
    /\ UNCHANGED <<left, state, said, heard>>

\* The line is said, and none is missing between it and the one said before.
Say(c, e) ==
    /\ saying[c] = e
    /\ state[e] = "open"
    /\ said[e] # <<>> => said[e][Len(said[e])] + 1 = typed[c]
    /\ said' = [said EXCEPT ![e] = Append(@, typed[c])]
    /\ saying' = [saying EXCEPT ![c] = None]
    /\ UNCHANGED <<left, state, typed, heard>>

\* A line is dropped only where it cannot be said, or not yet.
Drop(c, e) ==
    /\ saying[c] = e
    /\ state[e] # "open"
    /\ saying' = [saying EXCEPT ![c] = None]
    /\ UNCHANGED <<left, state, typed, said, heard>>

\* The next line of the other end is printed.
Hear(e) ==
    /\ state[e] = "open"
    /\ heard[e] < Len(said[Peer[e]])
    /\ heard' = [heard EXCEPT ![e] = @ + 1]
    /\ UNCHANGED <<left, state, typed, saying, said>>

\* Who is in a chat has at most one open end.
Open(e) ==
    /\ state[e] = "waiting"
    /\ Owner[e] \in left \/ OpenEnds(Owner[e]) = {}
    /\ state' = [state EXCEPT ![e] = "open"]
    /\ UNCHANGED <<left, typed, saying, said, heard>>

Close(e) ==
    /\ state[e] # "over"
    /\ state' = [state EXCEPT ![e] = "over"]
    /\ UNCHANGED <<left, typed, saying, said, heard>>

\* The ends of a user who leaves close later.
Leave(c) ==
    /\ c \notin left
    /\ saying[c] = None
    /\ left' = left \cup {c}
    /\ UNCHANGED <<state, typed, saying, said, heard>>

\* A program that goes on with what is over may die of it, in the chat or on its way out;
\* then every end of its user that had begun is over.
Die(c) ==
    /\ c \in left \/ (saying[c] # None /\ state[saying[c]] = "over")
    /\ left' = left \cup {c}
    /\ \E begun \in SUBSET Mine(c) :
          /\ OpenEnds(c) \subseteq begun
          /\ state' = [e \in End |-> IF e \in begun THEN "over" ELSE state[e]]
    /\ saying' = [saying EXCEPT ![c] = None]
    /\ UNCHANGED <<typed, said, heard>>

Init ==
    /\ left = {}
    /\ state = [e \in End |-> "waiting"]
    /\ typed = [c \in Client |-> 0]
    /\ saying = [c \in Client |-> None]
    /\ said = [e \in End |-> <<>>]
    /\ heard = [e \in End |-> 0]

Next ==
    \/ \E c \in Client : Type(c) \/ Leave(c) \/ Die(c)
    \/ \E c \in Client, e \in End : Say(c, e) \/ Drop(c, e)
    \/ \E e \in End : Hear(e) \/ Open(e) \/ Close(e)

Spec == Init /\ [][Next]_vars

===============================================================================
