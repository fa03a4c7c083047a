------------------------------ MODULE Directory -------------------------------
(***************************************************************************)
(* What the rendezvous server promises, with neither a vector nor a file   *)
(* nor suspended coroutines: one address per user, the last one the user   *)
(* was seen at, and introductions in two steps, the caller's first.  Server*)
(* implements it.                                                          *)
(***************************************************************************)
CONSTANTS
    Name,       \* user names
    Endpoint,   \* addresses
    None,       \* no address, and an address nobody can use
    Alike,      \* for a user, the names a crash may bring its address back under
    Durable     \* whether users who were confirmed survive a crash

VARIABLES
    entry,      \* for a user, the address it is reached at
    known,      \* every user and address there may be an entry for
    confirmed,  \* the users who were told that they are registered
    told        \* the introductions sent

vars == <<entry, known, confirmed, told>>

ConnectToHost(e, host, address) ==
    [type |-> "ConnectToHost", to |-> e, clientName |-> host, address |-> address]
SuccessConnectToClient(e, target, address) ==
    [type |-> "SuccessConnectToClient", to |-> e, clientName |-> target, address |-> address]

\* The caller was sent the host's address.
Invited(caller, host) ==
    \E d \in told :
        /\ d.type = "ConnectToHost"
        /\ d.address = host
        /\ <<caller, d.to>> \in known

Enter(n, e) ==
    /\ entry' = [entry EXCEPT ![n] = e]
    /\ known' = known \cup (Alike[n] \X {e})

\* A user logs in; the confirmation may be lost on the server's side.
Register(n, e) ==
    /\ Enter(n, e)
    /\ confirmed' \in {confirmed, confirmed \cup {n}}
    /\ UNCHANGED told

\* The host has accepted, from e: the caller is sent that address, unless the
\* server cannot send.
InviteCaller(caller, host, e) ==
    /\ None \notin {entry[caller], entry[host]}
    /\ Enter(host, e)
    /\ told' \in {told, told \cup {ConnectToHost(entry'[caller], host, e)}}
    /\ UNCHANGED confirmed

\* The host is sent the caller's address or one it cannot use.  That the caller
\* was invited is promised only if the directory is durable.
AnswerHost(caller, e) ==
    /\ entry[caller] # None
    /\ Durable => Invited(caller, e)
    /\ \E address \in {entry[caller], None} :
        told' = told \cup {SuccessConnectToClient(e, caller, address)}
    /\ UNCHANGED <<entry, known, confirmed>>

\* Afterwards every entry is one there was before, or is gone.
Crash ==
    /\ entry' \in [Name -> Endpoint \cup {None}]
    /\ \A n \in Name : entry'[n] # None => <<n, entry'[n]>> \in known
    /\ Durable => \A n \in confirmed : entry'[n] # None
    /\ UNCHANGED <<known, confirmed, told>>

Init ==
    /\ entry = [n \in Name |-> None]
    /\ known = {}
    /\ confirmed = {}
    /\ told = {}

Next ==
    \/ \E n \in Name, e \in Endpoint : Register(n, e)
    \/ \E caller, host \in Name, e \in Endpoint : InviteCaller(caller, host, e)
    \/ \E caller \in Name, e \in Endpoint : AnswerHost(caller, e)
    \/ Crash

Spec == Init /\ [][Next]_vars

===============================================================================
