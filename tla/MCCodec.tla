------------------------------- MODULE MCCodec --------------------------------
(* Names and registries at the limits of the run of Codec. *)
EXTENDS Codec

Named(v, n) == [v |-> v, n |-> n]

\* A short name, two at the limit of each request, and a long one.
MCText ==
    {Named("", 0), Named("ann", 3),
     Named("binding", 1004), Named("binding+1", 1005),
     Named("connect", 852), Named("connect+1", 853), Named("consent", 851),
     Named("huge", 65000)}

MCToken == {Named("", 0), Named("jwt", 150)}

MCEndpoint ==
    {[address |-> <<10, 0, 2, 15>>, port |-> <<20, 115>>],
     [address |-> <<192, 168, 1, 7>>, port |-> <<255, 1>>]}

Copies(n, name) == [i \in 1 .. n |-> name]

\* A list with an empty name; lists of 1004 bytes, of one more than that, and cut in a
\* name, in a size and between two names; lists whose length wraps, to 0 and to 1 too.
MCRegistry ==
    {<<>>,
     Copies(1, Named("", 0)) \o Copies(1, Named("ann", 3)),
     Copies(1, Named("fills", 1000)),
     Copies(1, Named("over", 1001)),
     Copies(3, Named("third", 400)),
     Copies(1, Named("but one", 999)) \o Copies(2, Named("ann", 3)),
     Copies(2, Named("half", 499)) \o Copies(2, Named("ann", 3)),
     Copies(66, Named("thousand", 1000)),
     Copies(65, Named("thousand", 1000)) \o Copies(1, Named("rest", 376)),
     Copies(65, Named("thousand", 1000)) \o Copies(1, Named("to 0", 402)),
     Copies(65, Named("thousand", 1000)) \o Copies(1, Named("to 1", 403))}

===============================================================================
