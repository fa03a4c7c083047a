------------------------------- MODULE MCServer -------------------------------
(* What data.csv does to names, and symmetry: no action prefers an endpoint, and  *)
(* none a name as long as names are kept.                                         *)
EXTENDS Server

CONSTANTS alice, carol

NamesKept == [n \in Name |-> n]
\* carol's name is alice's with a blank at its end.
CarolTrimmed == [n \in Name |-> IF n = carol THEN alice ELSE n]

Symmetry == Permutations(Name) \cup Permutations(Endpoint)
EndpointSymmetry == Permutations(Endpoint)

===============================================================================
