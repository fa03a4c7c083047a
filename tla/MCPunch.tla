------------------------------- MODULE MCPunch --------------------------------
(* The calls of the runs of Punch, and the clients that play no special part. *)
EXTENDS Punch, TLC

CONSTANTS a, b, c

OneCall == {<<a, b>>}
EachOther == {<<a, b>>, <<b, a>>}
TwoCallees == {<<a, b>>, <<a, c>>}

\* The two callees play the same part.
Symmetry == Permutations({b, c})

===============================================================================
