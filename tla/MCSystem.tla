------------------------------- MODULE MCSystem --------------------------------
EXTENDS System, TLC

CONSTANTS a, b, c, torn

MCClient == {a, b, c}
MCName == {a, b, c, torn}
MCTrim == [n \in MCName |-> n]
\* b is the one whose address changes.
MCEndpoint == {<<a, 1>>, <<b, 1>>, <<b, 2>>, <<c, 1>>}
\* Two call b, and b calls them back.
MCCalls == {<<a, b>>, <<c, b>>, <<b, a>>, <<b, c>>}
MCCommands ==
    [x \in MCClient |-> IF x = b THEN {"/login", "/list", "/accept", "/reject"}
                                 ELSE {"/login", "/accept"}]
MCLines == a :> 2 @@ c :> 2 @@ b :> 3

\* The two others are alike.
OthersSymmetry == Permutations({a, c})

===============================================================================
