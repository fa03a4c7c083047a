-------------------------------- MODULE MCChat ---------------------------------
EXTENDS Chat, TLC

CONSTANTS alice, bob, carol

MCCallee == {bob, carol}
MCMaxLines == alice :> 3 @@ bob :> 1 @@ carol :> 0

===============================================================================
