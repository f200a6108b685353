--------------------------- MODULE MCIbkrSession ---------------------------
EXTENDS IbkrSession, TLC

\* one endpoint mirrors a bracket, the other a single order
BracketAndSingle == 1 :> {<<"entry", "stop", "limit">>} @@ 2 :> {<<"entry">>}

\* No definition tells one change from another.
Symmetry == Permutations(Change)

=============================================================================
