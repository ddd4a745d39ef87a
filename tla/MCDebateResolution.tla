------------------------- MODULE MCDebateResolution -------------------------
(* A finite instance of DebateResolution for TLC.                          *)
EXTENDS DebateResolution, TLC

CONSTANTS i1, i2, r1, r2, p1, p2, e1, e2, s1

SomeStake == i1 :> 1 @@ i2 :> 5
SomeWeight == i1 :> 2 @@ i2 :> 7

Symmetry == Permutations(Requests) \cup Permutations(Resolvers)
            \cup Permutations(Evaluators)
=============================================================================
