----------------------- MODULE MCDebateParticipation -----------------------
(* A finite instance of DebateParticipation for TLC. A stake differs from  *)
(* a weight and from the sums; two identities stake the same, so that they *)
(* are interchangeable.                                                    *)
EXTENDS DebateParticipation, TLC

CONSTANTS i1, i2, i3, r1, r2, r3

SomeStake == i1 :> 1 @@ i2 :> 5 @@ i3 :> 5
SomeWeight == i1 :> 2 @@ i2 :> 7 @@ i3 :> 7

Symmetry == Permutations(Requests) \cup Permutations({i2, i3})

\* The deadline only keeps requests from beginning, and no invariant here mentions it:
\* the states after it are those of a debate that nobody turns to any more.
OpenSpec == Init /\ [][\E r \in Requests : Participate(r)]_vars
=============================================================================
