------------------------- MODULE MCSubmissionIntake -------------------------
(* A finite instance of SubmissionIntake for TLC.                          *)
EXTENDS SubmissionIntake, TLC

CONSTANTS u1, u2, n1, n2, k1, k2, r1, r2, r3

Create(u, n, k) == [via |-> "create", user |-> u, nullifier |-> n, key |-> k]
Legislative(u, n) == [via |-> "legislative", user |-> u, nullifier |-> n, key |-> None]

\* One user posts n1 with a key, without one and through the other endpoint; the
\* other user wants n1 as well, and both submit n2.
SomeBodies ==
  {Create(u1, n1, k1), Create(u1, n1, None), Legislative(u1, n1),
   Create(u2, n1, k2), Create(u2, n2, None), Create(u1, n2, None)}

=============================================================================
