------------------------ MODULE MCOnChainVerification ------------------------
(* A finite instance of OnChainVerification for TLC.                       *)
EXTENDS OnChainVerification

CONSTANTS s1, s2, t1, t2, b1
=============================================================================
