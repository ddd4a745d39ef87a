----------------------------- MODULE MCBilling -----------------------------
(* A finite instance of Billing for TLC.                                   *)
EXTENDS Billing

CONSTANTS d1, d2, w1, w2

Amounts == [d \in Donations |-> IF d = d1 THEN 3 ELSE 5]
=============================================================================
