------------------------ MODULE MCSubmissionDelivery ------------------------
(* A finite instance of SubmissionDelivery for TLC.                        *)
EXTENDS SubmissionDelivery

CONSTANTS s1, house, senate
=============================================================================
