------------------------ MODULE MCConfidentialClient ------------------------
(***************************************************************************)
(* Model checking of the confidential RFQ clients.                         *)
(***************************************************************************)
EXTENDS ConfidentialClient, TLC

MCAgreed == [t \in Roles |-> IF t = "a" THEN 2 ELSE 1]

=============================================================================
