------------------------ MODULE MCConfidentialEscrow ------------------------
(***************************************************************************)
(* Model checking of the confidential escrow account.                      *)
(***************************************************************************)
EXTENDS ConfidentialEscrow, TLC

MCAgreed == [t \in Roles |-> IF t = "a" THEN 2 ELSE 1]

(* The refund an owner's client prepares: all notes of its asset. *)
FullRefund(r) ==
  LET ns == {n \in notes : n.token = r}
  IN  [mode |-> IF r = "a" THEN "refundA" ELSE "refundB", inputs |-> ns, sigs |-> {r},
       outs |-> [t \in Roles |-> [p \in Recipients |->
                  IF t = r /\ p = r THEN Value(ns, r) ELSE 0]]]

Refund(r) == Executable(FullRefund(r)) /\ Execute(FullRefund(r))

(* Blocks are produced, and each owner keeps asking for its refund.         *)
FairEscrow ==
  /\ Escrow
  /\ WF_<<now, escrowVars>>(Tick)
  /\ \A r \in Roles : WF_<<now, escrowVars>>(Refund(r))

(* No note is stranded: also what is paid in late, after a settlement or    *)
(* after an earlier refund, goes back to its owner (refunds are repeatable  *)
(* and do not look at settled).                                             *)
NothingStranded ==
  \A r \in Roles : Value(notes, r) > 0 ~> Value(notes, r) = 0

=============================================================================
