--------------------------- MODULE MCPrivateSwap ---------------------------
(***************************************************************************)
(* Model checking of the private swap with its maker book.                 *)
(***************************************************************************)
EXTENDS PrivateSwap, TLC

Symmetry == Permutations(Makers) \cup Permutations(Ids) \cup Permutations(Tokens)

(* Blocks are produced, and somebody releases what has expired: anybody may *)
(* call release_expired.                                                    *)
FairSpec ==
  /\ Spec
  /\ WF_vars(Tick /\ UNCHANGED swapVars)
  /\ \A id \in Ids : WF_vars(release_expired(id))

(* Reserved inventory is never stranded: every reserved quote is filled or  *)
(* its inventory goes back to its maker (release_expired at expiry).        *)
QuotesEnd == \A id \in Ids : quotes[id].status = 1 ~> quotes[id].status \in {2, 3}

=============================================================================
