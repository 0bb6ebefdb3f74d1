------------------------------ MODULE MCEscrow ------------------------------
(***************************************************************************)
(* TLC instances of Escrow.                                                *)
(***************************************************************************)
EXTENDS Escrow, TLC

CONSTANT MaxFills  \* bound on the fills of a signed take, at most 4

\* A fixed price, and a line that rounds down in the middle.
MCSchedules ==
    { << [a |-> 1, b |-> 1] >>,
      << [a |-> 1, b |-> 1], [a |-> 3, b |-> 2] >> }

MCNoSchedules == {}
MCNoMessages == {}

MCFills ==
    UNION { { s \in [1 .. n -> [lock_id : LockIds, amount_a : 1 .. 2]] :
                assert_distinct_fills(s) } : n \in 1 .. MaxFills }

MCMessages == [key : Keys, identity : Identities, deal_id : RfqIds,
               token : Legs, counter_token : Legs, fills : MCFills]

Symmetry == Permutations(Assets) \cup Permutations(DealIds)
              \cup Permutations(LockIds) \cup Permutations(Keys)
              \cup Permutations(Identities)

-----------------------------------------------------------------------------
(***************************************************************************)
(* Liveness: blocks are produced, and holders do not trade their tickets   *)
(* and send a ticket to the escrow only to redeem it, one unit at a time,  *)
(* as the wallet does (the withdrawal and the call are one pool call).     *)
(***************************************************************************)

Redeemable(k) ==
    IF k \in DealIds
    THEN deals[k].status = "Filled" \/ Expired(deals[k].deadline)
    ELSE Expired(locks[k].expiry)

Diligent ==
    \A k \in Tickets :
        /\ ~snapshots'[k].prepared
        /\ bal'[k] > bal[k] => bal[k] = 0 /\ Redeemable(k)

FairSpec ==
    /\ Init /\ [][Next /\ Diligent]_vars
    /\ WF_vars(NextTx /\ now' > now)
    /\ \A k \in Tickets : WF_vars(Withdraw(k, 1) /\ Diligent)
    /\ \A d \in DealIds : WF_vars(claim(d) \/ timeout(d))
    /\ \A l \in LockIds : WF_vars(settle_proceeds(l) \/ release_collateral(l))

\* A funded deal ends: the maker is refunded after the deadline, or is paid the
\* counter leg however late the claim comes.
DealsEnd ==
    \A d \in DealIds :
        (deals[d].status # "Empty") ~> (deals[d].status \in {"Settled", "TimedOut"})

\* Both sides of a lock are paid out after its expiry, taken or not, also when
\* one side has nothing to pay.
LocksClose ==
    \A l \in LockIds :
        (locks[l].status = "Open") ~> (locks[l].status = "Closed")
=============================================================================
