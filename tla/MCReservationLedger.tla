------------------------ MODULE MCReservationLedger ------------------------
(***************************************************************************)
(* Model checking of the reservation ledger.                               *)
(***************************************************************************)
EXTENDS ReservationLedger, TLC

CONSTANT MaxTime   \* callers send timestamps 1..MaxTime

MCTimes == 1..MaxTime

Symmetry == Permutations(Clients) \cup Permutations(Keys) \cup Permutations(Payloads) \cup Permutations(Ids)

(* Callers leave the reservation of a running attempt to the attempt API.  *)
(* /commit accepts the quarantine of a filling reservation; its row then    *)
(* stays pending and recovery refuses every later batch.                    *)
Disciplined ==
  \A id \in Ids :
    records[id].state = "filling" /\ records'[id].state = "quarantined" =>
      attempts'[records[id].attempt].status = "completed"

(* The operator of a restarted maker calls recover until it succeeds, with  *)
(* some clock.                                                              *)
LiveSpec ==
  /\ Init
  /\ [][Next /\ Disciplined]_vars
  /\ WF_vars(\E at \in Times : recoverPendingAttempts(at))

(* No attempt stays pending for ever: whoever claimed it and died, recovery *)
(* concludes it (recoverPendingAttempts, begin on a pending key).           *)
AttemptsConclude ==
  \A k \in Keys :
    attempts[k].status = "pending" ~> attempts[k].status = "completed"

=============================================================================
