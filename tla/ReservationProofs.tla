------------------------- MODULE ReservationProofs -------------------------
(***************************************************************************)
(* Lemmas about the reservation lifecycle, for every store that uses it.   *)
(***************************************************************************)
EXTENDS Reservation, TLAPS

\* A lifecycle step keeps the type, takes the next fence, ends in its target
\* and binds an attempt only to begin a fill (transitionMakerReservation).
LEMMA TransitionShape ==
  ASSUME NEW r \in Reservations, NEW command \in Commands, NEW at \in Nat,
         NEW key \in Keys \cup {NoKey}
  PROVE  LET next == Transition(r, command, at, key)
         IN  /\ next \in Reservations
             /\ next.fence = r.fence + 1
             /\ next.state = Target[command]
             /\ next.attempt = IF command = "beginFill" THEN key ELSE r.attempt
<1>1. PICK t : t = Target[command]
  OBVIOUS
<1>2. PICK a : a = IF command = "beginFill" THEN key ELSE r.attempt
  OBVIOUS
<1>3. t \in ActiveStates \cup TerminalStates /\ a \in Keys \cup {NoKey}
  BY <1>1, <1>2 DEF Commands, Target, ActiveStates, TerminalStates, Reservations
<1>4. PICK f \in Nat : f = r.fence + 1
  BY DEF Reservations
<1> DEFINE next == [r EXCEPT !.state = t, !.fence = f, !.updatedAt = at, !.attempt = a]
<1>5. next \in Reservations
  BY <1>3, <1>4 DEF Reservations
<1>6. next.state = t /\ next.fence = f /\ next.attempt = a
  BY DEF Reservations
<1>7. next = Transition(r, command, at, key)
  BY <1>1, <1>2, <1>4 DEF Transition
<1>8. QED
  BY <1>1, <1>2, <1>4, <1>5, <1>6, <1>7

\* The target of each command, written out.
LEMMA Targets ==
  /\ Commands = {"select", "release", "beginFill", "consume", "expire", "quarantine"}
  /\ Target["select"] = "selected" /\ Target["release"] = "released"
  /\ Target["beginFill"] = "filling" /\ Target["consume"] = "consumed"
  /\ Target["expire"] = "expired" /\ Target["quarantine"] = "quarantined"
BY DEF Commands, Target

=============================================================================
