---------------------------- MODULE Reservation ----------------------------
(***************************************************************************)
(* The maker reservation lifecycle shared by every reservation store       *)
(* (packages/private-intents/src/protocol.ts): transitionMakerReservation  *)
(* and the compare-and-swap rule assertMakerReservationMutation.           *)
(*                                                                         *)
(* A reservation keeps what the lifecycle reads: state, fence, the two     *)
(* timestamps that guard transitions and the settlement attempt it is      *)
(* bound to.  Fields that are fixed at creation or only carried along      *)
(* (maker, digests, asset, amount, quote digest, reason, hash) are left    *)
(* out.                                                                    *)
(***************************************************************************)
EXTENDS Integers

CONSTANTS
  Keys,      \* settlement attempt ids (idempotency keys)
  NoKey,     \* settlementAttemptId is undefined
  MaxFence   \* the largest fence, 2^256 - 1 in the code

ASSUME ReservationAssumption == NoKey \notin Keys /\ MaxFence \in Nat

ActiveStates == {"reserved", "selected", "filling"}

TerminalStates == {"released", "consumed", "expired", "quarantined"}

(* A reservation, or the absence of one (its id has never been written).   *)
Reservations ==
  [state: {"absent"} \cup ActiveStates \cup TerminalStates,
   fence: Nat, updatedAt: Nat, expiresAt: Nat, attempt: Keys \cup {NoKey}]

Absent ==
  [state |-> "absent", fence |-> 0, updatedAt |-> 0, expiresAt |-> 0,
   attempt |-> NoKey]

(* createMakerReservation. *)
createMakerReservation(createdAt, expiresAt, fence) ==
  [state |-> "reserved", fence |-> fence, updatedAt |-> createdAt,
   expiresAt |-> expiresAt, attempt |-> NoKey]

(* The state each command of transitionMakerReservation ends in. *)
Target == [select |-> "selected", release |-> "released",
           beginFill |-> "filling", consume |-> "consumed",
           expire |-> "expired", quarantine |-> "quarantined"]

Commands == DOMAIN Target

(* The condition each command puts on the state and on the clock. *)
CommandAllowed(r, command, at) ==
  \/ command = "select" /\ r.state = "reserved" /\ at < r.expiresAt
  \/ command = "release" /\ r.state # "filling" /\ at < r.expiresAt
  \/ command = "beginFill" /\ r.state = "selected" /\ at < r.expiresAt
  \/ command = "consume" /\ r.state = "filling"
  \/ command = "expire" /\ r.state = "reserved" /\ at >= r.expiresAt
  \/ command = "quarantine"

\* Faulty variant: a terminal reservation may still be quarantined.
CanTransition_Terminal(r, command, at) ==
  /\ at >= r.updatedAt
  /\ r.fence + 1 <= MaxFence
  /\ CommandAllowed(r, command, at)

(* transitionMakerReservation does not throw.  The stale-fence test is made *)
(* by the callers, which always pass the fence of the record they read.     *)
CanTransition(r, command, at) ==
  /\ r.state \in ActiveStates
  /\ at >= r.updatedAt
  /\ r.fence + 1 <= MaxFence
  /\ CommandAllowed(r, command, at)

(* transitionMakerReservation: what it returns.  Only begin-fill binds an   *)
(* attempt.                                                                 *)
Transition(r, command, at, key) ==
  [r EXCEPT !.state = Target[command], !.fence = @ + 1, !.updatedAt = at,
            !.attempt = IF command = "beginFill" THEN key ELSE @]

(* Commands that may arrive as a plain record mutation: fills and           *)
(* consumption need the attempt API.                                        *)
MutationCommands == {"select", "release", "expire", "quarantine"}

(* assertMakerReservationMutation: the compare-and-swap accepts next as the *)
(* successor of current (expected fence 0 stands for null).                 *)
MutationAllowed(current, next, expectedFence) ==
  \/ /\ current.state = "absent"
     /\ expectedFence = 0
     /\ next.state = "reserved"
     /\ next.attempt = NoKey
     /\ next.fence \in 1..MaxFence
     /\ next.expiresAt > next.updatedAt
  \/ /\ current.state # "absent"
     /\ expectedFence = current.fence
     /\ \E command \in MutationCommands :
          /\ CanTransition(current, command, next.updatedAt)
          /\ next = Transition(current, command, next.updatedAt, NoKey)

=============================================================================
