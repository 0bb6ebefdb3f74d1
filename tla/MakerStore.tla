----------------------------- MODULE MakerStore -----------------------------
(***************************************************************************)
(* DurableReservationStore (packages/maker-node/src/index.ts): the write-  *)
(* ahead log of a maker node and the two tables it holds, reservations of  *)
(* the first RFQ lifecycles and collateral locks of the third.             *)
(*                                                                         *)
(* Transactions run one after the other on #tail.  A transaction works on  *)
(* a copy; when its callback throws nothing is written, when it returns    *)
(* the whole pair of tables replaces the file (temporary file, fsync,      *)
(* rename, directory fsync).  Any error on that path leaves the file at    *)
(* the old or the new content and the store refuses everything until the   *)
(* process opens it again.  A transaction whose callback throws is the     *)
(* absence of a step.                                                      *)
(***************************************************************************)
EXTENDS Reservation

CONSTANTS
  NoSubject,  \* no transaction is open
  MaxTime,    \* bound on the clock
  Lag         \* how far the time a request carries may trail the clock

ASSUME StoreAssumption == MaxTime \in Nat /\ Lag \in Nat

VARIABLES
  records,     \* #records
  locks,       \* #locks
  walRecords,  \* the records of the last complete entry of the file
  walLocks,    \* its locks
  status,      \* "opened" and "refreshing" until recoverAfterRestart ends,
               \* then "serving"; "failed" is #failed
  held,        \* the transaction that holds #tail across an await
  clock        \* time of the host and of the chain

store == <<records, locks, walRecords, walLocks, status, held>>

(* A transaction that awaits the wallet keeps the balance it was told. *)
Free == [subject |-> NoSubject, at |-> 0, balance |-> 0]

(* The time a request carries was read when it arrived, before its body,    *)
(* the queue of transactions and the calls it awaits.                       *)
Stamps == {t \in 0..clock : t + Lag >= clock}

Tick ==
  /\ clock < MaxTime
  /\ clock' = clock + 1

(* #appendSnapshot; ok is whether every step of #replaceDurableFile         *)
(* succeeded.  The tables in memory only follow a write that did; next is   *)
(* the status the process goes on with.                                     *)
AppendSnapshot(draft, draftLocks, next, ok) ==
  /\ IF ok
     THEN records' = draft /\ locks' = draftLocks /\ status' = next
     ELSE UNCHANGED <<records, locks>> /\ status' = "failed"
  /\ \/ walRecords' = draft /\ walLocks' = draftLocks
     \/ ~ok /\ UNCHANGED <<walRecords, walLocks>>
  /\ held' = Free
  /\ UNCHANGED clock

Usable == status # "failed" /\ held = Free

(* Requests are answered once recovery is over. *)
Serving == status = "serving" /\ Usable

transaction(draft, ok) == Usable /\ AppendSnapshot(draft, locks, status, ok)

lockTransaction(draftLocks, ok) == Usable /\ AppendSnapshot(records, draftLocks, status, ok)

(* The process dies, whatever it was doing, and opens the file again: the   *)
(* last complete entry wins (open, #load).                                  *)
Reopen ==
  /\ records' = walRecords
  /\ locks' = walLocks
  /\ status' = "opened"
  /\ held' = Free
  /\ UNCHANGED <<walRecords, walLocks, clock>>

=============================================================================
