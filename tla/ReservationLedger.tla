------------------------- MODULE ReservationLedger -------------------------
(***************************************************************************)
(* The reservation ledger Durable Object                                   *)
(* (workers/relay/src/reservation-ledger-do.ts) and the adapter its        *)
(* callers use (DurableObjectReservationRepository in                      *)
(* packages/maker-node/src/production-ports.ts).                           *)
(*                                                                         *)
(* Each HTTP request runs in one transactionSync, so it is one action; a   *)
(* storage failure rolls the transaction back and is the absence of a      *)
(* step.  The adapter's serializable() is not atomic: it reads a snapshot, *)
(* computes mutations and commits them later, so other requests interleave *)
(* between the two.  Callers supply their own clock: the ledger has none.  *)
(***************************************************************************)
EXTENDS Reservation, Sequences, FiniteSets

CONSTANTS
  Ids,          \* reservation ids
  NoId,         \* no reservation: the row of an unused idempotency key
  Payloads,     \* payload digests
  NoPayload,    \* no payload: the row of an unused idempotency key
  Clients,      \* callers that hold a snapshot of their own
  Times,        \* timestamps callers may send
  MaxMutations  \* mutations per commit, 100 in the code

ASSUME LedgerAssumption ==
  /\ IsFiniteSet(Keys)
  /\ Times \subseteq Nat \ {0}
  /\ MaxMutations \in Nat
  /\ NoId \notin Ids
  /\ NoPayload \notin Payloads

VARIABLES
  meta,      \* reservation_ledger_metadata: revision and high_water
  records,   \* reservation_ledger_records
  attempts,  \* reservation_ledger_attempts
  snap,      \* the snapshot each caller computes its mutations from
  claims,    \* history: "claimed" answers given for each reservation
  replied    \* history: outcomes told to callers of each idempotency key

ledger == <<meta, records, attempts>>

vars == <<meta, records, attempts, snap, claims, replied>>

Outcomes == {"consumed", "unknown"}

(* A row of reservation_ledger_attempts, and the absence of one. *)
NoAttempt ==
  [status |-> "none", id |-> NoId, fence |-> 0, payload |-> NoPayload,
   outcome |-> "none"]

AttemptRow ==
  {NoAttempt}
    \cup [status: {"pending"}, id: Ids, fence: Nat, payload: Payloads,
          outcome: {"none"}]
    \cup [status: {"completed"}, id: Ids, fence: Nat, payload: Payloads,
          outcome: Outcomes]

(* AttemptBinding: what a caller of the attempt API identifies it by. *)
Binding == [id: Ids, fence: Nat \ {0}, key: Keys, payload: Payloads]

Snapshot == [meta: [revision: Nat, high_water: Nat], records: [Ids -> Reservations]]

NoSnapshot == [meta |-> [revision |-> -1, high_water |-> 0],
               records |-> [id \in Ids |-> Absent]]

TypeOK ==
  /\ meta \in [revision: Nat, high_water: Nat]
  /\ records \in [Ids -> Reservations]
  /\ attempts \in [Keys -> AttemptRow]
  /\ snap \in [Clients -> Snapshot \cup {NoSnapshot}]
  /\ claims \in [Ids -> Nat]
  /\ replied \in [Keys -> SUBSET Outcomes]

Init ==
  /\ meta = [revision |-> 0, high_water |-> 0]
  /\ records = [id \in Ids |-> Absent]
  /\ attempts = [k \in Keys |-> NoAttempt]
  /\ snap = [c \in Clients |-> NoSnapshot]
  /\ claims = [id \in Ids |-> 0]
  /\ replied = [k \in Keys |-> {}]

-----------------------------------------------------------------------------
(* Metadata *)

(* advanceMetadata, once for every record written: the revision counts the  *)
(* writes, the high water is the largest fence ever written.                *)
advanceMetadata(writes, fences) ==
  \E hw \in {meta.high_water} \cup fences :
    /\ \A f \in {meta.high_water} \cup fences : f <= hw
    /\ meta' = [revision |-> meta.revision + writes, high_water |-> hw]

\* Faulty variant: INSERT OR REPLACE.
OpenMetadata_Replace(row) == [revision |-> 0, high_water |-> 0]

(* The constructor runs again on persisted tables: INSERT OR IGNORE keeps   *)
(* the row that is there.                                                   *)
OpenMetadata(row) == row

Restart ==
  /\ meta' = OpenMetadata(meta)
  /\ UNCHANGED <<records, attempts, snap, claims, replied>>

-----------------------------------------------------------------------------
(* Snapshot and commit *)

(* GET /snapshot, the start of serializable(). *)
TakeSnapshot(c) ==
  /\ snap' = [snap EXCEPT ![c] = [meta |-> meta, records |-> records]]
  /\ UNCHANGED <<meta, records, attempts, claims, replied>>

(* The caller's transaction ends without a commit: its operation threw or   *)
(* wrote nothing, the commit was refused or failed, or the caller crashed.  *)
Abandon(c) ==
  /\ snap[c] # NoSnapshot
  /\ snap' = [snap EXCEPT ![c] = NoSnapshot]
  /\ UNCHANGED <<meta, records, attempts, claims, replied>>

(* What a caller may put() from snapshot s: a new reservation under the     *)
(* next fence, or a lifecycle step of a record it read.                     *)
Creations(s) ==
  {[id |-> id, expectedFence |-> 0,
    next |-> createMakerReservation(at, expiresAt, s.meta.high_water + 1)] :
     id \in {i \in Ids : s.records[i].state = "absent"},
     at \in Times, expiresAt \in Times}

Steps(s) ==
  {[id |-> id, expectedFence |-> s.records[id].fence,
    next |-> Transition(s.records[id], command, at, NoKey)] :
     id \in {i \in Ids : s.records[i].state # "absent"},
     command \in MutationCommands, at \in Times}

Mutations(s) == Creations(s) \cup Steps(s)

(* The ledger's validation of one mutation of a batch, in batch order: a    *)
(* new record takes the fence after the high water of the mutations before. *)
ValidMutation(ms, i) ==
  LET current == records[ms[i].id]
      earlier == {meta.high_water} \cup {ms[j].next.fence : j \in 1..(i - 1)}
  IN  /\ MutationAllowed(current, ms[i].next, ms[i].expectedFence)
      /\ \A j \in 1..(i - 1) : ms[j].id # ms[i].id
      /\ current.state = "absent" =>
           /\ ms[i].next.fence - 1 \in earlier
           /\ \A f \in earlier : f < ms[i].next.fence

\* Faulty variant: the revision is not compared.
RevisionCurrent_Unchecked(s) == s.meta.revision >= 0

(* The revision the batch was computed from is the current one. *)
RevisionCurrent(s) == s.meta.revision = meta.revision

(* POST /commit: every mutation is applied, or none. *)
commit(c, ms) ==
  /\ snap[c] # NoSnapshot
  /\ Len(ms) \in 1..MaxMutations
  /\ RevisionCurrent(snap[c])
  /\ \A i \in DOMAIN ms : ValidMutation(ms, i)
  /\ records' = [id \in Ids |->
       IF \E i \in DOMAIN ms : ms[i].id = id
         THEN ms[CHOOSE i \in DOMAIN ms : ms[i].id = id].next
         ELSE records[id]]
  /\ advanceMetadata(Len(ms), {ms[i].next.fence : i \in DOMAIN ms})
  /\ snap' = [snap EXCEPT ![c] = NoSnapshot]
  /\ UNCHANGED <<attempts, claims, replied>>

-----------------------------------------------------------------------------
(* Value-moving attempts *)

(* The idempotency key was used before, with this very payload. *)
SameBinding(row, b) ==
  row.id = b.id /\ row.fence = b.fence /\ row.payload = b.payload

(* The reservation is being filled by this attempt. *)
Filling(id, key) ==
  records[id].state = "filling" /\ records[id].attempt = key

(* Both calls answer a completed attempt with its recorded outcome. *)
Replay(b) ==
  LET row == attempts[b.key]
  IN  /\ row.status = "completed"
      /\ SameBinding(row, b)
      /\ replied' = [replied EXCEPT ![b.key] = @ \cup {row.outcome}]
      /\ UNCHANGED <<meta, records, attempts, snap, claims>>

\* Faulty variant: the row is completed without its outcome.
Conclude_NoOutcome(key, id, command, at, outcome) ==
  LET next == Transition(records[id], command, at, NoKey)
  IN  /\ CanTransition(records[id], command, at)
      /\ records' = [records EXCEPT ![id] = next]
      /\ advanceMetadata(1, {next.fence})
      /\ attempts' = [attempts EXCEPT ![key].status = "completed"]
      /\ replied' = [replied EXCEPT ![key] = @ \cup {outcome}]
      /\ UNCHANGED <<snap, claims>>

\* Faulty variant: the row stays pending after the record moved.
Conclude_RowLost(key, id, command, at, outcome) ==
  LET next == Transition(records[id], command, at, NoKey)
  IN  /\ CanTransition(records[id], command, at)
      /\ records' = [records EXCEPT ![id] = next]
      /\ advanceMetadata(1, {next.fence})
      /\ replied' = [replied EXCEPT ![key] = @ \cup {outcome}]
      /\ UNCHANGED <<attempts, snap, claims>>

(* The attempt's record takes a lifecycle step and its row is completed. *)
Conclude(key, id, command, at, outcome) ==
  LET next == Transition(records[id], command, at, NoKey)
  IN  /\ CanTransition(records[id], command, at)
      /\ records' = [records EXCEPT ![id] = next]
      /\ advanceMetadata(1, {next.fence})
      /\ attempts' = [attempts EXCEPT ![key].status = "completed",
                                      ![key].outcome = outcome]
      /\ replied' = [replied EXCEPT ![key] = @ \cup {outcome}]
      /\ UNCHANGED <<snap, claims>>

Later(a, b) == IF a >= b THEN a ELSE b

\* Faulty variant: a retry of a pending key is granted the claim again.
Interrupt_Reclaim(b, at) ==
  /\ attempts[b.key].status = "pending"
  /\ SameBinding(attempts[b.key], b)
  /\ Filling(b.id, b.key)
  /\ claims' = [claims EXCEPT ![b.id] = @ + 1]
  /\ UNCHANGED <<meta, records, attempts, snap, replied>>

(* beginAttempt on a pending key: an interrupted attempt is quarantined,    *)
(* never handed out again.                                                  *)
Interrupt(b, at) ==
  /\ attempts[b.key].status = "pending"
  /\ SameBinding(attempts[b.key], b)
  /\ Filling(b.id, b.key)
  /\ Conclude(b.key, b.id, "quarantine",
              Later(at, records[b.id].updatedAt), "unknown")

\* Faulty variant: the claim is granted before its row is written.
Claim_NoRow(b, at) ==
  LET current == records[b.id]
      filling == Transition(current, "beginFill", at, b.key)
  IN  /\ attempts[b.key].status = "none"
      /\ current.fence = b.fence
      /\ CanTransition(current, "beginFill", at)
      /\ records' = [records EXCEPT ![b.id] = filling]
      /\ advanceMetadata(1, {filling.fence})
      /\ claims' = [claims EXCEPT ![b.id] = @ + 1]
      /\ UNCHANGED <<attempts, snap, replied>>

(* beginAttempt on a new key: the fence compare-and-swap and begin-fill.    *)
Claim(b, at) ==
  LET current == records[b.id]
      filling == Transition(current, "beginFill", at, b.key)
  IN  /\ attempts[b.key].status = "none"
      /\ current.fence = b.fence
      /\ CanTransition(current, "beginFill", at)
      /\ records' = [records EXCEPT ![b.id] = filling]
      /\ advanceMetadata(1, {filling.fence})
      /\ attempts' = [attempts EXCEPT ![b.key] =
           [status |-> "pending", id |-> b.id, fence |-> b.fence,
            payload |-> b.payload, outcome |-> "none"]]
      /\ claims' = [claims EXCEPT ![b.id] = @ + 1]
      /\ UNCHANGED <<snap, replied>>

(* POST /attempt/begin *)
beginAttempt(b, at) == Replay(b) \/ Interrupt(b, at) \/ Claim(b, at)

\* Faulty variant: a late report overwrites a concluded attempt.
Settle_Late(b, at, outcome) ==
  /\ attempts[b.key].status # "none"
  /\ SameBinding(attempts[b.key], b)
  /\ attempts' = [attempts EXCEPT ![b.key].status = "completed",
                                  ![b.key].outcome = outcome]
  /\ replied' = [replied EXCEPT ![b.key] = @ \cup {outcome}]
  /\ UNCHANGED <<meta, records, snap, claims>>

(* The caller that holds the claim reports what became of the transfer. *)
Settle(b, at, outcome) ==
  /\ attempts[b.key].status = "pending"
  /\ SameBinding(attempts[b.key], b)
  /\ Filling(b.id, b.key)
  /\ Conclude(b.key, b.id, IF outcome = "consumed" THEN "consume" ELSE "quarantine",
              at, outcome)

(* POST /attempt/complete *)
completeAttempt(b, at, outcome) == Replay(b) \/ Settle(b, at, outcome)

Pending == {k \in Keys : attempts[k].status = "pending"}

(* POST /attempt/recover: every pending attempt is quarantined in one       *)
(* transaction; one that does not match its reservation aborts them all.    *)
recoverPendingAttempts(at) ==
  LET id(k) == attempts[k].id
      when(k) == Later(at, records[id(k)].updatedAt)
      next(k) == Transition(records[id(k)], "quarantine", when(k), NoKey)
  IN  /\ Pending # {}
      /\ \A k \in Pending :
           /\ Filling(id(k), k)
           /\ CanTransition(records[id(k)], "quarantine", when(k))
      /\ records' = [i \in Ids |->
           IF \E k \in Pending : id(k) = i
             THEN next(CHOOSE k \in Pending : id(k) = i)
             ELSE records[i]]
      /\ advanceMetadata(Cardinality(Pending), {next(k).fence : k \in Pending})
      /\ attempts' = [k \in Keys |->
           IF k \in Pending
             THEN [attempts[k] EXCEPT !.status = "completed", !.outcome = "unknown"]
             ELSE attempts[k]]
      /\ replied' = [k \in Keys |->
           IF k \in Pending THEN replied[k] \cup {"unknown"} ELSE replied[k]]
      /\ UNCHANGED <<snap, claims>>

-----------------------------------------------------------------------------

Batches(s) ==
  UNION {[1..n -> Mutations(s)] : n \in 1..MaxMutations}

(* The fences a caller has reason to send: 1 up to the high water. *)
Sent == [id: Ids, fence: 1..meta.high_water, key: Keys, payload: Payloads]

CommitNext ==
  \E c \in Clients :
    \/ TakeSnapshot(c)
    \/ Abandon(c)
    \/ \E ms \in Batches(snap[c]) : commit(c, ms)

AttemptNext ==
  \/ \E b \in Sent, at \in Times :
       \/ beginAttempt(b, at)
       \/ \E outcome \in Outcomes : completeAttempt(b, at, outcome)
  \/ \E at \in Times : recoverPendingAttempts(at)

Next == CommitNext \/ AttemptNext \/ Restart

Spec == Init /\ [][Next]_vars

-----------------------------------------------------------------------------
(* Properties *)

(* Fences order every write.  A record that changes takes its own next      *)
(* fence, and a new record's fence is above every fence the ledger has ever *)
(* issued, restarts included: no two creations share one and a stale holder *)
(* never passes the compare-and-swap (advanceMetadata, the new-record check *)
(* of commit).                                                              *)
FencesAdvance ==
  [][\A id \in Ids : records'[id] # records[id] =>
       IF records[id].state = "absent"
         THEN \A i \in Ids : records[i].fence < records'[id].fence
         ELSE records'[id].fence = records[id].fence + 1]_vars

(* A commit that changes records is computed from the records it changes:   *)
(* no caller overwrites what another request wrote after its snapshot, in   *)
(* any record, not only those of its batch (the revision check of commit).  *)
SerializableCommits ==
  [][\A c \in Clients :
       snap[c] # NoSnapshot /\ snap'[c] = NoSnapshot /\ records' # records =>
         snap[c].records = records]_vars

(* A reservation is claimed for a value-moving attempt at most once, ever,  *)
(* whatever is retried, replayed or recovered, and once it has been claimed *)
(* its inventory is never freed: it is filling, consumed or quarantined.    *)
ClaimedOnce ==
  \A id \in Ids :
    /\ claims[id] <= 1
    /\ claims[id] = 1 =>
         records[id].state \in {"filling", "consumed", "quarantined"}

(* Every caller of an idempotency key is told the same outcome, and what it *)
(* is told is what the reservation became: "consumed" exactly when the      *)
(* record was consumed by that attempt (replay in begin and complete).      *)
OneOutcome ==
  /\ \A k \in Keys : \A x, y \in replied[k] : x = y
  /\ \A k \in Keys : \A x \in replied[k] :
       /\ attempts[k].status = "completed"
       /\ attempts[k].outcome = x
       /\ records[attempts[k].id].attempt = k
       /\ records[attempts[k].id].state =
            IF x = "consumed" THEN "consumed" ELSE "quarantined"

(* An in-flight fill is never orphaned: its attempt is pending under the    *)
(* key the record names, so a retry, a report or recovery can conclude it.  *)
(* A pending attempt's record still names it, and was quarantined by a      *)
(* commit if it is not filling any more.                                    *)
FillsTracked ==
  /\ \A id \in Ids : records[id].state = "filling" =>
       \E k \in Keys : /\ records[id].attempt = k
                       /\ attempts[k].status = "pending"
                       /\ attempts[k].id = id
  /\ \A k \in Pending :
       /\ records[attempts[k].id].attempt = k
       /\ records[attempts[k].id].state \in {"filling", "quarantined"}
       /\ attempts[k].fence < records[attempts[k].id].fence

(* The refinement mapping to InventoryHold. *)
HoldOf(r) ==
  CASE r.state = "absent" -> "none"
    [] r.state \in {"reserved", "selected"} -> "held"
    [] r.state \in {"released", "expired"} -> "returned"
    [] r.state = "filling" -> "moving"
    [] r.state = "consumed" -> "spent"
    [] OTHER -> "frozen"

holdBar == [id \in Ids |-> HoldOf(records[id])]

moverBar == [id \in Ids |-> records[id].attempt]

verdictBar == [k \in Keys |-> attempts[k].outcome]

Hold == INSTANCE InventoryHold
          WITH hold <- holdBar, mover <- moverBar, verdict <- verdictBar

(* The ledger implements InventoryHold: through stale snapshots, batches,   *)
(* duplicated, interrupted and late attempts and recovery, inventory moves  *)
(* at most once and every key has one verdict, the one the inventory met.   *)
HoldSpec == Hold!Spec

=============================================================================
