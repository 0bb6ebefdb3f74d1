-------------------------- MODULE MakerNodeProofs --------------------------
(***************************************************************************)
(* Proofs about the reservations of MakerNode, for every value of its      *)
(* constants.                                                              *)
(***************************************************************************)
EXTENDS MakerNode, ReservationProofs, TLAPS

\* The wallet may have been asked to fill: begin-fill binds the attempt.
Attempted(rec) == rec.reservation.attempt # NoKey

\* The fence of the selection can be read back from the record: evidence of
\* the authority has it, and until there is any the fence has moved by what
\* the state says.
Fenced(rec) ==
  LET r == rec.reservation IN
  /\ rec.terminal # NoEvidence => rec.terminal.fence = SelectionFence
  /\ rec.quarantine # NoEvidence => rec.quarantine.fence = SelectionFence
  /\ r.state = "reserved" =>
       r.fence = 1 /\ rec.terminal = NoEvidence /\ rec.quarantine = NoEvidence
  /\ rec.terminal = NoEvidence /\ rec.quarantine = NoEvidence =>
       /\ r.state = "selected" => r.fence = SelectionFence
       /\ r.state = "filling" => r.fence = SelectionFence + 1
       /\ r.state = "consumed" => r.fence = SelectionFence + 2
       /\ r.state = "quarantined" =>
            r.fence = SelectionFence + (IF Attempted(rec) THEN 2 ELSE 1)

\* A record as the handlers leave it: it loads again, an attempt is never
\* given back, what was never written is empty, and its fence is exact.
Sound(rec) ==
  /\ assertMakerReservation(rec)
  /\ Attempted(rec) => rec.reservation.state \in {"filling", "consumed", "quarantined"}
  /\ rec.reservation.state = "absent" =>
       ~Attempted(rec) /\ rec.quote = NoQuote /\ rec.terminal = NoEvidence
  /\ Fenced(rec)

\* What every write makes of a record: it keeps the attempt, the payload that
\* was signed and what the authority decided.
Advance(old, new) ==
  /\ new \in StoredMakerReservation
  /\ Sound(new)
  /\ Attempted(old) => Attempted(new)
  /\ old.quote # NoQuote => new.quote = old.quote
  /\ old.terminal # NoEvidence =>
       /\ new.terminal # NoEvidence
       /\ new.terminal.outcome = old.terminal.outcome
       /\ new.terminal.revision >= old.terminal.revision

AdvanceAll(old, new) == \A i \in Intents : Advance(old[i], new[i])

Tables == [Intents -> StoredMakerReservation]

\* Memory is what is on disk, or one write behind it once a write has failed,
\* and the transaction that is open is about a reservation nobody has made.
StoreInv ==
  /\ records \in Tables /\ walRecords \in Tables
  /\ \A i \in Intents : Sound(records[i])
  /\ AdvanceAll(records, walRecords)
  /\ status # "failed" => walRecords = records
  /\ status = "failed" => held = Free
  /\ held.subject \in Intents => records[held.subject].reservation.state = "absent"
  /\ held.at \in Nat
  /\ clock \in Nat

FillRequests == [pc: {"idle", "call", "wait", "returned", "failed"}, at: Nat]

\* The wallet is called for an attempt that is on record, and once.
FillInv ==
  /\ fills \in [Intents -> FillRequests]
  /\ fillCalls \in [Intents -> Nat]
  /\ \A i \in Intents :
       /\ fillCalls[i] <= 1
       /\ fillCalls[i] = 1 \/ fills[i].pc = "call" => Attempted(records[i])
       /\ fills[i].pc = "call" => fillCalls[i] = 0

\* Signatures that were returned are of the payload on record.
GivenInv ==
  /\ given \in [Intents -> SUBSET Quotes]
  /\ \A i \in Intents : given[i] \subseteq {records[i].quote}

NodeInv == StoreInv /\ FillInv /\ GivenInv

-----------------------------------------------------------------------------
(* What the handlers make of a record *)

\* A record that is not touched has advanced.
LEMMA AdvanceSame ==
  ASSUME NEW rec \in StoredMakerReservation, Sound(rec)
  PROVE  Advance(rec, rec)
BY DEF Advance, StoredMakerReservation, Evidence

\* Advances compose.
LEMMA AdvanceTransitive ==
  ASSUME NEW a \in StoredMakerReservation, NEW b \in StoredMakerReservation,
         NEW c \in StoredMakerReservation, Advance(a, b), Advance(b, c)
  PROVE  Advance(a, c)
<1>1. /\ a.terminal \in Evidence /\ b.terminal \in Evidence /\ c.terminal \in Evidence
  BY DEF StoredMakerReservation
<1>2. QED
  BY <1>1 DEF Advance, Evidence

\* A lifecycle step changes the reservation of a record and nothing else.
LEMMA WithShape ==
  ASSUME NEW rec \in StoredMakerReservation, NEW command \in Commands, NEW at \in Nat,
         NEW key \in Keys \cup {NoKey}
  PROVE  LET new == With(rec, command, at, key)
         IN  /\ new \in StoredMakerReservation
             /\ new.reservation.state = Target[command]
             /\ new.reservation.attempt = IF command = "beginFill" THEN key
                                          ELSE rec.reservation.attempt
             /\ new.quote = rec.quote /\ new.hash = rec.hash
             /\ new.deal = rec.deal /\ new.terminal = rec.terminal
             /\ new.reservation.fence = rec.reservation.fence + 1
             /\ new.quarantine = rec.quarantine
<1>1. rec.reservation \in Reservations
  BY DEF StoredMakerReservation
<1>2. PICK r \in Reservations :
        /\ r = Transition(rec.reservation, command, at, key)
        /\ r.state = Target[command] /\ r.fence = rec.reservation.fence + 1
        /\ r.attempt = IF command = "beginFill" THEN key ELSE rec.reservation.attempt
  BY <1>1, TransitionShape
<1> DEFINE new == [rec EXCEPT !.reservation = r]
<1>3. new \in StoredMakerReservation
  BY DEF StoredMakerReservation
<1>4. /\ new.reservation = r /\ new.quote = rec.quote /\ new.hash = rec.hash
      /\ new.deal = rec.deal /\ new.terminal = rec.terminal
      /\ new.quarantine = rec.quarantine
  BY DEF StoredMakerReservation
<1>5. new = With(rec, command, at, key)
  BY <1>2 DEF With
<1>6. QED
  BY <1>2, <1>3, <1>4, <1>5

\* The type of a stored record, field by field.
LEMMA RecordFields ==
  ASSUME NEW rec \in StoredMakerReservation
  PROVE  /\ rec.reservation \in Reservations
         /\ rec.reservation.fence \in Nat /\ rec.reservation.updatedAt \in Nat
         /\ rec.reservation.attempt \in Keys \cup {NoKey}
         /\ rec.quote \in Quotes \cup {NoQuote} /\ rec.deal \in Deals \cup {NoDeal}
         /\ rec.hash \in BOOLEAN /\ rec.terminal \in Evidence
         /\ rec.quarantine \in Evidence /\ rec.terminal.revision \in Nat
<1>1. /\ rec.reservation \in Reservations
      /\ rec.quote \in Quotes \cup {NoQuote} /\ rec.deal \in Deals \cup {NoDeal}
      /\ rec.hash \in BOOLEAN /\ rec.terminal \in Evidence /\ rec.quarantine \in Evidence
  BY DEF StoredMakerReservation
<1>2. QED
  BY <1>1 DEF Reservations, Evidence

\* What the authority reads back is the fence of the selection
\* (selectionFenceForReconciliation).
LEMMA FenceReadBack ==
  ASSUME NEW rec \in StoredMakerReservation, Sound(rec), HasSelectionFence(rec)
  PROVE  selectionFenceForReconciliation(rec) = SelectionFence
<1>1. rec.reservation.fence \in Nat
  BY RecordFields
<1>2. CASE rec.terminal # NoEvidence \/ rec.quarantine # NoEvidence
  BY <1>2 DEF Sound, Fenced, selectionFenceForReconciliation
<1>3. CASE rec.terminal = NoEvidence /\ rec.quarantine = NoEvidence
  <2>1. /\ rec.reservation.state \in {"selected", "filling", "consumed", "quarantined"}
        /\ selectionFenceForReconciliation(rec)
             = rec.reservation.fence - FenceOffset(rec)[rec.reservation.state]
    BY <1>3 DEF HasSelectionFence, selectionFenceForReconciliation
  <2>2. /\ FenceOffset(rec)["selected"] = 0 /\ FenceOffset(rec)["filling"] = 1
        /\ FenceOffset(rec)["consumed"] = 2
        /\ FenceOffset(rec)["quarantined"] = IF Attempted(rec) THEN 2 ELSE 1
    BY DEF FenceOffset, Attempted
  <2>3. QED
    BY <1>1, <1>3, <2>1, <2>2 DEF Sound, Fenced, SelectionFence
<1>4. QED
  BY <1>2, <1>3

\* Every command but begin-fill advances a record, given what its caller has
\* tested: a release gives back nothing that was attempted, consumption and
\* expiry and selection start where their handlers look.
LEMMA WithAdvances ==
  ASSUME NEW rec \in StoredMakerReservation, Sound(rec), NEW at \in Nat,
         NEW command \in {"select", "release", "expire", "quarantine"},
         command = "select" => rec.reservation.state = "reserved" /\ rec.quote # NoQuote,
         command = "release" => rec.reservation.state \in {"reserved", "selected"},
         command = "expire" => rec.reservation.state = "reserved",
         command = "quarantine" => rec.reservation.state \in {"selected", "filling"}
  PROVE  Advance(rec, With(rec, command, at, NoKey))
<1>1. command \in Commands
  BY Targets
<1>2. PICK new \in StoredMakerReservation :
        /\ new = With(rec, command, at, NoKey)
        /\ new.reservation.state = Target[command]
        /\ new.reservation.attempt = rec.reservation.attempt
        /\ new.quote = rec.quote /\ new.hash = rec.hash /\ new.terminal = rec.terminal
        /\ new.reservation.fence = rec.reservation.fence + 1
        /\ new.quarantine = rec.quarantine
  BY <1>1, WithShape
<1>3. rec.terminal.revision \in Nat /\ rec.reservation.fence \in Nat
  BY RecordFields
<1>4. Sound(new)
  <2>1. CASE command = "select"
    BY <1>2, <1>3, <2>1, Targets
       DEF Sound, Attempted, assertMakerReservation, Fenced, SelectionFence
  <2>2. CASE command = "release"
    BY <1>2, <1>3, <2>2, Targets
       DEF Sound, Attempted, assertMakerReservation, Fenced, SelectionFence
  <2>3. CASE command = "expire"
    BY <1>2, <1>3, <2>3, Targets
       DEF Sound, Attempted, assertMakerReservation, Fenced, SelectionFence
  <2>4. CASE command = "quarantine"
    BY <1>2, <1>3, <2>4, Targets
       DEF Sound, Attempted, assertMakerReservation, Fenced, SelectionFence
  <2>5. QED
    BY <2>1, <2>2, <2>3, <2>4
<1>5. QED
  BY <1>2, <1>3, <1>4 DEF Advance, Attempted

\* Pruning advances every record (pruneDraft).
LEMMA PruneAdvances ==
  ASSUME NEW recs \in Tables, \A i \in Intents : Sound(recs[i]), NEW at \in Nat
  PROVE  /\ pruneDraft(recs, at) \in Tables
         /\ AdvanceAll(recs, pruneDraft(recs, at))
         /\ \A i \in Intents :
              "absent" \in {recs[i].reservation.state, pruneDraft(recs, at)[i].reservation.state}
                => pruneDraft(recs, at)[i] = recs[i]
<1> DEFINE new == pruneDraft(recs, at)
<1>1. ASSUME NEW i \in Intents
      PROVE  /\ Advance(recs[i], new[i])
             /\ "absent" \in {recs[i].reservation.state, new[i].reservation.state}
                  => new[i] = recs[i]
  <2>1. recs[i] \in StoredMakerReservation
    BY DEF Tables
  <2>2. CASE recs[i].reservation.state \notin ActiveStates \/ recs[i].reservation.expiresAt > at
    <3>1. new[i] = recs[i]
      BY <2>2 DEF pruneDraft
    <3>2. QED
      BY <2>1, <3>1, AdvanceSame
  <2>3. CASE ~(recs[i].reservation.state \notin ActiveStates \/ recs[i].reservation.expiresAt > at)
    <3>1. PICK command \in {"expire", "quarantine"} :
            /\ command = IF recs[i].reservation.state = "reserved" THEN "expire" ELSE "quarantine"
      OBVIOUS
    <3>2. new[i] = With(recs[i], command, at, NoKey)
      BY <2>3, <3>1 DEF pruneDraft
    <3>3. Advance(recs[i], new[i])
      BY <2>1, <2>3, <3>1, <3>2, WithAdvances DEF ActiveStates
    <3>4. recs[i].reservation.state # "absent" /\ new[i].reservation.state # "absent"
      <4>1. command \in Commands
        BY Targets
      <4>2. new[i].reservation.state = Target[command]
        BY <2>1, <3>2, <4>1, WithShape
      <4>3. QED
        BY <2>3, <4>2, Targets DEF ActiveStates
    <3>5. QED
      BY <3>3, <3>4
  <2>4. QED
    BY <2>2, <2>3
<1>2. new = [i \in Intents |-> new[i]]
  BY DEF pruneDraft
<1>3. new \in Tables
  BY <1>1, <1>2 DEF Tables, Advance
<1>4. QED
  BY <1>1, <1>3 DEF AdvanceAll

-----------------------------------------------------------------------------
(* What a transaction does *)

\* A write reaches memory and disk, or the store stops and the disk has it or
\* has it not (#appendSnapshot).
Appended(draft) ==
  /\ \/ records' = draft /\ walRecords' = draft /\ status' # "failed"
     \/ records' = records /\ walRecords' \in {draft, walRecords} /\ status' = "failed"
  /\ held' = Free /\ clock' = clock

LEMMA AppendShape ==
  ASSUME NEW draft, NEW draftLocks, NEW next, next # "failed", NEW ok \in BOOLEAN,
         AppendSnapshot(draft, draftLocks, next, ok)
  PROVE  Appended(draft)
BY DEF AppendSnapshot, Appended

\* What every step does to the two copies of the reservations.
StoreKeeps ==
  /\ StoreInv'
  /\ AdvanceAll(records, records')
  /\ AdvanceAll(walRecords, walRecords')

\* A write of records that have advanced keeps the store's invariant.
LEMMA AppendKeeps ==
  ASSUME StoreInv, status # "failed", NEW draft \in Tables, AdvanceAll(records, draft),
         Appended(draft)
  PROVE  StoreKeeps
<1>1. /\ walRecords = records /\ records \in Tables
      /\ \A i \in Intents : Sound(records[i]) /\ Sound(draft[i])
  BY DEF StoreInv, AdvanceAll, Advance
<1>2. \A i \in Intents : records[i] \in StoredMakerReservation /\ draft[i] \in StoredMakerReservation
  BY <1>1 DEF Tables
<1>3. \A i \in Intents : Advance(records[i], records[i]) /\ Advance(draft[i], draft[i])
  BY <1>1, <1>2, AdvanceSame
<1>4. AdvanceAll(records, records) /\ AdvanceAll(draft, draft)
  BY <1>3 DEF AdvanceAll
<1>5. held'.subject \notin Intents /\ held'.at \in Nat /\ held' = Free /\ clock' \in Nat
  BY WalletAssumption DEF Appended, Free, StoreInv
<1>6. CASE records' = draft /\ walRecords' = draft /\ status' # "failed"
  BY <1>1, <1>4, <1>5, <1>6 DEF StoreKeeps, StoreInv
<1>7. CASE records' = records /\ walRecords' \in {draft, walRecords} /\ status' = "failed"
  <2>1. walRecords' \in Tables /\ AdvanceAll(records, walRecords')
    BY <1>1, <1>4, <1>7
  <2>2. QED
    BY <1>1, <1>4, <1>5, <1>7, <2>1 DEF StoreKeeps, StoreInv
<1>8. QED
  BY <1>6, <1>7 DEF Appended

\* A step that leaves the reservations alone keeps the store's invariant.
LEMMA SameKeeps ==
  ASSUME StoreInv, UNCHANGED <<records, walRecords, status, held>>, clock' \in Nat
  PROVE  StoreKeeps
<1>1. \A i \in Intents : Advance(records[i], records[i]) /\ Advance(walRecords[i], walRecords[i])
  BY AdvanceSame DEF StoreInv, AdvanceAll, Advance, Tables
<1>2. AdvanceAll(records, records') /\ AdvanceAll(walRecords, walRecords')
  BY <1>1 DEF AdvanceAll
<1>3. StoreInv'
  BY DEF StoreInv, AdvanceAll
<1>4. QED
  BY <1>2, <1>3 DEF StoreKeeps

\* A handler that makes an advance of the record it sees after pruning keeps
\* the store's invariant (transaction).
LEMMA UpdateKeeps ==
  ASSUME StoreInv, NEW i \in Intents, NEW at \in Nat, NEW rec, NEW ok \in BOOLEAN,
         Advance(Seen(i, at), rec), Update(i, at, rec, ok)
  PROVE  /\ StoreKeeps
         /\ ok => records'[i] = rec
<1> DEFINE pruned == pruneDraft(records, at)
           draft == [pruned EXCEPT ![i] = rec]
<1>1. /\ records \in Tables /\ pruned \in Tables /\ AdvanceAll(records, pruned)
      /\ rec \in StoredMakerReservation
  BY PruneAdvances DEF StoreInv, Advance
<1>2. draft \in Tables /\ draft[i] = rec /\ \A j \in Intents \ {i} : draft[j] = pruned[j]
  BY <1>1 DEF Tables
<1>3. Advance(records[i], rec)
  BY <1>1, AdvanceTransitive DEF AdvanceAll, Tables, Seen
<1>4. AdvanceAll(records, draft)
  BY <1>1, <1>2, <1>3 DEF AdvanceAll
<1>5. /\ status # "failed"
      /\ AppendSnapshot(draft, locks, status, ok)
  BY DEF Update, transaction, Usable
<1>6. Appended(draft)
  BY <1>5, AppendShape
<1>7. StoreKeeps
  BY <1>2, <1>4, <1>5, <1>6, AppendKeeps
<1>8. ok => records' = draft
  BY <1>5 DEF AppendSnapshot
<1>9. QED
  BY <1>2, <1>7, <1>8

\* The record a handler sees is sound.
LEMMA SeenSound ==
  ASSUME StoreInv, NEW i \in Intents, NEW at \in Nat
  PROVE  /\ Seen(i, at) \in StoredMakerReservation
         /\ Sound(Seen(i, at))
         /\ Advance(records[i], Seen(i, at))
BY PruneAdvances DEF StoreInv, Seen, AdvanceAll, Advance

\* Steps that neither sign nor fill keep the other invariants.
Quiet ==
  /\ UNCHANGED <<fillCalls, given>>
  /\ fills' \in [Intents -> FillRequests]
  /\ \A i \in Intents : fills'[i] = fills[i] \/ fills'[i].pc # "call"

LEMMA QuietKeeps ==
  ASSUME StoreInv, FillInv, GivenInv, AdvanceAll(records, records'), Quiet
  PROVE  FillInv' /\ GivenInv'
<1>1. FillInv'
  BY DEF FillInv, Quiet, AdvanceAll, Advance
<1>2. ASSUME NEW i \in Intents
      PROVE  given'[i] \subseteq {records'[i].quote}
  BY <1>2, ReservationsAssumption DEF GivenInv, Quiet, AdvanceAll, Advance
<1>3. QED
  BY <1>1, <1>2 DEF GivenInv, Quiet
-----------------------------------------------------------------------------
(* The handlers *)

\* The first payload that is signed stays (signQuote).
LEMMA SignAdvances ==
  ASSUME NEW rec \in StoredMakerReservation, Sound(rec), NEW q \in Quotes,
         rec.reservation.state = "reserved", rec.quote \in {NoQuote, q}
  PROVE  Advance(rec, [rec EXCEPT !.quote = q])
<1> DEFINE new == [rec EXCEPT !.quote = q]
<1>1. new \in StoredMakerReservation
  BY DEF StoredMakerReservation
<1>2. /\ new.reservation = rec.reservation /\ new.hash = rec.hash
      /\ new.terminal = rec.terminal /\ new.quote = q /\ new.quarantine = rec.quarantine
  BY DEF StoredMakerReservation
<1>3. rec.terminal.revision \in Nat
  BY RecordFields
<1> HIDE DEF new
<1>4. Advance(rec, new)
  BY <1>1, <1>2, <1>3 DEF Advance, Sound, Attempted, assertMakerReservation, Fenced
<1>5. QED
  BY <1>4 DEF new

\* Binding the deal changes nothing else (bindSettlementForReconciliation).
LEMMA BindAdvances ==
  ASSUME NEW rec \in StoredMakerReservation, Sound(rec), NEW d \in Deals
  PROVE  Advance(rec, [rec EXCEPT !.deal = d])
<1> DEFINE new == [rec EXCEPT !.deal = d]
<1>1. new \in StoredMakerReservation
  BY DEF StoredMakerReservation
<1>2. /\ new.reservation = rec.reservation /\ new.hash = rec.hash
      /\ new.terminal = rec.terminal /\ new.quote = rec.quote
      /\ new.quarantine = rec.quarantine
  BY DEF StoredMakerReservation
<1>3. rec.terminal.revision \in Nat
  BY RecordFields
<1> HIDE DEF new
<1>4. Advance(rec, new)
  BY <1>1, <1>2, <1>3 DEF Advance, Sound, Attempted, assertMakerReservation, Fenced
<1>5. QED
  BY <1>4 DEF new

\* Begin-fill binds the attempt to a selected reservation (fill).
LEMMA BeginFillAdvances ==
  ASSUME NEW rec \in StoredMakerReservation, Sound(rec), NEW d \in Deals,
         NEW key \in Keys, NEW at \in Nat, rec.reservation.state = "selected"
  PROVE  LET new == [With(rec, "beginFill", at, key) EXCEPT !.deal = d]
         IN  Advance(rec, new) /\ Attempted(new)
<1>1. PICK new \in StoredMakerReservation :
        /\ new = With(rec, "beginFill", at, key)
        /\ new.reservation.state = "filling"
        /\ new.reservation.attempt = key
        /\ new.reservation.fence = rec.reservation.fence + 1
        /\ new.quote = rec.quote /\ new.hash = rec.hash /\ new.terminal = rec.terminal
        /\ new.quarantine = rec.quarantine
  BY WithShape, Targets
<1>2. rec.terminal.revision \in Nat /\ rec.reservation.fence \in Nat
  BY RecordFields
<1>3. Sound(new) /\ Attempted(new)
  BY <1>1, <1>2, ReservationAssumption
     DEF Sound, Attempted, assertMakerReservation, Fenced, SelectionFence
<1>4. Advance(rec, new)
  BY <1>1, <1>2, <1>3 DEF Advance
<1>5. [new EXCEPT !.deal = d] \in StoredMakerReservation
  BY DEF StoredMakerReservation
<1>6. Advance(new, [new EXCEPT !.deal = d])
  BY <1>3, BindAdvances
<1>7. QED
  BY <1>1, <1>3, <1>4, <1>5, <1>6, AdvanceTransitive DEF Advance

\* Consumption records the hash of the attempt (fill, after wallet.fill).
LEMMA ConsumeAdvances ==
  ASSUME NEW rec \in StoredMakerReservation, Sound(rec), NEW at \in Nat,
         rec.reservation.state = "filling"
  PROVE  Advance(rec, [With(rec, "consume", at, NoKey) EXCEPT !.hash = TRUE])
<1>1. PICK mid \in StoredMakerReservation :
        /\ mid = With(rec, "consume", at, NoKey)
        /\ mid.reservation.state = "consumed"
        /\ mid.reservation.attempt = rec.reservation.attempt
        /\ mid.reservation.fence = rec.reservation.fence + 1
        /\ mid.quote = rec.quote /\ mid.terminal = rec.terminal
        /\ mid.quarantine = rec.quarantine
  BY WithShape, Targets
<1> DEFINE new == [mid EXCEPT !.hash = TRUE]
<1>2. new \in StoredMakerReservation
  BY DEF StoredMakerReservation
<1>3. /\ new.reservation = mid.reservation /\ new.hash = TRUE
      /\ new.terminal = mid.terminal /\ new.quote = mid.quote
      /\ new.quarantine = mid.quarantine
  BY DEF StoredMakerReservation
<1>4. rec.terminal.revision \in Nat /\ rec.reservation.fence \in Nat
  BY RecordFields
<1>5. new = [With(rec, "consume", at, NoKey) EXCEPT !.hash = TRUE]
  BY <1>1
<1> HIDE DEF new
<1>6. Advance(rec, new)
  BY <1>1, <1>2, <1>3, <1>4
     DEF Advance, Sound, Attempted, assertMakerReservation, Fenced, SelectionFence
<1>7. QED
  BY <1>5, <1>6

\* A reservation whose state, fence and time are set keeps its attempt.
Forced(rec, s, f, u) ==
  [rec EXCEPT !.reservation.state = s, !.reservation.fence = f, !.reservation.updatedAt = u]

LEMMA ForcedShape ==
  ASSUME NEW rec \in StoredMakerReservation, NEW s \in ActiveStates \cup TerminalStates,
         NEW f \in Nat, NEW u \in Nat, NEW new,
         new = Forced(rec, s, f, u)
  PROVE  /\ new \in StoredMakerReservation
         /\ new.reservation.state = s
         /\ new.reservation.attempt = rec.reservation.attempt
         /\ new.quote = rec.quote /\ new.hash = rec.hash /\ new.terminal = rec.terminal
         /\ new.quarantine = rec.quarantine
<1>1. rec.reservation \in Reservations
  BY RecordFields
<1>2. PICK r : r = [rec.reservation EXCEPT !.state = s, !.fence = f, !.updatedAt = u]
  OBVIOUS
<1>3. r \in Reservations /\ r.state = s /\ r.attempt = rec.reservation.attempt
  BY <1>1, <1>2 DEF Reservations
<1>4. new = [rec EXCEPT !.reservation = r]
  BY <1>1, <1>2 DEF Forced, StoredMakerReservation, Reservations
<1>5. new \in StoredMakerReservation
  BY <1>3, <1>4 DEF StoredMakerReservation
<1>6. /\ new.reservation = r /\ new.quote = rec.quote /\ new.hash = rec.hash
      /\ new.terminal = rec.terminal /\ new.quarantine = rec.quarantine
  BY <1>4 DEF StoredMakerReservation
<1>7. QED
  BY <1>3, <1>5, <1>6

\* The authority's quarantine keeps everything but the state
\* (quarantineForAuthority).
LEMMA AuthorityQuarantineAdvances ==
  ASSUME NEW rec \in StoredMakerReservation, Sound(rec), rec.quote # NoQuote,
         NEW evidence \in Evidence, evidence # NoEvidence, evidence.fence = SelectionFence,
         NEW f \in Nat, NEW at \in Nat
  PROVE  Advance(rec, [rec EXCEPT !.quarantine = evidence,
                                  !.reservation.state = "quarantined",
                                  !.reservation.fence = f,
                                  !.reservation.updatedAt = at])
<1>s. "quarantined" \in ActiveStates \cup TerminalStates
  BY DEF TerminalStates
<1>m. PICK mid : mid = Forced(rec, "quarantined", f, at)
  OBVIOUS
<1>1. /\ mid \in StoredMakerReservation
      /\ mid.reservation.state = "quarantined"
      /\ mid.reservation.attempt = rec.reservation.attempt
      /\ mid.quote = rec.quote /\ mid.hash = rec.hash /\ mid.terminal = rec.terminal
  BY <1>s, <1>m, ForcedShape
<1> DEFINE new == [mid EXCEPT !.quarantine = evidence]
<1>2. new \in StoredMakerReservation
  BY <1>1 DEF StoredMakerReservation
<1>3. /\ new.reservation = mid.reservation /\ new.hash = mid.hash
      /\ new.terminal = mid.terminal /\ new.quote = mid.quote
      /\ new.quarantine = evidence
  BY <1>1 DEF StoredMakerReservation
<1>4. rec.terminal.revision \in Nat
  BY RecordFields
<1>5. new = [rec EXCEPT !.quarantine = evidence,
                        !.reservation.state = "quarantined",
                        !.reservation.fence = f,
                        !.reservation.updatedAt = at]
  BY <1>m DEF Forced, StoredMakerReservation
<1> HIDE DEF new
<1>6. Advance(rec, new)
  BY <1>1, <1>2, <1>3, <1>4
     DEF Advance, Sound, Attempted, assertMakerReservation, Fenced, SelectionFence
<1>7. QED
  BY <1>5, <1>6

\* The authority's outcome is what this node's own record allows
\* (reconcileAuthoritativeTerminal).
LEMMA TerminalAdvances ==
  ASSUME NEW rec \in StoredMakerReservation, Sound(rec), rec.quote # NoQuote,
         NEW revision \in Nat \ {0}, NEW outcome \in AuthorityOutcomes, NEW fence \in Nat,
         fence = SelectionFence, Supersedes(rec, revision, outcome), OutcomeMatches(rec, outcome),
         NEW f \in Nat, NEW at \in Nat
  PROVE  Advance(rec,
           [rec EXCEPT !.terminal = [revision |-> revision, outcome |-> outcome, fence |-> fence],
                       !.reservation.state = Final[outcome],
                       !.reservation.fence = f,
                       !.reservation.updatedAt = at])
<1>1. PICK s \in {"consumed", "released"} :
        /\ s = Final[outcome]
        /\ s = "consumed" => Attempted(rec) /\ rec.hash
        /\ s = "released" => ~Attempted(rec)
  BY DEF Final, AuthorityOutcomes, OutcomeMatches, Attempted
<1>s. s \in ActiveStates \cup TerminalStates
  BY DEF TerminalStates
<1> DEFINE evidence == [revision |-> revision, outcome |-> outcome, fence |-> fence]
<1>2. /\ evidence \in Evidence
      /\ evidence # NoEvidence
      /\ evidence.outcome = outcome /\ evidence.revision = revision
      /\ evidence.fence = SelectionFence
  BY DEF Evidence, NoEvidence
<1>m. PICK mid : mid = Forced(rec, s, f, at)
  OBVIOUS
<1>3. /\ mid \in StoredMakerReservation
      /\ mid.reservation.state = s
      /\ mid.reservation.attempt = rec.reservation.attempt
      /\ mid.quote = rec.quote /\ mid.hash = rec.hash /\ mid.quarantine = rec.quarantine
  BY <1>s, <1>m, ForcedShape
<1> DEFINE new == [mid EXCEPT !.terminal = evidence]
<1>4. new \in StoredMakerReservation
  BY <1>2, <1>3 DEF StoredMakerReservation
<1>5. /\ new.reservation = mid.reservation /\ new.hash = mid.hash
      /\ new.terminal = evidence /\ new.quote = mid.quote /\ new.quarantine = mid.quarantine
  BY <1>3 DEF StoredMakerReservation
<1>6. rec.terminal.revision \in Nat
  BY RecordFields
<1>7. new = [rec EXCEPT !.terminal = [revision |-> revision, outcome |-> outcome, fence |-> fence],
                        !.reservation.state = Final[outcome],
                        !.reservation.fence = f,
                        !.reservation.updatedAt = at]
  BY <1>1, <1>m DEF Forced, StoredMakerReservation
<1> HIDE DEF new, evidence
<1>8. Sound(new)
  BY <1>1, <1>2, <1>3, <1>5 DEF Sound, Attempted, assertMakerReservation, Fenced
<1>9. /\ Attempted(rec) => Attempted(new)
      /\ new.quote = rec.quote
  BY <1>3, <1>5 DEF Attempted
<1>10. rec.terminal # NoEvidence =>
         /\ new.terminal # NoEvidence
         /\ new.terminal.outcome = rec.terminal.outcome
         /\ new.terminal.revision >= rec.terminal.revision
  BY <1>2, <1>5, <1>6 DEF Supersedes
<1>11. QED
  BY <1>4, <1>7, <1>8, <1>9, <1>10 DEF Advance
\* Times are times, and writing a new pc keeps the requests well formed.
LEMMA StampsAreTimes == ASSUME clock \in Nat PROVE Stamps \subseteq Nat
BY DEF Stamps

LEMMA FillsQuiet ==
  ASSUME FillInv, NEW i \in Intents, UNCHANGED <<fillCalls, given>>,
         \/ fills' = fills
         \/ fills' = [fills EXCEPT ![i] = NotFilling]
         \/ \E pc \in {"returned", "failed"} : fills' = [fills EXCEPT ![i].pc = pc]
  PROVE  Quiet
<1>1. fills[i] \in FillRequests /\ fills \in [Intents -> FillRequests]
  BY DEF FillInv
<1>2. CASE fills' = fills
  BY <1>1, <1>2 DEF Quiet
<1>3. CASE fills' = [fills EXCEPT ![i] = NotFilling]
  <2>1. NotFilling \in FillRequests /\ NotFilling.pc # "call"
    BY DEF NotFilling, FillRequests
  <2>2. QED
    BY <1>1, <1>3, <2>1 DEF Quiet
<1>4. CASE \E pc \in {"returned", "failed"} : fills' = [fills EXCEPT ![i].pc = pc]
  <2>1. PICK pc \in {"returned", "failed"} : fills' = [fills EXCEPT ![i].pc = pc]
    BY <1>4
  <2>2. PICK f : f = [fills[i] EXCEPT !.pc = pc]
    OBVIOUS
  <2>3. f \in FillRequests /\ f.pc # "call"
    BY <1>1, <2>2 DEF FillRequests
  <2>4. fills' = [fills EXCEPT ![i] = f]
    BY <1>1, <2>1, <2>2 DEF FillRequests
  <2>5. QED
    BY <1>1, <2>3, <2>4 DEF Quiet
<1>5. QED
  BY <1>2, <1>3, <1>4

\* The record reserve writes is a new one (reserve).
LEMMA NewReservationAdvances ==
  ASSUME NEW rec \in StoredMakerReservation, Sound(rec), rec.reservation.state = "absent",
         NEW i \in Intents, NEW at \in Nat
  PROVE  Advance(rec, NewReservation(i, at))
<1>1. RfqExpiry[i] \in Nat /\ at + Ttl \in Nat
  BY ReservationsAssumption
<1>2. PICK m \in Nat : m = Min({RfqExpiry[i], at + Ttl})
  <2>1. \E x \in {RfqExpiry[i], at + Ttl} : \A y \in {RfqExpiry[i], at + Ttl} : x <= y
    BY <1>1
  <2>2. Min({RfqExpiry[i], at + Ttl}) \in {RfqExpiry[i], at + Ttl}
    BY <2>1 DEF Min
  <2>3. QED
    BY <1>1, <2>2
<1>3. PICK r : r = createMakerReservation(at, m, 1)
  OBVIOUS
<1>4. r \in Reservations /\ r.state = "reserved" /\ r.attempt = NoKey /\ r.fence = 1
  BY <1>3 DEF createMakerReservation, Reservations, ActiveStates
<1>5. NoRecord \in StoredMakerReservation
  <2>1. Absent \in Reservations /\ NoEvidence \in Evidence
    BY DEF Absent, Reservations, NoEvidence, Evidence
  <2>2. QED
    BY <2>1 DEF NoRecord, StoredMakerReservation
<1>6. /\ NoRecord.quote = NoQuote /\ NoRecord.hash = FALSE
      /\ NoRecord.terminal = NoEvidence /\ NoRecord.quarantine = NoEvidence
  BY DEF NoRecord
<1>7. PICK new : new = [NoRecord EXCEPT !.reservation = r]
  OBVIOUS
<1>8. /\ new \in StoredMakerReservation /\ new.reservation = r /\ new.quote = NoQuote
      /\ new.hash = FALSE /\ new.terminal = NoEvidence /\ new.quarantine = NoEvidence
  BY <1>4, <1>5, <1>6, <1>7 DEF StoredMakerReservation
<1>9. Sound(new)
  BY <1>4, <1>8 DEF Sound, Attempted, assertMakerReservation, Fenced
<1>10. Advance(rec, new)
  BY <1>8, <1>9 DEF Advance, Sound, Attempted
<1>11. QED
  BY <1>2, <1>3, <1>7, <1>10 DEF NewReservation
-----------------------------------------------------------------------------
(* Every step of the reservations *)

\* What has to be shown of a step.
Keeps == NodeInv' /\ AdvanceAll(walRecords, walRecords')

LEMMA QuietStep ==
  ASSUME NodeInv, StoreKeeps, Quiet
  PROVE  Keeps
BY QuietKeeps DEF NodeInv, StoreKeeps, Keeps

\* reserve opens the transaction, and commits or gives it up.
LEMMA ReserveKeeps ==
  ASSUME NodeInv, NEW i \in Intents, NEW at \in Nat, reserve(i, at)
  PROVE  Keeps
<1>1. records[i].reservation.state = "absent"
  BY PruneAdvances DEF reserve, Seen, NodeInv, StoreInv
<1>2. /\ UNCHANGED <<records, walRecords, status, clock, fills, given, fillCalls>>
      /\ status # "failed"
      /\ held'.subject = i /\ held'.at = at
  BY DEF reserve, Serving, Usable, world
<1>3. \A j \in Intents : Advance(records[j], records[j]) /\ Advance(walRecords[j], walRecords[j])
  BY AdvanceSame DEF NodeInv, StoreInv, AdvanceAll, Advance, Tables
<1>4. StoreKeeps
  BY <1>1, <1>2, <1>3 DEF StoreKeeps, NodeInv, StoreInv, AdvanceAll
<1>5. Quiet
  BY <1>2, FillsQuiet DEF NodeInv
<1>6. QED
  BY <1>4, <1>5, QuietStep

LEMMA ReserveCommitKeeps ==
  ASSUME NodeInv, NEW i \in Intents, NEW ok \in BOOLEAN, reserveCommit(i, ok)
  PROVE  Keeps
<1> DEFINE pruned == pruneDraft(records, held.at)
           new == NewReservation(i, held.at)
           draft == [pruned EXCEPT ![i] = new]
<1>1. /\ held.subject = i /\ held.at \in Nat /\ records[i].reservation.state = "absent"
      /\ records \in Tables /\ \A j \in Intents : Sound(records[j])
  BY DEF reserveCommit, NodeInv, StoreInv
<1>2. status # "failed"
  BY <1>1, WalletAssumption DEF NodeInv, StoreInv, Free
<1>3. pruned \in Tables /\ AdvanceAll(records, pruned)
  BY <1>1, PruneAdvances
<1>4. records[i] \in StoredMakerReservation
  BY <1>1 DEF Tables
<1>5. Advance(records[i], new) /\ new \in StoredMakerReservation
  BY <1>1, <1>4, NewReservationAdvances DEF Advance
<1> HIDE DEF pruned, new
<1>6. draft \in Tables /\ AdvanceAll(records, draft)
  BY <1>3, <1>5 DEF Tables, AdvanceAll
<1>7. AppendSnapshot(draft, locks, status, ok)
  BY DEF reserveCommit, pruned, new
<1> HIDE DEF draft
<1>8. Appended(draft)
  BY <1>2, <1>7, AppendShape
<1>9. StoreKeeps
  BY <1>2, <1>6, <1>8, AppendKeeps DEF NodeInv
<1>10. Quiet
  BY FillsQuiet DEF reserveCommit, world, NodeInv
<1>11. QED
  BY <1>9, <1>10, QuietStep

LEMMA ReserveRefusedKeeps ==
  ASSUME NodeInv, NEW i \in Intents, reserveRefused(i)
  PROVE  Keeps
<1>1. /\ UNCHANGED <<records, walRecords, status, clock, fills, given, fillCalls>>
      /\ held' = Free
  BY DEF reserveRefused, world
<1>2. held'.subject \notin Intents /\ held'.at \in Nat
  BY <1>1, WalletAssumption DEF Free
<1>3. \A j \in Intents : Advance(records[j], records[j]) /\ Advance(walRecords[j], walRecords[j])
  BY AdvanceSame DEF NodeInv, StoreInv, AdvanceAll, Advance, Tables
<1>4. StoreKeeps
  BY <1>1, <1>2, <1>3 DEF StoreKeeps, NodeInv, StoreInv, AdvanceAll
<1>5. Quiet
  BY <1>1, FillsQuiet DEF NodeInv
<1>6. QED
  BY <1>4, <1>5, QuietStep

\* A request answered from the record (Touch).
LEMMA TouchKeeps ==
  ASSUME NodeInv, NEW at \in Nat, NEW ok \in BOOLEAN, Touch(at, ok)
  PROVE  Keeps
<1> DEFINE draft == pruneDraft(records, at)
<1>1. draft \in Tables /\ AdvanceAll(records, draft)
  BY PruneAdvances DEF NodeInv, StoreInv
<1>2. status # "failed" /\ AppendSnapshot(draft, locks, status, ok)
  BY DEF Touch, transaction, Usable
<1> HIDE DEF draft
<1>3. StoreKeeps
  BY <1>1, <1>2, AppendShape, AppendKeeps DEF NodeInv
<1>4. Quiet
  BY DEF Quiet, Touch, world, NodeInv, FillInv
<1>5. QED
  BY <1>3, <1>4, QuietStep

LEMMA SelectKeeps ==
  ASSUME NodeInv, NEW i \in Intents, NEW at \in Nat, NEW ok \in BOOLEAN, select(i, at, ok)
  PROVE  Keeps
<1>1. Seen(i, at) \in StoredMakerReservation /\ Sound(Seen(i, at))
  BY SeenSound DEF NodeInv
<1>2. Advance(Seen(i, at), With(Seen(i, at), "select", at, NoKey))
  BY <1>1, WithAdvances DEF select
<1>3. StoreKeeps
  BY <1>2, UpdateKeeps DEF select, NodeInv
<1>4. Quiet
  BY FillsQuiet DEF select, world, NodeInv
<1>5. QED
  BY <1>3, <1>4, QuietStep

LEMMA ReleaseKeeps ==
  ASSUME NodeInv, NEW i \in Intents, NEW at \in Nat, NEW ok \in BOOLEAN, release(i, at, ok)
  PROVE  Keeps
<1>1. Seen(i, at) \in StoredMakerReservation /\ Sound(Seen(i, at))
  BY SeenSound DEF NodeInv
<1>2. Advance(Seen(i, at), With(Seen(i, at), "release", at, NoKey))
  BY <1>1, WithAdvances DEF release
<1>3. StoreKeeps
  BY <1>2, UpdateKeeps DEF release, NodeInv
<1>4. Quiet
  BY FillsQuiet DEF release, world, NodeInv
<1>5. QED
  BY <1>3, <1>4, QuietStep
\* The signature that is returned is of the payload just written (signQuote).
LEMMA SignKeeps ==
  ASSUME NodeInv, NEW i \in Intents, NEW q \in Quotes, NEW at \in Nat, NEW ok \in BOOLEAN,
         signQuote(i, q, at, ok)
  PROVE  Keeps
<1> DEFINE rec == Seen(i, at)
           new == [rec EXCEPT !.quote = q]
<1>1. rec \in StoredMakerReservation /\ Sound(rec) /\ Advance(records[i], rec)
  BY SeenSound DEF NodeInv
<1>2. /\ rec.reservation.state = "reserved" /\ rec.quote \in {NoQuote, q}
      /\ Update(i, at, new, ok)
      /\ given' = IF ok THEN [given EXCEPT ![i] = @ \cup {q}] ELSE given
      /\ UNCHANGED <<fillCalls, fills>>
  BY DEF signQuote, world
<1>3. new.quote = q
  BY <1>1 DEF StoredMakerReservation
<1> HIDE DEF rec
<1>4. Advance(rec, new)
  BY <1>1, <1>2, SignAdvances
<1> HIDE DEF new
<1>5. StoreKeeps /\ (ok => records'[i] = new)
  BY <1>2, <1>4, UpdateKeeps DEF NodeInv, rec
<1>6. FillInv'
  BY <1>2, <1>5 DEF FillInv, StoreKeeps, AdvanceAll, Advance, NodeInv
<1>7. records[i].quote \in {NoQuote, q}
  BY <1>1, <1>2 DEF Advance
<1>8. given' \in [Intents -> SUBSET Quotes]
  BY <1>2 DEF NodeInv, GivenInv
<1>9. ASSUME NEW j \in Intents
      PROVE  given'[j] \subseteq {records'[j].quote}
  <2>1. /\ given \in [Intents -> SUBSET Quotes] /\ given[j] \subseteq {records[j].quote}
        /\ records[j].quote # NoQuote => records'[j].quote = records[j].quote
    BY <1>5 DEF NodeInv, GivenInv, StoreKeeps, AdvanceAll, Advance
  <2>2. given[j] \subseteq {records'[j].quote}
    BY <2>1, ReservationsAssumption
  <2>3. CASE ok /\ j = i
    <3>1. given'[j] = given[j] \cup {q}
      BY <1>2, <2>1, <2>3
    <3>2. records'[j].quote = q
      BY <1>3, <1>5, <2>3
    <3>3. QED
      BY <2>2, <3>1, <3>2
  <2>4. CASE ~(ok /\ j = i)
    <3>1. given'[j] = given[j]
      BY <1>2, <2>1, <2>4
    <3>2. QED
      BY <2>2, <3>1
  <2>5. QED
    BY <2>3, <2>4
<1>10. QED
  BY <1>5, <1>6, <1>8, <1>9 DEF Keeps, NodeInv, GivenInv, StoreKeeps

\* A fill starts from a reservation nobody attempted, and writes the attempt
\* before the wallet can be called (fill).
LEMMA FillKeeps ==
  ASSUME NodeInv, NEW i \in Intents, NEW d \in Deals, NEW at \in Nat, NEW ok \in BOOLEAN,
         fill(i, d, at, ok)
  PROVE  Keeps
<1> DEFINE rec == Seen(i, at)
<1>1. rec \in StoredMakerReservation /\ Sound(rec) /\ Advance(records[i], rec)
  BY SeenSound DEF NodeInv
<1>2. rec.reservation.state = "selected" /\ UNCHANGED <<fillCalls, given>>
  BY DEF fill, world
<1>3. PICK key \in Keys :
        Update(i, at, [With(rec, "beginFill", at, key) EXCEPT !.deal = d], ok)
  BY DEF fill
<1>4. fills' = IF ok THEN [fills EXCEPT ![i] = [pc |-> "call", at |-> at]] ELSE fills
  BY DEF fill
<1> HIDE DEF rec
<1>5. PICK new :
        /\ new = [With(rec, "beginFill", at, key) EXCEPT !.deal = d]
        /\ Advance(rec, new) /\ Attempted(new)
  BY <1>1, <1>2, BeginFillAdvances
<1>6. StoreKeeps /\ (ok => records'[i] = new)
  BY <1>3, <1>5, UpdateKeeps DEF NodeInv, rec
<1>7. ~Attempted(records[i])
  BY <1>1, <1>2 DEF Advance, Sound
<1>8. fillCalls[i] = 0 /\ fillCalls \in [Intents -> Nat] /\ fills \in [Intents -> FillRequests]
  BY <1>7 DEF NodeInv, FillInv
<1>9. [pc |-> "call", at |-> at] \in FillRequests
  BY DEF FillRequests
<1>10. fills' \in [Intents -> FillRequests] /\ \A j \in Intents \ {i} : fills'[j] = fills[j]
  BY <1>4, <1>8, <1>9
<1>11. ok => Attempted(records'[i])
  BY <1>5, <1>6
<1>12. ~ok => fills' = fills
  BY <1>4
<1>13. ASSUME NEW j \in Intents
       PROVE  /\ fillCalls'[j] <= 1
              /\ fillCalls'[j] = 1 \/ fills'[j].pc = "call" => Attempted(records'[j])
              /\ fills'[j].pc = "call" => fillCalls'[j] = 0
  BY <1>2, <1>6, <1>8, <1>10, <1>11, <1>12
     DEF NodeInv, FillInv, StoreKeeps, AdvanceAll, Advance
<1>14. FillInv'
  BY <1>2, <1>8, <1>10, <1>13 DEF FillInv
<1>15. ASSUME NEW j \in Intents
       PROVE  given'[j] \subseteq {records'[j].quote}
  BY <1>2, <1>6, ReservationsAssumption
     DEF NodeInv, GivenInv, StoreKeeps, AdvanceAll, Advance
<1>16. QED
  BY <1>2, <1>6, <1>14, <1>15 DEF Keeps, NodeInv, GivenInv, StoreKeeps

\* The wallet is called for an attempt that is on record and was not called
\* for (fill).
LEMMA WalletFillKeeps ==
  ASSUME NodeInv, NEW i \in Intents, walletFill(i)
  PROVE  Keeps
<1>1. /\ UNCHANGED <<records, walRecords, status, held, clock, given>>
      /\ fills[i].pc = "call"
  BY DEF walletFill, store
<1>2. StoreKeeps
  BY <1>1, SameKeeps DEF NodeInv, StoreInv
<1>3. /\ fills \in [Intents -> FillRequests] /\ fillCalls \in [Intents -> Nat]
      /\ Attempted(records[i]) /\ fillCalls[i] = 0
  BY <1>1 DEF NodeInv, FillInv
<1>4. PICK pc \in {"wait", "failed"} :
        /\ fills' = [fills EXCEPT ![i].pc = pc]
        /\ \/ fillCalls' = [fillCalls EXCEPT ![i] = @ + 1]
           \/ fillCalls' = fillCalls
  BY DEF walletFill
<1>5. PICK f : f = [fills[i] EXCEPT !.pc = pc]
  OBVIOUS
<1>6. f \in FillRequests /\ f.pc # "call"
  BY <1>3, <1>5 DEF FillRequests
<1>7. fills' = [fills EXCEPT ![i] = f]
  BY <1>3, <1>4, <1>5 DEF FillRequests
<1>8. /\ fills' \in [Intents -> FillRequests] /\ fills'[i].pc # "call"
      /\ \A j \in Intents \ {i} : fills'[j] = fills[j]
  BY <1>3, <1>6, <1>7
<1>9. /\ fillCalls' \in [Intents -> Nat] /\ fillCalls'[i] <= 1
      /\ \A j \in Intents \ {i} : fillCalls'[j] = fillCalls[j]
  BY <1>3, <1>4
<1>10. FillInv'
  BY <1>1, <1>3, <1>8, <1>9 DEF FillInv, NodeInv
<1>11. GivenInv'
  BY <1>1 DEF NodeInv, GivenInv
<1>12. QED
  BY <1>2, <1>10, <1>11 DEF Keeps, NodeInv, StoreKeeps

LEMMA WalletReturnsKeeps ==
  ASSUME NodeInv, NEW i \in Intents, walletFillReturns(i) \/ consumeRefused(i)
  PROVE  Keeps
<1>1. /\ UNCHANGED <<records, walRecords, status, held, clock, given, fillCalls>>
      /\ \E pc \in {"returned", "failed"} : fills' = [fills EXCEPT ![i].pc = pc]
  BY DEF walletFillReturns, consumeRefused, store, world
<1>2. StoreKeeps
  BY <1>1, SameKeeps DEF NodeInv, StoreInv
<1>3. Quiet
  BY <1>1, FillsQuiet DEF NodeInv
<1>4. QED
  BY <1>2, <1>3, QuietStep
\* Transactions that write one record without pruning (fill, after the wallet).
LEMMA WriteKeeps ==
  ASSUME StoreInv, NEW i \in Intents, NEW rec, NEW ok \in BOOLEAN,
         Advance(records[i], rec), transaction([records EXCEPT ![i] = rec], ok)
  PROVE  StoreKeeps
<1> DEFINE draft == [records EXCEPT ![i] = rec]
<1>1. /\ records \in Tables /\ rec \in StoredMakerReservation
      /\ \A j \in Intents : Sound(records[j])
  BY DEF StoreInv, Advance
<1>2. \A j \in Intents : Advance(records[j], records[j])
  BY <1>1, AdvanceSame DEF Tables
<1>3. draft \in Tables /\ AdvanceAll(records, draft)
  BY <1>1, <1>2 DEF Tables, AdvanceAll
<1>4. status # "failed" /\ AppendSnapshot(draft, locks, status, ok)
  BY DEF transaction, Usable
<1> HIDE DEF draft
<1>5. QED
  BY <1>3, <1>4, AppendShape, AppendKeeps

LEMMA ConsumeKeeps ==
  ASSUME NodeInv, NEW i \in Intents, NEW ok \in BOOLEAN, consume(i, ok)
  PROVE  Keeps
<1>1. /\ records[i] \in StoredMakerReservation /\ Sound(records[i])
      /\ fills[i].at \in Nat
  BY DEF NodeInv, StoreInv, Tables, FillInv, FillRequests
<1>2. records[i].reservation.state = "filling"
  BY DEF consume, CanTransition, CommandAllowed
<1>3. PICK rec : /\ rec = [With(records[i], "consume", fills[i].at, NoKey) EXCEPT !.hash = TRUE]
                 /\ Advance(records[i], rec)
  BY <1>1, <1>2, ConsumeAdvances
<1>4. StoreKeeps
  BY <1>3, WriteKeeps DEF consume, NodeInv
<1>5. Quiet
  BY FillsQuiet DEF consume, world, NodeInv
<1>6. QED
  BY <1>4, <1>5, QuietStep

LEMMA FillFailedKeeps ==
  ASSUME NodeInv, NEW i \in Intents, NEW ok \in BOOLEAN, fillFailed(i, ok)
  PROVE  Keeps
<1>1. /\ records[i] \in StoredMakerReservation /\ Sound(records[i]) /\ records \in Tables
      /\ fills[i].at \in Nat
  BY DEF NodeInv, StoreInv, Tables, FillInv, FillRequests
<1>2. PICK rec : rec = FillFailed(records[i], fills[i].at)
  OBVIOUS
<1>3. Advance(records[i], rec)
  <2>1. Advance(records[i], records[i])
    BY <1>1, AdvanceSame
  <2>2. records[i].reservation.state = "filling" =>
          Advance(records[i], With(records[i], "quarantine", fills[i].at, NoKey))
    BY <1>1, WithAdvances
  <2>3. QED
    BY <1>2, <2>1, <2>2 DEF FillFailed
<1>4. transaction([records EXCEPT ![i] = rec], ok)
  BY <1>1, <1>2 DEF fillFailed
<1>5. StoreKeeps
  BY <1>3, <1>4, WriteKeeps DEF NodeInv
<1>6. Quiet
  BY FillsQuiet DEF fillFailed, world, NodeInv
<1>7. QED
  BY <1>5, <1>6, QuietStep

LEMMA BindKeeps ==
  ASSUME NodeInv, NEW i \in Intents, NEW d \in Deals, NEW at \in Nat, NEW ok \in BOOLEAN,
         bindSettlementForReconciliation(i, d, at, ok)
  PROVE  Keeps
<1>1. Seen(i, at) \in StoredMakerReservation /\ Sound(Seen(i, at))
  BY SeenSound DEF NodeInv
<1>2. PICK rec : rec = [Seen(i, at) EXCEPT !.deal = d] /\ Advance(Seen(i, at), rec)
  BY <1>1, BindAdvances
<1>3. Update(i, at, rec, ok)
  BY <1>2 DEF bindSettlementForReconciliation
<1>4. StoreKeeps
  BY <1>2, <1>3, UpdateKeeps DEF NodeInv
<1>5. Quiet
  BY FillsQuiet DEF bindSettlementForReconciliation, world, NodeInv
<1>6. QED
  BY <1>4, <1>5, QuietStep

LEMMA AuthorityQuarantineKeeps ==
  ASSUME NodeInv, NEW i \in Intents, NEW d \in Deals, NEW fence \in Fences,
         NEW v \in Revisions, NEW o \in AuthorityOutcomes, NEW at \in Nat, NEW ok \in BOOLEAN,
         quarantineForAuthority(i, d, fence, v, o, at, ok)
  PROVE  Keeps
<1> DEFINE rec == Seen(i, at)
           f == IF rec.reservation.state = "quarantined" THEN rec.reservation.fence
                ELSE rec.reservation.fence + 1
           evidence == [revision |-> v, outcome |-> o, fence |-> fence]
           new == [rec EXCEPT !.quarantine = evidence, !.reservation.state = "quarantined",
                              !.reservation.fence = f, !.reservation.updatedAt = at]
<1>1. rec \in StoredMakerReservation /\ Sound(rec)
  BY SeenSound DEF NodeInv
<1>2. f \in Nat
  BY <1>1, RecordFields
<1>3. evidence \in Evidence
  BY ReservationsAssumption DEF Evidence
<1>4. rec.quote # NoQuote /\ UNCHANGED <<fills, given, fillCalls>>
  BY DEF quarantineForAuthority, Bound, world
<1>e. evidence # NoEvidence /\ evidence.fence = SelectionFence
  <2>1. fence = selectionFenceForReconciliation(rec) /\ HasSelectionFence(rec)
    BY DEF quarantineForAuthority, Bound
  <2>2. fence = SelectionFence
    BY <1>1, <2>1, FenceReadBack
  <2>3. QED
    BY <2>2, ReservationsAssumption DEF NoEvidence
<1>5. Update(i, at, new, ok)
  BY <1>1 DEF quarantineForAuthority, StoredMakerReservation, Reservations
<1> HIDE DEF rec, f, evidence
<1>6. Advance(rec, new)
  BY <1>1, <1>2, <1>3, <1>4, <1>e, AuthorityQuarantineAdvances
<1> HIDE DEF new
<1>7. StoreKeeps
  BY <1>5, <1>6, UpdateKeeps DEF NodeInv, rec
<1>8. Quiet
  BY <1>4, FillsQuiet DEF NodeInv
<1>9. QED
  BY <1>7, <1>8, QuietStep

LEMMA TerminalKeeps ==
  ASSUME NodeInv, NEW i \in Intents, NEW d \in Deals, NEW fence \in Fences,
         NEW v \in Revisions, NEW o \in AuthorityOutcomes, NEW at \in Nat, NEW ok \in BOOLEAN,
         reconcileAuthoritativeTerminal(i, d, fence, v, o, at, ok)
  PROVE  Keeps
<1> DEFINE rec == Seen(i, at)
           moves == rec.reservation.state # Final[o]
           f == IF moves THEN rec.reservation.fence + 1 ELSE rec.reservation.fence
           u == IF moves THEN at ELSE rec.reservation.updatedAt
           new == [rec EXCEPT !.terminal = [revision |-> v, outcome |-> o, fence |-> fence],
                              !.reservation.state = Final[o],
                              !.reservation.fence = f, !.reservation.updatedAt = u]
<1>1. rec \in StoredMakerReservation /\ Sound(rec)
  BY SeenSound DEF NodeInv
<1>2. f \in Nat /\ u \in Nat
  BY <1>1, RecordFields
<1>3. fence \in Nat /\ v \in Nat \ {0}
  BY ReservationsAssumption
<1>4. /\ rec.quote # NoQuote /\ UNCHANGED <<fills, given, fillCalls>>
      /\ Supersedes(rec, v, o) /\ OutcomeMatches(rec, o)
  BY DEF reconcileAuthoritativeTerminal, Bound, world
<1>e. fence = SelectionFence
  <2>1. fence = selectionFenceForReconciliation(rec) /\ HasSelectionFence(rec)
    BY DEF reconcileAuthoritativeTerminal, Bound
  <2>2. QED
    BY <1>1, <2>1, FenceReadBack
<1>5. Update(i, at, new, ok)
  BY <1>1 DEF reconcileAuthoritativeTerminal, StoredMakerReservation, Reservations
<1> HIDE DEF rec, moves, f, u
<1>6. Advance(rec, new)
  BY <1>1, <1>2, <1>3, <1>4, <1>e, TerminalAdvances
<1> HIDE DEF new
<1>7. StoreKeeps
  BY <1>5, <1>6, UpdateKeeps DEF NodeInv, rec
<1>8. Quiet
  BY <1>4, FillsQuiet DEF NodeInv
<1>9. QED
  BY <1>7, <1>8, QuietStep
\* A fill the process died in is quarantined (recoverAfterRestart).
LEMMA RecoverKeeps ==
  ASSUME NodeInv, NEW ok \in BOOLEAN, recoverRecords(ok)
  PROVE  Keeps
<1> DEFINE pruned == pruneDraft(records, clock)
           draft == Recovered(pruned, clock)
<1>1. clock \in Nat /\ records \in Tables /\ \A i \in Intents : Sound(records[i])
  BY DEF NodeInv, StoreInv
<1>2. pruned \in Tables /\ AdvanceAll(records, pruned)
  BY <1>1, PruneAdvances
<1>3. status # "failed" /\ AppendSnapshot(draft, locks, "refreshing", ok)
  BY DEF recoverRecords, Usable
<1> HIDE DEF pruned
<1>4. ASSUME NEW i \in Intents
      PROVE  Advance(records[i], draft[i])
  <2>1. /\ pruned[i] \in StoredMakerReservation /\ Sound(pruned[i])
        /\ records[i] \in StoredMakerReservation /\ Advance(records[i], pruned[i])
    BY <1>1, <1>2 DEF Tables, AdvanceAll, Advance
  <2>2. Advance(pruned[i], pruned[i])
    BY <2>1, AdvanceSame
  <2>3. pruned[i].reservation.state = "filling" =>
          Advance(pruned[i], With(pruned[i], "quarantine", clock, NoKey))
    BY <1>1, <2>1, WithAdvances
  <2>4. draft[i] = IF pruned[i].reservation.state = "filling"
                   THEN With(pruned[i], "quarantine", clock, NoKey) ELSE pruned[i]
    BY DEF Recovered
  <2>5. Advance(pruned[i], draft[i]) /\ draft[i] \in StoredMakerReservation
    BY <2>2, <2>3, <2>4 DEF Advance
  <2>6. QED
    BY <2>1, <2>5, AdvanceTransitive
<1>5. draft = [i \in Intents |-> draft[i]]
  BY DEF Recovered
<1>6. draft \in Tables
  BY <1>4, <1>5 DEF Tables, Advance
<1>7. AdvanceAll(records, draft)
  BY <1>4 DEF AdvanceAll
<1> HIDE DEF draft
<1>8. Appended(draft)
  BY <1>3, AppendShape
<1>9. StoreKeeps
  BY <1>3, <1>6, <1>7, <1>8, AppendKeeps DEF NodeInv
<1>10. Quiet
  BY DEF Quiet, recoverRecords, world, NodeInv, FillInv
<1>11. QED
  BY <1>9, <1>10, QuietStep

\* The process dies: requests under way are gone, the disk is what it was.
LEMMA CrashKeeps ==
  ASSUME NodeInv, Crash
  PROVE  Keeps
<1>1. /\ records' = walRecords /\ walRecords' = walRecords /\ status' = "opened"
      /\ held' = Free /\ clock' = clock /\ UNCHANGED <<fillCalls, given>>
      /\ fills' = [i \in Intents |-> NotFilling]
  BY DEF Crash, Reopen, world
<1>2. \A i \in Intents : Advance(walRecords[i], walRecords[i]) /\ Sound(walRecords[i])
  BY AdvanceSame DEF NodeInv, StoreInv, AdvanceAll, Advance, Tables
<1>3. held'.subject \notin Intents /\ held'.at \in Nat
  BY <1>1, WalletAssumption DEF Free
<1>4. StoreKeeps
  BY <1>1, <1>2, <1>3 DEF StoreKeeps, NodeInv, StoreInv, AdvanceAll
<1>5. NotFilling \in FillRequests /\ NotFilling.pc # "call"
  BY DEF NotFilling, FillRequests
<1>6. Quiet
  BY <1>1, <1>5 DEF Quiet
<1>7. QED
  BY <1>4, <1>6, QuietStep

-----------------------------------------------------------------------------
(* Every step of the locks *)

\* What the handlers of locks do to the reservations: they write them as they
\* are, or leave them, or hold the store for an RFQ, or end recovery.
LockStep ==
  /\ UNCHANGED fillCalls
  /\ \/ status # "failed" /\ Appended(records)
     \/ UNCHANGED <<records, walRecords, status, held, clock>>
     \/ /\ UNCHANGED <<records, walRecords, status, clock>>
        /\ status # "failed" /\ held'.subject \in Rfqs /\ held'.at \in Nat
     \/ /\ UNCHANGED <<records, walRecords, held, clock>>
        /\ status = "refreshing" /\ status' = "serving"

\* Writing the locks.
LEMMA LockTransactionStep ==
  ASSUME NEW draftLocks, NEW ok \in BOOLEAN, lockTransaction(draftLocks, ok), UNCHANGED fillCalls
  PROVE  LockStep
BY AppendShape DEF lockTransaction, Usable, LockStep

LEMMA QuoteLockStep ==
  ASSUME NodeInv, QuoteNext
  PROVE  LockStep
<1>1. ASSUME NEW q \in Rfqs, walletLock(q) \/ walletLockReturns(q)
             \/ quoteOvertaken(q) \/ quoteSign(q) \/ quoteLost(q)
      PROVE  LockStep
  BY <1>1 DEF walletLock, walletLockReturns, quoteOvertaken, quoteSign, quoteLost,
              store, world, LockStep
<1>2. ASSUME NEW q \in Rfqs, held.subject = q
      PROVE  status # "failed"
  BY <1>2, WalletAssumption DEF NodeInv, StoreInv, Free
<1>3. ASSUME NEW q \in Rfqs, NEW ok \in BOOLEAN, NEW maxB \in Sizes, quoteAcquired(q, maxB, ok)
      PROVE  LockStep
  BY <1>2, <1>3, AppendShape DEF quoteAcquired, world, LockStep
<1>4. ASSUME NEW q \in Rfqs, NEW ok \in BOOLEAN, quoteRefused(q, ok)
      PROVE  LockStep
  BY <1>2, <1>4, AppendShape DEF quoteRefused, world, LockStep
<1>5. ASSUME NEW q \in Rfqs, NEW ok \in BOOLEAN, quoteConfirmed(q, ok)
      PROVE  LockStep
  BY <1>5, LockTransactionStep DEF quoteConfirmed, world
<1>6. ASSUME NEW q \in Rfqs, NEW ok \in BOOLEAN, quoteFailed(q, ok)
      PROVE  LockStep
  BY <1>6, LockTransactionStep DEF quoteFailed, world
<1>7. ASSUME NEW q \in Rfqs, NEW ok \in BOOLEAN, quoteFinish(q, ok)
      PROVE  LockStep
  BY <1>7, LockTransactionStep DEF quoteFinish, world
<1>8. ASSUME NEW q \in Rfqs, NEW at \in Stamps, quoteV3(q, at)
      PROVE  LockStep
  <2>1. at \in Nat
    BY StampsAreTimes DEF NodeInv, StoreInv
  <2>2. QED
    BY <1>8, <2>1 DEF quoteV3, Serving, world, LockStep
<1>9. ASSUME NEW q \in Rfqs, NEW at \in Stamps, NEW ok \in BOOLEAN, quoteReplay(q, at, ok)
      PROVE  LockStep
  BY <1>9, LockTransactionStep DEF quoteReplay, world
<1>10. QED
  BY <1>1, <1>3, <1>4, <1>5, <1>6, <1>7, <1>8, <1>9 DEF QuoteNext, QuoteStep
LEMMA ScanLockStep ==
  ASSUME ScanNext
  PROVE  LockStep
<1>1. ASSUME NEW next, ScanMoves(next)
      PROVE  LockStep
  BY <1>1 DEF ScanMoves, store, world, LockStep
<1>2. ASSUME NEW draftLocks, NEW next, NEW ok \in BOOLEAN, ScanWrites(draftLocks, next, ok)
      PROVE  LockStep
  BY <1>2, LockTransactionStep DEF ScanWrites, world
<1>3. CASE \E at \in Stamps, due \in SUBSET Rfqs : settleExpiredLocks(at, due)
  BY <1>3 DEF settleExpiredLocks, store, world, LockStep
<1>4. CASE recovered
  BY <1>4 DEF recovered, world, LockStep
<1>5. CASE \E q \in Rfqs : refreshLock(q) \/ refreshSkipped(q)
  BY <1>5 DEF refreshLock, refreshSkipped, store, world, LockStep
<1>6. CASE scanRead
  BY <1>1, <1>6 DEF scanRead
<1>7. CASE walletSettle
  BY <1>7 DEF walletSettle, store, LockStep
<1>8. CASE scanReverted
  BY <1>1, <1>8 DEF scanReverted
<1>9. ASSUME NEW receipt, scanEvidence(receipt)
      PROVE  LockStep
  BY <1>1, <1>9 DEF scanEvidence
<1>10. ASSUME NEW receipt, NEW ok \in BOOLEAN, scanEvidenceUnavailable(receipt, ok)
       PROVE  LockStep
  BY <1>2, <1>10 DEF scanEvidenceUnavailable
<1>11. ASSUME NEW pc, walletSettleReturns(pc)
       PROVE  LockStep
  BY <1>1, <1>11 DEF walletSettleReturns
<1>12. ASSUME NEW ok \in BOOLEAN, scanUnavailable(ok)
       PROVE  LockStep
  BY <1>2, <1>12 DEF scanUnavailable
<1>13. ASSUME NEW ok \in BOOLEAN, scanApply(ok)
       PROVE  LockStep
  BY <1>2, <1>13 DEF scanApply
<1>14. ASSUME NEW ok \in BOOLEAN, scanResolve(ok)
       PROVE  LockStep
  BY <1>2, <1>14 DEF scanResolve
<1>15. ASSUME NEW ok \in BOOLEAN, scanSubmit(ok)
       PROVE  LockStep
  BY <1>2, <1>15 DEF scanSubmit
<1>16. ASSUME NEW ok \in BOOLEAN, scanHash(ok)
       PROVE  LockStep
  BY <1>2, <1>16 DEF scanHash
<1>17. ASSUME NEW ok \in BOOLEAN, scanUnknown(ok)
       PROVE  LockStep
  BY <1>2, <1>17 DEF scanUnknown
<1>18. ASSUME NEW ok \in BOOLEAN, scanReset(ok)
       PROVE  LockStep
  BY <1>2, <1>18 DEF scanReset
<1>19. QED
  BY <1>3, <1>4, <1>5, <1>6, <1>7, <1>8, <1>9, <1>10, <1>11, <1>12, <1>13, <1>14,
     <1>15, <1>16, <1>17, <1>18 DEF ScanNext, ScanStep

LEMMA TakeLockStep ==
  ASSUME TakeNext
  PROVE  LockStep
<1>1. ASSUME NEW t \in Requests, NEW q \in Rfqs, NEW at \in Stamps, NEW v \in LockRevisions,
             reconcileTake(t, q, at, v)
      PROVE  LockStep
  BY <1>1 DEF reconcileTake, store, world, LockStep
<1>2. ASSUME NEW q \in Rfqs, NEW at \in Stamps, NEW ok \in BOOLEAN, resolveLock(q, at, ok)
      PROVE  LockStep
  BY <1>2, LockTransactionStep DEF resolveLock, world
<1>3. ASSUME NEW q \in Rfqs, NEW at \in Stamps, NEW ok \in BOOLEAN, takeUnavailable(q, at, ok)
      PROVE  LockStep
  BY <1>3, LockTransactionStep DEF takeUnavailable, world
<1>4. ASSUME NEW t \in Requests, NEW ok \in BOOLEAN, takeContradicted(t, ok)
      PROVE  LockStep
  BY <1>4, LockTransactionStep DEF takeContradicted, world
<1>5. ASSUME NEW t \in Requests, NEW ok \in BOOLEAN, takeWrite(t, ok)
      PROVE  LockStep
  BY <1>5, LockTransactionStep DEF takeWrite, world
<1>6. QED
  BY <1>1, <1>2, <1>3, <1>4, <1>5 DEF TakeNext

LEMMA LockStepKeeps ==
  ASSUME NodeInv, LockStep, UNCHANGED <<fills, given>>
  PROVE  Keeps
<1>1. \A i \in Intents : Advance(records[i], records[i]) /\ Advance(walRecords[i], walRecords[i])
  BY AdvanceSame DEF NodeInv, StoreInv, AdvanceAll, Advance, Tables
<1>2. AdvanceAll(records, records) /\ AdvanceAll(walRecords, walRecords) /\ records \in Tables
  BY <1>1 DEF AdvanceAll, NodeInv, StoreInv
<1>3. StoreKeeps
  <2>1. CASE status # "failed" /\ Appended(records)
    BY <1>2, <2>1, AppendKeeps DEF NodeInv
  <2>2. CASE UNCHANGED <<records, walRecords, status, held, clock>>
    BY <2>2, SameKeeps DEF NodeInv, StoreInv
  <2>3. CASE /\ UNCHANGED <<records, walRecords, status, clock>>
             /\ status # "failed" /\ held'.subject \in Rfqs /\ held'.at \in Nat
    <3>1. held'.subject \notin Intents
      BY <2>3, WalletAssumption
    <3>2. QED
      BY <1>2, <2>3, <3>1 DEF NodeInv, StoreInv, StoreKeeps
  <2>4. CASE /\ UNCHANGED <<records, walRecords, held, clock>>
             /\ status = "refreshing" /\ status' = "serving"
    BY <1>2, <2>4 DEF NodeInv, StoreInv, StoreKeeps
  <2>5. QED
    BY <2>1, <2>2, <2>3, <2>4 DEF LockStep
<1>4. Quiet
  BY DEF Quiet, LockStep, NodeInv, FillInv
<1>5. QED
  BY <1>3, <1>4, QuietStep

-----------------------------------------------------------------------------
(* The invariant *)

LEMMA NodeInvInit == Init => NodeInv
<1> SUFFICES ASSUME Init PROVE NodeInv
  OBVIOUS
<1>1. NoRecord \in StoredMakerReservation
  <2>1. Absent \in Reservations /\ NoEvidence \in Evidence
    BY DEF Absent, Reservations, NoEvidence, Evidence
  <2>2. QED
    BY <2>1 DEF NoRecord, StoredMakerReservation
<1>2. Sound(NoRecord) /\ NoRecord.quote = NoQuote
  BY DEF Sound, Attempted, assertMakerReservation, NoRecord, Absent, NoEvidence, Fenced
<1>3. Advance(NoRecord, NoRecord)
  BY <1>1, <1>2, AdvanceSame
<1>4. /\ records = [i \in Intents |-> NoRecord] /\ walRecords = records
      /\ held = Free /\ clock = 0 /\ status = "serving"
      /\ fills = [i \in Intents |-> NotFilling]
      /\ fillCalls = [i \in Intents |-> 0] /\ given = [i \in Intents |-> {}]
  BY DEF Init, ReservationsInit, WorldInit
<1>5. Free.subject \notin Intents /\ Free.at = 0
  BY WalletAssumption DEF Free
<1> HIDE DEF NoRecord, Free
<1>6. StoreInv
  BY <1>1, <1>2, <1>3, <1>4, <1>5 DEF StoreInv, Tables, AdvanceAll
<1>7. NotFilling \in FillRequests /\ NotFilling.pc # "call"
  BY DEF NotFilling, FillRequests
<1>8. FillInv
  BY <1>4, <1>7 DEF FillInv
<1>9. GivenInv
  BY <1>4 DEF GivenInv
<1>10. QED
  BY <1>6, <1>8, <1>9 DEF NodeInv

LEMMA ReservationNextKeeps ==
  ASSUME NodeInv, ReservationNext
  PROVE  Keeps
<1>1. Stamps \subseteq Nat
  BY StampsAreTimes DEF NodeInv, StoreInv
<1>2. QED
  BY <1>1, ReserveKeeps, ReserveCommitKeeps, ReserveRefusedKeeps, TouchKeeps, SelectKeeps,
     ReleaseKeeps, SignKeeps, FillKeeps, WalletFillKeeps, WalletReturnsKeeps, ConsumeKeeps,
     FillFailedKeeps, BindKeeps, AuthorityQuarantineKeeps, TerminalKeeps
     DEF ReservationNext

LEMMA NextKeeps ==
  ASSUME NodeInv, [Next]_vars
  PROVE  Keeps
<1>1. CASE ReservationNext /\ UNCHANGED lockProcs
  BY <1>1, ReservationNextKeeps
<1>2. CASE LockNext /\ UNCHANGED <<fills, given>>
  BY <1>2, QuoteLockStep, ScanLockStep, TakeLockStep, LockStepKeeps DEF LockNext
<1>3. CASE \E ok \in BOOLEAN : recoverAfterRestart(ok)
  BY <1>3, RecoverKeeps DEF recoverAfterRestart
<1>4. CASE Crash
  BY <1>4, CrashKeeps
<1>5. CASE \/ Tick /\ UNCHANGED <<store, world, fills, given, lockProcs>>
           \/ World /\ UNCHANGED <<store, clock, fills, given, lockProcs>>
           \/ UNCHANGED vars
  <2>1. /\ UNCHANGED <<records, walRecords, status, held, fills, given, fillCalls>>
        /\ clock' \in Nat
    BY <1>5 DEF Tick, World, FillLands, FillReverts, LockLands, LockReverts, Take,
                SettleLands, SettleReverts, vars, store, world, NodeInv, StoreInv
  <2>2. StoreKeeps
    BY <2>1, SameKeeps DEF NodeInv
  <2>3. Quiet
    BY <2>1 DEF Quiet, NodeInv, FillInv
  <2>4. QED
    BY <2>2, <2>3, QuietStep
<1>6. QED
  BY <1>1, <1>2, <1>3, <1>4, <1>5 DEF Next

\* The invariant the theorems below rest on.
THEOREM NodeInvariant == Spec => []NodeInv
<1>1. Init => NodeInv
  BY NodeInvInit
<1>2. NodeInv /\ [Next]_vars => NodeInv'
  BY NextKeeps DEF Keeps
<1>3. QED
  BY <1>1, <1>2, PTL DEF Spec

\* No reservation is filled twice, and none is offered again once the wallet
\* was asked to fill it, through crashes and uncertain writes.
THEOREM FilledOnce == Spec => []FillOnce
<1>1. NodeInv => FillOnce
  <2> SUFFICES ASSUME NodeInv, NEW i \in Intents
               PROVE  /\ fillCalls[i] <= 1
                      /\ fillCalls[i] = 1 => \A recs \in {records, walRecords} :
                           recs[i].reservation.state \in {"filling", "consumed", "quarantined"}
    BY DEF FillOnce
  <2>1. fillCalls[i] = 1 => Attempted(records[i]) /\ Attempted(walRecords[i])
    BY DEF NodeInv, FillInv, StoreInv, AdvanceAll, Advance
  <2>2. Sound(records[i]) /\ Sound(walRecords[i])
    BY DEF NodeInv, StoreInv, AdvanceAll, Advance
  <2>3. QED
    BY <2>1, <2>2 DEF NodeInv, FillInv, Sound
<1>2. QED
  BY <1>1, NodeInvariant, PTL

\* One payload is signed for an intent, and it is the one on disk.
THEOREM OnePayloadSigned == Spec => []SignedOnce
<1>1. NodeInv => SignedOnce
  BY ReservationsAssumption
     DEF SignedOnce, NodeInv, GivenInv, StoreInv, AdvanceAll, Advance
<1>2. QED
  BY <1>1, NodeInvariant, PTL

\* The fence the authority reads back is the one of the selection, whatever
\* moved the reservation since.
THEOREM FenceIsExact == Spec => []FenceExact
<1>1. NodeInv => FenceExact
  BY FenceReadBack DEF FenceExact, NodeInv, StoreInv, Tables
<1>2. QED
  BY <1>1, NodeInvariant, PTL

\* What the authority decided stays decided on disk.
THEOREM AuthorityIsFinal == Spec => AuthorityFinal
<1>1. NodeInv /\ [Next]_vars =>
        [\A i \in Intents :
           LET old == walRecords[i].terminal
               new == walRecords'[i].terminal
           IN old # NoEvidence => new.outcome = old.outcome /\ new.revision >= old.revision]_vars
  <2> SUFFICES ASSUME NodeInv, [Next]_vars, NEW i \in Intents,
                      walRecords[i].terminal # NoEvidence
               PROVE  /\ walRecords'[i].terminal.outcome = walRecords[i].terminal.outcome
                      /\ walRecords'[i].terminal.revision >= walRecords[i].terminal.revision
    OBVIOUS
  <2>1. QED
    BY NextKeeps DEF Keeps, AdvanceAll, Advance
<1>2. QED
  BY <1>1, NodeInvariant, PTL DEF Spec, AuthorityFinal

=============================================================================
