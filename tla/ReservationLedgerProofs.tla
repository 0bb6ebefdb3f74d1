---------------------- MODULE ReservationLedgerProofs ----------------------
(***************************************************************************)
(* Proofs about ReservationLedger, for every value of its constants.       *)
(***************************************************************************)
EXTENDS ReservationLedger, ReservationProofs, FiniteSetTheorems, TLAPS

\* The high water bounds every fence ever written (advanceMetadata).
HighWater == \A id \in Ids : records[id].fence <= meta.high_water

\* A record that was never written is the absent one.
AbsentIsAbsent == \A id \in Ids : records[id].state = "absent" => records[id] = Absent

\* A record names an attempt exactly once it was claimed, and has not been
\* given back since.
ClaimsNamed ==
  \A id \in Ids :
    /\ claims[id] = IF records[id].attempt = NoKey THEN 0 ELSE 1
    /\ records[id].attempt # NoKey =>
         records[id].state \in {"filling", "consumed", "quarantined"}
    /\ records[id].state \in {"filling", "consumed"} => records[id].attempt # NoKey

\* The attempt a record names has a row, and the row names the record.
RecordRow ==
  \A id \in Ids : records[id].attempt # NoKey =>
    LET row == attempts[records[id].attempt]
    IN  /\ row.status # "none"
        /\ row.id = id
        /\ records[id].state = "filling" => row.status = "pending"

\* A row's record names the row's key, under a later fence, and is what the
\* row's outcome says.
RowRecord ==
  \A k \in Keys : attempts[k].status # "none" =>
    LET r == records[attempts[k].id]
    IN  /\ r.attempt = k
        /\ attempts[k].fence < r.fence
        /\ attempts[k].status = "pending" => r.state \in {"filling", "quarantined"}
        /\ attempts[k].status = "completed" =>
             r.state = IF attempts[k].outcome = "consumed" THEN "consumed" ELSE "quarantined"

\* Callers are only told the outcome of a completed row.
RepliesRecorded ==
  \A k \in Keys : \A x \in replied[k] :
    attempts[k].status = "completed" /\ attempts[k].outcome = x

\* No snapshot is from the future.
SnapshotsPast ==
  \A c \in Clients : snap[c].meta.revision <= meta.revision

\* The revision identifies the contents of the ledger: a caller whose snapshot
\* has the current revision has read the current records.
SnapshotCurrent ==
  \A c \in Clients :
    snap[c].meta.revision = meta.revision =>
      snap[c].records = records /\ snap[c].meta = meta

IInv ==
  /\ TypeOK
  /\ HighWater
  /\ AbsentIsAbsent
  /\ ClaimsNamed
  /\ RecordRow
  /\ RowRecord
  /\ RepliesRecorded
  /\ SnapshotsPast
  /\ SnapshotCurrent

-----------------------------------------------------------------------------
(* Operators *)

\* advanceMetadata counts the writes and raises the high water to the fences
\* written.
LEMMA AdvanceShape ==
  ASSUME meta \in [revision: Nat, high_water: Nat],
         NEW n \in Nat, NEW F \in SUBSET Nat, advanceMetadata(n, F)
  PROVE  /\ meta' \in [revision: Nat, high_water: Nat]
         /\ meta'.revision = meta.revision + n
         /\ meta.high_water <= meta'.high_water
         /\ \A f \in F : f <= meta'.high_water
<1>1. PICK hw \in {meta.high_water} \cup F :
        /\ \A f \in {meta.high_water} \cup F : f <= hw
        /\ meta' = [revision |-> meta.revision + n, high_water |-> hw]
  BY DEF advanceMetadata
<1>2. QED
  BY <1>1

\* The later of two times is a time.
LEMMA LaterTime == \A a, b \in Nat : Later(a, b) \in Nat
BY DEF Later

-----------------------------------------------------------------------------
(* What each request does *)

\* What a caller puts is a reservation under a known id (put of the adapter).
LEMMA MutationType ==
  ASSUME NEW s \in Snapshot, NEW m \in Mutations(s)
  PROVE  m.id \in Ids /\ m.next \in Reservations
<1>1. CASE m \in Creations(s)
  <2>1. PICK id \in Ids, at \in Times, ex \in Times :
          m = [id |-> id, expectedFence |-> 0,
               next |-> createMakerReservation(at, ex, s.meta.high_water + 1)]
    BY <1>1 DEF Creations
  <2>2. at \in Nat /\ ex \in Nat /\ s.meta.high_water + 1 \in Nat
    BY LedgerAssumption DEF Snapshot
  <2>3. createMakerReservation(at, ex, s.meta.high_water + 1) \in Reservations
    BY <2>2 DEF createMakerReservation, Reservations, ActiveStates
  <2>4. QED
    BY <2>1, <2>3
<1>2. CASE m \in Steps(s)
  <2>1. PICK id \in Ids, command \in MutationCommands, at \in Times :
          m = [id |-> id, expectedFence |-> s.records[id].fence,
               next |-> Transition(s.records[id], command, at, NoKey)]
    BY <1>2 DEF Steps
  <2>2. command \in Commands /\ at \in Nat /\ s.records[id] \in Reservations
    BY Targets, LedgerAssumption DEF MutationCommands, Snapshot
  <2>3. Transition(s.records[id], command, at, NoKey) \in Reservations
    BY <2>2, TransitionShape
  <2>4. QED
    BY <2>1, <2>3
<1>3. QED
  BY <1>1, <1>2 DEF Mutations

\* What a commit may do to one record: nothing, create it above the high
\* water, or take it one plain step of its lifecycle (commit).
Created(id) ==
  /\ records[id].state = "absent"
  /\ records'[id].state = "reserved"
  /\ records'[id].attempt = NoKey
  /\ meta.high_water < records'[id].fence

Stepped(id, commands) ==
  \E command \in commands, at \in Nat :
    /\ CanTransition(records[id], command, at)
    /\ records'[id] = Transition(records[id], command, at, NoKey)

\* A commit creates and steps records, each by the rule of the compare-and-
\* swap, and counts its writes; it was computed from the current revision.
LEMMA CommitShape ==
  ASSUME TypeOK, HighWater, NEW c \in Clients, NEW ms \in Batches(snap[c]),
         commit(c, ms)
  PROVE  /\ records' \in [Ids -> Reservations]
         /\ meta' \in [revision: Nat, high_water: Nat]
         /\ snap' = [snap EXCEPT ![c] = NoSnapshot]
         /\ meta.revision < meta'.revision
         /\ HighWater'
         /\ snap[c].meta.revision = meta.revision
         /\ \A id \in Ids : \/ records'[id] = records[id]
                            \/ Created(id)
                            \/ Stepped(id, MutationCommands)
<1>1. snap[c] \in Snapshot
  BY DEF TypeOK, commit
<1>2. PICK n \in 1..MaxMutations : ms \in [1..n -> Mutations(snap[c])]
  BY DEF Batches
<1>3. \A i \in DOMAIN ms : ms[i].id \in Ids /\ ms[i].next \in Reservations
  BY <1>1, <1>2, MutationType
<1>4. \A id \in Ids :
        \/ records'[id] = records[id]
        \/ \E i \in DOMAIN ms : ms[i].id = id /\ records'[id] = ms[i].next
  BY DEF commit
<1>5. records' \in [Ids -> Reservations]
  <2>1. records' = [id \in Ids |-> records'[id]]
    BY DEF commit
  <2>2. \A id \in Ids : records'[id] \in Reservations
    BY <1>3, <1>4 DEF TypeOK
  <2>3. QED
    BY <2>1, <2>2
<1>6. PICK k \in Nat : k = Len(ms) /\ k >= 1
  BY LedgerAssumption DEF commit
<1>7. {ms[i].next.fence : i \in DOMAIN ms} \in SUBSET Nat
  BY <1>3 DEF Reservations
<1>8. /\ meta' \in [revision: Nat, high_water: Nat]
      /\ meta'.revision = meta.revision + k
      /\ meta.high_water <= meta'.high_water
      /\ \A f \in {ms[i].next.fence : i \in DOMAIN ms} : f <= meta'.high_water
  <2>1. advanceMetadata(k, {ms[i].next.fence : i \in DOMAIN ms})
    BY <1>6 DEF commit
  <2>2. QED
    BY <1>6, <1>7, <2>1, AdvanceShape DEF TypeOK
<1>9. meta.revision < meta'.revision
  BY <1>6, <1>8 DEF TypeOK
<1>10. HighWater'
  <2> SUFFICES ASSUME NEW id \in Ids PROVE records'[id].fence <= meta'.high_water
    BY DEF HighWater
  <2>1. CASE records'[id] = records[id]
    <3>1. /\ records[id].fence \in Nat /\ records[id].fence <= meta.high_water
          /\ meta.high_water \in Nat /\ meta'.high_water \in Nat
      BY <1>8 DEF HighWater, TypeOK, Reservations
    <3>2. QED
      BY <1>8, <2>1, <3>1
  <2>2. CASE \E i \in DOMAIN ms : ms[i].id = id /\ records'[id] = ms[i].next
    BY <1>8, <2>2
  <2>3. QED
    BY <1>4, <2>1, <2>2
<1>11. ASSUME NEW id \in Ids, NEW i \in DOMAIN ms, ms[i].id = id, records'[id] = ms[i].next
       PROVE  Created(id) \/ Stepped(id, MutationCommands)
  <2>1. ValidMutation(ms, i)
    BY DEF commit
  <2>2. MutationAllowed(records[id], ms[i].next, ms[i].expectedFence)
    BY <1>11, <2>1 DEF ValidMutation
  <2>3. CASE records[id].state = "absent"
    <3>1. meta.high_water < ms[i].next.fence
      BY <1>11, <2>1, <2>3 DEF ValidMutation
    <3>2. QED
      BY <1>11, <2>2, <2>3, <3>1 DEF Created, MutationAllowed
  <2>4. CASE records[id].state # "absent"
    <3>1. PICK command \in MutationCommands :
            /\ CanTransition(records[id], command, ms[i].next.updatedAt)
            /\ ms[i].next = Transition(records[id], command, ms[i].next.updatedAt, NoKey)
      BY <2>2, <2>4 DEF MutationAllowed
    <3>2. ms[i].next.updatedAt \in Nat
      BY <1>3 DEF Reservations
    <3>3. QED
      BY <1>11, <3>1, <3>2 DEF Stepped
  <2>5. QED
    BY <2>3, <2>4
<1>12. QED
  BY <1>4, <1>5, <1>8, <1>9, <1>10, <1>11 DEF commit, RevisionCurrent

\* The state in which a reservation ends for each outcome.
Final(outcome) == IF outcome = "consumed" THEN "consumed" ELSE "quarantined"

\* The pending attempts in K are concluded with an outcome: each record ends
\* and each row is completed, and nothing else changes.
Concluded(K, outcome) ==
  /\ K \subseteq Pending
  /\ outcome \in Outcomes
  /\ records' \in [Ids -> Reservations]
  /\ meta' \in [revision: Nat, high_water: Nat]
  /\ attempts' \in [Keys -> AttemptRow]
  /\ replied' \in [Keys -> SUBSET Outcomes]
  /\ meta.revision < meta'.revision
  /\ HighWater'
  /\ \A k \in K :
       LET r == records[attempts[k].id]
           s == records'[attempts[k].id]
       IN  /\ r.state = "filling"
           /\ r.attempt = k
           /\ s.state = Final(outcome)
           /\ s.attempt = k
           /\ s.fence = r.fence + 1
           /\ attempts'[k].status = "completed"
           /\ attempts'[k].outcome = outcome
           /\ attempts'[k].id = attempts[k].id
           /\ attempts'[k].fence = attempts[k].fence
           /\ replied'[k] = replied[k] \cup {outcome}
  /\ \A id \in Ids : records'[id] = records[id] \/ \E k \in K : attempts[k].id = id
  /\ \A k \in Keys \ K : attempts'[k] = attempts[k] /\ replied'[k] = replied[k]
  /\ UNCHANGED <<snap, claims>>

\* Completing a pending row keeps what it is bound to.
LEMMA CompletedRow ==
  ASSUME NEW row \in AttemptRow, row.status = "pending", NEW outcome \in Outcomes
  PROVE  LET done == [row EXCEPT !.status = "completed", !.outcome = outcome]
         IN  /\ done \in AttemptRow
             /\ done.status = "completed"
             /\ done.outcome = outcome
             /\ done.id = row.id
             /\ done.fence = row.fence
<1>1. row \in [status: {"pending"}, id: Ids, fence: Nat, payload: Payloads,
               outcome: {"none"}]
  BY DEF AttemptRow, NoAttempt
<1> DEFINE done == [row EXCEPT !.status = "completed", !.outcome = outcome]
<1>2. done \in [status: {"completed"}, id: Ids, fence: Nat, payload: Payloads,
                outcome: Outcomes]
  BY <1>1
<1>3. /\ done.status = "completed" /\ done.outcome = outcome
      /\ done.id = row.id /\ done.fence = row.fence
  BY <1>1
<1>4. QED
  BY <1>2, <1>3 DEF AttemptRow

\* The last step of beginAttempt on a pending key and of completeAttempt.
LEMMA ConcludeShape ==
  ASSUME TypeOK, HighWater, NEW k \in Keys, NEW id \in Ids,
         attempts[k].status = "pending", attempts[k].id = id, Filling(id, k),
         NEW command \in Commands, NEW at \in Nat, NEW outcome \in Outcomes,
         command = IF outcome = "consumed" THEN "consume" ELSE "quarantine",
         Conclude(k, id, command, at, outcome)
  PROVE  Concluded({k}, outcome)
<1> DEFINE next == Transition(records[id], command, at, NoKey)
<1>1. /\ next \in Reservations /\ next.fence = records[id].fence + 1
      /\ next.state = Final(outcome) /\ next.attempt = k
  <2>1. records[id] \in Reservations
    BY DEF TypeOK
  <2>2. /\ next \in Reservations /\ next.fence = records[id].fence + 1
        /\ next.state = Target[command]
        /\ next.attempt = IF command = "beginFill" THEN NoKey ELSE records[id].attempt
    BY <2>1, TransitionShape
  <2>3. Target[command] = Final(outcome) /\ command # "beginFill"
    BY Targets DEF Final
  <2>4. QED
    BY <2>2, <2>3 DEF Filling
<1>2. /\ records' = [records EXCEPT ![id] = next]
      /\ advanceMetadata(1, {next.fence})
      /\ attempts' = [attempts EXCEPT ![k] =
           [attempts[k] EXCEPT !.status = "completed", !.outcome = outcome]]
      /\ replied' = [replied EXCEPT ![k] = replied[k] \cup {outcome}]
      /\ UNCHANGED <<snap, claims>>
  BY DEF Conclude, TypeOK
<1> HIDE DEF next
<1>3. /\ records' \in [Ids -> Reservations] /\ records'[id] = next
      /\ \A i \in Ids \ {id} : records'[i] = records[i]
  BY <1>1, <1>2 DEF TypeOK
<1>4. /\ meta' \in [revision: Nat, high_water: Nat]
      /\ meta'.revision = meta.revision + 1
      /\ meta.high_water <= meta'.high_water
      /\ next.fence <= meta'.high_water
  <2>1. PICK f \in Nat : f = next.fence
    BY <1>1 DEF Reservations
  <2>2. advanceMetadata(1, {f}) /\ {f} \in SUBSET Nat /\ 1 \in Nat
    BY <1>2, <2>1
  <2>3. QED
    BY <2>1, <2>2, AdvanceShape DEF TypeOK
<1>5. HighWater' /\ meta.revision < meta'.revision
  <2>1. \A i \in Ids : records[i].fence \in Nat /\ records[i].fence <= meta.high_water
    BY DEF HighWater, TypeOK, Reservations
  <2>2. meta.high_water \in Nat /\ meta'.high_water \in Nat
    BY <1>4 DEF TypeOK
  <2>3. \A i \in Ids : records'[i].fence <= meta'.high_water
    BY <1>3, <1>4, <2>1, <2>2
  <2>4. QED
    BY <1>4, <2>3 DEF HighWater, TypeOK
<1>6. /\ attempts' \in [Keys -> AttemptRow]
      /\ attempts'[k].status = "completed" /\ attempts'[k].outcome = outcome
      /\ attempts'[k].id = id /\ attempts'[k].fence = attempts[k].fence
      /\ \A j \in Keys \ {k} : attempts'[j] = attempts[j]
  <2>1. attempts[k] \in AttemptRow
    BY DEF TypeOK
  <2>2. PICK done : done = [attempts[k] EXCEPT !.status = "completed", !.outcome = outcome]
    OBVIOUS
  <2>3. /\ done \in AttemptRow /\ done.status = "completed" /\ done.outcome = outcome
        /\ done.id = attempts[k].id /\ done.fence = attempts[k].fence
    BY <2>1, <2>2, CompletedRow
  <2>4. attempts' = [attempts EXCEPT ![k] = done]
    BY <1>2, <2>2
  <2>5. QED
    BY <2>3, <2>4 DEF TypeOK
<1>7. /\ replied' \in [Keys -> SUBSET Outcomes]
      /\ replied'[k] = replied[k] \cup {outcome}
      /\ \A j \in Keys \ {k} : replied'[j] = replied[j]
  BY <1>2 DEF TypeOK
<1>8. QED
  BY <1>1, <1>2, <1>3, <1>4, <1>5, <1>6, <1>7 DEF Concluded, Pending, Filling

\* Recovery concludes every pending attempt as unknown.
LEMMA RecoverShape ==
  ASSUME TypeOK, HighWater, NEW at \in Nat, recoverPendingAttempts(at)
  PROVE  Concluded(Pending, "unknown")
<1> DEFINE id(k) == attempts[k].id
           when(k) == Later(at, records[id(k)].updatedAt)
           next(k) == Transition(records[id(k)], "quarantine", when(k), NoKey)
<1>1. \A k \in Pending :
        /\ id(k) \in Ids
        /\ records[id(k)] \in Reservations
        /\ records[id(k)].state = "filling" /\ records[id(k)].attempt = k
        /\ next(k) \in Reservations
        /\ next(k).fence = records[id(k)].fence + 1
        /\ next(k).state = "quarantined" /\ next(k).attempt = k
  <2> SUFFICES ASSUME NEW k \in Pending
               PROVE  /\ id(k) \in Ids
                      /\ records[id(k)] \in Reservations
                      /\ records[id(k)].state = "filling" /\ records[id(k)].attempt = k
                      /\ next(k) \in Reservations
                      /\ next(k).fence = records[id(k)].fence + 1
                      /\ next(k).state = "quarantined" /\ next(k).attempt = k
    OBVIOUS
  <2>1. Filling(id(k), k)
    BY DEF recoverPendingAttempts
  <2>2. id(k) \in Ids
    BY DEF Pending, TypeOK, AttemptRow, NoAttempt
  <2>3. records[id(k)] \in Reservations /\ records[id(k)].updatedAt \in Nat
    BY <2>2 DEF TypeOK, Reservations
  <2>4. when(k) \in Nat
    BY <2>3, LaterTime
  <2>5. QED
    BY <2>1, <2>2, <2>3, <2>4, TransitionShape, Targets DEF Filling
<1>2. records' = [i \in Ids |->
        IF \E k \in Pending : id(k) = i
          THEN next(CHOOSE k \in Pending : id(k) = i) ELSE records[i]]
  BY DEF recoverPendingAttempts
<1>3. advanceMetadata(Cardinality(Pending), {next(k).fence : k \in Pending})
  BY DEF recoverPendingAttempts
<1> HIDE DEF next
<1>4. \A k \in Pending : records'[id(k)] = next(k)
  <2> SUFFICES ASSUME NEW k \in Pending PROVE records'[id(k)] = next(k)
    OBVIOUS
  <2>1. id(k) \in Ids
    BY <1>1
  <2>2. PICK j \in Pending : id(j) = id(k) /\ records'[id(k)] = next(j)
    BY <1>2, <2>1
  <2>3. j = k
    BY <1>1, <2>2
  <2>4. QED
    BY <2>2, <2>3
<1>5. \A i \in Ids : records'[i] = records[i] \/ \E k \in Pending : id(k) = i
  BY <1>2
<1>6. records' \in [Ids -> Reservations]
  <2>1. records' = [i \in Ids |-> records'[i]]
    BY <1>2
  <2>2. \A i \in Ids : records'[i] \in Reservations
    BY <1>1, <1>4, <1>5 DEF TypeOK
  <2>3. QED
    BY <2>1, <2>2
<1>7. PICK n \in Nat : n = Cardinality(Pending) /\ n >= 1
  <2>1. IsFiniteSet(Pending)
    BY LedgerAssumption, FS_Subset DEF Pending
  <2>2. Cardinality(Pending) \in Nat /\ Cardinality(Pending) # 0
    BY <2>1, FS_CardinalityType, FS_EmptySet DEF recoverPendingAttempts
  <2>3. QED
    BY <2>2
<1>8. /\ meta' \in [revision: Nat, high_water: Nat]
      /\ meta'.revision = meta.revision + n
      /\ meta.high_water <= meta'.high_water
      /\ \A k \in Pending : next(k).fence <= meta'.high_water
  <2>1. {next(k).fence : k \in Pending} \in SUBSET Nat
    BY <1>1 DEF Reservations
  <2>2. QED
    BY <1>3, <1>7, <2>1, AdvanceShape DEF TypeOK
<1>9. HighWater' /\ meta.revision < meta'.revision
  <2>1. \A i \in Ids : records[i].fence \in Nat /\ records[i].fence <= meta.high_water
    BY DEF HighWater, TypeOK, Reservations
  <2>2. meta.high_water \in Nat /\ meta'.high_water \in Nat
    BY <1>8 DEF TypeOK
  <2>3. \A i \in Ids : records'[i].fence <= meta'.high_water
    BY <1>4, <1>5, <1>8, <2>1, <2>2
  <2>4. QED
    BY <1>7, <1>8, <2>3 DEF HighWater, TypeOK
<1>10. /\ attempts' \in [Keys -> AttemptRow]
       /\ \A k \in Pending :
            /\ attempts'[k].status = "completed" /\ attempts'[k].outcome = "unknown"
            /\ attempts'[k].id = id(k) /\ attempts'[k].fence = attempts[k].fence
       /\ \A k \in Keys \ Pending : attempts'[k] = attempts[k]
  <2>1. attempts' = [k \in Keys |->
          IF k \in Pending
            THEN [attempts[k] EXCEPT !.status = "completed", !.outcome = "unknown"]
            ELSE attempts[k]]
    BY DEF recoverPendingAttempts
  <2>2. ASSUME NEW k \in Pending
        PROVE  /\ attempts'[k] \in AttemptRow
               /\ attempts'[k].status = "completed" /\ attempts'[k].outcome = "unknown"
               /\ attempts'[k].id = id(k) /\ attempts'[k].fence = attempts[k].fence
    <3>1. attempts[k] \in AttemptRow /\ attempts[k].status = "pending" /\ k \in Keys
      BY DEF TypeOK, Pending
    <3>2. attempts'[k] = [attempts[k] EXCEPT !.status = "completed", !.outcome = "unknown"]
      BY <2>1, <3>1
    <3>3. PICK outcome \in Outcomes : outcome = "unknown"
      BY DEF Outcomes
    <3>4. PICK done : done = [attempts[k] EXCEPT !.status = "completed", !.outcome = outcome]
      OBVIOUS
    <3>5. /\ done \in AttemptRow
          /\ done.status = "completed" /\ done.outcome = outcome
          /\ done.id = id(k) /\ done.fence = attempts[k].fence
      BY <3>1, <3>4, CompletedRow
    <3>6. QED
      BY <3>2, <3>3, <3>4, <3>5
  <2>3. \A k \in Keys \ Pending : attempts'[k] = attempts[k]
    BY <2>1
  <2>4. attempts' = [k \in Keys |-> attempts'[k]]
    BY <2>1
  <2>5. \A k \in Keys : attempts'[k] \in AttemptRow
    BY <2>2, <2>3 DEF TypeOK
  <2>6. QED
    BY <2>2, <2>3, <2>4, <2>5
<1>11. /\ replied' \in [Keys -> SUBSET Outcomes]
       /\ \A k \in Pending : replied'[k] = replied[k] \cup {"unknown"}
       /\ \A k \in Keys \ Pending : replied'[k] = replied[k]
  <2>1. replied' = [k \in Keys |->
          IF k \in Pending THEN replied[k] \cup {"unknown"} ELSE replied[k]]
    BY DEF recoverPendingAttempts
  <2>2. QED
    BY <2>1 DEF TypeOK, Outcomes, Pending
<1>12. UNCHANGED <<snap, claims>>
  BY DEF recoverPendingAttempts
<1>13. QED
  BY <1>1, <1>4, <1>5, <1>6, <1>8, <1>9, <1>10, <1>11, <1>12
     DEF Concluded, Outcomes, Final

\* The attempt under key k is granted reservation id, and nothing else changes.
Claimed(id, k) ==
  /\ records' \in [Ids -> Reservations]
  /\ meta' \in [revision: Nat, high_water: Nat]
  /\ attempts' \in [Keys -> AttemptRow]
  /\ meta.revision < meta'.revision
  /\ HighWater'
  /\ records[id].state = "selected"
  /\ records'[id].state = "filling"
  /\ records'[id].attempt = k
  /\ records'[id].fence = records[id].fence + 1
  /\ attempts[k].status = "none"
  /\ attempts'[k].status = "pending"
  /\ attempts'[k].id = id
  /\ attempts'[k].fence = records[id].fence
  /\ attempts'[k].outcome = "none"
  /\ \A i \in Ids \ {id} : records'[i] = records[i]
  /\ \A j \in Keys \ {k} : attempts'[j] = attempts[j]
  /\ claims' = [claims EXCEPT ![id] = claims[id] + 1]
  /\ UNCHANGED <<snap, replied>>

\* The claim of beginAttempt, on a key that has no row.
LEMMA ClaimShape ==
  ASSUME TypeOK, HighWater, NEW b \in Binding, NEW at \in Nat, Claim(b, at)
  PROVE  Claimed(b.id, b.key) /\ b.id \in Ids /\ b.key \in Keys
<1>0. PICK id \in Ids, k \in Keys, p \in Payloads, f \in Nat :
        b.id = id /\ b.key = k /\ b.payload = p /\ b.fence = f
  BY DEF Binding
<1> DEFINE next == Transition(records[id], "beginFill", at, k)
<1>1. /\ next \in Reservations /\ next.fence = records[id].fence + 1
      /\ next.state = "filling" /\ next.attempt = k
  <2>1. records[id] \in Reservations
    BY DEF TypeOK
  <2>2. PICK command \in Commands : command = "beginFill"
    BY Targets
  <2>3. /\ next \in Reservations /\ next.fence = records[id].fence + 1
        /\ next.state = Target[command] /\ next.attempt = k
    BY <2>1, <2>2, TransitionShape
  <2>4. QED
    BY <2>2, <2>3, Targets
<1>2. /\ attempts[k].status = "none"
      /\ records[id].fence = f
      /\ CanTransition(records[id], "beginFill", at)
      /\ records' = [records EXCEPT ![id] = next]
      /\ advanceMetadata(1, {next.fence})
      /\ attempts' = [attempts EXCEPT ![k] =
           [status |-> "pending", id |-> id, fence |-> f, payload |-> p, outcome |-> "none"]]
      /\ claims' = [claims EXCEPT ![id] = claims[id] + 1]
      /\ UNCHANGED <<snap, replied>>
  BY <1>0 DEF Claim
<1> HIDE DEF next
<1>3. /\ records' \in [Ids -> Reservations] /\ records'[id] = next
      /\ \A i \in Ids \ {id} : records'[i] = records[i]
  BY <1>1, <1>2 DEF TypeOK
<1>4. /\ meta' \in [revision: Nat, high_water: Nat]
      /\ meta'.revision = meta.revision + 1
      /\ meta.high_water <= meta'.high_water
      /\ next.fence <= meta'.high_water
  <2>1. PICK g \in Nat : g = next.fence
    BY <1>1 DEF Reservations
  <2>2. advanceMetadata(1, {g}) /\ {g} \in SUBSET Nat /\ 1 \in Nat
    BY <1>2, <2>1
  <2>3. QED
    BY <2>1, <2>2, AdvanceShape DEF TypeOK
<1>5. HighWater' /\ meta.revision < meta'.revision
  <2>1. \A i \in Ids : records[i].fence \in Nat /\ records[i].fence <= meta.high_water
    BY DEF HighWater, TypeOK, Reservations
  <2>2. meta.high_water \in Nat /\ meta'.high_water \in Nat
    BY <1>4 DEF TypeOK
  <2>3. \A i \in Ids : records'[i].fence <= meta'.high_water
    BY <1>3, <1>4, <2>1, <2>2
  <2>4. QED
    BY <1>4, <2>3 DEF HighWater, TypeOK
<1>6. /\ attempts' \in [Keys -> AttemptRow]
      /\ attempts'[k] = [status |-> "pending", id |-> id, fence |-> f, payload |-> p,
                         outcome |-> "none"]
      /\ \A j \in Keys \ {k} : attempts'[j] = attempts[j]
  BY <1>2 DEF TypeOK, AttemptRow
<1>7. records[id].state = "selected"
  BY <1>2 DEF CanTransition, CommandAllowed
<1>8. QED
  BY <1>0, <1>1, <1>2, <1>3, <1>4, <1>5, <1>6, <1>7 DEF Claimed

-----------------------------------------------------------------------------
(* The inductive invariant *)

\* The empty ledger satisfies the invariant.
LEMMA InitInv == Init => IInv
<1> SUFFICES ASSUME Init PROVE IInv
  OBVIOUS
<1> USE DEF Init
<1>1. Absent \in Reservations
  BY DEF Absent, Reservations
<1>2. TypeOK
  BY <1>1 DEF TypeOK, AttemptRow
<1>3. HighWater /\ AbsentIsAbsent /\ ClaimsNamed /\ RecordRow
  BY DEF HighWater, AbsentIsAbsent, ClaimsNamed, RecordRow, Absent
<1>4. RowRecord /\ RepliesRecorded
  BY DEF RowRecord, RepliesRecorded, NoAttempt
<1>5. SnapshotsPast /\ SnapshotCurrent
  BY DEF SnapshotsPast, SnapshotCurrent, NoSnapshot
<1>6. QED
  BY <1>2, <1>3, <1>4, <1>5 DEF IInv

\* A write makes every snapshot held stale.
LEMMA SnapshotsAge ==
  ASSUME TypeOK, SnapshotsPast, meta' \in [revision: Nat, high_water: Nat],
         meta.revision < meta'.revision,
         \A c \in Clients : snap'[c] \in {snap[c], NoSnapshot}
  PROVE  SnapshotsPast' /\ SnapshotCurrent'
<1>1. \A c \in Clients : snap[c].meta.revision \in Int
  BY DEF TypeOK, Snapshot, NoSnapshot
<1>2. NoSnapshot.meta.revision = -1
  BY DEF NoSnapshot
<1>3. meta.revision \in Nat /\ meta'.revision \in Nat
  BY DEF TypeOK
<1>4. \A c \in Clients : snap'[c].meta.revision < meta'.revision
  BY <1>1, <1>2, <1>3 DEF SnapshotsPast
<1>5. \A c \in Clients : snap'[c].meta.revision \in Int
  BY <1>1, <1>2
<1>6. QED
  BY <1>3, <1>4, <1>5 DEF SnapshotsPast, SnapshotCurrent

\* A commit never touches what an attempt decided: it keeps the attempt of
\* every record, and of a claimed one it can only quarantine a running fill.
LEMMA CommitKeeps ==
  ASSUME IInv, NEW id \in Ids, records'[id] \in Reservations,
         \/ records'[id] = records[id]
         \/ Created(id)
         \/ Stepped(id, MutationCommands)
  PROVE  /\ records'[id].attempt = records[id].attempt
         /\ records[id].fence <= records'[id].fence
         /\ records'[id].state \in {"absent", "filling", "consumed"} => records'[id] = records[id]
         /\ records[id].attempt # NoKey =>
              \/ records'[id] = records[id]
              \/ records[id].state = "filling" /\ records'[id].state = "quarantined"
<1>0. /\ records[id] \in Reservations
      /\ records[id].fence \in Nat /\ records'[id].fence \in Nat
  BY DEF IInv, TypeOK, Reservations
<1>1. CASE records'[id] = records[id]
  BY <1>0, <1>1
<1>2. CASE Created(id)
  <2>1. records[id].attempt = NoKey /\ records[id].fence = 0
    BY <1>2 DEF Created, IInv, AbsentIsAbsent, Absent
  <2>2. QED
    BY <1>0, <1>2, <2>1 DEF Created
<1>3. CASE Stepped(id, MutationCommands)
  <2>1. PICK command \in MutationCommands, at \in Nat :
          /\ CanTransition(records[id], command, at)
          /\ records'[id] = Transition(records[id], command, at, NoKey)
    BY <1>3 DEF Stepped
  <2>2. command \in Commands
    BY Targets DEF MutationCommands
  <2>3. /\ records'[id].fence = records[id].fence + 1
        /\ records'[id].state = Target[command]
        /\ records'[id].attempt = records[id].attempt
    <3>1. /\ records'[id].fence = records[id].fence + 1
          /\ records'[id].state = Target[command]
          /\ records'[id].attempt = IF command = "beginFill" THEN NoKey ELSE records[id].attempt
      BY <1>0, <2>1, <2>2, TransitionShape
    <3>2. QED
      BY <3>1 DEF MutationCommands
  <2>4. Target[command] \in {"selected", "released", "expired", "quarantined"}
    BY Targets DEF MutationCommands
  <2>5. ASSUME records[id].attempt # NoKey
        PROVE  records[id].state = "filling" /\ Target[command] = "quarantined"
    <3>1. records[id].state = "filling"
      BY <2>1, <2>5 DEF CanTransition, ActiveStates, IInv, ClaimsNamed
    <3>2. command = "quarantine"
      BY <2>1, <3>1 DEF CanTransition, CommandAllowed, MutationCommands
    <3>3. QED
      BY <3>1, <3>2, Targets
  <2>6. QED
    BY <1>0, <2>3, <2>4, <2>5
<1>4. QED
  BY <1>1, <1>2, <1>3

\* A commit preserves the invariant.
LEMMA CommitInv ==
  ASSUME IInv, NEW c \in Clients, NEW ms \in Batches(snap[c]), commit(c, ms)
  PROVE  IInv'
<1>1. /\ records' \in [Ids -> Reservations]
      /\ meta' \in [revision: Nat, high_water: Nat]
      /\ snap' = [snap EXCEPT ![c] = NoSnapshot]
      /\ meta.revision < meta'.revision
      /\ HighWater'
      /\ \A id \in Ids : \/ records'[id] = records[id]
                         \/ Created(id)
                         \/ Stepped(id, MutationCommands)
  BY CommitShape DEF IInv
<1>2. UNCHANGED <<attempts, claims, replied>>
  BY DEF commit
<1>3. \A id \in Ids :
        /\ records'[id] \in Reservations
        /\ records[id].fence \in Nat /\ records'[id].fence \in Nat
        /\ records'[id].attempt = records[id].attempt
        /\ records[id].fence <= records'[id].fence
        /\ records'[id].state \in {"absent", "filling", "consumed"} => records'[id] = records[id]
        /\ records[id].attempt # NoKey =>
             \/ records'[id] = records[id]
             \/ records[id].state = "filling" /\ records'[id].state = "quarantined"
  <2> SUFFICES ASSUME NEW id \in Ids
               PROVE  /\ records'[id] \in Reservations
                      /\ records[id].fence \in Nat /\ records'[id].fence \in Nat
                      /\ records'[id].attempt = records[id].attempt
                      /\ records[id].fence <= records'[id].fence
                      /\ records'[id].state \in {"absent", "filling", "consumed"} =>
                           records'[id] = records[id]
                      /\ records[id].attempt # NoKey =>
                           \/ records'[id] = records[id]
                           \/ records[id].state = "filling" /\ records'[id].state = "quarantined"
    OBVIOUS
  <2>1. records'[id] \in Reservations /\ records[id] \in Reservations
    BY <1>1 DEF IInv, TypeOK
  <2>2. records'[id].fence \in Nat /\ records[id].fence \in Nat
    BY <2>1 DEF Reservations
  <2>3. QED
    BY <1>1, <2>1, <2>2, CommitKeeps
<1>4. TypeOK'
  BY <1>1, <1>2 DEF IInv, TypeOK
<1>5. AbsentIsAbsent'
  BY <1>3 DEF IInv, AbsentIsAbsent
<1>6. ClaimsNamed'
  BY <1>2, <1>3 DEF IInv, ClaimsNamed
<1>7. RecordRow'
  BY <1>2, <1>3 DEF IInv, RecordRow
<1>8. RowRecord'
  <2> SUFFICES ASSUME NEW k \in Keys, attempts[k].status # "none"
               PROVE  LET r == records'[attempts[k].id]
                      IN  /\ r.attempt = k
                          /\ attempts[k].fence < r.fence
                          /\ attempts[k].status = "pending" => r.state \in {"filling", "quarantined"}
                          /\ attempts[k].status = "completed" =>
                               r.state = IF attempts[k].outcome = "consumed"
                                           THEN "consumed" ELSE "quarantined"
    BY <1>2 DEF RowRecord
  <2>1. /\ attempts[k].id \in Ids /\ attempts[k].fence \in Nat
        /\ attempts[k].status \in {"pending", "completed"} /\ k # NoKey
    BY ReservationAssumption DEF IInv, TypeOK, AttemptRow, NoAttempt
  <2>2. PICK id \in Ids : id = attempts[k].id
    BY <2>1
  <2>3. /\ records[id].attempt = k
        /\ attempts[k].fence < records[id].fence
        /\ attempts[k].status = "pending" => records[id].state \in {"filling", "quarantined"}
        /\ attempts[k].status = "completed" =>
             records[id].state = IF attempts[k].outcome = "consumed"
                                   THEN "consumed" ELSE "quarantined"
    BY <2>2 DEF IInv, RowRecord
  <2>4. records'[id].attempt = k
    BY <1>3, <2>3
  <2>5. attempts[k].fence < records'[id].fence
    BY <1>3, <2>1, <2>3
  <2>6. \/ records'[id] = records[id]
        \/ records[id].state = "filling" /\ records'[id].state = "quarantined"
    BY <1>3, <2>1, <2>3
  <2>7. QED
    BY <2>1, <2>2, <2>3, <2>4, <2>5, <2>6
<1>9. RepliesRecorded'
  BY <1>2 DEF IInv, RepliesRecorded
<1>10. SnapshotsPast' /\ SnapshotCurrent'
  <2>1. \A d \in Clients : snap'[d] \in {snap[d], NoSnapshot}
    BY <1>1 DEF IInv, TypeOK
  <2>2. QED
    BY <1>1, <2>1, SnapshotsAge DEF IInv
<1>11. QED
  BY <1>1, <1>4, <1>5, <1>6, <1>7, <1>8, <1>9, <1>10 DEF IInv

\* Concluding attempts preserves the invariant.
LEMMA ConcludedInv ==
  ASSUME IInv, NEW K, NEW outcome, Concluded(K, outcome)
  PROVE  IInv'
<1>1. /\ K \subseteq Keys /\ NoKey \notin Keys
      /\ \A k \in Keys : attempts[k].status # "none" =>
           attempts[k].id \in Ids /\ attempts[k].fence \in Nat
      /\ \A k \in K : attempts[k].status = "pending" /\ attempts[k].id \in Ids
      /\ \A id \in Ids : records[id].fence \in Nat
  <2>1. \A k \in Keys : attempts[k].status # "none" =>
           attempts[k].id \in Ids /\ attempts[k].fence \in Nat
    BY DEF IInv, TypeOK, AttemptRow, NoAttempt
  <2>2. \A id \in Ids : records[id].fence \in Nat
    BY DEF IInv, TypeOK, Reservations
  <2>3. \A k \in K : k \in Keys /\ attempts[k].status = "pending"
    BY DEF Concluded, Pending
  <2>4. QED
    BY <2>1, <2>2, <2>3, ReservationAssumption
<1>2. \A k \in K :
        LET r == records[attempts[k].id]
            s == records'[attempts[k].id]
        IN  /\ r.state = "filling" /\ r.attempt = k
            /\ s.state = Final(outcome) /\ s.attempt = k /\ s.fence = r.fence + 1
            /\ attempts'[k].status = "completed" /\ attempts'[k].outcome = outcome
            /\ attempts'[k].id = attempts[k].id /\ attempts'[k].fence = attempts[k].fence
            /\ replied'[k] = replied[k] \cup {outcome}
  BY DEF Concluded
<1>3. /\ \A id \in Ids : records'[id] = records[id] \/ \E k \in K : attempts[k].id = id
      /\ \A k \in Keys \ K : attempts'[k] = attempts[k] /\ replied'[k] = replied[k]
      /\ UNCHANGED <<snap, claims>>
      /\ meta.revision < meta'.revision
      /\ HighWater'
      /\ outcome \in Outcomes
      /\ meta' \in [revision: Nat, high_water: Nat]
  BY DEF Concluded
<1>4. TypeOK'
  BY DEF IInv, TypeOK, Concluded
<1>5. \A id \in Ids :
        \/ records'[id] = records[id] /\ (records[id].state = "filling" => records[id].attempt \notin K)
        \/ \E k \in K : /\ attempts[k].id = id /\ records[id].attempt = k
                        /\ records[id].state = "filling"
                        /\ records'[id].state = Final(outcome)
                        /\ records'[id].attempt = k
                        /\ records'[id].fence = records[id].fence + 1
  <2> SUFFICES ASSUME NEW id \in Ids,
                      ~ \E k \in K : attempts[k].id = id
               PROVE  records'[id] = records[id]
                        /\ (records[id].state = "filling" => records[id].attempt \notin K)
    BY <1>2
  <2>1. records'[id] = records[id]
    BY <1>3
  <2>2. ASSUME records[id].state = "filling" PROVE records[id].attempt \notin K
    BY <2>2 DEF IInv, ClaimsNamed, RecordRow
  <2>3. QED
    BY <2>1, <2>2
<1>6. Final(outcome) \in {"consumed", "quarantined"}
  BY DEF Final
<1>7. AbsentIsAbsent'
  BY <1>5, <1>6 DEF IInv, AbsentIsAbsent
<1>8. ClaimsNamed'
  BY <1>1, <1>3, <1>5, <1>6 DEF IInv, ClaimsNamed
<1>9. RecordRow'
  <2> SUFFICES ASSUME NEW id \in Ids, records'[id].attempt # NoKey
               PROVE  LET row == attempts'[records'[id].attempt]
                      IN  /\ row.status # "none"
                          /\ row.id = id
                          /\ records'[id].state = "filling" => row.status = "pending"
    BY DEF RecordRow
  <2>1. CASE /\ records'[id] = records[id]
             /\ records[id].state = "filling" => records[id].attempt \notin K
    <3>1. PICK k \in Keys : k = records[id].attempt
      BY <2>1 DEF IInv, TypeOK, Reservations
    <3>2. /\ attempts[k].status # "none" /\ attempts[k].id = id
          /\ records[id].state = "filling" => attempts[k].status = "pending"
      BY <2>1, <3>1 DEF IInv, RecordRow
    <3>3. CASE k \in K
      BY <1>2, <2>1, <3>1, <3>2, <3>3
    <3>4. CASE k \notin K
      BY <1>3, <2>1, <3>1, <3>2, <3>4
    <3>5. QED
      BY <3>3, <3>4
  <2>2. CASE \E k \in K : /\ attempts[k].id = id
                          /\ records'[id].state = Final(outcome)
                          /\ records'[id].attempt = k
    BY <1>2, <1>6, <2>2
  <2>3. QED
    BY <1>5, <2>1, <2>2
<1>10. RowRecord'
  <2> SUFFICES ASSUME NEW k \in Keys, attempts'[k].status # "none"
               PROVE  LET r == records'[attempts'[k].id]
                      IN  /\ r.attempt = k
                          /\ attempts'[k].fence < r.fence
                          /\ attempts'[k].status = "pending" => r.state \in {"filling", "quarantined"}
                          /\ attempts'[k].status = "completed" =>
                               r.state = IF attempts'[k].outcome = "consumed"
                                           THEN "consumed" ELSE "quarantined"
    BY DEF RowRecord
  <2>1. CASE k \in K
    <3>1. PICK id \in Ids : id = attempts[k].id
      BY <1>1, <2>1
    <3>2. /\ records[id].state = "filling" /\ attempts'[k].id = id
          /\ records'[id].attempt = k /\ records'[id].state = Final(outcome)
          /\ records'[id].fence = records[id].fence + 1
          /\ attempts'[k].fence = attempts[k].fence
          /\ attempts'[k].status = "completed" /\ attempts'[k].outcome = outcome
      BY <1>2, <2>1, <3>1
    <3>3. attempts[k].fence < records[id].fence
      BY <1>1, <2>1, <3>1 DEF IInv, RowRecord
    <3>4. attempts'[k].fence < records'[id].fence
      BY <1>1, <2>1, <3>1, <3>2, <3>3
    <3>5. QED
      BY <3>2, <3>4 DEF Final
  <2>2. CASE k \notin K
    <3>1. attempts'[k] = attempts[k] /\ attempts[k].status # "none"
      BY <1>3, <2>2
    <3>2. PICK id \in Ids : id = attempts[k].id
      BY <1>1, <3>1
    <3>3. records[id].attempt = k
      BY <3>1, <3>2 DEF IInv, RowRecord
    <3>4. records'[id] = records[id]
      BY <1>5, <2>2, <3>3
    <3>5. QED
      BY <3>1, <3>2, <3>4 DEF IInv, RowRecord
  <2>3. QED
    BY <2>1, <2>2
<1>11. RepliesRecorded'
  <2> SUFFICES ASSUME NEW k \in Keys, NEW x \in replied'[k]
               PROVE  attempts'[k].status = "completed" /\ attempts'[k].outcome = x
    BY DEF RepliesRecorded
  <2>1. CASE k \in K
    <3>1. x \notin replied[k]
      BY <1>1, <2>1 DEF IInv, RepliesRecorded
    <3>2. QED
      BY <1>2, <2>1, <3>1
  <2>2. CASE k \notin K
    BY <1>3, <2>2 DEF IInv, RepliesRecorded
  <2>3. QED
    BY <2>1, <2>2
<1>12. SnapshotsPast' /\ SnapshotCurrent'
  BY <1>3, SnapshotsAge DEF IInv
<1>13. QED
  BY <1>3, <1>4, <1>7, <1>8, <1>9, <1>10, <1>11, <1>12 DEF IInv

\* Granting a claim preserves the invariant.
LEMMA ClaimedInv ==
  ASSUME IInv, NEW id \in Ids, NEW k \in Keys, Claimed(id, k)
  PROVE  IInv'
<1>1. /\ NoKey \notin Keys
      /\ records[id].attempt = NoKey /\ claims[id] = 0
      /\ \A i \in Ids : records[i].attempt # k
      /\ \A i \in Ids : records[i].fence \in Nat
  <2>1. \A i \in Ids : records[i].attempt # k
    BY ReservationAssumption DEF IInv, RecordRow, Claimed
  <2>2. records[id].attempt = NoKey /\ claims[id] = 0
    BY DEF IInv, ClaimsNamed, Claimed
  <2>3. \A i \in Ids : records[i].fence \in Nat
    BY DEF IInv, TypeOK, Reservations
  <2>4. QED
    BY <2>1, <2>2, <2>3, ReservationAssumption
<1>2. /\ records'[id].state = "filling" /\ records'[id].attempt = k
      /\ records'[id].fence = records[id].fence + 1
      /\ attempts'[k].status = "pending" /\ attempts'[k].id = id
      /\ attempts'[k].fence = records[id].fence
      /\ attempts[k].status = "none"
  BY DEF Claimed
<1>3. /\ \A i \in Ids \ {id} : records'[i] = records[i]
      /\ \A j \in Keys \ {k} : attempts'[j] = attempts[j]
      /\ UNCHANGED <<snap, replied>>
      /\ meta.revision < meta'.revision
      /\ HighWater'
      /\ meta' \in [revision: Nat, high_water: Nat]
  BY DEF Claimed
<1>4. /\ claims' \in [Ids -> Nat] /\ claims'[id] = 1
      /\ \A i \in Ids \ {id} : claims'[i] = claims[i]
  BY <1>1 DEF IInv, TypeOK, Claimed
<1>5. TypeOK'
  BY <1>3, <1>4 DEF IInv, TypeOK, Claimed
<1>6. AbsentIsAbsent'
  BY <1>2, <1>3 DEF IInv, AbsentIsAbsent
<1>7. ClaimsNamed'
  BY <1>1, <1>2, <1>3, <1>4 DEF IInv, ClaimsNamed
<1>8. RecordRow'
  <2> SUFFICES ASSUME NEW i \in Ids, records'[i].attempt # NoKey
               PROVE  LET row == attempts'[records'[i].attempt]
                      IN  /\ row.status # "none"
                          /\ row.id = i
                          /\ records'[i].state = "filling" => row.status = "pending"
    BY DEF RecordRow
  <2>1. CASE i = id
    BY <1>2, <2>1
  <2>2. CASE i # id
    <3>1. records'[i] = records[i] /\ records[i].attempt # k
      BY <1>1, <1>3, <2>2
    <3>2. PICK j \in Keys : j = records[i].attempt
      BY <3>1 DEF IInv, TypeOK, Reservations
    <3>3. attempts'[j] = attempts[j]
      BY <1>3, <3>1, <3>2
    <3>4. QED
      BY <3>1, <3>2, <3>3 DEF IInv, RecordRow
  <2>3. QED
    BY <2>1, <2>2
<1>9. RowRecord'
  <2> SUFFICES ASSUME NEW j \in Keys, attempts'[j].status # "none"
               PROVE  LET r == records'[attempts'[j].id]
                      IN  /\ r.attempt = j
                          /\ attempts'[j].fence < r.fence
                          /\ attempts'[j].status = "pending" => r.state \in {"filling", "quarantined"}
                          /\ attempts'[j].status = "completed" =>
                               r.state = IF attempts'[j].outcome = "consumed"
                                           THEN "consumed" ELSE "quarantined"
    BY DEF RowRecord
  <2>1. CASE j = k
    <3>1. records[id].fence < records'[id].fence
      BY <1>1, <1>2
    <3>2. QED
      BY <1>2, <2>1, <3>1
  <2>2. CASE j # k
    <3>1. attempts'[j] = attempts[j] /\ attempts[j].status # "none"
      BY <1>3, <2>2
    <3>2. PICK i \in Ids : i = attempts[j].id
      BY <3>1 DEF IInv, TypeOK, AttemptRow, NoAttempt
    <3>3. i # id
      BY <1>1, <3>1, <3>2 DEF IInv, RowRecord
    <3>4. records'[i] = records[i]
      BY <1>3, <3>3
    <3>5. QED
      BY <3>1, <3>2, <3>4 DEF IInv, RowRecord
  <2>3. QED
    BY <2>1, <2>2
<1>10. RepliesRecorded'
  <2> SUFFICES ASSUME NEW j \in Keys, NEW x \in replied[j]
               PROVE  attempts'[j].status = "completed" /\ attempts'[j].outcome = x
    BY <1>3 DEF RepliesRecorded
  <2>1. attempts[j].status = "completed" /\ attempts[j].outcome = x
    BY DEF IInv, RepliesRecorded
  <2>2. j # k
    BY <1>2, <2>1
  <2>3. QED
    BY <1>3, <2>1, <2>2
<1>11. SnapshotsPast' /\ SnapshotCurrent'
  BY <1>3, SnapshotsAge DEF IInv
<1>12. QED
  BY <1>3, <1>5, <1>6, <1>7, <1>8, <1>9, <1>10, <1>11 DEF IInv

\* Every request is a commit, concludes attempts, grants a claim, or leaves
\* the three tables alone: a snapshot is taken or dropped, a recorded outcome
\* is told again, the object restarts.
ReadOnly ==
  /\ UNCHANGED <<ledger, claims>>
  /\ \/ UNCHANGED <<snap, replied>>
     \/ /\ UNCHANGED replied
        /\ \E c \in Clients :
             \/ snap' = [snap EXCEPT ![c] = NoSnapshot]
             \/ snap' = [snap EXCEPT ![c] = [meta |-> meta, records |-> records]]
     \/ /\ UNCHANGED snap
        /\ \E k \in Keys :
             /\ attempts[k].status = "completed"
             /\ replied' = [replied EXCEPT ![k] = replied[k] \cup {attempts[k].outcome}]

StepKind ==
  \/ \E c \in Clients : \E ms \in Batches(snap[c]) : commit(c, ms)
  \/ \E K \in SUBSET Keys, outcome \in Outcomes : Concluded(K, outcome)
  \/ \E id \in Ids, k \in Keys : Claimed(id, k)
  \/ ReadOnly

\* Sorts the steps of the ledger into these four kinds.
LEMMA StepKinds == IInv /\ [Next]_vars => StepKind
<1> SUFFICES ASSUME IInv, [Next]_vars PROVE StepKind
  OBVIOUS
<1>1. TypeOK /\ HighWater
  BY DEF IInv
<1>2. ASSUME NEW c \in Clients, TakeSnapshot(c) PROVE ReadOnly
  BY <1>2 DEF TakeSnapshot, ReadOnly, ledger
<1>3. ASSUME NEW c \in Clients, Abandon(c) PROVE ReadOnly
  BY <1>3 DEF Abandon, ReadOnly, ledger
<1>4. ASSUME Restart PROVE ReadOnly
  BY <1>4 DEF Restart, OpenMetadata, ReadOnly, ledger
<1>5. ASSUME UNCHANGED vars PROVE ReadOnly
  BY <1>5 DEF vars, ReadOnly, ledger
<1>6. ASSUME NEW b \in Sent, NEW at \in Times
      PROVE  b \in Binding /\ at \in Nat /\ b.id \in Ids /\ b.key \in Keys
  <2>1. meta.high_water \in Nat
    BY <1>1 DEF TypeOK
  <2>2. QED
    BY <2>1, LedgerAssumption DEF Sent, Binding
<1>7. ASSUME NEW b \in Sent, Replay(b) PROVE ReadOnly
  <2>1. b.key \in Keys
    BY DEF Sent
  <2>2. QED
    BY <1>7, <2>1 DEF Replay, ReadOnly, ledger
<1>8. ASSUME NEW b \in Sent, NEW at \in Times, NEW command \in Commands, NEW t \in Nat,
             NEW outcome \in Outcomes,
             command = IF outcome = "consumed" THEN "consume" ELSE "quarantine",
             attempts[b.key].status = "pending", SameBinding(attempts[b.key], b),
             Filling(b.id, b.key),
             Conclude(b.key, b.id, command, t, outcome)
      PROVE  StepKind
  <2>1. PICK id \in Ids, k \in Keys : b.id = id /\ b.key = k
    BY <1>6
  <2>2. /\ attempts[k].status = "pending" /\ attempts[k].id = id /\ Filling(id, k)
        /\ Conclude(k, id, command, t, outcome)
    BY <1>8, <2>1 DEF SameBinding
  <2>3. Concluded({k}, outcome)
    BY <1>1, <1>8, <2>2, ConcludeShape
  <2>4. QED
    BY <2>3 DEF StepKind
<1>9. ASSUME NEW b \in Sent, NEW at \in Times, Interrupt(b, at) PROVE StepKind
  <2>1. records[b.id].updatedAt \in Nat
    BY <1>1, <1>6 DEF TypeOK, Reservations
  <2>2. PICK t \in Nat : t = Later(at, records[b.id].updatedAt)
    BY <1>6, <2>1, LaterTime
  <2>3. PICK command \in Commands, outcome \in Outcomes :
          command = "quarantine" /\ outcome = "unknown"
    BY Targets DEF Outcomes
  <2>4. QED
    BY <1>8, <1>9, <2>2, <2>3 DEF Interrupt
<1>10. ASSUME NEW b \in Sent, NEW at \in Times, NEW outcome \in Outcomes,
              Settle(b, at, outcome)
       PROVE  StepKind
  <2>1. PICK command \in Commands :
          command = IF outcome = "consumed" THEN "consume" ELSE "quarantine"
    BY Targets
  <2>2. at \in Nat
    BY <1>6
  <2>3. QED
    BY <1>8, <1>10, <2>1, <2>2 DEF Settle
<1>11. ASSUME NEW b \in Sent, NEW at \in Times, Claim(b, at) PROVE StepKind
  BY <1>1, <1>6, <1>11, ClaimShape DEF StepKind
<1>12. ASSUME NEW at \in Times, recoverPendingAttempts(at) PROVE StepKind
  <2>1. at \in Nat /\ Pending \in SUBSET Keys /\ "unknown" \in Outcomes
    BY LedgerAssumption DEF Pending, Outcomes
  <2>2. Concluded(Pending, "unknown")
    BY <1>1, <1>12, <2>1, RecoverShape
  <2>3. QED
    BY <2>1, <2>2 DEF StepKind
<1>13. CASE CommitNext
  BY <1>2, <1>3, <1>13 DEF CommitNext, StepKind
<1>14. CASE AttemptNext
  BY <1>7, <1>9, <1>10, <1>11, <1>12, <1>14
     DEF AttemptNext, beginAttempt, completeAttempt, StepKind
<1>15. QED
  BY <1>4, <1>5, <1>13, <1>14 DEF Next, StepKind

\* Requests that write no table preserve the invariant.
LEMMA ReadOnlyInv == IInv /\ ReadOnly => IInv'
<1> SUFFICES ASSUME IInv, ReadOnly PROVE IInv'
  OBVIOUS
<1>1. UNCHANGED <<meta, records, attempts, claims>>
  BY DEF ReadOnly, ledger
<1>2. /\ HighWater' /\ AbsentIsAbsent' /\ ClaimsNamed' /\ RecordRow' /\ RowRecord'
  BY <1>1 DEF IInv, HighWater, AbsentIsAbsent, ClaimsNamed, RecordRow, RowRecord
<1>3. /\ replied' \in [Keys -> SUBSET Outcomes] /\ RepliesRecorded'
  <2>1. CASE UNCHANGED replied
    BY <1>1, <2>1 DEF IInv, TypeOK, RepliesRecorded
  <2>2. CASE \E k \in Keys :
               /\ attempts[k].status = "completed"
               /\ replied' = [replied EXCEPT ![k] = replied[k] \cup {attempts[k].outcome}]
    <3>1. PICK k \in Keys :
               /\ attempts[k].status = "completed"
               /\ replied' = [replied EXCEPT ![k] = replied[k] \cup {attempts[k].outcome}]
      BY <2>2
    <3>2. attempts[k].outcome \in Outcomes
      BY <3>1 DEF IInv, TypeOK, AttemptRow, NoAttempt
    <3>3. QED
      BY <1>1, <3>1, <3>2 DEF IInv, TypeOK, RepliesRecorded
  <2>3. QED
    BY <2>1, <2>2 DEF ReadOnly
<1>4. /\ snap' \in [Clients -> Snapshot \cup {NoSnapshot}]
      /\ \A c \in Clients :
           snap'[c] \in {snap[c], NoSnapshot, [meta |-> meta, records |-> records]}
  <2>1. [meta |-> meta, records |-> records] \in Snapshot
    BY DEF IInv, TypeOK, Snapshot
  <2>2. QED
    BY <2>1 DEF ReadOnly, IInv, TypeOK
<1>5. SnapshotsPast' /\ SnapshotCurrent'
  <2> SUFFICES ASSUME NEW c \in Clients
               PROVE  /\ snap'[c].meta.revision <= meta.revision
                      /\ snap'[c].meta.revision = meta.revision =>
                           snap'[c].records = records /\ snap'[c].meta = meta
    BY <1>1 DEF SnapshotsPast, SnapshotCurrent
  <2>1. meta.revision \in Nat
    BY DEF IInv, TypeOK
  <2>2. CASE snap'[c] = snap[c]
    BY <2>2 DEF IInv, SnapshotsPast, SnapshotCurrent
  <2>3. CASE snap'[c] = NoSnapshot
    BY <2>1, <2>3 DEF NoSnapshot
  <2>4. CASE snap'[c] = [meta |-> meta, records |-> records]
    BY <2>1, <2>4
  <2>5. QED
    BY <1>4, <2>2, <2>3, <2>4
<1>6. TypeOK'
  BY <1>1, <1>3, <1>4 DEF IInv, TypeOK
<1>7. QED
  BY <1>2, <1>3, <1>5, <1>6 DEF IInv

\* Every step preserves the invariant.
LEMMA NextInv == IInv /\ [Next]_vars => IInv'
BY StepKinds, CommitInv, ConcludedInv, ClaimedInv, ReadOnlyInv DEF StepKind

\* The invariant holds in every reachable state.
LEMMA Inductive == Spec => []IInv
BY InitInv, NextInv, PTL DEF Spec

-----------------------------------------------------------------------------
(* What the ledger guarantees *)

\* Records, rows, snapshots and answers keep their types (the schema of the
\* tables and the reservation codec).
THEOREM LedgerTypeCorrect == Spec => []TypeOK
<1>1. IInv => TypeOK
  BY DEF IInv
<1>2. QED
  BY <1>1, Inductive, PTL

\* A reservation is claimed at most once, and its inventory is never freed
\* after it was: beginAttempt never hands out the same reservation twice.
THEOREM ReservationClaimedOnce == Spec => []ClaimedOnce
<1>1. IInv => ClaimedOnce
  BY DEF IInv, ClaimsNamed, ClaimedOnce
<1>2. QED
  BY <1>1, Inductive, PTL

\* Every caller of a key is told one outcome, the one its reservation met.
THEOREM KeyHasOneOutcome == Spec => []OneOutcome
<1>1. IInv => OneOutcome
  BY DEF IInv, RepliesRecorded, RowRecord, OneOutcome
<1>2. QED
  BY <1>1, Inductive, PTL

\* No running fill is without its pending row, and no pending row without
\* its record.
THEOREM FillsAreTracked == Spec => []FillsTracked
<1>1. IInv => FillsTracked
  <2> SUFFICES ASSUME IInv PROVE FillsTracked
    OBVIOUS
  <2>1. \A id \in Ids : records[id].state = "filling" =>
          records[id].attempt \in Keys
    BY DEF IInv, TypeOK, Reservations, ClaimsNamed
  <2>2. QED
    BY <2>1, ReservationAssumption DEF IInv, ClaimsNamed, RecordRow, RowRecord, FillsTracked, Pending
<1>2. QED
  BY <1>1, Inductive, PTL

\* No commit overwrites what was written after its snapshot.
THEOREM CommitsSerializable == Spec => SerializableCommits
<1>1. IInv /\ [Next]_vars =>
        [\A c \in Clients :
           snap[c] # NoSnapshot /\ snap'[c] = NoSnapshot /\ records' # records =>
             snap[c].records = records]_vars
  <2> SUFFICES ASSUME IInv, [Next]_vars, NEW c \in Clients,
                      snap[c] # NoSnapshot, snap'[c] = NoSnapshot, records' # records
               PROVE  snap[c].records = records
    OBVIOUS
  <2>1. CASE \E d \in Clients : \E ms \in Batches(snap[d]) : commit(d, ms)
    <3>1. PICK d \in Clients : \E ms \in Batches(snap[d]) : commit(d, ms)
      BY <2>1
    <3>2. snap' = [snap EXCEPT ![d] = NoSnapshot] /\ snap[d].meta.revision = meta.revision
      BY <3>1 DEF commit, RevisionCurrent
    <3>3. d = c
      BY <3>2 DEF IInv, TypeOK
    <3>4. QED
      BY <3>2, <3>3 DEF IInv, SnapshotCurrent
  <2>2. CASE \E K \in SUBSET Keys, outcome \in Outcomes : Concluded(K, outcome)
    BY <2>2 DEF Concluded
  <2>3. CASE \E id \in Ids, k \in Keys : Claimed(id, k)
    BY <2>3 DEF Claimed
  <2>4. CASE ReadOnly
    BY <2>4 DEF ReadOnly, ledger
  <2>5. QED
    BY <2>1, <2>2, <2>3, <2>4, StepKinds DEF StepKind
<1>2. QED
  BY <1>1, Inductive, PTL DEF Spec, SerializableCommits

\* Every write takes the next fence of its record, and a new record a fence
\* above all others.
THEOREM FencesAlwaysAdvance == Spec => FencesAdvance
<1>1. IInv /\ [Next]_vars =>
        [\A id \in Ids : records'[id] # records[id] =>
           IF records[id].state = "absent"
             THEN \A i \in Ids : records[i].fence < records'[id].fence
             ELSE records'[id].fence = records[id].fence + 1]_vars
  <2> SUFFICES ASSUME IInv, [Next]_vars, NEW id \in Ids, records'[id] # records[id]
               PROVE  IF records[id].state = "absent"
                        THEN \A i \in Ids : records[i].fence < records'[id].fence
                        ELSE records'[id].fence = records[id].fence + 1
    OBVIOUS
  <2>0. \A i \in Ids : /\ records[i].fence \in Nat /\ records[i].fence <= meta.high_water
                       /\ meta.high_water \in Nat
    BY DEF IInv, TypeOK, HighWater, Reservations
  <2>1. CASE \E c \in Clients : \E ms \in Batches(snap[c]) : commit(c, ms)
    <3>1. /\ records'[id] \in Reservations
          /\ Created(id) \/ Stepped(id, MutationCommands)
      BY <2>1, CommitShape DEF IInv
    <3>2. CASE Created(id)
      <4>1. records'[id].fence \in Nat
        BY <3>1 DEF Reservations
      <4>2. QED
        BY <2>0, <3>2, <4>1 DEF Created
    <3>3. CASE Stepped(id, MutationCommands)
      <4>1. PICK command \in MutationCommands, at \in Nat :
              /\ CanTransition(records[id], command, at)
              /\ records'[id] = Transition(records[id], command, at, NoKey)
        BY <3>3 DEF Stepped
      <4>2. records[id] \in Reservations /\ command \in Commands
        BY Targets DEF IInv, TypeOK, MutationCommands
      <4>3. records'[id].fence = records[id].fence + 1
        BY <4>1, <4>2, TransitionShape
      <4>4. records[id].state # "absent"
        BY <4>1 DEF CanTransition, ActiveStates
      <4>5. QED
        BY <4>3, <4>4
    <3>4. QED
      BY <3>1, <3>2, <3>3
  <2>2. CASE \E K \in SUBSET Keys, outcome \in Outcomes : Concluded(K, outcome)
    BY <2>2 DEF Concluded
  <2>3. CASE \E i \in Ids, k \in Keys : Claimed(i, k)
    BY <2>3 DEF Claimed
  <2>4. CASE ReadOnly
    BY <2>4 DEF ReadOnly, ledger
  <2>5. QED
    BY <2>1, <2>2, <2>3, <2>4, StepKinds DEF StepKind
<1>2. QED
  BY <1>1, Inductive, PTL DEF Spec, FencesAdvance

-----------------------------------------------------------------------------
(* Refinement *)

\* The refinement mapping, record by record.
LEMMA HoldMapping ==
  /\ \A id \in Ids : /\ holdBar[id] = HoldOf(records[id])
                     /\ holdBar'[id] = HoldOf(records'[id])
                     /\ moverBar[id] = records[id].attempt
                     /\ moverBar'[id] = records'[id].attempt
  /\ \A k \in Keys : /\ verdictBar[k] = attempts[k].outcome
                     /\ verdictBar'[k] = attempts'[k].outcome
BY DEF holdBar, moverBar, verdictBar, HoldOf

\* What a plain lifecycle step does to the inventory.
LEMMA SteppedHold ==
  ASSUME IInv, NEW id \in Ids, records'[id] \in Reservations,
         Stepped(id, MutationCommands)
  PROVE  Hold!Keep(id) \/ Hold!Return(id) \/ Hold!Freeze(id)
<1>1. PICK command \in MutationCommands, at \in Nat :
        /\ CanTransition(records[id], command, at)
        /\ records'[id] = Transition(records[id], command, at, NoKey)
  BY DEF Stepped
<1>2. records'[id].state = Target[command] /\ records'[id].attempt = records[id].attempt
  <2>1. command \in Commands /\ records[id] \in Reservations
    BY Targets DEF MutationCommands, IInv, TypeOK
  <2>2. /\ records'[id].state = Target[command]
        /\ records'[id].attempt = IF command = "beginFill" THEN NoKey ELSE records[id].attempt
    BY <1>1, <2>1, TransitionShape
  <2>3. QED
    BY <2>2 DEF MutationCommands
<1>3. moverBar'[id] = moverBar[id]
  BY <1>2, HoldMapping
<1>4. records[id].state \in ActiveStates /\ CommandAllowed(records[id], command, at)
  BY <1>1 DEF CanTransition
<1>5. CASE command = "select"
  <2>1. holdBar[id] = "held" /\ holdBar'[id] = "held"
    BY <1>2, <1>4, <1>5, HoldMapping, Targets DEF HoldOf, CommandAllowed
  <2>2. QED
    BY <1>3, <2>1 DEF Hold!Keep
<1>6. CASE command \in {"release", "expire"}
  <2>1. holdBar[id] = "held" /\ holdBar'[id] = "returned"
    BY <1>2, <1>4, <1>6, HoldMapping, Targets DEF HoldOf, CommandAllowed, ActiveStates
  <2>2. QED
    BY <1>3, <2>1 DEF Hold!Return
<1>7. CASE command = "quarantine"
  <2>1. holdBar[id] \in {"held", "moving"} /\ holdBar'[id] = "frozen"
    BY <1>2, <1>4, <1>7, HoldMapping, Targets DEF HoldOf, ActiveStates
  <2>2. QED
    BY <1>3, <2>1 DEF Hold!Freeze
<1>8. QED
  BY <1>5, <1>6, <1>7 DEF MutationCommands

\* A commit is a step of InventoryHold.
LEMMA CommitHold ==
  ASSUME IInv, NEW c \in Clients, NEW ms \in Batches(snap[c]), commit(c, ms)
  PROVE  Hold!Next
<1>1. /\ records' \in [Ids -> Reservations]
      /\ \A id \in Ids : \/ records'[id] = records[id]
                         \/ Created(id)
                         \/ Stepped(id, MutationCommands)
  BY CommitShape DEF IInv
<1>2. \A id \in Ids : moverBar'[id] = moverBar[id]
  BY <1>1, CommitKeeps, HoldMapping
<1>3. ASSUME NEW id \in Ids
      PROVE  Hold!Keep(id) \/ Hold!Take(id) \/ Hold!Return(id) \/ Hold!Freeze(id)
  <2>1. CASE records'[id] = records[id]
    BY <2>1, HoldMapping DEF Hold!Keep
  <2>2. CASE Created(id)
    <3>1. holdBar[id] = "none" /\ holdBar'[id] = "held"
      BY <2>2, HoldMapping DEF Created, HoldOf
    <3>2. QED
      BY <1>2, <3>1 DEF Hold!Take
  <2>3. CASE Stepped(id, MutationCommands)
    BY <1>1, <2>3, SteppedHold
  <2>4. QED
    BY <1>1, <2>1, <2>2, <2>3
<1>4. \A k \in Keys : verdictBar'[k] = verdictBar[k]
  BY HoldMapping DEF commit
<1>5. QED
  BY <1>2, <1>3, <1>4 DEF Hold!Next

\* Concluding attempts is a step of InventoryHold.
LEMMA ConcludedHold ==
  ASSUME IInv, NEW K \in SUBSET Keys, NEW outcome \in Outcomes, Concluded(K, outcome)
  PROVE  Hold!Next
<1>1. \A k \in K : attempts[k].id \in Ids /\ attempts[k].outcome = "none"
  <2>1. \A k \in K : k \in Keys /\ attempts[k].status = "pending"
    BY DEF Concluded, Pending
  <2>2. QED
    BY <2>1 DEF IInv, TypeOK, AttemptRow, NoAttempt
<1>2. \A k \in K :
        LET i == attempts[k].id
        IN  /\ holdBar[i] = "moving" /\ moverBar[i] = k /\ moverBar'[i] = k
            /\ holdBar'[i] = IF outcome = "consumed" THEN "spent" ELSE "frozen"
            /\ verdictBar[k] = "none" /\ verdictBar'[k] = outcome
  <2> SUFFICES ASSUME NEW k \in K, NEW i \in Ids, i = attempts[k].id
               PROVE  /\ holdBar[i] = "moving" /\ moverBar[i] = k /\ moverBar'[i] = k
                      /\ holdBar'[i] = IF outcome = "consumed" THEN "spent" ELSE "frozen"
                      /\ verdictBar[k] = "none" /\ verdictBar'[k] = outcome
    BY <1>1
  <2>1. /\ records[i].state = "filling" /\ records[i].attempt = k
        /\ records'[i].state = Final(outcome) /\ records'[i].attempt = k
        /\ attempts'[k].outcome = outcome
    BY DEF Concluded
  <2>2. k \in Keys
    OBVIOUS
  <2>3. HoldOf(records[i]) = "moving"
    BY <2>1 DEF HoldOf
  <2>4. HoldOf(records'[i]) = IF outcome = "consumed" THEN "spent" ELSE "frozen"
    BY <2>1 DEF HoldOf, Final
  <2>5. QED
    BY <1>1, <2>1, <2>2, <2>3, <2>4, HoldMapping
<1>3. ASSUME NEW id \in Ids
      PROVE  /\ Hold!Keep(id) \/ Hold!Freeze(id) \/ Hold!Spend(id)
             /\ moverBar'[id] = moverBar[id]
  <2>1. CASE records'[id] = records[id]
    BY <2>1, HoldMapping DEF Hold!Keep
  <2>2. CASE \E k \in K : attempts[k].id = id
    <3>1. PICK k \in K : attempts[k].id = id
      BY <2>2
    <3>2. /\ holdBar[id] = "moving" /\ moverBar[id] = k /\ moverBar'[id] = k
          /\ holdBar'[id] = IF outcome = "consumed" THEN "spent" ELSE "frozen"
          /\ verdictBar'[k] = outcome
      BY <1>2, <3>1
    <3>3. CASE outcome = "consumed"
      BY <3>2, <3>3 DEF Hold!Spend
    <3>4. CASE outcome # "consumed"
      BY <3>2, <3>4 DEF Hold!Freeze
    <3>5. QED
      BY <3>2, <3>3, <3>4
  <2>3. QED
    BY <2>1, <2>2 DEF Concluded
<1>4. ASSUME NEW k \in Keys PROVE verdictBar'[k] = verdictBar[k] \/ Hold!Judge(k)
  <2>1. CASE k \in K
    BY <1>1, <1>2, <2>1 DEF Hold!Judge, Outcomes
  <2>2. CASE k \notin K
    BY <2>2, HoldMapping DEF Concluded
  <2>3. QED
    BY <2>1, <2>2
<1>5. QED
  BY <1>3, <1>4 DEF Hold!Next

\* Granting a claim is a step of InventoryHold.
LEMMA ClaimedHold ==
  ASSUME IInv, NEW id \in Ids, NEW k \in Keys, Claimed(id, k)
  PROVE  Hold!Next
<1>1. attempts[k].outcome = "none" /\ \A i \in Ids : records[i].attempt # k
  BY ReservationAssumption DEF IInv, TypeOK, AttemptRow, NoAttempt, RecordRow, Claimed
<1>2. Hold!Fresh(k)
  BY <1>1, HoldMapping DEF Hold!Fresh
<1>3. Hold!Grant(id)
  <2>1. holdBar[id] = "held" /\ holdBar'[id] = "moving" /\ moverBar'[id] = k
    BY HoldMapping DEF Claimed, HoldOf
  <2>2. QED
    BY <1>2, <2>1 DEF Hold!Grant
<1>4. \A i \in Ids \ {id} : Hold!Keep(i)
  BY HoldMapping DEF Hold!Keep, Claimed
<1>5. \A j \in Keys : verdictBar'[j] = verdictBar[j]
  BY <1>1, HoldMapping DEF Claimed
<1>6. \A i \in Ids \ {id} : moverBar'[i] = moverBar[i]
  BY HoldMapping DEF Claimed
<1>7. QED
  BY <1>3, <1>4, <1>5, <1>6 DEF Hold!Next

\* The ledger implements InventoryHold: every request, whatever snapshot it
\* was computed from and however often it is repeated, is a step of the
\* abstract store or leaves it unchanged.
THEOREM ImplementsInventoryHold == Spec => HoldSpec
<1>1. Init => Hold!Init
  BY DEF Init, Hold!Init, holdBar, moverBar, verdictBar, HoldOf, Absent, NoAttempt
<1>2. IInv /\ [Next]_vars => [Hold!Next]_(Hold!vars)
  <2> SUFFICES ASSUME IInv, [Next]_vars PROVE [Hold!Next]_(Hold!vars)
    OBVIOUS
  <2>1. ASSUME ReadOnly PROVE UNCHANGED (Hold!vars)
    BY <2>1 DEF ReadOnly, ledger, Hold!vars, holdBar, moverBar, verdictBar, HoldOf
  <2>2. QED
    BY <2>1, StepKinds, CommitHold, ConcludedHold, ClaimedHold DEF StepKind
<1>3. QED
  BY <1>1, <1>2, Inductive, PTL DEF Spec, HoldSpec, Hold!Spec

=============================================================================
