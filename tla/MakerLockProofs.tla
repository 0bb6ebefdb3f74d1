-------------------------- MODULE MakerLockProofs --------------------------
(***************************************************************************)
(* Proofs about the collateral locks of MakerNode, for every value of its  *)
(* constants: what disk, memory, the requests under way and the chain know *)
(* of each other at every step, and that the inventory covers what the     *)
(* reservations and the locks promise together.                            *)
(***************************************************************************)
EXTENDS MakerNodeProofs, SumProofs

ChainLocks == [landed: BOOLEAN, maxB: Nat, taken: Nat, settled: [Actions -> BOOLEAN]]

QuoteRequests ==
  [pc: {"idle", "lock", "wait", "confirm", "reverted", "unknown", "sign", "finish"}, at: Nat]

Scans ==
  [pc: {"idle", "read", "apply", "evidence", "resolve", "submit", "settle", "wait",
        "landed", "hashed", "unknown", "reverted", "reset"},
   q: Rfqs \cup {NoRfq}, at: Nat, lock: StoredLockRecord, chain: ChainLocks,
   receipt: {"none", "SUCCEEDED", "REVERTED"}]

Takings ==
  [pc: {"idle", "write", "contradicted"}, q: Rfqs \cup {NoRfq}, at: Nat, revision: Nat,
   chain: ChainLocks]

LockTables == [Rfqs -> StoredLockRecord]

\* A settlement transaction is out: it may still land.
Outstanding(q, a) == settleCalls[q][a] > 0 /\ ~chain[q].settled[a]

Quiescent(q) == \A a \in Actions : ~Outstanding(q, a)

\* An attempt is of an action, or there is none.
AttemptNamed(rec) == rec.attempt.action = "none" => rec.attempt = NoAttempt

-----------------------------------------------------------------------------
(* The inductive invariant *)

\* One transaction of a kind at a time, in the order the escrow enforces.
WorldOK ==
  /\ chain \in [Rfqs -> ChainLocks]
  /\ lockCalls \in [Rfqs -> Nat]
  /\ settleCalls \in [Rfqs -> [Actions -> Nat]]
  /\ \A q \in Rfqs :
       /\ lockCalls[q] <= 1
       /\ chain[q].landed => lockCalls[q] = 1
       /\ \A a \in Actions :
            /\ settleCalls[q][a] <= 1
            /\ settleCalls[q][a] = 1 => chain[q].landed
            /\ chain[q].settled[a] => settleCalls[q][a] = 1

\* What a record of an RFQ, in memory or on disk, says about the world: a
\* settlement that may still land is the attempt on record, what is settled is
\* settled on chain, and a lock that was or may be submitted has a record.
RecordOK(q, rec) ==
  /\ rec \in StoredLockRecord
  /\ AttemptNamed(rec)
  /\ Canonical(rec)
  /\ rec.state = "settled" => \A a \in Actions : chain[q].settled[a]
  /\ \A a \in Actions : Outstanding(q, a) => rec.attempt.action = a
  /\ rec.signed => chain[q].landed
  /\ lockCalls[q] > 0 \/ quoting[q].pc # "idle" => rec.state # "absent"
  /\ clock < LockExpiry[q] /\ q \in quoted => rec.signed
  /\ scan.pc = "settle" /\ scan.q = q => rec.attempt.action = scan.lock.attempt.action

RecordsOK ==
  /\ locks \in LockTables /\ walLocks \in LockTables
  /\ status # "failed" => walLocks = locks
  /\ \A q \in Rfqs : RecordOK(q, locks[q]) /\ RecordOK(q, walLocks[q])

\* The store is held by a request that is being served, about an RFQ that has
\* no record; until recovery is over nobody quotes.
HeldOK ==
  /\ clock \in Nat
  /\ held # Free => status = "serving"
  /\ held.at \in Nat
  /\ \A q \in Rfqs : held.subject = q => locks[q].state = "absent"
  /\ status \in {"opened", "refreshing"} => \A q \in Rfqs : quoting[q].pc = "idle"

\* Where a quote stands, the chain says the same.
QuoteOK ==
  /\ quoting \in [Rfqs -> QuoteRequests]
  /\ quoted \subseteq Rfqs
  /\ \A q \in Rfqs :
       /\ quoting[q].pc \in {"lock", "reverted"} => lockCalls[q] = 0
       /\ quoting[q].pc \in {"confirm", "sign", "finish"} => chain[q].landed
       /\ q \in quoted => chain[q].landed

\* A Take reconciliation is about a quote that was returned, and the chain has
\* not gone back behind what it read.
TakingOK ==
  /\ taking \in [Requests -> Takings]
  /\ \A t \in Requests : taking[t].pc # "idle" =>
       /\ taking[t].q \in quoted
       /\ \A a \in Actions : taking[t].chain.settled[a] => chain[taking[t].q].settled[a]

\* The steps of a scan that work on the copy of the record.
Copied == {"read", "apply", "evidence", "resolve", "reset"}

\* Where a scan stands: nothing is out when it starts to settle or has seen
\* the outcome of the attempt; while an attempt is looked into, only that one
\* is out; and what it read of the chain still holds as far as it uses it.
Stands(s) ==
  LET a == s.lock.attempt.action IN
  /\ s.pc \in {"read", "apply", "submit", "settle", "reverted", "reset"} => Quiescent(s.q)
  /\ s.pc \in {"evidence", "resolve", "settle", "wait", "landed", "hashed", "reset"}
       => a \in Actions
  /\ s.pc \in {"evidence", "resolve", "wait", "landed", "hashed", "unknown"}
       => \A b \in Actions : Outstanding(s.q, b) => b = a
  /\ s.pc = "resolve" /\ s.receipt = "REVERTED" => Quiescent(s.q)
  /\ s.pc \in {"apply", "submit", "resolve", "reset"} =>
       /\ s.chain.landed => chain[s.q].landed
       /\ \A b \in Actions : s.chain.settled[b] => chain[s.q].settled[b]
  /\ s.pc \in {"apply", "submit"} =>
       \A b \in Actions : s.chain.settled[b] = chain[s.q].settled[b]
  /\ s.pc = "resolve" =>
       \A b \in Actions \ {a} : s.chain.settled[b] = chain[s.q].settled[b]
  /\ s.pc = "submit" => s.chain.landed /\ \E b \in Actions : ~s.chain.settled[b]
  /\ s.pc = "settle" => chain[s.q].landed /\ settleCalls[s.q][a] = 0
  /\ s.pc \in Copied => (s.lock.signed => chain[s.q].landed)

ScanTyped(s) ==
  /\ s \in Scans
  /\ AttemptNamed(s.lock)
  /\ s.pc = "idle" <=> s.q = NoRfq

ScanOK == ScanTyped(scan) /\ (scan.pc # "idle" => Stands(scan)) /\ todo \subseteq Rfqs

\* Until a lock expires the scan and a quote are never at it together, so a
\* signature is not lost to a copy taken before it.
Early(q) ==
  clock < LockExpiry[q] =>
    /\ quoting[q].pc # "idle" =>
         /\ q \notin quoted /\ ~locks[q].signed
         /\ locks[q].state \in {"locking", "open"}
         /\ q \notin todo /\ scan.q # q
    /\ q \in todo \/ scan.q = q => locks[q].state # "absent"
    /\ scan.q = q /\ scan.pc \in Copied /\ locks[q].signed => scan.lock.signed

EarlyOK == \A q \in Rfqs : Early(q)

LockInv == WorldOK /\ RecordsOK /\ HeldOK /\ QuoteOK /\ TakingOK /\ ScanOK /\ EarlyOK

-----------------------------------------------------------------------------
(* What the handlers make of a lock record *)

LEMMA NoAttemptTyped ==
  /\ NoAttempt \in [action: Actions \cup {"none"}, n: Nat, hash: BOOLEAN]
  /\ NoAttempt.action = "none" /\ "none" \notin Actions
BY DEF NoAttempt, Actions

LEMMA LockFields ==
  ASSUME NEW rec \in StoredLockRecord
  PROVE  /\ rec.state \in LockStates \cup {"absent"} /\ rec.prior \in PriorStates \cup {"none"}
         /\ rec.failures \in Nat /\ rec.count \in Nat /\ rec.taken \in Nat
         /\ rec.signed \in BOOLEAN /\ rec.ticket \in BOOLEAN
         /\ rec.attempt \in [action: Actions \cup {"none"}, n: Nat, hash: BOOLEAN]
         /\ rec.attempt.action \in Actions \cup {"none"} /\ rec.attempt.n \in Nat
BY DEF StoredLockRecord

LEMMA PriorTyped ==
  ASSUME NEW rec \in StoredLockRecord, NEW q, NEW now
  PROVE  priorLockState(rec, q, now) \in PriorStates
BY DEF priorLockState, StoredLockRecord, PriorStates

\* A failed reconciliation keeps attempt and signature.
LEMMA FailureShape ==
  ASSUME NEW rec \in StoredLockRecord, NEW q, NEW now, NEW next \in LockStates
  PROVE  LET new == lockWithReconciliationFailure(rec, q, now, next)
         IN  /\ new \in StoredLockRecord
             /\ new.state \in {"quarantined", next}
             /\ new.attempt = rec.attempt /\ new.signed = rec.signed
<1> DEFINE p == priorLockState(rec, q, now)
<1>1. p \in PriorStates \cup {"none"}
  BY PriorTyped
<1>2. "quarantined" \in LockStates /\ rec.failures + 1 \in Nat
  BY DEF LockStates, StoredLockRecord
<1> HIDE DEF p
<1> DEFINE new == [rec EXCEPT !.state = IF rec.failures + 1 >= MaxFailures
                                        THEN "quarantined" ELSE next,
                              !.prior = p, !.failures = @ + 1]
<1>3. new = lockWithReconciliationFailure(rec, q, now, next)
  BY DEF lockWithReconciliationFailure, p
<1>4. new \in StoredLockRecord
  BY <1>1, <1>2 DEF StoredLockRecord
<1>5. new.state \in {"quarantined", next} /\ new.attempt = rec.attempt /\ new.signed = rec.signed
  BY DEF StoredLockRecord
<1> QED BY <1>3, <1>4, <1>5

LEMMA QuarantineShape ==
  ASSUME NEW rec \in StoredLockRecord, NEW q, NEW now
  PROVE  LET new == quarantinedLock(rec, q, now)
         IN  /\ new \in StoredLockRecord /\ new.state = "quarantined"
             /\ new.attempt = rec.attempt /\ new.signed = rec.signed
<1> DEFINE p == priorLockState(rec, q, now)
<1>1. p \in PriorStates \cup {"none"} /\ "quarantined" \in LockStates
  BY PriorTyped DEF LockStates
<1> HIDE DEF p
<1> DEFINE new == [rec EXCEPT !.state = "quarantined", !.prior = p]
<1>2. new = quarantinedLock(rec, q, now)
  BY DEF quarantinedLock, p
<1>3. /\ new \in StoredLockRecord /\ new.state = "quarantined"
      /\ new.attempt = rec.attempt /\ new.signed = rec.signed
  BY <1>1 DEF StoredLockRecord
<1> QED BY <1>2, <1>3

\* A record rebuilt from the chain has no attempt and keeps its signature.
LEMMA ChainShape ==
  ASSUME NEW rec \in StoredLockRecord, NEW q \in Rfqs, NEW c \in ChainLocks, NEW now
  PROVE  LET new == lockStateFromChain(rec, q, c, now)
         IN  /\ new \in StoredLockRecord
             /\ new.state \in {"settled", "expired", "taken", "open"}
             /\ new.state = "settled" <=> \A a \in Actions : c.settled[a]
             /\ new.attempt = NoAttempt /\ new.signed = rec.signed
<1> DEFINE s == IF c.settled["proceeds"] /\ c.settled["release"] THEN "settled"
                ELSE IF now >= LockExpiry[q] THEN "expired"
                ELSE IF c.taken > 0 THEN "taken" ELSE "open"
           new == [rec EXCEPT !.state = s, !.taken = c.taken, !.prior = "none",
                              !.failures = 0, !.attempt = NoAttempt]
<1>1. new = lockStateFromChain(rec, q, c, now)
  BY DEF lockStateFromChain
<1>2. /\ s \in {"settled", "expired", "taken", "open"}
      /\ s = "settled" <=> \A a \in Actions : c.settled[a]
  BY DEF Actions, ChainLocks
<1>3. s \in LockStates /\ c.taken \in Nat
  BY <1>2 DEF LockStates, PriorStates, ChainLocks
<1> HIDE DEF s
<1>4. /\ new \in StoredLockRecord /\ new.state = s
      /\ new.attempt = NoAttempt /\ new.signed = rec.signed
  BY <1>3, NoAttemptTyped DEF StoredLockRecord
<1> QED BY <1>1, <1>2, <1>4

-----------------------------------------------------------------------------
(* What a step leaves as it was *)

\* A record that was right stays right.
ContextKeeps(q) == \A rec : RecordOK(q, rec) => RecordOK(q, rec)'

LEMMA ContextOf ==
  ASSUME NEW q \in Rfqs, clock \in Nat, clock' \in Nat, clock <= clock',
         UNCHANGED <<chain, lockCalls, settleCalls>>,
         quoting'[q].pc # "idle" => quoting[q].pc # "idle",
         q \in quoted' => q \in quoted,
         scan'.pc = "settle" /\ scan'.q = q => scan' = scan
  PROVE  ContextKeeps(q)
<1> SUFFICES ASSUME NEW rec, RecordOK(q, rec) PROVE RecordOK(q, rec)'
  BY DEF ContextKeeps
<1>1. clock' < LockExpiry[q] => clock < LockExpiry[q]
  BY WalletAssumption
<1>2. \A a \in Actions : Outstanding(q, a)' <=> Outstanding(q, a)
  BY DEF Outstanding
<1> QED BY <1>1, <1>2 DEF RecordOK

\* One write of the record of an RFQ (#appendSnapshot).
Written(q, d, ok) ==
  /\ status # "failed"
  /\ IF ok
     THEN locks' = [locks EXCEPT ![q] = d] /\ walLocks' = locks' /\ status' = status
     ELSE locks' = locks /\ status' = "failed"
          /\ walLocks' \in {[locks EXCEPT ![q] = d], walLocks}
  /\ held' = Free /\ clock' = clock

LEMMA AppendWrites ==
  ASSUME NEW q, NEW d, NEW draft, NEW ok \in BOOLEAN, draft = [locks EXCEPT ![q] = d],
         status # "failed", AppendSnapshot(records, draft, status, ok)
  PROVE  Written(q, d, ok)
BY DEF AppendSnapshot, Written

LEMMA TransactionWrites ==
  ASSUME NEW q, NEW d, NEW draft, NEW ok \in BOOLEAN, draft = [locks EXCEPT ![q] = d],
         lockTransaction(draft, ok)
  PROVE  Written(q, d, ok)
BY AppendWrites DEF lockTransaction, Usable

\* What is right of a value is right of the table that holds it.
LEMMA HeldInTables ==
  ASSUME NEW q, NEW r, RecordOK(q, r)'
  PROVE  /\ locks'[q] = r => RecordOK(q, locks[q])'
         /\ walLocks'[q] = r => RecordOK(q, walLocks[q])'
BY DEF RecordOK, AttemptNamed, Canonical

LEMMA KeptInTables ==
  ASSUME NEW q, ContextKeeps(q), NEW r, RecordOK(q, r)
  PROVE  /\ locks'[q] = r => RecordOK(q, locks[q])'
         /\ walLocks'[q] = r => RecordOK(q, walLocks[q])'
<1>1. RecordOK(q, r)'
  BY DEF ContextKeeps
<1> QED BY <1>1, HeldInTables

\* A record that is right when it is written keeps memory and disk right; when
\* the write fails the old one must still be right beside it.
LEMMA WrittenRecords ==
  ASSUME RecordsOK, NEW q \in Rfqs, NEW d \in StoredLockRecord, NEW ok \in BOOLEAN,
         Written(q, d, ok),
         \A p \in Rfqs \ {q} : ContextKeeps(p),
         ~ok => ContextKeeps(q), RecordOK(q, d)'
  PROVE  RecordsOK'
<1> DEFINE draft == [locks EXCEPT ![q] = d]
<1>1. /\ draft \in LockTables /\ draft[q] = d
      /\ \A p \in Rfqs \ {q} : draft[p] = locks[p]
  BY DEF RecordsOK, LockTables
<1>2. locks \in LockTables /\ walLocks \in LockTables /\ (status # "failed" => walLocks = locks)
  BY DEF RecordsOK
<1>3. \/ ok /\ locks' = draft /\ walLocks' = draft /\ status' # "failed"
      \/ ~ok /\ locks' = locks /\ walLocks' \in {draft, locks} /\ status' = "failed"
  BY <1>2 DEF Written
<1> HIDE DEF draft
<1>4. ASSUME NEW p \in Rfqs \ {q} PROVE RecordOK(p, locks[p])' /\ RecordOK(p, walLocks[p])'
  <2>1. locks'[p] = locks[p] /\ walLocks'[p] = locks[p]
    BY <1>1, <1>3
  <2>2. RecordOK(p, locks[p]) /\ ContextKeeps(p)
    BY DEF RecordsOK
  <2> QED BY <2>1, <2>2, KeptInTables
<1>5. RecordOK(q, locks[q])' /\ RecordOK(q, walLocks[q])'
  <2>1. CASE ok
    BY <1>1, <1>3, <2>1, HeldInTables
  <2>2. CASE ~ok
    <3>1. locks'[q] = locks[q] /\ walLocks'[q] \in {d, locks[q]}
      BY <1>1, <1>3, <2>2
    <3>2. RecordOK(q, locks[q])
      BY DEF RecordsOK
    <3> QED BY <2>2, <3>1, <3>2, KeptInTables, HeldInTables
  <2> QED BY <2>1, <2>2
<1>6. locks' \in LockTables /\ walLocks' \in LockTables /\ (status' # "failed" => walLocks' = locks')
  BY <1>1, <1>2, <1>3
<1> QED BY <1>4, <1>5, <1>6 DEF RecordsOK

\* A step that writes no lock keeps the tables right.
LEMMA KeptRecords ==
  ASSUME RecordsOK, locks' = locks, walLocks' \in {locks, walLocks},
         status' # "failed" => walLocks' = locks,
         \A p \in Rfqs : ContextKeeps(p)
  PROVE  RecordsOK'
<1>1. ASSUME NEW p \in Rfqs PROVE RecordOK(p, locks[p])' /\ RecordOK(p, walLocks[p])'
  <2>1. RecordOK(p, locks[p]) /\ RecordOK(p, walLocks[p]) /\ ContextKeeps(p)
    BY DEF RecordsOK
  <2>2. locks'[p] = locks[p] /\ walLocks'[p] \in {locks[p], walLocks[p]}
    OBVIOUS
  <2> QED BY <2>1, <2>2, KeptInTables
<1> QED BY <1>1 DEF RecordsOK

LEMMA FreeHolds == Free.at \in Nat /\ Free.subject \notin Rfqs /\ Free.subject \notin Intents
BY WalletAssumption DEF Free

LEMMA WrittenHeld ==
  ASSUME HeldOK, NEW q, NEW d, NEW ok \in BOOLEAN, Written(q, d, ok),
         \A p \in Rfqs : quoting'[p].pc # "idle" => quoting[p].pc # "idle" \/ status = "serving"
  PROVE  HeldOK'
BY FreeHolds DEF HeldOK, Written

\* Where a scan stands depends on the settlements of its lock alone.
LEMMA StandsStill ==
  ASSUME UNCHANGED <<chain, settleCalls>>, NEW s, Stands(s)
  PROVE  Stands(s)'
BY DEF Stands, Quiescent, Outstanding

LEMMA ScanPlaced ==
  ASSUME UNCHANGED <<chain, settleCalls>>, todo' \subseteq Rfqs, NEW s, scan' = s,
         ScanTyped(s), s.pc # "idle" => Stands(s)
  PROVE  ScanOK'
<1>1. s.pc # "idle" => Stands(s)'
  BY StandsStill
<1> QED BY <1>1 DEF ScanOK, ScanTyped, Stands, Quiescent, Outstanding

LEMMA WorldKept ==
  ASSUME WorldOK, UNCHANGED <<chain, lockCalls, settleCalls>>
  PROVE  WorldOK'
BY DEF WorldOK

LEMMA QuoteKept ==
  ASSUME QuoteOK, UNCHANGED <<chain, lockCalls, quoting, quoted>>
  PROVE  QuoteOK'
BY DEF QuoteOK

LEMMA TakingKept ==
  ASSUME TakingOK, UNCHANGED <<chain, taking>>, quoted \subseteq quoted'
  PROVE  TakingOK'
BY DEF TakingOK

LEMMA ScanKept ==
  ASSUME ScanOK, UNCHANGED <<chain, settleCalls, scan, todo>>
  PROVE  ScanOK'
BY ScanPlaced DEF ScanOK

\* A scan that has no lock in hand.
LEMMA Resting ==
  ASSUME NEW at \in Nat
  PROVE  LET s == [NotScanning EXCEPT !.at = at]
         IN  ScanTyped(s) /\ s.pc = "idle" /\ s.q = NoRfq /\ s.at = at
                /\ s.lock = NoLock /\ s.chain = EmptyLock /\ s.receipt = "none"
<1>1. NoLock \in StoredLockRecord /\ AttemptNamed(NoLock)
  BY NoAttemptTyped DEF NoLock, StoredLockRecord, AttemptNamed
<1>2. EmptyLock \in ChainLocks
  BY DEF EmptyLock, ChainLocks
<1> HIDE DEF NoLock, EmptyLock
<1> DEFINE s == [NotScanning EXCEPT !.at = at]
<1>3. s = [pc |-> "idle", q |-> NoRfq, at |-> at, lock |-> NoLock, chain |-> EmptyLock,
           receipt |-> "none"]
  BY DEF NotScanning
<1> QED BY <1>1, <1>2, <1>3 DEF ScanTyped, Scans

LEMMA RestingAtStart ==
  ScanTyped(NotScanning) /\ NotScanning.pc = "idle" /\ NotScanning.q = NoRfq
<1>1. NotScanning = [NotScanning EXCEPT !.at = 0]
  BY DEF NotScanning
<1> HIDE DEF NotScanning
<1> QED BY <1>1, Resting

\* A scan that writes the record it is at, and goes on or ends.
LEMMA ScanWriteKeeps ==
  ASSUME LockInv, NEW q \in Rfqs, scan.q = q, NEW d, NEW draft, NEW next, NEW ok \in BOOLEAN,
         draft = [locks EXCEPT ![q] = d],
         RecordOK(q, d), locks[q].state # "absent" => d.state # "absent",
         ScanTyped(next), next.pc # "idle" => Stands(next), next.q \in {q, NoRfq},
         next.pc = "settle" => d.attempt.action = next.lock.attempt.action,
         next.pc \in Copied /\ d.signed => next.lock.signed,
         ScanWrites(draft, next, ok)
  PROVE  LockInv'
<1>1. /\ Written(q, d, ok) /\ UNCHANGED <<chain, lockCalls, settleCalls, quoting, taking, quoted>>
      /\ scan' = (IF ok THEN next ELSE NotScanning)
      /\ todo' = IF ok THEN todo ELSE {}
  BY TransactionWrites DEF ScanWrites, world
<1>2. d \in StoredLockRecord /\ clock \in Nat /\ clock' = clock
  BY <1>1 DEF RecordOK, LockInv, HeldOK, Written
<1>3. ASSUME NEW p \in Rfqs, p # q \/ ~ok \/ next.pc # "settle"
      PROVE  ContextKeeps(p)
  <2>1. ~(scan'.pc = "settle" /\ scan'.q = p)
    BY <1>1, <1>3, RestingAtStart, LocksAssumption
  <2> QED BY <1>1, <1>2, <2>1, ContextOf
<1>4. RecordOK(q, d)'
  <2>1. CASE ~ok \/ next.pc # "settle"
    BY <1>3, <2>1 DEF ContextKeeps
  <2>2. CASE ok /\ next.pc = "settle"
    <3>1. scan'.lock.attempt.action = d.attempt.action
      BY <1>1, <2>2
    <3>2. \A a \in Actions : Outstanding(q, a)' <=> Outstanding(q, a)
      BY <1>1 DEF Outstanding
    <3> QED BY <1>1, <1>2, <3>1, <3>2 DEF RecordOK
  <2> QED BY <2>1, <2>2
<1>5. RecordsOK'
  BY <1>1, <1>2, <1>3, <1>4, WrittenRecords DEF LockInv
<1>6. HeldOK'
  BY <1>1, WrittenHeld DEF LockInv
<1>7. WorldOK' /\ QuoteOK' /\ TakingOK'
  BY <1>1, WorldKept, QuoteKept, TakingKept DEF LockInv
<1>8. ScanOK'
  <2>1. todo' \subseteq Rfqs
    BY <1>1 DEF LockInv, ScanOK
  <2>2. CASE ok
    BY <1>1, <2>1, <2>2, ScanPlaced
  <2>3. CASE ~ok
    BY <1>1, <2>1, <2>3, ScanPlaced, RestingAtStart
  <2> QED BY <2>2, <2>3
<1>9. ASSUME NEW p \in Rfqs PROVE Early(p)'
  <2> SUFFICES ASSUME clock' < LockExpiry[p] PROVE Early(p)'
    BY DEF Early
  <2>1. clock < LockExpiry[p] /\ Early(p)
    BY <1>2 DEF LockInv, EarlyOK
  <2>2. CASE ~ok
    BY <1>1, <2>1, <2>2, RestingAtStart, LocksAssumption DEF Early, Written, Copied
  <2>3. CASE ok /\ p # q
    <3>1. locks'[p] = locks[p] /\ scan'.q # p /\ scan' = next /\ todo' = todo
      BY <1>1, <2>3, LocksAssumption DEF Written, LockInv, RecordsOK, LockTables
    <3> QED BY <1>1, <2>1, <3>1 DEF Early
  <2>4. CASE ok /\ p = q
    <3>1. locks'[p] = d /\ scan' = next /\ quoting[p].pc = "idle"
      BY <1>1, <2>1, <2>4 DEF Written, LockInv, RecordsOK, LockTables, Early
    <3> QED BY <1>1, <2>1, <2>4, <3>1 DEF Early
  <2> QED BY <2>2, <2>3, <2>4
<1> QED BY <1>5, <1>6, <1>7, <1>8, <1>9 DEF LockInv, EarlyOK

-----------------------------------------------------------------------------
(* The records the handlers write *)

\* A draft that is right and deletes nothing.
Drafted(q, d) == RecordOK(q, d) /\ (locks[q].state # "absent" => d.state # "absent")

\* A record that keeps the attempt and the signature of one that is right.
LEMMA Rewritten ==
  ASSUME NEW q \in Rfqs, NEW b, RecordOK(q, b), NEW d \in StoredLockRecord,
         d.attempt = b.attempt, d.signed = b.signed, Canonical(d),
         d.state \notin {"settled", "absent"}
  PROVE  RecordOK(q, d) /\ d.state # "absent"
BY DEF RecordOK, AttemptNamed

\* A record without an attempt, when nothing is out.
LEMMA Cleared ==
  ASSUME NEW q \in Rfqs, NEW d \in StoredLockRecord, d.attempt = NoAttempt, Quiescent(q),
         ~(scan.pc = "settle" /\ scan.q = q),
         d.state \notin {"absent", "settlement-unknown"},
         d.state = "settled" => \A a \in Actions : chain[q].settled[a],
         d.signed => chain[q].landed,
         clock < LockExpiry[q] /\ q \in quoted => d.signed
  PROVE  RecordOK(q, d) /\ d.state # "absent"
BY DEF RecordOK, AttemptNamed, Canonical, Quiescent

LEMMA SameDraft ==
  ASSUME RecordsOK, NEW q \in Rfqs
  PROVE  locks = [locks EXCEPT ![q] = locks[q]] /\ Drafted(q, locks[q])
BY DEF RecordsOK, LockTables, Drafted

\* #recordReconciliationFailure.
LEMMA FailedDraft ==
  ASSUME RecordsOK, NEW q \in Rfqs, NEW now,
         NEW next \in {"reconcile-pending", "settlement-unknown"}, NEW clear \in BOOLEAN,
         clear => next = "reconcile-pending" /\ Quiescent(q) /\ ~(scan.pc = "settle" /\ scan.q = q)
  PROVE  \E d : /\ Failed(q, now, next, clear) = [locks EXCEPT ![q] = d]
                /\ Drafted(q, d) /\ d.signed = locks[q].signed
<1> DEFINE lock == IF clear THEN [locks[q] EXCEPT !.attempt = NoAttempt] ELSE locks[q]
           failed == lockWithReconciliationFailure(lock, q, now, next)
<1>1. locks[q] \in StoredLockRecord /\ RecordOK(q, locks[q])
  BY DEF RecordsOK, RecordOK
<1>2. /\ lock \in StoredLockRecord /\ lock.signed = locks[q].signed
      /\ lock.attempt = (IF clear THEN NoAttempt ELSE locks[q].attempt)
      /\ lock.state = locks[q].state
  BY <1>1, NoAttemptTyped DEF StoredLockRecord
<1>3. Failed(q, now, next, clear) = IF Live(locks[q]) /\ Canonical(failed)
                                    THEN [locks EXCEPT ![q] = failed] ELSE locks
  BY DEF Failed
<1>4. next \in LockStates
  BY DEF LockStates
<1> HIDE DEF lock
<1>5. /\ failed \in StoredLockRecord /\ failed.state \in {"quarantined", next}
      /\ failed.attempt = lock.attempt /\ failed.signed = lock.signed
  BY <1>2, <1>4, FailureShape
<1> HIDE DEF failed
<1>6. CASE Live(locks[q]) /\ Canonical(failed)
  <2>1. CASE clear
    <3>1. RecordOK(q, failed) /\ failed.state # "absent"
      <4>1. failed.signed => chain[q].landed
        BY <1>1, <1>2, <1>5 DEF RecordOK
      <4>2. clock < LockExpiry[q] /\ q \in quoted => failed.signed
        BY <1>1, <1>2, <1>5 DEF RecordOK
      <4> QED BY <1>2, <1>5, <2>1, <4>1, <4>2, Cleared
    <3> QED BY <1>2, <1>3, <1>5, <1>6, <3>1 DEF Drafted
  <2>2. CASE ~clear
    <3>1. RecordOK(q, failed) /\ failed.state # "absent"
      BY <1>1, <1>2, <1>5, <1>6, <2>2, Rewritten
    <3> QED BY <1>2, <1>3, <1>5, <1>6, <3>1 DEF Drafted
  <2> QED BY <2>1, <2>2
<1>7. CASE ~(Live(locks[q]) /\ Canonical(failed))
  BY <1>3, <1>7, SameDraft
<1> QED BY <1>6, <1>7

\* #quarantineLock.
LEMMA QuarantinedDraft ==
  ASSUME RecordsOK, NEW q \in Rfqs, NEW now
  PROVE  \E d : /\ Quarantined(q, now) = [locks EXCEPT ![q] = d]
                /\ Drafted(q, d) /\ d.signed = locks[q].signed
<1> DEFINE d == quarantinedLock(locks[q], q, now)
<1>1. locks[q] \in StoredLockRecord /\ RecordOK(q, locks[q])
  BY DEF RecordsOK, RecordOK
<1>2. /\ d \in StoredLockRecord /\ d.state = "quarantined"
      /\ d.attempt = locks[q].attempt /\ d.signed = locks[q].signed
  BY <1>1, QuarantineShape
<1>3. locks[q].state \notin {"absent", "settled"} => Quarantined(q, now) = [locks EXCEPT ![q] = d]
  BY DEF Quarantined
<1>4. locks[q].state \in {"absent", "settled"} => Quarantined(q, now) = locks
  BY DEF Quarantined
<1> HIDE DEF d
<1>5. RecordOK(q, d) /\ d.state # "absent"
  BY <1>1, <1>2, Rewritten DEF Canonical
<1> QED BY <1>2, <1>3, <1>4, <1>5, SameDraft DEF Drafted

\* A record computed before an await.
LEMMA ReplacedDraft ==
  ASSUME RecordsOK, NEW q \in Rfqs, NEW rec, RecordOK(q, rec), rec.state # "absent"
  PROVE  \E d : Replaced(q, rec) = [locks EXCEPT ![q] = d] /\ Drafted(q, d)
BY SameDraft DEF Replaced, Drafted

\* The copy a scan works on, brought up to date with the chain it read.
LEMMA RebuiltDraft ==
  ASSUME LockInv, NEW q \in Rfqs, scan.q = q, scan.pc \in Copied, Quiescent(q),
         NEW rec \in StoredLockRecord, rec.signed = scan.lock.signed,
         NEW c \in ChainLocks, \A a \in Actions : c.settled[a] => chain[q].settled[a], NEW now
  PROVE  LET exact == lockStateFromChain(rec, q, c, now)
         IN  /\ RecordOK(q, exact) /\ exact.state # "absent"
             /\ exact.state = "settled" <=> \A a \in Actions : c.settled[a]
<1> DEFINE exact == lockStateFromChain(rec, q, c, now)
<1>1. /\ exact \in StoredLockRecord
      /\ exact.state \in {"settled", "expired", "taken", "open"}
      /\ exact.state = "settled" <=> \A a \in Actions : c.settled[a]
      /\ exact.attempt = NoAttempt /\ exact.signed = rec.signed
  BY ChainShape
<1> HIDE DEF exact
<1>2. scan.pc # "settle" /\ scan.pc # "idle"
  BY DEF Copied
<1>3. exact.signed => chain[q].landed
  BY <1>1, <1>2 DEF LockInv, ScanOK, Stands
<1>4. clock < LockExpiry[q] /\ q \in quoted => exact.signed
  BY <1>1 DEF LockInv, EarlyOK, Early, RecordsOK, RecordOK
<1>5. RecordOK(q, exact) /\ exact.state # "absent"
  BY <1>1, <1>2, <1>3, <1>4, Cleared
<1> QED BY <1>1, <1>5 DEF exact

-----------------------------------------------------------------------------
(* The steps of the scan that write *)

LEMMA ScanAt ==
  ASSUME ScanOK, scan.pc # "idle"
  PROVE  /\ scan \in Scans /\ scan.q \in Rfqs /\ scan.lock \in StoredLockRecord
         /\ scan.chain \in ChainLocks
         /\ scan.at \in Nat /\ AttemptNamed(scan.lock) /\ Stands(scan)
BY DEF ScanOK, ScanTyped, Scans

LEMMA DoneRests ==
  ASSUME ScanOK
  PROVE  /\ ScanTyped(Done) /\ Done.pc = "idle" /\ Done.q = NoRfq /\ Done.at = scan.at
         /\ Done.lock = NoLock /\ Done.chain = EmptyLock /\ Done.receipt = "none"
<1>1. scan.at \in Nat
  BY DEF ScanOK, ScanTyped, Scans
<1> QED BY <1>1, Resting DEF Done

\* The scan writes what it found and ends.
LEMMA ScanEnds ==
  ASSUME LockInv, scan.pc # "idle", NEW d, Drafted(scan.q, d), NEW draft,
         draft = [locks EXCEPT ![scan.q] = d], NEW ok \in BOOLEAN,
         ScanWrites(draft, Done, ok)
  PROVE  LockInv'
<1>1. scan.q \in Rfqs
  BY ScanAt DEF LockInv
<1>2. ScanTyped(Done) /\ Done.pc = "idle" /\ Done.q = NoRfq
  BY DoneRests DEF LockInv
<1> HIDE DEF Done
<1> QED BY <1>1, <1>2, ScanWriteKeeps DEF Drafted, Copied

LEMMA ScanUnavailableKeeps ==
  ASSUME LockInv, NEW ok \in BOOLEAN, scanUnavailable(ok) \/ scanUnknown(ok)
  PROVE  LockInv'
<1>1. scan.pc # "idle"
  BY DEF scanUnavailable, scanUnknown
<1>2. scan.q \in Rfqs /\ RecordsOK
  BY <1>1, ScanAt DEF LockInv
<1>3. CASE scanUnavailable(ok)
  <2>1. PICK d : /\ Failed(scan.q, scan.at, "reconcile-pending", FALSE) = [locks EXCEPT ![scan.q] = d]
                 /\ Drafted(scan.q, d)
    BY <1>2, FailedDraft
  <2> QED BY <1>1, <1>3, <2>1, ScanEnds DEF scanUnavailable
<1>4. CASE scanUnknown(ok)
  <2>1. PICK d : /\ Failed(scan.q, scan.at, "settlement-unknown", FALSE) = [locks EXCEPT ![scan.q] = d]
                 /\ Drafted(scan.q, d)
    BY <1>2, FailedDraft
  <2> QED BY <1>1, <1>4, <2>1, ScanEnds DEF scanUnknown
<1> QED BY <1>3, <1>4

LEMMA ScanEvidenceUnavailableKeeps ==
  ASSUME LockInv, NEW receipt, NEW ok \in BOOLEAN, scanEvidenceUnavailable(receipt, ok)
  PROVE  LockInv'
<1>1. scan.pc = "evidence" /\ receipt \in Receipts(scan.q, scan.lock.attempt)
  BY DEF scanEvidenceUnavailable
<1>2. scan.q \in Rfqs /\ Stands(scan)
  BY <1>1, ScanAt DEF LockInv
<1>3. CASE receipt = "REVERTED"
  <2>1. Quiescent(scan.q)
    BY <1>1, <1>2, <1>3 DEF Receipts, Stands, Quiescent, Outstanding
  <2>2. PICK d : /\ Failed(scan.q, scan.at, "reconcile-pending", TRUE) = [locks EXCEPT ![scan.q] = d]
                 /\ Drafted(scan.q, d)
    BY <1>1, <1>2, <2>1, FailedDraft DEF LockInv
  <2> QED BY <1>1, <1>3, <2>2, ScanEnds DEF scanEvidenceUnavailable
<1>4. CASE receipt # "REVERTED"
  <2>1. PICK d : /\ Failed(scan.q, scan.at, "settlement-unknown", FALSE) = [locks EXCEPT ![scan.q] = d]
                 /\ Drafted(scan.q, d)
    BY <1>2, FailedDraft DEF LockInv
  <2> QED BY <1>1, <1>4, <2>1, ScanEnds DEF scanEvidenceUnavailable
<1> QED BY <1>3, <1>4

\* What follows when the record agrees with the chain.
LEMMA ReadyStands ==
  ASSUME ScanOK, scan.pc # "idle", Quiescent(scan.q), NEW c \in ChainLocks, c.landed,
         chain[scan.q].landed,
         \A b \in Actions : c.settled[b] = chain[scan.q].settled[b],
         NEW exact, exact.state = "settled" <=> \A a \in Actions : c.settled[a]
  PROVE  LET next == Ready(exact, c)
         IN  /\ ScanTyped(next) /\ (next.pc # "idle" => Stands(next))
             /\ next.q \in {scan.q, NoRfq} /\ next.pc \in {"idle", "submit"}
<1> DEFINE next == Ready(exact, c)
           s == [Done EXCEPT !.pc = "submit", !.q = scan.q, !.chain = c]
<1>1. /\ ScanTyped(Done) /\ Done.pc = "idle" /\ Done.q = NoRfq /\ Done \in Scans
      /\ scan.q \in Rfqs
  BY DoneRests, ScanAt DEF ScanTyped
<1>2. next = Done \/ (next = s /\ exact.state # "settled")
  BY DEF Ready
<1> HIDE DEF Done, next
<1>3. /\ s \in Scans /\ s.pc = "submit" /\ s.q = scan.q /\ s.chain = c /\ s.lock = Done.lock
      /\ AttemptNamed(s.lock)
  BY <1>1 DEF Scans, ScanTyped
<1> HIDE DEF s
<1>4. ScanTyped(s)
  BY <1>1, <1>3, LocksAssumption DEF ScanTyped
<1>5. exact.state # "settled" => Stands(s)
  BY <1>3 DEF Stands, Copied
<1>6. /\ ScanTyped(next) /\ (next.pc # "idle" => Stands(next))
      /\ next.q \in {scan.q, NoRfq} /\ next.pc \in {"idle", "submit"}
  BY <1>1, <1>2, <1>3, <1>4, <1>5
<1> QED BY <1>6 DEF next

LEMMA ScanApplyKeeps ==
  ASSUME LockInv, NEW ok \in BOOLEAN, scanApply(ok)
  PROVE  LockInv'
<1> DEFINE q == scan.q
           c == scan.chain
           open == c.landed /\ \E a \in Actions : ~c.settled[a]
           candidate == [scan.lock EXCEPT !.ticket =
                           @ \/ (open /\ priorLockState(scan.lock, q, scan.at) = "locking")]
           exact == lockStateFromChain(candidate, q, c, scan.at)
<1>1. scan.pc = "apply"
  BY DEF scanApply
<1>2. /\ q \in Rfqs /\ scan.lock \in StoredLockRecord /\ c \in ChainLocks /\ Stands(scan)
      /\ RecordsOK /\ ScanOK
  BY <1>1, ScanAt DEF LockInv
<1>3. /\ Quiescent(q) /\ (c.landed => chain[q].landed)
      /\ \A b \in Actions : c.settled[b] = chain[q].settled[b]
  BY <1>1, <1>2 DEF Stands
<1>4. candidate \in StoredLockRecord /\ candidate.signed = scan.lock.signed
  BY <1>2 DEF StoredLockRecord
<1>5. \/ ScanWrites(Failed(q, scan.at, "reconcile-pending", FALSE), Done, ok)
      \/ ScanWrites(Quarantined(q, scan.at), Done, ok)
      \/ BoundTo(candidate, c) /\ ScanWrites(Replaced(q, exact), Ready(exact, c), ok)
  BY DEF scanApply
<1> HIDE DEF candidate
<1>6. /\ RecordOK(q, exact) /\ exact.state # "absent"
      /\ exact.state = "settled" <=> \A a \in Actions : c.settled[a]
  BY <1>1, <1>2, <1>3, <1>4, RebuiltDraft DEF Copied
<1> HIDE DEF exact
<1>7. CASE ScanWrites(Failed(q, scan.at, "reconcile-pending", FALSE), Done, ok)
  <2>1. PICK d : /\ Failed(q, scan.at, "reconcile-pending", FALSE) = [locks EXCEPT ![q] = d]
                 /\ Drafted(q, d)
    BY <1>2, FailedDraft
  <2> QED BY <1>1, <1>7, <2>1, ScanEnds
<1>8. CASE ScanWrites(Quarantined(q, scan.at), Done, ok)
  <2>1. PICK d : Quarantined(q, scan.at) = [locks EXCEPT ![q] = d] /\ Drafted(q, d)
    BY <1>2, QuarantinedDraft
  <2> QED BY <1>1, <1>8, <2>1, ScanEnds
<1>9. CASE BoundTo(candidate, c) /\ ScanWrites(Replaced(q, exact), Ready(exact, c), ok)
  <2> DEFINE next == Ready(exact, c)
  <2>1. PICK d : Replaced(q, exact) = [locks EXCEPT ![q] = d] /\ Drafted(q, d)
    BY <1>2, <1>6, ReplacedDraft
  <2>2. /\ ScanTyped(next) /\ (next.pc # "idle" => Stands(next))
        /\ next.q \in {q, NoRfq} /\ next.pc \in {"idle", "submit"}
    <3>1. c.landed
      BY <1>9 DEF BoundTo
    <3> QED BY <1>1, <1>2, <1>3, <1>6, <3>1, ReadyStands
  <2>3. ScanWrites(Replaced(q, exact), next, ok)
    BY <1>9
  <2> HIDE DEF next
  <2> QED BY <1>2, <2>1, <2>2, <2>3, ScanWriteKeeps DEF Drafted, Copied
<1> QED BY <1>5, <1>7, <1>8, <1>9

LEMMA ScanResolveKeeps ==
  ASSUME LockInv, NEW ok \in BOOLEAN, scanResolve(ok)
  PROVE  LockInv'
<1> DEFINE q == scan.q
           c == scan.chain
           a == scan.lock.attempt.action
           exact == lockStateFromChain(scan.lock, q, c, scan.at)
<1>1. scan.pc = "resolve"
  BY DEF scanResolve
<1>2. /\ q \in Rfqs /\ scan.lock \in StoredLockRecord /\ c \in ChainLocks /\ Stands(scan)
      /\ RecordsOK /\ ScanOK
  BY <1>1, ScanAt DEF LockInv
<1>3. /\ a \in Actions /\ (c.landed => chain[q].landed)
      /\ \A b \in Actions : c.settled[b] => chain[q].settled[b]
      /\ \A b \in Actions \ {a} : c.settled[b] = chain[q].settled[b]
      /\ \A b \in Actions : Outstanding(q, b) => b = a
      /\ scan.receipt = "REVERTED" => Quiescent(q)
  BY <1>1, <1>2 DEF Stands
<1>4. \/ ScanWrites(Quarantined(q, scan.at), Done, ok)
      \/ /\ BoundTo(scan.lock, c) /\ AttemptOver(scan.lock, c, scan.receipt)
         /\ \/ scan.receipt = "REVERTED" /\ ScanWrites(Replaced(q, exact), Done, ok)
            \/ scan.receipt # "REVERTED" /\ ScanWrites(Replaced(q, exact), Ready(exact, c), ok)
      \/ ScanWrites(Failed(q, scan.at, "settlement-unknown", FALSE), Done, ok)
  BY DEF scanResolve
<1>5. CASE ScanWrites(Quarantined(q, scan.at), Done, ok)
  <2>1. PICK d : Quarantined(q, scan.at) = [locks EXCEPT ![q] = d] /\ Drafted(q, d)
    BY <1>2, QuarantinedDraft
  <2> QED BY <1>1, <1>5, <2>1, ScanEnds
<1>6. CASE ScanWrites(Failed(q, scan.at, "settlement-unknown", FALSE), Done, ok)
  <2>1. PICK d : /\ Failed(q, scan.at, "settlement-unknown", FALSE) = [locks EXCEPT ![q] = d]
                 /\ Drafted(q, d)
    BY <1>2, FailedDraft
  <2> QED BY <1>1, <1>6, <2>1, ScanEnds
<1>7. ASSUME BoundTo(scan.lock, c), AttemptOver(scan.lock, c, scan.receipt),
             \/ scan.receipt = "REVERTED" /\ ScanWrites(Replaced(q, exact), Done, ok)
             \/ scan.receipt # "REVERTED" /\ ScanWrites(Replaced(q, exact), Ready(exact, c), ok)
      PROVE  LockInv'
  <2>1. c.settled[a] \/ scan.receipt = "REVERTED"
    BY <1>7 DEF AttemptOver
  <2>2. Quiescent(q)
    BY <1>3, <2>1 DEF Quiescent, Outstanding
  <2>3. /\ RecordOK(q, exact) /\ exact.state # "absent"
        /\ exact.state = "settled" <=> \A b \in Actions : c.settled[b]
    BY <1>1, <1>2, <1>3, <2>2, RebuiltDraft DEF Copied
  <2> HIDE DEF exact
  <2>4. PICK d : Replaced(q, exact) = [locks EXCEPT ![q] = d] /\ Drafted(q, d)
    BY <1>2, <2>3, ReplacedDraft
  <2>5. CASE ScanWrites(Replaced(q, exact), Done, ok)
    BY <1>1, <2>4, <2>5, ScanEnds
  <2>6. CASE scan.receipt # "REVERTED" /\ ScanWrites(Replaced(q, exact), Ready(exact, c), ok)
    <3> DEFINE next == Ready(exact, c)
    <3>1. \A b \in Actions : c.settled[b] = chain[q].settled[b]
      <4>1. c.settled[a] = TRUE /\ chain[q].settled[a] = TRUE
        <5>1. c.settled \in [Actions -> BOOLEAN] /\ chain[q].settled \in [Actions -> BOOLEAN]
          BY <1>2 DEF ChainLocks, LockInv, WorldOK
        <5> QED BY <1>3, <2>1, <2>6, <5>1
      <4> QED BY <1>3, <4>1
    <3>2. c.landed /\ chain[q].landed
      BY <1>3, <1>7 DEF BoundTo
    <3>3. /\ ScanTyped(next) /\ (next.pc # "idle" => Stands(next))
          /\ next.q \in {q, NoRfq} /\ next.pc \in {"idle", "submit"}
      BY <1>1, <1>2, <2>2, <2>3, <3>1, <3>2, ReadyStands
    <3>4. ScanWrites(Replaced(q, exact), next, ok)
      BY <2>6
    <3> HIDE DEF next
    <3> QED BY <1>2, <2>4, <3>3, <3>4, ScanWriteKeeps DEF Drafted, Copied
  <2> QED BY <1>7, <2>5, <2>6
<1> QED BY <1>4, <1>5, <1>6, <1>7

\* The attempt that is about to be submitted is on record, and the side it
\* settles is neither settled nor out.
LEMMA ScanSubmitKeeps ==
  ASSUME LockInv, NEW ok \in BOOLEAN, scanSubmit(ok)
  PROVE  LockInv'
<1> DEFINE q == scan.q
           action == IF scan.chain.settled["proceeds"] THEN "release" ELSE "proceeds"
           n == locks[q].count + 1
           p == priorLockState(locks[q], q, scan.at)
           attempt == [action |-> action, n |-> n, hash |-> FALSE]
           pending == [locks[q] EXCEPT !.state = "settlement-unknown", !.prior = p,
                                       !.failures = 0, !.count = n, !.attempt = attempt]
           next == [Done EXCEPT !.pc = "settle", !.q = q, !.lock = pending]
<1>1. scan.pc = "submit"
  BY DEF scanSubmit
<1>2. /\ q \in Rfqs /\ scan.chain \in ChainLocks /\ Stands(scan)
      /\ RecordsOK /\ ScanOK /\ WorldOK
  BY <1>1, ScanAt DEF LockInv
<1>3. /\ Quiescent(q) /\ chain[q].landed
      /\ \A b \in Actions : scan.chain.settled[b] = chain[q].settled[b]
      /\ \E b \in Actions : ~scan.chain.settled[b]
  BY <1>1, <1>2 DEF Stands
<1>4. action \in Actions /\ ~chain[q].settled[action] /\ settleCalls[q][action] = 0
  <2>1. action \in Actions /\ ~chain[q].settled[action]
    BY <1>3 DEF Actions
  <2>2. settleCalls[q][action] \in Nat
    BY <1>2, <2>1 DEF WorldOK
  <2> HIDE DEF action
  <2> QED BY <1>3, <2>1, <2>2 DEF Quiescent, Outstanding
<1>5. \/ Live(locks[q]) /\ ScanWrites([locks EXCEPT ![q] = pending], next, ok)
      \/ ScanWrites(locks, Done, ok)
  BY DEF scanSubmit
<1>6. locks[q] \in StoredLockRecord /\ RecordOK(q, locks[q])
  BY <1>2 DEF RecordsOK, RecordOK
<1>7. /\ n \in Nat /\ p \in PriorStates /\ "settlement-unknown" \in LockStates
      /\ attempt \in [action: Actions \cup {"none"}, n: Nat, hash: BOOLEAN]
      /\ attempt.action = action
  BY <1>4, <1>6, PriorTyped DEF StoredLockRecord, LockStates
<1> HIDE DEF attempt, n, p, action
<1>8. /\ pending \in StoredLockRecord /\ pending.state = "settlement-unknown"
      /\ pending.attempt = attempt /\ pending.signed = locks[q].signed
  BY <1>6, <1>7 DEF StoredLockRecord
<1> HIDE DEF pending
<1>9. attempt.action # "none"
  BY <1>4, <1>7, NoAttemptTyped
<1>10. RecordOK(q, pending)
  <2>1. Canonical(pending) /\ AttemptNamed(pending)
    BY <1>8, <1>9, NoAttemptTyped DEF Canonical, AttemptNamed
  <2> QED BY <1>1, <1>3, <1>6, <1>8, <2>1 DEF RecordOK, Quiescent
<1>11. /\ ScanTyped(Done) /\ Done \in Scans /\ Done.pc = "idle"
  BY <1>2, DoneRests DEF ScanTyped
<1>12. CASE Live(locks[q]) /\ ScanWrites([locks EXCEPT ![q] = pending], next, ok)
  <2> HIDE DEF Done
  <2>1. next \in Scans /\ next.pc = "settle" /\ next.q = q /\ next.lock = pending
    BY <1>2, <1>8, <1>11 DEF Scans
  <2>2. ScanWrites([locks EXCEPT ![q] = pending], next, ok)
    BY <1>12
  <2> HIDE DEF next
  <2>3. ScanTyped(next)
    BY <1>2, <1>8, <1>9, <2>1, LocksAssumption DEF ScanTyped, AttemptNamed
  <2>4. Stands(next)
    BY <1>3, <1>4, <1>7, <1>8, <2>1 DEF Stands, Copied
  <2>5. locks[q].state # "absent" => pending.state # "absent"
    BY <1>8
  <2> QED BY <1>2, <1>10, <2>1, <2>2, <2>3, <2>4, <2>5, ScanWriteKeeps DEF Copied
<1>13. CASE ScanWrites(locks, Done, ok)
  BY <1>1, <1>2, <1>13, SameDraft, ScanEnds
<1> QED BY <1>5, <1>12, <1>13

\* The hash of the attempt is remembered (#persistSettlementHash).
LEMMA ScanHashKeeps ==
  ASSUME LockInv, NEW ok \in BOOLEAN, scanHash(ok)
  PROVE  LockInv'
<1> DEFINE q == scan.q
           hashed == [locks[q] EXCEPT !.attempt.hash = TRUE]
           awaits == Awaits(locks[q], scan.lock.attempt)
           d == IF awaits THEN hashed ELSE locks[q]
           draft == IF awaits THEN [locks EXCEPT ![q] = hashed] ELSE locks
           next == IF scan.pc = "hashed" THEN [scan EXCEPT !.pc = "unknown"]
                   ELSE IF awaits THEN [scan EXCEPT !.pc = "evidence", !.lock = hashed]
                   ELSE Done
<1>1. scan.pc \in {"landed", "hashed"} /\ ScanWrites(draft, next, ok)
  BY DEF scanHash
<1>2. /\ scan \in Scans /\ q \in Rfqs /\ scan.lock \in StoredLockRecord /\ Stands(scan)
      /\ AttemptNamed(scan.lock) /\ RecordsOK /\ ScanOK
  BY <1>1, ScanAt DEF LockInv
<1>3. locks[q] \in StoredLockRecord /\ RecordOK(q, locks[q])
  BY <1>2 DEF RecordsOK, RecordOK
<1>4. /\ scan.lock.attempt.action \in Actions
      /\ \A b \in Actions : Outstanding(q, b) => b = scan.lock.attempt.action
  BY <1>1, <1>2 DEF Stands
<1>5. /\ hashed \in StoredLockRecord /\ hashed.state = locks[q].state
      /\ hashed.signed = locks[q].signed /\ hashed.attempt.action = locks[q].attempt.action
  BY <1>3 DEF StoredLockRecord
<1> HIDE DEF hashed
<1>6. awaits => /\ hashed.attempt.action = scan.lock.attempt.action
                /\ hashed.attempt.action # "none" /\ hashed.state # "absent"
  BY <1>4, <1>5, NoAttemptTyped DEF Awaits
<1>7. awaits => RecordOK(q, hashed)
  <2> SUFFICES ASSUME awaits PROVE RecordOK(q, hashed)
    OBVIOUS
  <2>1. Canonical(hashed) /\ AttemptNamed(hashed)
    BY <1>6, NoAttemptTyped DEF Canonical, AttemptNamed
  <2> QED BY <1>3, <1>5, <2>1 DEF RecordOK
<1>8. RecordOK(q, d) /\ (locks[q].state # "absent" => d.state # "absent")
  BY <1>3, <1>6, <1>7
<1>9. draft = [locks EXCEPT ![q] = d]
  BY <1>2, SameDraft
<1>10. ScanTyped(Done) /\ Done.pc = "idle" /\ Done.q = NoRfq
  BY <1>2, DoneRests
<1> HIDE DEF Done, awaits
<1>11. /\ ScanTyped(next) /\ (next.pc # "idle" => Stands(next)) /\ next.q \in {q, NoRfq}
       /\ next.pc # "settle" /\ (next.pc \in Copied /\ d.signed => next.lock.signed)
  <2>1. CASE scan.pc = "hashed"
    <3>1. /\ next \in Scans /\ next.pc = "unknown" /\ next.q = q /\ next.lock = scan.lock
      BY <1>2, <2>1 DEF Scans
    <3> HIDE DEF next
    <3> QED BY <1>2, <1>4, <3>1, LocksAssumption DEF ScanTyped, Stands, Copied
  <2>2. CASE scan.pc = "landed" /\ awaits
    <3>1. /\ next \in Scans /\ next.pc = "evidence" /\ next.q = q /\ next.lock = hashed
      BY <1>2, <1>5, <2>2 DEF Scans
    <3>2. d = hashed
      BY <2>2
    <3> HIDE DEF next, d
    <3>3. ScanTyped(next)
      BY <1>2, <1>6, <2>2, <3>1, LocksAssumption DEF ScanTyped, AttemptNamed
    <3>4. hashed.signed => chain[q].landed
      BY <1>3, <1>5 DEF RecordOK
    <3>5. Stands(next)
      BY <1>4, <1>6, <2>2, <3>1, <3>4 DEF Stands, Copied
    <3> QED BY <3>1, <3>2, <3>3, <3>5
  <2>3. CASE scan.pc = "landed" /\ ~awaits
    BY <1>10, <2>3 DEF Copied
  <2> QED BY <1>1, <2>1, <2>2, <2>3
<1>12. ScanWrites(draft, next, ok)
  BY <1>1
<1> HIDE DEF next, draft, d
<1> QED BY <1>2, <1>8, <1>9, <1>11, <1>12, ScanWriteKeeps

\* #resetKnownRevertedSettlement.
LEMMA ScanResetKeeps ==
  ASSUME LockInv, NEW ok \in BOOLEAN, scanReset(ok)
  PROVE  LockInv'
<1> DEFINE q == scan.q
           c == scan.chain
           exact == lockStateFromChain(scan.lock, q, c, scan.at)
<1>1. scan.pc = "reset"
  BY DEF scanReset
<1>2. /\ q \in Rfqs /\ scan.lock \in StoredLockRecord /\ c \in ChainLocks /\ Stands(scan)
      /\ RecordsOK
  BY <1>1, ScanAt DEF LockInv
<1>3. Quiescent(q) /\ \A b \in Actions : c.settled[b] => chain[q].settled[b]
  BY <1>1, <1>2 DEF Stands
<1>4. \E d : Failed(q, scan.at, "reconcile-pending", TRUE) = [locks EXCEPT ![q] = d] /\ Drafted(q, d)
  BY <1>1, <1>2, <1>3, FailedDraft
<1>5. \E d : Quarantined(q, scan.at) = [locks EXCEPT ![q] = d] /\ Drafted(q, d)
  BY <1>2, QuarantinedDraft
<1>6. \E d : Replaced(q, exact) = [locks EXCEPT ![q] = d] /\ Drafted(q, d)
  <2>1. RecordOK(q, exact) /\ exact.state # "absent"
    BY <1>1, <1>2, <1>3, RebuiltDraft DEF Copied
  <2> HIDE DEF exact
  <2> QED BY <1>2, <2>1, ReplacedDraft
<1>7. \/ ScanWrites(Failed(q, scan.at, "reconcile-pending", TRUE), Done, ok)
      \/ ScanWrites(Quarantined(q, scan.at), Done, ok)
      \/ ScanWrites(Replaced(q, exact), Done, ok)
  BY DEF scanReset
<1> HIDE DEF exact
<1>8. PICK d : ScanWrites([locks EXCEPT ![q] = d], Done, ok) /\ Drafted(q, d)
  BY <1>4, <1>5, <1>6, <1>7
<1> QED BY <1>1, <1>8, ScanEnds

-----------------------------------------------------------------------------
(* The steps of the scan that read *)

LEMMA ScanGoes ==
  ASSUME LockInv, UNCHANGED <<store, clock, world, quoting, taking, quoted>>,
         NEW next, scan' = next, todo' \subseteq Rfqs, ScanTyped(next),
         next.pc # "idle" => Stands(next), next.pc # "settle",
         \A p \in Rfqs : clock < LockExpiry[p] /\ (p \in todo' \/ next.q = p) =>
           /\ locks[p].state # "absent" /\ quoting[p].pc = "idle"
           /\ next.q = p /\ next.pc \in Copied /\ locks[p].signed => next.lock.signed
  PROVE  LockInv'
<1>1. UNCHANGED <<locks, walLocks, status, held, clock, chain, lockCalls, settleCalls>>
  BY DEF store, world
<1>2. clock \in Nat
  BY DEF LockInv, HeldOK
<1>3. \A p \in Rfqs : ContextKeeps(p)
  BY <1>1, <1>2, ContextOf
<1>4. RecordsOK'
  BY <1>1, <1>3, KeptRecords DEF LockInv, RecordsOK
<1>5. HeldOK' /\ WorldOK' /\ QuoteOK' /\ TakingOK'
  BY <1>1, WorldKept, QuoteKept, TakingKept DEF LockInv, HeldOK
<1>6. ScanOK'
  BY <1>1, ScanPlaced
<1>7. EarlyOK'
  BY <1>1 DEF LockInv, EarlyOK, Early
<1> QED BY <1>4, <1>5, <1>6, <1>7 DEF LockInv

\* A scan that stays at its lock, or ends.
LEMMA ScanMoveKeeps ==
  ASSUME LockInv, scan.pc # "idle", NEW next, ScanMoves(next), ScanTyped(next),
         next.pc # "idle" => Stands(next), next.pc # "settle", next.q \in {scan.q, NoRfq},
         next.pc \in Copied =>
           \/ scan.pc \in Copied /\ next.lock = scan.lock
           \/ next.lock = locks[scan.q]
  PROVE  LockInv'
<1>1. /\ UNCHANGED <<store, clock, world, quoting, taking, quoted>> /\ scan' = next
      /\ todo' \subseteq Rfqs
  BY DEF ScanMoves, LockInv, ScanOK
<1>2. scan.q \in Rfqs
  BY ScanAt DEF LockInv
<1>3. ASSUME NEW p \in Rfqs, clock < LockExpiry[p], p \in todo' \/ next.q = p
      PROVE  /\ locks[p].state # "absent" /\ quoting[p].pc = "idle"
             /\ next.q = p /\ next.pc \in Copied /\ locks[p].signed => next.lock.signed
  <2>1. p \in todo \/ scan.q = p
    BY <1>3, LocksAssumption DEF ScanMoves
  <2>2. locks[p].state # "absent" /\ quoting[p].pc = "idle"
    BY <1>3, <2>1 DEF LockInv, EarlyOK, Early
  <2>3. next.q = p /\ next.pc \in Copied /\ locks[p].signed => next.lock.signed
    BY <1>3, LocksAssumption DEF LockInv, EarlyOK, Early
  <2> QED BY <2>2, <2>3
<1> QED BY <1>1, <1>3, ScanGoes

LEMMA ScanReadKeeps ==
  ASSUME LockInv, scanRead
  PROVE  LockInv'
<1> DEFINE next == [scan EXCEPT !.pc = "apply", !.chain = chain[scan.q]]
<1>1. scan.pc = "read" /\ ScanMoves(next)
  BY DEF scanRead
<1>2. scan \in Scans /\ scan.q \in Rfqs /\ Stands(scan) /\ AttemptNamed(scan.lock)
  BY <1>1, ScanAt DEF LockInv
<1>3. chain[scan.q] \in ChainLocks
  BY <1>2 DEF LockInv, WorldOK
<1>4. /\ next \in Scans /\ next.pc = "apply" /\ next.q = scan.q /\ next.lock = scan.lock
      /\ next.chain = chain[scan.q]
  BY <1>2, <1>3 DEF Scans
<1> HIDE DEF next
<1>5. ScanTyped(next)
  BY <1>2, <1>4, LocksAssumption DEF ScanTyped
<1>6. Stands(next)
  BY <1>1, <1>2, <1>4 DEF Stands, Copied
<1> QED BY <1>1, <1>4, <1>5, <1>6, ScanMoveKeeps DEF Copied

LEMMA ScanEvidenceKeeps ==
  ASSUME LockInv, NEW receipt \in {"none", "SUCCEEDED", "REVERTED"}, scanEvidence(receipt)
  PROVE  LockInv'
<1> DEFINE next == [scan EXCEPT !.pc = "resolve", !.chain = chain[scan.q], !.receipt = receipt]
<1>1. /\ scan.pc = "evidence" /\ receipt \in Receipts(scan.q, scan.lock.attempt)
      /\ ScanMoves(next)
  BY DEF scanEvidence
<1>2. scan \in Scans /\ scan.q \in Rfqs /\ Stands(scan) /\ AttemptNamed(scan.lock)
  BY <1>1, ScanAt DEF LockInv
<1>3. chain[scan.q] \in ChainLocks
  BY <1>2 DEF LockInv, WorldOK
<1>4. /\ next \in Scans /\ next.pc = "resolve" /\ next.q = scan.q /\ next.lock = scan.lock
      /\ next.chain = chain[scan.q] /\ next.receipt = receipt
  BY <1>2, <1>3 DEF Scans
<1>5. receipt = "REVERTED" => Quiescent(scan.q)
  BY <1>1, <1>2 DEF Receipts, Stands, Quiescent, Outstanding
<1> HIDE DEF next
<1>6. ScanTyped(next)
  BY <1>2, <1>4, LocksAssumption DEF ScanTyped
<1>7. Stands(next)
  BY <1>1, <1>2, <1>4, <1>5 DEF Stands, Copied
<1> QED BY <1>1, <1>4, <1>6, <1>7, ScanMoveKeeps DEF Copied

LEMMA WalletSettleReturnsKeeps ==
  ASSUME LockInv, NEW pc \in {"landed", "reverted", "hashed", "unknown"}, walletSettleReturns(pc)
  PROVE  LockInv'
<1> DEFINE next == [scan EXCEPT !.pc = pc]
<1>1. /\ scan.pc = "wait" /\ ScanMoves(next)
      /\ pc = "reverted" => settleCalls[scan.q][scan.lock.attempt.action] = 0
  BY DEF walletSettleReturns
<1>2. scan \in Scans /\ scan.q \in Rfqs /\ Stands(scan) /\ AttemptNamed(scan.lock)
  BY <1>1, ScanAt DEF LockInv
<1>3. /\ next \in Scans /\ next.pc = pc /\ next.q = scan.q /\ next.lock = scan.lock
  BY <1>2 DEF Scans
<1>4. pc = "reverted" => Quiescent(scan.q)
  BY <1>1, <1>2 DEF Stands, Quiescent, Outstanding
<1> HIDE DEF next
<1>5. ScanTyped(next)
  BY <1>2, <1>3, LocksAssumption DEF ScanTyped
<1>6. Stands(next)
  BY <1>1, <1>2, <1>3, <1>4 DEF Stands, Copied
<1> QED BY <1>1, <1>3, <1>5, <1>6, ScanMoveKeeps DEF Copied

LEMMA ScanRevertedKeeps ==
  ASSUME LockInv, scanReverted
  PROVE  LockInv'
<1> DEFINE q == scan.q
           next == [scan EXCEPT !.pc = "reset", !.lock = locks[q], !.chain = chain[q]]
<1>1. /\ scan.pc = "reverted"
      /\ ScanMoves(IF locks[q].attempt = NoAttempt THEN Done ELSE next)
  BY DEF scanReverted
<1>2. scan \in Scans /\ q \in Rfqs /\ Stands(scan) /\ ScanOK
  BY <1>1, ScanAt DEF LockInv
<1>3. /\ chain[q] \in ChainLocks /\ locks[q] \in StoredLockRecord /\ AttemptNamed(locks[q])
      /\ locks[q].signed => chain[q].landed
  BY <1>2 DEF LockInv, WorldOK, RecordsOK, RecordOK
<1>4. CASE locks[q].attempt = NoAttempt
  <2>1. ScanTyped(Done) /\ Done.pc = "idle" /\ Done.q = NoRfq
    BY <1>2, DoneRests
  <2> HIDE DEF Done
  <2> QED BY <1>1, <1>4, <2>1, ScanMoveKeeps DEF Copied
<1>5. CASE locks[q].attempt # NoAttempt
  <2>1. locks[q].attempt.action \in Actions
    BY <1>3, <1>5, LockFields DEF AttemptNamed
  <2>2. /\ next \in Scans /\ next.pc = "reset" /\ next.q = q /\ next.lock = locks[q]
        /\ next.chain = chain[q]
    BY <1>2, <1>3 DEF Scans
  <2>3. ScanMoves(next)
    BY <1>1, <1>5
  <2> HIDE DEF next
  <2>4. ScanTyped(next)
    BY <1>2, <1>3, <2>2, LocksAssumption DEF ScanTyped
  <2>5. Stands(next)
    BY <1>1, <1>2, <1>3, <2>1, <2>2 DEF Stands, Copied
  <2> QED BY <1>1, <2>2, <2>3, <2>4, <2>5, ScanMoveKeeps
<1> QED BY <1>4, <1>5

\* #refreshLock takes its copy.
LEMMA RefreshLockKeeps ==
  ASSUME LockInv, NEW q \in Rfqs, refreshLock(q)
  PROVE  LockInv'
<1> DEFINE next == [scan EXCEPT !.pc = IF locks[q].attempt = NoAttempt THEN "read" ELSE "evidence",
                                !.q = q, !.lock = locks[q]]
<1>1. /\ scan' = next /\ q \in todo /\ todo' = todo \ {q} /\ Live(locks[q])
      /\ scan.pc = "idle"
      /\ UNCHANGED <<store, clock, world, quoting, taking, quoted>>
  BY DEF refreshLock
<1>2. scan \in Scans /\ scan.q = NoRfq /\ todo \subseteq Rfqs
  BY <1>1 DEF LockInv, ScanOK, ScanTyped
<1>3. locks[q] \in StoredLockRecord /\ RecordOK(q, locks[q])
  BY DEF LockInv, RecordsOK, RecordOK
<1>4. /\ next \in Scans /\ next.q = q /\ next.lock = locks[q]
      /\ next.pc = IF locks[q].attempt = NoAttempt THEN "read" ELSE "evidence"
  BY <1>2, <1>3 DEF Scans
<1> HIDE DEF next
<1>5. ScanTyped(next)
  BY <1>3, <1>4, LocksAssumption DEF ScanTyped, RecordOK
<1>6. Stands(next)
  <2>1. locks[q].signed => chain[q].landed
    BY <1>3 DEF RecordOK
  <2>2. CASE locks[q].attempt = NoAttempt
    <3>1. Quiescent(q)
      BY <1>3, <2>2, NoAttemptTyped DEF RecordOK, Quiescent
    <3> QED BY <1>4, <2>1, <2>2, <3>1 DEF Stands, Copied
  <2>3. CASE locks[q].attempt # NoAttempt
    <3>1. locks[q].attempt.action \in Actions
      BY <1>3, <2>3, LockFields DEF RecordOK, AttemptNamed
    <3>2. \A b \in Actions : Outstanding(q, b) => b = locks[q].attempt.action
      BY <1>3 DEF RecordOK
    <3> QED BY <1>4, <2>1, <2>3, <3>1, <3>2 DEF Stands, Copied
  <2> QED BY <2>2, <2>3
<1>7. \A p \in Rfqs : clock < LockExpiry[p] /\ (p \in todo' \/ next.q = p) =>
        /\ locks[p].state # "absent" /\ quoting[p].pc = "idle"
        /\ next.q = p /\ next.pc \in Copied /\ locks[p].signed => next.lock.signed
  BY <1>1, <1>4 DEF LockInv, EarlyOK, Early
<1>8. next.pc # "settle" /\ todo' \subseteq Rfqs
  BY <1>1, <1>2, <1>4
<1> QED BY <1>1, <1>5, <1>6, <1>7, <1>8, ScanGoes

LEMMA RefreshSkippedKeeps ==
  ASSUME LockInv, NEW q \in Rfqs, refreshSkipped(q)
  PROVE  LockInv'
<1>1. /\ scan' = scan /\ todo' = todo \ {q} /\ scan.pc = "idle"
      /\ UNCHANGED <<store, clock, world, quoting, taking, quoted>>
  BY DEF refreshSkipped
<1>2. ScanTyped(scan) /\ todo \subseteq Rfqs /\ scan.q = NoRfq
  BY <1>1 DEF LockInv, ScanOK, ScanTyped
<1>3. \A p \in Rfqs : clock < LockExpiry[p] /\ (p \in todo' \/ scan.q = p) =>
        /\ locks[p].state # "absent" /\ quoting[p].pc = "idle"
        /\ scan.q = p /\ scan.pc \in Copied /\ locks[p].signed => scan.lock.signed
  BY <1>1, <1>2, LocksAssumption DEF LockInv, EarlyOK, Early
<1> QED BY <1>1, <1>2, <1>3, ScanGoes

\* The list of a scan names no lock a quote is still at before it expires.
LEMMA SettleExpiredKeeps ==
  ASSUME LockInv, NEW at \in Stamps, NEW due \in SUBSET Rfqs, settleExpiredLocks(at, due)
  PROVE  LockInv'
<1> DEFINE next == [NotScanning EXCEPT !.at = at]
<1>1. /\ scan' = next /\ todo' = due
      /\ UNCHANGED <<store, clock, world, quoting, taking, quoted>>
  BY DEF settleExpiredLocks
<1>2. at \in Nat /\ at <= clock /\ clock \in Nat
  BY DEF Stamps, LockInv, HeldOK
<1>3. ScanTyped(next) /\ next.pc = "idle" /\ next.q = NoRfq
  BY <1>2, Resting
<1> HIDE DEF next
<1>4. ASSUME NEW p \in Rfqs, clock < LockExpiry[p], p \in todo' \/ next.q = p
      PROVE  /\ locks[p].state # "absent" /\ quoting[p].pc = "idle"
             /\ next.q = p /\ next.pc \in Copied /\ locks[p].signed => next.lock.signed
  <2>1. p \in due
    BY <1>1, <1>3, <1>4, LocksAssumption
  <2>2. /\ Live(locks[p])
        /\ locks[p].state \in {"reconcile-pending", "settlement-unknown"} \/ LockExpiry[p] <= at
    BY <2>1 DEF settleExpiredLocks
  <2>3. locks[p].state \in {"reconcile-pending", "settlement-unknown"}
    BY <1>2, <1>4, <2>2, WalletAssumption
  <2>4. Early(p)
    BY DEF LockInv, EarlyOK
  <2> QED BY <1>3, <1>4, <2>3, <2>4, LocksAssumption DEF Early, Copied
<1> QED BY <1>1, <1>3, <1>4, ScanGoes

LEMMA RecoveredKeeps ==
  ASSUME LockInv, recovered
  PROVE  LockInv'
<1>1. /\ UNCHANGED <<locks, walLocks, held, clock, chain, lockCalls, settleCalls,
                     quoting, scan, taking, todo, quoted>>
      /\ status = "refreshing" /\ status' = "serving" /\ clock \in Nat
  BY DEF recovered, world, lockProcs, LockInv, HeldOK
<1>2. \A p \in Rfqs : ContextKeeps(p)
  BY <1>1, ContextOf
<1>3. RecordsOK'
  BY <1>1, <1>2, KeptRecords DEF LockInv, RecordsOK
<1>4. HeldOK' /\ WorldOK' /\ QuoteOK' /\ TakingOK' /\ ScanOK' /\ EarlyOK'
  BY <1>1, WorldKept, QuoteKept, TakingKept, ScanKept DEF LockInv, HeldOK, EarlyOK, Early
<1> QED BY <1>3, <1>4 DEF LockInv

\* The attempt is submitted: it is on record, and nothing else is out.
LEMMA WalletSettleKeeps ==
  ASSUME LockInv, walletSettle
  PROVE  LockInv'
<1> DEFINE q == scan.q
           a == scan.lock.attempt.action
<1>1. /\ scan.pc = "settle"
      /\ UNCHANGED <<store, clock, chain, lockCalls, quoting, taking, todo, quoted>>
      /\ UNCHANGED <<locks, walLocks, status, held>>
  BY DEF walletSettle, store
<1>2. /\ scan \in Scans /\ q \in Rfqs /\ Stands(scan) /\ AttemptNamed(scan.lock)
  BY <1>1, ScanAt DEF LockInv
<1>3. a \in Actions /\ Quiescent(q) /\ chain[q].landed /\ settleCalls[q][a] = 0
  BY <1>1, <1>2 DEF Stands
<1>4. CASE UNCHANGED settleCalls /\ scan' = [scan EXCEPT !.pc = "reverted"]
  <2> DEFINE next == [scan EXCEPT !.pc = "reverted"]
  <2>1. next \in Scans /\ next.pc = "reverted" /\ next.q = q /\ next.lock = scan.lock
    BY <1>2 DEF Scans
  <2>2. ScanMoves(next)
    BY <1>1, <1>4 DEF ScanMoves, walletSettle, world
  <2> HIDE DEF next
  <2>3. ScanTyped(next) /\ Stands(next)
    BY <1>2, <1>3, <2>1, LocksAssumption DEF ScanTyped, Stands, Copied
  <2> QED BY <1>1, <2>1, <2>2, <2>3, ScanMoveKeeps DEF Copied
<1>5. CASE /\ settleCalls' = [settleCalls EXCEPT ![q][a] = @ + 1]
           /\ scan' = [scan EXCEPT !.pc = "wait"]
  <2>1. /\ settleCalls' \in [Rfqs -> [Actions -> Nat]] /\ settleCalls'[q][a] = 1
        /\ \A p \in Rfqs, b \in Actions :
             p # q \/ b # a => settleCalls'[p][b] = settleCalls[p][b]
    BY <1>2, <1>3, <1>5 DEF LockInv, WorldOK
  <2>2. \A p \in Rfqs, b \in Actions :
          Outstanding(p, b)' => Outstanding(p, b) \/ (p = q /\ b = a)
    BY <1>1, <2>1 DEF Outstanding
  <2>3. scan'.pc = "wait" /\ scan'.q = q /\ scan'.lock = scan.lock /\ scan' \in Scans
    BY <1>2, <1>5 DEF Scans
  <2>4. WorldOK'
    <3>1. ASSUME NEW p \in Rfqs
          PROVE  /\ lockCalls[p] <= 1
                 /\ chain[p].landed => lockCalls[p] = 1
                 /\ \A b \in Actions :
                      /\ settleCalls'[p][b] <= 1
                      /\ settleCalls'[p][b] = 1 => chain[p].landed
                      /\ chain[p].settled[b] => settleCalls'[p][b] = 1
      <4>1. /\ lockCalls[p] <= 1 /\ (chain[p].landed => lockCalls[p] = 1)
            /\ \A b \in Actions :
                 /\ settleCalls[p][b] <= 1
                 /\ settleCalls[p][b] = 1 => chain[p].landed
                 /\ chain[p].settled[b] => settleCalls[p][b] = 1
        BY DEF LockInv, WorldOK
      <4> QED BY <1>3, <2>1, <4>1
    <3>2. chain \in [Rfqs -> ChainLocks] /\ lockCalls \in [Rfqs -> Nat]
      BY DEF LockInv, WorldOK
    <3> QED BY <1>1, <2>1, <3>1, <3>2 DEF WorldOK
  <2>5. ASSUME NEW p \in Rfqs PROVE ContextKeeps(p)
    <3> SUFFICES ASSUME NEW rec, RecordOK(p, rec) PROVE RecordOK(p, rec)'
      BY DEF ContextKeeps
    <3>1. \A b \in Actions : Outstanding(p, b)' => rec.attempt.action = b
      BY <1>1, <2>2 DEF RecordOK
    <3> QED BY <1>1, <2>3, <3>1 DEF RecordOK
  <2>6. RecordsOK'
    BY <1>1, <2>5, KeptRecords DEF LockInv, RecordsOK
  <2>7. HeldOK' /\ QuoteOK' /\ TakingOK'
    BY <1>1, QuoteKept, TakingKept DEF LockInv, HeldOK
  <2>8. ScanOK'
    <3>1. ScanTyped(scan)' /\ todo' \subseteq Rfqs
      BY <1>1, <1>2, <2>3, LocksAssumption DEF ScanTyped, AttemptNamed, LockInv, ScanOK
    <3>2. Stands(scan)'
      <4>1. \A b \in Actions : Outstanding(scan.q, b)' => b = scan'.lock.attempt.action
        BY <1>1, <1>2, <1>3, <2>1, <2>3 DEF Quiescent, Outstanding
      <4> QED BY <1>3, <2>3, <4>1 DEF Stands, Copied
    <3> QED BY <3>1, <3>2 DEF ScanOK
  <2>9. EarlyOK'
    BY <1>1, <2>3 DEF LockInv, EarlyOK, Early, Copied
  <2> QED BY <2>4, <2>6, <2>7, <2>8, <2>9 DEF LockInv
<1> QED BY <1>4, <1>5 DEF walletSettle

LEMMA ScanNextKeeps ==
  ASSUME LockInv, ScanNext
  PROVE  LockInv'
BY SettleExpiredKeeps, RecoveredKeeps, RefreshLockKeeps, RefreshSkippedKeeps, ScanReadKeeps,
   WalletSettleKeeps, ScanRevertedKeeps, ScanEvidenceKeeps, ScanEvidenceUnavailableKeeps,
   WalletSettleReturnsKeeps, ScanUnavailableKeeps, ScanApplyKeeps, ScanResolveKeeps,
   ScanSubmitKeeps, ScanHashKeeps, ScanResetKeeps
   DEF ScanNext, ScanStep

-----------------------------------------------------------------------------
(* Operator resolution and the reconciliation of a Take *)

\* A write beside the scan, of an RFQ nobody quotes, that keeps the signature.
LEMMA AsideKeeps ==
  ASSUME LockInv, NEW q \in Rfqs, NEW d, NEW draft, NEW ok \in BOOLEAN,
         draft = [locks EXCEPT ![q] = d], lockTransaction(draft, ok),
         Drafted(q, d), d.signed = locks[q].signed,
         clock < LockExpiry[q] => quoting[q].pc = "idle",
         UNCHANGED <<world, quoting, scan, todo, quoted>>, TakingOK'
  PROVE  LockInv'
<1>1. Written(q, d, ok) /\ UNCHANGED <<chain, lockCalls, settleCalls>>
  BY TransactionWrites DEF world
<1>2. d \in StoredLockRecord /\ RecordOK(q, d) /\ clock \in Nat /\ clock' = clock
  BY <1>1 DEF Drafted, RecordOK, LockInv, HeldOK, Written
<1>3. \A p \in Rfqs : ContextKeeps(p)
  BY <1>1, <1>2, ContextOf
<1>4. RecordsOK'
  <2>1. RecordOK(q, d)'
    BY <1>2, <1>3 DEF ContextKeeps
  <2> QED BY <1>1, <1>2, <1>3, <2>1, WrittenRecords DEF LockInv
<1>5. HeldOK' /\ WorldOK' /\ QuoteOK' /\ ScanOK'
  BY <1>1, WrittenHeld, WorldKept, QuoteKept, ScanKept DEF LockInv
<1>6. ASSUME NEW p \in Rfqs PROVE Early(p)'
  <2>1. \/ locks'[p] = locks[p]
        \/ p = q /\ locks'[p] = d
    BY <1>1 DEF Written, LockInv, RecordsOK, LockTables
  <2>2. Early(p)
    BY DEF LockInv, EarlyOK
  <2>3. CASE locks'[p] = locks[p]
    BY <1>2, <2>2, <2>3 DEF Early
  <2>4. CASE p = q /\ locks'[p] = d
    BY <1>2, <2>2, <2>4 DEF Early, Drafted
  <2> QED BY <2>1, <2>3, <2>4
<1> QED BY <1>4, <1>5, <1>6 DEF LockInv, EarlyOK

LEMMA ResolveLockKeeps ==
  ASSUME LockInv, NEW q \in Rfqs, NEW at, NEW ok \in BOOLEAN, resolveLock(q, at, ok)
  PROVE  LockInv'
<1> DEFINE p == priorLockState(locks[q], q, at)
           d == [locks[q] EXCEPT !.state = "reconcile-pending", !.prior = p, !.failures = 0]
<1>1. /\ locks[q].state = "quarantined" /\ lockTransaction([locks EXCEPT ![q] = d], ok)
      /\ UNCHANGED <<world, quoting, scan, todo, quoted, taking>>
  BY DEF resolveLock, lockProcs, LockInv, RecordsOK, LockTables
<1>2. locks[q] \in StoredLockRecord /\ RecordOK(q, locks[q])
  BY DEF LockInv, RecordsOK, RecordOK
<1>3. p \in PriorStates /\ "reconcile-pending" \in LockStates
  BY <1>2, PriorTyped DEF LockStates
<1> HIDE DEF p
<1>4. /\ d \in StoredLockRecord /\ d.state = "reconcile-pending"
      /\ d.attempt = locks[q].attempt /\ d.signed = locks[q].signed
  BY <1>2, <1>3 DEF StoredLockRecord
<1> HIDE DEF d
<1>5. Drafted(q, d)
  BY <1>2, <1>4, Rewritten DEF Drafted, Canonical
<1>6. clock < LockExpiry[q] => quoting[q].pc = "idle"
  BY <1>1 DEF LockInv, EarlyOK, Early
<1>7. TakingOK'
  BY <1>1, TakingKept DEF LockInv, world
<1> QED BY <1>1, <1>4, <1>5, <1>6, <1>7, AsideKeeps

LEMMA TakeUnavailableKeeps ==
  ASSUME LockInv, NEW q \in Rfqs, NEW at, NEW ok \in BOOLEAN, takeUnavailable(q, at, ok)
  PROVE  LockInv'
<1>1. /\ q \in quoted /\ lockTransaction(Failed(q, at, "reconcile-pending", FALSE), ok)
      /\ UNCHANGED <<world, quoting, scan, todo, quoted, taking>>
  BY DEF takeUnavailable, lockProcs
<1>2. PICK d : /\ Failed(q, at, "reconcile-pending", FALSE) = [locks EXCEPT ![q] = d]
               /\ Drafted(q, d) /\ d.signed = locks[q].signed
  BY FailedDraft DEF LockInv
<1>3. clock < LockExpiry[q] => quoting[q].pc = "idle"
  BY <1>1 DEF LockInv, EarlyOK, Early
<1>4. TakingOK'
  BY <1>1, TakingKept DEF LockInv, world
<1> QED BY <1>1, <1>2, <1>3, <1>4, AsideKeeps

LEMMA NotTakingTyped == NotTaking \in Takings /\ NotTaking.pc = "idle"
BY DEF NotTaking, Takings, ChainLocks, EmptyLock, Actions

\* A reconciliation that ends leaves the others as they are.
LEMMA TakingEnds ==
  ASSUME TakingOK, NEW t \in Requests, taking' = [taking EXCEPT ![t] = NotTaking],
         UNCHANGED <<chain, quoted>>
  PROVE  TakingOK'
<1>1. taking' \in [Requests -> Takings]
  BY NotTakingTyped DEF TakingOK
<1>2. \A u \in Requests : u # t => taking'[u] = taking[u]
  BY DEF TakingOK
<1>3. taking'[t].pc = "idle"
  BY NotTakingTyped DEF TakingOK
<1> QED BY <1>1, <1>2, <1>3 DEF TakingOK

LEMMA TakeContradictedKeeps ==
  ASSUME LockInv, NEW t \in Requests, NEW ok \in BOOLEAN, takeContradicted(t, ok)
  PROVE  LockInv'
<1> DEFINE q == taking[t].q
<1>1. /\ taking[t].pc = "contradicted" /\ lockTransaction(Quarantined(q, taking[t].at), ok)
      /\ UNCHANGED <<world, quoting, scan, todo, quoted>>
      /\ taking' = [taking EXCEPT ![t] = NotTaking]
  BY DEF takeContradicted
<1>2. q \in quoted /\ q \in Rfqs
  BY <1>1 DEF LockInv, TakingOK, QuoteOK
<1>3. PICK d : /\ Quarantined(q, taking[t].at) = [locks EXCEPT ![q] = d]
               /\ Drafted(q, d) /\ d.signed = locks[q].signed
  BY <1>2, QuarantinedDraft DEF LockInv
<1>4. clock < LockExpiry[q] => quoting[q].pc = "idle"
  BY <1>2 DEF LockInv, EarlyOK, Early
<1>5. TakingOK'
  BY <1>1, TakingEnds DEF LockInv, world
<1> QED BY <1>1, <1>2, <1>3, <1>4, <1>5, AsideKeeps

\* What a Take reconciliation makes of a record: an attempt that may still
\* land stays on record.
LEMMA ReconciledDraft ==
  ASSUME LockInv, NEW q \in Rfqs, NEW request \in Takings, request.q = q,
         locks[q].state # "absent",
         \A a \in Actions : request.chain.settled[a] => chain[q].settled[a]
  PROVE  LET d == Reconciled(locks[q], request)
         IN  Drafted(q, d) /\ d.signed = locks[q].signed
<1> DEFINE lock == locks[q]
           c == request.chain
           kept == lock.attempt # NoAttempt /\ ~c.settled[lock.attempt.action]
           rebuilt == lockStateFromChain(lock, q, c, request.at)
           state == IF kept THEN lock ELSE rebuilt
           d == [state EXCEPT !.taken = c.taken, !.revision = request.revision]
<1>1. lock \in StoredLockRecord /\ RecordOK(q, lock)
  BY DEF LockInv, RecordsOK, RecordOK
<1>2. c \in ChainLocks /\ c.taken \in Nat /\ request.revision \in Nat
  BY DEF Takings, ChainLocks
<1>3. d = Reconciled(locks[q], request)
  BY DEF Reconciled
<1>4. /\ rebuilt \in StoredLockRecord
      /\ rebuilt.state \in {"settled", "expired", "taken", "open"}
      /\ rebuilt.state = "settled" <=> \A a \in Actions : c.settled[a]
      /\ rebuilt.attempt = NoAttempt /\ rebuilt.signed = lock.signed
  BY <1>1, <1>2, ChainShape
<1> HIDE DEF rebuilt
<1>5. state \in StoredLockRecord
  BY <1>1, <1>4
<1>6. /\ d \in StoredLockRecord /\ d.state = state.state /\ d.attempt = state.attempt
      /\ d.signed = state.signed
  BY <1>2, <1>5 DEF StoredLockRecord
<1> HIDE DEF d, c, lock
<1>7. CASE kept
  <2>1. RecordOK(q, d)
    BY <1>1, <1>6, <1>7 DEF RecordOK, Canonical, AttemptNamed
  <2> QED BY <1>3, <1>6, <1>7, <2>1 DEF Drafted, lock
<1>8. CASE ~kept
  <2>1. lock.attempt = NoAttempt \/ c.settled[lock.attempt.action]
    BY <1>8
  <2>2. lock.attempt # NoAttempt => lock.attempt.action \in Actions
    BY <1>1, LockFields DEF RecordOK, AttemptNamed
  <2>3. \A a \in Actions : c.settled[a] => chain[q].settled[a]
    BY DEF c
  <2>4. Quiescent(q)
    BY <1>1, <2>1, <2>2, <2>3, NoAttemptTyped DEF Quiescent, Outstanding, RecordOK
  <2>5. ~(scan.pc = "settle" /\ scan.q = q)
    <3> SUFFICES ASSUME scan.pc = "settle", scan.q = q PROVE FALSE
      OBVIOUS
    <3>1. /\ scan.lock.attempt.action \in Actions
          /\ settleCalls[q][scan.lock.attempt.action] = 0
      BY DEF LockInv, ScanOK, Stands
    <3>2. lock.attempt.action = scan.lock.attempt.action
      BY <1>1 DEF RecordOK
    <3>3. ~chain[q].settled[scan.lock.attempt.action]
      BY <3>1 DEF LockInv, WorldOK
    <3> QED BY <2>1, <2>3, <3>1, <3>2, <3>3, NoAttemptTyped
  <2>6. RecordOK(q, d) /\ d.state # "absent"
    <3>1. d.signed => chain[q].landed
      BY <1>1, <1>4, <1>6, <1>8 DEF RecordOK
    <3>2. clock < LockExpiry[q] /\ q \in quoted => d.signed
      BY <1>1, <1>4, <1>6, <1>8 DEF RecordOK
    <3>3. d.attempt = NoAttempt /\ d.state = rebuilt.state
      BY <1>4, <1>6, <1>8
    <3> HIDE DEF kept
    <3> QED BY <1>4, <1>6, <2>3, <2>4, <2>5, <3>1, <3>2, <3>3, Cleared
  <2> QED BY <1>3, <1>4, <1>6, <1>8, <2>6 DEF Drafted, lock
<1> QED BY <1>7, <1>8

LEMMA TakeWriteKeeps ==
  ASSUME LockInv, NEW t \in Requests, NEW ok \in BOOLEAN, takeWrite(t, ok)
  PROVE  LockInv'
<1> DEFINE request == taking[t]
           q == request.q
           quarantined == quarantinedLock(locks[q], q, request.at)
           reconciled == Reconciled(locks[q], request)
<1>1. /\ request.pc = "write" /\ taking' = [taking EXCEPT ![t] = NotTaking]
      /\ UNCHANGED <<world, quoting, scan, todo, quoted>>
  BY DEF takeWrite
<1>2. /\ q \in quoted /\ q \in Rfqs /\ request \in Takings
      /\ \A a \in Actions : request.chain.settled[a] => chain[q].settled[a]
  BY <1>1 DEF LockInv, TakingOK, QuoteOK
<1>3. \/ lockTransaction([locks EXCEPT ![q] = locks[q]], ok)
      \/ locks[q].state # "absent" /\ lockTransaction([locks EXCEPT ![q] = quarantined], ok)
      \/ locks[q].state # "absent" /\ lockTransaction([locks EXCEPT ![q] = reconciled], ok)
  BY <1>2 DEF takeWrite, LockInv, RecordsOK, LockTables
<1>4. clock < LockExpiry[q] => quoting[q].pc = "idle"
  BY <1>2 DEF LockInv, EarlyOK, Early
<1>5. TakingOK'
  BY <1>1, TakingEnds DEF LockInv, world
<1>6. locks[q] \in StoredLockRecord /\ RecordOK(q, locks[q])
  BY <1>2 DEF LockInv, RecordsOK, RecordOK
<1>7. locks[q].state # "absent" => Drafted(q, reconciled) /\ reconciled.signed = locks[q].signed
  BY <1>2, ReconciledDraft
<1>8. Drafted(q, quarantined) /\ quarantined.signed = locks[q].signed
  <2>1. /\ quarantined \in StoredLockRecord /\ quarantined.state = "quarantined"
        /\ quarantined.attempt = locks[q].attempt /\ quarantined.signed = locks[q].signed
    BY <1>6, QuarantineShape
  <2> HIDE DEF quarantined
  <2> QED BY <1>2, <1>6, <2>1, Rewritten DEF Drafted, Canonical
<1>9. Drafted(q, locks[q])
  BY <1>2, SameDraft DEF LockInv
<1> HIDE DEF quarantined, reconciled
<1>10. PICK d : /\ lockTransaction([locks EXCEPT ![q] = d], ok)
                /\ Drafted(q, d) /\ d.signed = locks[q].signed
  BY <1>3, <1>7, <1>8, <1>9
<1> QED BY <1>1, <1>2, <1>4, <1>5, <1>10, AsideKeeps

LEMMA ReconcileTakeKeeps ==
  ASSUME LockInv, NEW t \in Requests, NEW q \in Rfqs, NEW at \in Stamps,
         NEW v \in LockRevisions, reconcileTake(t, q, at, v)
  PROVE  LockInv'
<1> DEFINE r == [pc |-> IF locks[q].signed /\ BoundTo(locks[q], chain[q])
                        THEN "write" ELSE "contradicted",
                 q |-> q, at |-> at, revision |-> v, chain |-> chain[q]]
<1>1. /\ q \in quoted /\ taking' = [taking EXCEPT ![t] = r]
      /\ UNCHANGED <<locks, walLocks, status, held, clock, chain, lockCalls, settleCalls,
                     quoting, scan, todo, quoted>>
  BY DEF reconcileTake, store, world
<1>2. at \in Nat /\ v \in Nat /\ chain[q] \in ChainLocks /\ clock \in Nat
  BY LocksAssumption DEF Stamps, LockInv, HeldOK, WorldOK
<1>3. r \in Takings /\ r.q = q /\ r.chain = chain[q]
  BY <1>2 DEF Takings
<1> HIDE DEF r
<1>4. TakingOK'
  <2>1. /\ taking' \in [Requests -> Takings] /\ taking'[t] = r
        /\ \A u \in Requests : u # t => taking'[u] = taking[u]
    BY <1>1, <1>3 DEF LockInv, TakingOK
  <2> QED BY <1>1, <1>3, <2>1 DEF LockInv, TakingOK
<1>5. \A p \in Rfqs : ContextKeeps(p)
  BY <1>1, <1>2, ContextOf
<1>6. RecordsOK'
  BY <1>1, <1>5, KeptRecords DEF LockInv, RecordsOK
<1>7. HeldOK' /\ WorldOK' /\ QuoteOK' /\ ScanOK' /\ EarlyOK'
  BY <1>1, WorldKept, QuoteKept, ScanKept DEF LockInv, HeldOK, EarlyOK, Early
<1> QED BY <1>4, <1>6, <1>7 DEF LockInv

LEMMA TakeNextKeeps ==
  ASSUME LockInv, TakeNext
  PROVE  LockInv'
BY ReconcileTakeKeeps, ResolveLockKeeps, TakeUnavailableKeeps, TakeContradictedKeeps,
   TakeWriteKeeps DEF TakeNext

-----------------------------------------------------------------------------
(* The chain *)

\* The chain goes forward: what landed and what settled stays, a settlement
\* lands only while it is out, and a lock is submitted by its quote.
LEMMA WorldMoves ==
  ASSUME LockInv, WorldOK', QuoteOK',
         UNCHANGED <<locks, walLocks, status, held, clock, scan, taking, todo, quoted>>,
         \A p \in Rfqs :
           /\ quoting'[p].pc # "idle" => quoting[p].pc # "idle"
           /\ chain[p].landed => chain'[p].landed
           /\ lockCalls'[p] > 0 => lockCalls[p] > 0 \/ quoting[p].pc # "idle"
           /\ \A a \in Actions :
                /\ chain[p].settled[a] => chain'[p].settled[a]
                /\ chain'[p].settled[a] => chain[p].settled[a] \/ Outstanding(p, a)
                /\ settleCalls[p][a] = 0 => settleCalls'[p][a] = 0
  PROVE  LockInv'
<1>1. \A p \in Rfqs, a \in Actions : Outstanding(p, a)' => Outstanding(p, a)
  <2> SUFFICES ASSUME NEW p \in Rfqs, NEW a \in Actions, Outstanding(p, a)'
               PROVE  Outstanding(p, a)
    OBVIOUS
  <2>1. settleCalls[p][a] \in Nat
    BY DEF LockInv, WorldOK
  <2> QED BY <2>1 DEF Outstanding
<1>2. ASSUME NEW p \in Rfqs PROVE ContextKeeps(p)
  <2> SUFFICES ASSUME NEW rec, RecordOK(p, rec) PROVE RecordOK(p, rec)'
    BY DEF ContextKeeps
  <2>1. \A a \in Actions : Outstanding(p, a)' => rec.attempt.action = a
    BY <1>1 DEF RecordOK
  <2> QED BY <2>1 DEF RecordOK
<1>3. RecordsOK'
  BY <1>2, KeptRecords DEF LockInv, RecordsOK
<1>4. HeldOK' /\ EarlyOK'
  BY DEF LockInv, HeldOK, EarlyOK, Early
<1>5. TakingOK'
  BY DEF LockInv, TakingOK, QuoteOK
<1>6. ScanOK'
  <2> SUFFICES ASSUME scan.pc # "idle" PROVE Stands(scan)'
    BY DEF LockInv, ScanOK, ScanTyped, AttemptNamed
  <2>1. scan.q \in Rfqs /\ Stands(scan) /\ scan.chain.settled \in [Actions -> BOOLEAN]
    BY ScanAt DEF LockInv, ChainLocks
  <2>2. /\ chain[scan.q].settled \in [Actions -> BOOLEAN]
        /\ chain'[scan.q].settled \in [Actions -> BOOLEAN]
    BY <2>1 DEF LockInv, WorldOK, ChainLocks
  <2>3. \A b \in Actions : Outstanding(scan.q, b)' => Outstanding(scan.q, b)
    BY <1>1, <2>1 DEF Outstanding
  <2>4. Quiescent(scan.q) => Quiescent(scan.q)'
    BY <2>3 DEF Quiescent
  <2>5. \A b \in Actions : ~Outstanding(scan.q, b) =>
          chain'[scan.q].settled[b] = chain[scan.q].settled[b]
    BY <2>1, <2>2
  <2>6. Quiescent(scan.q) => \A b \in Actions : chain'[scan.q].settled[b] = chain[scan.q].settled[b]
    BY <2>5 DEF Quiescent
  <2> QED BY <2>1, <2>3, <2>4, <2>5, <2>6 DEF Stands
<1> QED BY <1>3, <1>4, <1>5, <1>6 DEF LockInv

LEMMA WorldKeeps ==
  ASSUME LockInv, World, UNCHANGED <<store, clock, lockProcs>>
  PROVE  LockInv'
<1>1. UNCHANGED <<locks, walLocks, status, held, clock, quoting, scan, taking, todo, quoted>>
  BY DEF store, lockProcs
<1>2. WorldOK /\ QuoteOK
  BY DEF LockInv
<1>3. CASE \E i \in Intents : FillLands(i) \/ FillReverts(i)
  <2>1. UNCHANGED <<chain, lockCalls, settleCalls>>
    BY <1>3 DEF FillLands, FillReverts
  <2> QED BY <1>1, <1>2, <2>1, WorldKept, QuoteKept, WorldMoves
<1>4. ASSUME NEW q \in Rfqs, LockLands(q) PROVE LockInv'
  <2>1. /\ UNCHANGED <<lockCalls, settleCalls>> /\ lockCalls[q] = 1
        /\ chain' = [chain EXCEPT ![q].landed = TRUE]
    BY <1>2, <1>4 DEF LockLands, WorldOK
  <2>2. /\ chain' \in [Rfqs -> ChainLocks] /\ chain'[q].landed
        /\ \A p \in Rfqs : chain'[p].settled = chain[p].settled /\ (p # q => chain'[p] = chain[p])
    <3> DEFINE r == [chain[q] EXCEPT !.landed = TRUE]
    <3>1. chain[q] \in ChainLocks /\ chain \in [Rfqs -> ChainLocks]
      BY <1>2 DEF WorldOK
    <3>2. r \in ChainLocks /\ r.settled = chain[q].settled /\ r.landed
      BY <3>1 DEF ChainLocks
    <3>3. chain' = [chain EXCEPT ![q] = r]
      BY <2>1
    <3> HIDE DEF r
    <3> QED BY <3>1, <3>2, <3>3
  <2>3. WorldOK' /\ QuoteOK'
    BY <1>1, <1>2, <2>1, <2>2 DEF WorldOK, QuoteOK
  <2> QED BY <1>1, <2>1, <2>2, <2>3, WorldMoves
<1>5. ASSUME NEW q \in Rfqs, LockReverts(q) PROVE LockInv'
  <2>1. /\ UNCHANGED <<chain, settleCalls>> /\ lockCalls[q] = 1 /\ ~chain[q].landed
        /\ lockCalls' = [lockCalls EXCEPT ![q] = 0]
    <3>1. lockCalls[q] \in Nat /\ lockCalls[q] <= 1 /\ lockCalls[q] > 0
      BY <1>2, <1>5 DEF LockReverts, WorldOK
    <3>2. lockCalls[q] = 1 /\ lockCalls[q] - 1 = 0
      BY <3>1
    <3>3. lockCalls' = [lockCalls EXCEPT ![q] = lockCalls[q] - 1]
      BY <1>5 DEF LockReverts
    <3> QED BY <1>5, <3>2, <3>3 DEF LockReverts
  <2>2. /\ lockCalls' \in [Rfqs -> Nat] /\ lockCalls'[q] = 0
        /\ \A p \in Rfqs : p # q => lockCalls'[p] = lockCalls[p]
    BY <1>2, <2>1 DEF WorldOK
  <2>3. WorldOK' /\ QuoteOK'
    BY <1>1, <1>2, <2>1, <2>2 DEF WorldOK, QuoteOK
  <2> QED BY <1>1, <2>1, <2>2, <2>3, WorldMoves
<1>6. ASSUME NEW q \in Rfqs, Take(q) PROVE LockInv'
  <2>1. /\ UNCHANGED <<lockCalls, settleCalls>>
        /\ chain' = [chain EXCEPT ![q].taken = 1]
    BY <1>6 DEF Take
  <2>2. /\ chain' \in [Rfqs -> ChainLocks]
        /\ \A p \in Rfqs : chain'[p].settled = chain[p].settled /\ chain'[p].landed = chain[p].landed
    <3> DEFINE r == [chain[q] EXCEPT !.taken = 1]
    <3>1. chain[q] \in ChainLocks /\ chain \in [Rfqs -> ChainLocks]
      BY <1>2 DEF WorldOK
    <3>2. r \in ChainLocks /\ r.settled = chain[q].settled /\ r.landed = chain[q].landed
      BY <3>1 DEF ChainLocks
    <3>3. chain' = [chain EXCEPT ![q] = r]
      BY <2>1
    <3> HIDE DEF r
    <3> QED BY <3>1, <3>2, <3>3
  <2>3. WorldOK' /\ QuoteOK'
    BY <1>1, <1>2, <2>1, <2>2 DEF WorldOK, QuoteOK
  <2> QED BY <1>1, <2>1, <2>2, <2>3, WorldMoves
<1>7. ASSUME NEW q \in Rfqs, NEW a \in Actions, SettleLands(q, a) PROVE LockInv'
  <2>1. /\ UNCHANGED <<lockCalls, settleCalls>> /\ Outstanding(q, a) /\ settleCalls[q][a] = 1
        /\ chain' = [chain EXCEPT ![q].settled[a] = TRUE]
    BY <1>2, <1>7 DEF SettleLands, Outstanding, WorldOK
  <2>2. /\ chain' \in [Rfqs -> ChainLocks] /\ chain'[q].settled[a]
        /\ \A p \in Rfqs : /\ chain'[p].landed = chain[p].landed
                           /\ \A b \in Actions : p # q \/ b # a =>
                                chain'[p].settled[b] = chain[p].settled[b]
    <3> DEFINE f == [chain[q].settled EXCEPT ![a] = TRUE]
               r == [chain[q] EXCEPT !.settled = f]
    <3>1. chain[q] \in ChainLocks /\ chain \in [Rfqs -> ChainLocks]
      BY <1>2 DEF WorldOK
    <3>2. /\ f \in [Actions -> BOOLEAN] /\ f[a]
          /\ \A b \in Actions : b # a => f[b] = chain[q].settled[b]
      BY <3>1 DEF ChainLocks
    <3>3. chain' = [chain EXCEPT ![q] = r]
      BY <2>1
    <3> HIDE DEF f
    <3>4. r \in ChainLocks /\ r.settled = f /\ r.landed = chain[q].landed
      BY <3>1, <3>2 DEF ChainLocks
    <3> HIDE DEF r
    <3> QED BY <3>1, <3>2, <3>3, <3>4
  <2>3. WorldOK' /\ QuoteOK'
    BY <1>1, <1>2, <2>1, <2>2 DEF WorldOK, QuoteOK
  <2> QED BY <1>1, <2>1, <2>2, <2>3, WorldMoves
<1>8. ASSUME NEW q \in Rfqs, NEW a \in Actions, SettleReverts(q, a) PROVE LockInv'
  <2>1. /\ UNCHANGED <<lockCalls, chain>> /\ settleCalls[q][a] = 1 /\ ~chain[q].settled[a]
        /\ settleCalls' = [settleCalls EXCEPT ![q][a] = 0]
    <3>1. settleCalls[q][a] \in Nat /\ settleCalls[q][a] <= 1 /\ settleCalls[q][a] > 0
      BY <1>2, <1>8 DEF SettleReverts, WorldOK
    <3>2. settleCalls[q][a] = 1 /\ settleCalls[q][a] - 1 = 0
      BY <3>1
    <3>3. settleCalls' = [settleCalls EXCEPT ![q][a] = settleCalls[q][a] - 1]
      BY <1>8 DEF SettleReverts
    <3> QED BY <1>8, <3>2, <3>3 DEF SettleReverts
  <2>2. /\ settleCalls' \in [Rfqs -> [Actions -> Nat]] /\ settleCalls'[q][a] = 0
        /\ \A p \in Rfqs, b \in Actions : p # q \/ b # a =>
             settleCalls'[p][b] = settleCalls[p][b]
    BY <1>2, <2>1 DEF WorldOK
  <2>3. WorldOK' /\ QuoteOK'
    BY <1>1, <1>2, <2>1, <2>2 DEF WorldOK, QuoteOK
  <2> QED BY <1>1, <2>1, <2>2, <2>3, WorldMoves
<1> QED BY <1>3, <1>4, <1>5, <1>6, <1>7, <1>8 DEF World

-----------------------------------------------------------------------------
(* quoteV3 *)

\* A record that keeps the attempt of one that is right.
LEMMA RecordMade ==
  ASSUME NEW q \in Rfqs, UNCHANGED <<chain, lockCalls, settleCalls, scan, clock>>,
         NEW b, RecordOK(q, b), NEW d \in StoredLockRecord, d.attempt = b.attempt,
         Canonical(d), d.state # "settled", d.signed => chain[q].landed,
         lockCalls[q] > 0 \/ quoting'[q].pc # "idle" => d.state # "absent",
         clock < LockExpiry[q] /\ q \in quoted' => d.signed
  PROVE  RecordOK(q, d)'
<1>1. \A a \in Actions : Outstanding(q, a)' <=> Outstanding(q, a)
  BY DEF Outstanding
<1> QED BY <1>1 DEF RecordOK, AttemptNamed, Canonical

\* A record without an attempt and without a signature, before the lock lands.
LEMMA RecordFresh ==
  ASSUME NEW q \in Rfqs, UNCHANGED <<chain, lockCalls, settleCalls, scan, clock>>,
         Quiescent(q), ~(scan.pc = "settle" /\ scan.q = q), q \notin quoted',
         NEW d \in StoredLockRecord, d.attempt = NoAttempt, ~d.signed,
         d.state \in {"locking", "absent"},
         lockCalls[q] > 0 \/ quoting'[q].pc # "idle" => d.state # "absent"
  PROVE  RecordOK(q, d)'
<1>1. \A a \in Actions : ~Outstanding(q, a)'
  BY DEF Outstanding, Quiescent
<1> QED BY <1>1 DEF RecordOK, AttemptNamed, Canonical

\* Before a lock is submitted nothing of it is on chain.
LEMMA NothingSubmitted ==
  ASSUME LockInv, NEW q \in Rfqs, lockCalls[q] = 0
  PROVE  /\ ~chain[q].landed /\ q \notin quoted /\ Quiescent(q)
         /\ ~(scan.pc = "settle" /\ scan.q = q)
<1>1. ~chain[q].landed
  BY DEF LockInv, WorldOK
<1>2. q \notin quoted
  BY <1>1 DEF LockInv, QuoteOK
<1>3. Quiescent(q)
  <2> SUFFICES ASSUME NEW a \in Actions, Outstanding(q, a) PROVE FALSE
    BY DEF Quiescent
  <2>1. settleCalls[q][a] \in Nat /\ settleCalls[q][a] <= 1 /\ settleCalls[q][a] > 0
    BY DEF LockInv, WorldOK, Outstanding
  <2>2. settleCalls[q][a] = 1
    BY <2>1
  <2> QED BY <1>1, <2>2 DEF LockInv, WorldOK
<1>4. ~(scan.pc = "settle" /\ scan.q = q)
  BY <1>1 DEF LockInv, ScanOK, Stands
<1> QED BY <1>1, <1>2, <1>3, <1>4

\* A write of a quote request.
LEMMA QuoteWriteKeeps ==
  ASSUME LockInv, NEW q \in Rfqs, NEW d \in StoredLockRecord, NEW ok \in BOOLEAN,
         Written(q, d, ok), UNCHANGED <<world, scan, taking, todo>>,
         \A p \in Rfqs \ {q} : quoting'[p] = quoting[p],
         quoted \subseteq quoted', quoted' \subseteq quoted \cup {q},
         quoting'[q].pc # "idle" => quoting[q].pc # "idle" \/ status = "serving",
         ~ok => /\ quoting'[q].pc # "idle" => quoting[q].pc # "idle"
                /\ quoted' = quoted,
         RecordOK(q, d)', QuoteOK', Early(q)'
  PROVE  LockInv'
<1>1. UNCHANGED <<chain, lockCalls, settleCalls>> /\ clock \in Nat /\ clock' = clock
  BY DEF world, LockInv, HeldOK, Written
<1>2. \A p \in Rfqs \ {q} : ContextKeeps(p)
  BY <1>1, ContextOf
<1>3. ~ok => ContextKeeps(q)
  BY <1>1, ContextOf
<1>4. RecordsOK'
  BY <1>2, <1>3, WrittenRecords DEF LockInv
<1>5. HeldOK'
  BY WrittenHeld DEF LockInv
<1>6. WorldOK' /\ TakingOK' /\ ScanOK'
  BY <1>1, WorldKept, TakingKept, ScanKept DEF LockInv
<1>7. ASSUME NEW p \in Rfqs \ {q} PROVE Early(p)'
  <2>1. locks'[p] = locks[p] /\ Early(p)
    BY DEF Written, LockInv, RecordsOK, LockTables, EarlyOK
  <2> QED BY <1>1, <2>1 DEF Early
<1> QED BY <1>4, <1>5, <1>6, <1>7 DEF LockInv, EarlyOK

LEMMA QuoteAcquiredKeeps ==
  ASSUME LockInv, NEW q \in Rfqs, NEW maxB \in Sizes, NEW ok \in BOOLEAN,
         quoteAcquired(q, maxB, ok)
  PROVE  LockInv'
<1> DEFINE d == [NoLock EXCEPT !.state = "locking", !.maxB = maxB]
           r == [pc |-> "lock", at |-> held.at]
<1>1. /\ held.subject = q
      /\ AppendSnapshot(records, [locks EXCEPT ![q] = d], status, ok)
      /\ quoting' = (IF ok THEN [quoting EXCEPT ![q] = r] ELSE quoting)
      /\ UNCHANGED <<world, scan, taking, todo, quoted>>
  BY DEF quoteAcquired
<1>2. status = "serving" /\ locks[q].state = "absent" /\ held.at \in Nat
  BY <1>1, FreeHolds DEF LockInv, HeldOK
<1>3. Written(q, d, ok)
  BY <1>1, <1>2, AppendWrites
<1>4. /\ d \in StoredLockRecord /\ d.state = "locking" /\ ~d.signed /\ d.attempt = NoAttempt
  BY LocksAssumption, NoAttemptTyped DEF NoLock, StoredLockRecord, LockStates, PriorStates
<1>5. r \in QuoteRequests /\ r.pc = "lock"
  BY <1>2 DEF QuoteRequests
<1> HIDE DEF d, r
<1>6. lockCalls[q] = 0 /\ quoting[q].pc = "idle"
  <2>1. RecordOK(q, locks[q]) /\ lockCalls[q] \in Nat
    BY DEF LockInv, RecordsOK, WorldOK
  <2> QED BY <1>2, <2>1 DEF RecordOK
<1>7. /\ ~chain[q].landed /\ q \notin quoted /\ Quiescent(q)
      /\ ~(scan.pc = "settle" /\ scan.q = q)
  BY <1>6, NothingSubmitted
<1>8. /\ UNCHANGED <<chain, lockCalls, settleCalls, scan, clock, quoted, todo>>
  BY <1>1, <1>3 DEF world, Written
<1>9. /\ quoting \in [Rfqs -> QuoteRequests] /\ quoting' \in [Rfqs -> QuoteRequests]
      /\ \A p \in Rfqs \ {q} : quoting'[p] = quoting[p]
      /\ quoting'[q] = IF ok THEN r ELSE quoting[q]
  BY <1>1, <1>5 DEF LockInv, QuoteOK
<1>10. QuoteOK'
  BY <1>5, <1>6, <1>8, <1>9 DEF LockInv, QuoteOK
<1>11. RecordOK(q, d)'
  BY <1>4, <1>7, <1>8, RecordFresh
<1>12. Early(q)'
  <2>1. Early(q) /\ locks'[q] = IF ok THEN d ELSE locks[q]
    BY <1>3 DEF LockInv, EarlyOK, Written, RecordsOK, LockTables
  <2> QED BY <1>2, <1>4, <1>6, <1>7, <1>8, <1>9, <2>1 DEF Early
<1> QED BY <1>1, <1>2, <1>3, <1>4, <1>6, <1>8, <1>9, <1>10, <1>11, <1>12, QuoteWriteKeeps

\* A request that goes on from where it is, to a place the chain bears out.
LEMMA QuoteGoes ==
  ASSUME LockInv, NEW q \in Rfqs, NEW r \in QuoteRequests, quoting' = [quoting EXCEPT ![q] = r],
         UNCHANGED <<chain, lockCalls>>, quoted' \subseteq Rfqs,
         \A p \in quoted' : chain[p].landed,
         r.pc \in {"lock", "reverted"} => lockCalls[q] = 0,
         r.pc \in {"confirm", "sign", "finish"} => chain[q].landed
  PROVE  /\ QuoteOK' /\ quoting'[q] = r
         /\ \A p \in Rfqs \ {q} : quoting'[p] = quoting[p]
<1>1. quoting \in [Rfqs -> QuoteRequests]
  BY DEF LockInv, QuoteOK
<1>2. /\ quoting' \in [Rfqs -> QuoteRequests] /\ quoting'[q] = r
      /\ \A p \in Rfqs \ {q} : quoting'[p] = quoting[p]
  BY <1>1
<1> QED BY <1>2 DEF LockInv, QuoteOK

LEMMA NotQuotingTyped == NotQuoting \in QuoteRequests /\ NotQuoting.pc = "idle"
BY DEF NotQuoting, QuoteRequests

LEMMA QuoteAt ==
  ASSUME LockInv, NEW q \in Rfqs, NEW pc \in {"idle", "lock", "wait", "confirm", "reverted",
                                              "unknown", "sign", "finish"}
  PROVE  LET r == [quoting[q] EXCEPT !.pc = pc]
         IN  /\ r \in QuoteRequests /\ r.pc = pc
             /\ [quoting EXCEPT ![q].pc = pc] = [quoting EXCEPT ![q] = r]
<1>1. quoting[q] \in QuoteRequests
  BY DEF LockInv, QuoteOK
<1> QED BY <1>1 DEF QuoteRequests

LEMMA QuoteConfirmedKeeps ==
  ASSUME LockInv, NEW q \in Rfqs, NEW ok \in BOOLEAN, quoteConfirmed(q, ok)
  PROVE  LockInv'
<1> DEFINE pc == IF ok THEN "sign" ELSE "idle"
<1>0. PICK d, r : /\ d = [locks[q] EXCEPT !.state = "open", !.ticket = TRUE]
                  /\ r = [quoting[q] EXCEPT !.pc = pc]
  OBVIOUS
<1>1. locks \in LockTables /\ locks[q] \in StoredLockRecord /\ RecordOK(q, locks[q])
  BY DEF LockInv, RecordsOK, LockTables
<1>2. [locks EXCEPT ![q].state = "open", ![q].ticket = TRUE] = [locks EXCEPT ![q] = d]
  BY <1>0, <1>1 DEF LockTables, StoredLockRecord
<1>3. /\ quoting[q].pc = "confirm" /\ Written(q, d, ok)
      /\ UNCHANGED <<world, scan, taking, todo, quoted>>
  BY <1>2, TransactionWrites DEF quoteConfirmed
<1>4. /\ d \in StoredLockRecord /\ d.state = "open" /\ d.signed = locks[q].signed
      /\ d.attempt = locks[q].attempt
  BY <1>0, <1>1 DEF StoredLockRecord, LockStates, PriorStates
<1>5. r \in QuoteRequests /\ r.pc = pc /\ quoting' = [quoting EXCEPT ![q] = r]
  BY <1>0, QuoteAt DEF quoteConfirmed
<1>6. chain[q].landed
  BY <1>3 DEF LockInv, QuoteOK
<1>7. UNCHANGED <<chain, lockCalls, settleCalls, scan, clock, quoted, todo>>
  BY <1>3 DEF world, Written
<1>8. /\ QuoteOK' /\ quoting'[q] = r
      /\ \A p \in Rfqs \ {q} : quoting'[p] = quoting[p]
  <2>1. quoted \subseteq Rfqs /\ \A p \in quoted : chain[p].landed
    BY DEF LockInv, QuoteOK
  <2> QED BY <1>5, <1>6, <1>7, <2>1, QuoteGoes
<1>9. RecordOK(q, d)'
  <2>1. clock < LockExpiry[q] /\ q \in quoted' => d.signed
    BY <1>1, <1>4, <1>7 DEF RecordOK
  <2> QED BY <1>1, <1>4, <1>6, <1>7, <2>1, RecordMade DEF Canonical
<1>10. Early(q)'
  <2>1. Early(q) /\ locks'[q] = IF ok THEN d ELSE locks[q]
    BY <1>1, <1>3 DEF LockInv, EarlyOK, Written, LockTables
  <2> QED BY <1>3, <1>4, <1>5, <1>7, <1>8, <2>1 DEF Early
<1> QED BY <1>3, <1>4, <1>8, <1>9, <1>10, QuoteWriteKeeps

\* The catch clause: a known revert deletes the record of a lock that is not
\* on chain and will not be.
LEMMA QuoteFailedKeeps ==
  ASSUME LockInv, NEW q \in Rfqs, NEW ok \in BOOLEAN, quoteFailed(q, ok)
  PROVE  LockInv'
<1>0. PICK d : d = LockFailed(locks[q], q, quoting[q].at, quoting[q].pc)
  OBVIOUS
<1>1. locks \in LockTables /\ locks[q] \in StoredLockRecord /\ RecordOK(q, locks[q])
  BY DEF LockInv, RecordsOK, LockTables
<1>2. /\ quoting[q].pc \in {"reverted", "unknown"} /\ Written(q, d, ok)
      /\ UNCHANGED <<world, scan, taking, todo, quoted>>
      /\ quoting' = [quoting EXCEPT ![q] = NotQuoting]
  <2>1. [locks EXCEPT ![q] = LockFailed(@, q, quoting[q].at, quoting[q].pc)]
          = [locks EXCEPT ![q] = d]
    BY <1>0
  <2> QED BY <2>1, TransactionWrites DEF quoteFailed
<1>3. UNCHANGED <<chain, lockCalls, settleCalls, scan, clock, quoted, todo>>
  BY <1>2 DEF world, Written
<1>4. /\ QuoteOK' /\ quoting'[q].pc = "idle"
      /\ \A p \in Rfqs \ {q} : quoting'[p] = quoting[p]
  <2>1. quoted \subseteq Rfqs /\ \A p \in quoted : chain[p].landed
    BY DEF LockInv, QuoteOK
  <2> QED BY <1>2, <1>3, <2>1, NotQuotingTyped, QuoteGoes
<1>5. locks[q].state # "absent"
  BY <1>1, <1>2 DEF RecordOK
<1>6. d \in StoredLockRecord /\ RecordOK(q, d)'
  <2>1. CASE quoting[q].pc = "reverted"
    <3>1. d = NoLock
      BY <1>0, <2>1 DEF LockFailed
    <3>2. /\ NoLock \in StoredLockRecord /\ NoLock.state = "absent" /\ ~NoLock.signed
          /\ NoLock.attempt = NoAttempt
      BY NoAttemptTyped DEF NoLock, StoredLockRecord
    <3>3. lockCalls[q] = 0
      BY <2>1 DEF LockInv, QuoteOK
    <3>4. q \notin quoted /\ Quiescent(q) /\ ~(scan.pc = "settle" /\ scan.q = q)
      BY <3>3, NothingSubmitted
    <3> HIDE DEF NoLock
    <3> QED BY <1>3, <1>4, <3>1, <3>2, <3>3, <3>4, RecordFresh
  <2>2. CASE quoting[q].pc = "unknown"
    <3>1. d = lockWithReconciliationFailure(locks[q], q, quoting[q].at, "reconcile-pending")
      BY <1>0, <1>5, <2>2 DEF LockFailed
    <3>2. "reconcile-pending" \in LockStates
      BY DEF LockStates
    <3>3. /\ d \in StoredLockRecord /\ d.state \in {"quarantined", "reconcile-pending"}
          /\ d.attempt = locks[q].attempt /\ d.signed = locks[q].signed
      BY <1>1, <3>1, <3>2, FailureShape
    <3>4. d.signed => chain[q].landed
      BY <1>1, <3>3 DEF RecordOK
    <3>5. clock < LockExpiry[q] /\ q \in quoted' => d.signed
      BY <1>1, <1>3, <3>3 DEF RecordOK
    <3> QED BY <1>1, <1>3, <3>3, <3>4, <3>5, RecordMade DEF Canonical
  <2> QED BY <1>2, <2>1, <2>2
<1>7. Early(q)'
  <2>1. Early(q) /\ quoting[q].pc # "idle"
    BY <1>2 DEF LockInv, EarlyOK
  <2> QED BY <1>3, <1>4, <2>1 DEF Early
<1> QED BY <1>2, <1>3, <1>4, <1>6, <1>7, QuoteWriteKeeps

\* The signature is written when the lock is on chain.
LEMMA QuoteFinishKeeps ==
  ASSUME LockInv, NEW q \in Rfqs, NEW ok \in BOOLEAN, quoteFinish(q, ok)
  PROVE  LockInv'
<1>0. PICK d : d = [locks[q] EXCEPT !.signed = TRUE]
  OBVIOUS
<1>1. locks \in LockTables /\ locks[q] \in StoredLockRecord /\ RecordOK(q, locks[q])
  BY DEF LockInv, RecordsOK, LockTables
<1>2. [locks EXCEPT ![q].signed = TRUE] = [locks EXCEPT ![q] = d]
  BY <1>0, <1>1 DEF LockTables
<1>3. /\ quoting[q].pc = "finish" /\ Written(q, d, ok) /\ Live(locks[q])
      /\ UNCHANGED <<world, scan, taking, todo>>
      /\ quoted' = (IF ok THEN quoted \cup {q} ELSE quoted)
      /\ quoting' = [quoting EXCEPT ![q] = NotQuoting]
  BY <1>2, TransactionWrites DEF quoteFinish
<1>4. /\ d \in StoredLockRecord /\ d.state = locks[q].state /\ d.signed
      /\ d.attempt = locks[q].attempt
  BY <1>0, <1>1 DEF StoredLockRecord
<1>5. UNCHANGED <<chain, lockCalls, settleCalls, scan, clock, todo>>
  BY <1>3 DEF world, Written
<1>6. chain[q].landed
  BY <1>3 DEF LockInv, QuoteOK
<1>7. /\ QuoteOK' /\ quoting'[q].pc = "idle"
      /\ \A p \in Rfqs \ {q} : quoting'[p] = quoting[p]
  <2>1. quoted' \subseteq Rfqs /\ \A p \in quoted' : chain[p].landed
    BY <1>3, <1>6 DEF LockInv, QuoteOK
  <2> QED BY <1>3, <1>5, <2>1, NotQuotingTyped, QuoteGoes
<1>8. RecordOK(q, d)'
  <2>1. d.state \notin {"absent", "settled"}
    BY <1>3, <1>4 DEF Live, terminalLockState
  <2>2. Canonical(d)
    BY <1>1, <1>4 DEF RecordOK, Canonical
  <2> QED BY <1>1, <1>4, <1>5, <1>6, <2>1, <2>2, RecordMade
<1>9. Early(q)'
  <2>1. Early(q) /\ quoting[q].pc # "idle"
    BY <1>3 DEF LockInv, EarlyOK
  <2> QED BY <1>5, <1>7, <2>1 DEF Early
<1> QED BY <1>3, <1>4, <1>5, <1>7, <1>8, <1>9, QuoteWriteKeeps

LEMMA QuoteReplayKeeps ==
  ASSUME LockInv, NEW q \in Rfqs, NEW at, NEW ok \in BOOLEAN, quoteReplay(q, at, ok)
  PROVE  LockInv'
<1>0. PICK d : d = locks[q]
  OBVIOUS
<1>1. locks \in LockTables /\ locks[q] \in StoredLockRecord /\ RecordOK(q, locks[q])
  BY DEF LockInv, RecordsOK, LockTables
<1>2. locks = [locks EXCEPT ![q] = d]
  BY <1>0, <1>1 DEF LockTables
<1>3. /\ Written(q, d, ok) /\ locks[q].signed /\ locks[q].state = "open"
      /\ UNCHANGED <<world, scan, taking, todo, quoting>>
      /\ quoted' = (IF ok THEN quoted \cup {q} ELSE quoted)
  BY <1>2, TransactionWrites DEF quoteReplay
<1>4. UNCHANGED <<chain, lockCalls, settleCalls, scan, clock, todo, quoting>>
  BY <1>3 DEF world, Written
<1>5. chain[q].landed
  BY <1>1, <1>3 DEF RecordOK
<1>6. QuoteOK'
  BY <1>3, <1>4, <1>5 DEF LockInv, QuoteOK
<1>7. RecordOK(q, d)'
  BY <1>0, <1>1, <1>3, <1>4, <1>5, RecordMade DEF Canonical
<1>8. Early(q)'
  <2>1. Early(q) /\ locks'[q] = locks[q]
    BY <1>2, <1>3 DEF LockInv, EarlyOK, Written
  <2> QED BY <1>3, <1>4, <2>1 DEF Early
<1> QED BY <1>0, <1>1, <1>3, <1>4, <1>6, <1>7, <1>8, QuoteWriteKeeps

\* A request that writes nothing: the chain bears out where it goes.
LEMMA QuoteMoves ==
  ASSUME LockInv, NEW q \in Rfqs, NEW r \in QuoteRequests, quoting' = [quoting EXCEPT ![q] = r],
         UNCHANGED <<store, clock, world, scan, taking, todo, quoted>>,
         quoting[q].pc # "idle",
         r.pc \in {"lock", "reverted"} => lockCalls[q] = 0,
         r.pc \in {"confirm", "sign", "finish"} => chain[q].landed
  PROVE  LockInv'
<1>1. UNCHANGED <<locks, walLocks, status, held, clock, chain, lockCalls, settleCalls,
                  scan, taking, todo, quoted>>
  BY DEF store, world
<1>2. quoted \subseteq Rfqs /\ \A p \in quoted : chain[p].landed
  BY DEF LockInv, QuoteOK
<1>3. QuoteOK' /\ quoting'[q] = r /\ \A p \in Rfqs \ {q} : quoting'[p] = quoting[p]
  BY <1>1, <1>2, QuoteGoes
<1>4. WorldOK'
  BY <1>1, WorldKept DEF LockInv
<1> QED BY <1>1, <1>3, <1>4, WorldMoves

\* wallet.lock submits the lock once: its record is durable, and until the
\* record is gone nobody quotes the RFQ again.
LEMMA WalletLockKeeps ==
  ASSUME LockInv, NEW q \in Rfqs, walletLock(q)
  PROVE  LockInv'
<1>1. quoting[q].pc = "lock" /\ lockCalls[q] = 0
  BY DEF walletLock, LockInv, QuoteOK
<1>2. CASE /\ quoting' = [quoting EXCEPT ![q].pc = "wait"]
           /\ lockCalls' = [lockCalls EXCEPT ![q] = @ + 1]
           /\ chain' = [chain EXCEPT ![q].maxB = locks[q].maxB]
  <2>1. UNCHANGED <<locks, walLocks, status, held, clock, settleCalls, scan, taking, todo, quoted>>
    BY DEF walletLock, store
  <2>2. /\ lockCalls' \in [Rfqs -> Nat] /\ lockCalls'[q] = 1
        /\ \A p \in Rfqs \ {q} : lockCalls'[p] = lockCalls[p]
    BY <1>1, <1>2 DEF LockInv, WorldOK
  <2>3. /\ chain' \in [Rfqs -> ChainLocks]
        /\ \A p \in Rfqs : chain'[p].settled = chain[p].settled /\ chain'[p].landed = chain[p].landed
    <3> DEFINE r == [chain[q] EXCEPT !.maxB = locks[q].maxB]
    <3>1. chain[q] \in ChainLocks /\ chain \in [Rfqs -> ChainLocks]
      BY DEF LockInv, WorldOK
    <3>2. locks[q].maxB \in Nat
      BY DEF LockInv, RecordsOK, LockTables, StoredLockRecord
    <3>3. r \in ChainLocks /\ r.settled = chain[q].settled /\ r.landed = chain[q].landed
      BY <3>1, <3>2 DEF ChainLocks
    <3>4. chain' = [chain EXCEPT ![q] = r]
      BY <1>2
    <3> HIDE DEF r
    <3> QED BY <3>1, <3>3, <3>4
  <2>4. /\ quoting' \in [Rfqs -> QuoteRequests] /\ quoting'[q].pc = "wait"
        /\ \A p \in Rfqs \ {q} : quoting'[p] = quoting[p]
    <3>1. PICK r : r \in QuoteRequests /\ r.pc = "wait" /\ quoting' = [quoting EXCEPT ![q] = r]
      BY <1>2, QuoteAt
    <3> QED BY <3>1 DEF LockInv, QuoteOK
  <2>5. WorldOK'
    BY <2>1, <2>2, <2>3, <1>1 DEF LockInv, WorldOK
  <2>6. QuoteOK'
    BY <2>1, <2>2, <2>3, <2>4 DEF LockInv, QuoteOK
  <2> QED BY <1>1, <2>1, <2>2, <2>3, <2>4, <2>5, <2>6, WorldMoves
<1>3. ASSUME NEW pc \in {"reverted", "unknown"}, quoting' = [quoting EXCEPT ![q].pc = pc],
             UNCHANGED <<lockCalls, chain>>
      PROVE  LockInv'
  <2>1. PICK r : r \in QuoteRequests /\ r.pc = pc /\ quoting' = [quoting EXCEPT ![q] = r]
    BY <1>3, QuoteAt
  <2>2. UNCHANGED <<store, clock, world, scan, taking, todo, quoted>>
    BY <1>3 DEF walletLock, world
  <2> QED BY <1>1, <2>1, <2>2, QuoteMoves
<1> QED BY <1>2, <1>3 DEF walletLock

LEMMA WalletLockReturnsKeeps ==
  ASSUME LockInv, NEW q \in Rfqs, walletLockReturns(q)
  PROVE  LockInv'
<1>1. PICK pc \in {"confirm", "reverted", "unknown"} :
        /\ pc = "confirm" => chain[q].landed
        /\ pc = "reverted" => lockCalls[q] = 0
        /\ quoting' = [quoting EXCEPT ![q].pc = pc]
  BY DEF walletLockReturns
<1>2. PICK r : r \in QuoteRequests /\ r.pc = pc /\ quoting' = [quoting EXCEPT ![q] = r]
  BY <1>1, QuoteAt
<1>3. quoting[q].pc # "idle" /\ UNCHANGED <<store, clock, world, scan, taking, todo, quoted>>
  BY DEF walletLockReturns
<1> QED BY <1>1, <1>2, <1>3, QuoteMoves

LEMMA QuoteOvertakenKeeps ==
  ASSUME LockInv, NEW q \in Rfqs, quoteOvertaken(q)
  PROVE  LockInv'
<1>1. /\ quoting[q].pc # "idle" /\ UNCHANGED <<store, clock, world, scan, taking, todo, quoted>>
      /\ quoting' = [quoting EXCEPT ![q].pc = "unknown"]
  BY DEF quoteOvertaken
<1>2. PICK r : r \in QuoteRequests /\ r.pc = "unknown" /\ quoting' = [quoting EXCEPT ![q] = r]
  BY <1>1, QuoteAt
<1> QED BY <1>1, <1>2, QuoteMoves

LEMMA QuoteSignKeeps ==
  ASSUME LockInv, NEW q \in Rfqs, quoteSign(q)
  PROVE  LockInv'
<1>1. quoting[q].pc = "sign" /\ UNCHANGED <<store, clock, world, scan, taking, todo, quoted>>
  BY DEF quoteSign
<1>2. chain[q].landed
  BY <1>1 DEF LockInv, QuoteOK
<1>3. PICK r : /\ r \in QuoteRequests /\ r.pc \in {"finish", "idle"}
               /\ quoting' = [quoting EXCEPT ![q] = r]
  BY QuoteAt, NotQuotingTyped DEF quoteSign
<1> QED BY <1>1, <1>2, <1>3, QuoteMoves

LEMMA QuoteLostKeeps ==
  ASSUME LockInv, NEW q \in Rfqs, quoteLost(q)
  PROVE  LockInv'
<1>1. /\ quoting[q].pc # "idle" /\ UNCHANGED <<store, clock, world, scan, taking, todo, quoted>>
      /\ quoting' = [quoting EXCEPT ![q] = NotQuoting]
  BY DEF quoteLost
<1> QED BY <1>1, NotQuotingTyped, QuoteMoves

-----------------------------------------------------------------------------
(* Steps that write no lock *)

\* A step that leaves the locks and their requests alone; the store may be
\* taken for an RFQ without a record, given back, or fail.
LEMMA TablesAside ==
  ASSUME LockInv, locks' = locks, walLocks' \in {locks, walLocks},
         status' # "failed" => walLocks' = locks, status' \in {status, "failed"},
         UNCHANGED <<clock, chain, lockCalls, settleCalls, quoting, scan, taking, todo, quoted>>,
         held'.at \in Nat, held' # Free => status' = "serving",
         \A q \in Rfqs : held'.subject = q => locks[q].state = "absent"
  PROVE  LockInv'
<1>1. clock \in Nat
  BY DEF LockInv, HeldOK
<1>2. \A p \in Rfqs : ContextKeeps(p)
  BY <1>1, ContextOf
<1>3. RecordsOK'
  BY <1>2, KeptRecords DEF LockInv
<1>4. HeldOK' /\ EarlyOK'
  BY DEF LockInv, HeldOK, EarlyOK, Early
<1>5. WorldOK' /\ QuoteOK' /\ TakingOK' /\ ScanOK'
  BY WorldKept, QuoteKept, TakingKept, ScanKept DEF LockInv
<1> QED BY <1>3, <1>4, <1>5 DEF LockInv

\* A write that only changes reservations.
LEMMA ReservationsWritten ==
  ASSUME LockInv, NEW draft, NEW ok \in BOOLEAN, AppendSnapshot(draft, locks, status, ok),
         UNCHANGED <<world, lockProcs>>, status # "failed"
  PROVE  LockInv'
<1>1. /\ locks' = locks /\ walLocks' \in {locks, walLocks} /\ status' \in {status, "failed"}
      /\ held' = Free
      /\ UNCHANGED <<clock, chain, lockCalls, settleCalls, quoting, scan, taking, todo, quoted>>
  BY DEF AppendSnapshot, world, lockProcs
<1>2. walLocks = locks
  BY DEF LockInv, RecordsOK
<1> QED BY <1>1, <1>2, FreeHolds, TablesAside

\* A transaction that stays open while the balance is read.
LEMMA StoreTaken ==
  ASSUME LockInv, NEW s, NEW at \in Stamps, NEW b, Serving,
         held' = [subject |-> s, at |-> at, balance |-> b],
         s \in Rfqs => locks[s].state = "absent",
         UNCHANGED <<locks, walLocks, status, clock, world, lockProcs>>
  PROVE  LockInv'
<1>1. UNCHANGED <<chain, lockCalls, settleCalls, quoting, scan, taking, todo, quoted>>
  BY DEF world, lockProcs
<1>2. at \in Nat /\ walLocks = locks /\ status = "serving"
  BY DEF Stamps, Serving, LockInv, RecordsOK
<1> QED BY <1>1, <1>2, TablesAside

LEMMA QuoteNextKeeps ==
  ASSUME LockInv, QuoteNext
  PROVE  LockInv'
<1>1. ASSUME NEW q \in Rfqs, NEW at \in Stamps, quoteV3(q, at) PROVE LockInv'
  <2>1. /\ Serving /\ locks[q].state = "absent"
        /\ held' = [subject |-> q, at |-> at, balance |-> privateBalance]
        /\ UNCHANGED <<locks, walLocks, status, clock, world, lockProcs>>
    BY <1>1 DEF quoteV3
  <2> QED BY <2>1, StoreTaken
<1>2. ASSUME NEW q \in Rfqs, NEW ok \in BOOLEAN, quoteRefused(q, ok) PROVE LockInv'
  <2>1. /\ AppendSnapshot(records, locks, status, ok) /\ UNCHANGED <<world, lockProcs>>
        /\ held.subject = q
    BY <1>2 DEF quoteRefused
  <2>2. status # "failed"
    BY <2>1, FreeHolds DEF LockInv, HeldOK
  <2> QED BY <2>1, <2>2, ReservationsWritten
<1> QED BY <1>1, <1>2, QuoteAcquiredKeeps, QuoteConfirmedKeeps, QuoteFailedKeeps,
           QuoteFinishKeeps, QuoteReplayKeeps, WalletLockKeeps, WalletLockReturnsKeeps,
           QuoteOvertakenKeeps, QuoteSignKeeps, QuoteLostKeeps DEF QuoteNext, QuoteStep

\* The reservations share the store with the locks and never touch them.
LEMMA ReservationsAside ==
  ASSUME LockInv, ReservationNext, UNCHANGED lockProcs
  PROVE  LockInv'
<1>1. ASSUME NEW draft, NEW ok \in BOOLEAN, transaction(draft, ok), UNCHANGED world
      PROVE  LockInv'
  BY <1>1, ReservationsWritten DEF transaction, Usable
<1>2. ASSUME NEW i \in Intents, NEW ok \in BOOLEAN, reserveCommit(i, ok) PROVE LockInv'
  <2>1. held.subject = i /\ UNCHANGED world
    BY <1>2 DEF reserveCommit
  <2>2. status # "failed"
    BY <2>1, FreeHolds DEF LockInv, HeldOK
  <2>3. PICK draft : AppendSnapshot(draft, locks, status, ok)
    BY <1>2 DEF reserveCommit
  <2> QED BY <2>1, <2>2, <2>3, ReservationsWritten
<1>3. ASSUME NEW i \in Intents, NEW at \in Stamps, reserve(i, at) PROVE LockInv'
  <2>1. /\ Serving /\ held' = [subject |-> i, at |-> at, balance |-> privateBalance]
        /\ UNCHANGED <<locks, walLocks, status, clock, world>>
    BY <1>3 DEF reserve
  <2>2. i \notin Rfqs
    BY WalletAssumption
  <2> QED BY <2>1, <2>2, StoreTaken
<1>4. ASSUME NEW i \in Intents, reserveRefused(i) PROVE LockInv'
  <2>1. /\ held' = Free /\ UNCHANGED <<locks, walLocks, status, clock, world>>
        /\ held.subject = i
    BY <1>4 DEF reserveRefused
  <2>2. walLocks = locks
    BY <2>1, FreeHolds DEF LockInv, HeldOK, RecordsOK
  <2>3. UNCHANGED <<chain, lockCalls, settleCalls, quoting, scan, taking, todo, quoted>>
    BY <2>1 DEF world, lockProcs
  <2> QED BY <2>1, <2>2, <2>3, FreeHolds, TablesAside
<1>5. ASSUME UNCHANGED <<store, clock, chain, lockCalls, settleCalls>> PROVE LockInv'
  <2>1. UNCHANGED <<locks, walLocks, status, held, clock, chain, lockCalls, settleCalls,
                    quoting, scan, taking, todo, quoted>>
    BY <1>5 DEF store, lockProcs
  <2>2. WorldOK' /\ QuoteOK'
    BY <2>1, WorldKept, QuoteKept DEF LockInv
  <2> QED BY <2>1, <2>2, WorldMoves
<1>6. ASSUME NEW i \in Intents,
             consumeRefused(i) \/ walletFill(i) \/ walletFillReturns(i)
      PROVE  LockInv'
  <2>1. UNCHANGED <<store, clock, chain, lockCalls, settleCalls>>
    BY <1>6 DEF consumeRefused, walletFill, walletFillReturns, world
  <2> QED BY <1>5, <2>1
<1>7. ASSUME NEW i \in Intents, NEW ok \in BOOLEAN, consume(i, ok) \/ fillFailed(i, ok)
      PROVE  LockInv'
  <2>1. (\E draft : transaction(draft, ok)) /\ UNCHANGED world
    BY <1>7 DEF consume, fillFailed
  <2> QED BY <1>1, <2>1
<1>8. ASSUME NEW at \in Stamps, NEW ok \in BOOLEAN, Touch(at, ok) PROVE LockInv'
  BY <1>1, <1>8 DEF Touch
<1>9. ASSUME NEW i \in Intents, NEW at \in Stamps, NEW ok \in BOOLEAN,
             \/ \E q \in Quotes : signQuote(i, q, at, ok)
             \/ select(i, at, ok) \/ release(i, at, ok)
             \/ \E d \in Deals : fill(i, d, at, ok) \/ bindSettlementForReconciliation(i, d, at, ok)
             \/ \E d \in Deals, fence \in Fences, v \in Revisions, o \in AuthorityOutcomes :
                  \/ quarantineForAuthority(i, d, fence, v, o, at, ok)
                  \/ reconcileAuthoritativeTerminal(i, d, fence, v, o, at, ok)
      PROVE  LockInv'
  <2>1. (\E rec : Update(i, at, rec, ok)) /\ UNCHANGED world
    <3> DEFINE Goal == (\E rec : Update(i, at, rec, ok)) /\ UNCHANGED world
    <3> HIDE DEF Goal
    <3>1. ASSUME NEW q \in Quotes, signQuote(i, q, at, ok) PROVE Goal
      BY <3>1 DEF signQuote, Goal
    <3>2. ASSUME select(i, at, ok) \/ release(i, at, ok) PROVE Goal
      BY <3>2 DEF select, release, Goal
    <3>3. ASSUME NEW d \in Deals, fill(i, d, at, ok) PROVE Goal
      BY <3>3 DEF fill, Goal
    <3>4. ASSUME NEW d \in Deals, bindSettlementForReconciliation(i, d, at, ok) PROVE Goal
      BY <3>4 DEF bindSettlementForReconciliation, Goal
    <3>5. ASSUME NEW d \in Deals, NEW fence \in Fences, NEW v \in Revisions,
                 NEW o \in AuthorityOutcomes, quarantineForAuthority(i, d, fence, v, o, at, ok)
          PROVE  Goal
      BY <3>5 DEF quarantineForAuthority, Goal
    <3>6. ASSUME NEW d \in Deals, NEW fence \in Fences, NEW v \in Revisions,
                 NEW o \in AuthorityOutcomes,
                 reconcileAuthoritativeTerminal(i, d, fence, v, o, at, ok)
          PROVE  Goal
      BY <3>6 DEF reconcileAuthoritativeTerminal, Goal
    <3>7. Goal
      BY <1>9, <3>1, <3>2, <3>3, <3>4, <3>5, <3>6
    <3> QED BY <3>7 DEF Goal
  <2>2. \E draft : transaction(draft, ok)
    BY <2>1 DEF Update
  <2> QED BY <1>1, <2>1, <2>2
<1> QED BY <1>2, <1>3, <1>4, <1>6, <1>7, <1>8, <1>9 DEF ReservationNext

\* recoverAfterRestart puts every lock that is not over on its list; nobody
\* quotes yet.
LEMMA RecoverLocksKeeps ==
  ASSUME LockInv, NEW ok \in BOOLEAN, recoverAfterRestart(ok)
  PROVE  LockInv'
<1> DEFINE next == [NotScanning EXCEPT !.at = clock]
<1>1. /\ status = "opened" /\ locks' = locks /\ walLocks' \in {locks, walLocks}
      /\ status' \in {"refreshing", "failed"} /\ held' = Free
      /\ scan' = next /\ todo' = {q \in Rfqs : Live(locks[q])}
      /\ UNCHANGED <<clock, chain, lockCalls, settleCalls, quoting, taking, quoted>>
  BY DEF recoverAfterRestart, recoverRecords, AppendSnapshot, world
<1>2. clock \in Nat /\ walLocks = locks /\ \A q \in Rfqs : quoting[q].pc = "idle"
  BY <1>1 DEF LockInv, HeldOK, RecordsOK
<1>3. ScanTyped(next) /\ next.pc = "idle" /\ next.q = NoRfq
  BY <1>2, Resting
<1>4. \A p \in Rfqs : ContextKeeps(p)
  BY <1>1, <1>2, <1>3, ContextOf
<1>5. RecordsOK'
  BY <1>1, <1>2, <1>4, KeptRecords DEF LockInv
<1>6. PICK s : s = next
  OBVIOUS
<1> HIDE DEF next
<1>7. HeldOK'
  BY <1>1, <1>2, FreeHolds DEF HeldOK
<1>8. WorldOK' /\ QuoteOK' /\ TakingOK'
  BY <1>1, WorldKept, QuoteKept, TakingKept DEF LockInv
<1>9. ScanOK'
  BY <1>1, <1>3, <1>6, ScanPlaced
<1>10. EarlyOK'
  BY <1>1, <1>2, <1>3, LocksAssumption DEF EarlyOK, Early, Live
<1> QED BY <1>5, <1>7, <1>8, <1>9, <1>10 DEF LockInv

\* What is on disk is right without the requests that wrote it.
LEMMA CrashLocksKeeps ==
  ASSUME LockInv, Crash
  PROVE  LockInv'
<1>1. /\ locks' = walLocks /\ walLocks' = walLocks /\ status' = "opened" /\ held' = Free
      /\ quoting' = [q \in Rfqs |-> NotQuoting] /\ scan' = NotScanning
      /\ taking' = [t \in Requests |-> NotTaking] /\ todo' = {}
      /\ UNCHANGED <<clock, chain, lockCalls, settleCalls, quoted>>
  BY DEF Crash, Reopen, world
<1>2. clock \in Nat
  BY DEF LockInv, HeldOK
<1>3. \A q \in Rfqs : quoting'[q] = NotQuoting /\ quoting'[q].pc = "idle"
  BY <1>1, NotQuotingTyped
<1>4. \A p \in Rfqs : ContextKeeps(p)
  BY <1>1, <1>2, <1>3, RestingAtStart, ContextOf
<1>5. RecordsOK'
  <2>1. ASSUME NEW p \in Rfqs PROVE RecordOK(p, locks[p])' /\ RecordOK(p, walLocks[p])'
    <3>1. RecordOK(p, walLocks[p]) /\ ContextKeeps(p)
      BY <1>4 DEF LockInv, RecordsOK
    <3>2. locks'[p] = walLocks[p] /\ walLocks'[p] = walLocks[p]
      BY <1>1
    <3> QED BY <3>1, <3>2, KeptInTables
  <2> QED BY <1>1, <2>1 DEF LockInv, RecordsOK
<1>6. HeldOK'
  BY <1>1, <1>2, <1>3, FreeHolds DEF HeldOK
<1>7. WorldOK'
  BY <1>1, WorldKept DEF LockInv
<1>8. QuoteOK'
  <2>1. quoting' \in [Rfqs -> QuoteRequests]
    BY <1>1, NotQuotingTyped
  <2> QED BY <1>1, <1>3, <2>1 DEF LockInv, QuoteOK
<1>9. TakingOK'
  BY <1>1, NotTakingTyped DEF TakingOK
<1>10. ScanOK'
  BY <1>1, RestingAtStart, ScanPlaced
<1>11. EarlyOK'
  BY <1>1, <1>3, RestingAtStart, LocksAssumption DEF EarlyOK, Early
<1> QED BY <1>5, <1>6, <1>7, <1>8, <1>9, <1>10, <1>11 DEF LockInv

LEMMA TickKeeps ==
  ASSUME LockInv, Tick, UNCHANGED <<store, world, lockProcs>>
  PROVE  LockInv'
<1>1. /\ clock' = clock + 1
      /\ UNCHANGED <<locks, walLocks, status, held, chain, lockCalls, settleCalls,
                     quoting, scan, taking, todo, quoted>>
  BY DEF Tick, store, world, lockProcs
<1>2. clock \in Nat /\ clock' \in Nat /\ clock <= clock'
  BY <1>1 DEF LockInv, HeldOK
<1>3. \A p \in Rfqs : ContextKeeps(p)
  BY <1>1, <1>2, ContextOf
<1>4. RecordsOK'
  BY <1>1, <1>3, KeptRecords DEF LockInv, RecordsOK
<1>5. HeldOK'
  BY <1>1, <1>2 DEF LockInv, HeldOK
<1>6. EarlyOK'
  <2> SUFFICES ASSUME NEW q \in Rfqs, clock' < LockExpiry[q] PROVE Early(q)'
    BY DEF EarlyOK, Early
  <2>1. clock < LockExpiry[q] /\ Early(q)
    BY <1>1, <1>2, WalletAssumption DEF LockInv, EarlyOK
  <2> QED BY <1>1, <2>1 DEF Early
<1>7. WorldOK' /\ QuoteOK' /\ TakingOK' /\ ScanOK'
  BY <1>1, WorldKept, QuoteKept, TakingKept, ScanKept DEF LockInv
<1> QED BY <1>4, <1>5, <1>6, <1>7 DEF LockInv

LEMMA LockInvInit == Init => LockInv
<1> SUFFICES ASSUME Init PROVE LockInv
  OBVIOUS
<1>1. /\ locks = [q \in Rfqs |-> NoLock] /\ walLocks = locks
      /\ quoting = [q \in Rfqs |-> NotQuoting] /\ scan = NotScanning
      /\ taking = [t \in Requests |-> NotTaking] /\ todo = {} /\ quoted = {}
      /\ status = "serving" /\ held = Free /\ clock = 0
      /\ chain = [q \in Rfqs |-> EmptyLock] /\ lockCalls = [q \in Rfqs |-> 0]
      /\ settleCalls = [q \in Rfqs |-> [a \in Actions |-> 0]]
  BY DEF Init, LocksInit, WorldInit
<1>2. /\ NoLock \in StoredLockRecord /\ AttemptNamed(NoLock) /\ NoLock.state = "absent"
      /\ ~NoLock.signed
  BY NoAttemptTyped DEF NoLock, StoredLockRecord, AttemptNamed
<1>3. /\ EmptyLock \in ChainLocks /\ ~EmptyLock.landed
      /\ \A a \in Actions : ~EmptyLock.settled[a]
  BY DEF EmptyLock, ChainLocks
<1> HIDE DEF NoLock, EmptyLock
<1>4. /\ \A q \in Rfqs : /\ locks[q] = NoLock /\ quoting[q].pc = "idle"
                         /\ chain[q] = EmptyLock /\ lockCalls[q] = 0
                         /\ \A a \in Actions : settleCalls[q][a] = 0
      /\ scan.pc = "idle" /\ scan.q = NoRfq /\ ScanTyped(scan)
  BY <1>1, NotQuotingTyped, RestingAtStart
<1>5. WorldOK
  BY <1>1, <1>3, <1>4 DEF WorldOK
<1>6. RecordsOK
  <2>1. ASSUME NEW q \in Rfqs PROVE RecordOK(q, NoLock)
    BY <1>1, <1>2, <1>4 DEF RecordOK, Canonical, Outstanding
  <2> QED BY <1>1, <1>2, <1>4, <2>1 DEF RecordsOK, LockTables
<1>7. HeldOK
  BY <1>1, <1>4, FreeHolds DEF HeldOK
<1>8. QuoteOK
  <2>1. quoting \in [Rfqs -> QuoteRequests]
    BY <1>1, NotQuotingTyped
  <2> QED BY <1>1, <1>4, <2>1 DEF QuoteOK
<1>9. TakingOK
  BY <1>1, NotTakingTyped DEF TakingOK
<1>10. ScanOK /\ EarlyOK
  BY <1>1, <1>4, LocksAssumption DEF ScanOK, EarlyOK, Early
<1> QED BY <1>5, <1>6, <1>7, <1>8, <1>9, <1>10 DEF LockInv

\* Every step of the node, of the process and of the chain keeps what disk,
\* memory, requests and chain know of each other.
LEMMA LockInvKept == LockInv /\ [Next]_vars => LockInv'
<1> SUFFICES ASSUME LockInv, [Next]_vars PROVE LockInv'
  OBVIOUS
<1>1. CASE UNCHANGED vars
  <2>1. UNCHANGED <<locks, walLocks, status, held, clock, chain, lockCalls, settleCalls,
                    quoting, scan, taking, todo, quoted>>
    BY <1>1 DEF vars, store, world, lockProcs
  <2>2. WorldOK' /\ QuoteOK'
    BY <2>1, WorldKept, QuoteKept DEF LockInv
  <2> QED BY <2>1, <2>2, WorldMoves
<1>2. CASE Next
  BY <1>2, ReservationsAside, QuoteNextKeeps, ScanNextKeeps, TakeNextKeeps, RecoverLocksKeeps,
     CrashLocksKeeps, TickKeeps, WorldKeeps DEF Next, LockNext
<1> QED BY <1>1, <1>2

\* What disk, memory, the requests under way and the chain know of each other
\* holds at every step.
THEOREM LockInvariant == Spec => []LockInv
<1>1. QED
  BY LockInvInit, LockInvKept, PTL DEF Spec

-----------------------------------------------------------------------------
(* What the invariant says of the maker *)

\* One lock transaction of an RFQ and one settlement transaction of each side
\* of a lock are out at any time, through crashes, unknown outcomes, known
\* reverts and operator resolutions.
THEOREM OneSubmissionAtATime == Spec => []OneSubmission
<1>1. LockInv => OneSubmission
  BY DEF LockInv, WorldOK, OneSubmission
<1>2. QED
  BY <1>1, LockInvariant, PTL

\* The record on disk knows of every lock that is or may come on chain, is
\* settled only when the chain is, and carries the signature of a quote that
\* can still be taken.
THEOREM LocksOnRecord == Spec => []OnRecord
<1>1. LockInv => OnRecord
  <2> SUFFICES ASSUME LockInv, NEW q \in Rfqs
               PROVE  /\ chain[q].landed \/ lockCalls[q] > 0 => walLocks[q].state # "absent"
                      /\ walLocks[q].state = "settled" => \A a \in Actions : chain[q].settled[a]
                      /\ q \in quoted => /\ chain[q].landed
                                         /\ clock < LockExpiry[q] => walLocks[q].signed
    BY DEF OnRecord
  <2>1. RecordOK(q, walLocks[q])
    BY DEF LockInv, RecordsOK
  <2>2. chain[q].landed => lockCalls[q] > 0
    BY DEF LockInv, WorldOK
  <2>3. q \in quoted => chain[q].landed
    BY DEF LockInv, QuoteOK
  <2> QED BY <2>1, <2>2, <2>3 DEF RecordOK
<1>2. QED
  BY <1>1, LockInvariant, PTL

\* Whatever the requests, the crashes and the uncertain writes, the file holds
\* reservations and locks that load again.
THEOREM FileLoads == Spec => []Loadable
<1>1. NodeInv /\ LockInv => Loadable
  <2> SUFFICES ASSUME NodeInv, LockInv PROVE Loadable
    OBVIOUS
  <2>1. \A i \in Intents : assertMakerReservation(walRecords[i])
    BY DEF NodeInv, StoreInv, AdvanceAll, Advance, Sound
  <2>2. \A q \in Rfqs : Canonical(walLocks[q])
    BY DEF LockInv, RecordsOK, RecordOK
  <2> QED BY <2>1, <2>2 DEF Loadable
<1>2. QED
  BY <1>1, NodeInvariant, LockInvariant, PTL

-----------------------------------------------------------------------------
(* What the inventory is promised to *)

\* A fill that landed, may still be submitted or land, or that a signed quote
\* can still lead to.
Promised(i, rec) ==
  \/ fillTx[i] \in {"sent", "landed"} \/ fills[i].pc = "call"
  \/ rec.reservation.state \in ActiveStates

FillClaims(recs) == [i \in Intents |-> IF Promised(i, recs[i]) THEN Amount[i] ELSE 0]

\* A lock that landed, or that may still be submitted or land.
LockClaim(q) ==
  IF chain[q].landed THEN Collateral(chain[q])
  ELSE IF clock < LockExpiry[q] /\ (lockCalls[q] > 0 \/ quoting[q].pc = "lock")
  THEN OwedCollateral(q) ELSE 0

LockClaims == [q \in Rfqs |-> LockClaim(q)]

Claims(recs) == SumFunction(FillClaims(recs)) + SumFunction(LockClaims)

\* The records count a lock that did not land in full: none of them takes it
\* for one that did, and all have its maximum payout.
Backed(q, rec) ==
  /\ ~chain[q].landed => rec.state \notin {"open", "taken", "expired"}
  /\ ~chain[q].landed /\ lockCalls[q] > 0 => rec.maxB = chain[q].maxB
  /\ quoting[q].pc = "lock" => rec.maxB = locks[q].maxB /\ rec.maxB >= 1

LockCover == \A q \in Rfqs : Backed(q, locks[q]) /\ Backed(q, walLocks[q])

\* A lock is taken before it expires and released after, so that a release
\* gives back what was not taken.
ChainCover ==
  \A q \in Rfqs :
    /\ lockCalls[q] > 0 => chain[q].maxB >= 1
    /\ chain[q].taken <= 1
    /\ chain[q].settled["release"] => clock >= LockExpiry[q]

\* A fill that is recorded as settled is on chain.
FillCover ==
  /\ fillTx \in [Intents -> {"none", "sent", "landed", "reverted"}]
  /\ \A i \in Intents :
       /\ fillCalls[i] = 0 => fillTx[i] = "none"
       /\ fills[i].pc = "returned" => fillTx[i] = "landed"
       /\ records[i].hash \/ walRecords[i].hash => fillTx[i] = "landed"

\* The inventory covers the claims, by the records in memory and by those the
\* process would start again with.
ClaimCover == Claims(records) <= Inventory /\ Claims(walRecords) <= Inventory

\* What an open transaction was told is spare is not promised, whatever landed
\* or was submitted since.
HeldCover ==
  held # Free =>
    /\ held.at <= clock /\ held.balance \in Int
    /\ held.balance + Claims(records)
         <= Inventory + Reserved(records) + Unresolved(locks, held.at)

CoverInv == ChainCover /\ LockCover /\ FillCover /\ ClaimCover /\ HeldCover

-----------------------------------------------------------------------------
(* The sums *)

LEMMA AmountTyped == ASSUME NEW i \in Intents PROVE Amount[i] \in Nat
BY WalletAssumption

LEMMA FillClaimsTyped ==
  ASSUME NEW recs
  PROVE  /\ FillClaims(recs) \in [Intents -> Int]
         /\ SumFunction(FillClaims(recs)) \in Int
<1>1. FillClaims(recs) \in [Intents -> Int]
  BY AmountTyped DEF FillClaims
<1> QED BY <1>1, SumInt, WalletAssumption

LEMMA LockClaimsTyped ==
  ASSUME LockInv
  PROVE  /\ LockClaims \in [Rfqs -> Nat]
         /\ LockClaims \in [Rfqs -> Int]
         /\ SumFunction(LockClaims) \in Int
<1>1. ASSUME NEW q \in Rfqs PROVE LockClaim(q) \in Nat
  <2>1. chain[q] \in ChainLocks /\ locks[q] \in StoredLockRecord
    BY DEF LockInv, WorldOK, RecordsOK, LockTables
  <2>2. /\ chain[q].maxB \in Nat /\ chain[q].taken \in Nat /\ locks[q].maxB \in Nat
    BY <2>1 DEF ChainLocks, StoredLockRecord
  <2> QED BY <2>2 DEF LockClaim, Collateral, OwedCollateral
<1>2. LockClaims \in [Rfqs -> Nat]
  BY <1>1 DEF LockClaims
<1>3. LockClaims \in [Rfqs -> Int]
  BY <1>2
<1> QED BY <1>2, <1>3, SumInt, WalletAssumption

\* What the reservations hold back, intent by intent.
Locked(recs) ==
  [i \in Intents |-> IF capacityLockedState(recs[i].reservation.state) THEN Amount[i] ELSE 0]

LEMMA ReservedIsSum ==
  ASSUME NEW recs
  PROVE  /\ Reserved(recs) = SumFunction(Locked(recs))
         /\ Locked(recs) \in [Intents -> Int] /\ Reserved(recs) \in Int
<1> DEFINE T == {i \in Intents : capacityLockedState(recs[i].reservation.state)}
           g == [i \in Intents |-> IF i \in T THEN Amount[i] ELSE 0]
<1>1. T \in SUBSET Intents /\ \A i \in Intents : Amount[i] \in Int
  BY AmountTyped
<1>2. g = Locked(recs)
  BY DEF Locked
<1>3. Reserved(recs) = SumFunctionOnSet(Amount, T)
  BY DEF Reserved
<1> HIDE DEF T
<1>4. SumFunctionOnSet(Amount, T) = SumFunction(g)
  BY <1>1, SumRestrict, WalletAssumption
<1>5. Locked(recs) \in [Intents -> Int]
  BY AmountTyped DEF Locked
<1> QED BY <1>2, <1>3, <1>4, <1>5, SumInt, WalletAssumption

\* What the locks hold back, RFQ by RFQ.
Withheld(lks, now) ==
  [q \in Rfqs |-> IF lockReservesCapacity(lks[q], q, now) THEN lks[q].maxB ELSE 0]

LEMMA UnresolvedIsSum ==
  ASSUME NEW lks \in LockTables, NEW now
  PROVE  /\ Unresolved(lks, now) = SumFunction(Withheld(lks, now))
         /\ Withheld(lks, now) \in [Rfqs -> Int] /\ Unresolved(lks, now) \in Int
<1> DEFINE T == {q \in Rfqs : lockReservesCapacity(lks[q], q, now)}
           f == [q \in Rfqs |-> lks[q].maxB]
           g == [q \in Rfqs |-> IF q \in T THEN f[q] ELSE 0]
<1>1. T \in SUBSET Rfqs /\ \A q \in Rfqs : f[q] \in Int
  BY DEF LockTables, StoredLockRecord
<1>2. g = Withheld(lks, now) /\ Withheld(lks, now) \in [Rfqs -> Int]
  <2>1. \A q \in Rfqs : lks[q].maxB \in Int
    BY <1>1
  <2> QED BY <2>1 DEF Withheld
<1>3. Unresolved(lks, now) = SumFunctionOnSet(f, T)
  BY DEF Unresolved
<1> HIDE DEF T, f
<1>4. SumFunctionOnSet(f, T) = SumFunction(g)
  BY <1>1, SumRestrict, WalletAssumption
<1> QED BY <1>2, <1>3, <1>4, SumInt, WalletAssumption

\* What has left the inventory, fill by fill and lock by lock.
Paid == [i \in Intents |-> IF fillTx[i] = "landed" THEN Amount[i] ELSE 0]

Deposited == [q \in Rfqs |-> IF chain[q].landed THEN Collateral(chain[q]) ELSE 0]

LEMMA BalanceIsSum ==
  ASSUME LockInv
  PROVE  /\ privateBalance = Inventory - SumFunction(Paid) - SumFunction(Deposited)
         /\ Paid \in [Intents -> Int] /\ Deposited \in [Rfqs -> Int]
         /\ SumFunction(Paid) \in Int /\ SumFunction(Deposited) \in Int
         /\ privateBalance \in Int
<1> DEFINE T == {i \in Intents : fillTx[i] = "landed"}
           U == {q \in Rfqs : chain[q].landed}
           f == [q \in Rfqs |-> Collateral(chain[q])]
           g == [i \in Intents |-> IF i \in T THEN Amount[i] ELSE 0]
           h == [q \in Rfqs |-> IF q \in U THEN f[q] ELSE 0]
<1>1. T \in SUBSET Intents /\ U \in SUBSET Rfqs /\ \A i \in Intents : Amount[i] \in Int
  BY AmountTyped
<1>2. \A q \in Rfqs : Collateral(chain[q]) \in Int
  BY DEF LockInv, WorldOK, ChainLocks, Collateral
<1>3. \A q \in Rfqs : f[q] \in Int
  BY <1>2
<1>4. g = Paid /\ h = Deposited
  BY DEF Paid, Deposited
<1>5. privateBalance = Inventory - SumFunctionOnSet(Amount, T) - SumFunctionOnSet(f, U)
  BY DEF privateBalance
<1> HIDE DEF T, U, f
<1>6. SumFunctionOnSet(Amount, T) = SumFunction(g) /\ SumFunctionOnSet(f, U) = SumFunction(h)
  BY <1>1, <1>3, SumRestrict, WalletAssumption
<1>7. Paid \in [Intents -> Int] /\ Deposited \in [Rfqs -> Int]
  BY <1>2, AmountTyped DEF Paid, Deposited
<1>8. SumFunction(Paid) \in Int /\ SumFunction(Deposited) \in Int
  BY <1>7, SumInt, WalletAssumption
<1>9. privateBalance = Inventory - SumFunction(Paid) - SumFunction(Deposited)
  BY <1>4, <1>5, <1>6
<1> QED BY <1>7, <1>8, <1>9, WalletAssumption

-----------------------------------------------------------------------------
(* What the invariant says at any moment *)

\* An intent the wallet was or may be asked to fill is attempted on record.
LEMMA CalledIsAttempted ==
  ASSUME NodeInv, FillCover, NEW i \in Intents,
         fillTx[i] # "none" \/ fills[i].pc = "call"
  PROVE  /\ Attempted(records[i]) /\ Attempted(walRecords[i])
         /\ records[i].reservation.state \in {"filling", "consumed", "quarantined"}
         /\ walRecords[i].reservation.state \in {"filling", "consumed", "quarantined"}
<1>a. fillCalls[i] \in Nat /\ fillCalls[i] <= 1
  BY DEF NodeInv, FillInv
<1>b. fillCalls[i] = 0 => fillTx[i] = "none"
  BY DEF FillCover
<1>1. fillCalls[i] = 1 \/ fills[i].pc = "call"
  BY <1>a, <1>b
<1>2. Attempted(records[i])
  BY <1>1 DEF NodeInv, FillInv
<1>3. Attempted(walRecords[i]) /\ Sound(records[i]) /\ Sound(walRecords[i])
  BY <1>2 DEF NodeInv, StoreInv, AdvanceAll, Advance
<1> QED BY <1>2, <1>3 DEF Sound

\* What is promised has been paid or is held back.
LEMMA FillsHeldBack ==
  ASSUME NodeInv, FillCover, NEW i \in Intents
  PROVE  FillClaims(records)[i] <= Paid[i] + Locked(records)[i]
<1>1. Amount[i] \in Nat
  BY AmountTyped
<1>2. ASSUME Promised(i, records[i]), fillTx[i] # "landed"
      PROVE  capacityLockedState(records[i].reservation.state)
  <2>1. CASE records[i].reservation.state \in ActiveStates
    BY <2>1 DEF capacityLockedState
  <2>2. CASE records[i].reservation.state \notin ActiveStates
    <3>1. fillTx[i] # "none" \/ fills[i].pc = "call"
      BY <1>2, <2>2 DEF Promised
    <3>2. records[i].reservation.state \in {"filling", "consumed", "quarantined"}
      BY <3>1, CalledIsAttempted
    <3>3. records[i].reservation.state # "consumed"
      BY <1>2 DEF FillCover, NodeInv, StoreInv, Sound, assertMakerReservation
    <3> QED BY <3>2, <3>3 DEF capacityLockedState, ActiveStates
  <2> QED BY <2>1, <2>2
<1>3. /\ FillClaims(records)[i] = IF Promised(i, records[i]) THEN Amount[i] ELSE 0
      /\ Paid[i] = IF fillTx[i] = "landed" THEN Amount[i] ELSE 0
      /\ Locked(records)[i] = IF capacityLockedState(records[i].reservation.state)
                              THEN Amount[i] ELSE 0
  BY DEF FillClaims, Paid, Locked
<1>4. Paid[i] \in Nat /\ Locked(records)[i] \in Nat
  BY <1>1, <1>3
<1>5. CASE Promised(i, records[i]) /\ fillTx[i] # "landed"
  <2>1. FillClaims(records)[i] = Amount[i] /\ Locked(records)[i] = Amount[i]
    BY <1>2, <1>3, <1>5
  <2> QED BY <1>1, <1>4, <2>1
<1>6. CASE fillTx[i] = "landed"
  <2>1. FillClaims(records)[i] = Amount[i] /\ Paid[i] = Amount[i]
    BY <1>3, <1>6 DEF Promised
  <2> QED BY <1>1, <1>4, <2>1
<1>7. CASE ~Promised(i, records[i])
  <2>1. FillClaims(records)[i] = 0
    BY <1>3, <1>7
  <2> QED BY <1>4, <2>1
<1> QED BY <1>5, <1>6, <1>7

LEMMA LocksHeldBack ==
  ASSUME LockInv, LockCover, NEW q \in Rfqs, NEW at \in Nat, at <= clock
  PROVE  LockClaims[q] <= Deposited[q] + Withheld(locks, at)[q]
<1>1. /\ chain[q] \in ChainLocks /\ locks[q] \in StoredLockRecord /\ RecordOK(q, locks[q])
      /\ Backed(q, locks[q]) /\ clock \in Nat
  BY DEF LockInv, WorldOK, RecordsOK, LockTables, LockCover, HeldOK
<1>2. /\ chain[q].maxB \in Nat /\ chain[q].taken \in Nat /\ locks[q].maxB \in Nat
      /\ LockExpiry[q] \in Nat /\ Grace \in Nat /\ Collateral(chain[q]) \in Nat
  BY <1>1, WalletAssumption DEF ChainLocks, StoredLockRecord, Collateral
<1>3. /\ LockClaims[q] = LockClaim(q)
      /\ Deposited[q] = IF chain[q].landed THEN Collateral(chain[q]) ELSE 0
      /\ Withheld(locks, at)[q] = IF lockReservesCapacity(locks[q], q, at)
                                  THEN locks[q].maxB ELSE 0
  BY DEF LockClaims, Deposited, Withheld
<1>4. Deposited[q] \in Nat /\ Withheld(locks, at)[q] \in Nat
  BY <1>2, <1>3
<1>5. CASE chain[q].landed
  <2>1. LockClaim(q) = Collateral(chain[q]) /\ Deposited[q] = Collateral(chain[q])
    BY <1>3, <1>5 DEF LockClaim
  <2> QED BY <1>2, <1>3, <1>4, <2>1
<1>6. CASE ~chain[q].landed /\ clock < LockExpiry[q] /\ (lockCalls[q] > 0 \/ quoting[q].pc = "lock")
  <2>1. locks[q].state \notin {"open", "taken", "expired", "absent", "settled"}
    <3>1. locks[q].state # "absent"
      BY <1>1, <1>6 DEF RecordOK
    <3>2. locks[q].state # "settled"
      <4>1. chain[q].settled["release"] => chain[q].landed
        BY DEF LockInv, WorldOK, Actions
      <4> QED BY <1>1, <1>6, <4>1 DEF RecordOK, Actions
    <3> QED BY <1>1, <1>6, <3>1, <3>2 DEF Backed
  <2>2. locks[q].state \in {"locking", "reconcile-pending", "settlement-unknown", "quarantined"}
    BY <1>1, <2>1 DEF StoredLockRecord, LockStates, PriorStates
  <2>3. at < LockExpiry[q] + Grace
    BY <1>1, <1>2, <1>6
  <2>4. lockReservesCapacity(locks[q], q, at)
    BY <2>2, <2>3 DEF lockReservesCapacity
  <2>5. OwedCollateral(q) = locks[q].maxB
    BY <1>1, <1>6 DEF OwedCollateral, Backed
  <2>6. LockClaim(q) = locks[q].maxB
    BY <1>6, <2>5 DEF LockClaim
  <2> QED BY <1>2, <1>3, <1>4, <2>4, <2>6
<1>7. CASE /\ ~chain[q].landed
           /\ ~(clock < LockExpiry[q] /\ (lockCalls[q] > 0 \/ quoting[q].pc = "lock"))
  <2>1. LockClaim(q) = 0
    BY <1>7 DEF LockClaim
  <2> QED BY <1>3, <1>4, <2>1
<1> QED BY <1>5, <1>6, <1>7

\* The balance without what is held back is not promised to anyone.
LEMMA SpareIsFree ==
  ASSUME NodeInv, LockInv, FillCover, LockCover, NEW at \in Nat, at <= clock
  PROVE  privateBalance + Claims(records)
           <= Inventory + Reserved(records) + Unresolved(locks, at)
<1>1. /\ Reserved(records) = SumFunction(Locked(records))
      /\ Locked(records) \in [Intents -> Int] /\ Reserved(records) \in Int
  BY ReservedIsSum
<1>2. /\ Unresolved(locks, at) = SumFunction(Withheld(locks, at))
      /\ Withheld(locks, at) \in [Rfqs -> Int] /\ Unresolved(locks, at) \in Int
  BY UnresolvedIsSum DEF LockInv, RecordsOK
<1>3. /\ privateBalance = Inventory - SumFunction(Paid) - SumFunction(Deposited)
      /\ Paid \in [Intents -> Int] /\ Deposited \in [Rfqs -> Int]
      /\ SumFunction(Paid) \in Int /\ SumFunction(Deposited) \in Int
  BY BalanceIsSum
<1>4. /\ FillClaims(records) \in [Intents -> Int] /\ SumFunction(FillClaims(records)) \in Int
      /\ LockClaims \in [Rfqs -> Int] /\ SumFunction(LockClaims) \in Int
  BY FillClaimsTyped, LockClaimsTyped
<1>5. SumFunction(FillClaims(records)) <= SumFunction(Paid) + SumFunction(Locked(records))
  BY <1>1, <1>3, <1>4, FillsHeldBack, SumLeqPlus, WalletAssumption
<1>6. SumFunction(LockClaims) <= SumFunction(Deposited) + SumFunction(Withheld(locks, at))
  BY <1>2, <1>3, <1>4, LocksHeldBack, SumLeqPlus, WalletAssumption
<1>7. Inventory \in Int
  BY WalletAssumption
<1> QED BY <1>1, <1>2, <1>3, <1>4, <1>5, <1>6, <1>7 DEF Claims

LEMMA CoverIsEnough ==
  ASSUME LockInv, ClaimCover
  PROVE  Covered
<1> DEFINE f == [i \in Intents |-> IF i \in OwedFills THEN Amount[i] ELSE 0]
           c == [q \in Rfqs |-> OwedCollateral(q)]
           g == [q \in Rfqs |-> IF q \in OwedLocks THEN c[q] ELSE 0]
<1>1. OwedFills \in SUBSET Intents /\ OwedLocks \in SUBSET Rfqs
  BY DEF OwedFills, OwedLocks
<1>2. \A q \in Rfqs : OwedCollateral(q) \in Int
  BY DEF LockInv, WorldOK, ChainLocks, RecordsOK, LockTables, StoredLockRecord, OwedCollateral
<1>3. /\ \A q \in Rfqs : c[q] \in Int
      /\ \A i \in Intents : Amount[i] \in Int
  BY <1>2, AmountTyped
<1>4. f \in [Intents -> Int] /\ g \in [Rfqs -> Int]
  BY <1>2, AmountTyped
<1>5. \A i \in Intents : f[i] + Paid[i] <= FillClaims(walRecords)[i]
  BY AmountTyped DEF OwedFills, Paid, FillClaims, Promised, ActiveStates
<1>6. \A q \in Rfqs : g[q] + Deposited[q] <= LockClaims[q]
  <2> SUFFICES ASSUME NEW q \in Rfqs PROVE g[q] + Deposited[q] <= LockClaims[q]
    OBVIOUS
  <2>1. OwedCollateral(q) \in Int /\ Collateral(chain[q]) \in Int
    BY <1>2 DEF LockInv, WorldOK, ChainLocks, Collateral
  <2> QED BY <2>1 DEF OwedLocks, Deposited, LockClaims, LockClaim
<1>7. SumFunctionOnSet(Amount, OwedFills) = SumFunction(f)
  BY <1>1, <1>3, SumRestrict, WalletAssumption
<1>8. SumFunctionOnSet(c, OwedLocks) = SumFunction(g)
  <2> HIDE DEF c
  <2> QED BY <1>1, <1>3, SumRestrict, WalletAssumption
<1> HIDE DEF f, g
<1>9. /\ privateBalance = Inventory - SumFunction(Paid) - SumFunction(Deposited)
      /\ Paid \in [Intents -> Int] /\ Deposited \in [Rfqs -> Int]
      /\ SumFunction(Paid) \in Int /\ SumFunction(Deposited) \in Int
  BY BalanceIsSum
<1>10. /\ FillClaims(walRecords) \in [Intents -> Int] /\ SumFunction(FillClaims(walRecords)) \in Int
       /\ LockClaims \in [Rfqs -> Int] /\ SumFunction(LockClaims) \in Int
  BY FillClaimsTyped, LockClaimsTyped
<1>11. SumFunction(f) + SumFunction(Paid) <= SumFunction(FillClaims(walRecords))
  BY <1>4, <1>5, <1>9, <1>10, SumPlusLeq, WalletAssumption
<1>12. SumFunction(g) + SumFunction(Deposited) <= SumFunction(LockClaims)
  BY <1>4, <1>6, <1>9, <1>10, SumPlusLeq, WalletAssumption
<1>13. SumFunction(f) \in Int /\ SumFunction(g) \in Int /\ Inventory \in Int
  BY <1>4, SumInt, WalletAssumption
<1>14. SumFunction(f) + SumFunction(g) <= privateBalance
  BY <1>9, <1>10, <1>11, <1>12, <1>13 DEF ClaimCover, Claims
<1> QED BY <1>7, <1>8, <1>14 DEF Covered

-----------------------------------------------------------------------------
(* Steps that promise nothing new *)

LocksFall == \A q \in Rfqs : LockClaim(q)' <= LockClaim(q)

\* Every table has only what one of the tables had before.
FillsFall ==
  /\ \/ \A i \in Intents : Promised(i, records[i])' => Promised(i, records[i])
     \/ \A i \in Intents : Promised(i, records[i])' => Promised(i, walRecords[i])
  /\ \/ \A i \in Intents : Promised(i, walRecords[i])' => Promised(i, records[i])
     \/ \A i \in Intents : Promised(i, walRecords[i])' => Promised(i, walRecords[i])

LEMMA LockClaimsFall ==
  ASSUME LockInv, LockInv', LocksFall
  PROVE  /\ SumFunction(LockClaims)' <= SumFunction(LockClaims)
         /\ SumFunction(LockClaims) \in Int /\ SumFunction(LockClaims)' \in Int
<1>1. /\ LockClaims \in [Rfqs -> Int] /\ SumFunction(LockClaims) \in Int
      /\ LockClaims' \in [Rfqs -> Int] /\ SumFunction(LockClaims)' \in Int
  <2>1. ASSUME NEW q \in Rfqs PROVE LockClaim(q)' \in Int
    BY LockInv' DEF LockInv, WorldOK, ChainLocks, RecordsOK, LockTables, StoredLockRecord,
                    LockClaim, Collateral, OwedCollateral
  <2>2. LockClaims' \in [Rfqs -> Int]
    BY <2>1 DEF LockClaims
  <2> QED BY <2>2, LockClaimsTyped, SumInt, WalletAssumption
<1>2. \A q \in Rfqs : LockClaims'[q] <= LockClaims[q]
  BY DEF LocksFall, LockClaims
<1> QED BY <1>1, <1>2, SumLeq, WalletAssumption

LEMMA FillClaimsFall ==
  ASSUME NEW S, NEW T, NEW f, NEW g,
         f = [i \in Intents |-> IF i \in S THEN Amount[i] ELSE 0],
         g = [i \in Intents |-> IF i \in T THEN Amount[i] ELSE 0],
         \A i \in Intents : i \in S => i \in T
  PROVE  SumFunction(f) <= SumFunction(g) /\ SumFunction(f) \in Int /\ SumFunction(g) \in Int
<1>1. f \in [Intents -> Int] /\ g \in [Intents -> Int] /\ \A i \in Intents : f[i] <= g[i]
  BY AmountTyped
<1> QED BY <1>1, SumLeq, SumInt, WalletAssumption

\* The intents a table has promised.
PromisedOf(recs) == {i \in Intents : Promised(i, recs[i])}

LEMMA FillClaimsOf ==
  ASSUME NEW recs
  PROVE  FillClaims(recs) = [i \in Intents |-> IF i \in PromisedOf(recs) THEN Amount[i] ELSE 0]
BY DEF FillClaims, PromisedOf

LEMMA RecordClaimsFall ==
  ASSUME NEW T, NEW g, g = [i \in Intents |-> IF i \in T THEN Amount[i] ELSE 0]
  PROVE  /\ (\A i \in Intents : Promised(i, records[i])' => i \in T) =>
              SumFunction(FillClaims(records))' <= SumFunction(g)
         /\ (\A i \in Intents : Promised(i, walRecords[i])' => i \in T) =>
              SumFunction(FillClaims(walRecords))' <= SumFunction(g)
<1> DEFINE S == {i \in Intents : Promised(i, records[i])'}
           R == {i \in Intents : Promised(i, walRecords[i])'}
<1>1. /\ FillClaims(records)' = [i \in Intents |-> IF i \in S THEN Amount[i] ELSE 0]
      /\ FillClaims(walRecords)' = [i \in Intents |-> IF i \in R THEN Amount[i] ELSE 0]
  BY DEF FillClaims
<1>2. /\ (\A i \in Intents : Promised(i, records[i])' => i \in T) =>
           \A i \in Intents : i \in S => i \in T
      /\ (\A i \in Intents : Promised(i, walRecords[i])' => i \in T) =>
           \A i \in Intents : i \in R => i \in T
  OBVIOUS
<1> HIDE DEF S, R
<1> QED BY <1>1, <1>2, FillClaimsFall

LEMMA ClaimsKept ==
  ASSUME LockInv, LockInv', ClaimCover, LocksFall, FillsFall
  PROVE  ClaimCover'
<1>1. /\ SumFunction(LockClaims)' <= SumFunction(LockClaims)
      /\ SumFunction(LockClaims) \in Int /\ SumFunction(LockClaims)' \in Int
  BY LockClaimsFall
<1>2. /\ SumFunction(FillClaims(records)) \in Int /\ SumFunction(FillClaims(walRecords)) \in Int
      /\ SumFunction(FillClaims(records))' \in Int /\ SumFunction(FillClaims(walRecords))' \in Int
  <2>1. SumFunction(FillClaims(records)) \in Int /\ SumFunction(FillClaims(walRecords)) \in Int
    BY FillClaimsTyped
  <2>2. FillClaims(records)' \in [Intents -> Int] /\ FillClaims(walRecords)' \in [Intents -> Int]
    BY AmountTyped DEF FillClaims
  <2> QED BY <2>1, <2>2, SumInt, WalletAssumption
<1>3. /\ FillClaims(records) = [i \in Intents |-> IF i \in PromisedOf(records) THEN Amount[i] ELSE 0]
      /\ FillClaims(walRecords) =
           [i \in Intents |-> IF i \in PromisedOf(walRecords) THEN Amount[i] ELSE 0]
  BY FillClaimsOf
<1>4. \A i \in Intents : /\ i \in PromisedOf(records) <=> Promised(i, records[i])
                         /\ i \in PromisedOf(walRecords) <=> Promised(i, walRecords[i])
  BY DEF PromisedOf
<1>5. \/ SumFunction(FillClaims(records))' <= SumFunction(FillClaims(records))
      \/ SumFunction(FillClaims(records))' <= SumFunction(FillClaims(walRecords))
  BY <1>3, <1>4, RecordClaimsFall DEF FillsFall
<1>6. \/ SumFunction(FillClaims(walRecords))' <= SumFunction(FillClaims(records))
      \/ SumFunction(FillClaims(walRecords))' <= SumFunction(FillClaims(walRecords))
  BY <1>3, <1>4, RecordClaimsFall DEF FillsFall
<1>7. Inventory \in Int
  BY WalletAssumption
<1> QED BY <1>1, <1>2, <1>5, <1>6, <1>7 DEF ClaimCover, Claims

LEMMA HeldKept ==
  ASSUME NodeInv, LockInv, LockInv', HeldCover, LocksFall,
         UNCHANGED <<held, records, locks>>, clock' >= clock,
         \A i \in Intents : Promised(i, records[i])' => Promised(i, records[i])
  PROVE  HeldCover'
<1> SUFFICES ASSUME held # Free
             PROVE  /\ held.at <= clock' /\ held.balance \in Int
                    /\ held.balance + Claims(records)'
                         <= Inventory + Reserved(records) + Unresolved(locks, held.at)
  BY DEF HeldCover, Reserved, Unresolved
<1>1. /\ SumFunction(LockClaims)' <= SumFunction(LockClaims)
      /\ SumFunction(LockClaims) \in Int /\ SumFunction(LockClaims)' \in Int
  BY LockClaimsFall
<1>2. SumFunction(FillClaims(records)) \in Int /\ SumFunction(FillClaims(records))' \in Int
  <2>1. SumFunction(FillClaims(records)) \in Int
    BY FillClaimsTyped
  <2>2. FillClaims(records)' \in [Intents -> Int]
    BY AmountTyped DEF FillClaims
  <2> QED BY <2>1, <2>2, SumInt, WalletAssumption
<1>3. FillClaims(records) = [i \in Intents |-> IF i \in PromisedOf(records) THEN Amount[i] ELSE 0]
  BY FillClaimsOf
<1>4. \A i \in Intents : i \in PromisedOf(records) <=> Promised(i, records[i])
  BY DEF PromisedOf
<1>5. SumFunction(FillClaims(records))' <= SumFunction(FillClaims(records))
  BY <1>3, <1>4, RecordClaimsFall
<1>6. /\ held.at <= clock /\ held.balance \in Int
      /\ held.balance + Claims(records)
           <= Inventory + Reserved(records) + Unresolved(locks, held.at)
  BY DEF HeldCover
<1>7. Reserved(records) \in Int /\ Unresolved(locks, held.at) \in Int /\ Inventory \in Int
  BY ReservedIsSum, UnresolvedIsSum, WalletAssumption DEF LockInv, RecordsOK
<1>8. held.at \in Nat /\ clock \in Nat /\ clock' \in Nat
  BY DEF LockInv, HeldOK
<1> QED BY <1>1, <1>2, <1>5, <1>6, <1>7, <1>8 DEF Claims

LEMMA HeldFree == ASSUME held' = Free PROVE HeldCover'
BY DEF HeldCover, Free

-----------------------------------------------------------------------------
(* The reservations *)

\* A handler that reserves nothing: what it leaves active was active, and a
\* hash is of a fill that landed.
Eased(i, old, new) ==
  /\ new.reservation.state \in ActiveStates => old.reservation.state \in ActiveStates
  /\ new.hash => old.hash \/ fillTx[i] = "landed"

EasedAll(draft) == \A i \in Intents : Eased(i, records[i], draft[i])

\* A write of reservations that reserves nothing.
LEMMA EasedWrite ==
  ASSUME NodeInv, LockInv, LockInv', CoverInv, status # "failed",
         NEW draft, EasedAll(draft), NEW next, NEW ok \in BOOLEAN,
         next # "failed", AppendSnapshot(draft, locks, next, ok),
         UNCHANGED <<chain, lockCalls, quoting, fillTx, fillCalls>>,
         \A i \in Intents :
           /\ fills'[i].pc = "call" =>
                fills[i].pc = "call" \/ records[i].reservation.state \in ActiveStates
           /\ fills'[i].pc = "returned" => fills[i].pc = "returned"
  PROVE  CoverInv'
<1>1. Appended(draft)
  BY AppendShape
<1>2. walRecords = records /\ walLocks = locks
  BY DEF NodeInv, StoreInv, LockInv, RecordsOK
<1>3. /\ records' \in {draft, records} /\ walRecords' \in {draft, records}
      /\ locks' = locks /\ walLocks' = locks /\ held' = Free /\ clock' = clock
  BY <1>1, <1>2 DEF Appended, AppendSnapshot
<1>4. LocksFall
  <2>1. ASSUME NEW q \in Rfqs PROVE LockClaim(q)' = LockClaim(q) /\ LockClaim(q) \in Int
    BY <1>3, LockClaimsTyped DEF LockClaim, OwedCollateral, LockClaims
  <2> QED BY <2>1 DEF LocksFall
<1>5. ASSUME NEW i \in Intents
      PROVE  /\ Promised(i, records[i])' => Promised(i, records[i])
             /\ Promised(i, walRecords[i])' => Promised(i, records[i])
  <2>1. Eased(i, records[i], draft[i])
    BY DEF EasedAll
  <2>2. records'[i] \in {draft[i], records[i]} /\ walRecords'[i] \in {draft[i], records[i]}
    BY <1>3
  <2> QED BY <2>1, <2>2 DEF Promised, Eased
<1>6. ClaimCover'
  BY <1>4, <1>5, ClaimsKept DEF CoverInv, FillsFall
<1>7. HeldCover'
  BY <1>3, HeldFree
<1>8. ChainCover' /\ LockCover'
  BY <1>2, <1>3 DEF CoverInv, ChainCover, LockCover, Backed
<1>9. FillCover'
  <2> SUFFICES ASSUME NEW i \in Intents
               PROVE  /\ fillCalls[i] = 0 => fillTx[i] = "none"
                      /\ fills'[i].pc = "returned" => fillTx[i] = "landed"
                      /\ records'[i].hash \/ walRecords'[i].hash => fillTx[i] = "landed"
    BY DEF CoverInv, FillCover
  <2>1. Eased(i, records[i], draft[i])
    BY DEF EasedAll
  <2>2. records'[i] \in {draft[i], records[i]} /\ walRecords'[i] \in {draft[i], records[i]}
    BY <1>3
  <2> QED BY <2>1, <2>2 DEF CoverInv, FillCover, Eased
<1> QED BY <1>6, <1>7, <1>8, <1>9 DEF CoverInv

\* Pruning reserves nothing.
LEMMA PruneEases ==
  ASSUME NEW recs \in Tables, NEW at \in Nat, NEW i \in Intents
  PROVE  Eased(i, recs[i], pruneDraft(recs, at)[i])
<1> DEFINE new == pruneDraft(recs, at)
<1>1. recs[i] \in StoredMakerReservation
  BY DEF Tables
<1>2. CASE recs[i].reservation.state \notin ActiveStates \/ recs[i].reservation.expiresAt > at
  <2>1. new[i] = recs[i]
    BY <1>2 DEF pruneDraft
  <2> QED BY <2>1 DEF Eased
<1>3. CASE ~(recs[i].reservation.state \notin ActiveStates \/ recs[i].reservation.expiresAt > at)
  <2>1. PICK command \in {"expire", "quarantine"} :
          command = IF recs[i].reservation.state = "reserved" THEN "expire" ELSE "quarantine"
    OBVIOUS
  <2>2. new[i] = With(recs[i], command, at, NoKey)
    BY <1>3, <2>1 DEF pruneDraft
  <2>3. command \in Commands
    BY Targets
  <2>4. new[i].hash = recs[i].hash
    BY <1>1, <2>2, <2>3, WithShape
  <2> QED BY <1>3, <2>4 DEF Eased
<1> QED BY <1>2, <1>3

\* A handler that works on the record it sees after pruning.
LEMMA UpdateEases ==
  ASSUME NodeInv, LockInv, LockInv', CoverInv, NEW i \in Intents, NEW at \in Nat, NEW rec,
         NEW ok \in BOOLEAN, Eased(i, Seen(i, at), rec), Update(i, at, rec, ok),
         UNCHANGED <<chain, lockCalls, quoting, fillTx, fillCalls>>,
         \A j \in Intents :
           /\ fills'[j].pc = "call" =>
                fills[j].pc = "call" \/ records[j].reservation.state \in ActiveStates
           /\ fills'[j].pc = "returned" => fills[j].pc = "returned"
  PROVE  CoverInv'
<1> DEFINE pruned == pruneDraft(records, at)
           draft == [pruned EXCEPT ![i] = rec]
<1>1. records \in Tables /\ pruned \in Tables
  BY PruneAdvances DEF NodeInv, StoreInv
<1>2. \A j \in Intents : Eased(j, records[j], pruned[j])
  BY <1>1, PruneEases
<1>3. pruned[i] = Seen(i, at)
  BY DEF Seen
<1>4. status # "failed" /\ AppendSnapshot(draft, locks, status, ok)
  BY DEF Update, transaction, Usable
<1> HIDE DEF pruned
<1>5. draft[i] = rec /\ \A j \in Intents \ {i} : draft[j] = pruned[j]
  BY <1>1 DEF Tables
<1> HIDE DEF draft
<1>6. EasedAll(draft)
  <2> SUFFICES ASSUME NEW j \in Intents PROVE Eased(j, records[j], draft[j])
    BY DEF EasedAll
  <2>1. CASE j = i
    BY <1>2, <1>3, <1>5, <2>1 DEF Eased
  <2>2. CASE j # i
    BY <1>2, <1>5, <2>2
  <2> QED BY <2>1, <2>2
<1> QED BY <1>4, <1>6, EasedWrite

\* A lifecycle step from an active state.
LEMMA WithEases ==
  ASSUME NEW rec \in StoredMakerReservation, NEW command \in Commands, NEW at \in Nat,
         NEW key \in Keys \cup {NoKey}, rec.reservation.state \in ActiveStates, NEW i
  PROVE  Eased(i, rec, With(rec, command, at, key))
<1>1. With(rec, command, at, key).hash = rec.hash
  BY WithShape
<1> QED BY <1>1 DEF Eased

LEMMA TouchCovers ==
  ASSUME NodeInv, LockInv, LockInv', CoverInv, NEW at \in Nat, NEW ok \in BOOLEAN, Touch(at, ok),
         UNCHANGED quoting
  PROVE  CoverInv'
<1> DEFINE draft == pruneDraft(records, at)
<1>1. records \in Tables
  BY DEF NodeInv, StoreInv
<1>2. EasedAll(draft)
  BY <1>1, PruneEases DEF EasedAll
<1>3. /\ status # "failed" /\ AppendSnapshot(draft, locks, status, ok)
      /\ UNCHANGED <<chain, lockCalls, fillTx, fillCalls, fills>>
  BY DEF Touch, transaction, Usable, world
<1> HIDE DEF draft
<1> QED BY <1>2, <1>3, EasedWrite

LEMMA SignCovers ==
  ASSUME NodeInv, LockInv, LockInv', CoverInv, NEW i \in Intents, NEW q \in Quotes,
         NEW at \in Nat, NEW ok \in BOOLEAN, signQuote(i, q, at, ok), UNCHANGED quoting
  PROVE  CoverInv'
<1>1. Seen(i, at) \in StoredMakerReservation
  BY SeenSound DEF NodeInv
<1>2. PICK rec : rec = [Seen(i, at) EXCEPT !.quote = q]
  OBVIOUS
<1>3. rec.reservation = Seen(i, at).reservation /\ rec.hash = Seen(i, at).hash
  BY <1>1, <1>2 DEF StoredMakerReservation
<1>4. Eased(i, Seen(i, at), rec)
  BY <1>3 DEF Eased
<1>5. /\ Update(i, at, rec, ok)
      /\ UNCHANGED <<chain, lockCalls, fillTx, fillCalls, fills>>
  BY <1>2 DEF signQuote, world
<1> QED BY <1>4, <1>5, UpdateEases

LEMMA SelectCovers ==
  ASSUME NodeInv, LockInv, LockInv', CoverInv, NEW i \in Intents, NEW at \in Nat,
         NEW ok \in BOOLEAN, select(i, at, ok) \/ release(i, at, ok), UNCHANGED quoting
  PROVE  CoverInv'
<1>1. PICK command \in {"select", "release"} :
        /\ Update(i, at, With(Seen(i, at), command, at, NoKey), ok)
        /\ Seen(i, at).reservation.state \in ActiveStates
        /\ UNCHANGED <<chain, lockCalls, fillTx, fillCalls, fills>>
  BY DEF select, release, world, ActiveStates
<1>2. Seen(i, at) \in StoredMakerReservation /\ command \in Commands
  BY SeenSound, Targets DEF NodeInv
<1>3. Eased(i, Seen(i, at), With(Seen(i, at), command, at, NoKey))
  BY <1>1, <1>2, WithEases
<1> QED BY <1>1, <1>3, UpdateEases

LEMMA BindCovers ==
  ASSUME NodeInv, LockInv, LockInv', CoverInv, NEW i \in Intents, NEW d \in Deals,
         NEW at \in Nat, NEW ok \in BOOLEAN, bindSettlementForReconciliation(i, d, at, ok),
         UNCHANGED quoting
  PROVE  CoverInv'
<1>1. Seen(i, at) \in StoredMakerReservation
  BY SeenSound DEF NodeInv
<1>2. PICK rec : rec = [Seen(i, at) EXCEPT !.deal = d]
  OBVIOUS
<1>3. rec.reservation = Seen(i, at).reservation /\ rec.hash = Seen(i, at).hash
  BY <1>1, <1>2 DEF StoredMakerReservation
<1>4. Eased(i, Seen(i, at), rec)
  BY <1>3 DEF Eased
<1>5. /\ Update(i, at, rec, ok)
      /\ UNCHANGED <<chain, lockCalls, fillTx, fillCalls, fills>>
  BY <1>2 DEF bindSettlementForReconciliation, world
<1> QED BY <1>4, <1>5, UpdateEases

\* A fill starts from a reservation that is active.
LEMMA FillCovers ==
  ASSUME NodeInv, LockInv, LockInv', CoverInv, NEW i \in Intents, NEW d \in Deals,
         NEW at \in Nat, NEW ok \in BOOLEAN, fill(i, d, at, ok), UNCHANGED quoting
  PROVE  CoverInv'
<1>1. PICK key \in Keys :
        Update(i, at, [With(Seen(i, at), "beginFill", at, key) EXCEPT !.deal = d], ok)
  BY DEF fill
<1>2. /\ Seen(i, at).reservation.state = "selected"
      /\ UNCHANGED <<chain, lockCalls, fillTx, fillCalls>>
      /\ fills' = IF ok THEN [fills EXCEPT ![i] = [pc |-> "call", at |-> at]] ELSE fills
  BY DEF fill, world
<1>3. Seen(i, at) \in StoredMakerReservation /\ "beginFill" \in Commands
  BY SeenSound, Targets DEF NodeInv
<1>4. PICK mid \in StoredMakerReservation :
        mid = With(Seen(i, at), "beginFill", at, key) /\ mid.hash = Seen(i, at).hash
  BY <1>3, WithShape
<1>5. PICK rec : rec = [mid EXCEPT !.deal = d]
  OBVIOUS
<1>6. rec.hash = Seen(i, at).hash
  BY <1>4, <1>5 DEF StoredMakerReservation
<1>7. Eased(i, Seen(i, at), rec)
  BY <1>2, <1>6 DEF Eased, ActiveStates
<1>8. records[i].reservation.state \in ActiveStates
  <2>1. records \in Tables
    BY DEF NodeInv, StoreInv
  <2>2. Eased(i, records[i], Seen(i, at))
    BY <2>1, PruneEases DEF Seen
  <2> QED BY <1>2, <2>2 DEF Eased, ActiveStates
<1>9. fills \in [Intents -> FillRequests]
  BY DEF NodeInv, FillInv
<1>10. \A j \in Intents :
         /\ fills'[j].pc = "call" =>
              fills[j].pc = "call" \/ records[j].reservation.state \in ActiveStates
         /\ fills'[j].pc = "returned" => fills[j].pc = "returned"
  BY <1>2, <1>8, <1>9
<1> QED BY <1>1, <1>2, <1>4, <1>5, <1>7, <1>10, UpdateEases

\* The authority's evidence ends a reservation, and leaves the hash.
LEMMA ForcedEases ==
  ASSUME NEW rec \in StoredMakerReservation, NEW s \in TerminalStates, NEW f \in Nat,
         NEW u \in Nat, NEW mid, mid = Forced(rec, s, f, u), NEW i, NEW new,
         new.reservation = mid.reservation, new.hash = mid.hash
  PROVE  Eased(i, rec, new)
<1>1. mid.reservation.state = s /\ mid.hash = rec.hash
  BY ForcedShape
<1> QED BY <1>1 DEF Eased, ActiveStates, TerminalStates

LEMMA AuthorityQuarantineCovers ==
  ASSUME NodeInv, LockInv, LockInv', CoverInv, NEW i \in Intents, NEW d \in Deals,
         NEW fence \in Fences, NEW v \in Revisions, NEW o \in AuthorityOutcomes, NEW at \in Nat,
         NEW ok \in BOOLEAN, quarantineForAuthority(i, d, fence, v, o, at, ok), UNCHANGED quoting
  PROVE  CoverInv'
<1> DEFINE rec == Seen(i, at)
           f == IF rec.reservation.state = "quarantined" THEN rec.reservation.fence
                ELSE rec.reservation.fence + 1
           evidence == [revision |-> v, outcome |-> o, fence |-> fence]
           new == [rec EXCEPT !.quarantine = evidence, !.reservation.state = "quarantined",
                              !.reservation.fence = f, !.reservation.updatedAt = at]
<1>1. rec \in StoredMakerReservation
  BY SeenSound DEF NodeInv
<1>2. f \in Nat /\ "quarantined" \in TerminalStates
  BY <1>1, RecordFields DEF TerminalStates
<1>3. /\ Update(i, at, new, ok)
      /\ UNCHANGED <<chain, lockCalls, fillTx, fillCalls, fills>>
  BY <1>1 DEF quarantineForAuthority, StoredMakerReservation, Reservations, world
<1> HIDE DEF rec, f, evidence
<1>4. PICK mid : mid = Forced(rec, "quarantined", f, at)
  OBVIOUS
<1>5. new.reservation = mid.reservation /\ new.hash = mid.hash
  BY <1>1, <1>4 DEF Forced, StoredMakerReservation
<1> HIDE DEF new
<1>6. Eased(i, rec, new)
  BY <1>1, <1>2, <1>4, <1>5, ForcedEases
<1> QED BY <1>3, <1>6, UpdateEases DEF rec

LEMMA TerminalCovers ==
  ASSUME NodeInv, LockInv, LockInv', CoverInv, NEW i \in Intents, NEW d \in Deals,
         NEW fence \in Fences, NEW v \in Revisions, NEW o \in AuthorityOutcomes, NEW at \in Nat,
         NEW ok \in BOOLEAN, reconcileAuthoritativeTerminal(i, d, fence, v, o, at, ok),
         UNCHANGED quoting
  PROVE  CoverInv'
<1> DEFINE rec == Seen(i, at)
           moves == rec.reservation.state # Final[o]
           f == IF moves THEN rec.reservation.fence + 1 ELSE rec.reservation.fence
           u == IF moves THEN at ELSE rec.reservation.updatedAt
           new == [rec EXCEPT !.terminal = [revision |-> v, outcome |-> o, fence |-> fence],
                              !.reservation.state = Final[o],
                              !.reservation.fence = f, !.reservation.updatedAt = u]
<1>1. rec \in StoredMakerReservation
  BY SeenSound DEF NodeInv
<1>2. f \in Nat /\ u \in Nat /\ Final[o] \in TerminalStates
  <2>1. Final[o] \in TerminalStates
    BY DEF Final, AuthorityOutcomes, TerminalStates
  <2> QED BY <1>1, <2>1, RecordFields
<1>3. /\ Update(i, at, new, ok)
      /\ UNCHANGED <<chain, lockCalls, fillTx, fillCalls, fills>>
  BY <1>1 DEF reconcileAuthoritativeTerminal, StoredMakerReservation, Reservations, world
<1> HIDE DEF rec, moves, f, u
<1>4. PICK s : s = Final[o]
  OBVIOUS
<1>5. PICK mid : mid = Forced(rec, s, f, u)
  OBVIOUS
<1>6. new.reservation = mid.reservation /\ new.hash = mid.hash
  BY <1>1, <1>4, <1>5 DEF Forced, StoredMakerReservation
<1> HIDE DEF new
<1>7. Eased(i, rec, new)
  BY <1>1, <1>2, <1>4, <1>5, <1>6, ForcedEases
<1> QED BY <1>3, <1>7, UpdateEases DEF rec

\* Consumption is of a fill that landed, and gives the inventory to it.
LEMMA ConsumeCovers ==
  ASSUME NodeInv, LockInv, LockInv', CoverInv, NEW i \in Intents, NEW ok \in BOOLEAN,
         consume(i, ok) \/ fillFailed(i, ok), UNCHANGED quoting
  PROVE  CoverInv'
<1>1. /\ records \in Tables /\ records[i] \in StoredMakerReservation
      /\ fills \in [Intents -> FillRequests] /\ fills[i].at \in Nat
  BY DEF NodeInv, StoreInv, Tables, FillInv, FillRequests
<1>2. PICK rec : /\ transaction([records EXCEPT ![i] = rec], ok)
                 /\ Eased(i, records[i], rec)
                 /\ fills' = [fills EXCEPT ![i] = NotFilling]
                 /\ UNCHANGED <<chain, lockCalls, fillTx, fillCalls>>
  <2>1. CASE consume(i, ok)
    <3>1. PICK rec : rec = [With(records[i], "consume", fills[i].at, NoKey) EXCEPT !.hash = TRUE]
      OBVIOUS
    <3>2. records[i].reservation.state \in ActiveStates
      BY <2>1 DEF consume, CanTransition
    <3>3. fillTx[i] = "landed"
      BY <2>1 DEF consume, CoverInv, FillCover
    <3>4. Eased(i, records[i], rec)
      BY <3>2, <3>3 DEF Eased
    <3> QED BY <2>1, <3>1, <3>4 DEF consume, world
  <2>2. CASE fillFailed(i, ok)
    <3>1. PICK rec : rec = FillFailed(records[i], fills[i].at)
      OBVIOUS
    <3>2. "quarantine" \in Commands
      BY Targets
    <3>3. Eased(i, records[i], rec)
      <4>1. CASE rec = records[i]
        BY <4>1 DEF Eased
      <4>2. CASE /\ rec = With(records[i], "quarantine", fills[i].at, NoKey)
                 /\ records[i].reservation.state = "filling"
        BY <1>1, <3>2, <4>2, WithEases DEF ActiveStates
      <4> QED BY <3>1, <4>1, <4>2 DEF FillFailed
    <3>4. transaction([records EXCEPT ![i] = rec], ok)
      BY <1>1, <2>2, <3>1 DEF fillFailed
    <3> QED BY <2>2, <3>3, <3>4 DEF fillFailed, world
  <2> QED BY <2>1, <2>2
<1> DEFINE draft == [records EXCEPT ![i] = rec]
<1>3. EasedAll(draft)
  BY <1>1, <1>2 DEF EasedAll, Eased, Tables
<1>4. status # "failed" /\ AppendSnapshot(draft, locks, status, ok)
  BY <1>2 DEF transaction, Usable
<1>5. \A j \in Intents : fills'[j] = fills[j] \/ fills'[j].pc = "idle"
  BY <1>1, <1>2 DEF NotFilling
<1> HIDE DEF draft
<1> QED BY <1>2, <1>3, <1>4, <1>5, EasedWrite

LEMMA RecoverCovers ==
  ASSUME NodeInv, LockInv, LockInv', CoverInv, NEW ok \in BOOLEAN, recoverRecords(ok),
         UNCHANGED quoting
  PROVE  CoverInv'
<1> DEFINE pruned == pruneDraft(records, clock)
           draft == Recovered(pruned, clock)
<1>1. clock \in Nat /\ records \in Tables /\ pruned \in Tables /\ "quarantine" \in Commands
  BY PruneAdvances, Targets DEF NodeInv, StoreInv
<1>2. \A i \in Intents : Eased(i, records[i], pruned[i])
  BY <1>1, PruneEases
<1> HIDE DEF pruned
<1>3. ASSUME NEW i \in Intents PROVE Eased(i, records[i], draft[i])
  <2>1. pruned[i] \in StoredMakerReservation
    BY <1>1 DEF Tables
  <2>2. CASE pruned[i].reservation.state = "filling"
    <3>1. draft[i] = With(pruned[i], "quarantine", clock, NoKey)
      BY <2>2 DEF Recovered
    <3>2. Eased(i, pruned[i], draft[i])
      BY <1>1, <2>1, <2>2, <3>1, WithEases DEF ActiveStates
    <3> QED BY <1>2, <3>2 DEF Eased
  <2>3. CASE pruned[i].reservation.state # "filling"
    <3>1. draft[i] = pruned[i]
      BY <2>3 DEF Recovered
    <3> QED BY <1>2, <3>1
  <2> QED BY <2>2, <2>3
<1>4. /\ status # "failed" /\ AppendSnapshot(draft, locks, "refreshing", ok)
      /\ UNCHANGED <<chain, lockCalls, fillTx, fillCalls, fills>>
  BY DEF recoverRecords, Usable, world, pruned
<1> HIDE DEF draft
<1>5. EasedAll(draft)
  BY <1>3 DEF EasedAll
<1> QED BY <1>4, <1>5, EasedWrite

\* A step that writes no table and promises nothing.
LEMMA StillCovers ==
  ASSUME NodeInv, LockInv, LockInv', CoverInv,
         UNCHANGED <<records, walRecords, locks, walLocks>>, held' \in {held, Free},
         clock' >= clock, LocksFall,
         \A i \in Intents :
           /\ Promised(i, records[i])' => Promised(i, records[i])
           /\ Promised(i, walRecords[i])' => Promised(i, walRecords[i]),
         ChainCover', LockCover', FillCover'
  PROVE  CoverInv'
<1>1. ClaimCover'
  BY ClaimsKept DEF CoverInv, FillsFall
<1>2. HeldCover'
  <2>1. CASE held' = Free
    BY <2>1, HeldFree
  <2>2. CASE held' = held
    BY <2>2, HeldKept DEF CoverInv
  <2> QED BY <2>1, <2>2
<1> QED BY <1>1, <1>2 DEF CoverInv

LEMMA SameLocks ==
  ASSUME LockInv, UNCHANGED <<chain, lockCalls, quoting, locks, clock>>
  PROVE  LocksFall
<1>1. ASSUME NEW q \in Rfqs PROVE LockClaim(q)' = LockClaim(q) /\ LockClaim(q) \in Int
  BY LockClaimsTyped DEF LockClaim, OwedCollateral, LockClaims
<1> QED BY <1>1 DEF LocksFall

\* wallet.fill is called for what is promised, and lands or not.
LEMMA WalletFillCovers ==
  ASSUME NodeInv, LockInv, LockInv', CoverInv, NEW i \in Intents,
         walletFill(i) \/ walletFillReturns(i) \/ consumeRefused(i), UNCHANGED quoting
  PROVE  CoverInv'
<1>1. UNCHANGED <<records, walRecords, locks, walLocks, held, clock, chain, lockCalls>>
  BY DEF walletFill, walletFillReturns, consumeRefused, store, world
<1>2. /\ fills \in [Intents -> FillRequests] /\ fillCalls \in [Intents -> Nat] /\ clock \in Nat
  BY DEF NodeInv, FillInv, StoreInv
<1>3. PICK pc \in {"wait", "returned", "failed"} : fills' = [fills EXCEPT ![i].pc = pc]
  BY DEF walletFill, walletFillReturns, consumeRefused
<1>4. fills'[i].pc = pc /\ \A j \in Intents \ {i} : fills'[j] = fills[j]
  BY <1>2, <1>3 DEF FillRequests
<1>5. \/ /\ fillTx' = fillTx /\ fillCalls' = fillCalls
         /\ pc = "returned" => fillTx[i] = "landed"
      \/ /\ fillTx' = [fillTx EXCEPT ![i] = "sent"] /\ fills[i].pc = "call" /\ pc # "returned"
         /\ fillCalls' = [fillCalls EXCEPT ![i] = @ + 1]
  <2>1. CASE walletFill(i)
    <3>1. pc # "returned"
      BY <1>2, <1>4, <2>1 DEF walletFill, FillRequests
    <3> QED BY <2>1, <3>1 DEF walletFill
  <2>2. CASE walletFillReturns(i)
    <3>1. fills'[i].pc = "returned" => fillTx[i] = "landed"
      BY <1>2, <2>2 DEF walletFillReturns, FillRequests
    <3> QED BY <1>4, <2>2, <3>1 DEF walletFillReturns, world
  <2>3. CASE consumeRefused(i)
    <3>1. fills[i].pc = "returned" => fillTx[i] = "landed"
      BY DEF CoverInv, FillCover
    <3> QED BY <2>3, <3>1 DEF consumeRefused, world
  <2> QED BY <2>1, <2>2, <2>3
<1>f. fillTx \in [Intents -> {"none", "sent", "landed", "reverted"}]
  BY DEF CoverInv, FillCover
<1>6. /\ fillTx' \in [Intents -> {"none", "sent", "landed", "reverted"}]
      /\ \A j \in Intents \ {i} : fillTx'[j] = fillTx[j] /\ fillCalls'[j] = fillCalls[j]
  BY <1>2, <1>5, <1>f
<1>7. ASSUME NEW j \in Intents
      PROVE  /\ Promised(j, records[j])' => Promised(j, records[j])
             /\ Promised(j, walRecords[j])' => Promised(j, walRecords[j])
  <2>1. CASE j # i
    BY <1>1, <1>4, <1>6, <2>1 DEF Promised
  <2>2. CASE j = i
    BY <1>1, <1>4, <1>5, <2>2 DEF Promised
  <2> QED BY <2>1, <2>2
<1>8. FillCover'
  <2> SUFFICES ASSUME NEW j \in Intents
               PROVE  /\ fillCalls'[j] = 0 => fillTx'[j] = "none"
                      /\ fills'[j].pc = "returned" => fillTx'[j] = "landed"
                      /\ records[j].hash \/ walRecords[j].hash => fillTx'[j] = "landed"
    BY <1>1, <1>6 DEF FillCover
  <2>1. /\ fillCalls[j] = 0 => fillTx[j] = "none"
        /\ fills[j].pc = "returned" => fillTx[j] = "landed"
        /\ records[j].hash \/ walRecords[j].hash => fillTx[j] = "landed"
    BY DEF CoverInv, FillCover
  <2>2. CASE j # i
    BY <1>4, <1>6, <2>1, <2>2
  <2>3. CASE j = i /\ fillTx' = fillTx /\ fillCalls' = fillCalls
             /\ (pc = "returned" => fillTx[i] = "landed")
    BY <1>4, <2>1, <2>3
  <2>4. CASE /\ j = i /\ fillTx' = [fillTx EXCEPT ![i] = "sent"] /\ fills[i].pc = "call"
             /\ pc # "returned" /\ fillCalls' = [fillCalls EXCEPT ![i] = @ + 1]
    <3>1. fillCalls[i] = 0 /\ fillCalls'[i] = 1
      BY <1>2, <2>4 DEF NodeInv, FillInv
    <3>2. fillTx[i] = "none"
      BY <2>1, <2>4, <3>1
    <3>3. ~records[i].hash /\ ~walRecords[i].hash
      BY <2>1, <2>4, <3>2
    <3>4. fillTx'[i] = "sent"
      BY <1>f, <2>4
    <3> QED BY <1>4, <2>4, <3>1, <3>2, <3>3, <3>4
  <2> QED BY <1>5, <2>2, <2>3, <2>4
<1>9. ChainCover' /\ LockCover' /\ LocksFall
  BY <1>1, SameLocks DEF CoverInv, ChainCover, LockCover, Backed
<1> QED BY <1>1, <1>2, <1>7, <1>8, <1>9, StillCovers

LEMMA StampsArePast == ASSUME clock \in Nat, NEW at \in Stamps PROVE at \in Nat /\ at <= clock
BY DEF Stamps

\* A transaction opens with what is spare.
LEMMA HoldCovers ==
  ASSUME NodeInv, LockInv, LockInv', CoverInv, NEW at \in Stamps, NEW s,
         held' = [subject |-> s, at |-> at, balance |-> privateBalance],
         UNCHANGED <<records, walRecords, locks, walLocks, clock, world, fills, quoting>>
  PROVE  CoverInv'
<1>1. /\ UNCHANGED <<chain, lockCalls, fillTx, fillCalls>>
      /\ held'.at = at /\ held'.balance = privateBalance
  BY DEF world
<1>2. at \in Nat /\ at <= clock
  BY StampsArePast DEF NodeInv, StoreInv
<1>3. /\ privateBalance \in Int
      /\ privateBalance + Claims(records) <= Inventory + Reserved(records) + Unresolved(locks, at)
  BY <1>2, BalanceIsSum, SpareIsFree DEF CoverInv
<1>4. Claims(records)' = Claims(records) /\ Claims(walRecords)' = Claims(walRecords)
  BY <1>1 DEF Claims, FillClaims, Promised, LockClaims, LockClaim, OwedCollateral
<1>5. HeldCover'
  BY <1>1, <1>2, <1>3, <1>4 DEF HeldCover, Reserved, Unresolved
<1>6. ClaimCover'
  BY <1>4 DEF CoverInv, ClaimCover
<1>7. ChainCover' /\ LockCover' /\ FillCover'
  BY <1>1 DEF CoverInv, ChainCover, LockCover, Backed, FillCover
<1> QED BY <1>5, <1>6, <1>7 DEF CoverInv

\* It is given up.
LEMMA ReserveRefusedCovers ==
  ASSUME NodeInv, LockInv, LockInv', CoverInv, NEW i \in Intents, reserveRefused(i),
         UNCHANGED quoting
  PROVE  CoverInv'
<1>1. /\ UNCHANGED <<records, walRecords, locks, walLocks, clock, chain, lockCalls, fillTx,
                     fillCalls, fills>>
      /\ held' = Free /\ clock \in Nat
  BY DEF reserveRefused, world, NodeInv, StoreInv
<1>2. \A j \in Intents : /\ Promised(j, records[j])' => Promised(j, records[j])
                         /\ Promised(j, walRecords[j])' => Promised(j, walRecords[j])
  BY <1>1 DEF Promised
<1>3. ChainCover' /\ LockCover' /\ FillCover' /\ LocksFall
  BY <1>1, SameLocks DEF CoverInv, ChainCover, LockCover, Backed, FillCover
<1> QED BY <1>1, <1>2, <1>3, StillCovers

\* Pruning gives back what it no longer counts.
LEMMA PruneBalances ==
  ASSUME NodeInv, FillCover, NEW at \in Nat, NEW j \in Intents
  PROVE  LET pruned == pruneDraft(records, at)
         IN  FillClaims(pruned)[j] + Locked(records)[j]
               <= FillClaims(records)[j] + Locked(pruned)[j]
<1> DEFINE pruned == pruneDraft(records, at)
<1> SUFFICES FillClaims(pruned)[j] + Locked(records)[j]
               <= FillClaims(records)[j] + Locked(pruned)[j]
  OBVIOUS
<1>1. records[j] \in StoredMakerReservation /\ Amount[j] \in Nat
  BY AmountTyped DEF NodeInv, StoreInv, Tables
<1>2. /\ FillClaims(pruned)[j] = IF Promised(j, pruned[j]) THEN Amount[j] ELSE 0
      /\ FillClaims(records)[j] = IF Promised(j, records[j]) THEN Amount[j] ELSE 0
      /\ Locked(pruned)[j] = IF capacityLockedState(pruned[j].reservation.state)
                             THEN Amount[j] ELSE 0
      /\ Locked(records)[j] = IF capacityLockedState(records[j].reservation.state)
                              THEN Amount[j] ELSE 0
  BY DEF FillClaims, Locked
<1>3. CASE records[j].reservation.state \notin ActiveStates \/ records[j].reservation.expiresAt > at
  <2>1. pruned[j] = records[j]
    BY <1>3 DEF pruneDraft
  <2> HIDE DEF pruned
  <2> QED BY <1>1, <1>2, <2>1
<1>4. CASE ~(records[j].reservation.state \notin ActiveStates \/ records[j].reservation.expiresAt > at)
  <2>1. FillClaims(records)[j] = Amount[j] /\ Locked(records)[j] \in {0, Amount[j]}
    <3> HIDE DEF pruned
    <3> QED BY <1>2, <1>4 DEF Promised
  <2>2. CASE records[j].reservation.state = "reserved"
    <3>1. pruned[j] = With(records[j], "expire", at, NoKey) /\ "expire" \in Commands
      BY <1>4, <2>2, Targets DEF pruneDraft
    <3> HIDE DEF pruned
    <3>2. pruned[j].reservation.state = "expired"
      BY <1>1, <3>1, WithShape, Targets
    <3>3. ~Promised(j, pruned[j])
      <4>1. ~(fillTx[j] # "none" \/ fills[j].pc = "call")
        BY <2>2, CalledIsAttempted
      <4> QED BY <3>2, <4>1 DEF Promised, ActiveStates
    <3>4. Locked(pruned)[j] \in {0, Amount[j]}
      BY <1>2
    <3> QED BY <1>1, <1>2, <2>1, <3>3, <3>4
  <2>3. CASE records[j].reservation.state # "reserved"
    <3>1. pruned[j] = With(records[j], "quarantine", at, NoKey) /\ "quarantine" \in Commands
      BY <1>4, <2>3, Targets DEF pruneDraft
    <3> HIDE DEF pruned
    <3>2. pruned[j].reservation.state = "quarantined"
      BY <1>1, <3>1, WithShape, Targets
    <3>3. Locked(pruned)[j] = Amount[j] /\ FillClaims(pruned)[j] \in {0, Amount[j]}
      BY <1>2, <3>2 DEF capacityLockedState
    <3> QED BY <1>1, <2>1, <3>3
  <2> QED BY <2>2, <2>3
<1> QED BY <1>3, <1>4

\* A reservation that fits beside everything held back is covered.
LEMMA FitsCovers ==
  ASSUME NodeInv, LockInv, CoverInv, NEW i \in Intents, held.subject = i, NEW pruned,
         pruned = pruneDraft(records, held.at), Fits(i, pruned, held.at, held.balance), NEW new
  PROVE  Claims([pruned EXCEPT ![i] = new]) <= Inventory
<1> DEFINE draft == [pruned EXCEPT ![i] = new]
           a == FillClaims(draft)
           b == Locked(records)
           c == FillClaims(records)
           d == Locked(pruned)
           g == [j \in Intents |-> c[j] + d[j]]
           h == [j \in Intents |-> IF j = i THEN g[i] + Amount[i] ELSE g[j]]
<1>1. /\ held.at \in Nat /\ records[i].reservation.state = "absent" /\ pruned \in Tables
      /\ held # Free
  BY PruneAdvances, WalletAssumption DEF NodeInv, StoreInv, Free
<1>2. /\ a \in [Intents -> Int] /\ SumFunction(a) \in Int
      /\ c \in [Intents -> Int] /\ SumFunction(c) \in Int
  BY FillClaimsTyped
<1>3. /\ b \in [Intents -> Int] /\ Reserved(records) = SumFunction(b)
      /\ d \in [Intents -> Int] /\ Reserved(pruned) = SumFunction(d)
      /\ Reserved(records) \in Int /\ Reserved(pruned) \in Int
  BY ReservedIsSum
<1>4. Amount[i] \in Nat /\ Inventory \in Int
  BY AmountTyped, WalletAssumption
<1>5. ASSUME NEW j \in Intents PROVE a[j] + b[j] <= h[j]
  <2>1. CASE j = i
    <3>1. a[i] \in {0, Amount[i]} /\ b[i] = 0
      BY <1>1 DEF FillClaims, Locked, capacityLockedState, ActiveStates
    <3>2. c[i] \in {0, Amount[i]} /\ d[i] \in {0, Amount[i]}
      BY DEF FillClaims, Locked
    <3>3. h[i] = c[i] + d[i] + Amount[i]
      OBVIOUS
    <3> HIDE DEF a, b, c, d, g, h
    <3> QED BY <1>4, <2>1, <3>1, <3>2, <3>3
  <2>2. CASE j # i
    <3>1. FillClaims(pruned)[j] + b[j] <= c[j] + d[j]
      BY <1>1, PruneBalances DEF CoverInv
    <3>2. draft[j] = pruned[j]
      BY <1>1, <2>2 DEF Tables
    <3>3. a[j] = FillClaims(pruned)[j]
      BY <3>2 DEF FillClaims
    <3>4. h[j] = c[j] + d[j]
      BY <2>2
    <3> HIDE DEF a, b, c, d, g, h
    <3> QED BY <3>1, <3>3, <3>4
  <2> QED BY <2>1, <2>2
<1> HIDE DEF a, b, c, d
<1>6. SumFunction(g) = SumFunction(c) + SumFunction(d)
  BY <1>2, <1>3, SumPlus, WalletAssumption
<1>7. g \in [Intents -> Int] /\ h \in [Intents -> Int]
  BY <1>2, <1>3, <1>4
<1>8. h[i] - g[i] = Amount[i] /\ \A j \in Intents \ {i} : h[j] = g[j]
  BY <1>4, <1>7
<1> HIDE DEF g, h
<1>9. SumFunction(h) = SumFunction(g) + (h[i] - g[i])
  BY <1>7, <1>8, SumPoint, WalletAssumption
<1>10. SumFunction(a) + SumFunction(b) <= SumFunction(h)
  BY <1>2, <1>3, <1>5, <1>7, SumPlusLeq, WalletAssumption
<1>11. /\ held.balance \in Int
       /\ held.balance + (SumFunction(c) + SumFunction(LockClaims))
            <= Inventory + Reserved(records) + Unresolved(locks, held.at)
  BY <1>1 DEF CoverInv, HeldCover, Claims, c
<1>12. Reserved(pruned) + Unresolved(locks, held.at) + Amount[i] <= held.balance
  BY DEF Fits
<1>13. Unresolved(locks, held.at) \in Int /\ SumFunction(LockClaims) \in Int
  BY UnresolvedIsSum, LockClaimsTyped DEF LockInv, RecordsOK
<1>14. SumFunction(a) + SumFunction(LockClaims) <= Inventory
  BY <1>2, <1>3, <1>4, <1>6, <1>8, <1>9, <1>10, <1>11, <1>12, <1>13
<1> QED BY <1>14 DEF Claims, a

LEMMA ReserveCommitCovers ==
  ASSUME NodeInv, LockInv, LockInv', CoverInv, NEW i \in Intents, NEW ok \in BOOLEAN,
         reserveCommit(i, ok), UNCHANGED quoting
  PROVE  CoverInv'
<1> DEFINE pruned == pruneDraft(records, held.at)
           new == NewReservation(i, held.at)
           draft == [pruned EXCEPT ![i] = new]
<1>1. /\ held.subject = i /\ Fits(i, pruned, held.at, held.balance)
      /\ AppendSnapshot(draft, locks, status, ok)
      /\ UNCHANGED <<chain, lockCalls, fillTx, fillCalls, fills>>
  BY DEF reserveCommit, world
<1>2. /\ held.at \in Nat /\ pruned \in Tables /\ records \in Tables /\ status # "failed"
      /\ walRecords = records /\ walLocks = locks
  BY <1>1, PruneAdvances, WalletAssumption DEF NodeInv, StoreInv, Free, LockInv, RecordsOK
<1>3. \A j \in Intents : Eased(j, records[j], pruned[j])
  BY <1>2, PruneEases
<1>4. ~new.hash
  BY DEF NewReservation, NoRecord
<1> HIDE DEF pruned, new
<1>5. Claims(draft) <= Inventory
  BY <1>1, FitsCovers DEF pruned
<1>6. draft[i] = new /\ \A j \in Intents \ {i} : draft[j] = pruned[j]
  BY <1>2 DEF Tables
<1> HIDE DEF draft
<1>7. Appended(draft)
  BY <1>1, <1>2, AppendShape
<1>8. /\ records' \in {draft, records} /\ walRecords' \in {draft, records}
      /\ locks' = locks /\ walLocks' = locks /\ held' = Free /\ clock' = clock
  BY <1>1, <1>2, <1>7 DEF Appended, AppendSnapshot
<1>9. /\ Claims(records)' \in {Claims(draft), Claims(records)}
      /\ Claims(walRecords)' \in {Claims(draft), Claims(records)}
  <2>1. LockClaims' = LockClaims
    BY <1>1, <1>8 DEF LockClaims, LockClaim, OwedCollateral
  <2>2. /\ FillClaims(records)' \in {FillClaims(draft), FillClaims(records)}
        /\ FillClaims(walRecords)' \in {FillClaims(draft), FillClaims(records)}
    BY <1>1, <1>8 DEF FillClaims, Promised
  <2> QED BY <2>1, <2>2 DEF Claims
<1>10. ClaimCover'
  BY <1>5, <1>9 DEF CoverInv, ClaimCover
<1>11. HeldCover'
  BY <1>8, HeldFree
<1>12. ChainCover' /\ LockCover'
  BY <1>1, <1>2, <1>8 DEF CoverInv, ChainCover, LockCover, Backed
<1>13. FillCover'
  <2> SUFFICES ASSUME NEW j \in Intents, records'[j].hash \/ walRecords'[j].hash
               PROVE  fillTx[j] = "landed"
    BY <1>1 DEF CoverInv, FillCover
  <2>1. records'[j] \in {draft[j], records[j]} /\ walRecords'[j] \in {draft[j], records[j]}
    BY <1>8
  <2>2. draft[j].hash => records[j].hash \/ fillTx[j] = "landed"
    BY <1>3, <1>4, <1>6 DEF Eased
  <2> QED BY <2>1, <2>2 DEF CoverInv, FillCover
<1> QED BY <1>10, <1>11, <1>12, <1>13 DEF CoverInv

\* Every step of the reservations.
LEMMA ReservationNextCovers ==
  ASSUME NodeInv, LockInv, LockInv', CoverInv, ReservationNext, UNCHANGED quoting
  PROVE  CoverInv'
<1>1. Stamps \subseteq Nat
  BY StampsAreTimes DEF NodeInv, StoreInv
<1>2. ASSUME NEW i \in Intents, NEW at \in Stamps, reserve(i, at) PROVE CoverInv'
  BY <1>2, HoldCovers DEF reserve
<1> QED
  BY <1>1, <1>2, ReserveCommitCovers, ReserveRefusedCovers, TouchCovers, SelectCovers,
     SignCovers, FillCovers, WalletFillCovers, ConsumeCovers, BindCovers,
     AuthorityQuarantineCovers, TerminalCovers
     DEF ReservationNext

-----------------------------------------------------------------------------
(* The locks *)

\* A record that is written for a lock that is not on chain does not say that
\* it is, and keeps the maximum payout while the lock may be submitted or land.
Careful(q, rec) ==
  \/ chain[q].landed
  \/ /\ rec.state = locks[q].state \/ rec.state \notin {"open", "taken", "expired"}
     /\ rec.maxB = locks[q].maxB \/ (lockCalls[q] = 0 /\ quoting[q].pc # "lock")

CarefulDraft(draft) == \E q \in Rfqs : \E d : draft = [locks EXCEPT ![q] = d] /\ Careful(q, d)

LEMMA CarefulSame == \A q \in Rfqs : Careful(q, locks[q])
BY DEF Careful

LEMMA CarefulKept ==
  ASSUME LockInv, LockCover, NEW q \in Rfqs, UNCHANGED <<chain, lockCalls>>, clock' = clock,
         quoting'[q].pc = "lock" => quoting[q].pc = "lock",
         Careful(q, locks'[q]), Careful(q, walLocks'[q])
  PROVE  /\ Backed(q, locks[q])' /\ Backed(q, walLocks[q])'
         /\ LockClaim(q)' <= LockClaim(q)
<1>1. /\ Backed(q, locks[q]) /\ (quoting[q].pc = "lock" => lockCalls[q] = 0 /\ ~chain[q].landed)
  BY DEF LockCover, LockInv, QuoteOK, WorldOK
<1>2. ASSUME NEW rec, Careful(q, rec)
      PROVE  /\ ~chain[q].landed => rec.state \notin {"open", "taken", "expired"}
             /\ ~chain[q].landed /\ lockCalls[q] > 0 => rec.maxB = chain[q].maxB
             /\ quoting[q].pc = "lock" => rec.maxB = locks[q].maxB /\ rec.maxB >= 1
  BY <1>1, <1>2 DEF Careful, Backed
<1>3. Backed(q, locks[q])' /\ Backed(q, walLocks[q])'
  BY <1>2 DEF Backed
<1>4. LockClaim(q) \in Nat
  BY LockClaimsTyped DEF LockClaims
<1>5. LockClaim(q)' <= LockClaim(q)
  <2>1. CASE chain[q].landed
    <3>1. LockClaim(q)' = LockClaim(q)
      BY <2>1 DEF LockClaim
    <3> QED BY <1>4, <3>1
  <2>2. CASE ~chain[q].landed /\ quoting'[q].pc = "lock"
    <3>1. locks'[q].maxB = locks[q].maxB
      BY <1>2, <2>2
    <3>2. LockClaim(q)' = LockClaim(q)
      BY <2>2, <3>1 DEF LockClaim, OwedCollateral
    <3> QED BY <1>4, <3>2
  <2>3. CASE ~chain[q].landed /\ quoting'[q].pc # "lock"
    <3>1. CASE lockCalls[q] > 0
      <4>1. quoting[q].pc # "lock"
        BY <1>1, <3>1
      <4>2. LockClaim(q)' = LockClaim(q)
        BY <2>3, <3>1, <4>1 DEF LockClaim, OwedCollateral
      <4> QED BY <1>4, <4>2
    <3>2. CASE ~(lockCalls[q] > 0)
      <4>1. LockClaim(q)' = 0
        BY <2>3, <3>2 DEF LockClaim
      <4> QED BY <1>4, <4>1
    <3> QED BY <3>1, <3>2
  <2> QED BY <2>1, <2>2, <2>3
<1> QED BY <1>3, <1>5

\* A write of one lock.
LEMMA CarefulWrite ==
  ASSUME NodeInv, LockInv, LockInv', CoverInv, NEW draft, CarefulDraft(draft),
         NEW ok \in BOOLEAN, status # "failed", AppendSnapshot(records, draft, status, ok),
         UNCHANGED <<world, fills>>,
         \A p \in Rfqs : quoting'[p].pc = "lock" => quoting[p].pc = "lock"
  PROVE  CoverInv'
<1>0. PICK q \in Rfqs : \E d : draft = [locks EXCEPT ![q] = d] /\ Careful(q, d)
  BY DEF CarefulDraft
<1>1. PICK d : draft = [locks EXCEPT ![q] = d] /\ Careful(q, d)
  BY <1>0
<1>2. walRecords = records /\ walLocks = locks /\ locks \in LockTables
  BY DEF NodeInv, StoreInv, LockInv, RecordsOK
<1>3. /\ records' = records /\ walRecords' = records
      /\ locks' \in {draft, locks} /\ walLocks' \in {draft, locks}
      /\ held' = Free /\ clock' = clock
      /\ UNCHANGED <<chain, lockCalls, fillTx, fillCalls, fills>>
  BY <1>2 DEF AppendSnapshot, world
<1>4. ASSUME NEW p \in Rfqs PROVE Careful(p, locks'[p]) /\ Careful(p, walLocks'[p])
  <2>1. draft[p] = IF p = q THEN d ELSE locks[p]
    BY <1>1, <1>2 DEF LockTables
  <2>2. Careful(p, draft[p]) /\ Careful(p, locks[p])
    BY <1>1, <2>1, CarefulSame
  <2> QED BY <1>3, <2>2
<1>5. LockCover' /\ LocksFall
  <2>1. ASSUME NEW p \in Rfqs
        PROVE  /\ Backed(p, locks[p])' /\ Backed(p, walLocks[p])'
               /\ LockClaim(p)' <= LockClaim(p)
    BY <1>3, <1>4, CarefulKept DEF CoverInv
  <2> QED BY <2>1 DEF LockCover, LocksFall
<1>6. ClaimCover'
  <2>1. FillsFall
    BY <1>2, <1>3 DEF FillsFall, Promised
  <2> QED BY <1>5, <2>1, ClaimsKept DEF CoverInv
<1>7. HeldCover'
  BY <1>3, HeldFree
<1>8. ChainCover' /\ FillCover'
  BY <1>2, <1>3 DEF CoverInv, ChainCover, FillCover
<1> QED BY <1>5, <1>6, <1>7, <1>8 DEF CoverInv

LEMMA CarefulTransaction ==
  ASSUME NodeInv, LockInv, LockInv', CoverInv, NEW draft, CarefulDraft(draft),
         NEW ok \in BOOLEAN, lockTransaction(draft, ok), UNCHANGED <<world, fills>>,
         \A p \in Rfqs : quoting'[p].pc = "lock" => quoting[p].pc = "lock"
  PROVE  CoverInv'
BY CarefulWrite DEF lockTransaction, Usable

LEMMA UnchangedIsCareful ==
  ASSUME RecordsOK, NEW q \in Rfqs
  PROVE  CarefulDraft(locks)
BY SameDraft, CarefulSame DEF CarefulDraft

LEMMA LandedIsCareful ==
  ASSUME RecordsOK, NEW q \in Rfqs, chain[q].landed, NEW d
  PROVE  CarefulDraft([locks EXCEPT ![q] = d]) /\ CarefulDraft(Replaced(q, d))
BY UnchangedIsCareful DEF CarefulDraft, Careful, Replaced

LEMMA FailureIsCareful ==
  ASSUME RecordsOK, NEW q \in Rfqs, NEW now, NEW clear \in BOOLEAN,
         NEW next \in {"reconcile-pending", "settlement-unknown"}
  PROVE  CarefulDraft(Failed(q, now, next, clear))
<1> DEFINE lock == IF clear THEN [locks[q] EXCEPT !.attempt = NoAttempt] ELSE locks[q]
           failed == lockWithReconciliationFailure(lock, q, now, next)
<1>1. locks[q] \in StoredLockRecord
  BY DEF RecordsOK, RecordOK
<1>2. lock \in StoredLockRecord /\ lock.maxB = locks[q].maxB
  BY <1>1, NoAttemptTyped DEF StoredLockRecord
<1>3. Failed(q, now, next, clear) = IF Live(locks[q]) /\ Canonical(failed)
                                    THEN [locks EXCEPT ![q] = failed] ELSE locks
  BY DEF Failed
<1> HIDE DEF lock
<1>4. failed.state \in {"quarantined", next} /\ failed.maxB = lock.maxB
  BY <1>2 DEF lockWithReconciliationFailure, StoredLockRecord
<1> HIDE DEF failed
<1>5. Careful(q, failed)
  BY <1>2, <1>4 DEF Careful
<1> QED BY <1>3, <1>5, UnchangedIsCareful DEF CarefulDraft

LEMMA QuarantineIsCareful ==
  ASSUME RecordsOK, NEW q \in Rfqs, NEW now
  PROVE  CarefulDraft(Quarantined(q, now))
<1> DEFINE d == quarantinedLock(locks[q], q, now)
<1>1. locks[q] \in StoredLockRecord
  BY DEF RecordsOK, RecordOK
<1>2. d.state = "quarantined" /\ d.maxB = locks[q].maxB
  BY <1>1 DEF quarantinedLock, StoredLockRecord
<1>3. Quarantined(q, now) = IF locks[q].state \notin {"absent", "settled"}
                            THEN [locks EXCEPT ![q] = d] ELSE locks
  BY DEF Quarantined
<1> HIDE DEF d
<1>4. Careful(q, d)
  BY <1>2 DEF Careful
<1> QED BY <1>3, <1>4, UnchangedIsCareful DEF CarefulDraft

\* What a scan writes is careful: a record is rebuilt from the chain only for a
\* lock that landed.
LEMMA ScanCovers ==
  ASSUME NodeInv, LockInv, LockInv', CoverInv, NEW ok \in BOOLEAN, UNCHANGED fills,
         \/ scanUnavailable(ok) \/ scanApply(ok) \/ scanResolve(ok)
         \/ scanSubmit(ok) \/ scanHash(ok) \/ scanUnknown(ok) \/ scanReset(ok)
         \/ \E receipt \in {"none", "SUCCEEDED", "REVERTED"} : scanEvidenceUnavailable(receipt, ok)
  PROVE  CoverInv'
<1> DEFINE q == scan.q
           c == scan.chain
<1>1. scan.pc # "idle"
  BY DEF scanUnavailable, scanApply, scanResolve, scanSubmit, scanHash, scanUnknown, scanReset,
         scanEvidenceUnavailable
<1>2. /\ q \in Rfqs /\ scan.lock \in StoredLockRecord /\ c \in ChainLocks /\ Stands(scan)
      /\ RecordsOK
  BY <1>1, ScanAt DEF LockInv
<1>3. /\ \A next \in {"reconcile-pending", "settlement-unknown"}, clear \in BOOLEAN :
           CarefulDraft(Failed(q, scan.at, next, clear))
      /\ CarefulDraft(Quarantined(q, scan.at)) /\ CarefulDraft(locks)
      /\ chain[q].landed =>
           \A d : CarefulDraft([locks EXCEPT ![q] = d]) /\ CarefulDraft(Replaced(q, d))
  BY <1>2, FailureIsCareful, QuarantineIsCareful, UnchangedIsCareful, LandedIsCareful
<1>4. ASSUME NEW draft, NEW next, ScanWrites(draft, next, ok), CarefulDraft(draft)
      PROVE  CoverInv'
  BY <1>4, CarefulTransaction DEF ScanWrites
<1>5. scan.pc \in {"apply", "submit", "resolve", "reset"} /\ c.landed => chain[q].landed
  BY <1>2 DEF Stands
<1>6. ASSUME scanUnavailable(ok) \/ scanUnknown(ok) PROVE CoverInv'
  BY <1>3, <1>4, <1>6 DEF scanUnavailable, scanUnknown
<1>7. ASSUME NEW receipt, scanEvidenceUnavailable(receipt, ok) PROVE CoverInv'
  BY <1>3, <1>4, <1>7 DEF scanEvidenceUnavailable
<1>8. CASE scanApply(ok)
  <2> DEFINE open == c.landed /\ \E a \in Actions : ~c.settled[a]
             candidate == [scan.lock EXCEPT !.ticket =
                             @ \/ (open /\ priorLockState(scan.lock, q, scan.at) = "locking")]
             exact == lockStateFromChain(candidate, q, c, scan.at)
  <2>1. \/ ScanWrites(Failed(q, scan.at, "reconcile-pending", FALSE), Done, ok)
        \/ ScanWrites(Quarantined(q, scan.at), Done, ok)
        \/ BoundTo(candidate, c) /\ ScanWrites(Replaced(q, exact), Ready(exact, c), ok)
    BY <1>8 DEF scanApply
  <2>2. scan.pc = "apply"
    BY <1>8 DEF scanApply
  <2> HIDE DEF candidate, exact
  <2>3. CASE BoundTo(candidate, c) /\ ScanWrites(Replaced(q, exact), Ready(exact, c), ok)
    <3>1. CarefulDraft(Replaced(q, exact))
      BY <1>3, <1>5, <2>2, <2>3 DEF BoundTo
    <3> QED BY <1>4, <2>3, <3>1
  <2> QED BY <1>3, <1>4, <2>1, <2>3
<1>9. CASE scanResolve(ok)
  <2> DEFINE exact == lockStateFromChain(scan.lock, q, c, scan.at)
  <2>1. \/ ScanWrites(Quarantined(q, scan.at), Done, ok)
        \/ ScanWrites(Failed(q, scan.at, "settlement-unknown", FALSE), Done, ok)
        \/ /\ BoundTo(scan.lock, c)
           /\ \E next : ScanWrites(Replaced(q, exact), next, ok)
    BY <1>9 DEF scanResolve
  <2>2. scan.pc = "resolve"
    BY <1>9 DEF scanResolve
  <2> HIDE DEF exact
  <2>3. CASE BoundTo(scan.lock, c) /\ \E next : ScanWrites(Replaced(q, exact), next, ok)
    <3>1. CarefulDraft(Replaced(q, exact))
      BY <1>3, <1>5, <2>2, <2>3 DEF BoundTo
    <3> QED BY <1>4, <2>3, <3>1
  <2> QED BY <1>3, <1>4, <2>1, <2>3
<1>10. CASE scanSubmit(ok)
  <2>1. chain[q].landed
    BY <1>2, <1>5, <1>10 DEF scanSubmit, Stands
  <2>2. \/ ScanWrites(locks, Done, ok)
        \/ \E d, next : ScanWrites([locks EXCEPT ![q] = d], next, ok)
    BY <1>10 DEF scanSubmit
  <2> QED BY <1>3, <1>4, <2>1, <2>2
<1>11. CASE scanHash(ok)
  <2>1. PICK hashed : hashed = [locks[q] EXCEPT !.attempt.hash = TRUE]
    OBVIOUS
  <2>2. hashed.state = locks[q].state /\ hashed.maxB = locks[q].maxB
    BY <1>2, <2>1 DEF RecordsOK, LockTables, StoredLockRecord
  <2>3. CarefulDraft([locks EXCEPT ![q] = hashed])
    BY <1>2, <2>2 DEF CarefulDraft, Careful
  <2>4. \/ \E next : ScanWrites([locks EXCEPT ![q] = hashed], next, ok)
        \/ \E next : ScanWrites(locks, next, ok)
    <3>1. CASE Awaits(locks[q], scan.lock.attempt)
      BY <1>11, <2>1, <3>1 DEF scanHash
    <3>2. CASE ~Awaits(locks[q], scan.lock.attempt)
      BY <1>11, <3>2 DEF scanHash
    <3> QED BY <3>1, <3>2
  <2> QED BY <1>3, <1>4, <2>3, <2>4
<1>12. CASE scanReset(ok)
  <2> DEFINE exact == lockStateFromChain(scan.lock, q, c, scan.at)
  <2>1. \/ ScanWrites(Failed(q, scan.at, "reconcile-pending", TRUE), Done, ok)
        \/ ScanWrites(Quarantined(q, scan.at), Done, ok)
        \/ BoundTo(scan.lock, c) /\ ScanWrites(Replaced(q, exact), Done, ok)
    BY <1>12 DEF scanReset
  <2>2. scan.pc = "reset"
    BY <1>12 DEF scanReset
  <2> HIDE DEF exact
  <2>3. CASE BoundTo(scan.lock, c) /\ ScanWrites(Replaced(q, exact), Done, ok)
    <3>1. CarefulDraft(Replaced(q, exact))
      BY <1>3, <1>5, <2>2, <2>3 DEF BoundTo
    <3> QED BY <1>4, <2>3, <3>1
  <2> QED BY <1>3, <1>4, <2>1, <2>3
<1> QED BY <1>6, <1>7, <1>8, <1>9, <1>10, <1>11, <1>12

\* Nor does an operator's resolution or a Take reconciliation give anything up.
LEMMA ResolveLockCovers ==
  ASSUME NodeInv, LockInv, LockInv', CoverInv, UNCHANGED fills, NEW q \in Rfqs, NEW at,
         NEW ok \in BOOLEAN, resolveLock(q, at, ok)
  PROVE  CoverInv'
<1> DEFINE p == priorLockState(locks[q], q, at)
           d == [locks[q] EXCEPT !.state = "reconcile-pending", !.prior = p, !.failures = 0]
<1>1. lockTransaction([locks EXCEPT ![q] = d], ok) /\ UNCHANGED <<world, quoting>>
  BY DEF resolveLock, lockProcs, LockInv, RecordsOK, LockTables
<1> HIDE DEF p
<1>2. d.state = "reconcile-pending" /\ d.maxB = locks[q].maxB
  BY DEF LockInv, RecordsOK, LockTables, StoredLockRecord
<1> HIDE DEF d
<1>3. CarefulDraft([locks EXCEPT ![q] = d])
  BY <1>2 DEF CarefulDraft, Careful
<1> QED BY <1>1, <1>3, CarefulTransaction

LEMMA TakeUnavailableCovers ==
  ASSUME NodeInv, LockInv, LockInv', CoverInv, UNCHANGED fills, NEW q \in Rfqs, NEW at,
         NEW ok \in BOOLEAN, takeUnavailable(q, at, ok)
  PROVE  CoverInv'
<1>1. /\ lockTransaction(Failed(q, at, "reconcile-pending", FALSE), ok)
      /\ UNCHANGED <<world, quoting>>
  BY DEF takeUnavailable, lockProcs
<1>2. CarefulDraft(Failed(q, at, "reconcile-pending", FALSE))
  BY FailureIsCareful DEF LockInv
<1> QED BY <1>1, <1>2, CarefulTransaction

LEMMA TakeWriteCovers ==
  ASSUME NodeInv, LockInv, LockInv', CoverInv, UNCHANGED fills, NEW t \in Requests,
         NEW ok \in BOOLEAN, takeContradicted(t, ok) \/ takeWrite(t, ok)
  PROVE  CoverInv'
<1>1. UNCHANGED <<world, quoting>>
  BY DEF takeContradicted, takeWrite
<1>2. taking[t].q \in Rfqs /\ chain[taking[t].q].landed
  BY DEF takeContradicted, takeWrite, LockInv, TakingOK, QuoteOK
<1>3. \/ lockTransaction(Quarantined(taking[t].q, taking[t].at), ok)
      \/ \E d : lockTransaction([locks EXCEPT ![taking[t].q] = d], ok)
  BY DEF takeContradicted, takeWrite
<1>4. /\ CarefulDraft(Quarantined(taking[t].q, taking[t].at))
      /\ \A d : CarefulDraft([locks EXCEPT ![taking[t].q] = d])
  BY <1>2, QuarantineIsCareful, LandedIsCareful DEF LockInv
<1> QED BY <1>1, <1>3, <1>4, CarefulTransaction

\* What a quote writes after its lock was submitted or refused.
LEMMA QuoteWritesCover ==
  ASSUME NodeInv, LockInv, LockInv', CoverInv, NEW q \in Rfqs, NEW ok \in BOOLEAN,
         UNCHANGED fills,
         \/ quoteConfirmed(q, ok) \/ quoteFailed(q, ok) \/ quoteFinish(q, ok)
         \/ \E at \in Stamps : quoteReplay(q, at, ok)
  PROVE  CoverInv'
<1>1. /\ RecordsOK /\ locks \in LockTables /\ locks[q] \in StoredLockRecord
      /\ RecordOK(q, locks[q])
  BY DEF LockInv, RecordsOK, LockTables
<1>2. UNCHANGED <<world, fills>>
  BY DEF quoteConfirmed, quoteFailed, quoteFinish, quoteReplay
<1>3. \A p \in Rfqs : quoting'[p].pc = "lock" => quoting[p].pc = "lock"
  <2>1. quoting \in [Rfqs -> QuoteRequests]
    BY DEF LockInv, QuoteOK
  <2>2. \/ quoting' = quoting
        \/ quoting' = [quoting EXCEPT ![q] = NotQuoting]
        \/ \E pc \in {"sign", "idle"} : quoting' = [quoting EXCEPT ![q].pc = pc]
    BY DEF quoteConfirmed, quoteFailed, quoteFinish, quoteReplay
  <2> QED BY <2>1, <2>2, NotQuotingTyped DEF QuoteRequests
<1>4. ASSUME NEW draft, CarefulDraft(draft), lockTransaction(draft, ok) PROVE CoverInv'
  BY <1>2, <1>3, <1>4, CarefulTransaction
<1>5. CASE quoteConfirmed(q, ok)
  <2>1. PICK d : d = [locks[q] EXCEPT !.state = "open", !.ticket = TRUE]
    OBVIOUS
  <2>2. [locks EXCEPT ![q].state = "open", ![q].ticket = TRUE] = [locks EXCEPT ![q] = d]
    BY <1>1, <2>1 DEF LockTables, StoredLockRecord
  <2>3. chain[q].landed
    BY <1>5 DEF quoteConfirmed, LockInv, QuoteOK
  <2>4. CarefulDraft([locks EXCEPT ![q] = d])
    BY <1>1, <2>3, LandedIsCareful
  <2> QED BY <1>4, <1>5, <2>2, <2>4 DEF quoteConfirmed
<1>6. CASE quoteFinish(q, ok)
  <2>1. PICK d : d = [locks[q] EXCEPT !.signed = TRUE]
    OBVIOUS
  <2>2. [locks EXCEPT ![q].signed = TRUE] = [locks EXCEPT ![q] = d]
    BY <1>1, <2>1 DEF LockTables, StoredLockRecord
  <2>3. chain[q].landed
    BY <1>6 DEF quoteFinish, LockInv, QuoteOK
  <2>4. CarefulDraft([locks EXCEPT ![q] = d])
    BY <1>1, <2>3, LandedIsCareful
  <2> QED BY <1>4, <1>6, <2>2, <2>4 DEF quoteFinish
<1>7. ASSUME NEW at \in Stamps, quoteReplay(q, at, ok) PROVE CoverInv'
  BY <1>1, <1>4, <1>7, UnchangedIsCareful DEF quoteReplay
<1>8. CASE quoteFailed(q, ok)
  <2>1. PICK d : d = LockFailed(locks[q], q, quoting[q].at, quoting[q].pc)
    OBVIOUS
  <2>2. lockTransaction([locks EXCEPT ![q] = d], ok) /\ quoting[q].pc \in {"reverted", "unknown"}
    BY <1>1, <1>8, <2>1 DEF quoteFailed, LockTables
  <2>3. Careful(q, d)
    <3>1. CASE quoting[q].pc = "reverted"
      <4>1. d = NoLock /\ lockCalls[q] = 0
        BY <2>1, <3>1 DEF LockFailed, LockInv, QuoteOK
      <4> QED BY <3>1, <4>1 DEF Careful, NoLock
    <3>2. CASE quoting[q].pc = "unknown"
      <4>1. locks[q].state # "absent"
        BY <1>1, <3>2 DEF RecordOK
      <4>2. d = lockWithReconciliationFailure(locks[q], q, quoting[q].at, "reconcile-pending")
        BY <2>1, <3>2, <4>1 DEF LockFailed
      <4>3. d.state \in {"quarantined", "reconcile-pending"} /\ d.maxB = locks[q].maxB
        BY <1>1, <4>2 DEF lockWithReconciliationFailure, StoredLockRecord
      <4> QED BY <4>3 DEF Careful
    <3> QED BY <2>2, <3>1, <3>2
  <2> QED BY <1>4, <2>2, <2>3 DEF CarefulDraft
<1> QED BY <1>5, <1>6, <1>7, <1>8

\* A step of the locks that writes nothing and submits no lock.
LEMMA LockMoveCovers ==
  ASSUME NodeInv, LockInv, LockInv', CoverInv,
         UNCHANGED <<records, walRecords, locks, walLocks, held, clock, chain, lockCalls,
                     fillTx, fillCalls, fills>>,
         \A p \in Rfqs : quoting'[p].pc = "lock" => quoting[p].pc = "lock"
  PROVE  CoverInv'
<1>1. LockCover' /\ LocksFall
  <2>1. ASSUME NEW p \in Rfqs
        PROVE  /\ Backed(p, locks[p])' /\ Backed(p, walLocks[p])'
    BY DEF CoverInv, LockCover, Backed
  <2>2. ASSUME NEW p \in Rfqs PROVE LockClaim(p)' <= LockClaim(p)
    <3>1. quoting[p].pc = "lock" => lockCalls[p] = 0 /\ ~chain[p].landed
      BY DEF LockInv, QuoteOK, WorldOK
    <3>2. LockClaim(p) \in Nat
      BY LockClaimsTyped DEF LockClaims
    <3>3. LockClaim(p)' \in {0, LockClaim(p)}
      BY <3>1 DEF LockClaim, OwedCollateral
    <3> QED BY <3>2, <3>3
  <2> QED BY <2>1, <2>2 DEF LockCover, LocksFall
<1>2. \A i \in Intents : /\ Promised(i, records[i])' => Promised(i, records[i])
                         /\ Promised(i, walRecords[i])' => Promised(i, walRecords[i])
  BY DEF Promised
<1>3. ChainCover' /\ FillCover' /\ clock' >= clock
  BY DEF CoverInv, ChainCover, FillCover, LockInv, HeldOK
<1> QED BY <1>1, <1>2, <1>3, StillCovers

\* The steps of a quote between its transactions.
LEMMA QuoteMoveCovers ==
  ASSUME NodeInv, LockInv, LockInv', CoverInv, UNCHANGED fills, NEW q \in Rfqs,
         \/ walletLockReturns(q) \/ quoteOvertaken(q) \/ quoteSign(q) \/ quoteLost(q)
         \/ walletLock(q) /\ UNCHANGED <<chain, lockCalls>>
  PROVE  CoverInv'
<1>1. UNCHANGED <<records, walRecords, locks, walLocks, held, clock, chain, lockCalls,
                  fillTx, fillCalls, fills>>
  BY DEF walletLockReturns, quoteOvertaken, quoteSign, quoteLost, walletLock, store, world
<1>2. \/ quoting' = [quoting EXCEPT ![q] = NotQuoting]
      \/ \E pc \in {"confirm", "reverted", "unknown", "finish", "wait"} :
           quoting' = [quoting EXCEPT ![q].pc = pc]
  BY DEF walletLockReturns, quoteOvertaken, quoteSign, quoteLost, walletLock
<1>3. quoting \in [Rfqs -> QuoteRequests]
  BY DEF LockInv, QuoteOK
<1>4. \A p \in Rfqs : quoting'[p].pc = "lock" => quoting[p].pc = "lock"
  BY <1>2, <1>3, NotQuotingTyped DEF QuoteRequests
<1> QED BY <1>1, <1>4, LockMoveCovers

\* wallet.lock submits what the record has.
LEMMA WalletLockCovers ==
  ASSUME NodeInv, LockInv, LockInv', CoverInv, UNCHANGED fills, NEW q \in Rfqs, walletLock(q)
  PROVE  CoverInv'
<1>1. CASE UNCHANGED <<chain, lockCalls>>
  BY <1>1, QuoteMoveCovers
<1>2. CASE /\ quoting' = [quoting EXCEPT ![q].pc = "wait"]
           /\ lockCalls' = [lockCalls EXCEPT ![q] = @ + 1]
           /\ chain' = [chain EXCEPT ![q].maxB = locks[q].maxB]
  <2>1. /\ quoting[q].pc = "lock" /\ lockCalls[q] = 0 /\ ~chain[q].landed
        /\ UNCHANGED <<records, walRecords, locks, walLocks, held, clock, fillTx, fillCalls>>
    BY DEF walletLock, store, LockInv, QuoteOK, WorldOK
  <2>2. /\ lockCalls'[q] = 1 /\ quoting'[q].pc = "wait"
        /\ \A p \in Rfqs \ {q} : lockCalls'[p] = lockCalls[p] /\ quoting'[p] = quoting[p]
    BY <1>2, <2>1 DEF LockInv, WorldOK, QuoteOK, QuoteRequests
  <2>3. /\ chain'[q].maxB = locks[q].maxB /\ chain'[q].landed = chain[q].landed
        /\ chain'[q].taken = chain[q].taken /\ chain'[q].settled = chain[q].settled
        /\ \A p \in Rfqs \ {q} : chain'[p] = chain[p]
    BY <1>2 DEF LockInv, WorldOK, ChainLocks
  <2>4. Backed(q, locks[q]) /\ Backed(q, walLocks[q])
    BY DEF CoverInv, LockCover
  <2>5. LockCover'
    <3>1. ASSUME NEW p \in Rfqs PROVE Backed(p, locks[p])' /\ Backed(p, walLocks[p])'
      <4>1. CASE p = q
        BY <2>1, <2>2, <2>3, <2>4, <4>1 DEF Backed
      <4>2. CASE p # q
        BY <2>1, <2>2, <2>3, <4>2 DEF CoverInv, LockCover, Backed
      <4> QED BY <4>1, <4>2
    <3> QED BY <3>1 DEF LockCover
  <2>6. LocksFall
    <3>1. ASSUME NEW p \in Rfqs PROVE LockClaim(p)' = LockClaim(p)
      <4>1. CASE p = q
        BY <2>1, <2>2, <2>3, <4>1 DEF LockClaim, OwedCollateral
      <4>2. CASE p # q
        BY <2>1, <2>2, <2>3, <4>2 DEF LockClaim, OwedCollateral
      <4> QED BY <4>1, <4>2
    <3>2. \A p \in Rfqs : LockClaim(p) \in Nat
      BY LockClaimsTyped DEF LockClaims
    <3> QED BY <3>1, <3>2 DEF LocksFall
  <2>7. ChainCover'
    <3>1. ASSUME NEW p \in Rfqs
          PROVE  /\ lockCalls'[p] > 0 => chain'[p].maxB >= 1
                 /\ chain'[p].taken <= 1
                 /\ chain'[p].settled["release"] => clock >= LockExpiry[p]
      <4>1. CASE p = q
        BY <2>1, <2>3, <2>4, <4>1 DEF CoverInv, ChainCover, Backed
      <4>2. CASE p # q
        BY <2>2, <2>3, <4>2 DEF CoverInv, ChainCover
      <4> QED BY <4>1, <4>2
    <3> QED BY <2>1, <3>1 DEF ChainCover
  <2>8. \A i \in Intents : /\ Promised(i, records[i])' => Promised(i, records[i])
                           /\ Promised(i, walRecords[i])' => Promised(i, walRecords[i])
    BY <2>1 DEF Promised
  <2>9. FillCover' /\ clock' >= clock
    BY <2>1 DEF CoverInv, FillCover, LockInv, HeldOK
  <2> QED BY <2>1, <2>5, <2>6, <2>7, <2>8, <2>9, StillCovers
<1> QED BY <1>1, <1>2 DEF walletLock

LEMMA QuoteRefusedCovers ==
  ASSUME NodeInv, LockInv, LockInv', CoverInv, UNCHANGED fills, NEW q \in Rfqs,
         NEW ok \in BOOLEAN, quoteRefused(q, ok)
  PROVE  CoverInv'
<1>1. /\ held.subject = q /\ AppendSnapshot(records, locks, status, ok)
      /\ UNCHANGED <<world, quoting>>
  BY DEF quoteRefused, lockProcs
<1>2. status # "failed"
  BY <1>1, FreeHolds DEF LockInv, HeldOK
<1>3. CarefulDraft(locks)
  BY UnchangedIsCareful DEF LockInv
<1> QED BY <1>1, <1>2, <1>3, CarefulWrite

\* A schedule is no larger than the inventory that is left.
LEMMA AvailableBounds ==
  ASSUME NEW at, NEW b \in Int, NEW m \in Nat, m >= 1, m <= availableBuyInventory(at, b),
         Unresolved(locks, at) \in Int, Reserved(records) \in Int
  PROVE  m + Unresolved(locks, at) + Reserved(records) <= b
<1>1. PICK x : x = b - (Unresolved(locks, at) + Reserved(records))
  OBVIOUS
<1>2. x \in Int /\ m <= Max({0, x})
  BY <1>1 DEF availableBuyInventory
<1>3. Max({0, x}) \in {0, x}
  <2>1. \E y \in {0, x} : \A z \in {0, x} : y >= z
    BY <1>2
  <2> QED BY <2>1 DEF Max
<1>4. m <= x
  BY <1>2, <1>3
<1> QED BY <1>1, <1>2, <1>4

\* A new lock is covered by what the open transaction was told is spare.
LEMMA QuoteAcquiredCovers ==
  ASSUME NodeInv, LockInv, LockInv', CoverInv, UNCHANGED fills, NEW q \in Rfqs,
         NEW maxB \in Sizes, NEW ok \in BOOLEAN, quoteAcquired(q, maxB, ok)
  PROVE  CoverInv'
<1> DEFINE d == [NoLock EXCEPT !.state = "locking", !.maxB = maxB]
           r == [pc |-> "lock", at |-> held.at]
           draft == [locks EXCEPT ![q] = d]
<1>1. /\ held.subject = q /\ maxB <= availableBuyInventory(held.at, held.balance)
      /\ AppendSnapshot(records, draft, status, ok)
      /\ quoting' = (IF ok THEN [quoting EXCEPT ![q] = r] ELSE quoting)
      /\ UNCHANGED <<chain, lockCalls, fillTx, fillCalls, fills>>
  BY DEF quoteAcquired, world
<1>2. held # Free /\ status # "failed" /\ locks[q].state = "absent" /\ clock' = clock
  BY <1>1, FreeHolds DEF LockInv, HeldOK, AppendSnapshot
<1>3. d.state = "locking" /\ d.maxB = maxB /\ r.pc = "lock"
  BY DEF NoLock
<1>4. maxB \in Nat /\ maxB >= 1
  BY LocksAssumption
<1>5. lockCalls[q] = 0 /\ quoting[q].pc = "idle" /\ ~chain[q].landed
  <2>1. RecordOK(q, locks[q]) /\ lockCalls[q] \in Nat
    BY DEF LockInv, RecordsOK, WorldOK
  <2>2. lockCalls[q] = 0 /\ quoting[q].pc = "idle"
    BY <1>2, <2>1 DEF RecordOK
  <2> QED BY <2>2, NothingSubmitted
<1> HIDE DEF d, r
<1>6. /\ walRecords = records /\ walLocks = locks /\ locks \in LockTables
      /\ quoting \in [Rfqs -> QuoteRequests]
  BY <1>2 DEF NodeInv, StoreInv, LockInv, RecordsOK, QuoteOK
<1>7. draft[q] = d /\ \A p \in Rfqs \ {q} : draft[p] = locks[p]
  BY <1>6 DEF LockTables
<1> HIDE DEF draft
<1>8. /\ records' = records /\ walRecords' = records /\ held' = Free
      /\ IF ok THEN locks' = draft /\ walLocks' = draft
         ELSE locks' = locks /\ walLocks' \in {draft, locks}
  BY <1>1, <1>6 DEF AppendSnapshot
<1>9. /\ \A p \in Rfqs \ {q} : quoting'[p] = quoting[p]
      /\ quoting'[q].pc = IF ok THEN "lock" ELSE "idle"
  BY <1>1, <1>3, <1>5, <1>6
<1>10. LockCover'
  <2>1. ASSUME NEW p \in Rfqs PROVE Backed(p, locks[p])' /\ Backed(p, walLocks[p])'
    <3>1. CASE p = q
      BY <1>1, <1>2, <1>3, <1>4, <1>5, <1>7, <1>8, <1>9, <3>1 DEF Backed
    <3>2. CASE p # q
      <4>1. locks'[p] = locks[p] /\ walLocks'[p] = locks[p] /\ Backed(p, locks[p])
        BY <1>7, <1>8, <3>2 DEF CoverInv, LockCover
      <4> QED BY <1>1, <1>9, <3>2, <4>1 DEF Backed
    <3> QED BY <3>1, <3>2
  <2> QED BY <2>1 DEF LockCover
<1>11. /\ LockClaims \in [Rfqs -> Int] /\ SumFunction(LockClaims) \in Int
       /\ SumFunction(FillClaims(records)) \in Int
  BY LockClaimsTyped, FillClaimsTyped
<1>12. LockClaims[q] = 0 /\ LockClaims'[q] \in {0, maxB}
  <2>1. LockClaim(q) = 0
    BY <1>5 DEF LockClaim
  <2>2. LockClaim(q)' \in {0, maxB}
    <3>1. CASE ok
      <4>1. locks'[q].maxB = maxB
        BY <1>3, <1>7, <1>8, <3>1
      <4> QED BY <1>1, <1>2, <1>5, <1>9, <3>1, <4>1 DEF LockClaim, OwedCollateral
    <3>2. CASE ~ok
      BY <1>1, <1>2, <1>5, <1>9, <3>2 DEF LockClaim
    <3> QED BY <3>1, <3>2
  <2> QED BY <2>1, <2>2 DEF LockClaims
<1>13. \A p \in Rfqs \ {q} : LockClaims'[p] = LockClaims[p]
  <2>1. ASSUME NEW p \in Rfqs \ {q} PROVE LockClaim(p)' = LockClaim(p)
    <3>1. locks'[p] = locks[p]
      BY <1>7, <1>8
    <3> QED BY <1>1, <1>2, <1>9, <3>1 DEF LockClaim, OwedCollateral
  <2> QED BY <2>1 DEF LockClaims
<1>14. SumFunction(LockClaims)' <= SumFunction(LockClaims) + maxB
  <2> DEFINE h == LockClaims'
  <2>1. h \in [Rfqs -> Int]
    <3>1. \A p \in Rfqs : h[p] \in Int
      BY <1>4, <1>11, <1>12, <1>13
    <3> QED BY <3>1 DEF LockClaims
  <2>2. h[q] - LockClaims[q] <= maxB /\ h[q] - LockClaims[q] \in Int
    BY <1>4, <1>12
  <2>3. \A p \in Rfqs \ {q} : h[p] = LockClaims[p]
    BY <1>13
  <2> HIDE DEF h
  <2>4. SumFunction(h) = SumFunction(LockClaims) + (h[q] - LockClaims[q])
    BY <1>11, <2>1, <2>3, SumPoint, WalletAssumption
  <2>5. SumFunction(h) <= SumFunction(LockClaims) + maxB /\ SumFunction(h) \in Int
    BY <1>4, <1>11, <2>2, <2>4
  <2> QED BY <2>5 DEF h
<1>15. SumFunction(LockClaims)' \in Int
  <2>1. \A p \in Rfqs : LockClaims'[p] \in Int
    BY <1>4, <1>11, <1>12, <1>13
  <2>2. LockClaims' \in [Rfqs -> Int]
    BY <2>1 DEF LockClaims
  <2> QED BY <2>2, SumInt, WalletAssumption
<1>16. Claims(records) + maxB <= Inventory
  <2>1. /\ held.balance \in Int
        /\ held.balance + Claims(records)
             <= Inventory + Reserved(records) + Unresolved(locks, held.at)
    BY <1>2 DEF CoverInv, HeldCover
  <2>2. Reserved(records) \in Int /\ Unresolved(locks, held.at) \in Int /\ Inventory \in Int
    BY <1>6, ReservedIsSum, UnresolvedIsSum, WalletAssumption
  <2>3. maxB + Unresolved(locks, held.at) + Reserved(records) <= held.balance
    BY <1>1, <1>4, <2>1, <2>2, AvailableBounds
  <2>4. Claims(records) \in Int
    BY <1>11 DEF Claims
  <2> QED BY <1>4, <2>1, <2>2, <2>3, <2>4
<1>17. ClaimCover'
  <2>1. /\ FillClaims(records)' = FillClaims(records)
        /\ FillClaims(walRecords)' = FillClaims(records)
    BY <1>1, <1>8 DEF FillClaims, Promised
  <2>2. Inventory \in Int
    BY WalletAssumption
  <2>3. SumFunction(FillClaims(records)) + SumFunction(LockClaims)' <= Inventory
    BY <1>4, <1>11, <1>14, <1>15, <1>16, <2>2 DEF Claims
  <2> QED BY <2>1, <2>3 DEF ClaimCover, Claims
<1>18. HeldCover'
  BY <1>8, HeldFree
<1>19. ChainCover' /\ FillCover'
  BY <1>1, <1>2, <1>6, <1>8 DEF CoverInv, ChainCover, FillCover
<1> QED BY <1>10, <1>17, <1>18, <1>19 DEF CoverInv

\* Every step of the locks.
LEMMA LockNextCovers ==
  ASSUME NodeInv, LockInv, LockInv', CoverInv, LockNext, UNCHANGED fills
  PROVE  CoverInv'
<1>1. CASE QuoteNext
  <2>1. ASSUME NEW q \in Rfqs, NEW at \in Stamps, quoteV3(q, at) PROVE CoverInv'
    <3>1. /\ held' = [subject |-> q, at |-> at, balance |-> privateBalance]
          /\ UNCHANGED <<records, walRecords, locks, walLocks, clock, world, fills, quoting>>
      BY <2>1 DEF quoteV3, lockProcs
    <3> QED BY <3>1, HoldCovers
  <2> QED BY <1>1, <2>1, QuoteMoveCovers, WalletLockCovers, QuoteRefusedCovers,
             QuoteAcquiredCovers, QuoteWritesCover DEF QuoteNext, QuoteStep
<1>2. CASE ScanNext
  <2>1. ASSUME UNCHANGED <<store, clock, fillTx, fillCalls, chain, lockCalls, quoting>>
        PROVE  CoverInv'
    <3>1. UNCHANGED <<records, walRecords, locks, walLocks, held>>
      BY <2>1 DEF store
    <3> QED BY <2>1, <3>1, LockMoveCovers
  <2>2. ASSUME NEW at, NEW due, settleExpiredLocks(at, due) PROVE CoverInv'
    BY <2>1, <2>2 DEF settleExpiredLocks, world
  <2>3. CASE recovered
    <3>1. UNCHANGED <<records, walRecords, locks, walLocks, held, clock, chain, lockCalls,
                      fillTx, fillCalls, fills, quoting>>
      BY <2>3 DEF recovered, world, lockProcs
    <3> QED BY <3>1, LockMoveCovers
  <2>4. ASSUME NEW q \in Rfqs, refreshLock(q) \/ refreshSkipped(q) PROVE CoverInv'
    BY <2>1, <2>4 DEF refreshLock, refreshSkipped, world
  <2>5. ASSUME NEW next, ScanMoves(next) PROVE CoverInv'
    BY <2>1, <2>5 DEF ScanMoves, world
  <2>6. CASE walletSettle
    BY <2>1, <2>6 DEF walletSettle
  <2>7. CASE scanRead \/ scanReverted
    BY <2>5, <2>7 DEF scanRead, scanReverted
  <2>8. ASSUME NEW receipt, scanEvidence(receipt) PROVE CoverInv'
    BY <2>5, <2>8 DEF scanEvidence
  <2>9. ASSUME NEW pc, walletSettleReturns(pc) PROVE CoverInv'
    BY <2>5, <2>9 DEF walletSettleReturns
  <2> QED BY <1>2, <2>2, <2>3, <2>4, <2>6, <2>7, <2>8, <2>9, ScanCovers DEF ScanNext, ScanStep
<1>3. CASE TakeNext
  <2>1. ASSUME NEW t \in Requests, NEW q \in Rfqs, NEW at \in Stamps, NEW v \in LockRevisions,
               reconcileTake(t, q, at, v)
        PROVE  CoverInv'
    <3>1. UNCHANGED <<records, walRecords, locks, walLocks, held, clock, chain, lockCalls,
                      fillTx, fillCalls, fills, quoting>>
      BY <2>1 DEF reconcileTake, store, world
    <3> QED BY <3>1, LockMoveCovers
  <2> QED BY <1>3, <2>1, ResolveLockCovers, TakeUnavailableCovers, TakeWriteCovers DEF TakeNext
<1> QED BY <1>1, <1>2, <1>3 DEF LockNext

-----------------------------------------------------------------------------
(* The world *)

\* The chain moves one lock.
LEMMA ChainMoveCovers ==
  ASSUME NodeInv, LockInv, LockInv', CoverInv, NEW q \in Rfqs,
         UNCHANGED <<records, walRecords, locks, walLocks, held, clock, quoting,
                     fillTx, fillCalls, fills>>,
         \A p \in Rfqs \ {q} : chain'[p] = chain[p] /\ lockCalls'[p] = lockCalls[p],
         LockClaim(q)' <= LockClaim(q),
         chain[q].landed => chain'[q].landed,
         ~chain'[q].landed => chain'[q].maxB = chain[q].maxB /\ lockCalls'[q] <= lockCalls[q],
         lockCalls'[q] > 0 => chain'[q].maxB >= 1, chain'[q].taken <= 1,
         chain'[q].settled["release"] => clock >= LockExpiry[q]
  PROVE  CoverInv'
<1>1. LockCover'
  <2>1. ASSUME NEW p \in Rfqs PROVE Backed(p, locks[p])' /\ Backed(p, walLocks[p])'
    <3>1. Backed(p, locks[p]) /\ Backed(p, walLocks[p])
      BY DEF CoverInv, LockCover
    <3>2. lockCalls[p] \in Nat /\ lockCalls'[p] \in Nat
      BY DEF LockInv, WorldOK
    <3>3. CASE p = q
      BY <3>1, <3>2, <3>3 DEF Backed
    <3>4. CASE p # q
      BY <3>1, <3>4 DEF Backed
    <3> QED BY <3>3, <3>4
  <2> QED BY <2>1 DEF LockCover
<1>2. LocksFall
  <2>1. ASSUME NEW p \in Rfqs, p # q PROVE LockClaim(p)' = LockClaim(p) /\ LockClaim(p) \in Nat
    <3>1. LockClaim(p)' = LockClaim(p)
      BY <2>1 DEF LockClaim, OwedCollateral
    <3> QED BY <3>1, LockClaimsTyped DEF LockClaims
  <2> QED BY <2>1 DEF LocksFall
<1>3. ChainCover'
  <2>1. ASSUME NEW p \in Rfqs
        PROVE  /\ lockCalls'[p] > 0 => chain'[p].maxB >= 1
               /\ chain'[p].taken <= 1
               /\ chain'[p].settled["release"] => clock >= LockExpiry[p]
    BY DEF CoverInv, ChainCover
  <2> QED BY <2>1 DEF ChainCover
<1>4. \A i \in Intents : /\ Promised(i, records[i])' => Promised(i, records[i])
                         /\ Promised(i, walRecords[i])' => Promised(i, walRecords[i])
  BY DEF Promised
<1>5. FillCover' /\ clock' >= clock
  BY DEF CoverInv, FillCover, LockInv, HeldOK
<1> QED BY <1>1, <1>2, <1>3, <1>4, <1>5, StillCovers

LEMMA ChainCovers ==
  ASSUME NodeInv, LockInv, LockInv', CoverInv, NEW q \in Rfqs,
         \/ LockLands(q) \/ LockReverts(q) \/ Take(q)
         \/ \E a \in Actions : SettleLands(q, a) \/ SettleReverts(q, a),
         UNCHANGED <<store, clock, fills, quoting>>
  PROVE  CoverInv'
<1>1. /\ UNCHANGED <<records, walRecords, locks, walLocks, held>>
      /\ UNCHANGED <<fillTx, fillCalls>>
  BY DEF store, LockLands, LockReverts, Take, SettleLands, SettleReverts
<1>2. /\ chain \in [Rfqs -> ChainLocks] /\ chain[q] \in ChainLocks
      /\ lockCalls \in [Rfqs -> Nat] /\ lockCalls[q] \in Nat
      /\ chain[q].maxB \in Nat /\ chain[q].taken \in Nat
      /\ chain[q].settled \in [Actions -> BOOLEAN] /\ "release" \in Actions
  BY DEF LockInv, WorldOK, ChainLocks, Actions
<1>3. /\ lockCalls[q] > 0 => chain[q].maxB >= 1 /\ quoting[q].pc # "lock"
      /\ chain[q].taken <= 1
      /\ chain[q].settled["release"] => clock >= LockExpiry[q] /\ chain[q].landed
      /\ chain[q].landed => lockCalls[q] = 1
      /\ LockClaim(q) \in Nat
  <2>1. chain[q].settled["release"] => chain[q].landed
    BY <1>2 DEF LockInv, WorldOK
  <2>2. quoting[q].pc = "lock" => lockCalls[q] = 0
    BY DEF LockInv, QuoteOK
  <2> QED BY <2>1, <2>2, LockClaimsTyped DEF CoverInv, ChainCover, LockInv, WorldOK, LockClaims
<1>4. clock \in Nat /\ LockExpiry[q] \in Nat
  BY WalletAssumption DEF LockInv, HeldOK
<1>5. CASE LockLands(q)
  <2>1. /\ lockCalls[q] > 0 /\ ~chain[q].landed /\ clock < LockExpiry[q]
        /\ lockCalls' = lockCalls /\ chain' = [chain EXCEPT ![q].landed = TRUE]
    BY <1>5 DEF LockLands
  <2>2. /\ chain'[q].landed /\ chain'[q].maxB = chain[q].maxB
        /\ chain'[q].taken = chain[q].taken /\ chain'[q].settled = chain[q].settled
        /\ \A p \in Rfqs \ {q} : chain'[p] = chain[p]
    BY <1>2, <2>1 DEF ChainLocks
  <2>3. LockClaim(q)' = LockClaim(q)
    <3>1. LockClaim(q) = chain[q].maxB
      BY <1>3, <2>1 DEF LockClaim, OwedCollateral
    <3>2. LockClaim(q)' = chain'[q].maxB
      BY <1>3, <2>1, <2>2 DEF LockClaim, Collateral
    <3> QED BY <2>2, <3>1, <3>2
  <2> QED BY <1>1, <1>3, <2>1, <2>2, <2>3, ChainMoveCovers
<1>6. CASE LockReverts(q)
  <2>1. /\ lockCalls[q] > 0 /\ ~chain[q].landed /\ chain' = chain
        /\ lockCalls' = [lockCalls EXCEPT ![q] = @ - 1]
    BY <1>6 DEF LockReverts
  <2>2. /\ lockCalls'[q] = lockCalls[q] - 1
        /\ \A p \in Rfqs \ {q} : lockCalls'[p] = lockCalls[p]
    BY <1>2, <2>1
  <2>3. LockClaim(q)' \in {0, LockClaim(q)}
    BY <1>3, <2>1 DEF LockClaim, OwedCollateral
  <2>4. LockClaim(q)' <= LockClaim(q)
    BY <1>3, <2>3
  <2> QED BY <1>1, <1>2, <1>3, <2>1, <2>2, <2>4, ChainMoveCovers
<1>7. CASE Take(q)
  <2>1. /\ chain[q].landed /\ clock < LockExpiry[q]
        /\ lockCalls' = lockCalls /\ chain' = [chain EXCEPT ![q].taken = 1]
    BY <1>7 DEF Take
  <2>2. /\ chain'[q].landed /\ chain'[q].maxB = chain[q].maxB
        /\ chain'[q].taken = 1 /\ chain'[q].settled = chain[q].settled
        /\ \A p \in Rfqs \ {q} : chain'[p] = chain[p]
    BY <1>2, <2>1 DEF ChainLocks
  <2>3. ~chain[q].settled["release"]
    BY <1>3, <1>4, <2>1
  <2>4. LockClaim(q)' = LockClaim(q)
    BY <2>1, <2>2, <2>3 DEF LockClaim, Collateral
  <2> QED BY <1>1, <1>3, <2>1, <2>2, <2>3, <2>4, ChainMoveCovers
<1>8. ASSUME NEW a \in Actions, SettleLands(q, a) PROVE CoverInv'
  <2>1. /\ settleCalls[q][a] > 0 /\ clock >= LockExpiry[q]
        /\ lockCalls' = lockCalls /\ chain' = [chain EXCEPT ![q].settled[a] = TRUE]
    BY <1>8 DEF SettleLands
  <2>2. chain[q].landed
    <3>1. settleCalls[q][a] \in Nat /\ settleCalls[q][a] <= 1
      BY DEF LockInv, WorldOK
    <3>2. settleCalls[q][a] = 1
      BY <2>1, <3>1
    <3> QED BY <3>2 DEF LockInv, WorldOK
  <2>3. /\ chain'[q].landed /\ chain'[q].maxB = chain[q].maxB
        /\ chain'[q].taken = chain[q].taken
        /\ chain'[q].settled = [chain[q].settled EXCEPT ![a] = TRUE]
        /\ \A p \in Rfqs \ {q} : chain'[p] = chain[p]
    BY <1>2, <2>1, <2>2 DEF ChainLocks
  <2>4. /\ chain[q].maxB >= 1 /\ chain[q].taken <= chain[q].maxB
    BY <1>2, <1>3, <2>2
  <2>5. chain[q].settled["release"] => chain'[q].settled["release"]
    BY <1>2, <2>3
  <2>6. LockClaim(q)' <= LockClaim(q)
    <3>1. LockClaim(q) = Collateral(chain[q]) /\ LockClaim(q)' = Collateral(chain'[q])
      BY <2>2, <2>3 DEF LockClaim, Collateral
    <3> QED BY <1>2, <2>3, <2>4, <2>5, <3>1 DEF Collateral
  <2> QED BY <1>1, <1>3, <2>1, <2>2, <2>3, <2>4, <2>6, ChainMoveCovers
<1>9. ASSUME NEW a \in Actions, SettleReverts(q, a) PROVE CoverInv'
  <2>1. UNCHANGED <<chain, lockCalls>>
    BY <1>9 DEF SettleReverts
  <2> QED BY <1>1, <2>1, LockMoveCovers
<1> QED BY <1>5, <1>6, <1>7, <1>8, <1>9

LEMMA FillOutcomeCovers ==
  ASSUME NodeInv, LockInv, LockInv', CoverInv, NEW i \in Intents, FillLands(i) \/ FillReverts(i),
         UNCHANGED <<store, clock, fills, quoting>>
  PROVE  CoverInv'
<1>1. /\ UNCHANGED <<records, walRecords, locks, walLocks, held, chain, lockCalls, fillCalls>>
      /\ fillTx[i] = "sent"
  BY DEF store, FillLands, FillReverts
<1>2. PICK s \in {"landed", "reverted"} : fillTx' = [fillTx EXCEPT ![i] = s]
  BY DEF FillLands, FillReverts
<1>3. fillTx \in [Intents -> {"none", "sent", "landed", "reverted"}]
  BY DEF CoverInv, FillCover
<1>4. /\ fillTx' \in [Intents -> {"none", "sent", "landed", "reverted"}]
      /\ fillTx'[i] = s /\ \A j \in Intents \ {i} : fillTx'[j] = fillTx[j]
  BY <1>2, <1>3
<1>5. ASSUME NEW j \in Intents
      PROVE  /\ Promised(j, records[j])' => Promised(j, records[j])
             /\ Promised(j, walRecords[j])' => Promised(j, walRecords[j])
  <2>1. CASE j = i
    BY <1>1, <2>1 DEF Promised
  <2>2. CASE j # i
    BY <1>1, <1>4, <2>2 DEF Promised
  <2> QED BY <2>1, <2>2
<1>6. FillCover'
  <2> SUFFICES ASSUME NEW j \in Intents
               PROVE  /\ fillCalls[j] = 0 => fillTx'[j] = "none"
                      /\ fills[j].pc = "returned" => fillTx'[j] = "landed"
                      /\ records[j].hash \/ walRecords[j].hash => fillTx'[j] = "landed"
    BY <1>1, <1>4 DEF FillCover
  <2>1. /\ fillCalls[j] = 0 => fillTx[j] = "none"
        /\ fills[j].pc = "returned" => fillTx[j] = "landed"
        /\ records[j].hash \/ walRecords[j].hash => fillTx[j] = "landed"
    BY DEF CoverInv, FillCover
  <2>2. CASE j = i
    BY <1>1, <2>1, <2>2
  <2>3. CASE j # i
    BY <1>4, <2>1, <2>3
  <2> QED BY <2>2, <2>3
<1>7. ChainCover' /\ LockCover' /\ LocksFall /\ clock' >= clock
  BY <1>1, SameLocks DEF CoverInv, ChainCover, LockCover, Backed, LockInv, HeldOK
<1> QED BY <1>1, <1>5, <1>6, <1>7, StillCovers

LEMMA TickCovers ==
  ASSUME NodeInv, LockInv, LockInv', CoverInv, Tick,
         UNCHANGED <<store, world, fills, quoting>>
  PROVE  CoverInv'
<1>1. UNCHANGED <<records, walRecords, locks, walLocks, held, chain, lockCalls, fillTx, fillCalls>>
  BY DEF store, world
<1>2. clock \in Nat /\ clock' = clock + 1 /\ LockExpiry \in [Rfqs -> Nat]
  BY WalletAssumption DEF Tick, LockInv, HeldOK
<1>3. LocksFall
  <2>1. ASSUME NEW q \in Rfqs PROVE LockClaim(q)' \in {0, LockClaim(q)} /\ LockClaim(q) \in Nat
    <3>1. clock' < LockExpiry[q] => clock < LockExpiry[q]
      BY <1>2
    <3>2. LockClaim(q)' \in {0, LockClaim(q)}
      BY <1>1, <3>1 DEF LockClaim, OwedCollateral
    <3> QED BY <3>2, LockClaimsTyped DEF LockClaims
  <2> QED BY <2>1 DEF LocksFall
<1>4. LockCover' /\ FillCover'
  BY <1>1 DEF CoverInv, LockCover, Backed, FillCover
<1>5. ChainCover'
  BY <1>1, <1>2 DEF CoverInv, ChainCover
<1>6. \A i \in Intents : /\ Promised(i, records[i])' => Promised(i, records[i])
                         /\ Promised(i, walRecords[i])' => Promised(i, walRecords[i])
  BY <1>1 DEF Promised
<1> QED BY <1>1, <1>2, <1>3, <1>4, <1>5, <1>6, StillCovers

\* The process dies: what it has on disk is covered too.
LEMMA CrashCovers ==
  ASSUME NodeInv, LockInv, LockInv', CoverInv, Crash
  PROVE  CoverInv'
<1>1. /\ records' = walRecords /\ locks' = walLocks /\ held' = Free
      /\ UNCHANGED <<walRecords, walLocks, clock, chain, lockCalls, fillTx, fillCalls>>
  BY DEF Crash, Reopen, world
<1>2. /\ \A i \in Intents : fills'[i].pc = "idle"
      /\ \A q \in Rfqs : quoting'[q].pc = "idle"
  BY DEF Crash, NotFilling, NotQuoting
<1>3. LocksFall
  <2>1. ASSUME NEW q \in Rfqs PROVE LockClaim(q)' \in {0, LockClaim(q)} /\ LockClaim(q) \in Nat
    <3>1. quoting[q].pc = "lock" => lockCalls[q] = 0
      BY DEF LockInv, QuoteOK
    <3>2. LockClaim(q)' \in {0, LockClaim(q)}
      BY <1>1, <1>2, <3>1 DEF LockClaim, OwedCollateral
    <3> QED BY <3>2, LockClaimsTyped DEF LockClaims
  <2> QED BY <2>1 DEF LocksFall
<1>4. FillsFall
  BY <1>1, <1>2 DEF FillsFall, Promised
<1>5. ClaimCover'
  BY <1>3, <1>4, ClaimsKept DEF CoverInv
<1>6. HeldCover'
  BY <1>1, HeldFree
<1>7. ChainCover' /\ LockCover' /\ FillCover'
  BY <1>1, <1>2 DEF CoverInv, ChainCover, LockCover, Backed, FillCover
<1> QED BY <1>5, <1>6, <1>7 DEF CoverInv

-----------------------------------------------------------------------------
(* The theorem *)

LEMMA CoverInvInit == Init => CoverInv
<1> SUFFICES ASSUME Init PROVE CoverInv
  OBVIOUS
<1>1. /\ fillTx = [i \in Intents |-> "none"] /\ chain = [q \in Rfqs |-> EmptyLock]
      /\ lockCalls = [q \in Rfqs |-> 0] /\ fills = [i \in Intents |-> NotFilling]
      /\ quoting = [q \in Rfqs |-> NotQuoting]
      /\ records = [i \in Intents |-> NoRecord] /\ walRecords = records
      /\ locks = [q \in Rfqs |-> NoLock] /\ walLocks = locks /\ held = Free
  BY DEF Init, WorldInit, ReservationsInit, LocksInit
<1>2. ASSUME NEW i \in Intents PROVE ~Promised(i, records[i]) /\ ~records[i].hash
  BY <1>1 DEF Promised, NotFilling, NoRecord, Absent, ActiveStates
<1>3. ASSUME NEW q \in Rfqs PROVE LockClaim(q) = 0
  BY <1>1 DEF LockClaim, EmptyLock, NotQuoting
<1>4. Claims(records) = 0
  <2>1. /\ FillClaims(records) \in [Intents -> Int] /\ LockClaims \in [Rfqs -> Int]
        /\ \A i \in Intents : FillClaims(records)[i] = 0
        /\ \A q \in Rfqs : LockClaims[q] = 0
    BY <1>2, <1>3 DEF FillClaims, LockClaims
  <2>2. SumFunction(FillClaims(records)) = 0 /\ SumFunction(LockClaims) = 0
    BY <2>1, SumZero, WalletAssumption
  <2> QED BY <2>2 DEF Claims
<1>5. ClaimCover /\ HeldCover
  BY <1>1, <1>4, WalletAssumption DEF ClaimCover, HeldCover
<1>6. ChainCover
  BY <1>1 DEF ChainCover, EmptyLock, Actions
<1>7. LockCover
  BY <1>1 DEF LockCover, Backed, EmptyLock, NoLock, NotQuoting
<1>8. FillCover
  BY <1>1, <1>2 DEF FillCover, NotFilling
<1> QED BY <1>5, <1>6, <1>7, <1>8 DEF CoverInv

LEMMA CoverInvKept == NodeInv /\ LockInv /\ CoverInv /\ [Next]_vars => CoverInv'
<1> SUFFICES ASSUME NodeInv, LockInv, CoverInv, [Next]_vars PROVE CoverInv'
  OBVIOUS
<1>1. LockInv'
  BY LockInvKept
<1>2. CASE ReservationNext /\ UNCHANGED lockProcs
  <2>1. UNCHANGED quoting
    BY <1>2 DEF lockProcs
  <2> QED BY <1>1, <1>2, <2>1, ReservationNextCovers
<1>3. CASE LockNext /\ UNCHANGED <<fills, given>>
  BY <1>1, <1>3, LockNextCovers
<1>4. ASSUME NEW ok \in BOOLEAN, recoverAfterRestart(ok) PROVE CoverInv'
  BY <1>1, <1>4, RecoverCovers DEF recoverAfterRestart
<1>5. CASE Crash
  BY <1>1, <1>5, CrashCovers
<1>6. CASE Tick /\ UNCHANGED <<store, world, fills, given, lockProcs>>
  <2>1. UNCHANGED <<store, world, fills, quoting>>
    BY <1>6 DEF lockProcs
  <2> QED BY <1>1, <1>6, <2>1, TickCovers
<1>7. CASE World /\ UNCHANGED <<store, clock, fills, given, lockProcs>>
  <2>1. UNCHANGED <<store, clock, fills, quoting>>
    BY <1>7 DEF lockProcs
  <2>2. World
    BY <1>7
  <2> QED BY <1>1, <2>1, <2>2, ChainCovers, FillOutcomeCovers DEF World
<1>8. CASE UNCHANGED vars
  <2>1. UNCHANGED <<records, walRecords, locks, walLocks, held, clock, chain, lockCalls,
                    fillTx, fillCalls, fills, quoting>>
    BY <1>8 DEF vars, store, world, lockProcs
  <2> QED BY <1>1, <2>1, LockMoveCovers
<1> QED BY <1>2, <1>3, <1>4, <1>5, <1>6, <1>7, <1>8 DEF Next

\* The private inventory covers every obligation at once: the fills that may
\* be submitted or land, the signed quotes that can still be selected and the
\* locks that may be submitted or land, whatever mix of reservations, locks,
\* restarts, failed writes and unknown outcomes led to them (reserve,
\* availableBuyInventory, quoteV3).
THEOREM InventoryIsCovered == Spec => []Covered
<1>1. NodeInv /\ LockInv /\ CoverInv /\ [Next]_vars => CoverInv'
  BY CoverInvKept
<1>2. LockInv /\ CoverInv => Covered
  BY CoverIsEnough DEF CoverInv
<1> QED BY <1>1, <1>2, CoverInvInit, NodeInvariant, LockInvariant, PTL DEF Spec

=============================================================================
