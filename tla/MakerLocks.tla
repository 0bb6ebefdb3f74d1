----------------------------- MODULE MakerLocks -----------------------------
(***************************************************************************)
(* The collateral locks of a maker node (DurableMakerNode in               *)
(* packages/maker-node/src/index.ts): quoteV3, the settlement scan,        *)
(* operator resolution and the reconciliation of a Take.                   *)
(*                                                                         *)
(* Each of these handlers awaits the wallet or the chain between its       *)
(* transactions, so each is a sequence of actions; quotes, the scan and    *)
(* reconciliations run side by side.  The scan is one process: the         *)
(* service skips a scan while the previous one runs.  Every RFQ has one    *)
(* lock record at a time, and lock ids are never reused, so locks are      *)
(* indexed by RFQ.                                                         *)
(***************************************************************************)
EXTENDS MakerWallet

CONSTANTS
  NoRfq,        \* the scan is not at any lock
  Sizes,        \* maximum payouts a schedule may have
  MaxFailures,  \* LOCK_RECONCILIATION_MAX_FAILURES
  Requests,     \* Take reconciliation requests that may be under way together
  LockRevisions \* authorityRevision of Take reconciliations

ASSUME LocksAssumption ==
  /\ NoRfq \notin Rfqs
  /\ Sizes \subseteq Nat \ {0}
  /\ MaxFailures \in Nat \ {0}
  /\ LockRevisions \subseteq Nat \ {0}

VARIABLES
  quoting,  \* the quoteV3 request under way for each RFQ
  scan,     \* the settlement scan
  taking,   \* the Take reconciliations under way
  todo,     \* locks recoverAfterRestart has still to refresh
  quoted    \* history: RFQs whose signed quote was returned

lockProcs == <<quoting, scan, taking, todo, quoted>>

PriorStates == {"locking", "open", "taken", "expired"}

LockStates == PriorStates \cup {"reconcile-pending", "settlement-unknown",
                                "settled", "quarantined"}

NoAttempt == [action |-> "none", n |-> 0, hash |-> FALSE]

(* StoredLockRecord.  ticket is whether the ticket address is known, signed *)
(* whether signature and quoteDigest are there, taken the amount taken, the *)
(* revision that of terminalReconciliation.  "settling" is a state only     *)
(* older files hold.                                                        *)
StoredLockRecord ==
  [state: LockStates \cup {"absent"}, prior: PriorStates \cup {"none"},
   failures: Nat, attempt: [action: Actions \cup {"none"}, n: Nat, hash: BOOLEAN],
   count: Nat, ticket: BOOLEAN, signed: BOOLEAN, taken: Nat, maxB: Nat,
   revision: Nat]

NoLock ==
  [state |-> "absent", prior |-> "none", failures |-> 0, attempt |-> NoAttempt,
   count |-> 0, ticket |-> FALSE, signed |-> FALSE, taken |-> 0, maxB |-> 0,
   revision |-> 0]

terminalLockState(s) == s \in {"settled", "quarantined"}

Live(lock) == lock.state # "absent" /\ ~terminalLockState(lock.state)

NotQuoting == [pc |-> "idle", at |-> 0]

NotTaking == [pc |-> "idle", q |-> NoRfq, at |-> 0, revision |-> 0,
              chain |-> EmptyLock]

NotScanning == [pc |-> "idle", q |-> NoRfq, at |-> 0, lock |-> NoLock,
                chain |-> EmptyLock, receipt |-> "none"]

LocksInit ==
  /\ locks = [q \in Rfqs |-> NoLock]
  /\ walLocks = locks
  /\ quoting = [q \in Rfqs |-> NotQuoting]
  /\ scan = NotScanning
  /\ taking = [t \in Requests |-> NotTaking]
  /\ todo = {}
  /\ quoted = {}

----------------------------------------------------------------------------
(* The functions that compute the next record. *)

priorLockState(lock, q, now) ==
  IF lock.prior # "none" THEN lock.prior
  ELSE IF lock.state \in PriorStates THEN lock.state
  ELSE IF now >= LockExpiry[q] THEN "expired" ELSE "open"

\* Faulty variant: failures are not counted.
lockWithReconciliationFailure_Uncounted(lock, q, now, next) ==
  [lock EXCEPT !.state = next, !.prior = priorLockState(lock, q, now)]

lockWithReconciliationFailure(lock, q, now, next) ==
  [lock EXCEPT !.state = IF lock.failures + 1 >= MaxFailures
                         THEN "quarantined" ELSE next,
               !.prior = priorLockState(lock, q, now),
               !.failures = @ + 1]

quarantinedLock(lock, q, now) ==
  [lock EXCEPT !.state = "quarantined", !.prior = priorLockState(lock, q, now)]

(* requireBoundChainLock succeeds; otherwise the chain contradicts the      *)
(* record.                                                                  *)
BoundTo(lock, c) == c.landed /\ lock.ticket /\ c.taken >= lock.taken

lockStateFromChain(lock, q, c, now) ==
  [lock EXCEPT
     !.state = IF c.settled["proceeds"] /\ c.settled["release"] THEN "settled"
               ELSE IF now >= LockExpiry[q] THEN "expired"
               ELSE IF c.taken > 0 THEN "taken" ELSE "open",
     !.taken = c.taken, !.prior = "none", !.failures = 0, !.attempt = NoAttempt]

(* canonicalStoredLock refuses an unknown settlement without its attempt,   *)
(* and the transaction throws.                                              *)
Canonical(lock) == lock.state = "settlement-unknown" => lock.attempt # NoAttempt

(* #recordReconciliationFailure and #quarantineLock, on the current record. *)
Failed(q, now, next, clear) ==
  LET lock == IF clear THEN [locks[q] EXCEPT !.attempt = NoAttempt] ELSE locks[q]
      failed == lockWithReconciliationFailure(lock, q, now, next)
  IN IF Live(locks[q]) /\ Canonical(failed)
     THEN [locks EXCEPT ![q] = failed] ELSE locks

Quarantined(q, now) ==
  IF locks[q].state \notin {"absent", "settled"}
  THEN [locks EXCEPT ![q] = quarantinedLock(@, q, now)] ELSE locks

(* A record computed before an await replaces the current one unless that   *)
(* has become terminal.                                                     *)
Replaced(q, lock) == IF Live(locks[q]) THEN [locks EXCEPT ![q] = lock] ELSE locks

----------------------------------------------------------------------------
(* quoteV3. *)

(* The acquisition transaction: the RFQ has no lock history, the balance is *)
(* read while the transaction is open.                                      *)
quoteV3(q, at) ==
  /\ Serving
  /\ at < LockExpiry[q]
  /\ locks[q].state = "absent"
  /\ held' = [subject |-> q, at |-> at, balance |-> privateBalance]
  /\ UNCHANGED <<records, locks, walRecords, walLocks, status, clock, world,
                 lockProcs>>

availableBuyInventory(at, balance) ==
  Max({0, balance - (Unresolved(locks, at) + Reserved(records))})

(* The schedule fits the inventory and the policy agrees: the lock is       *)
(* durable before it is submitted.                                          *)
quoteAcquired(q, maxB, ok) ==
  /\ held.subject = q
  /\ maxB <= availableBuyInventory(held.at, held.balance)
  /\ AppendSnapshot(records,
       [locks EXCEPT ![q] = [NoLock EXCEPT !.state = "locking", !.maxB = maxB]],
       status, ok)
  /\ quoting' = IF ok THEN [quoting EXCEPT ![q] = [pc |-> "lock", at |-> held.at]]
                ELSE quoting
  /\ UNCHANGED <<world, scan, taking, todo, quoted>>

(* Inventory, schedule or policy refuse it. *)
quoteRefused(q, ok) ==
  /\ held.subject = q
  /\ AppendSnapshot(records, locks, status, ok)
  /\ UNCHANGED <<world, lockProcs>>

(* The signed quote of an untouched lock is returned again. *)
quoteReplay(q, at, ok) ==
  /\ Serving
  /\ at < LockExpiry[q]
  /\ locks[q].signed /\ locks[q].state = "open" /\ locks[q].taken = 0
  /\ lockTransaction(locks, ok)
  /\ quoted' = IF ok THEN quoted \cup {q} ELSE quoted
  /\ UNCHANGED <<world, quoting, scan, taking, todo>>

(* wallet.lock deploys the ticket, proves and submits.  What fails before   *)
(* submission did not happen, except that a failing ticket deployment is    *)
(* reported as unknown.                                                     *)
walletLock(q) ==
  /\ quoting[q].pc = "lock"
  /\ \/ /\ quoting' = [quoting EXCEPT ![q].pc = "wait"]
        /\ lockCalls' = [lockCalls EXCEPT ![q] = @ + 1]
        /\ chain' = [chain EXCEPT ![q].maxB = locks[q].maxB]
     \/ /\ \E pc \in {"reverted", "unknown"} : quoting' = [quoting EXCEPT ![q].pc = pc]
        /\ UNCHANGED <<lockCalls, chain>>
  /\ UNCHANGED <<store, clock, fillTx, fillCalls, settleCalls, scan, taking, todo, quoted>>

(* It returns what get_lock shows of a lock that landed, which must be      *)
(* untouched, or reports a revert, or throws.                               *)
walletLockReturns(q) ==
  /\ quoting[q].pc = "wait"
  /\ \E pc \in {"confirm", "reverted", "unknown"} :
       /\ pc = "confirm" => chain[q].landed /\ chain[q].taken = 0
       /\ pc = "reverted" => lockCalls[q] = 0
       /\ quoting' = [quoting EXCEPT ![q].pc = pc]
  /\ UNCHANGED <<store, clock, world, scan, taking, todo, quoted>>

quoteConfirmed(q, ok) ==
  /\ quoting[q].pc = "confirm"
  /\ locks[q].state = "locking"
  /\ lockTransaction([locks EXCEPT ![q].state = "open", ![q].ticket = TRUE], ok)
  /\ quoting' = [quoting EXCEPT ![q].pc = IF ok THEN "sign" ELSE "idle"]
  /\ UNCHANGED <<world, scan, taking, todo, quoted>>

(* The scan was there first. *)
quoteOvertaken(q) ==
  /\ quoting[q].pc = "confirm"
  /\ Usable
  /\ locks[q].state # "locking"
  /\ quoting' = [quoting EXCEPT ![q].pc = "unknown"]
  /\ UNCHANGED <<store, clock, world, scan, taking, todo, quoted>>

\* Faulty variant: every failure is taken for a revert.
LockFailed_Deleted(lock, q, at, cause) == NoLock

(* The catch clause: a known revert deletes the record, anything else keeps *)
(* it for reconciliation.                                                   *)
LockFailed(lock, q, at, cause) ==
  IF cause = "reverted" \/ lock.state = "absent" THEN NoLock
  ELSE lockWithReconciliationFailure(lock, q, at, "reconcile-pending")

quoteFailed(q, ok) ==
  /\ quoting[q].pc \in {"reverted", "unknown"}
  /\ lockTransaction(
       [locks EXCEPT ![q] = LockFailed(@, q, quoting[q].at, quoting[q].pc)], ok)
  /\ quoting' = [quoting EXCEPT ![q] = NotQuoting]
  /\ UNCHANGED <<world, scan, taking, todo, quoted>>

(* The clock is read before and after signing; the economic commitment and  *)
(* the signer may refuse.                                                   *)
quoteSign(q) ==
  /\ quoting[q].pc = "sign"
  /\ \/ clock < LockExpiry[q] /\ quoting' = [quoting EXCEPT ![q].pc = "finish"]
     \/ quoting' = [quoting EXCEPT ![q] = NotQuoting]
  /\ UNCHANGED <<store, clock, world, scan, taking, todo, quoted>>

(* The signature is durable before it is returned. *)
quoteFinish(q, ok) ==
  /\ quoting[q].pc = "finish"
  /\ Live(locks[q])
  /\ lockTransaction([locks EXCEPT ![q].signed = TRUE], ok)
  /\ quoted' = IF ok THEN quoted \cup {q} ELSE quoted
  /\ quoting' = [quoting EXCEPT ![q] = NotQuoting]
  /\ UNCHANGED <<world, scan, taking, todo>>

quoteLost(q) ==
  /\ quoting[q].pc = "finish"
  /\ Usable
  /\ ~Live(locks[q])
  /\ quoting' = [quoting EXCEPT ![q] = NotQuoting]
  /\ UNCHANGED <<store, clock, world, scan, taking, todo, quoted>>

(* The steps of a request under way. *)
QuoteStep(q) ==
  \/ walletLock(q) \/ walletLockReturns(q)
  \/ quoteOvertaken(q) \/ quoteSign(q) \/ quoteLost(q)
  \/ \E ok \in BOOLEAN :
       \/ \E maxB \in Sizes : quoteAcquired(q, maxB, ok)
       \/ quoteRefused(q, ok) \/ quoteConfirmed(q, ok)
       \/ quoteFailed(q, ok) \/ quoteFinish(q, ok)

QuoteNext ==
  \/ \E q \in Rfqs : QuoteStep(q)
  \/ \E q \in Rfqs, at \in Stamps :
       \/ quoteV3(q, at)
       \/ \E ok \in BOOLEAN : quoteReplay(q, at, ok)

----------------------------------------------------------------------------
(* The settlement scan, and recovery before it: both work through a list of *)
(* locks taken at the start, one after the other.  A lock whose last        *)
(* reconciliation failed may be passed over until its backoff has passed.   *)

BackingOff(lock) == lock.failures > 0

settleExpiredLocks(at, due) ==
  LET eligible == {q \in Rfqs : /\ Live(locks[q])
                                /\ \/ locks[q].state \in {"reconcile-pending",
                                                          "settlement-unknown"}
                                   \/ LockExpiry[q] <= at}
  IN
  /\ status = "serving" /\ scan.pc = "idle" /\ todo = {}
  /\ due # {} /\ due \subseteq eligible
  /\ \A q \in eligible \ due : BackingOff(locks[q])
  /\ todo' = due
  /\ scan' = [NotScanning EXCEPT !.at = at]
  /\ UNCHANGED <<store, clock, world, quoting, taking, quoted>>

(* recoverAfterRestart is over when every lock of its list was refreshed. *)
recovered ==
  /\ status = "refreshing" /\ scan.pc = "idle" /\ todo = {}
  /\ status' = "serving"
  /\ UNCHANGED <<records, locks, walRecords, walLocks, held, clock, world, lockProcs>>

(* #refreshLock takes its copy of the record. *)
refreshLock(q) ==
  LET lock == locks[q] IN
  /\ scan.pc = "idle" /\ q \in todo
  /\ todo' = todo \ {q}
  /\ Live(lock)
  /\ scan' = [scan EXCEPT !.pc = IF lock.attempt = NoAttempt THEN "read" ELSE "evidence",
                          !.q = q, !.lock = lock]
  /\ UNCHANGED <<store, clock, world, quoting, taking, quoted>>

refreshSkipped(q) ==
  /\ scan.pc = "idle" /\ q \in todo
  /\ ~Live(locks[q]) \/ BackingOff(locks[q])
  /\ todo' = todo \ {q}
  /\ UNCHANGED <<store, clock, world, quoting, scan, taking, quoted>>

Done == [NotScanning EXCEPT !.at = scan.at]

(* One transaction of the scan; an uncertain write ends it. *)
ScanWrites(draftLocks, next, ok) ==
  /\ lockTransaction(draftLocks, ok)
  /\ scan' = IF ok THEN next ELSE NotScanning
  /\ todo' = IF ok THEN todo ELSE {}
  /\ UNCHANGED <<world, quoting, taking, quoted>>

ScanMoves(next) ==
  /\ scan' = next
  /\ UNCHANGED <<store, clock, world, quoting, taking, todo, quoted>>

(* What follows once the record agrees with the chain: recovery only reads, *)
(* the scan settles what has expired.                                       *)
Ready(exact, c) ==
  IF status = "serving" /\ LockExpiry[scan.q] <= scan.at /\ exact.state # "settled"
  THEN [Done EXCEPT !.pc = "submit", !.q = scan.q, !.chain = c]
  ELSE Done

scanRead ==
  /\ scan.pc = "read"
  /\ ScanMoves([scan EXCEPT !.pc = "apply", !.chain = chain[scan.q]])

scanUnavailable(ok) ==
  /\ scan.pc = "read"
  /\ ScanWrites(Failed(scan.q, scan.at, "reconcile-pending", FALSE), Done, ok)

(* The lock transaction may still be on its way. *)
EmptyLocking(lock, q, c, now) == ~c.landed /\ priorLockState(lock, q, now) = "locking"

(* The record is rebuilt from the copy taken before the chain was read. *)
scanApply(ok) ==
  LET q == scan.q
      c == scan.chain
      open == c.landed /\ \E a \in Actions : ~c.settled[a]
      candidate == [scan.lock EXCEPT !.ticket =
                      @ \/ (open /\ priorLockState(scan.lock, q, scan.at) = "locking")]
      exact == lockStateFromChain(candidate, q, c, scan.at)
  IN
  /\ scan.pc = "apply"
  /\ IF EmptyLocking(scan.lock, q, c, scan.at)
     THEN ScanWrites(Failed(q, scan.at, "reconcile-pending", FALSE), Done, ok)
     ELSE IF ~BoundTo(candidate, c)
     THEN ScanWrites(Quarantined(q, scan.at), Done, ok)
     ELSE ScanWrites(Replaced(q, exact), Ready(exact, c), ok)

(* #reconcileSettlementUnknown: the receipt, when the hash is known and the *)
(* node answers, then the lock.                                             *)
Receipts(q, attempt) ==
  {"none"} \cup (IF ~attempt.hash THEN {}
                 ELSE IF chain[q].settled[attempt.action] THEN {"SUCCEEDED"}
                 ELSE IF settleCalls[q][attempt.action] = 0 THEN {"REVERTED"} ELSE {})

scanEvidence(receipt) ==
  /\ scan.pc = "evidence"
  /\ receipt \in Receipts(scan.q, scan.lock.attempt)
  /\ ScanMoves([scan EXCEPT !.pc = "resolve", !.chain = chain[scan.q], !.receipt = receipt])

scanEvidenceUnavailable(receipt, ok) ==
  /\ scan.pc = "evidence"
  /\ receipt \in Receipts(scan.q, scan.lock.attempt)
  /\ ScanWrites(IF receipt = "REVERTED"
                THEN Failed(scan.q, scan.at, "reconcile-pending", TRUE)
                ELSE Failed(scan.q, scan.at, "settlement-unknown", FALSE), Done, ok)

(* The outcome of the attempt is known. *)
AttemptOver(lock, c, receipt) ==
  c.settled[lock.attempt.action] \/ receipt = "REVERTED"

scanResolve(ok) ==
  LET q == scan.q
      c == scan.chain
      complete == c.settled[scan.lock.attempt.action]
      exact == lockStateFromChain(scan.lock, q, c, scan.at)
  IN
  /\ scan.pc = "resolve"
  /\ IF \/ ~BoundTo(scan.lock, c)
        \/ scan.receipt = "SUCCEEDED" /\ ~complete
        \/ scan.receipt = "REVERTED" /\ complete
     THEN ScanWrites(Quarantined(q, scan.at), Done, ok)
     ELSE IF AttemptOver(scan.lock, c, scan.receipt)
     THEN ScanWrites(Replaced(q, exact),
                     IF scan.receipt = "REVERTED" THEN Done ELSE Ready(exact, c), ok)
     ELSE ScanWrites(Failed(q, scan.at, "settlement-unknown", FALSE), Done, ok)

(* #submitSettlementAction: the attempt is durable before the wallet is     *)
(* called.                                                                  *)
scanSubmit(ok) ==
  LET q == scan.q
      action == IF scan.chain.settled["proceeds"] THEN "release" ELSE "proceeds"
      n == locks[q].count + 1
      pending == [locks[q] EXCEPT
                    !.state = "settlement-unknown",
                    !.prior = priorLockState(locks[q], q, scan.at),
                    !.failures = 0, !.count = n,
                    !.attempt = [action |-> action, n |-> n, hash |-> FALSE]]
  IN
  /\ scan.pc = "submit"
  /\ IF Live(locks[q])
     THEN ScanWrites([locks EXCEPT ![q] = pending],
                     [Done EXCEPT !.pc = "settle", !.q = q, !.lock = pending], ok)
     ELSE ScanWrites(locks, Done, ok)

(* wallet.settleProceeds and wallet.releaseCollateral.  Proving may fail    *)
(* before anything is submitted, which is reported as a revert.             *)
walletSettle ==
  LET q == scan.q
      action == scan.lock.attempt.action
  IN
  /\ scan.pc = "settle"
  /\ \/ /\ settleCalls' = [settleCalls EXCEPT ![q][action] = @ + 1]
        /\ scan' = [scan EXCEPT !.pc = "wait"]
     \/ /\ scan.lock.count < MaxAttempts
        /\ scan' = [scan EXCEPT !.pc = "reverted"]
        /\ UNCHANGED settleCalls
  /\ UNCHANGED <<store, clock, fillTx, fillCalls, chain, lockCalls,
                 quoting, taking, todo, quoted>>

(* It returns the hash of a transaction that landed, reports a revert, or   *)
(* throws with or without the hash.                                         *)
walletSettleReturns(pc) ==
  LET action == scan.lock.attempt.action IN
  /\ scan.pc = "wait"
  /\ pc = "landed" => chain[scan.q].settled[action]
  /\ pc = "reverted" => settleCalls[scan.q][action] = 0
  /\ ScanMoves([scan EXCEPT !.pc = pc])

(* The record still waits for this very attempt. *)
Awaits(lock, attempt) ==
  /\ lock.state = "settlement-unknown"
  /\ lock.attempt.action = attempt.action
  /\ lock.attempt.n = attempt.n

(* #persistSettlementHash; a returned hash leads to its evidence, a thrown  *)
(* one is only remembered.                                                  *)
scanHash(ok) ==
  LET q == scan.q
      hashed == [locks[q] EXCEPT !.attempt.hash = TRUE]
      awaits == Awaits(locks[q], scan.lock.attempt)
  IN
  /\ scan.pc \in {"landed", "hashed"}
  /\ ScanWrites(IF awaits THEN [locks EXCEPT ![q] = hashed] ELSE locks,
                IF scan.pc = "hashed" THEN [scan EXCEPT !.pc = "unknown"]
                ELSE IF awaits THEN [scan EXCEPT !.pc = "evidence", !.lock = hashed]
                ELSE Done, ok)

scanUnknown(ok) ==
  /\ scan.pc = "unknown"
  /\ ScanWrites(Failed(scan.q, scan.at, "settlement-unknown", FALSE), Done, ok)

(* #resetKnownRevertedSettlement: the record is read again, then the chain. *)
scanReverted ==
  /\ scan.pc = "reverted"
  /\ ScanMoves(IF locks[scan.q].attempt = NoAttempt THEN Done
               ELSE [scan EXCEPT !.pc = "reset", !.lock = locks[scan.q],
                                 !.chain = chain[scan.q]])

scanReset(ok) ==
  LET q == scan.q
      c == scan.chain
  IN
  /\ scan.pc = "reset"
  /\ \/ ScanWrites(Failed(q, scan.at, "reconcile-pending", TRUE), Done, ok)
     \/ ScanWrites(IF ~BoundTo(scan.lock, c) \/ c.settled[scan.lock.attempt.action]
                   THEN Quarantined(q, scan.at)
                   ELSE Replaced(q, lockStateFromChain(scan.lock, q, c, scan.at)),
                   Done, ok)

(* The steps of a scan under way. *)
ScanStep ==
  \/ scanRead \/ walletSettle \/ scanReverted
  \/ \E receipt \in {"none", "SUCCEEDED", "REVERTED"} :
       \/ scanEvidence(receipt)
       \/ \E ok \in BOOLEAN : scanEvidenceUnavailable(receipt, ok)
  \/ \E pc \in {"landed", "reverted", "hashed", "unknown"} : walletSettleReturns(pc)
  \/ \E ok \in BOOLEAN :
       \/ scanUnavailable(ok) \/ scanApply(ok) \/ scanResolve(ok)
       \/ scanSubmit(ok) \/ scanHash(ok) \/ scanUnknown(ok) \/ scanReset(ok)

ScanNext ==
  \/ \E at \in Stamps, due \in SUBSET Rfqs : settleExpiredLocks(at, due)
  \/ recovered
  \/ \E q \in Rfqs : refreshLock(q) \/ refreshSkipped(q)
  \/ ScanStep

----------------------------------------------------------------------------
(* Operator resolution and the reconciliation of a Take. *)

resolveLock(q, at, ok) ==
  /\ Serving
  /\ locks[q].state = "quarantined"
  /\ lockTransaction([locks EXCEPT ![q] =
       [@ EXCEPT !.state = "reconcile-pending",
                 !.prior = priorLockState(locks[q], q, at), !.failures = 0]], ok)
  /\ UNCHANGED <<world, lockProcs>>

(* #reconcileV3AuthoritativeTerminal, as far as the read of the chain.  The *)
(* authority reports a Take it has seen, of a quote it was given.  A record *)
(* without that quote is quarantined.                                       *)
reconcileTake(t, q, at, revision) ==
  /\ status = "serving"
  /\ taking[t].pc = "idle"
  /\ q \in quoted /\ chain[q].taken > 0
  /\ locks[q].state \notin {"absent", "quarantined"}
  /\ locks[q].revision < revision
  /\ taking' = [taking EXCEPT ![t] =
       [pc |-> IF locks[q].signed /\ BoundTo(locks[q], chain[q])
               THEN "write" ELSE "contradicted",
        q |-> q, at |-> at, revision |-> revision, chain |-> chain[q]]]
  /\ UNCHANGED <<store, clock, world, quoting, scan, todo, quoted>>

takeUnavailable(q, at, ok) ==
  /\ Serving
  /\ q \in quoted /\ chain[q].taken > 0
  /\ locks[q].signed /\ locks[q].state # "quarantined"
  /\ lockTransaction(Failed(q, at, "reconcile-pending", FALSE), ok)
  /\ UNCHANGED <<world, lockProcs>>

takeContradicted(t, ok) ==
  /\ taking[t].pc = "contradicted"
  /\ lockTransaction(Quarantined(taking[t].q, taking[t].at), ok)
  /\ taking' = [taking EXCEPT ![t] = NotTaking]
  /\ UNCHANGED <<world, quoting, scan, todo, quoted>>

\* Faulty variant: the record follows the chain whatever is under way.
Reconciled_Drops(lock, request) ==
  [lockStateFromChain(lock, request.q, request.chain, request.at)
     EXCEPT !.revision = request.revision]

(* An attempt that does not show on chain stays with the record. *)
Reconciled(lock, request) ==
  LET c == request.chain
      state == IF lock.attempt # NoAttempt /\ ~c.settled[lock.attempt.action]
               THEN lock ELSE lockStateFromChain(lock, request.q, c, request.at)
  IN [state EXCEPT !.taken = c.taken, !.revision = request.revision]

(* The transaction looks at the record again; one that has changed          *)
(* underneath is quarantined, settled or not.                               *)
takeWrite(t, ok) ==
  LET request == taking[t]
      lock == locks[request.q]
      changed == \/ lock.state = "quarantined"
                 \/ ~lock.signed
                 \/ lock.taken \notin {0, request.chain.taken}
                 \/ lock.revision >= request.revision
  IN
  /\ request.pc = "write"
  /\ lockTransaction([locks EXCEPT ![request.q] =
       IF lock.state = "absent" THEN @
       ELSE IF changed THEN quarantinedLock(@, request.q, request.at)
       ELSE Reconciled(@, request)], ok)
  /\ taking' = [taking EXCEPT ![t] = NotTaking]
  /\ UNCHANGED <<world, quoting, scan, todo, quoted>>

TakeNext ==
  \/ \E q \in Rfqs, at \in Stamps :
       \/ \E t \in Requests, v \in LockRevisions : reconcileTake(t, q, at, v)
       \/ \E ok \in BOOLEAN : resolveLock(q, at, ok) \/ takeUnavailable(q, at, ok)
  \/ \E t \in Requests, ok \in BOOLEAN : takeContradicted(t, ok) \/ takeWrite(t, ok)

LockNext == QuoteNext \/ ScanNext \/ TakeNext

=============================================================================
