----------------------------- MODULE MakerNode -----------------------------
(***************************************************************************)
(* A maker node: reservations and locks over one store and one inventory,  *)
(* the process dying and starting again, and the chain going its own way.  *)
(***************************************************************************)
EXTENDS MakerReservations, MakerLocks

vars == <<store, clock, world, fills, given, lockProcs>>

Init ==
  /\ ReservationsInit
  /\ LocksInit
  /\ WorldInit
  /\ status = "serving"
  /\ held = Free
  /\ clock = 0

(* The process dies between any two steps; what it was doing is gone. *)
Crash ==
  /\ Reopen
  /\ fills' = [i \in Intents |-> NotFilling]
  /\ quoting' = [q \in Rfqs |-> NotQuoting]
  /\ scan' = NotScanning
  /\ taking' = [t \in Requests |-> NotTaking]
  /\ todo' = {}
  /\ UNCHANGED <<world, given, quoted>>

(* recoverAfterRestart: the reservations in one transaction, then the locks *)
(* one by one.                                                              *)
recoverAfterRestart(ok) ==
  /\ recoverRecords(ok)
  /\ todo' = {q \in Rfqs : Live(locks[q])}
  /\ scan' = [NotScanning EXCEPT !.at = clock]
  /\ UNCHANGED <<quoting, taking, quoted>>

Next ==
  \/ ReservationNext /\ UNCHANGED lockProcs
  \/ LockNext /\ UNCHANGED <<fills, given>>
  \/ \E ok \in BOOLEAN : recoverAfterRestart(ok)
  \/ Crash
  \/ Tick /\ UNCHANGED <<store, world, fills, given, lockProcs>>
  \/ World /\ UNCHANGED <<store, clock, fills, given, lockProcs>>

Spec == Init /\ [][Next]_vars

(* The scan timer fires again and again and the backoff of a lock is short  *)
(* against that, so a lock on the list is refreshed in the end; calls of    *)
(* the wallet return, with an error if need be; a request goes on to its    *)
(* end.  Nothing is assumed of the chain, of callers or of restarts.        *)
Fairness ==
  /\ WF_vars(Tick /\ UNCHANGED <<store, world, fills, given, lockProcs>>)
  /\ WF_vars((\E due \in SUBSET Rfqs : settleExpiredLocks(clock, due))
             /\ UNCHANGED <<fills, given>>)
  /\ WF_vars((recovered \/ ScanStep) /\ UNCHANGED <<fills, given>>)
  /\ \A q \in Rfqs :
       /\ SF_vars(refreshLock(q) /\ UNCHANGED <<fills, given>>)
       /\ WF_vars(refreshSkipped(q) /\ UNCHANGED <<fills, given>>)
       /\ WF_vars(QuoteStep(q) /\ UNCHANGED <<fills, given>>)

FairSpec == Spec /\ Fairness

----------------------------------------------------------------------------
(* Types. *)

TypeOK ==
  /\ records \in [Intents -> StoredMakerReservation]
  /\ walRecords \in [Intents -> StoredMakerReservation]
  /\ locks \in [Rfqs -> StoredLockRecord]
  /\ walLocks \in [Rfqs -> StoredLockRecord]
  /\ status \in {"opened", "refreshing", "serving", "failed"}
  /\ held \in [subject: Intents \cup Rfqs \cup {NoSubject}, at: Nat, balance: Int]
  /\ clock \in 0..MaxTime
  /\ fillTx \in [Intents -> {"none", "sent", "landed", "reverted"}]
  /\ fillCalls \in [Intents -> Nat]
  /\ lockCalls \in [Rfqs -> Nat]
  /\ settleCalls \in [Rfqs -> [Actions -> Nat]]
  /\ given \in [Intents -> SUBSET Quotes]
  /\ quoted \subseteq Rfqs /\ todo \subseteq Rfqs

----------------------------------------------------------------------------
(* Properties. *)

(* What the maker can still be made to pay out of its private inventory: a  *)
(* fill that may be submitted or land, a signed quote that can be selected, *)
(* a lock transaction that may be submitted or land.                        *)
OwedFills ==
  {i \in Intents :
     /\ fillTx[i] # "landed"
     /\ \/ fillTx[i] = "sent" \/ fills[i].pc = "call"
        \/ walRecords[i].reservation.state \in {"reserved", "selected", "filling"}}

OwedLocks ==
  {q \in Rfqs :
     /\ ~chain[q].landed
     /\ clock < LockExpiry[q]
     /\ \/ lockCalls[q] > 0 \/ quoting[q].pc = "lock"}

OwedCollateral(q) == IF quoting[q].pc = "lock" THEN locks[q].maxB ELSE chain[q].maxB

(* Inventory covers every obligation at once, whatever mix of reservations  *)
(* and locks, restarts and unknown outcomes led to them (reserve,           *)
(* availableBuyInventory: nothing is promised twice).                       *)
Covered ==
  SumFunctionOnSet(Amount, OwedFills)
    + SumFunctionOnSet([q \in Rfqs |-> OwedCollateral(q)], OwedLocks)
    <= privateBalance

(* A reservation is filled at most once, and once the wallet was asked to,  *)
(* no table, in memory or on disk, ever offers the inventory again: the     *)
(* record stays filling, consumed or quarantined (fill,                     *)
(* recoverAfterRestart, release, reconcileAuthoritativeTerminal).           *)
FillOnce ==
  \A i \in Intents :
    /\ fillCalls[i] <= 1
    /\ fillCalls[i] = 1 =>
         \A recs \in {records, walRecords} :
           recs[i].reservation.state \in {"filling", "consumed", "quarantined"}

(* A maker never signs two payloads for one intent, across restarts and     *)
(* uncertain writes, and the one a taker holds is the one on disk           *)
(* (signQuote: the record is durable before the signature is returned).     *)
SignedOnce ==
  \A i \in Intents : given[i] \subseteq {walRecords[i].quote}

(* A reservation starts at fence 1 and selection raises it by one. *)
SelectionFence == 2

(* The fence the authority reads back is the one the selection produced,    *)
(* whatever moved the reservation since (selectionFenceForReconciliation).  *)
FenceExact ==
  \A i \in Intents :
    HasSelectionFence(records[i]) /\ records[i].quote # NoQuote
      => selectionFenceForReconciliation(records[i]) = SelectionFence

(* Every record the file may hold loads again (assertMakerReservation,      *)
(* canonicalStoredLock): no sequence of requests leaves a maker that cannot *)
(* start.                                                                   *)
Loadable ==
  /\ \A i \in Intents : assertMakerReservation(walRecords[i])
  /\ \A q \in Rfqs : Canonical(walLocks[q])

(* What the authority decided is final: on disk, the revision of a terminal *)
(* outcome never falls and the outcome never flips, and a consumed          *)
(* reservation is never given back (reconcileAuthoritativeTerminal,         *)
(* quarantineForAuthority).                                                 *)
AuthorityFinal ==
  [][\A i \in Intents :
       LET old == walRecords[i].terminal
           new == walRecords'[i].terminal
       IN old # NoEvidence => new.outcome = old.outcome /\ new.revision >= old.revision]_vars

(* One lock transaction per RFQ and one settlement transaction per side of  *)
(* a lock are out at any time, through restarts, unknown outcomes and       *)
(* operator resolutions (quoteV3, #submitSettlementAction).                 *)
OneSubmission ==
  \A q \in Rfqs : lockCalls[q] <= 1 /\ \A a \in Actions : settleCalls[q][a] <= 1

(* Disk and chain agree about locks: what is or may come on chain has a     *)
(* record, a settled record has nothing left on chain, and a quote a taker  *)
(* holds is backed by a lock that landed and, while it can be taken, by a   *)
(* signed record (quoteV3, #refreshLock, #reconcileSettlementUnknown).      *)
OnRecord ==
  \A q \in Rfqs :
    LET disk == walLocks[q] IN
    /\ chain[q].landed \/ lockCalls[q] > 0 => disk.state # "absent"
    /\ disk.state = "settled" => \A a \in Actions : chain[q].settled[a]
    /\ q \in quoted => chain[q].landed /\ (clock < LockExpiry[q] => disk.signed)

(* A lock that has expired does not stay in between: while the process      *)
(* stays up, it ends settled, or quarantined for the operator               *)
(* (settleExpiredLocks, lockWithReconciliationFailure).                     *)
LocksConclude ==
  <>[](status = "serving") =>
    \A q \in Rfqs :
      clock >= LockExpiry[q] ~> ~Live(locks[q])

(* A Take reconciliation the maker has acknowledged stays journaled: the    *)
(* revision on disk never falls (#reconcileV3AuthoritativeTerminal).        *)
TakeJournaled ==
  [][\A q \in Rfqs : walLocks'[q].revision >= walLocks[q].revision]_vars

=============================================================================
