---------------------------- MODULE MakerWallet ----------------------------
(***************************************************************************)
(* What a maker node promises out of its private inventory, and the wallet *)
(* and chain behind its MakerWalletAdapter.                                *)
(*                                                                         *)
(* One asset is modelled: capacity is summed per asset.  The wallet calls  *)
(* of the node submit transactions; whether and when one lands is up to    *)
(* the chain, and a process that dies after a call never learns it.        *)
(***************************************************************************)
EXTENDS MakerStore, FiniteSetsExt

CONSTANTS
  Intents,    \* intent digests; a reservation belongs to one for ever
  Rfqs,       \* RFQ digests; a lock record belongs to one
  Inventory,  \* private balance the maker starts with
  Amount,     \* buyAmount of the reservation of each intent
  LockExpiry, \* lockExpiresAt of each RFQ
  Grace,      \* QUARANTINED_LOCK_CAPACITY_GRACE_SECONDS
  MaxAttempts \* bound on the settlement attempts of a lock that may fail

ASSUME WalletAssumption ==
  /\ IsFiniteSet(Intents) /\ IsFiniteSet(Rfqs)
  /\ Inventory \in Nat
  /\ Amount \in [Intents -> Nat \ {0}]
  /\ LockExpiry \in [Rfqs -> Nat]
  /\ Grace \in Nat
  /\ MaxAttempts \in Nat
  /\ NoSubject \notin Intents \cup Rfqs
  /\ Intents \cap Rfqs = {}

VARIABLES
  fillTx,      \* fill transaction of each intent
  fillCalls,   \* history: calls of wallet.fill for each intent
  chain,       \* get_lock of each RFQ's lock
  lockCalls,   \* lock transactions of each RFQ that have not reverted
  settleCalls  \* settlement transactions of each lock that have not reverted

world == <<fillTx, fillCalls, chain, lockCalls, settleCalls>>

Actions == {"proceeds", "release"}

(* MakerOnChainLock: the lock is empty until landed, open until both sides  *)
(* are settled, then closed.  Schedule, pair and ticket are bound to the    *)
(* lock id on chain and never differ from the request.                      *)
EmptyLock == [landed |-> FALSE, maxB |-> 0, taken |-> 0,
              settled |-> [a \in Actions |-> FALSE]]

WorldInit ==
  /\ fillTx = [i \in Intents |-> "none"]
  /\ fillCalls = [i \in Intents |-> 0]
  /\ chain = [q \in Rfqs |-> EmptyLock]
  /\ lockCalls = [q \in Rfqs |-> 0]
  /\ settleCalls = [q \in Rfqs |-> [a \in Actions |-> 0]]

----------------------------------------------------------------------------
(* Capacity accounting. *)

\* Faulty variant: quarantined inventory counts as spare.
capacityLockedState_Active(s) == s \in ActiveStates

capacityLockedState(s) == s \in ActiveStates \cup {"quarantined"}

lockReservesCapacity(lock, q, now) ==
  \/ lock.state \in {"locking", "reconcile-pending", "settlement-unknown"}
  \/ lock.state = "quarantined" /\ now < LockExpiry[q] + Grace

(* The inventory held back by the two tables. *)
Reserved(recs) ==
  SumFunctionOnSet(Amount,
    {i \in Intents : capacityLockedState(recs[i].reservation.state)})

Unresolved(lks, now) ==
  SumFunctionOnSet([q \in Rfqs |-> lks[q].maxB],
    {q \in Rfqs : lockReservesCapacity(lks[q], q, now)})

(* What a lock on chain has taken out. *)
Collateral(c) == IF c.settled["release"] THEN c.taken ELSE c.maxB

(* wallet.privateBalance: what fills and locks have not taken out. *)
privateBalance ==
  Inventory
    - SumFunctionOnSet(Amount, {i \in Intents : fillTx[i] = "landed"})
    - SumFunctionOnSet([q \in Rfqs |-> Collateral(chain[q])],
                       {q \in Rfqs : chain[q].landed})

----------------------------------------------------------------------------
(* The chain. *)

FillLands(i) ==
  /\ fillTx[i] = "sent"
  /\ Amount[i] <= privateBalance
  /\ fillTx' = [fillTx EXCEPT ![i] = "landed"]
  /\ UNCHANGED <<fillCalls, chain, lockCalls, settleCalls>>

FillReverts(i) ==
  /\ fillTx[i] = "sent"
  /\ fillTx' = [fillTx EXCEPT ![i] = "reverted"]
  /\ UNCHANGED <<fillCalls, chain, lockCalls, settleCalls>>

(* The escrow refuses a lock that would already be expired. *)
LockLands(q) ==
  /\ lockCalls[q] > 0
  /\ ~chain[q].landed
  /\ clock < LockExpiry[q]
  /\ chain[q].maxB <= privateBalance
  /\ chain' = [chain EXCEPT ![q].landed = TRUE]
  /\ UNCHANGED <<fillTx, fillCalls, lockCalls, settleCalls>>

LockReverts(q) ==
  /\ lockCalls[q] > 0
  /\ ~chain[q].landed
  /\ lockCalls' = [lockCalls EXCEPT ![q] = @ - 1]
  /\ UNCHANGED <<fillTx, fillCalls, chain, settleCalls>>

(* The taker takes part of the collateral, once, while the lock lives. *)
Take(q) ==
  /\ chain[q].landed
  /\ clock < LockExpiry[q]
  /\ chain[q].taken = 0
  /\ chain' = [chain EXCEPT ![q].taken = 1]
  /\ UNCHANGED <<fillTx, fillCalls, lockCalls, settleCalls>>

SettleLands(q, a) ==
  /\ settleCalls[q][a] > 0
  /\ clock >= LockExpiry[q]
  /\ ~chain[q].settled[a]
  /\ chain' = [chain EXCEPT ![q].settled[a] = TRUE]
  /\ UNCHANGED <<fillTx, fillCalls, lockCalls, settleCalls>>

SettleReverts(q, a) ==
  /\ settleCalls[q][a] > 0
  /\ locks[q].count < MaxAttempts
  /\ ~chain[q].settled[a]
  /\ settleCalls' = [settleCalls EXCEPT ![q][a] = @ - 1]
  /\ UNCHANGED <<fillTx, fillCalls, chain, lockCalls>>

World ==
  \/ \E i \in Intents : FillLands(i) \/ FillReverts(i)
  \/ \E q \in Rfqs :
       \/ LockLands(q) \/ LockReverts(q) \/ Take(q)
       \/ \E a \in Actions : SettleLands(q, a) \/ SettleReverts(q, a)

=============================================================================
