------------------------- MODULE MakerReservations -------------------------
(***************************************************************************)
(* The reservations of a maker node (DurableMakerNode in                   *)
(* packages/maker-node/src/index.ts): reserve, sign, select, release, fill *)
(* and the reconciliation with an authority that has read the chain.       *)
(*                                                                         *)
(* Every transaction first prunes what has expired.  Requests that are     *)
(* refused throw and write nothing; replays that are answered from the     *)
(* record commit the pruned table and nothing else (Touch).                *)
(***************************************************************************)
EXTENDS MakerWallet

CONSTANTS
  RfqExpiry,  \* expiresAt of the RFQ of each intent
  Ttl,        \* reservationTtlSeconds
  Quotes,     \* canonical payloads that match a reservation
  NoQuote,    \* nothing is signed
  Deals,      \* settlement bindings: deal id, deadline and ticket address
  NoDeal,     \* not bound
  Revisions,  \* authorityRevision
  Fences      \* selectionFence of the authority's requests

ASSUME ReservationsAssumption ==
  /\ RfqExpiry \in [Intents -> Nat]
  /\ Ttl \in Nat \ {0}
  /\ NoQuote \notin Quotes
  /\ NoDeal \notin Deals
  /\ Revisions \subseteq Nat \ {0}
  /\ Fences \subseteq Nat

VARIABLES
  fills,  \* fill requests under way in the process
  given   \* history: payloads whose signature was returned

AuthorityOutcomes == {"settled", "refunded"}

(* MakerAuthorityQuarantine and MakerTerminalReconciliation. *)
NoEvidence == [revision |-> 0, outcome |-> "none", fence |-> 0]

Evidence ==
  [revision: Nat, outcome: AuthorityOutcomes \cup {"none"}, fence: Nat]

(* StoredMakerReservation; hash is whether settlementTransactionHash is     *)
(* there.  Terms that never change after reserve are left out.              *)
StoredMakerReservation ==
  [reservation: Reservations, quote: Quotes \cup {NoQuote},
   deal: Deals \cup {NoDeal}, hash: BOOLEAN,
   quarantine: Evidence, terminal: Evidence]

NoRecord ==
  [reservation |-> Absent, quote |-> NoQuote, deal |-> NoDeal, hash |-> FALSE,
   quarantine |-> NoEvidence, terminal |-> NoEvidence]

NotFilling == [pc |-> "idle", at |-> 0]

(* assertMakerReservation: what a stored reservation must be for the file   *)
(* to load.                                                                 *)
assertMakerReservation(rec) ==
  LET r == rec.reservation IN
    /\ r.state \in {"selected", "filling", "consumed"} => rec.quote # NoQuote
    /\ r.state \in {"filling", "consumed"} => r.attempt # NoKey
    /\ r.state = "consumed" => rec.hash
    /\ r.state \in {"reserved", "expired"} => r.attempt = NoKey /\ ~rec.hash

ReservationsInit ==
  /\ records = [i \in Intents |-> NoRecord]
  /\ walRecords = records
  /\ fills = [i \in Intents |-> NotFilling]
  /\ given = [i \in Intents |-> {}]

----------------------------------------------------------------------------
(* Helpers. *)

With(rec, command, at, key) ==
  [rec EXCEPT !.reservation = Transition(@, command, at, key)]

pruneDraft(recs, now) ==
  [i \in Intents |->
     LET r == recs[i].reservation IN
     IF r.state \notin ActiveStates \/ r.expiresAt > now
     THEN recs[i]
     ELSE With(recs[i], IF r.state = "reserved" THEN "expire" ELSE "quarantine",
               now, NoKey)]

\* Faulty variant: a quarantined reservation is taken for an unattempted one.
FenceOffset_Once(rec) ==
  [selected |-> 0, filling |-> 1, consumed |-> 2, quarantined |-> 1]

(* How far a reservation's fence has moved since it was selected. *)
FenceOffset(rec) ==
  [selected |-> 0, filling |-> 1, consumed |-> 2,
   quarantined |-> IF rec.reservation.attempt # NoKey THEN 2 ELSE 1]

(* selectionFenceForReconciliation: whether it returns, and what. *)
HasSelectionFence(rec) ==
  \/ rec.terminal # NoEvidence
  \/ rec.quarantine # NoEvidence
  \/ rec.reservation.state \in {"selected", "filling", "consumed", "quarantined"}

selectionFenceForReconciliation(rec) ==
  IF rec.terminal # NoEvidence THEN rec.terminal.fence
  ELSE IF rec.quarantine # NoEvidence THEN rec.quarantine.fence
  ELSE rec.reservation.fence - FenceOffset(rec)[rec.reservation.state]

(* assertReconciliationBinding: the target names this reservation as it was *)
(* selected and bound to the deal.                                          *)
Bound(rec, d, fence) ==
  /\ rec.quote # NoQuote
  /\ rec.deal = d
  /\ HasSelectionFence(rec)
  /\ selectionFenceForReconciliation(rec) = fence

(* A successful transaction that changes one record of the pruned table.    *)
Update(i, at, rec, ok) == transaction([pruneDraft(records, at) EXCEPT ![i] = rec], ok)

(* The record a request sees after pruning. *)
Seen(i, at) == pruneDraft(records, at)[i]

----------------------------------------------------------------------------
(* reserve.  The wallet's balance is read while the transaction is open.    *)

reserve(i, at) ==
  /\ Serving
  /\ at < RfqExpiry[i]
  /\ Seen(i, at).reservation.state = "absent"
  /\ held' = [subject |-> i, at |-> at, balance |-> privateBalance]
  /\ UNCHANGED <<records, locks, walRecords, walLocks, status, clock, world,
                 fills, given>>

(* Private inventory covers the quote beside everything held back. *)
Fits(i, draft, at, balance) ==
  Reserved(draft) + Unresolved(locks, at) + Amount[i] <= balance

NewReservation(i, at) ==
  [NoRecord EXCEPT !.reservation =
     createMakerReservation(at, Min({RfqExpiry[i], at + Ttl}), 1)]

(* The fence starts at the next WAL sequence number; only differences of    *)
(* one reservation's fences matter, so 1 stands for it.                     *)
reserveCommit(i, ok) ==
  LET draft == pruneDraft(records, held.at) IN
  /\ held.subject = i
  /\ Fits(i, draft, held.at, held.balance)
  /\ AppendSnapshot([draft EXCEPT ![i] = NewReservation(i, held.at)],
                    locks, status, ok)
  /\ UNCHANGED <<world, fills, given>>

reserveRefused(i) ==
  /\ held.subject = i
  /\ ~Fits(i, pruneDraft(records, held.at), held.at, held.balance)
  /\ held' = Free
  /\ UNCHANGED <<records, locks, walRecords, walLocks, status, clock, world,
                 fills, given>>

(* reserve, signQuote, select, release, fill and the reconciliation calls   *)
(* when the record already answers them, and readReconciliationSnapshot.    *)
Touch(at, ok) ==
  /\ Serving
  /\ transaction(pruneDraft(records, at), ok)
  /\ UNCHANGED <<world, fills, given>>

\* Faulty variant: the signature leaves before the record is durable.
signQuote_Early(i, q, at, ok) ==
  LET rec == Seen(i, at) IN
  /\ Serving
  /\ rec.reservation.state = "reserved"
  /\ rec.quote \in {NoQuote, q}
  /\ Update(i, at, [rec EXCEPT !.quote = q], ok)
  /\ given' = [given EXCEPT ![i] = @ \cup {q}]
  /\ UNCHANGED <<world, fills>>

(* signQuote and signQuoteV2: the first payload wins.  The signature is     *)
(* returned after the write.                                                *)
signQuote(i, q, at, ok) ==
  LET rec == Seen(i, at) IN
  /\ Serving
  /\ rec.reservation.state = "reserved"
  /\ rec.quote \in {NoQuote, q}
  /\ Update(i, at, [rec EXCEPT !.quote = q], ok)
  /\ given' = IF ok THEN [given EXCEPT ![i] = @ \cup {q}] ELSE given
  /\ UNCHANGED <<world, fills>>

select(i, at, ok) ==
  LET rec == Seen(i, at) IN
  /\ Serving
  /\ rec.quote # NoQuote
  /\ rec.reservation.state = "reserved"
  /\ CanTransition(rec.reservation, "select", at)
  /\ Update(i, at, With(rec, "select", at, NoKey), ok)
  /\ UNCHANGED <<world, fills, given>>

release(i, at, ok) ==
  LET rec == Seen(i, at) IN
  /\ Serving
  /\ rec.reservation.state \in {"reserved", "selected"}
  /\ CanTransition(rec.reservation, "release", at)
  /\ Update(i, at, With(rec, "release", at, NoKey), ok)
  /\ UNCHANGED <<world, fills, given>>

----------------------------------------------------------------------------
(* fill: begin-fill is durable before the wallet is called, and the wallet  *)
(* is called outside any transaction.                                       *)

fill(i, d, at, ok) ==
  LET rec == Seen(i, at) IN
  /\ Serving
  /\ rec.reservation.state = "selected"
  /\ rec.deal \in {NoDeal, d}
  /\ \E key \in Keys :
       /\ CanTransition(rec.reservation, "beginFill", at)
       /\ Update(i, at, [With(rec, "beginFill", at, key) EXCEPT !.deal = d], ok)
  /\ fills' = IF ok THEN [fills EXCEPT ![i] = [pc |-> "call", at |-> at]] ELSE fills
  /\ UNCHANGED <<world, given>>

(* wallet.fill: the terms of the deal are read first; a mismatch throws     *)
(* before anything is submitted.                                            *)
walletFill(i) ==
  /\ fills[i].pc = "call"
  /\ \/ /\ fills' = [fills EXCEPT ![i].pc = "wait"]
        /\ fillTx' = [fillTx EXCEPT ![i] = "sent"]
        /\ fillCalls' = [fillCalls EXCEPT ![i] = @ + 1]
     \/ /\ fills' = [fills EXCEPT ![i].pc = "failed"]
        /\ UNCHANGED <<fillTx, fillCalls>>
  /\ UNCHANGED <<store, clock, chain, lockCalls, settleCalls, given>>

(* It returns a hash for a transaction that landed, or throws at any time.  *)
walletFillReturns(i) ==
  /\ fills[i].pc = "wait"
  /\ \/ fillTx[i] = "landed" /\ fills' = [fills EXCEPT ![i].pc = "returned"]
     \/ fills' = [fills EXCEPT ![i].pc = "failed"]
  /\ UNCHANGED <<store, clock, world, given>>

(* The transaction after wallet.fill. *)
consume(i, ok) ==
  LET rec == records[i] IN
  /\ fills[i].pc = "returned"
  /\ CanTransition(rec.reservation, "consume", fills[i].at)
  /\ transaction([records EXCEPT ![i] =
                    [With(rec, "consume", fills[i].at, NoKey) EXCEPT !.hash = TRUE]],
                 ok)
  /\ fills' = [fills EXCEPT ![i] = NotFilling]
  /\ UNCHANGED <<world, given>>

(* It throws when the reservation is no longer filling, and the handler     *)
(* goes on in its catch clause.                                             *)
consumeRefused(i) ==
  /\ fills[i].pc = "returned"
  /\ Usable
  /\ ~CanTransition(records[i].reservation, "consume", fills[i].at)
  /\ fills' = [fills EXCEPT ![i].pc = "failed"]
  /\ UNCHANGED <<store, clock, world, given>>

(* An unknown outcome quarantines what is still filling. *)
FillFailed(rec, at) ==
  IF CanTransition(rec.reservation, "quarantine", at) /\ rec.reservation.state = "filling"
  THEN With(rec, "quarantine", at, NoKey) ELSE rec

fillFailed(i, ok) ==
  /\ fills[i].pc = "failed"
  /\ transaction([records EXCEPT ![i] = FillFailed(@, fills[i].at)], ok)
  /\ fills' = [fills EXCEPT ![i] = NotFilling]
  /\ UNCHANGED <<world, given>>

----------------------------------------------------------------------------
(* Reconciliation with the chain authority. *)

bindSettlementForReconciliation(i, d, at, ok) ==
  LET rec == Seen(i, at) IN
  /\ Serving
  /\ rec.quote # NoQuote
  /\ HasSelectionFence(rec)
  /\ rec.deal \in {NoDeal, d}
  /\ Update(i, at, [rec EXCEPT !.deal = d], ok)
  /\ UNCHANGED <<world, fills, given>>

quarantineForAuthority(i, d, fence, revision, outcome, at, ok) ==
  LET rec == Seen(i, at) IN
  /\ Serving
  /\ Bound(rec, d, fence)
  /\ revision > rec.quarantine.revision
  /\ rec.terminal # NoEvidence =>
       rec.terminal.outcome = outcome /\ revision > rec.terminal.revision
  /\ at >= rec.reservation.updatedAt
  /\ rec.reservation.fence < MaxFence
  /\ Update(i, at,
       [rec EXCEPT
          !.quarantine = [revision |-> revision, outcome |-> outcome, fence |-> fence],
          !.reservation.state = "quarantined",
          !.reservation.fence = IF rec.reservation.state = "quarantined" THEN @ ELSE @ + 1,
          !.reservation.updatedAt = at], ok)
  /\ UNCHANGED <<world, fills, given>>

\* Faulty variant: settlement is accepted without the node's own hash.
OutcomeMatches_NoHash(rec, outcome) ==
  LET r == rec.reservation IN
  \/ /\ outcome = "settled"
     /\ r.state \in {"consumed", "quarantined"}
     /\ r.attempt # NoKey
  \/ /\ outcome = "refunded"
     /\ r.state \in {"selected", "quarantined"}
     /\ r.attempt = NoKey

(* Settlement needs the attempt and the hash this node recorded; a refund   *)
(* needs that nothing was attempted.                                        *)
OutcomeMatches(rec, outcome) ==
  LET r == rec.reservation IN
  \/ /\ outcome = "settled"
     /\ r.state \in {"consumed", "quarantined"}
     /\ r.attempt # NoKey /\ rec.hash
  \/ /\ outcome = "refunded"
     /\ \/ r.state \in {"selected", "quarantined"}
        \/ r.state = "released" /\ rec.terminal.outcome = "refunded"
     /\ r.attempt = NoKey /\ ~rec.hash

Final == [settled |-> "consumed", refunded |-> "released"]

\* Faulty variant: a request that was delayed is still accepted.
Supersedes_AnyRevision(rec, revision, outcome) ==
  rec.terminal # NoEvidence => rec.terminal.outcome = outcome

(* A new revision supersedes what is recorded and does not contradict it. *)
Supersedes(rec, revision, outcome) ==
  /\ revision > rec.terminal.revision
  /\ rec.terminal # NoEvidence => rec.terminal.outcome = outcome
  /\ revision > rec.quarantine.revision

(* reconcileAuthoritativeTerminal for a reservation. *)
reconcileAuthoritativeTerminal(i, d, fence, revision, outcome, at, ok) ==
  LET rec == Seen(i, at)
      moves == rec.reservation.state # Final[outcome]
  IN
  /\ Serving
  /\ Bound(rec, d, fence)
  /\ Supersedes(rec, revision, outcome)
  /\ OutcomeMatches(rec, outcome)
  /\ at >= rec.reservation.updatedAt
  /\ moves => rec.reservation.fence < MaxFence
  /\ Update(i, at,
       [rec EXCEPT
          !.terminal = [revision |-> revision, outcome |-> outcome, fence |-> fence],
          !.reservation.state = Final[outcome],
          !.reservation.fence = IF moves THEN @ + 1 ELSE @,
          !.reservation.updatedAt = IF moves THEN at ELSE @], ok)
  /\ UNCHANGED <<world, fills, given>>

----------------------------------------------------------------------------
(* recoverAfterRestart, the reservations: a fill the process died in has an *)
(* unknown outcome.                                                         *)

\* Faulty variant: a fill the process died in may be tried again.
Recovered_Retry(recs, at) ==
  [i \in Intents |->
     IF recs[i].reservation.state = "filling"
     THEN [recs[i] EXCEPT !.reservation.state = "selected",
                          !.reservation.fence = @ - 1] ELSE recs[i]]

Recovered(recs, at) ==
  [i \in Intents |->
     IF recs[i].reservation.state = "filling"
     THEN With(recs[i], "quarantine", at, NoKey) ELSE recs[i]]

recoverRecords(ok) ==
  /\ status = "opened" /\ Usable
  /\ AppendSnapshot(Recovered(pruneDraft(records, clock), clock), locks,
                    "refreshing", ok)
  /\ UNCHANGED <<world, fills, given>>

ReservationNext ==
  \/ \E i \in Intents, ok \in BOOLEAN :
       reserveCommit(i, ok) \/ consume(i, ok) \/ fillFailed(i, ok)
  \/ \E i \in Intents :
       \/ reserveRefused(i) \/ consumeRefused(i)
       \/ walletFill(i) \/ walletFillReturns(i)
  \/ \E at \in Stamps :
       \/ \E i \in Intents : reserve(i, at)
       \/ \E ok \in BOOLEAN :
            \/ Touch(at, ok)
            \/ \E i \in Intents :
                 \/ \E q \in Quotes : signQuote(i, q, at, ok)
                 \/ select(i, at, ok)
                 \/ release(i, at, ok)
                 \/ \E d \in Deals :
                      \/ fill(i, d, at, ok)
                      \/ bindSettlementForReconciliation(i, d, at, ok)
                      \/ \E fence \in Fences, v \in Revisions,
                            o \in AuthorityOutcomes :
                           \/ quarantineForAuthority(i, d, fence, v, o, at, ok)
                           \/ reconcileAuthoritativeTerminal(i, d, fence, v, o, at, ok)

=============================================================================
