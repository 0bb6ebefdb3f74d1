------------------------------- MODULE Escrow -------------------------------
(***************************************************************************)
(* App20Escrow (cairo/src/escrow.cairo) with the two authorization tokens  *)
(* it deploys (claim_ticket.cairo, lock_ticket.cairo), driven by the       *)
(* STRK20 pool.                                                            *)
(*                                                                         *)
(* A step is one call of an outer account transaction.  A call that        *)
(* asserts reverts the whole transaction, which leaves the state the       *)
(* transaction began in; that state is also reached by the transaction     *)
(* that makes none of those calls, so a revert needs no step of its own.   *)
(* The pool pulls the OPEN-note deposit that an operation returns before   *)
(* the pool call ends, so the pull belongs to the operation's step.        *)
(***************************************************************************)
EXTENDS Integers, Sequences, FiniteSets, Functions

CONSTANTS
    Assets,      \* ERC-20 tokens
    DealIds,     \* ids of v1 deals; the ClaimTicket of deal d is the token d
    LockIds,     \* ids of v3 locks; the LockTicket of lock l is the token l
    RfqIds,      \* ids under which takes are recorded
    Keys,        \* ephemeral taker authorization keys
    Identities,  \* pool identity commitments returned by privacy_compute
    Schedules,   \* the price schedules a maker may submit
    Messages,    \* the take messages a taker may sign
    Legs,        \* the tokens that callers name in deals and locks
    MaxSigned,   \* bound on the number of signed messages
    Supply,      \* total supply of each asset
    MaxU128,     \* the largest u128
    MaxTime,     \* bound on the block timestamp
    MaxStray,    \* bound on the amount of an asset sent without a snapshot
    MaxPrepared, \* bound on the snapshots live in one transaction
    Zero         \* the zero address, the default of an unwritten slot

Tickets == DealIds \cup LockIds
Tokens  == Assets \cup Tickets
U128    == 0 .. MaxU128
Times   == 0 .. MaxTime

Point == [a : Nat, b : Nat]

VARIABLES
    now,        \* block timestamp of the current transaction
    bal,        \* balance of the escrow contract in each token
    outside,    \* what the pool (and, for assets, the public) holds of it
    accounted,  \* Storage.accounted
    snapshots,  \* Storage.funding_snapshots
    deployed,   \* the tickets deployed so far (Storage.tickets, lock_tickets)
    minted,     \* the minted flag of each ticket contract
    deals,      \* Storage.deals
    locks,      \* Storage.locks
    takes,      \* Storage.takes
    signed,     \* the take messages that takers have signed
    payer,      \* history: the identity whose note paid for each take
    stray       \* history: asset amounts that reached the escrow when no
                \* snapshot of the running transaction was waiting for them

ticketVars == <<deployed, minted>>
takeVars   == <<takes, signed, payer>>
vars == <<now, bal, outside, accounted, snapshots, deployed, minted, deals,
          locks, takes, signed, payer, stray>>

-----------------------------------------------------------------------------
(***************************************************************************)
(* Records                                                                 *)
(***************************************************************************)

DealStatus == {"Empty", "Funded", "Filled", "Settled", "TimedOut"}
LockStatus == {"Empty", "Open", "Closed"}

Deal == [leg_a_token : Tokens \cup {Zero}, leg_a_amount : Nat,
         leg_b_token : Tokens \cup {Zero}, leg_b_terms : Nat,
         leg_b_amount : Nat, deadline : Nat, status : DealStatus]

EmptyDeal == [leg_a_token |-> Zero, leg_a_amount |-> 0,
              leg_b_token |-> Zero, leg_b_terms |-> 0,
              leg_b_amount |-> 0, deadline |-> 0, status |-> "Empty"]

Lock == [token_a : Tokens \cup {Zero}, token_b : Tokens \cup {Zero},
         rfq_id : RfqIds \cup {Zero}, taker_commitment : Keys \cup {Zero},
         expiry : Nat, points : Seq(Point), remaining_b : Nat,
         earned_a : Nat, proceeds_settled : BOOLEAN,
         collateral_released : BOOLEAN, status : LockStatus]

EmptyLock == [token_a |-> Zero, token_b |-> Zero, rfq_id |-> Zero,
              taker_commitment |-> Zero, expiry |-> 0, points |-> <<>>,
              remaining_b |-> 0, earned_a |-> 0, proceeds_settled |-> FALSE,
              collateral_released |-> FALSE, status |-> "Empty"]

Fill == [lock_id : LockIds, amount_a : Nat]

\* fills_digest is an injective hash of the ordered fills, so the record
\* keeps the fills; fill_count is their number.
TakeRecord == [token_a : Tokens \cup {Zero}, total_a : Nat,
               token_b : Tokens \cup {Zero}, total_b : Nat, fills : Seq(Fill)]

NoTake == [token_a |-> Zero, total_a |-> 0, token_b |-> Zero, total_b |-> 0,
           fills |-> <<>>]

\* What a taker key signs: the fields hashed under TAKE_DOMAIN, with the
\* signing key.
TakeMessage == [key : Keys, identity : Identities, deal_id : RfqIds,
                token : Tokens, counter_token : Tokens, fills : Seq(Fill)]

\* "prepared" stands for the stored flag and for the transaction_hash being the
\* hash of the running transaction.  consume_funding refuses a snapshot that
\* fails either test and prepare_funding overwrites it, so one that fails is
\* kept as NoSnapshot.
FundingSnapshot == [prepared : BOOLEAN, balance : Nat]

NoSnapshot == [prepared |-> FALSE, balance |-> 0]

ASSUME ConstantsAssumption ==
    /\ Assets \cap Tickets = {}
    /\ DealIds \cap LockIds = {}
    /\ IsFiniteSet(DealIds)
    /\ IsFiniteSet(LockIds)
    /\ Zero \notin Tokens
    /\ Supply \in Nat
    /\ MaxU128 \in Nat
    /\ MaxTime \in Nat
    /\ MaxStray \in Nat
    /\ MaxPrepared \in Nat
    /\ MaxSigned \in Nat
    /\ Schedules \subseteq Seq(Point)
    /\ Messages \subseteq TakeMessage
    /\ Legs \subseteq Tokens

-----------------------------------------------------------------------------
(***************************************************************************)
(* Price schedules: points <<a, b>> joined by straight lines, rounded down *)
(***************************************************************************)

assert_schedule(s) ==
    /\ Len(s) >= 1 /\ Len(s) <= 4
    /\ s[1].a > 0 /\ s[1].b > 0
    /\ \A i \in 2 .. Len(s) :
          s[i].a > s[i - 1].a /\ s[i].b > 0 /\ s[i].b >= s[i - 1].b

interpolate(l, r, amount) ==
    l.b + ((amount - l.a) * (r.b - l.b)) \div (r.a - l.a)

InSchedule(s, amount) == s[1].a <= amount /\ amount <= s[Len(s)].a

\* Defined for a valid schedule and an amount inside it.
evaluate_schedule(s, amount) ==
    IF Len(s) = 1 THEN s[1].b
    ELSE IF amount <= s[2].a THEN interpolate(s[1], s[2], amount)
    ELSE IF amount <= s[3].a THEN interpolate(s[2], s[3], amount)
    ELSE interpolate(s[3], s[4], amount)

schedule_max_b(s) == s[Len(s)].b

-----------------------------------------------------------------------------
(***************************************************************************)
(* The transaction around the calls: external parts                        *)
(***************************************************************************)

Init ==
    /\ now = 0
    /\ bal = [t \in Tokens |-> 0]
    /\ outside = [t \in Tokens |-> IF t \in Assets THEN Supply ELSE 0]
    /\ accounted = [t \in Tokens |-> 0]
    /\ snapshots = [t \in Tokens |-> NoSnapshot]
    /\ deployed = {}
    /\ minted = [k \in Tickets |-> FALSE]
    /\ deals = [d \in DealIds |-> EmptyDeal]
    /\ locks = [l \in LockIds |-> EmptyLock]
    /\ takes = [r \in RfqIds |-> NoTake]
    /\ signed = {}
    /\ payer = [r \in RfqIds |-> Zero]
    /\ stray = [t \in Assets |-> 0]

\* The next transaction starts, in the same block or in a later one.  The
\* snapshots now carry the hash of an earlier transaction.
NextTx ==
    /\ now' \in {now, now + 1} /\ now' <= MaxTime
    /\ snapshots' = [t \in Tokens |-> NoSnapshot]
    /\ UNCHANGED <<bal, outside, accounted, ticketVars, deals, locks,
                   takeVars, stray>>

\* The pool withdraws notes to the escrow, or anyone transfers an asset to it.
\* A ticket moves one unit at a time and only between escrow and pool.
Withdraw(t, n) ==
    /\ n > 0 /\ n <= outside[t]
    /\ t \in Tickets => n = 1
    /\ bal' = [bal EXCEPT ![t] = @ + n]
    /\ outside' = [outside EXCEPT ![t] = @ - n]
    /\ IF t \in Assets /\ ~snapshots[t].prepared
       THEN /\ stray[t] + n <= MaxStray
            /\ stray' = [stray EXCEPT ![t] = @ + n]
       ELSE UNCHANGED stray
    /\ UNCHANGED <<now, accounted, snapshots, ticketVars, deals, locks,
                   takeVars>>

\* A taker signs a take over locks that are open on chain and quote its tokens.
SignTake(m) ==
    /\ m \notin signed /\ Cardinality(signed) < MaxSigned
    /\ \A i \in 1 .. Len(m.fills) :
          /\ locks[m.fills[i].lock_id].status = "Open"
          /\ locks[m.fills[i].lock_id].token_a = m.token
          /\ locks[m.fills[i].lock_id].token_b = m.counter_token
    /\ signed' = signed \cup {m}
    /\ UNCHANGED <<now, bal, outside, accounted, snapshots, ticketVars, deals,
                   locks, takes, payer, stray>>

-----------------------------------------------------------------------------
(***************************************************************************)
(* Parts shared by the operations.  A faulty variant of a definition stands *)
(* before it, named after it with a suffix: no specification uses it, the  *)
(* properties are tested against it.                                       *)
(***************************************************************************)

\* Only these tokens can fund an operation now (consume_funding's first test).
Prepared == {t \in Tokens : snapshots[t].prepared}

\* Faulty variant: funding is measured from the accounted balance.
consume_funding_FromAccounted(t, expected) ==
    /\ snapshots[t].prepared
    /\ bal[t] >= accounted[t]
    /\ bal[t] - accounted[t] = expected
    /\ snapshots' = [snapshots EXCEPT ![t] = NoSnapshot]

\* Faulty variant: the snapshot is not consumed.
consume_funding_Reusable(t, expected) ==
    /\ snapshots[t].prepared
    /\ bal[t] >= snapshots[t].balance
    /\ bal[t] >= accounted[t]
    /\ bal[t] - snapshots[t].balance = expected
    /\ UNCHANGED snapshots

\* Funding is measured from the snapshot, exactly.
consume_funding(t, expected) ==
    /\ snapshots[t].prepared
    /\ bal[t] >= snapshots[t].balance
    /\ bal[t] >= accounted[t]
    /\ bal[t] - snapshots[t].balance = expected
    /\ snapshots' = [snapshots EXCEPT ![t] = NoSnapshot]

\* The ticket contract mints its whole supply n to the escrow, once; the pool
\* pulls it as the OPEN-note deposit.
MintTicket(k, n) ==
    /\ ~minted[k]
    /\ minted' = [minted EXCEPT ![k] = TRUE]
    /\ bal' = [bal EXCEPT ![k] = 0]
    /\ outside' = [outside EXCEPT ![k] = @ + n]

\* Exactly one unit of the ticket is in the escrow beyond what deals and locks
\* hold of it; burning it leaves the balances Burnt(k).
consume_ticket(d) == bal[d] - accounted[d] = 1 /\ bal[d] = 1

consume_lock_ticket(l) == bal[l] - accounted[l] = 1 /\ bal[l] >= 1

\* Faulty variant: the ticket is not burnt.
Burnt_Skipped(k) == bal

Burnt(k) == [bal EXCEPT ![k] = @ - 1]

\* The escrow, whose balances are b, approves n of t and the pool pulls it.
PayOut(b, t, n) ==
    /\ b[t] >= accounted[t]
    /\ accounted[t] >= n
    /\ accounted' = [accounted EXCEPT ![t] = @ - n]
    /\ bal' = [b EXCEPT ![t] = @ - n]
    /\ outside' = [outside EXCEPT ![t] = @ + n]

\* Faulty variant: what comes in is not accounted.
Exchange_NoCredit(t, in, u, out) ==
    /\ bal[u] >= accounted[u]
    /\ accounted[u] >= out
    /\ accounted' = [accounted EXCEPT ![u] = @ - out]
    /\ bal' = [bal EXCEPT ![u] = @ - out]
    /\ outside' = [outside EXCEPT ![u] = @ + out]

\* Faulty variant: the two amounts are mixed up.
Exchange_Swapped(t, in, u, out) ==
    /\ bal[u] >= accounted[u]
    /\ accounted[u] >= out
    /\ accounted' = [accounted EXCEPT ![u] = @ - in, ![t] = @ + out]
    /\ bal' = [bal EXCEPT ![u] = @ - out]
    /\ outside' = [outside EXCEPT ![u] = @ + out]

\* in of token t stays in custody while out of token u is paid to the pool.
Exchange(t, in, u, out) ==
    /\ bal[u] >= accounted[u]
    /\ accounted[u] >= out
    /\ accounted' = [accounted EXCEPT ![u] = @ - out, ![t] = @ + in]
    /\ bal' = [bal EXCEPT ![u] = @ - out]
    /\ outside' = [outside EXCEPT ![u] = @ + out]

-----------------------------------------------------------------------------
(***************************************************************************)
(* Calls made directly on the escrow                                       *)
(***************************************************************************)

prepare_funding(t) ==
    /\ Cardinality(Prepared \cup {t}) <= MaxPrepared
    /\ t \in Tickets => t \in deployed
    /\ bal[t] >= accounted[t]
    /\ snapshots' = [snapshots EXCEPT
                        ![t] = [prepared |-> TRUE, balance |-> bal[t]]]
    /\ UNCHANGED <<now, bal, outside, accounted, ticketVars, deals, locks,
                   takeVars, stray>>

ensure_ticket(d) ==
    /\ deployed' = deployed \cup {d}
    /\ UNCHANGED <<now, bal, outside, accounted, snapshots, minted, deals,
                   locks, takeVars, stray>>

ensure_lock_ticket(l) ==
    /\ deployed' = deployed \cup {l}
    /\ UNCHANGED <<now, bal, outside, accounted, snapshots, minted, deals,
                   locks, takeVars, stray>>

\* Faulty variant: the deadline itself is too early.
Expired_Strict(deadline) == now > deadline

\* The deadline of a deal, or the expiry of a lock, has come.
Expired(deadline) == now >= deadline

-----------------------------------------------------------------------------
(***************************************************************************)
(* v1 deals                                                                *)
(***************************************************************************)

fund(d, p) ==
    /\ p.token # p.counter_token
    /\ p.counter_amount > 0 /\ p.amount > 0
    /\ p.deadline > now
    /\ deals[d].status = "Empty"
    /\ consume_funding(p.token, p.amount)
    /\ accounted' = [accounted EXCEPT ![p.token] = @ + p.amount]
    /\ deals' = [deals EXCEPT ![d] =
          [leg_a_token |-> p.token, leg_a_amount |-> p.amount,
           leg_b_token |-> p.counter_token, leg_b_terms |-> p.counter_amount,
           leg_b_amount |-> 0, deadline |-> p.deadline, status |-> "Funded"]]
    /\ deployed' = deployed \cup {d}
    /\ MintTicket(d, 1)
    /\ UNCHANGED <<now, locks, takeVars, stray>>

fill(d, token) ==
    /\ deals[d].status = "Funded"
    /\ ~Expired(deals[d].deadline)
    /\ token = deals[d].leg_b_token
    /\ consume_funding(token, deals[d].leg_b_terms)
    /\ Exchange(token, deals[d].leg_b_terms,
                deals[d].leg_a_token, deals[d].leg_a_amount)
    /\ deals' = [deals EXCEPT ![d].leg_b_amount = deals[d].leg_b_terms,
                              ![d].status = "Filled"]
    /\ UNCHANGED <<now, ticketVars, locks, takeVars, stray>>

claim(d) ==
    /\ deals[d].status = "Filled"
    /\ consume_ticket(d)
    /\ PayOut(Burnt(d), deals[d].leg_b_token, deals[d].leg_b_amount)
    /\ deals' = [deals EXCEPT ![d].status = "Settled"]
    /\ UNCHANGED <<now, snapshots, ticketVars, locks, takeVars, stray>>

timeout(d) ==
    /\ deals[d].status = "Funded"
    /\ Expired(deals[d].deadline)
    /\ consume_ticket(d)
    /\ PayOut(Burnt(d), deals[d].leg_a_token, deals[d].leg_a_amount)
    /\ deals' = [deals EXCEPT ![d].status = "TimedOut"]
    /\ UNCHANGED <<now, snapshots, ticketVars, locks, takeVars, stray>>

-----------------------------------------------------------------------------
(***************************************************************************)
(* v3 locks and takes                                                      *)
(***************************************************************************)

lock(l, p) ==
    /\ locks[l].status = "Empty"
    /\ p.token # p.counter_token
    /\ p.expiry > now
    /\ assert_schedule(p.points)
    /\ consume_funding(p.token, schedule_max_b(p.points))
    /\ accounted' = [accounted EXCEPT ![p.token] =
                                         @ + schedule_max_b(p.points)]
    /\ locks' = [locks EXCEPT ![l] =
          [token_a |-> p.counter_token, token_b |-> p.token,
           rfq_id |-> p.rfq_id, taker_commitment |-> p.taker_commitment,
           expiry |-> p.expiry, points |-> p.points,
           remaining_b |-> schedule_max_b(p.points), earned_a |-> 0,
           proceeds_settled |-> FALSE, collateral_released |-> FALSE,
           status |-> "Open"]]
    /\ deployed' = deployed \cup {l}
    /\ MintTicket(l, 2)
    /\ UNCHANGED <<now, deals, takeVars, stray>>

amount_b(f) == evaluate_schedule(locks[f.lock_id].points, f.amount_a)

\* The sums over the fills of a take, four at most.
SoldA(fills, i) == IF i <= Len(fills) THEN fills[i].amount_a ELSE 0

BoughtB(fills, i) == IF i <= Len(fills) THEN amount_b(fills[i]) ELSE 0

total_a(fills) == SoldA(fills, 1) + SoldA(fills, 2) + SoldA(fills, 3) + SoldA(fills, 4)

total_b(fills) ==
    BoughtB(fills, 1) + BoughtB(fills, 2) + BoughtB(fills, 3) + BoughtB(fills, 4)

FillsLock(fills, l) == \E i \in 1 .. Len(fills) : fills[i].lock_id = l

FillOf(fills, l) == fills[CHOOSE i \in 1 .. Len(fills) : fills[i].lock_id = l]

assert_distinct_fills(fills) ==
    \A i, j \in 1 .. Len(fills) : i # j => fills[i].lock_id # fills[j].lock_id

\* What every fill of the take must find in its lock.
Fillable(f, r, p) ==
    LET lk == locks[f.lock_id] IN
    /\ lk.status = "Open"
    /\ ~Expired(lk.expiry)
    /\ lk.rfq_id = r
    /\ lk.token_a = p.token /\ lk.token_b = p.counter_token
    /\ InSchedule(lk.points, f.amount_a)
    /\ lk.remaining_b >= amount_b(f)
    /\ lk.earned_a + f.amount_a <= MaxU128

\* Faulty variant: the key of the first lock signs for all.
Authorized_FirstLockOnly(id, r, p) ==
    [key |-> locks[p.fills[1].lock_id].taker_commitment, identity |-> id,
     deal_id |-> r, token |-> p.token, counter_token |-> p.counter_token,
     fills |-> p.fills] \in signed

\* All locks name one key, and that key signed this take for this identity.
Authorized(id, r, p) ==
    LET key == locks[p.fills[1].lock_id].taker_commitment IN
    /\ \A i \in 1 .. Len(p.fills) :
          locks[p.fills[i].lock_id].taker_commitment = key
    /\ [key |-> key, identity |-> id, deal_id |-> r, token |-> p.token,
        counter_token |-> p.counter_token, fills |-> p.fills] \in signed

\* Faulty variant: an RFQ may be taken again.
TakeIsNew_Dropped(r) == TRUE

TakeIsNew(r) == Len(takes[r].fills) = 0

take(id, r, p) ==
    LET n == Len(p.fills)
        sum_a == total_a(p.fills)
        sum_b == total_b(p.fills) IN
    /\ TakeIsNew(r)
    /\ n > 0 /\ n <= 4
    /\ assert_distinct_fills(p.fills)
    /\ p.token # p.counter_token
    /\ consume_funding(p.token, sum_a)
    /\ \A i \in 1 .. n : Fillable(p.fills[i], r, p)
    /\ Authorized(id, r, p)
    /\ sum_a <= MaxU128 /\ sum_b <= MaxU128
    /\ Exchange(p.token, sum_a, p.counter_token, sum_b)
    /\ locks' = [l \in LockIds |->
          IF FillsLock(p.fills, l)
          THEN [locks[l] EXCEPT
                  !.remaining_b = @ - amount_b(FillOf(p.fills, l)),
                  !.earned_a = @ + FillOf(p.fills, l).amount_a]
          ELSE locks[l]]
    /\ takes' = [takes EXCEPT ![r] =
          [token_a |-> p.token, total_a |-> sum_a,
           token_b |-> p.counter_token, total_b |-> sum_b,
           fills |-> p.fills]]
    /\ payer' = [payer EXCEPT ![r] = id]
    /\ UNCHANGED <<now, ticketVars, deals, signed, stray>>

\* Faulty variant: a side with nothing to pay cannot be settled.
SettleSide_NothingToSettle(l, t, n) ==
    n > 0 /\ PayOut(Burnt(l), t, n)

\* One side of a lock is paid, or has nothing to pay.
SettleSide(l, t, n) ==
    IF n > 0 THEN PayOut(Burnt(l), t, n)
    ELSE bal' = Burnt(l) /\ UNCHANGED <<accounted, outside>>

settle_proceeds(l) ==
    /\ ~locks[l].proceeds_settled
    /\ locks[l].status = "Open"
    /\ Expired(locks[l].expiry)
    /\ consume_lock_ticket(l)
    /\ SettleSide(l, locks[l].token_a, locks[l].earned_a)
    /\ locks' = [locks EXCEPT
          ![l].proceeds_settled = TRUE,
          ![l].status = IF locks[l].collateral_released THEN "Closed" ELSE @]
    /\ UNCHANGED <<now, snapshots, ticketVars, deals, takeVars, stray>>

release_collateral(l) ==
    /\ ~locks[l].collateral_released
    /\ locks[l].status = "Open"
    /\ Expired(locks[l].expiry)
    /\ consume_lock_ticket(l)
    /\ SettleSide(l, locks[l].token_b, locks[l].remaining_b)
    /\ locks' = [locks EXCEPT
          ![l].collateral_released = TRUE,
          ![l].status = IF locks[l].proceeds_settled THEN "Closed" ELSE @]
    /\ UNCHANGED <<now, snapshots, ticketVars, deals, takeVars, stray>>

-----------------------------------------------------------------------------
(***************************************************************************)
(* The specification                                                       *)
(***************************************************************************)

FundParams(t) == [token : {t}, amount : U128, counter_token : Legs,
                  counter_amount : U128, deadline : Times]

LockParams(t) == [token : {t}, counter_token : Legs, rfq_id : RfqIds,
                  taker_commitment : Keys, expiry : Times,
                  points : Schedules]

TakeParams(m) == [token |-> m.token, counter_token |-> m.counter_token,
                  fills |-> m.fills]

DealNext ==
    \E d \in DealIds :
        \/ ensure_ticket(d)
        \/ \E t \in Prepared : \E p \in FundParams(t) : fund(d, p)
        \/ \E t \in Prepared : fill(d, t)
        \/ claim(d)
        \/ timeout(d)

LockNext ==
    \E l \in LockIds :
        \/ ensure_lock_ticket(l)
        \/ \E t \in Prepared : \E p \in LockParams(t) : lock(l, p)
        \/ settle_proceeds(l)
        \/ release_collateral(l)

TakeNext ==
    \/ \E m \in Messages : SignTake(m)
    \/ \E m \in signed, id \in Identities, r \in RfqIds :
          take(id, r, TakeParams(m))

Next ==
    \/ NextTx
    \/ \E t \in Legs : prepare_funding(t)
    \/ \E t \in Tokens, n \in 1 .. Supply + 1 : Withdraw(t, n)
    \/ DealNext
    \/ LockNext
    \/ TakeNext

Spec == Init /\ [][Next]_vars

-----------------------------------------------------------------------------
(***************************************************************************)
(* Properties                                                              *)
(***************************************************************************)

\* Every slot keeps its declared type; in particular no balance, credit or
\* remaining collateral goes below zero, where the contract would panic.
TypeOK ==
    /\ now \in Nat
    /\ bal \in [Tokens -> Nat]
    /\ outside \in [Tokens -> Nat]
    /\ accounted \in [Tokens -> Nat]
    /\ snapshots \in [Tokens -> FundingSnapshot]
    /\ deployed \subseteq Tickets
    /\ minted \in [Tickets -> BOOLEAN]
    /\ deals \in [DealIds -> Deal]
    /\ locks \in [LockIds -> Lock]
    /\ takes \in [RfqIds -> TakeRecord]
    /\ signed \subseteq TakeMessage
    /\ payer \in [RfqIds -> Identities \cup {Zero}]
    /\ stray \in [Assets -> Nat]

\* The escrow always holds at least what it has accounted for, in every token
\* (a ticket that is itself a traded leg included), so BALANCE_DEFICIT can
\* refuse no operation.
Solvent == \A t \in Tokens : bal[t] >= accounted[t]

\* What the deals and locks that are still unpaid are owed in token t.
DealOwes(d, t) ==
    (IF deals[d].status = "Funded" /\ deals[d].leg_a_token = t
     THEN deals[d].leg_a_amount ELSE 0)
    + (IF deals[d].status = "Filled" /\ deals[d].leg_b_token = t
       THEN deals[d].leg_b_amount ELSE 0)

LockOwes(l, t) ==
    (IF locks[l].token_a = t /\ ~locks[l].proceeds_settled
     THEN locks[l].earned_a ELSE 0)
    + (IF locks[l].token_b = t /\ ~locks[l].collateral_released
       THEN locks[l].remaining_b ELSE 0)

\* accounted is exactly the sum of what the open deals and locks are owed: no
\* sequence of operations loses a leg or pays one twice, and
\* CONSERVATION_FAILURE can refuse no operation.
AccountedExact ==
    \A t \in Tokens :
        accounted[t] =
            SumFunction([d \in DealIds |-> DealOwes(d, t)])
                + SumFunction([l \in LockIds |-> LockOwes(l, t)])

\* The authorization tokens exist in exactly the number of payouts that are
\* left: one for a deal that is Funded or Filled, one for each unsettled side
\* of a lock, none before or after; and a ticket is minted once.
TicketSupply ==
    /\ \A d \in DealIds :
          /\ minted[d] <=> deals[d].status # "Empty"
          /\ bal[d] + outside[d] =
                IF deals[d].status \in {"Funded", "Filled"} THEN 1 ELSE 0
    /\ \A l \in LockIds :
          /\ minted[l] <=> locks[l].status # "Empty"
          /\ bal[l] + outside[l] =
                IF locks[l].status = "Empty" THEN 0
                ELSE (IF locks[l].proceeds_settled THEN 0 ELSE 1)
                     + (IF locks[l].collateral_released THEN 0 ELSE 1)
          /\ locks[l].status = "Closed" <=>
                locks[l].proceeds_settled /\ locks[l].collateral_released

\* An asset that reached the escrow outside a prepared funding window never
\* becomes the funding of an operation (test_funding_isolation.cairo): it stays
\* in the escrow on top of everything accounted.
StrayIsolated == \A t \in Assets : bal[t] >= accounted[t] + stray[t]

\* A lock is taken at most once, by the take of its own RFQ, and its books
\* show exactly that fill: INSUFFICIENT_LOCK can refuse no fill.
LockBooks ==
    \A l \in LockIds : locks[l].status # "Empty" =>
        LET fills == takes[locks[l].rfq_id].fills IN
        IF FillsLock(fills, l)
        THEN /\ locks[l].earned_a = FillOf(fills, l).amount_a
             /\ locks[l].remaining_b =
                   schedule_max_b(locks[l].points)
                     - evaluate_schedule(locks[l].points, locks[l].earned_a)
        ELSE /\ locks[l].earned_a = 0
             /\ locks[l].remaining_b = schedule_max_b(locks[l].points)

\* Every fill of every recorded take was signed, with the whole take and for
\* the identity that paid, by the key its lock names; a signature seen on
\* chain moves no other lock and serves no other payer.
TakeAuthorized ==
    \A r \in RfqIds : \A i \in 1 .. Len(takes[r].fills) :
        [key |-> locks[takes[r].fills[i].lock_id].taker_commitment,
         identity |-> payer[r], deal_id |-> r, token |-> takes[r].token_a,
         counter_token |-> takes[r].token_b, fills |-> takes[r].fills]
            \in signed
=============================================================================
