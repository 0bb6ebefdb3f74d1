---------------------------- MODULE EscrowProofs ----------------------------
(***************************************************************************)
(* Proofs about Escrow, for every value of its constants: custody first,   *)
(* then the books.                                                         *)
(***************************************************************************)
EXTENDS Escrow, SumProofs, TLAPS

\* Every deal and lock that was created names two different tokens and every
\* lock a schedule that assert_schedule accepted.
TermsValid ==
    /\ \A d \in DealIds : deals[d].status # "Empty" =>
          /\ deals[d].leg_a_token \in Tokens
          /\ deals[d].leg_b_token \in Tokens
          /\ deals[d].leg_a_token # deals[d].leg_b_token
    /\ \A l \in LockIds : locks[l].status # "Empty" =>
          /\ locks[l].token_a \in Tokens
          /\ locks[l].token_b \in Tokens
          /\ assert_schedule(locks[l].points)

TypeInv == TypeOK /\ TermsValid

-----------------------------------------------------------------------------
(* Schedules *)

\* A segment's value lies between the values at its ends (interpolate).
LEMMA InterpolateRange ==
    ASSUME NEW l \in Point, NEW r \in Point, NEW x \in Nat,
           l.a <= x, x <= r.a, l.a < r.a, l.b <= r.b
    PROVE  /\ interpolate(l, r, x) \in Nat
           /\ l.b <= interpolate(l, r, x)
           /\ interpolate(l, r, x) <= r.b
<1> DEFINE off == x - l.a  rise == r.b - l.b  width == r.a - l.a
<1>1. off \in Nat /\ rise \in Nat /\ width \in Nat /\ width > 0 /\ off <= width
    BY DEF Point
<1> HIDE DEF off, rise, width
<1>2. off * rise \in Nat /\ width * rise \in Nat /\ off * rise <= width * rise
    BY <1>1
<1>3. (off * rise) \div width \in Nat
    BY <1>1, <1>2
<1>4. (off * rise) \div width <= rise
    BY <1>1, <1>2
<1>5. QED
    BY <1>3, <1>4 DEF interpolate, off, rise, width, Point

\* On an accepted schedule every amount inside it is worth at least the first
\* point's value and at most the collateral schedule_max_b (evaluate_schedule).
LEMMA EvaluateRange ==
    ASSUME NEW s \in Seq(Point), assert_schedule(s),
           NEW x \in Nat, InSchedule(s, x)
    PROVE  /\ evaluate_schedule(s, x) \in Nat
           /\ evaluate_schedule(s, x) > 0
           /\ evaluate_schedule(s, x) <= schedule_max_b(s)
<1>0. Len(s) \in Nat /\ Len(s) >= 1 /\ Len(s) <= 4 /\ s[1].b > 0
    BY DEF assert_schedule
<1>1. Len(s) \in 1 .. 4 /\ s[1] \in Point /\ s[1].a \in Nat /\ s[1].b \in Nat
    <2>1. Len(s) \in 1 .. 4
        <3>1. PICK n \in Nat : n = Len(s)
            BY <1>0
        <3>2. QED
            BY <1>0, <3>1
    <2>2. s[1] \in Point
        BY <2>1
    <2>3. QED
        BY <2>1, <2>2 DEF Point
<1>a. ASSUME NEW i \in 2 .. Len(s)
      PROVE  /\ s[i] \in Point /\ s[i].a \in Nat /\ s[i].b \in Nat
             /\ s[i - 1].a < s[i].a /\ s[i - 1].b <= s[i].b
    <2>1. i \in 1 .. Len(s) /\ i - 1 \in 1 .. Len(s)
        BY <1>1
    <2>2. s[i] \in Point /\ s[i - 1] \in Point
        BY <1>1, <2>1
    <2>3. s[i].a > s[i - 1].a /\ s[i].b >= s[i - 1].b
        BY <1>1 DEF assert_schedule
    <2>4. QED
        BY <2>2, <2>3 DEF Point
<1>2. ASSUME Len(s) >= 2
      PROVE  /\ s[2] \in Point /\ s[2].a \in Nat /\ s[2].b \in Nat
             /\ s[1].a < s[2].a /\ s[1].b <= s[2].b
    <2>1. 2 \in 2 .. Len(s) /\ 2 - 1 = 1
        BY <1>1, <1>2
    <2>2. QED
        BY <2>1, <1>a
<1>3. ASSUME Len(s) >= 3
      PROVE  /\ s[3] \in Point /\ s[3].a \in Nat /\ s[3].b \in Nat
             /\ s[2].a < s[3].a /\ s[2].b <= s[3].b
    <2>1. 3 \in 2 .. Len(s) /\ 3 - 1 = 2
        BY <1>1, <1>3
    <2>2. QED
        BY <2>1, <1>a
<1>4. ASSUME Len(s) >= 4
      PROVE  /\ s[4] \in Point /\ s[4].a \in Nat /\ s[4].b \in Nat
             /\ s[3].a < s[4].a /\ s[3].b <= s[4].b
    <2>1. 4 \in 2 .. Len(s) /\ 4 - 1 = 3
        BY <1>1, <1>4
    <2>2. QED
        BY <2>1, <1>a
<1>5. CASE Len(s) = 1
    BY <1>0, <1>1, <1>5 DEF evaluate_schedule, schedule_max_b
<1>6. CASE Len(s) >= 2 /\ x <= s[2].a
    <2>1. interpolate(s[1], s[2], x) \in Nat
            /\ s[1].b <= interpolate(s[1], s[2], x)
            /\ interpolate(s[1], s[2], x) <= s[2].b
        BY <1>0, <1>1, <1>2, <1>6, InterpolateRange DEF InSchedule
    <2>2. s[2].b <= schedule_max_b(s)
        BY <1>0, <1>1, <1>2, <1>3, <1>4, <1>6 DEF schedule_max_b
    <2>3. QED
        BY <1>0, <1>1, <1>2, <1>3, <1>4, <1>6, <2>1, <2>2
           DEF evaluate_schedule, schedule_max_b
<1>7. CASE Len(s) >= 3 /\ x > s[2].a /\ x <= s[3].a
    <2>1. interpolate(s[2], s[3], x) \in Nat
            /\ s[2].b <= interpolate(s[2], s[3], x)
            /\ interpolate(s[2], s[3], x) <= s[3].b
        BY <1>0, <1>1, <1>2, <1>3, <1>7, InterpolateRange
    <2>2. s[3].b <= schedule_max_b(s)
        BY <1>0, <1>1, <1>3, <1>4, <1>7 DEF schedule_max_b
    <2>3. QED
        BY <1>0, <1>1, <1>2, <1>3, <1>4, <1>7, <2>1, <2>2
           DEF evaluate_schedule, schedule_max_b
<1>8. CASE Len(s) = 4 /\ x > s[2].a /\ x > s[3].a
    <2>1. interpolate(s[3], s[4], x) \in Nat
            /\ s[3].b <= interpolate(s[3], s[4], x)
            /\ interpolate(s[3], s[4], x) <= s[4].b
        BY <1>0, <1>1, <1>3, <1>4, <1>8, InterpolateRange DEF InSchedule
    <2>2. QED
        BY <1>0, <1>1, <1>2, <1>3, <1>4, <1>8, <2>1
           DEF evaluate_schedule, schedule_max_b
<1>9. QED
    BY <1>0, <1>1, <1>2, <1>3, <1>4, <1>5, <1>6, <1>7, <1>8 DEF InSchedule

\* What a maker must lock for an accepted schedule is a positive amount.
LEMMA ScheduleMaxNat ==
    ASSUME NEW s \in Seq(Point), assert_schedule(s)
    PROVE  schedule_max_b(s) \in Nat /\ schedule_max_b(s) > 0
<1>1. Len(s) \in Nat /\ Len(s) >= 1
    BY DEF assert_schedule
<1>2. s[Len(s)] \in Point
    BY <1>1
<1>3. s[Len(s)].b > 0
    <2>1. CASE Len(s) = 1
        BY <2>1 DEF assert_schedule
    <2>2. CASE Len(s) >= 2
        <3>1. Len(s) \in 2 .. Len(s)
            BY <1>1, <2>2
        <3>2. QED
            BY <3>1 DEF assert_schedule
    <2>3. Len(s) = 1 \/ Len(s) >= 2
        <3>1. PICK n \in Nat : n = Len(s)
            BY <1>1
        <3>2. QED
            BY <1>1, <3>1
    <2>4. QED
        BY <2>1, <2>2, <2>3
<1>4. QED
    BY <1>2, <1>3 DEF schedule_max_b, Point

-----------------------------------------------------------------------------
(* Types *)

\* Amounts and timestamps are natural numbers.
LEMMA Subranges == U128 \subseteq Nat /\ Times \subseteq Nat
    BY ConstantsAssumption DEF U128, Times

\* A freshly deployed escrow satisfies the type invariant.
LEMMA TypeInit == Init => TypeInv
<1> SUFFICES ASSUME Init PROVE TypeInv
    OBVIOUS
<1>1. deals \in [DealIds -> Deal] /\ \A d \in DealIds : deals[d].status = "Empty"
    BY DEF Init, EmptyDeal, Deal, DealStatus
<1>2. locks \in [LockIds -> Lock] /\ \A l \in LockIds : locks[l].status = "Empty"
    BY DEF Init, EmptyLock, Lock, LockStatus
<1>3. takes \in [RfqIds -> TakeRecord]
    BY DEF Init, NoTake, TakeRecord
<1>4. QED
    BY <1>1, <1>2, <1>3, ConstantsAssumption
       DEF Init, TypeInv, TypeOK, TermsValid, FundingSnapshot, NoSnapshot

\* The transaction's own steps and the direct calls on the escrow.
LEMMA TypeEnvironment ==
    ASSUME TypeInv
    PROVE  /\ NextTx => TypeInv'
           /\ \A t \in Tokens, n \in Nat : Withdraw(t, n) => TypeInv'
           /\ \A m \in Messages : SignTake(m) => TypeInv'
           /\ \A t \in Tokens : prepare_funding(t) => TypeInv'
           /\ \A d \in DealIds : ensure_ticket(d) => TypeInv'
           /\ \A l \in LockIds : ensure_lock_ticket(l) => TypeInv'
<1> USE DEF TypeInv, TypeOK, TermsValid, ticketVars, takeVars
<1>1. NextTx => TypeInv'
    BY DEF NextTx, NoSnapshot, FundingSnapshot
<1>2. ASSUME NEW t \in Tokens, NEW n \in Nat, Withdraw(t, n) PROVE TypeInv'
    BY <1>2 DEF Withdraw
<1>3. ASSUME NEW m \in Messages, SignTake(m) PROVE TypeInv'
    BY <1>3, ConstantsAssumption DEF SignTake
<1>4. ASSUME NEW t \in Tokens, prepare_funding(t) PROVE TypeInv'
    BY <1>4 DEF prepare_funding, FundingSnapshot
<1>5. ASSUME NEW d \in DealIds, ensure_ticket(d) PROVE TypeInv'
    BY <1>5 DEF ensure_ticket, Tickets
<1>6. ASSUME NEW l \in LockIds, ensure_lock_ticket(l) PROVE TypeInv'
    BY <1>6 DEF ensure_lock_ticket, Tickets
<1>7. QED
    BY <1>1, <1>2, <1>3, <1>4, <1>5, <1>6

\* The operations on deals.
LEMMA TypeDeals ==
    ASSUME TypeInv, NEW d \in DealIds
    PROVE  /\ \A t \in Tokens : \A p \in FundParams(t) :
                 fund(d, p) => TypeInv'
           /\ \A t \in Tokens : fill(d, t) => TypeInv'
           /\ claim(d) => TypeInv'
           /\ timeout(d) => TypeInv'
<1> USE DEF TypeInv, TypeOK, TermsValid, ticketVars, takeVars
<1>0. d \in Tickets /\ d \in Tokens /\ deals[d] \in Deal
    BY DEF Tickets, Tokens
<1>1. ASSUME NEW t \in Tokens, NEW p \in FundParams(t), fund(d, p)
      PROVE  TypeInv'
    <2>1. /\ p.token \in Tokens /\ p.counter_token \in Tokens
          /\ p.amount \in Nat /\ p.counter_amount \in Nat
          /\ p.deadline \in Nat
        BY ConstantsAssumption, Subranges DEF FundParams
    <2>2. deals' \in [DealIds -> Deal]
        BY <1>1, <2>1 DEF fund, Deal, DealStatus
    <2>3. accounted' \in [Tokens -> Nat] /\ snapshots' \in [Tokens -> FundingSnapshot]
        BY <1>1, <2>1 DEF fund, consume_funding, NoSnapshot, FundingSnapshot
    <2>4. bal' \in [Tokens -> Nat] /\ outside' \in [Tokens -> Nat]
            /\ minted' \in [Tickets -> BOOLEAN] /\ deployed' \subseteq Tickets
        BY <1>0, <1>1 DEF fund, MintTicket
    <2>5. TermsValid'
        BY <1>0, <1>1, <2>1 DEF fund
    <2>6. QED
        BY <1>1, <2>2, <2>3, <2>4, <2>5 DEF fund
<1>2. ASSUME NEW t \in Tokens, fill(d, t) PROVE TypeInv'
    <2>1. /\ t = deals[d].leg_b_token /\ deals[d].leg_b_terms \in Nat
          /\ deals[d].leg_a_amount \in Nat /\ deals[d].leg_a_token \in Tokens
          /\ t # deals[d].leg_a_token
        BY <1>0, <1>2 DEF fill, Deal
    <2>2. deals' \in [DealIds -> Deal]
        BY <1>0, <1>2 DEF fill, Deal, DealStatus
    <2>3. bal' \in [Tokens -> Nat] /\ accounted' \in [Tokens -> Nat]
            /\ outside' \in [Tokens -> Nat]
        BY <1>2, <2>1 DEF fill, Exchange
    <2>4. snapshots' \in [Tokens -> FundingSnapshot]
        BY <1>2 DEF fill, consume_funding, NoSnapshot, FundingSnapshot
    <2>5. TermsValid'
        BY <1>0, <1>2 DEF fill
    <2>6. QED
        BY <1>2, <2>2, <2>3, <2>4, <2>5 DEF fill
<1>3. ASSUME claim(d) PROVE TypeInv'
    <2>1. deals[d].leg_b_amount \in Nat /\ deals[d].leg_b_token \in Tokens
        BY <1>0, <1>3 DEF Deal, claim
    <2>2. deals' \in [DealIds -> Deal]
        BY <1>0, <1>3 DEF claim, Deal, DealStatus
    <2>3. bal' \in [Tokens -> Nat] /\ accounted' \in [Tokens -> Nat]
            /\ outside' \in [Tokens -> Nat]
        BY <1>0, <1>3, <2>1 DEF claim, consume_ticket, PayOut, Burnt
    <2>4. TermsValid'
        BY <1>0, <1>3 DEF claim
    <2>5. QED
        BY <1>3, <2>2, <2>3, <2>4 DEF claim
<1>4. ASSUME timeout(d) PROVE TypeInv'
    <2>1. deals[d].leg_a_amount \in Nat /\ deals[d].leg_a_token \in Tokens
        BY <1>0, <1>4 DEF Deal, timeout
    <2>2. deals' \in [DealIds -> Deal]
        BY <1>0, <1>4 DEF timeout, Deal, DealStatus
    <2>3. bal' \in [Tokens -> Nat] /\ accounted' \in [Tokens -> Nat]
            /\ outside' \in [Tokens -> Nat]
        BY <1>0, <1>4, <2>1 DEF timeout, consume_ticket, PayOut, Burnt
    <2>4. TermsValid'
        BY <1>0, <1>4 DEF timeout
    <2>5. QED
        BY <1>4, <2>2, <2>3, <2>4 DEF timeout
<1>5. QED
    BY <1>1, <1>2, <1>3, <1>4

\* The operations on locks.
LEMMA TypeLocks ==
    ASSUME TypeInv, NEW l \in LockIds
    PROVE  /\ \A t \in Tokens : \A p \in LockParams(t) :
                 lock(l, p) => TypeInv'
           /\ settle_proceeds(l) => TypeInv'
           /\ release_collateral(l) => TypeInv'
<1> USE DEF TypeInv, TypeOK, TermsValid, ticketVars, takeVars
<1>0. l \in Tickets /\ l \in Tokens /\ locks[l] \in Lock
    BY DEF Tickets, Tokens
<1>1. ASSUME NEW t \in Tokens, NEW p \in LockParams(t), lock(l, p)
      PROVE  TypeInv'
    <2>1. /\ p.token \in Tokens /\ p.counter_token \in Tokens
          /\ p.rfq_id \in RfqIds /\ p.taker_commitment \in Keys
          /\ p.expiry \in Nat /\ p.points \in Seq(Point)
        BY Subranges, ConstantsAssumption DEF LockParams
    <2>2. assert_schedule(p.points) /\ schedule_max_b(p.points) \in Nat
        BY <1>1, <2>1, ScheduleMaxNat DEF lock
    <2>3. locks' \in [LockIds -> Lock]
        BY <1>1, <2>1, <2>2 DEF lock, Lock, LockStatus
    <2>8. PICK max_b \in Nat : max_b = schedule_max_b(p.points)
        BY <2>2
    <2>9. accounted' = [accounted EXCEPT ![p.token] = @ + max_b]
        BY <1>1, <2>8 DEF lock
    <2>10. snapshots' = [snapshots EXCEPT ![p.token] = NoSnapshot]
        BY <1>1 DEF lock, consume_funding
    <2>4. accounted' \in [Tokens -> Nat] /\ snapshots' \in [Tokens -> FundingSnapshot]
        BY <2>1, <2>9, <2>10, SMTT(30) DEF NoSnapshot, FundingSnapshot
    <2>5. bal' \in [Tokens -> Nat] /\ outside' \in [Tokens -> Nat]
            /\ minted' \in [Tickets -> BOOLEAN] /\ deployed' \subseteq Tickets
        BY <1>0, <1>1 DEF lock, MintTicket
    <2>6. TermsValid'
        BY <1>0, <1>1, <2>1, <2>2 DEF lock
    <2>7. QED
        BY <1>1, <2>3, <2>4, <2>5, <2>6 DEF lock
<1>2. ASSUME settle_proceeds(l) PROVE TypeInv'
    <2>1. locks[l].earned_a \in Nat /\ locks[l].token_a \in Tokens
        BY <1>0, <1>2 DEF Lock, settle_proceeds
    <2>2. locks' \in [LockIds -> Lock]
        BY <1>0, <1>2 DEF settle_proceeds, Lock, LockStatus
    <2>3. bal' \in [Tokens -> Nat] /\ accounted' \in [Tokens -> Nat]
            /\ outside' \in [Tokens -> Nat]
        BY <1>0, <1>2, <2>1
           DEF settle_proceeds, consume_lock_ticket, SettleSide, PayOut, Burnt
    <2>4. TermsValid'
        BY <1>0, <1>2 DEF settle_proceeds
    <2>5. QED
        BY <1>2, <2>2, <2>3, <2>4 DEF settle_proceeds
<1>3. ASSUME release_collateral(l) PROVE TypeInv'
    <2>1. locks[l].remaining_b \in Nat /\ locks[l].token_b \in Tokens
        BY <1>0, <1>3 DEF Lock, release_collateral
    <2>2. locks' \in [LockIds -> Lock]
        BY <1>0, <1>3 DEF release_collateral, Lock, LockStatus
    <2>3. bal' \in [Tokens -> Nat] /\ accounted' \in [Tokens -> Nat]
            /\ outside' \in [Tokens -> Nat]
        BY <1>0, <1>3, <2>1
           DEF release_collateral, consume_lock_ticket, SettleSide, PayOut, Burnt
    <2>4. TermsValid'
        BY <1>0, <1>3 DEF release_collateral
    <2>5. QED
        BY <1>3, <2>2, <2>3, <2>4 DEF release_collateral
<1>4. QED
    BY <1>1, <1>2, <1>3

\* What a take does, with its sums replaced by two numbers.
TakeEffect(id, r, p, ta, tb) ==
    /\ consume_funding(p.token, ta)
    /\ Exchange(p.token, ta, p.counter_token, tb)
    /\ p.token # p.counter_token
    /\ takes' = [takes EXCEPT ![r] =
          [token_a |-> p.token, total_a |-> ta, token_b |-> p.counter_token,
           total_b |-> tb, fills |-> p.fills]]
    /\ payer' = [payer EXCEPT ![r] = id]

\* The totals a take moves (amounts in, proceeds out) are natural numbers.
LEMMA TakeSums ==
    ASSUME TypeInv, NEW m \in TakeMessage, NEW id \in Identities,
           NEW r \in RfqIds, take(id, r, TakeParams(m))
    PROVE  /\ \A i \in 1 .. Len(m.fills) :
                 m.fills[i] \in Fill /\ amount_b(m.fills[i]) \in Nat
           /\ \E ta, tb \in Nat : TakeEffect(id, r, TakeParams(m), ta, tb)
<1> DEFINE p == TakeParams(m)
           n == Len(p.fills)
           A(i) == p.fills[i].amount_a
           B(i) == amount_b(p.fills[i])
<1>0. n > 0 /\ n <= 4
    BY DEF take
<1>1. p.fills = m.fills /\ p.fills \in Seq(Fill) /\ n \in Nat
    BY DEF TakeParams, TakeMessage
<1>2. ASSUME NEW i \in 1 .. n
      PROVE  p.fills[i] \in Fill /\ A(i) \in Nat /\ B(i) \in Nat
    <2>1. p.fills[i] \in Fill
        BY <1>1
    <2>2. p.fills[i].lock_id \in LockIds /\ A(i) \in Nat
        BY <2>1 DEF Fill
    <2>3. Fillable(p.fills[i], r, p)
        BY DEF take
    <2> DEFINE lk == locks[p.fills[i].lock_id]
    <2>4. lk.points \in Seq(Point) /\ assert_schedule(lk.points)
            /\ InSchedule(lk.points, A(i))
        BY <2>2, <2>3 DEF Fillable, Lock, TypeInv, TypeOK, TermsValid
    <2>5. B(i) \in Nat
        BY <2>2, <2>4, EvaluateRange DEF amount_b
    <2>6. QED
        BY <2>1, <2>2, <2>5
<1>3. ASSUME NEW i \in Nat, i >= 1
      PROVE  SoldA(p.fills, i) \in Nat /\ BoughtB(p.fills, i) \in Nat
    <2>1. CASE i <= n
        <3>1. i \in 1 .. n
            BY <1>1, <1>3, <2>1
        <3>2. QED
            BY <1>2, <2>1, <3>1 DEF SoldA, BoughtB
    <2>2. CASE ~(i <= n)
        BY <2>2 DEF SoldA, BoughtB
    <2>3. QED
        BY <2>1, <2>2
<1>4. total_a(p.fills) \in Nat /\ total_b(p.fills) \in Nat
    <2>1. \A i \in {1, 2, 3, 4} : SoldA(p.fills, i) \in Nat /\ BoughtB(p.fills, i) \in Nat
        BY <1>3
    <2>2. QED
        BY <2>1 DEF total_a, total_b
<1>5. TakeEffect(id, r, p, total_a(p.fills), total_b(p.fills))
    BY DEF take, TakeEffect
<1>6. QED
    BY <1>1, <1>2, <1>4, <1>5

\* The take of signed locks keeps the type invariant (take).
LEMMA TypeTakes ==
    ASSUME TypeInv, NEW m \in TakeMessage, NEW id \in Identities,
           NEW r \in RfqIds, take(id, r, TakeParams(m))
    PROVE  TypeInv'
<1> USE DEF TypeInv, TypeOK, TermsValid, ticketVars
<1> DEFINE p == TakeParams(m)
<1>1. PICK ta \in Nat, tb \in Nat : TakeEffect(id, r, p, ta, tb)
    BY TakeSums
<1>2. p.token \in Tokens /\ p.counter_token \in Tokens /\ p.fills \in Seq(Fill)
        /\ p.fills = m.fills
    BY DEF TakeParams, TakeMessage
<1>3. /\ bal' \in [Tokens -> Nat] /\ accounted' \in [Tokens -> Nat]
      /\ outside' \in [Tokens -> Nat]
    <2>1. PICK t \in Tokens, u \in Tokens : t = p.token /\ u = p.counter_token
        BY <1>2
    <2>2. t # u /\ Exchange(t, ta, u, tb)
        BY <1>1, <2>1 DEF TakeEffect
    <2> HIDE DEF p
    <2>3. QED
        BY <2>2 DEF Exchange
<1>4. snapshots' \in [Tokens -> FundingSnapshot]
    BY <1>1 DEF TakeEffect, consume_funding, NoSnapshot, FundingSnapshot
<1>5. takes' \in [RfqIds -> TakeRecord] /\ payer' \in [RfqIds -> Identities \cup {Zero}]
    BY <1>1, <1>2 DEF TakeEffect, TakeRecord
<1>6. ASSUME NEW l \in LockIds
      PROVE  /\ locks'[l] \in Lock
             /\ locks'[l].status = locks[l].status
             /\ locks'[l].token_a = locks[l].token_a
             /\ locks'[l].token_b = locks[l].token_b
             /\ locks'[l].points = locks[l].points
    <2>1. CASE ~FillsLock(p.fills, l)
        <3>1. locks'[l] = locks[l]
            BY <2>1 DEF take
        <3>2. QED
            BY <3>1
    <2>2. CASE FillsLock(p.fills, l)
        <3>1. PICK i \in 1 .. Len(p.fills) :
                 FillOf(p.fills, l) = p.fills[i] /\ p.fills[i].lock_id = l
            BY <2>2 DEF FillsLock, FillOf
        <3>2. p.fills[i] \in Fill /\ amount_b(p.fills[i]) \in Nat
            BY <1>2, <3>1, TakeSums
        <3>3. Fillable(p.fills[i], r, p)
            BY DEF take
        <3> DEFINE lk == locks[l]
                   f == p.fills[i]
        <3>7. lk \in Lock /\ lk.remaining_b \in Nat /\ lk.earned_a \in Nat
                /\ f.amount_a \in Nat
            BY <3>2 DEF Fill, Lock
        <3>8. lk.remaining_b >= amount_b(f)
            BY <3>1, <3>3 DEF Fillable
        <3>4. /\ lk.remaining_b - amount_b(f) \in Nat
              /\ lk.earned_a + f.amount_a \in Nat
            BY <3>2, <3>7, <3>8, SMTT(30)
        <3>5. locks'[l] = [lk EXCEPT !.remaining_b = lk.remaining_b - amount_b(f),
                                     !.earned_a = lk.earned_a + f.amount_a]
            BY <2>2, <3>1 DEF take
        <3>6. QED
            BY <3>4, <3>5, <3>7 DEF Lock
    <2>3. QED
        BY <2>1, <2>2
<1>7. locks' \in [LockIds -> Lock]
    <2>1. DOMAIN locks' = LockIds
        BY DEF take
    <2>2. locks' = [l \in LockIds |-> locks'[l]]
        BY DEF take
    <2>3. QED
        BY <1>6, <2>2
<1>8. UNCHANGED <<now, ticketVars, deals, signed, stray>>
    BY DEF take
<1>9. TermsValid'
    BY <1>6, <1>8
<1>10. QED
    BY <1>3, <1>4, <1>5, <1>7, <1>8, <1>9

\* Every step of a transaction keeps the type invariant.
LEMMA TypeStep == TypeInv /\ [Next]_vars => TypeInv'
<1> SUFFICES ASSUME TypeInv, [Next]_vars PROVE TypeInv'
    OBVIOUS
<1>1. CASE NextTx
    BY <1>1, TypeEnvironment
<1>2. CASE \E t \in Tokens : prepare_funding(t)
    BY <1>2, TypeEnvironment
<1>3. CASE \E t \in Tokens, n \in 1 .. Supply + 1 : Withdraw(t, n)
    <2>1. 1 .. Supply + 1 \subseteq Nat
        BY ConstantsAssumption
    <2>2. QED
        BY <1>3, <2>1, TypeEnvironment
<1>4. CASE DealNext
    <2>1. Prepared \subseteq Tokens
        BY DEF Prepared
    <2>2. QED
        BY <1>4, <2>1, TypeEnvironment, TypeDeals DEF DealNext
<1>5. CASE LockNext
    <2>1. Prepared \subseteq Tokens
        BY DEF Prepared
    <2>2. QED
        BY <1>5, <2>1, TypeEnvironment, TypeLocks DEF LockNext
<1>6. CASE TakeNext
    <2>1. signed \subseteq TakeMessage
        BY DEF TypeInv, TypeOK
    <2>2. QED
        BY <1>6, <2>1, TypeEnvironment, TypeTakes DEF TakeNext
<1>7. CASE UNCHANGED vars
    BY <1>7 DEF vars, TypeInv, TypeOK, TermsValid
<1>8. QED
    BY ConstantsAssumption, <1>1, <1>2, <1>3, <1>4, <1>5, <1>6, <1>7 DEF Next

\* The inductive type invariant holds in every reachable state.
LEMMA TypeInvariant == Spec => []TypeInv
    BY TypeInit, TypeStep, PTL DEF Spec

\* In every reachable state of the escrow all storage slots, balances and
\* credits have their types: no subtraction of the contract goes below zero.
THEOREM TypeCorrect == Spec => []TypeOK
<1>1. TypeInv => TypeOK
    BY DEF TypeInv
<1>2. QED
    BY <1>1, TypeInvariant, PTL

-----------------------------------------------------------------------------
(* Custody *)

\* A live snapshot was taken when everything accounted was in the escrow, and
\* what it measures from then on comes on top of that and of the strays.
SnapshotCovers ==
    /\ \A t \in Tokens : snapshots[t].prepared =>
          snapshots[t].balance >= accounted[t]
    /\ \A t \in Assets : snapshots[t].prepared =>
          snapshots[t].balance >= accounted[t] + stray[t]

\* The part of the inductive invariant about balances and tickets.
CustodyInv == Solvent /\ SnapshotCovers /\ StrayIsolated /\ TicketSupply

Balances == Solvent /\ SnapshotCovers /\ StrayIsolated

\* A token is an asset or a ticket, never both.
LEMMA TokenKinds ==
    /\ Assets \subseteq Tokens /\ DealIds \subseteq Tickets
    /\ LockIds \subseteq Tickets /\ Tickets \subseteq Tokens
    /\ \A t \in Assets : t \notin DealIds /\ t \notin LockIds
    /\ \A d \in DealIds : d \notin LockIds /\ d \notin Assets
    /\ \A l \in LockIds : l \notin DealIds /\ l \notin Assets
    BY ConstantsAssumption DEF Tokens, Tickets

\* A freshly deployed escrow satisfies the custody invariant.
LEMMA CustodyInit == Init => CustodyInv
    BY TokenKinds DEF Init, CustodyInv, Solvent, SnapshotCovers, StrayIsolated,
       TicketSupply, NoSnapshot, EmptyDeal, EmptyLock

\* Withdrawals to the escrow, prepared snapshots and stray transfers keep custody.
LEMMA CustodyEnvironment ==
    ASSUME TypeInv, CustodyInv
    PROVE  /\ NextTx => CustodyInv'
           /\ \A t \in Tokens, n \in Nat : Withdraw(t, n) => CustodyInv'
           /\ \A m \in Messages : SignTake(m) => CustodyInv'
           /\ \A t \in Tokens : prepare_funding(t) => CustodyInv'
           /\ \A d \in DealIds : ensure_ticket(d) => CustodyInv'
           /\ \A l \in LockIds : ensure_lock_ticket(l) => CustodyInv'
<1> USE TokenKinds DEF TypeInv, TypeOK, CustodyInv, Solvent, SnapshotCovers,
        StrayIsolated, TicketSupply, ticketVars, takeVars
<1>1. NextTx => CustodyInv'
    BY DEF NextTx, NoSnapshot
<1>2. ASSUME NEW t \in Tokens, NEW n \in Nat, Withdraw(t, n) PROVE CustodyInv'
    <2>1. Solvent' /\ SnapshotCovers' /\ StrayIsolated'
        BY <1>2 DEF Withdraw
    <2>2. TicketSupply'
        BY <1>2 DEF Withdraw
    <2>3. QED
        BY <2>1, <2>2
<1>3. ASSUME NEW m \in Messages, SignTake(m) PROVE CustodyInv'
    BY <1>3 DEF SignTake
<1>4. ASSUME NEW t \in Tokens, prepare_funding(t) PROVE CustodyInv'
    BY <1>4 DEF prepare_funding
<1>5. ASSUME NEW d \in DealIds, ensure_ticket(d) PROVE CustodyInv'
    BY <1>5 DEF ensure_ticket
<1>6. ASSUME NEW l \in LockIds, ensure_lock_ticket(l) PROVE CustodyInv'
    BY <1>6 DEF ensure_lock_ticket
<1>7. QED
    BY <1>1, <1>2, <1>3, <1>4, <1>5, <1>6

\* A credit of what consume_funding measured keeps the books covered.
LEMMA FundedCredit ==
    ASSUME TypeInv, Balances, NEW t \in Tokens, NEW n \in Nat,
           consume_funding(t, n)
    PROVE  /\ bal[t] >= accounted[t] + n
           /\ t \in Assets => bal[t] >= accounted[t] + n + stray[t]
    BY DEF TypeInv, TypeOK, Balances, SnapshotCovers, consume_funding,
       FundingSnapshot

\* Paying n of u out of the balances left by burning one unit of ticket k that
\* was in excess keeps the books covered; only the supply of k changes.
LEMMA PaidBurn ==
    ASSUME TypeInv, TypeInv', Balances, NEW k \in Tickets,
           bal[k] - accounted[k] = 1, NEW u \in Tokens, NEW n \in Nat,
           PayOut(Burnt(k), u, n), UNCHANGED <<stray, snapshots>>
    PROVE  /\ Balances'
           /\ \A x \in Tokens : bal'[x] + outside'[x] =
                 IF x = k THEN bal[x] + outside[x] - 1 ELSE bal[x] + outside[x]
<1>0. k \in Tokens /\ k \notin Assets /\ Assets \subseteq Tokens
    BY TokenKinds, ConstantsAssumption
<1>1. \A x \in Tokens : /\ bal[x] \in Nat /\ accounted[x] \in Nat
                        /\ outside[x] \in Nat /\ snapshots[x].balance \in Nat
    BY DEF TypeInv, TypeOK, FundingSnapshot
<1>2. \A x \in Tokens :
         /\ accounted'[x] = IF x = u THEN accounted[x] - n ELSE accounted[x]
         /\ bal'[x] = (IF x = k THEN bal[x] - 1 ELSE bal[x])
                        - (IF x = u THEN n ELSE 0)
         /\ outside'[x] = IF x = u THEN outside[x] + n ELSE outside[x]
    BY <1>0, <1>1 DEF PayOut, Burnt, TypeInv, TypeOK
<1>3. \A x \in Tokens : accounted'[x] <= accounted[x]
    BY <1>1, <1>2
<1>4. Solvent'
    BY <1>0, <1>1, <1>2 DEF Balances, Solvent
<1>5. StrayIsolated'
    BY <1>0, <1>1, <1>2 DEF Balances, StrayIsolated, TypeInv, TypeOK
<1>6. SnapshotCovers'
    <2>1. \A x \in Tokens : accounted'[x] \in Nat
        BY DEF TypeInv, TypeOK
    <2>2. \A x \in Assets : stray[x] \in Nat
        BY DEF TypeInv, TypeOK
    <2>3. QED
        BY <1>0, <1>1, <1>3, <2>1, <2>2 DEF Balances, SnapshotCovers
<1>7. \A x \in Tokens : bal'[x] + outside'[x] =
         IF x = k THEN bal[x] + outside[x] - 1 ELSE bal[x] + outside[x]
    BY <1>1, <1>2
<1>8. QED
    BY <1>4, <1>5, <1>6, <1>7 DEF Balances

\* Exchanging measured funding n of t against k of u keeps the books covered
\* and the supply of every ticket.
LEMMA Exchanged ==
    ASSUME TypeInv, TypeInv', Balances, NEW t \in Tokens, NEW u \in Tokens,
           t # u, NEW n \in Nat, NEW k \in Nat, consume_funding(t, n),
           Exchange(t, n, u, k), UNCHANGED stray
    PROVE  /\ Balances'
           /\ \A x \in Tokens : bal'[x] + outside'[x] = bal[x] + outside[x]
<1>0. Assets \subseteq Tokens
    BY TokenKinds
<1>1. \A x \in Tokens : /\ bal[x] \in Nat /\ accounted[x] \in Nat
                        /\ outside[x] \in Nat /\ snapshots[x].balance \in Nat
    BY DEF TypeInv, TypeOK, FundingSnapshot
<1>2. \A x \in Tokens :
         /\ accounted'[x] = IF x = u THEN accounted[x] - k
                            ELSE IF x = t THEN accounted[x] + n ELSE accounted[x]
         /\ bal'[x] = IF x = u THEN bal[x] - k ELSE bal[x]
         /\ outside'[x] = IF x = u THEN outside[x] + k ELSE outside[x]
    BY <1>1 DEF Exchange, TypeInv, TypeOK
<1>3. /\ bal[t] >= accounted[t] + n
      /\ t \in Assets => bal[t] >= accounted[t] + n + stray[t]
    BY FundedCredit
<1>4. Solvent'
    BY <1>1, <1>2, <1>3 DEF Balances, Solvent
<1>5. StrayIsolated'
    BY <1>0, <1>1, <1>2, <1>3 DEF Balances, StrayIsolated, TypeInv, TypeOK
<1>6. SnapshotCovers'
    <2>1. \A x \in Tokens : snapshots'[x] = IF x = t THEN NoSnapshot ELSE snapshots[x]
        BY DEF consume_funding, TypeInv, TypeOK
    <2>2. \A x \in Tokens : x # t => accounted'[x] <= accounted[x]
        BY <1>1, <1>2
    <2>3. \A x \in Assets : stray[x] \in Nat
        BY DEF TypeInv, TypeOK
    <2>4. \A x \in Tokens : accounted'[x] \in Nat
        BY DEF TypeInv, TypeOK
    <2>5. QED
        BY <1>0, <1>1, <2>1, <2>2, <2>3, <2>4
           DEF Balances, SnapshotCovers, NoSnapshot
<1>7. \A x \in Tokens : bal'[x] + outside'[x] = bal[x] + outside[x]
    BY <1>1, <1>2
<1>8. QED
    BY <1>4, <1>5, <1>6, <1>7 DEF Balances

\* The ticket count of a deal that ends while its ticket is burnt.
LEMMA DealTicketStep ==
    ASSUME TypeInv, TicketSupply, NEW d \in DealIds, NEW end,
           end \in {"Settled", "TimedOut"}, UNCHANGED <<minted, locks>>,
           \A e \in DealIds : deals'[e].status =
                                IF e = d THEN end ELSE deals[e].status,
           deals[d].status \in {"Funded", "Filled"},
           \A x \in Tokens : bal'[x] + outside'[x] =
              IF x = d THEN bal[x] + outside[x] - 1 ELSE bal[x] + outside[x]
    PROVE  TicketSupply'
<1>1. ASSUME NEW e \in DealIds
      PROVE  /\ minted'[e] <=> deals'[e].status # "Empty"
             /\ bal'[e] + outside'[e] =
                  IF deals'[e].status \in {"Funded", "Filled"} THEN 1 ELSE 0
    <2>1. e \in Tokens
        BY TokenKinds
    <2>2. CASE e = d
        <3>1. bal[d] + outside[d] = 1 /\ minted[d]
            BY DEF TicketSupply
        <3>2. bal'[d] + outside'[d] = bal[d] + outside[d] - 1
            BY <2>1, <2>2
        <3>3. deals'[d].status = end
            OBVIOUS
        <3>6. bal[d] \in Nat /\ outside[d] \in Nat
            BY <2>1, <2>2 DEF TypeInv, TypeOK
        <3>4. bal'[d] + outside'[d] = 0
            BY <3>1, <3>2, <3>6
        <3>5. QED
            BY <2>2, <3>1, <3>3, <3>4
    <2>3. CASE e # d
        BY <2>1, <2>3 DEF TicketSupply
    <2>4. QED
        BY <2>2, <2>3
<1>2. \A l \in LockIds : bal'[l] + outside'[l] = bal[l] + outside[l]
    BY TokenKinds
<1>3. QED
    BY <1>1, <1>2 DEF TicketSupply

\* The operations on deals keep custody: what is owed stays covered by balances.
LEMMA CustodyDeals ==
    ASSUME TypeInv, TypeInv', CustodyInv, NEW d \in DealIds
    PROVE  /\ \A t \in Tokens : \A p \in FundParams(t) :
                 fund(d, p) => CustodyInv'
           /\ \A t \in Tokens : fill(d, t) => CustodyInv'
           /\ claim(d) => CustodyInv'
           /\ timeout(d) => CustodyInv'
<1> USE DEF TypeInv, TypeOK, CustodyInv, Solvent, SnapshotCovers,
        StrayIsolated, TicketSupply, ticketVars, takeVars
<1>0. d \in Tickets /\ d \in Tokens /\ d \notin LockIds /\ d \notin Assets
        /\ deals[d] \in Deal
    BY TokenKinds
<1>1. ASSUME NEW t \in Tokens, NEW p \in FundParams(t), fund(d, p)
      PROVE  CustodyInv'
    <2>1. p.token \in Tokens /\ p.amount \in Nat /\ p.amount > 0
        BY <1>1, Subranges DEF FundParams, fund
    <2>2. /\ bal[p.token] >= accounted[p.token] + p.amount
          /\ p.token \in Assets =>
               bal[p.token] >= accounted[p.token] + p.amount + stray[p.token]
        BY <1>1, <2>1, FundedCredit DEF fund, Balances
    <2>3. bal[d] = 0 /\ outside[d] = 0 /\ accounted[d] = 0 /\ p.token # d
        BY <1>0, <1>1, <2>1, <2>2 DEF fund
    <2>4. Solvent' /\ SnapshotCovers' /\ StrayIsolated'
        BY <1>0, <1>1, <2>1, <2>2, <2>3, TokenKinds
           DEF fund, consume_funding, MintTicket, NoSnapshot
    <2>5. TicketSupply'
        BY <1>0, <1>1, <2>3, TokenKinds DEF fund, MintTicket
    <2>6. QED
        BY <2>4, <2>5
<1>2. ASSUME NEW t \in Tokens, fill(d, t) PROVE CustodyInv'
    <2>1. PICK u \in Tokens : u = deals[d].leg_a_token /\ u # t
        BY <1>0, <1>2 DEF fill, TermsValid
    <2>2. PICK n \in Nat, k \in Nat :
             n = deals[d].leg_b_terms /\ k = deals[d].leg_a_amount
        BY <1>0 DEF Deal
    <2>3. consume_funding(t, n) /\ Exchange(t, n, u, k)
        BY <1>2, <2>1, <2>2 DEF fill
    <2>5. UNCHANGED <<minted, stray>>
        BY <1>2 DEF fill
    <2>6. /\ Balances'
          /\ \A x \in Tokens : bal'[x] + outside'[x] = bal[x] + outside[x]
        BY <2>1, <2>2, <2>3, <2>5, Exchanged DEF Balances
    <2>7. TicketSupply'
        <3>2. \A e \in DealIds : deals'[e].status =
                 IF e = d THEN "Filled" ELSE deals[e].status
            BY <1>0, <1>2 DEF fill
        <3>3. deals[d].status = "Funded" /\ UNCHANGED locks
            BY <1>2 DEF fill
        <3>4. QED
            BY <2>5, <2>6, <3>2, <3>3, TokenKinds
    <2>8. QED
        BY <2>6, <2>7 DEF Balances
<1>3. ASSUME claim(d) PROVE CustodyInv'
    <2>1. PICK u \in Tokens : u = deals[d].leg_b_token
        BY <1>0, <1>3 DEF claim, TermsValid
    <2>2. PICK n \in Nat : n = deals[d].leg_b_amount
        BY <1>0 DEF Deal
    <2>3. consume_ticket(d) /\ PayOut(Burnt(d), u, n)
        BY <1>3, <2>1, <2>2 DEF claim
    <2>4. UNCHANGED <<minted, stray, snapshots, locks>>
        BY <1>3 DEF claim
    <2>5. /\ Balances'
          /\ \A x \in Tokens : bal'[x] + outside'[x] =
                IF x = d THEN bal[x] + outside[x] - 1 ELSE bal[x] + outside[x]
        BY <1>0, <2>1, <2>2, <2>3, <2>4, PaidBurn DEF Balances, consume_ticket
    <2>6. TicketSupply'
        <3>2. \A e \in DealIds : deals'[e].status =
                 IF e = d THEN "Settled" ELSE deals[e].status
            BY <1>0, <1>3 DEF claim
        <3>3. deals[d].status = "Filled"
            BY <1>3 DEF claim
        <3>4. bal[d] + outside[d] = 1
            BY <3>3
        <3>5. QED
            BY <2>4, <2>5, <3>2, <3>3, <3>4, DealTicketStep
    <2>7. QED
        BY <2>5, <2>6 DEF Balances
<1>4. ASSUME timeout(d) PROVE CustodyInv'
    <2>1. PICK u \in Tokens : u = deals[d].leg_a_token
        BY <1>0, <1>4 DEF timeout, TermsValid
    <2>2. PICK n \in Nat : n = deals[d].leg_a_amount
        BY <1>0 DEF Deal
    <2>3. consume_ticket(d) /\ PayOut(Burnt(d), u, n)
        BY <1>4, <2>1, <2>2 DEF timeout
    <2>4. UNCHANGED <<minted, stray, snapshots, locks>>
        BY <1>4 DEF timeout
    <2>5. /\ Balances'
          /\ \A x \in Tokens : bal'[x] + outside'[x] =
                IF x = d THEN bal[x] + outside[x] - 1 ELSE bal[x] + outside[x]
        BY <1>0, <2>1, <2>2, <2>3, <2>4, PaidBurn DEF Balances, consume_ticket
    <2>6. TicketSupply'
        <3>2. \A e \in DealIds : deals'[e].status =
                 IF e = d THEN "TimedOut" ELSE deals[e].status
            BY <1>0, <1>4 DEF timeout
        <3>3. deals[d].status = "Funded"
            BY <1>4 DEF timeout
        <3>4. bal[d] + outside[d] = 1
            BY <3>3
        <3>5. QED
            BY <2>4, <2>5, <3>2, <3>3, <3>4, DealTicketStep
    <2>7. QED
        BY <2>5, <2>6 DEF Balances
<1>5. QED
    BY <1>1, <1>2, <1>3, <1>4

\* The ticket counts of a lock one of whose sides is settled while a unit of
\* its ticket is burnt.
LEMMA LockTicketStep ==
    ASSUME TypeInv, TicketSupply, NEW l \in LockIds,
           NEW ps \in BOOLEAN, NEW cr \in BOOLEAN,
           locks[l].status = "Open",
           \/ ~locks[l].proceeds_settled /\ ps /\ cr = locks[l].collateral_released
           \/ ~locks[l].collateral_released /\ cr /\ ps = locks[l].proceeds_settled,
           locks' = [locks EXCEPT ![l].proceeds_settled = ps,
                       ![l].collateral_released = cr,
                       ![l].status = IF ps /\ cr THEN "Closed" ELSE "Open"],
           UNCHANGED <<minted, deals>>,
           \A x \in Tokens : bal'[x] + outside'[x] =
              IF x = l THEN bal[x] + outside[x] - 1 ELSE bal[x] + outside[x]
    PROVE  TicketSupply'
<1>0. l \in Tokens /\ locks[l] \in Lock
    BY TokenKinds DEF TypeInv, TypeOK
<1>1. ASSUME NEW k \in LockIds
      PROVE  /\ minted'[k] <=> locks'[k].status # "Empty"
             /\ bal'[k] + outside'[k] =
                   IF locks'[k].status = "Empty" THEN 0
                   ELSE (IF locks'[k].proceeds_settled THEN 0 ELSE 1)
                        + (IF locks'[k].collateral_released THEN 0 ELSE 1)
             /\ locks'[k].status = "Closed" <=>
                  locks'[k].proceeds_settled /\ locks'[k].collateral_released
    <2>1. k \in Tokens
        BY TokenKinds
    <2>2. CASE k = l
        <3>1. /\ locks'[l].proceeds_settled = ps
              /\ locks'[l].collateral_released = cr
              /\ locks'[l].status = IF ps /\ cr THEN "Closed" ELSE "Open"
            BY <1>0 DEF Lock, TypeInv, TypeOK
        <3>2. /\ minted[l]
              /\ bal[l] + outside[l] =
                   (IF locks[l].proceeds_settled THEN 0 ELSE 1)
                     + (IF locks[l].collateral_released THEN 0 ELSE 1)
            BY DEF TicketSupply
        <3>3. bal'[l] + outside'[l] = bal[l] + outside[l] - 1
            BY <1>0
        <3>6. bal[l] \in Nat /\ outside[l] \in Nat
            BY <1>0 DEF TypeInv, TypeOK
        <3>4. bal'[l] + outside'[l] = (IF ps THEN 0 ELSE 1) + (IF cr THEN 0 ELSE 1)
            <4>1. CASE ~locks[l].proceeds_settled /\ ps /\ cr = locks[l].collateral_released
                BY <3>2, <3>3, <3>6, <4>1
            <4>2. CASE ~locks[l].collateral_released /\ cr /\ ps = locks[l].proceeds_settled
                BY <3>2, <3>3, <3>6, <4>2
            <4>3. QED
                BY <4>1, <4>2
        <3>5. QED
            BY <2>2, <3>1, <3>2, <3>4
    <2>3. CASE k # l
        <3>1. locks'[k] = locks[k] /\ bal'[k] + outside'[k] = bal[k] + outside[k]
            BY <2>1, <2>3 DEF TypeInv, TypeOK
        <3>2. QED
            BY <3>1 DEF TicketSupply
    <2>4. QED
        BY <2>2, <2>3
<1>2. \A d \in DealIds : bal'[d] + outside'[d] = bal[d] + outside[d]
    BY TokenKinds
<1>3. QED
    BY <1>1, <1>2 DEF TicketSupply

\* Burning alone, where a side has nothing to pay, is paying nothing.
LEMMA SettledSide ==
    ASSUME TypeInv, TypeInv', Balances, NEW l \in LockIds,
           bal[l] - accounted[l] = 1, NEW u \in Tokens, NEW n \in Nat,
           SettleSide(l, u, n), UNCHANGED <<stray, snapshots>>
    PROVE  /\ Balances'
           /\ \A x \in Tokens : bal'[x] + outside'[x] =
                 IF x = l THEN bal[x] + outside[x] - 1 ELSE bal[x] + outside[x]
<1>0. l \in Tickets /\ l \in Tokens
    BY TokenKinds
<1>1. CASE n > 0
    BY <1>0, <1>1, PaidBurn DEF SettleSide
<1>2. CASE n = 0
    <2>1. PayOut(Burnt(l), u, 0)
        <3>1. bal' = Burnt(l) /\ UNCHANGED <<accounted, outside>>
            BY <1>2 DEF SettleSide
        <3>2. Burnt(l)[u] >= accounted[u]
            BY <1>0 DEF Burnt, Balances, Solvent, TypeInv, TypeOK
        <3>3. /\ [accounted EXCEPT ![u] = accounted[u] - 0] = accounted
              /\ [outside EXCEPT ![u] = outside[u] + 0] = outside
              /\ [Burnt(l) EXCEPT ![u] = Burnt(l)[u] - 0] = Burnt(l)
            <4>1. \A f \in [Tokens -> Int] : /\ [f EXCEPT ![u] = f[u] - 0] = f
                                            /\ [f EXCEPT ![u] = f[u] + 0] = f
                OBVIOUS
            <4>2. accounted \in [Tokens -> Int] /\ outside \in [Tokens -> Int]
                    /\ Burnt(l) \in [Tokens -> Int]
                BY <1>0 DEF Burnt, TypeInv, TypeOK
            <4>3. QED
                BY <4>1, <4>2
        <3>4. accounted[u] >= 0
            BY DEF TypeInv, TypeOK
        <3>5. QED
            BY <3>1, <3>2, <3>3, <3>4 DEF PayOut
    <2>2. QED
        BY <1>0, <2>1, PaidBurn
<1>3. QED
    BY <1>1, <1>2

\* The operations on locks keep custody.
LEMMA CustodyLocks ==
    ASSUME TypeInv, TypeInv', CustodyInv, NEW l \in LockIds
    PROVE  /\ \A t \in Tokens : \A p \in LockParams(t) :
                 lock(l, p) => CustodyInv'
           /\ settle_proceeds(l) => CustodyInv'
           /\ release_collateral(l) => CustodyInv'
<1>0. /\ l \in Tickets /\ l \in Tokens /\ l \notin DealIds /\ l \notin Assets
      /\ locks[l] \in Lock
    BY TokenKinds DEF TypeInv, TypeOK
<1>1. ASSUME NEW t \in Tokens, NEW p \in LockParams(t), lock(l, p)
      PROVE  CustodyInv'
    <2> USE DEF TypeInv, TypeOK, CustodyInv, Solvent, SnapshotCovers,
            StrayIsolated, TicketSupply, ticketVars, takeVars
    <2>1. p.token \in Tokens /\ p.points \in Seq(Point)
        BY ConstantsAssumption DEF LockParams
    <2>2. schedule_max_b(p.points) \in Nat /\ schedule_max_b(p.points) > 0
        BY <1>1, <2>1, ScheduleMaxNat DEF lock
    <2>3. PICK n \in Nat : n = schedule_max_b(p.points) /\ n > 0
        BY <2>2
    <2>4. consume_funding(p.token, n)
        BY <1>1, <2>3 DEF lock
    <2>5. /\ bal[p.token] >= accounted[p.token] + n
          /\ p.token \in Assets =>
               bal[p.token] >= accounted[p.token] + n + stray[p.token]
        BY <2>1, <2>4, FundedCredit DEF Balances
    <2>6. bal[l] = 0 /\ outside[l] = 0 /\ accounted[l] = 0 /\ p.token # l
        <3>1. locks[l].status = "Empty"
            BY <1>1 DEF lock
        <3>2. bal[l] = 0 /\ outside[l] = 0 /\ accounted[l] = 0
            BY <1>0, <3>1
        <3>3. n > 0
            BY <2>3
        <3>4. ASSUME p.token = l PROVE FALSE
            <4>1. bal[l] >= accounted[l] + n
                BY <2>5, <3>4
            <4>2. QED
                BY <3>2, <3>3, <4>1
        <3>5. QED
            BY <3>2, <3>4
    <2>7. /\ accounted' = [accounted EXCEPT ![p.token] = @ + n]
          /\ MintTicket(l, 2) /\ UNCHANGED <<deals, stray>>
        BY <1>1, <2>3 DEF lock
    <2>8. Solvent' /\ SnapshotCovers' /\ StrayIsolated'
        BY <1>0, <2>1, <2>3, <2>4, <2>5, <2>6, <2>7, TokenKinds
           DEF consume_funding, MintTicket, NoSnapshot
    <2>9. TicketSupply'
        <3>1. \A k \in LockIds : k # l => locks'[k] = locks[k]
            BY <1>1 DEF lock
        <3>2. /\ locks'[l].status = "Open" /\ ~locks'[l].proceeds_settled
              /\ ~locks'[l].collateral_released
            BY <1>1 DEF lock
        <3>3. \A x \in Tokens : x # l => bal'[x] = bal[x] /\ outside'[x] = outside[x]
            BY <2>7 DEF MintTicket
        <3>4. bal'[l] = 0 /\ outside'[l] = 2 /\ minted'[l]
            BY <1>0, <2>6, <2>7 DEF MintTicket
        <3>5. \A k \in Tickets : k # l => minted'[k] = minted[k]
            BY <2>7 DEF MintTicket
        <3>6. QED
            BY <1>0, <2>7, <3>1, <3>2, <3>3, <3>4, <3>5, TokenKinds
    <2>10. QED
        BY <2>8, <2>9
<1>2. ASSUME settle_proceeds(l) PROVE CustodyInv'
    <2>1. PICK u \in Tokens : u = locks[l].token_a
        BY <1>2 DEF settle_proceeds, TypeInv, TermsValid
    <2>2. PICK n \in Nat : n = locks[l].earned_a
        BY <1>0 DEF Lock
    <2>3. /\ bal[l] - accounted[l] = 1 /\ SettleSide(l, u, n)
          /\ UNCHANGED <<stray, snapshots, minted, deals>>
        BY <1>2, <2>1, <2>2
           DEF settle_proceeds, consume_lock_ticket, ticketVars
    <2>4. /\ Balances'
          /\ \A x \in Tokens : bal'[x] + outside'[x] =
                IF x = l THEN bal[x] + outside[x] - 1 ELSE bal[x] + outside[x]
        BY <2>3, SettledSide DEF CustodyInv, Balances
    <2>5. PICK cr \in BOOLEAN : cr = locks[l].collateral_released
        BY <1>0 DEF Lock
    <2>6. /\ locks[l].status = "Open" /\ ~locks[l].proceeds_settled
          /\ locks' = [locks EXCEPT ![l].proceeds_settled = TRUE,
                       ![l].collateral_released = cr,
                       ![l].status = IF TRUE /\ cr THEN "Closed" ELSE "Open"]
        <3>1. [locks[l] EXCEPT !.proceeds_settled = TRUE,
                  !.status = IF cr THEN "Closed" ELSE "Open"]
              = [locks[l] EXCEPT !.proceeds_settled = TRUE, !.collateral_released = cr,
                  !.status = IF cr THEN "Closed" ELSE "Open"]
            BY <1>0, <2>5 DEF Lock
        <3>2. QED
            BY <1>2, <2>5, <3>1, ZenonT(40) DEF settle_proceeds
    <2>7. TicketSupply'
        BY <2>3, <2>4, <2>5, <2>6, LockTicketStep DEF CustodyInv
    <2>8. QED
        BY <2>4, <2>7 DEF CustodyInv, Balances
<1>3. ASSUME release_collateral(l) PROVE CustodyInv'
    <2>1. PICK u \in Tokens : u = locks[l].token_b
        BY <1>3 DEF release_collateral, TypeInv, TermsValid
    <2>2. PICK n \in Nat : n = locks[l].remaining_b
        BY <1>0 DEF Lock
    <2>3. /\ bal[l] - accounted[l] = 1 /\ SettleSide(l, u, n)
          /\ UNCHANGED <<stray, snapshots, minted, deals>>
        BY <1>3, <2>1, <2>2
           DEF release_collateral, consume_lock_ticket, ticketVars
    <2>4. /\ Balances'
          /\ \A x \in Tokens : bal'[x] + outside'[x] =
                IF x = l THEN bal[x] + outside[x] - 1 ELSE bal[x] + outside[x]
        BY <2>3, SettledSide DEF CustodyInv, Balances
    <2>5. PICK ps \in BOOLEAN : ps = locks[l].proceeds_settled
        BY <1>0 DEF Lock
    <2>6. /\ locks[l].status = "Open" /\ ~locks[l].collateral_released
          /\ locks' = [locks EXCEPT ![l].proceeds_settled = ps,
                       ![l].collateral_released = TRUE,
                       ![l].status = IF ps /\ TRUE THEN "Closed" ELSE "Open"]
        <3>1. [locks[l] EXCEPT !.collateral_released = TRUE,
                  !.status = IF ps THEN "Closed" ELSE "Open"]
              = [locks[l] EXCEPT !.proceeds_settled = ps, !.collateral_released = TRUE,
                  !.status = IF ps THEN "Closed" ELSE "Open"]
            BY <1>0, <2>5 DEF Lock
        <3>2. QED
            BY <1>3, <2>5, <3>1, ZenonT(40) DEF release_collateral
    <2>7. TicketSupply'
        BY <2>3, <2>4, <2>5, <2>6, LockTicketStep DEF CustodyInv
    <2>8. QED
        BY <2>4, <2>7 DEF CustodyInv, Balances
<1>4. QED
    BY <1>1, <1>2, <1>3

\* A take keeps custody: it moves between accounted sums what it moves in balances.
LEMMA CustodyTakes ==
    ASSUME TypeInv, TypeInv', CustodyInv, NEW m \in TakeMessage,
           NEW id \in Identities, NEW r \in RfqIds,
           take(id, r, TakeParams(m))
    PROVE  CustodyInv'
<1> DEFINE p == TakeParams(m)
<1>1. PICK ta \in Nat, tb \in Nat : TakeEffect(id, r, p, ta, tb)
    BY TakeSums
<1>2. p.token \in Tokens /\ p.counter_token \in Tokens
    BY DEF TakeParams, TakeMessage
<1>3. UNCHANGED <<minted, stray, deals>>
    BY DEF take, ticketVars
<1>4. /\ Balances'
      /\ \A x \in Tokens : bal'[x] + outside'[x] = bal[x] + outside[x]
    BY <1>1, <1>2, <1>3, Exchanged DEF TakeEffect, CustodyInv, Balances
<1>5. \A l \in LockIds :
         /\ locks'[l].status = locks[l].status
         /\ locks'[l].proceeds_settled = locks[l].proceeds_settled
         /\ locks'[l].collateral_released = locks[l].collateral_released
    <2> SUFFICES ASSUME NEW l \in LockIds
                 PROVE  /\ locks'[l].status = locks[l].status
                        /\ locks'[l].proceeds_settled = locks[l].proceeds_settled
                        /\ locks'[l].collateral_released = locks[l].collateral_released
        OBVIOUS
    <2>1. locks[l] \in Lock
        BY DEF TypeInv, TypeOK
    <2>2. locks'[l] = locks[l] \/ \E x, y : locks'[l] =
             [locks[l] EXCEPT !.remaining_b = x, !.earned_a = y]
        BY DEF take
    <2>3. QED
        BY <2>1, <2>2 DEF Lock
<1>6. TicketSupply'
    BY <1>3, <1>4, <1>5, TokenKinds DEF TicketSupply, CustodyInv
<1>7. QED
    BY <1>4, <1>6 DEF CustodyInv, Balances

\* Every step keeps custody.
LEMMA CustodyStep == TypeInv /\ TypeInv' /\ CustodyInv /\ [Next]_vars => CustodyInv'
<1> SUFFICES ASSUME TypeInv, TypeInv', CustodyInv, [Next]_vars
             PROVE  CustodyInv'
    OBVIOUS
<1>1. CASE NextTx
    BY <1>1, CustodyEnvironment
<1>2. CASE \E t \in Tokens : prepare_funding(t)
    BY <1>2, CustodyEnvironment
<1>3. CASE \E t \in Tokens, n \in 1 .. Supply + 1 : Withdraw(t, n)
    <2>1. 1 .. Supply + 1 \subseteq Nat
        BY ConstantsAssumption
    <2>2. QED
        BY <1>3, <2>1, CustodyEnvironment
<1>4. CASE DealNext
    <2>1. Prepared \subseteq Tokens
        BY DEF Prepared
    <2>2. QED
        BY <1>4, <2>1, CustodyEnvironment, CustodyDeals DEF DealNext
<1>5. CASE LockNext
    <2>1. Prepared \subseteq Tokens
        BY DEF Prepared
    <2>2. QED
        BY <1>5, <2>1, CustodyEnvironment, CustodyLocks DEF LockNext
<1>6. CASE TakeNext
    <2>1. signed \subseteq TakeMessage
        BY DEF TypeInv, TypeOK
    <2>2. QED
        BY <1>6, <2>1, CustodyEnvironment, CustodyTakes DEF TakeNext
<1>7. CASE UNCHANGED vars
    BY <1>7 DEF vars, CustodyInv, Solvent, SnapshotCovers, StrayIsolated,
       TicketSupply
<1>8. QED
    BY ConstantsAssumption, <1>1, <1>2, <1>3, <1>4, <1>5, <1>6, <1>7 DEF Next

\* The custody invariant holds in every reachable state.
LEMMA CustodyInvariant == Spec => []CustodyInv
<1>1. TypeInv /\ TypeInv' /\ CustodyInv /\ [Next]_vars => CustodyInv'
    BY CustodyStep
<1>2. QED
    BY <1>1, CustodyInit, TypeInvariant, PTL DEF Spec

\* The escrow holds everything it has accounted for, in every token, whatever
\* the tokens, ids, schedules, amounts and interleaving of calls.
THEOREM EscrowSolvent == Spec => []Solvent
<1>1. CustodyInv => Solvent
    BY DEF CustodyInv
<1>2. QED
    BY <1>1, CustodyInvariant, PTL

\* The redeemable units of every ticket are exactly the payouts still due.
THEOREM TicketsMatchPayouts == Spec => []TicketSupply
<1>1. CustodyInv => TicketSupply
    BY DEF CustodyInv
<1>2. QED
    BY <1>1, CustodyInvariant, PTL

\* No operation is ever funded from an asset that strayed into the escrow.
THEOREM StraysNeverFund == Spec => []StrayIsolated
<1>1. CustodyInv => StrayIsolated
    BY DEF CustodyInv
<1>2. QED
    BY <1>1, CustodyInvariant, PTL

-----------------------------------------------------------------------------
(* The books: what a lock has earned and has left, who authorized a take,  *)
(* and what the escrow owes in each token.                                 *)

(* A lock exists under an RFQ, and is settled only after its expiry. *)
LocksDated ==
    \A l \in LockIds : locks[l].status # "Empty" =>
        /\ locks[l].rfq_id \in RfqIds
        /\ locks[l].proceeds_settled \/ locks[l].collateral_released =>
              Expired(locks[l].expiry)

(* A recorded take fills locks that exist and belong to its RFQ. *)
FillsKnown ==
    \A r \in RfqIds : \A i \in 1 .. Len(takes[r].fills) :
        /\ locks[takes[r].fills[i].lock_id].status # "Empty"
        /\ locks[takes[r].fills[i].lock_id].rfq_id = r

BooksInv == LocksDated /\ FillsKnown /\ LockBooks /\ TakeAuthorized

LEMMA BooksInit == Init => BooksInv
    BY DEF Init, BooksInv, LocksDated, FillsKnown, LockBooks, TakeAuthorized,
           EmptyLock, NoTake

(* The locks a recorded take names are locks. *)
LEMMA FillTyped ==
    ASSUME TypeOK, NEW r \in RfqIds
    PROVE  /\ takes[r].fills \in Seq(Fill)
           /\ Len(takes[r].fills) \in Nat
           /\ \A i \in 1 .. Len(takes[r].fills) : takes[r].fills[i].lock_id \in LockIds
<1>1. takes[r].fills \in Seq(Fill)
    BY DEF TypeOK, TakeRecord
<1>2. \A i \in 1 .. Len(takes[r].fills) : takes[r].fills[i] \in Fill
    BY <1>1
<1> QED
    BY <1>1, <1>2 DEF Fill

(* A step that writes neither locks nor takes. *)
BooksKept ==
    /\ UNCHANGED <<locks, takes, payer>>
    /\ signed \subseteq signed'
    /\ now' >= now

LEMMA KeptBooks ==
    ASSUME TypeOK, TypeOK', BooksInv, BooksKept
    PROVE  BooksInv'
<1>1. now \in Nat /\ now' \in Nat
    BY DEF TypeOK
<1>2. LocksDated'
    <2>1. \A l \in LockIds : locks[l].expiry \in Nat
        BY DEF TypeOK, Lock
    <2> QED
        BY <1>1, <2>1 DEF BooksInv, LocksDated, BooksKept, Expired
<1>3. FillsKnown' /\ LockBooks'
    BY DEF BooksInv, FillsKnown, LockBooks, BooksKept
<1>4. TakeAuthorized'
    BY DEF BooksInv, TakeAuthorized, BooksKept
<1> QED
    BY <1>2, <1>3, <1>4 DEF BooksInv

(* A new lock is in no recorded take. *)
LEMMA LockedBooks ==
    ASSUME TypeOK, TypeOK', BooksInv, NEW l \in LockIds, NEW t \in Prepared,
           NEW p \in LockParams(t), lock(l, p)
    PROVE  BooksInv'
<1>1. /\ locks[l].status = "Empty"
      /\ UNCHANGED <<takes, payer, signed, now>>
      /\ \A k \in LockIds \ {l} : locks'[k] = locks[k]
    BY DEF lock, takeVars, TypeOK
<1>2. /\ locks'[l].status = "Open" /\ locks'[l].rfq_id = p.rfq_id
      /\ locks'[l].points = p.points /\ locks'[l].earned_a = 0
      /\ locks'[l].remaining_b = schedule_max_b(p.points)
      /\ ~locks'[l].proceeds_settled /\ ~locks'[l].collateral_released
    BY DEF lock, TypeOK
<1>3. p.rfq_id \in RfqIds
    BY DEF LockParams
<1>4. \A r \in RfqIds : \A i \in 1 .. Len(takes[r].fills) :
        /\ takes[r].fills[i].lock_id \in LockIds
        /\ takes[r].fills[i].lock_id # l
    BY <1>1, FillTyped DEF BooksInv, FillsKnown
<1>5. LocksDated'
    BY <1>1, <1>2, <1>3 DEF BooksInv, LocksDated, Expired
<1>6. FillsKnown'
    BY <1>1, <1>4 DEF BooksInv, FillsKnown
<1>7. LockBooks'
    <2> SUFFICES ASSUME NEW k \in LockIds, locks'[k].status # "Empty"
                 PROVE  LET fills == takes'[locks'[k].rfq_id].fills IN
                        IF FillsLock(fills, k)
                        THEN /\ locks'[k].earned_a = FillOf(fills, k).amount_a
                             /\ locks'[k].remaining_b =
                                   schedule_max_b(locks'[k].points)
                                     - evaluate_schedule(locks'[k].points, locks'[k].earned_a)
                        ELSE /\ locks'[k].earned_a = 0
                             /\ locks'[k].remaining_b = schedule_max_b(locks'[k].points)
        BY DEF LockBooks
    <2>1. CASE k = l
        <3>1. ~FillsLock(takes[p.rfq_id].fills, l)
            BY <1>3, <1>4 DEF FillsLock
        <3> QED
            BY <1>1, <1>2, <2>1, <3>1
    <2>2. CASE k # l
        BY <1>1, <2>2 DEF BooksInv, LockBooks
    <2> QED
        BY <2>1, <2>2
<1>8. TakeAuthorized'
    BY <1>1, <1>4 DEF BooksInv, TakeAuthorized
<1> QED
    BY <1>5, <1>6, <1>7, <1>8 DEF BooksInv

(* Settling a side writes neither the books of a lock nor its terms. *)
LEMMA SettledBooks ==
    ASSUME TypeOK, TypeOK', BooksInv, NEW l \in LockIds,
           settle_proceeds(l) \/ release_collateral(l)
    PROVE  BooksInv'
<1>1. /\ locks[l].status = "Open" /\ Expired(locks[l].expiry)
      /\ UNCHANGED <<takes, payer, signed, now>>
    BY DEF settle_proceeds, release_collateral, takeVars
<1>2. /\ \A k \in LockIds \ {l} : locks'[k] = locks[k]
      /\ locks'[l].rfq_id = locks[l].rfq_id /\ locks'[l].points = locks[l].points
      /\ locks'[l].earned_a = locks[l].earned_a
      /\ locks'[l].remaining_b = locks[l].remaining_b
      /\ locks'[l].expiry = locks[l].expiry
      /\ locks'[l].taker_commitment = locks[l].taker_commitment
      /\ locks'[l].status # "Empty"
    <2>1. locks \in [LockIds -> Lock] /\ locks[l] \in Lock
        BY DEF TypeOK
    <2>2. CASE settle_proceeds(l)
        <3>1. locks'[l] = [locks[l] EXCEPT !.proceeds_settled = TRUE,
                 !.status = IF locks[l].collateral_released THEN "Closed" ELSE "Open"]
            BY <1>1, <2>1, <2>2 DEF settle_proceeds
        <3> QED
            BY <2>1, <2>2, <3>1 DEF settle_proceeds, Lock
    <2>3. CASE release_collateral(l)
        <3>1. locks'[l] = [locks[l] EXCEPT !.collateral_released = TRUE,
                 !.status = IF locks[l].proceeds_settled THEN "Closed" ELSE "Open"]
            BY <1>1, <2>1, <2>3 DEF release_collateral
        <3> QED
            BY <2>1, <2>3, <3>1 DEF release_collateral, Lock
    <2> QED
        BY <2>2, <2>3
<1>3. LocksDated'
    BY <1>1, <1>2 DEF BooksInv, LocksDated, Expired
<1>4. FillsKnown' /\ TakeAuthorized'
    <2>1. \A r \in RfqIds : \A i \in 1 .. Len(takes[r].fills) :
            takes[r].fills[i].lock_id \in LockIds
        BY FillTyped
    <2> QED
        BY <1>1, <1>2, <2>1 DEF BooksInv, FillsKnown, TakeAuthorized
<1>5. LockBooks'
    BY <1>1, <1>2 DEF BooksInv, LockBooks
<1> QED
    BY <1>3, <1>4, <1>5 DEF BooksInv

(* What a take does to one lock, in terms of its fills. *)
LEMMA TakenLock ==
    ASSUME TypeInv, NEW m \in TakeMessage, NEW id \in Identities,
           NEW r \in RfqIds, take(id, r, TakeParams(m)), NEW l \in LockIds
    PROVE  /\ locks[l] \in Lock /\ locks'[l] \in Lock
           /\ locks'[l].status = locks[l].status
           /\ locks'[l].token_a = locks[l].token_a
           /\ locks'[l].token_b = locks[l].token_b
           /\ locks'[l].rfq_id = locks[l].rfq_id
           /\ locks'[l].taker_commitment = locks[l].taker_commitment
           /\ locks'[l].expiry = locks[l].expiry
           /\ locks'[l].points = locks[l].points
           /\ locks'[l].proceeds_settled = locks[l].proceeds_settled
           /\ locks'[l].collateral_released = locks[l].collateral_released
           /\ ~FillsLock(m.fills, l) => locks'[l] = locks[l]
           /\ \A i \in 1 .. Len(m.fills) : m.fills[i].lock_id = l =>
                 /\ locks'[l].earned_a = locks[l].earned_a + m.fills[i].amount_a
                 /\ locks'[l].remaining_b = locks[l].remaining_b - amount_b(m.fills[i])
                 /\ FillOf(m.fills, l) = m.fills[i]
<1> DEFINE p == TakeParams(m)
           f == FillOf(m.fills, l)
<1>1. p.fills = m.fills
    BY DEF TakeParams
<1>2. locks[l] \in Lock
    BY DEF TypeInv, TypeOK
<1>3. locks'[l] \in Lock
    BY TypeTakes DEF TypeInv, TypeOK
<1>4. CASE ~FillsLock(m.fills, l)
    <2>1. locks'[l] = locks[l]
        BY <1>1, <1>4 DEF take
    <2>2. \A i \in 1 .. Len(m.fills) : m.fills[i].lock_id # l
        BY <1>4 DEF FillsLock
    <2> QED
        BY <1>2, <1>3, <2>1, <2>2
<1>5. CASE FillsLock(m.fills, l)
    <2> DEFINE rem == locks[l].remaining_b - amount_b(f)
               got == locks[l].earned_a + f.amount_a
    <2>1. locks'[l] = [locks[l] EXCEPT !.remaining_b = rem, !.earned_a = got]
        BY <1>1, <1>5 DEF take
    <2>2. \A i \in 1 .. Len(m.fills) : m.fills[i].lock_id = l => f = m.fills[i]
        <3>1. \A i, j \in 1 .. Len(m.fills) :
                 m.fills[i].lock_id = m.fills[j].lock_id => i = j
            BY <1>1 DEF take, assert_distinct_fills
        <3> QED
            BY <1>5, <3>1 DEF FillsLock, FillOf
    <2> HIDE DEF rem, got
    <2>3. locks'[l].earned_a = got /\ locks'[l].remaining_b = rem
        BY <1>2, <2>1 DEF Lock
    <2>4. /\ locks'[l].status = locks[l].status
          /\ locks'[l].token_a = locks[l].token_a
          /\ locks'[l].token_b = locks[l].token_b
          /\ locks'[l].rfq_id = locks[l].rfq_id
          /\ locks'[l].taker_commitment = locks[l].taker_commitment
          /\ locks'[l].expiry = locks[l].expiry
          /\ locks'[l].points = locks[l].points
          /\ locks'[l].proceeds_settled = locks[l].proceeds_settled
          /\ locks'[l].collateral_released = locks[l].collateral_released
        BY <1>2, <2>1 DEF Lock
    <2> QED
        BY <1>2, <1>3, <1>5, <2>2, <2>3, <2>4 DEF rem, got
<1> QED
    BY <1>4, <1>5

(* A take finds every lock it fills untouched, so the books of that lock    *)
(* show this fill and no other afterwards (take).                           *)
LEMMA TakenBooks ==
    ASSUME TypeInv, BooksInv, NEW m \in TakeMessage, NEW id \in Identities,
           NEW r \in RfqIds, take(id, r, TakeParams(m))
    PROVE  BooksInv'
<1> DEFINE p == TakeParams(m)
<1>1. /\ p.fills = m.fills /\ p.token = m.token /\ p.counter_token = m.counter_token
      /\ m.fills \in Seq(Fill) /\ Len(m.fills) \in Nat
    BY DEF TakeParams, TakeMessage
<1>2. \A i \in 1 .. Len(m.fills) : m.fills[i] \in Fill /\ m.fills[i].lock_id \in LockIds
                                     /\ m.fills[i].amount_a \in Nat
    <2>1. \A i \in 1 .. Len(m.fills) : m.fills[i] \in Fill
        BY <1>1
    <2> QED
        BY <2>1 DEF Fill
<1>3. /\ takes'[r].fills = m.fills /\ takes'[r].token_a = m.token
      /\ takes'[r].token_b = m.counter_token /\ payer'[r] = id
      /\ \A s \in RfqIds \ {r} : takes'[s] = takes[s] /\ payer'[s] = payer[s]
      /\ UNCHANGED <<now, signed>>
      /\ Len(takes[r].fills) = 0
    BY <1>1 DEF take, TakeIsNew, TypeInv, TypeOK
<1>4. \A i \in 1 .. Len(m.fills) :
         /\ locks[m.fills[i].lock_id].status = "Open"
         /\ locks[m.fills[i].lock_id].rfq_id = r
    BY <1>1 DEF take, Fillable
<1>5. TypeOK
    BY DEF TypeInv
<1>6. LocksDated'
    BY <1>3, TakenLock DEF BooksInv, LocksDated, Expired
<1>7. FillsKnown'
    <2> SUFFICES ASSUME NEW s \in RfqIds, NEW i \in 1 .. Len(takes'[s].fills)
                 PROVE  /\ locks'[takes'[s].fills[i].lock_id].status # "Empty"
                        /\ locks'[takes'[s].fills[i].lock_id].rfq_id = s
        BY DEF FillsKnown
    <2>1. CASE s = r
        BY <1>2, <1>3, <1>4, <2>1, TakenLock
    <2>2. CASE s # r
        BY <1>3, <1>5, <2>2, FillTyped, TakenLock DEF BooksInv, FillsKnown
    <2> QED
        BY <2>1, <2>2
<1>8. LockBooks'
    <2> SUFFICES ASSUME NEW l \in LockIds, locks'[l].status # "Empty"
                 PROVE  LET fills == takes'[locks'[l].rfq_id].fills IN
                        IF FillsLock(fills, l)
                        THEN /\ locks'[l].earned_a = FillOf(fills, l).amount_a
                             /\ locks'[l].remaining_b =
                                   schedule_max_b(locks'[l].points)
                                     - evaluate_schedule(locks'[l].points, locks'[l].earned_a)
                        ELSE /\ locks'[l].earned_a = 0
                             /\ locks'[l].remaining_b = schedule_max_b(locks'[l].points)
        BY DEF LockBooks
    <2>1. /\ locks[l].status # "Empty" /\ locks'[l].rfq_id = locks[l].rfq_id
          /\ locks'[l].points = locks[l].points
          /\ locks[l].rfq_id \in RfqIds
        BY TakenLock DEF BooksInv, LocksDated
    <2>2. CASE locks[l].rfq_id = r
        <3>1. ~FillsLock(takes[r].fills, l)
            BY <1>3 DEF FillsLock
        <3>2. /\ locks[l].earned_a = 0
              /\ locks[l].remaining_b = schedule_max_b(locks[l].points)
            BY <2>1, <2>2, <3>1 DEF BooksInv, LockBooks
        <3>3. CASE FillsLock(m.fills, l)
            <4>1. PICK i \in 1 .. Len(m.fills) : m.fills[i].lock_id = l
                BY <3>3 DEF FillsLock
            <4>2. /\ locks'[l].earned_a = m.fills[i].amount_a
                  /\ locks'[l].remaining_b =
                        schedule_max_b(locks[l].points) - amount_b(m.fills[i])
                  /\ FillOf(m.fills, l) = m.fills[i]
                BY <1>2, <3>2, <4>1, TakenLock
            <4>3. amount_b(m.fills[i]) = evaluate_schedule(locks[l].points, m.fills[i].amount_a)
                BY <4>1 DEF amount_b
            <4> QED
                BY <1>3, <2>1, <2>2, <3>3, <4>2, <4>3
        <3>4. CASE ~FillsLock(m.fills, l)
            <4>1. locks'[l] = locks[l]
                BY <3>4, TakenLock
            <4> QED
                BY <1>3, <2>1, <2>2, <3>2, <3>4, <4>1
        <3> QED
            BY <3>3, <3>4
    <2>3. CASE locks[l].rfq_id # r
        <3>1. ~FillsLock(m.fills, l)
            BY <1>4, <2>3 DEF FillsLock
        <3>2. locks'[l] = locks[l]
            BY <3>1, TakenLock
        <3> QED
            BY <1>3, <2>1, <2>3, <3>2 DEF BooksInv, LockBooks
    <2> QED
        BY <2>2, <2>3
<1>9. TakeAuthorized'
    <2> SUFFICES ASSUME NEW s \in RfqIds, NEW i \in 1 .. Len(takes'[s].fills)
                 PROVE  [key |-> locks'[takes'[s].fills[i].lock_id].taker_commitment,
                         identity |-> payer'[s], deal_id |-> s,
                         token |-> takes'[s].token_a,
                         counter_token |-> takes'[s].token_b,
                         fills |-> takes'[s].fills] \in signed'
        BY DEF TakeAuthorized
    <2>1. CASE s = r
        <3> DEFINE key == locks[m.fills[1].lock_id].taker_commitment
        <3>1. /\ [key |-> key, identity |-> id, deal_id |-> r, token |-> m.token,
                  counter_token |-> m.counter_token, fills |-> m.fills] \in signed
              /\ \A j \in 1 .. Len(m.fills) :
                    locks[m.fills[j].lock_id].taker_commitment = key
            BY <1>1 DEF take, Authorized
        <3> HIDE DEF key
        <3>2. locks'[m.fills[i].lock_id].taker_commitment = key
            BY <1>2, <1>3, <2>1, <3>1, TakenLock
        <3> QED
            BY <1>3, <2>1, <3>1, <3>2
    <2>2. CASE s # r
        <3>1. i \in 1 .. Len(takes[s].fills) /\ takes[s].fills[i].lock_id \in LockIds
            BY <1>3, <1>5, <2>2, FillTyped
        <3>2. locks'[takes[s].fills[i].lock_id].taker_commitment
                = locks[takes[s].fills[i].lock_id].taker_commitment
            BY <3>1, TakenLock
        <3> QED
            BY <1>3, <2>2, <3>1, <3>2 DEF BooksInv, TakeAuthorized
    <2> QED
        BY <2>1, <2>2
<1> QED
    BY <1>6, <1>7, <1>8, <1>9 DEF BooksInv

LEMMA BooksStep == TypeInv /\ TypeInv' /\ BooksInv /\ [Next]_vars => BooksInv'
<1> SUFFICES ASSUME TypeInv, TypeInv', BooksInv, [Next]_vars
             PROVE  BooksInv'
    OBVIOUS
<1>0. TypeOK /\ TypeOK' /\ now \in Nat
    BY DEF TypeInv, TypeOK
<1>1. CASE NextTx
    BY <1>0, <1>1, KeptBooks DEF NextTx, BooksKept, takeVars
<1>2. CASE \E t \in Legs : prepare_funding(t)
    BY <1>0, <1>2, KeptBooks DEF prepare_funding, BooksKept, takeVars
<1>3. CASE \E t \in Tokens, n \in 1 .. Supply + 1 : Withdraw(t, n)
    BY <1>0, <1>3, KeptBooks DEF Withdraw, BooksKept, takeVars
<1>4. CASE DealNext
    <2>1. BooksKept
        BY <1>0, <1>4 DEF DealNext, ensure_ticket, fund, fill, claim, timeout,
           BooksKept, takeVars
    <2> QED
        BY <1>0, <2>1, KeptBooks
<1>5. CASE LockNext
    <2>1. ASSUME NEW l \in LockIds, ensure_lock_ticket(l) PROVE BooksInv'
        BY <1>0, <2>1, KeptBooks DEF ensure_lock_ticket, BooksKept, takeVars
    <2>2. ASSUME NEW l \in LockIds, NEW t \in Prepared, NEW p \in LockParams(t), lock(l, p)
          PROVE  BooksInv'
        BY <1>0, <2>2, LockedBooks
    <2>3. ASSUME NEW l \in LockIds, settle_proceeds(l) \/ release_collateral(l)
          PROVE  BooksInv'
        BY <1>0, <2>3, SettledBooks
    <2> QED
        BY <1>5, <2>1, <2>2, <2>3 DEF LockNext
<1>6. CASE TakeNext
    <2>1. ASSUME NEW m \in Messages, SignTake(m) PROVE BooksInv'
        BY <1>0, <2>1, KeptBooks DEF SignTake, BooksKept
    <2>2. ASSUME NEW m \in signed, NEW id \in Identities, NEW r \in RfqIds,
                 take(id, r, TakeParams(m))
          PROVE  BooksInv'
        <3>1. m \in TakeMessage
            BY <1>0 DEF TypeOK
        <3> QED
            BY <2>2, <3>1, TakenBooks
    <2> QED
        BY <1>6, <2>1, <2>2 DEF TakeNext
<1>7. CASE UNCHANGED vars
    BY <1>0, <1>7, KeptBooks DEF vars, BooksKept
<1> QED
    BY <1>1, <1>2, <1>3, <1>4, <1>5, <1>6, <1>7 DEF Next

LEMMA BooksInvariant == Spec => []BooksInv
<1>1. TypeInv /\ TypeInv' /\ BooksInv /\ [Next]_vars => BooksInv'
    BY BooksStep
<1> QED
    BY <1>1, BooksInit, TypeInvariant, PTL DEF Spec

(* A lock is taken at most once, by the take of its own RFQ, and its        *)
(* earnings and remaining collateral are exactly that fill's: the           *)
(* INSUFFICIENT_LOCK assertion of escrow.cairo never decides anything.      *)
THEOREM LocksFilledOnce == Spec => []LockBooks
<1>1. BooksInv => LockBooks
    BY DEF BooksInv
<1> QED
    BY <1>1, BooksInvariant, PTL

(* Every recorded fill was signed for the identity that paid by the key the *)
(* lock names, together with all other fills of the take.                   *)
THEOREM TakesAreAuthorized == Spec => []TakeAuthorized
<1>1. BooksInv => TakeAuthorized
    BY DEF BooksInv
<1> QED
    BY <1>1, BooksInvariant, PTL

-----------------------------------------------------------------------------
(* What the escrow owes *)

DealsOwe(t) == SumFunction([d \in DealIds |-> DealOwes(d, t)])

LocksOwe(t) == SumFunction([l \in LockIds |-> LockOwes(l, t)])

LEMMA OwedNat ==
    ASSUME TypeOK, NEW t \in Tokens
    PROVE  /\ \A d \in DealIds : DealOwes(d, t) \in Nat
           /\ \A l \in LockIds : LockOwes(l, t) \in Nat
           /\ DealsOwe(t) \in Nat
           /\ LocksOwe(t) \in Nat
<1>1. \A d \in DealIds : DealOwes(d, t) \in Nat
    <2>1. \A d \in DealIds : deals[d].leg_a_amount \in Nat /\ deals[d].leg_b_amount \in Nat
        BY DEF TypeOK, Deal
    <2> QED
        BY <2>1 DEF DealOwes
<1>2. \A l \in LockIds : LockOwes(l, t) \in Nat
    <2>1. \A l \in LockIds : locks[l].earned_a \in Nat /\ locks[l].remaining_b \in Nat
        BY DEF TypeOK, Lock
    <2> QED
        BY <2>1 DEF LockOwes
<1> DEFINE f == [d \in DealIds |-> DealOwes(d, t)]
           g == [l \in LockIds |-> LockOwes(l, t)]
<1>3. f \in [DealIds -> Nat] /\ g \in [LockIds -> Nat]
    BY <1>1, <1>2
<1>4. DealsOwe(t) = SumFunction(f) /\ LocksOwe(t) = SumFunction(g)
    BY DEF DealsOwe, LocksOwe
<1> HIDE DEF f, g
<1> QED
    BY <1>1, <1>2, <1>3, <1>4, SumNat, ConstantsAssumption

(* A step on one deal changes what deals are owed by what that deal is.     *)
LEMMA DealMoves ==
    ASSUME TypeOK, TypeOK', NEW d \in DealIds, NEW t \in Tokens,
           \A e \in DealIds \ {d} : deals'[e] = deals[e]
    PROVE  DealsOwe(t)' = DealsOwe(t) + (DealOwes(d, t)' - DealOwes(d, t))
<1> DEFINE f == [e \in DealIds |-> DealOwes(e, t)]
           g == [e \in DealIds |-> DealOwes(e, t)']
<1>1. f \in [DealIds -> Int] /\ g \in [DealIds -> Int]
    <2>1. \A e \in DealIds : DealOwes(e, t) \in Nat
        BY OwedNat
    <2>2. \A e \in DealIds : deals'[e].leg_a_amount \in Nat /\ deals'[e].leg_b_amount \in Nat
        BY DEF TypeOK, Deal
    <2>3. (\A e \in DealIds : DealOwes(e, t) \in Nat)'
        BY <2>2 DEF DealOwes
    <2> QED
        BY <2>1, <2>3
<1>2. /\ DealsOwe(t) = SumFunction(f) /\ DealsOwe(t)' = SumFunction(g)
      /\ f[d] = DealOwes(d, t) /\ g[d] = DealOwes(d, t)'
      /\ \A e \in DealIds \ {d} : g[e] = f[e]
    BY DEF DealsOwe, DealOwes
<1> HIDE DEF f, g
<1>3. SumFunction(g) = SumFunction(f) + (g[d] - f[d])
    BY <1>1, <1>2, SumPoint, ConstantsAssumption
<1> QED
    BY <1>2, <1>3

LEMMA LockMoves ==
    ASSUME TypeOK, TypeOK', NEW l \in LockIds, NEW t \in Tokens,
           \A k \in LockIds \ {l} : locks'[k] = locks[k]
    PROVE  LocksOwe(t)' = LocksOwe(t) + (LockOwes(l, t)' - LockOwes(l, t))
<1> DEFINE f == [k \in LockIds |-> LockOwes(k, t)]
           g == [k \in LockIds |-> LockOwes(k, t)']
<1>1. f \in [LockIds -> Int] /\ g \in [LockIds -> Int]
    <2>1. \A k \in LockIds : LockOwes(k, t) \in Nat
        BY OwedNat
    <2>2. \A k \in LockIds : locks'[k].earned_a \in Nat /\ locks'[k].remaining_b \in Nat
        BY DEF TypeOK, Lock
    <2>3. (\A k \in LockIds : LockOwes(k, t) \in Nat)'
        BY <2>2 DEF LockOwes
    <2> QED
        BY <2>1, <2>3
<1>2. /\ LocksOwe(t) = SumFunction(f) /\ LocksOwe(t)' = SumFunction(g)
      /\ f[l] = LockOwes(l, t) /\ g[l] = LockOwes(l, t)'
      /\ \A k \in LockIds \ {l} : g[k] = f[k]
    BY DEF LocksOwe, LockOwes
<1> HIDE DEF f, g
<1>3. SumFunction(g) = SumFunction(f) + (g[l] - f[l])
    BY <1>1, <1>2, SumPoint, ConstantsAssumption
<1> QED
    BY <1>2, <1>3

(* A lock that does not exist holds nothing. *)
EmptyOwesNothing ==
    \A l \in LockIds : locks[l].status = "Empty" =>
        locks[l].earned_a = 0 /\ locks[l].remaining_b = 0

OwedInv == EmptyOwesNothing /\ AccountedExact

Owed(t) == accounted[t] = DealsOwe(t) + LocksOwe(t)

LEMMA AccountedOwed == AccountedExact <=> \A t \in Tokens : Owed(t)
    BY DEF AccountedExact, Owed, DealsOwe, LocksOwe

LEMMA OwedInit == Init => OwedInv
<1> SUFFICES ASSUME Init PROVE OwedInv
    OBVIOUS
<1>1. EmptyOwesNothing
    BY DEF Init, EmptyOwesNothing, EmptyLock
<1>2. ASSUME NEW t \in Tokens PROVE Owed(t)
    <2> DEFINE f == [d \in DealIds |-> DealOwes(d, t)]
               g == [l \in LockIds |-> LockOwes(l, t)]
    <2>1. f \in [DealIds -> Int] /\ \A d \in DealIds : f[d] = 0
        BY DEF Init, DealOwes, EmptyDeal
    <2>2. g \in [LockIds -> Int] /\ \A l \in LockIds : g[l] = 0
        BY DEF Init, LockOwes, EmptyLock
    <2>3. DealsOwe(t) = SumFunction(f) /\ LocksOwe(t) = SumFunction(g)
        BY DEF DealsOwe, LocksOwe
    <2> HIDE DEF f, g
    <2>4. DealsOwe(t) = 0 /\ LocksOwe(t) = 0
        BY <2>1, <2>2, <2>3, SumZero, ConstantsAssumption
    <2> QED
        BY <2>4 DEF Init, Owed
<1> QED
    BY <1>1, <1>2, AccountedOwed DEF OwedInv

(* A step that moves no money and no terms. *)
LEMMA OwedKept ==
    ASSUME OwedInv, UNCHANGED <<accounted, deals, locks>>
    PROVE  OwedInv'
    BY DEF OwedInv, EmptyOwesNothing, AccountedExact, DealOwes, LockOwes

(* A step on one deal changes what is accounted by as much as what the deal *)
(* is owed.                                                                 *)
LEMMA OwedDeal ==
    ASSUME TypeOK, TypeOK', OwedInv, NEW d \in DealIds,
           \A e \in DealIds \ {d} : deals'[e] = deals[e],
           locks' = locks,
           \A t \in Tokens : accounted'[t] - accounted[t] = DealOwes(d, t)' - DealOwes(d, t)
    PROVE  OwedInv'
<1>1. EmptyOwesNothing'
    BY DEF OwedInv, EmptyOwesNothing
<1>2. ASSUME NEW t \in Tokens PROVE Owed(t)'
    <2>1. LocksOwe(t)' = LocksOwe(t)
        BY DEF LocksOwe, LockOwes
    <2>2. DealsOwe(t)' = DealsOwe(t) + (DealOwes(d, t)' - DealOwes(d, t))
        BY DealMoves
    <2>3. Owed(t)
        BY AccountedOwed DEF OwedInv
    <2>4. accounted[t] \in Nat /\ accounted'[t] \in Nat
        BY DEF TypeOK
    <2> QED
        BY <2>1, <2>2, <2>3, <2>4, OwedNat DEF Owed
<1> QED
    BY <1>1, <1>2 DEF OwedInv, AccountedExact, Owed, DealsOwe, LocksOwe

LEMMA OwedLock ==
    ASSUME TypeOK, TypeOK', OwedInv, NEW l \in LockIds,
           \A k \in LockIds \ {l} : locks'[k] = locks[k],
           locks'[l].status # "Empty",
           deals' = deals,
           \A t \in Tokens : accounted'[t] - accounted[t] = LockOwes(l, t)' - LockOwes(l, t)
    PROVE  OwedInv'
<1>1. EmptyOwesNothing'
    BY DEF OwedInv, EmptyOwesNothing
<1>2. ASSUME NEW t \in Tokens PROVE Owed(t)'
    <2>1. DealsOwe(t)' = DealsOwe(t)
        BY DEF DealsOwe, DealOwes
    <2>2. LocksOwe(t)' = LocksOwe(t) + (LockOwes(l, t)' - LockOwes(l, t))
        BY LockMoves
    <2>3. Owed(t)
        BY AccountedOwed DEF OwedInv
    <2>4. accounted[t] \in Nat /\ accounted'[t] \in Nat
        BY DEF TypeOK
    <2> QED
        BY <2>1, <2>2, <2>3, <2>4, OwedNat DEF Owed
<1> QED
    BY <1>1, <1>2 DEF OwedInv, AccountedExact, Owed, DealsOwe, LocksOwe

(* The operations on deals. *)
LEMMA OwedDeals ==
    ASSUME TypeInv, TypeInv', OwedInv, NEW d \in DealIds,
           \/ \E t \in Prepared : \E p \in FundParams(t) : fund(d, p)
           \/ \E t \in Prepared : fill(d, t)
           \/ claim(d)
           \/ timeout(d)
    PROVE  OwedInv'
<1>0. /\ TypeOK /\ TypeOK' /\ locks' = locks
      /\ deals[d] \in Deal /\ deals \in [DealIds -> Deal]
      /\ accounted \in [Tokens -> Nat] /\ bal \in [Tokens -> Nat]
    BY DEF TypeInv, TypeOK, fund, fill, claim, timeout
<1>1. /\ deals[d].leg_a_amount \in Nat /\ deals[d].leg_b_amount \in Nat
      /\ deals[d].leg_b_terms \in Nat
    BY <1>0 DEF Deal
<1>2. deals[d].status # "Empty" =>
         /\ deals[d].leg_a_token \in Tokens /\ deals[d].leg_b_token \in Tokens
         /\ deals[d].leg_a_token # deals[d].leg_b_token
    BY DEF TypeInv, TermsValid
<1> DEFINE Moved == \A u \in Tokens :
             accounted'[u] - accounted[u] = DealOwes(d, u)' - DealOwes(d, u)
<1>3. ASSUME NEW t \in Prepared, NEW p \in FundParams(t), fund(d, p)
      PROVE  Moved /\ \A e \in DealIds \ {d} : deals'[e] = deals[e]
    <2>1. p.token \in Tokens /\ p.amount \in Nat
        BY Subranges DEF FundParams, Prepared
    <2>2. /\ deals[d].status = "Empty"
          /\ deals'[d].leg_a_token = p.token /\ deals'[d].leg_a_amount = p.amount
          /\ deals'[d].status = "Funded"
          /\ \A e \in DealIds \ {d} : deals'[e] = deals[e]
          /\ accounted' = [accounted EXCEPT ![p.token] = @ + p.amount]
        BY <1>0, <1>3 DEF fund
    <2>3. ASSUME NEW u \in Tokens
          PROVE  accounted'[u] - accounted[u] = DealOwes(d, u)' - DealOwes(d, u)
        <3>1. DealOwes(d, u) = 0
            BY <2>2 DEF DealOwes
        <3>2. DealOwes(d, u)' = IF p.token = u THEN p.amount ELSE 0
            BY <2>1, <2>2 DEF DealOwes
        <3>3. accounted'[u] = IF p.token = u THEN accounted[u] + p.amount ELSE accounted[u]
            BY <1>0, <2>1, <2>2
        <3>4. accounted[u] \in Nat
            BY <1>0
        <3> QED
            BY <2>1, <3>1, <3>2, <3>3, <3>4
    <2> QED
        BY <2>2, <2>3
<1>4. ASSUME NEW t \in Prepared, fill(d, t)
      PROVE  Moved /\ \A e \in DealIds \ {d} : deals'[e] = deals[e]
    <2> DEFINE a == deals[d].leg_a_token
               b == deals[d].leg_b_token
               x == deals[d].leg_a_amount
               y == deals[d].leg_b_terms
    <2>1. deals[d].status = "Funded" /\ t = b /\ Exchange(b, y, a, x)
        BY <1>4 DEF fill
    <2>2. a \in Tokens /\ b \in Tokens /\ a # b /\ x \in Nat /\ y \in Nat
        BY <1>1, <1>2, <2>1
    <2>3. deals' = [deals EXCEPT ![d] = [deals[d] EXCEPT !.leg_b_amount = y, !.status = "Filled"]]
        BY <1>0, <1>4 DEF fill
    <2>4. /\ deals'[d].status = "Filled" /\ deals'[d].leg_b_amount = y
          /\ deals'[d].leg_b_token = b
          /\ \A e \in DealIds \ {d} : deals'[e] = deals[e]
        BY <1>0, <2>3 DEF Deal
    <2>5. ASSUME NEW u \in Tokens
          PROVE  accounted'[u] - accounted[u] = DealOwes(d, u)' - DealOwes(d, u)
        <3>1. DealOwes(d, u) = IF a = u THEN x ELSE 0
            BY <2>1, <2>2 DEF DealOwes
        <3>2. DealOwes(d, u)' = IF b = u THEN y ELSE 0
            BY <2>2, <2>4 DEF DealOwes
        <3> HIDE DEF a, b, x, y
        <3>3. accounted'[u] = IF a = u THEN accounted[u] - x
                              ELSE IF b = u THEN accounted[u] + y ELSE accounted[u]
            BY <1>0, <2>1, <2>2 DEF Exchange
        <3>4. accounted[u] \in Nat
            BY <1>0
        <3> QED
            BY <2>2, <3>1, <3>2, <3>3, <3>4
    <2> QED
        BY <2>4, <2>5
<1>5. ASSUME claim(d)
      PROVE  Moved /\ \A e \in DealIds \ {d} : deals'[e] = deals[e]
    <2> DEFINE b == deals[d].leg_b_token
               y == deals[d].leg_b_amount
    <2>1. deals[d].status = "Filled" /\ accounted' = [accounted EXCEPT ![b] = @ - y]
        BY <1>5 DEF claim, PayOut
    <2>2. b \in Tokens /\ y \in Nat
        BY <1>1, <1>2, <2>1
    <2>3. /\ deals'[d].status = "Settled"
          /\ \A e \in DealIds \ {d} : deals'[e] = deals[e]
        BY <1>0, <1>5 DEF claim, Deal
    <2>4. ASSUME NEW u \in Tokens
          PROVE  accounted'[u] - accounted[u] = DealOwes(d, u)' - DealOwes(d, u)
        <3>1. DealOwes(d, u) = IF b = u THEN y ELSE 0
            BY <2>1, <2>2 DEF DealOwes
        <3>2. DealOwes(d, u)' = 0
            BY <2>3 DEF DealOwes
        <3> HIDE DEF b, y
        <3>3. accounted'[u] = IF b = u THEN accounted[u] - y ELSE accounted[u]
            BY <1>0, <2>1, <2>2
        <3>4. accounted[u] \in Nat
            BY <1>0
        <3> QED
            BY <2>2, <3>1, <3>2, <3>3, <3>4
    <2> QED
        BY <2>3, <2>4
<1>6. ASSUME timeout(d)
      PROVE  Moved /\ \A e \in DealIds \ {d} : deals'[e] = deals[e]
    <2> DEFINE a == deals[d].leg_a_token
               x == deals[d].leg_a_amount
    <2>1. deals[d].status = "Funded" /\ accounted' = [accounted EXCEPT ![a] = @ - x]
        BY <1>6 DEF timeout, PayOut
    <2>2. a \in Tokens /\ x \in Nat
        BY <1>1, <1>2, <2>1
    <2>3. /\ deals'[d].status = "TimedOut"
          /\ \A e \in DealIds \ {d} : deals'[e] = deals[e]
        BY <1>0, <1>6 DEF timeout, Deal
    <2>4. ASSUME NEW u \in Tokens
          PROVE  accounted'[u] - accounted[u] = DealOwes(d, u)' - DealOwes(d, u)
        <3>1. DealOwes(d, u) = IF a = u THEN x ELSE 0
            BY <2>1, <2>2 DEF DealOwes
        <3>2. DealOwes(d, u)' = 0
            BY <2>3 DEF DealOwes
        <3> HIDE DEF a, x
        <3>3. accounted'[u] = IF a = u THEN accounted[u] - x ELSE accounted[u]
            BY <1>0, <2>1, <2>2
        <3>4. accounted[u] \in Nat
            BY <1>0
        <3> QED
            BY <2>2, <3>1, <3>2, <3>3, <3>4
    <2> QED
        BY <2>3, <2>4
<1>7. Moved /\ \A e \in DealIds \ {d} : deals'[e] = deals[e]
    <2> HIDE DEF Moved
    <2> QED
        BY <1>3, <1>4, <1>5, <1>6
<1> QED
    BY <1>0, <1>7, OwedDeal

(* The operations on locks. *)
LEMMA OwedLocks ==
    ASSUME TypeInv, TypeInv', OwedInv, NEW l \in LockIds,
           \/ \E t \in Prepared : \E p \in LockParams(t) : lock(l, p)
           \/ settle_proceeds(l)
           \/ release_collateral(l)
    PROVE  OwedInv'
<1>0. /\ TypeOK /\ TypeOK' /\ deals' = deals
      /\ locks[l] \in Lock /\ locks \in [LockIds -> Lock]
      /\ accounted \in [Tokens -> Nat]
    BY DEF TypeInv, TypeOK, lock, settle_proceeds, release_collateral
<1>1. locks[l].earned_a \in Nat /\ locks[l].remaining_b \in Nat
    BY <1>0 DEF Lock
<1>2. locks[l].status # "Empty" => locks[l].token_a \in Tokens /\ locks[l].token_b \in Tokens
    BY DEF TypeInv, TermsValid
<1> DEFINE Moved == /\ \A u \in Tokens :
                          accounted'[u] - accounted[u] = LockOwes(l, u)' - LockOwes(l, u)
                    /\ \A k \in LockIds \ {l} : locks'[k] = locks[k]
                    /\ locks'[l].status # "Empty"
<1>3. ASSUME NEW t \in Prepared, NEW p \in LockParams(t), lock(l, p)
      PROVE  Moved
    <2> DEFINE x == schedule_max_b(p.points)
    <2>1. p.token \in Tokens /\ x \in Nat
        <3>1. p.token \in Tokens /\ p.points \in Seq(Point)
            BY ConstantsAssumption DEF LockParams, Prepared
        <3>2. assert_schedule(p.points)
            BY <1>3 DEF lock
        <3> QED
            BY <3>1, <3>2, ScheduleMaxNat
    <2>2. /\ locks[l].status = "Empty" /\ p.token # p.counter_token
          /\ locks'[l].token_a = p.counter_token /\ locks'[l].token_b = p.token
          /\ locks'[l].remaining_b = x /\ locks'[l].earned_a = 0
          /\ ~locks'[l].collateral_released /\ locks'[l].status = "Open"
          /\ \A k \in LockIds \ {l} : locks'[k] = locks[k]
          /\ accounted' = [accounted EXCEPT ![p.token] = @ + x]
        BY <1>0, <1>3 DEF lock
    <2> HIDE DEF x
    <2>3. ASSUME NEW u \in Tokens
          PROVE  accounted'[u] - accounted[u] = LockOwes(l, u)' - LockOwes(l, u)
        <3>1. LockOwes(l, u) = 0
            BY <2>2 DEF LockOwes, OwedInv, EmptyOwesNothing
        <3>2. LockOwes(l, u)' = IF p.token = u THEN x ELSE 0
            BY <2>1, <2>2 DEF LockOwes
        <3>3. accounted'[u] = IF p.token = u THEN accounted[u] + x ELSE accounted[u]
            BY <1>0, <2>1, <2>2
        <3>4. accounted[u] \in Nat
            BY <1>0
        <3> QED
            BY <2>1, <3>1, <3>2, <3>3, <3>4
    <2> QED
        BY <2>2, <2>3
<1>4. ASSUME settle_proceeds(l)
      PROVE  Moved
    <2> DEFINE a == locks[l].token_a
               x == locks[l].earned_a
    <2>1. locks[l].status = "Open" /\ ~locks[l].proceeds_settled /\ SettleSide(l, a, x)
        BY <1>4 DEF settle_proceeds
    <2>2. a \in Tokens /\ x \in Nat
        BY <1>1, <1>2, <2>1
    <2>3. locks' = [locks EXCEPT ![l] = [locks[l] EXCEPT !.proceeds_settled = TRUE,
             !.status = IF locks[l].collateral_released THEN "Closed" ELSE "Open"]]
        BY <1>0, <1>4, <2>1 DEF settle_proceeds
    <2>4. /\ locks'[l].status # "Empty" /\ locks'[l].proceeds_settled
          /\ locks'[l].token_b = locks[l].token_b
          /\ locks'[l].collateral_released = locks[l].collateral_released
          /\ locks'[l].remaining_b = locks[l].remaining_b
          /\ \A k \in LockIds \ {l} : locks'[k] = locks[k]
        BY <1>0, <2>3 DEF Lock
    <2>5. ASSUME NEW u \in Tokens
          PROVE  accounted'[u] - accounted[u] = LockOwes(l, u)' - LockOwes(l, u)
        <3>1. LockOwes(l, u) - LockOwes(l, u)' = IF a = u THEN x ELSE 0
            BY <1>1, <2>1, <2>2, <2>4 DEF LockOwes
        <3>2. LockOwes(l, u) \in Nat /\ LockOwes(l, u)' \in Nat
            BY <1>1, <2>4 DEF LockOwes
        <3> HIDE DEF a, x
        <3>3. accounted'[u] = IF a = u THEN accounted[u] - x ELSE accounted[u]
            BY <1>0, <2>1, <2>2 DEF SettleSide, PayOut
        <3>4. accounted[u] \in Nat
            BY <1>0
        <3> QED
            BY <2>2, <3>1, <3>2, <3>3, <3>4
    <2> QED
        BY <2>4, <2>5
<1>5. ASSUME release_collateral(l)
      PROVE  Moved
    <2> DEFINE b == locks[l].token_b
               y == locks[l].remaining_b
    <2>1. locks[l].status = "Open" /\ ~locks[l].collateral_released /\ SettleSide(l, b, y)
        BY <1>5 DEF release_collateral
    <2>2. b \in Tokens /\ y \in Nat
        BY <1>1, <1>2, <2>1
    <2>3. locks' = [locks EXCEPT ![l] = [locks[l] EXCEPT !.collateral_released = TRUE,
             !.status = IF locks[l].proceeds_settled THEN "Closed" ELSE "Open"]]
        BY <1>0, <1>5, <2>1 DEF release_collateral
    <2>4. /\ locks'[l].status # "Empty" /\ locks'[l].collateral_released
          /\ locks'[l].token_a = locks[l].token_a
          /\ locks'[l].proceeds_settled = locks[l].proceeds_settled
          /\ locks'[l].earned_a = locks[l].earned_a
          /\ \A k \in LockIds \ {l} : locks'[k] = locks[k]
        BY <1>0, <2>3 DEF Lock
    <2>5. ASSUME NEW u \in Tokens
          PROVE  accounted'[u] - accounted[u] = LockOwes(l, u)' - LockOwes(l, u)
        <3>1. LockOwes(l, u) - LockOwes(l, u)' = IF b = u THEN y ELSE 0
            BY <1>1, <2>1, <2>2, <2>4 DEF LockOwes
        <3>2. LockOwes(l, u) \in Nat /\ LockOwes(l, u)' \in Nat
            BY <1>1, <2>4 DEF LockOwes
        <3> HIDE DEF b, y
        <3>3. accounted'[u] = IF b = u THEN accounted[u] - y ELSE accounted[u]
            BY <1>0, <2>1, <2>2 DEF SettleSide, PayOut
        <3>4. accounted[u] \in Nat
            BY <1>0
        <3> QED
            BY <2>2, <3>1, <3>2, <3>3, <3>4
    <2> QED
        BY <2>4, <2>5
<1>6. Moved
    <2> HIDE DEF Moved
    <2> QED
        BY <1>3, <1>4, <1>5
<1> QED
    BY <1>0, <1>6, OwedLock

(* What one fill of a take changes of what its lock is owed: the taker's    *)
(* payment comes in and the collateral it buys goes out.                    *)
LEMMA OwedFill ==
    ASSUME TypeInv, BooksInv, NEW m \in TakeMessage, NEW id \in Identities,
           NEW r \in RfqIds, take(id, r, TakeParams(m)), NEW u \in Tokens,
           NEW i \in 1 .. Len(m.fills)
    PROVE  /\ m.fills[i].lock_id \in LockIds
           /\ m.fills[i].amount_a \in Nat /\ amount_b(m.fills[i]) \in Nat
           /\ LockOwes(m.fills[i].lock_id, u)' - LockOwes(m.fills[i].lock_id, u) =
                (IF m.token = u THEN m.fills[i].amount_a ELSE 0)
                - (IF m.counter_token = u THEN amount_b(m.fills[i]) ELSE 0)
<1> DEFINE l == m.fills[i].lock_id
           x == m.fills[i].amount_a
           y == amount_b(m.fills[i])
<1>1. m.fills[i] \in Fill /\ y \in Nat
    BY TakeSums
<1>2. l \in LockIds /\ x \in Nat
    BY <1>1 DEF Fill
<1>3. Fillable(m.fills[i], r, TakeParams(m))
    BY DEF take, TakeParams
<1>4. /\ locks[l].status = "Open" /\ ~Expired(locks[l].expiry)
      /\ locks[l].token_a = m.token /\ locks[l].token_b = m.counter_token
    BY <1>3 DEF Fillable, TakeParams
<1>5. ~locks[l].proceeds_settled /\ ~locks[l].collateral_released
    BY <1>2, <1>4 DEF BooksInv, LocksDated
<1>6. /\ locks'[l].token_a = locks[l].token_a /\ locks'[l].token_b = locks[l].token_b
      /\ ~locks'[l].proceeds_settled /\ ~locks'[l].collateral_released
      /\ locks'[l].earned_a = locks[l].earned_a + x
      /\ locks'[l].remaining_b = locks[l].remaining_b - y
    BY <1>2, <1>5, TakenLock
<1>7. locks[l].earned_a \in Nat /\ locks[l].remaining_b \in Nat
    BY <1>2 DEF TypeInv, TypeOK, Lock
<1> HIDE DEF l, x, y
<1>8. LockOwes(l, u)' - LockOwes(l, u) =
        (IF m.token = u THEN x ELSE 0) - (IF m.counter_token = u THEN y ELSE 0)
    BY <1>1, <1>2, <1>4, <1>5, <1>6, <1>7 DEF LockOwes
<1> QED
    BY <1>1, <1>2, <1>8 DEF l, x, y

(* The take moves exactly what its fills move, lock by lock (take). *)
LEMMA OwedTake ==
    ASSUME TypeInv, TypeInv', BooksInv, OwedInv, NEW m \in TakeMessage,
           NEW id \in Identities, NEW r \in RfqIds, take(id, r, TakeParams(m))
    PROVE  OwedInv'
<1> DEFINE n == Len(m.fills)
           x == [i \in 1 .. n |-> m.fills[i].lock_id]
<1>0. TypeOK /\ TypeOK' /\ deals' = deals
    BY DEF TypeInv, take
<1>1. /\ n \in Nat /\ n <= 4
      /\ \A i, j \in 1 .. n : x[i] = x[j] => i = j
    <2>1. m.fills \in Seq(Fill)
        BY DEF TakeMessage
    <2>2. n <= 4 /\ assert_distinct_fills(m.fills)
        BY DEF take, TakeParams
    <2> QED
        BY <2>1, <2>2 DEF assert_distinct_fills
<1>2. \A i \in 1 .. n : x[i] \in LockIds
    <2>1. \A i \in 1 .. n : m.fills[i] \in Fill
        BY TakeSums
    <2> QED
        BY <2>1 DEF Fill
<1>3. EmptyOwesNothing'
    <2>1. ASSUME NEW l \in LockIds, locks'[l].status = "Empty"
          PROVE  locks'[l] = locks[l] /\ locks[l].status = "Empty"
        <3>1. locks[l].status = "Empty"
            BY <2>1, TakenLock
        <3>2. \A i \in 1 .. n : locks[m.fills[i].lock_id].status = "Open"
            BY DEF take, Fillable, TakeParams
        <3>3. ~FillsLock(m.fills, l)
            BY <3>1, <3>2 DEF FillsLock
        <3> QED
            BY <3>1, <3>3, TakenLock
    <2> QED
        BY <2>1 DEF OwedInv, EmptyOwesNothing
<1>4. ASSUME NEW u \in Tokens PROVE Owed(u)'
    <2> DEFINE f == [l \in LockIds |-> LockOwes(l, u)]
               g == [l \in LockIds |-> LockOwes(l, u)']
               A(i) == SoldA(m.fills, i)
               B(i) == BoughtB(m.fills, i)
               D == [i \in 1 .. 4 |-> (IF m.token = u THEN A(i) ELSE 0)
                                      - (IF m.counter_token = u THEN B(i) ELSE 0)]
    <2>1. f \in [LockIds -> Int] /\ g \in [LockIds -> Int]
        <3>1. \A k \in LockIds : /\ locks[k].earned_a \in Nat /\ locks[k].remaining_b \in Nat
                                 /\ locks'[k].earned_a \in Nat /\ locks'[k].remaining_b \in Nat
            BY <1>0 DEF TypeOK, Lock
        <3> QED
            BY <3>1 DEF LockOwes
    <2>2. \A l \in LockIds : (\A i \in 1 .. n : x[i] # l) => g[l] = f[l]
        <3>1. ASSUME NEW l \in LockIds, \A i \in 1 .. n : x[i] # l
              PROVE  LockOwes(l, u)' = LockOwes(l, u)
            <4>1. ~FillsLock(m.fills, l)
                BY <3>1 DEF FillsLock
            <4>2. locks'[l] = locks[l]
                BY <4>1, TakenLock
            <4> QED
                BY <4>2 DEF LockOwes
        <3> QED
            BY <3>1
    <2>3. ASSUME NEW i \in 1 .. 4
          PROVE  /\ A(i) \in Nat /\ B(i) \in Nat
                 /\ D[i] = IF i <= n THEN g[x[i]] - f[x[i]] ELSE 0
        <3>1. CASE i <= n
            <4>1. i \in 1 .. n
                BY <1>1, <3>1
            <4>2. A(i) = m.fills[i].amount_a /\ B(i) = amount_b(m.fills[i])
                BY <3>1 DEF SoldA, BoughtB
            <4>3. g[x[i]] - f[x[i]] = (IF m.token = u THEN A(i) ELSE 0)
                                        - (IF m.counter_token = u THEN B(i) ELSE 0)
                BY <1>2, <4>1, <4>2, OwedFill
            <4>4. A(i) \in Nat /\ B(i) \in Nat
                BY <4>1, <4>2, OwedFill
            <4> QED
                BY <3>1, <4>3, <4>4
        <3>2. CASE ~(i <= n)
            BY <3>2 DEF SoldA, BoughtB
        <3> QED
            BY <3>1, <3>2
    <2>4. D \in [1 .. 4 -> Int]
        <3>1. \A i \in 1 .. 4 : A(i) \in Nat /\ B(i) \in Nat
            BY <2>3
        <3> HIDE DEF A, B
        <3>2. \A i \in 1 .. 4 : (IF m.token = u THEN A(i) ELSE 0)
                                  - (IF m.counter_token = u THEN B(i) ELSE 0) \in Int
            BY <3>1
        <3> QED
            BY <3>2
    <2>5. LocksOwe(u) = SumFunction(f) /\ LocksOwe(u)' = SumFunction(g)
        BY DEF LocksOwe
    <2>6. SumFunction(g) = SumFunction(f) + (D[1] + D[2] + D[3] + D[4])
        <3>1. \A i \in 1 .. 4 : D[i] = IF i <= n THEN g[x[i]] - f[x[i]] ELSE 0
            BY <2>3
        <3>2. IsFiniteSet(LockIds)
            BY ConstantsAssumption
        <3> HIDE DEF D, f, g, x, n
        <3>3. DifferAt(LockIds, f, g, n, x, D)
            BY <1>1, <1>2, <2>2, <3>1 DEF DifferAt
        <3> QED
            BY <1>1, <2>1, <2>4, <3>2, <3>3, SumFourPoints
    <2>7. 1 \in 1 .. 4 /\ 2 \in 1 .. 4 /\ 3 \in 1 .. 4 /\ 4 \in 1 .. 4
        OBVIOUS
    <2>8. D[1] + D[2] + D[3] + D[4] =
            (IF m.token = u THEN total_a(m.fills) ELSE 0)
            - (IF m.counter_token = u THEN total_b(m.fills) ELSE 0)
        <3>1. /\ total_a(m.fills) = A(1) + A(2) + A(3) + A(4)
              /\ total_b(m.fills) = B(1) + B(2) + B(3) + B(4)
            BY DEF total_a, total_b
        <3>2. \A i \in 1 .. 4 : /\ D[i] = (IF m.token = u THEN A(i) ELSE 0)
                                          - (IF m.counter_token = u THEN B(i) ELSE 0)
                                /\ A(i) \in Nat /\ B(i) \in Nat
            BY <2>3
        <3> HIDE DEF A, B, D
        <3>3. /\ A(1) \in Nat /\ A(2) \in Nat /\ A(3) \in Nat /\ A(4) \in Nat
              /\ B(1) \in Nat /\ B(2) \in Nat /\ B(3) \in Nat /\ B(4) \in Nat
            BY <2>7, <3>2
        <3> QED
            BY <2>7, <3>1, <3>2, <3>3
    <2>9. accounted'[u] = accounted[u]
                            + ((IF m.token = u THEN total_a(m.fills) ELSE 0)
                               - (IF m.counter_token = u THEN total_b(m.fills) ELSE 0))
        <3>1. total_a(m.fills) \in Nat /\ total_b(m.fills) \in Nat
            <4>1. \A i \in 1 .. 4 : A(i) \in Nat /\ B(i) \in Nat
                BY <2>3
            <4>2. /\ A(1) \in Nat /\ A(2) \in Nat /\ A(3) \in Nat /\ A(4) \in Nat
                  /\ B(1) \in Nat /\ B(2) \in Nat /\ B(3) \in Nat /\ B(4) \in Nat
                BY <2>7, <4>1
            <4> QED
                BY <4>2 DEF total_a, total_b
        <3>2. /\ m.token # m.counter_token
              /\ Exchange(m.token, total_a(m.fills), m.counter_token, total_b(m.fills))
            BY DEF take, TakeParams
        <3>3. m.token \in Tokens /\ m.counter_token \in Tokens
            BY DEF TakeMessage
        <3>4. accounted \in [Tokens -> Nat]
            BY <1>0 DEF TypeOK
        <3> QED
            BY <3>1, <3>2, <3>3, <3>4 DEF Exchange
    <2>10. DealsOwe(u)' = DealsOwe(u)
        BY <1>0 DEF DealsOwe, DealOwes
    <2>11. Owed(u)
        BY AccountedOwed DEF OwedInv
    <2>12. LocksOwe(u)' = LocksOwe(u) + (D[1] + D[2] + D[3] + D[4])
        BY <2>5, <2>6
    <2>13. D[1] + D[2] + D[3] + D[4] \in Int
        BY <2>4, <2>7
    <2> HIDE DEF D
    <2>14. accounted'[u] = accounted[u] + (D[1] + D[2] + D[3] + D[4])
        BY <2>8, <2>9
    <2>15. DealsOwe(u) \in Nat /\ LocksOwe(u) \in Nat
        BY <1>0, OwedNat
    <2> QED
        BY <2>10, <2>11, <2>12, <2>13, <2>14, <2>15 DEF Owed
<1> QED
    BY <1>3, <1>4 DEF OwedInv, AccountedExact, Owed, DealsOwe, LocksOwe

LEMMA OwedStep ==
    TypeInv /\ TypeInv' /\ BooksInv /\ OwedInv /\ [Next]_vars => OwedInv'
<1> SUFFICES ASSUME TypeInv, TypeInv', BooksInv, OwedInv, [Next]_vars
             PROVE  OwedInv'
    OBVIOUS
<1>1. CASE NextTx
    BY <1>1, OwedKept DEF NextTx
<1>2. CASE \E t \in Legs : prepare_funding(t)
    BY <1>2, OwedKept DEF prepare_funding
<1>3. CASE \E t \in Tokens, n \in 1 .. Supply + 1 : Withdraw(t, n)
    BY <1>3, OwedKept DEF Withdraw
<1>4. CASE DealNext
    <2>1. ASSUME NEW d \in DealIds, ensure_ticket(d) PROVE OwedInv'
        BY <2>1, OwedKept DEF ensure_ticket
    <2> QED
        BY <1>4, <2>1, OwedDeals DEF DealNext
<1>5. CASE LockNext
    <2>1. ASSUME NEW l \in LockIds, ensure_lock_ticket(l) PROVE OwedInv'
        BY <2>1, OwedKept DEF ensure_lock_ticket
    <2> QED
        BY <1>5, <2>1, OwedLocks DEF LockNext
<1>6. CASE TakeNext
    <2>1. ASSUME NEW m \in Messages, SignTake(m) PROVE OwedInv'
        BY <2>1, OwedKept DEF SignTake
    <2>2. signed \subseteq TakeMessage
        BY DEF TypeInv, TypeOK
    <2> QED
        BY <1>6, <2>1, <2>2, OwedTake DEF TakeNext
<1>7. CASE UNCHANGED vars
    BY <1>7, OwedKept DEF vars
<1> QED
    BY <1>1, <1>2, <1>3, <1>4, <1>5, <1>6, <1>7 DEF Next

LEMMA OwedInvariant == Spec => []OwedInv
<1>1. TypeInv /\ TypeInv' /\ BooksInv /\ OwedInv /\ [Next]_vars => OwedInv'
    BY OwedStep
<1> QED
    BY <1>1, OwedInit, TypeInvariant, BooksInvariant, PTL DEF Spec

(* What escrow.cairo has accounted for in a token is exactly what the open  *)
(* deals and the unsettled sides of the locks are owed in it: no sequence   *)
(* of fills, takes, claims, timeouts and settlements loses a leg or pays    *)
(* one twice, and CONSERVATION_FAILURE never refuses an operation.          *)
THEOREM AccountsAreExact == Spec => []AccountedExact
<1>1. OwedInv => AccountedExact
    BY DEF OwedInv
<1> QED
    BY <1>1, OwedInvariant, PTL

=============================================================================
