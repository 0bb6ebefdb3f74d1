------------------------- MODULE PrivateSwapProofs -------------------------
(***************************************************************************)
(* The maker book and the private swap, for any makers, tokens, quotes,    *)
(* amounts and bounds: the registry is exact, rotation is final, the swap  *)
(* uses the book as its specification says, and its accounts balance.      *)
(***************************************************************************)
EXTENDS PrivateSwap, SumProofs

bookState == <<now, makers, accounts, requests>>

BookInv == BookTypeOK /\ RegistryExact

-----------------------------------------------------------------------------
(* The maker book *)

LEMMA BookInitInv == BookInit => BookInv
BY MakerBookAssumption
   DEF BookInit, BookInv, BookTypeOK, RegistryExact, Request, NoRequest

(* The values of a sequence one is appended to. *)
LEMMA AppendedValues ==
  ASSUME NEW S, NEW s \in Seq(S), NEW e \in S
  PROVE  Range(Append(s, e)) = Range(s) \cup {e}
<1>1. /\ DOMAIN s = 1..Len(s) /\ Len(s) \in Nat
      /\ DOMAIN Append(s, e) = 1..(Len(s) + 1)
      /\ Append(s, e)[Len(s) + 1] = e
      /\ \A i \in 1..Len(s) : Append(s, e)[i] = s[i]
  OBVIOUS
<1>2. \A i \in 1..(Len(s) + 1) : i \in 1..Len(s) \/ i = Len(s) + 1
  BY <1>1
<1>3. /\ Len(s) + 1 \in 1..(Len(s) + 1)
      /\ \A i \in 1..Len(s) : i \in 1..(Len(s) + 1)
  BY <1>1
<1> QED BY <1>1, <1>2, <1>3 DEF Range

(* Registration lists an account the first time and only then. *)
LEMMA RegisterInv ==
  ASSUME BookInv, NEW m \in Makers, NEW valid_until \in Stamps, register(m, valid_until)
  PROVE  BookInv'
<1> USE MakerBookAssumption DEF BookInv, BookTypeOK
<1>1. /\ now \in Nat /\ valid_until \in Nat
      /\ makers[m].revision \in Nat
  BY DEF Stamps
<1>2. makers' \in [Makers -> [revision: Nat, valid_until: Nat]]
  <2>1. [revision |-> makers[m].revision + 1, valid_until |-> valid_until]
          \in [revision: Nat, valid_until: Nat]
    BY <1>1
  <2> QED BY <2>1 DEF register, NextRevision
<1>3. /\ makers'[m].revision = makers[m].revision + 1
      /\ \A n \in Makers \ {m} : makers'[n] = makers[n]
  BY DEF register, NextRevision
<1>4. CASE makers[m].revision = 0
  <2>1. accounts' = Append(accounts, m)
    BY <1>4 DEF register, Listed
  <2>2. /\ accounts' \in Seq(Makers)
        /\ Len(accounts') = Len(accounts) + 1
        /\ accounts'[Len(accounts) + 1] = m
        /\ \A i \in 1..Len(accounts) : accounts'[i] = accounts[i]
    BY <2>1
  <2>3. DOMAIN accounts = 1..Len(accounts) /\ DOMAIN accounts' = 1..(Len(accounts) + 1)
    BY <2>2
  <2>4. Len(accounts) \in Nat
    OBVIOUS
  <2>5. \A i \in DOMAIN accounts : accounts[i] # m
    BY <1>1, <1>4 DEF RegistryExact
  <2>6. \A n \in Makers : makers'[n].revision > 0 <=> \E i \in DOMAIN accounts' : accounts'[i] = n
    <3>1. Range(accounts') = Range(accounts) \cup {m}
      BY <2>1, AppendedValues
    <3>2. makers'[m].revision > 0
      BY <1>1, <1>3
    <3>3. \A n \in Makers \ {m} : makers'[n].revision = makers[n].revision
      BY <1>3
    <3>4. \A n : /\ (\E i \in DOMAIN accounts : accounts[i] = n) <=> n \in Range(accounts)
                 /\ (\E i \in DOMAIN accounts' : accounts'[i] = n) <=> n \in Range(accounts')
      BY DEF Range
    <3>5. \A n \in Makers : makers[n].revision > 0 <=> n \in Range(accounts)
      BY <3>4 DEF RegistryExact
    <3>6. \A n \in Makers : makers'[n].revision > 0 <=> n \in Range(accounts')
      BY <3>1, <3>2, <3>3, <3>5
    <3> QED BY <3>4, <3>6
  <2>7. ASSUME NEW i \in DOMAIN accounts', NEW j \in DOMAIN accounts',
               accounts'[i] = accounts'[j]
        PROVE  i = j
    <3>1. /\ i \in DOMAIN accounts \/ i = Len(accounts) + 1
          /\ j \in DOMAIN accounts \/ j = Len(accounts) + 1
      BY <2>3, <2>4
    <3>2. CASE i \in DOMAIN accounts /\ j \in DOMAIN accounts
      BY <2>2, <2>3, <2>7, <3>2 DEF RegistryExact
    <3>3. CASE i = Len(accounts) + 1 /\ j \in DOMAIN accounts
      BY <2>2, <2>3, <2>5, <2>7, <3>3
    <3>4. CASE i \in DOMAIN accounts /\ j = Len(accounts) + 1
      BY <2>2, <2>3, <2>5, <2>7, <3>4
    <3> QED BY <3>1, <3>2, <3>3, <3>4
  <2> QED BY <1>2, <2>2, <2>6, <2>7 DEF register, RegistryExact
<1>5. CASE makers[m].revision # 0
  BY <1>1, <1>2, <1>3, <1>5 DEF register, Listed, RegistryExact
<1> QED BY <1>4, <1>5

LEMMA DeactivateInv ==
  ASSUME BookInv, NEW m \in Makers, deactivate(m)
  PROVE  BookInv'
<1> USE MakerBookAssumption DEF BookInv, BookTypeOK
<1>1. makers[m].revision \in Nat /\ makers[m].revision > 0
  BY DEF deactivate
<1>2. /\ makers' \in [Makers -> [revision: Nat, valid_until: Nat]]
      /\ makers'[m].revision = makers[m].revision + 1
      /\ \A n \in Makers \ {m} : makers'[n] = makers[n]
  BY <1>1 DEF deactivate, NextRevision
<1> QED BY <1>1, <1>2 DEF deactivate, RegistryExact

LEMMA RequestsInv ==
  ASSUME BookInv,
         UNCHANGED <<now, makers, accounts>>, requests' \in [Ids -> Request]
  PROVE  BookInv'
BY DEF BookInv, BookTypeOK, RegistryExact

LEMMA RequestStatus ==
  ASSUME BookTypeOK, NEW id \in Ids, NEW status \in 0..3,
         requests' = [requests EXCEPT ![id].status = status]
  PROVE  requests' \in [Ids -> Request]
BY DEF BookTypeOK, Request

LEMMA BookStep ==
  ASSUME BookInv, [Tick \/ BookNext]_bookState
  PROVE  BookInv'
<1> USE MakerBookAssumption
<1>1. CASE Tick
  BY <1>1 DEF Tick, bookVars, BookInv, BookTypeOK, RegistryExact
<1>2. CASE UNCHANGED bookState
  BY <1>2 DEF bookState, BookInv, BookTypeOK, RegistryExact
<1>3. ASSUME NEW m \in Makers, NEW valid_until \in Stamps, register(m, valid_until)
      PROVE  BookInv'
  BY <1>3, RegisterInv
<1>4. ASSUME NEW m \in Makers, deactivate(m)
      PROVE  BookInv'
  BY <1>4, DeactivateInv
<1>5. ASSUME NEW m \in Makers, NEW id \in Ids, respond(m, id)
      PROVE  BookInv'
  <2>1. requests' \in [Ids -> Request]
    <3>1. 2 \in 0..3 /\ BookTypeOK /\ requests' = [requests EXCEPT ![id].status = 2]
      BY <1>5 DEF respond, BookInv
    <3> QED BY <3>1, RequestStatus
  <2> QED BY <1>5, <2>1, RequestsInv DEF respond
<1>6. ASSUME NEW taker \in Takers, NEW id \in Ids, cancel(taker, id)
      PROVE  BookInv'
  <2>1. requests' \in [Ids -> Request]
    <3>1. 3 \in 0..3 /\ BookTypeOK /\ requests' = [requests EXCEPT ![id].status = 3]
      BY <1>6 DEF cancel, BookInv
    <3> QED BY <3>1, RequestStatus
  <2> QED BY <1>6, <2>1, RequestsInv DEF cancel
<1>7. ASSUME NEW taker \in Takers, NEW id \in Ids, NEW m \in Makers,
             NEW revision \in 1..MaxRevision, NEW expires_at \in Stamps,
             request(taker, id, m, revision, expires_at)
      PROVE  BookInv'
  <2>1. requests' \in [Ids -> Request]
    BY <1>7 DEF request, BookInv, BookTypeOK, Request, Stamps
  <2> QED BY <1>7, <2>1, RequestsInv DEF request
<1> QED BY <1>1, <1>2, <1>3, <1>4, <1>5, <1>6, <1>7 DEF BookNext

(* A step of the book leaves a request whose key is gone open, or cancels   *)
(* it.                                                                      *)
LEMMA RotationStep ==
  ASSUME BookInv, [Tick \/ BookNext]_bookState, NEW id \in Ids,
         requests[id].status = 1,
         requests[id].revision # makers[requests[id].maker].revision
  PROVE  requests'[id].status \in {1, 3}
<1> USE DEF BookInv, BookTypeOK
<1>1. CASE Tick \/ UNCHANGED bookState
  BY <1>1 DEF Tick, bookVars, bookState
<1>2. ASSUME NEW m \in Makers, NEW valid_until \in Stamps,
             register(m, valid_until) \/ deactivate(m)
      PROVE  requests'[id].status \in {1, 3}
  BY <1>2 DEF register, deactivate
<1>3. ASSUME NEW m \in Makers, NEW i \in Ids, respond(m, i)
      PROVE  requests'[id].status \in {1, 3}
  BY <1>3 DEF respond, ActiveKey
<1>4. ASSUME NEW taker \in Takers, NEW i \in Ids, cancel(taker, i)
      PROVE  requests'[id].status \in {1, 3}
  BY <1>4 DEF cancel, Request
<1>5. ASSUME NEW taker \in Takers, NEW i \in Ids, NEW m \in Makers,
             NEW revision \in 1..MaxRevision, NEW expires_at \in Stamps,
             request(taker, i, m, revision, expires_at)
      PROVE  requests'[id].status \in {1, 3}
  BY <1>5 DEF request
<1>6. ASSUME NEW m \in Makers, deactivate(m)
      PROVE  requests'[id].status \in {1, 3}
  BY <1>6 DEF deactivate
<1> QED BY <1>1, <1>2, <1>3, <1>4, <1>5, <1>6 DEF BookNext

LEMMA BookInvariant == BookSpec => []BookInv
<1>1. BookInv /\ [Tick \/ BookNext]_<<now, makers, accounts, requests>> => BookInv'
  BY BookStep DEF bookState
<1> QED BY BookInitInv, <1>1, PTL DEF BookSpec

LEMMA BookRotation == BookSpec => RotationIsFinal
<1> DEFINE Keeps == \A id \in Ids :
             requests[id].status = 1 /\ requests[id].revision # makers[requests[id].maker].revision =>
               requests'[id].status \in {1, 3}
<1>1. BookInv /\ [Tick \/ BookNext]_<<now, makers, accounts, requests>>
        => [Keeps]_<<now, makers, accounts, requests>>
  BY RotationStep DEF bookState
<1> QED BY <1>1, BookInvariant, PTL DEF BookSpec, RotationIsFinal

(* The private swap never writes the maker book it reads: what the swap and *)
(* the book do together is, for the book alone, a behaviour of the book.    *)
THEOREM SwapUsesBook == Spec => BookSpec
<1>1. Init => BookInit
  BY DEF Init
<1>2. [Next]_vars => [Tick \/ BookNext]_<<now, makers, accounts, requests>>
  <2>1. SUFFICES ASSUME [Next]_vars
                 PROVE  (Tick \/ BookNext) \/ UNCHANGED <<now, makers, accounts, requests>>
    OBVIOUS
  <2>2. CASE InventoryNext
    BY <2>2 DEF InventoryNext, deposit_inventory, withdraw_inventory
  <2>3. CASE QuoteNext
    BY <2>3 DEF QuoteNext, reserve_quote, release_expired, privacy_invoke
  <2>4. CASE PoolNext
    BY <2>4 DEF PoolNext, Pay, PullNote
  <2>5. CASE UNCHANGED vars
    BY <2>5 DEF vars
  <2> QED BY <2>1, <2>2, <2>3, <2>4, <2>5 DEF Next
<1> QED BY <1>1, <1>2, PTL DEF Spec, BookSpec

(* The registry of maker_book.cairo lists every account that ever           *)
(* registered a key, each once, however keys are rotated and deactivated.   *)
THEOREM RegistryIsExact == Spec => []RegistryExact
<1>1. BookInv => RegistryExact
  BY DEF BookInv
<1> QED BY <1>1, SwapUsesBook, BookInvariant, PTL

(* An open request whose key was rotated or deactivated is never answered. *)
THEOREM RotationEndsRequests == Spec => RotationIsFinal
BY SwapUsesBook, BookRotation, PTL

-----------------------------------------------------------------------------
(* The private swap *)

(* A quote that exists names a maker and two different tokens, and answers  *)
(* a request that was made; only the output of a fill is ever pulled.       *)
QuoteSound ==
  \A id \in Ids :
    /\ pulled[id] => quotes[id].status = 2
    /\ quotes[id].status # 0 =>
         /\ quotes[id].maker \in Makers
         /\ quotes[id].buy_token \in Tokens
         /\ quotes[id].sell_token \in Tokens
         /\ quotes[id].buy_token # quotes[id].sell_token
         /\ requests[id].status # 0
         /\ requests[id].maker = quotes[id].maker
         /\ quotes[id].expires_at <= requests[id].expires_at

(* What the contract holds beyond what it owes is what strangers and the    *)
(* pool sent it and no fill has used: this is why solvency means that every *)
(* fill was paid for.                                                       *)
SurplusExact ==
  \A t \in Tokens : balance[t] + Sold(t) = received[t] + liability[t] + allowance[t]

SwapInv ==
  /\ TypeOK
  /\ QuoteSound
  /\ LiabilityExact
  /\ Solvent
  /\ SurplusExact

LEMMA FreeNat ==
  ASSUME TypeOK, NEW t \in Tokens
  PROVE  Free(t) \in Nat /\ \A m \in Makers : available[m][t] <= Free(t)
<1> DEFINE f == [m \in Makers |-> available[m][t]]
<1>1. f \in [Makers -> Nat] /\ Free(t) = SumFunction(f)
  BY DEF TypeOK, Free
<1>2. \A m \in Makers : f[m] = available[m][t]
  OBVIOUS
<1> HIDE DEF f
<1> QED BY <1>1, <1>2, SumNat, SumMember, PrivateSwapAssumption

LEMMA QuoteSumsNat ==
  ASSUME TypeOK, NEW t \in Tokens
  PROVE  /\ Held(t) \in Nat /\ \A id \in Ids : HeldBy(id, t) <= Held(t)
         /\ Unpulled(t) \in Nat
         /\ Sold(t) \in Nat
<1> DEFINE h == [id \in Ids |-> HeldBy(id, t)]
           u == [id \in Ids |-> UnpulledBy(id, t)]
           s == [id \in Ids |-> SoldBy(id, t)]
<1>1. h \in [Ids -> Nat] /\ u \in [Ids -> Nat] /\ s \in [Ids -> Nat]
  BY DEF TypeOK, SwapQuote, HeldBy, UnpulledBy, SoldBy
<1>2. /\ Held(t) = SumFunction(h) /\ Unpulled(t) = SumFunction(u) /\ Sold(t) = SumFunction(s)
      /\ \A id \in Ids : h[id] = HeldBy(id, t)
  BY DEF Held, Unpulled, Sold
<1> HIDE DEF h, u, s
<1> QED BY <1>1, <1>2, SumNat, SumMember, PrivateSwapAssumption

(* One maker's inventory of a token changes the free inventory by as much. *)
LEMMA FreeMoves ==
  ASSUME TypeOK, TypeOK', NEW m \in Makers, NEW t \in Tokens,
         \A n \in Makers \ {m} : available'[n][t] = available[n][t]
  PROVE  Free(t)' = Free(t) + (available'[m][t] - available[m][t])
<1> DEFINE f == [n \in Makers |-> available[n][t]]
           g == [n \in Makers |-> available'[n][t]]
<1>1. f \in [Makers -> Int] /\ g \in [Makers -> Int]
  BY DEF TypeOK
<1>2. /\ Free(t) = SumFunction(f) /\ Free(t)' = SumFunction(g)
      /\ f[m] = available[m][t] /\ g[m] = available'[m][t]
      /\ \A n \in Makers \ {m} : g[n] = f[n]
  BY DEF Free
<1> HIDE DEF f, g
<1>3. SumFunction(g) = SumFunction(f) + (g[m] - f[m])
  BY <1>1, <1>2, SumPoint, PrivateSwapAssumption
<1> QED BY <1>2, <1>3

(* One quote changes each of the sums by its own share. *)
LEMMA QuoteMoves ==
  ASSUME TypeOK, TypeOK', NEW id \in Ids, NEW t \in Tokens,
         \A i \in Ids \ {id} : quotes'[i] = quotes[i] /\ pulled'[i] = pulled[i]
  PROVE  /\ Held(t)' = Held(t) + (HeldBy(id, t)' - HeldBy(id, t))
         /\ Unpulled(t)' = Unpulled(t) + (UnpulledBy(id, t)' - UnpulledBy(id, t))
         /\ Sold(t)' = Sold(t) + (SoldBy(id, t)' - SoldBy(id, t))
<1>1. Held(t)' = Held(t) + (HeldBy(id, t)' - HeldBy(id, t))
  <2> DEFINE f == [i \in Ids |-> HeldBy(i, t)]
             g == [i \in Ids |-> HeldBy(i, t)']
  <2>1. f \in [Ids -> Int] /\ g \in [Ids -> Int]
    BY DEF TypeOK, SwapQuote, HeldBy
  <2>2. /\ Held(t) = SumFunction(f) /\ Held(t)' = SumFunction(g)
        /\ f[id] = HeldBy(id, t) /\ g[id] = HeldBy(id, t)'
        /\ \A i \in Ids \ {id} : g[i] = f[i]
    BY DEF Held, HeldBy
  <2> HIDE DEF f, g
  <2>3. SumFunction(g) = SumFunction(f) + (g[id] - f[id])
    BY <2>1, <2>2, SumPoint, PrivateSwapAssumption
  <2> QED BY <2>2, <2>3
<1>2. Unpulled(t)' = Unpulled(t) + (UnpulledBy(id, t)' - UnpulledBy(id, t))
  <2> DEFINE f == [i \in Ids |-> UnpulledBy(i, t)]
             g == [i \in Ids |-> UnpulledBy(i, t)']
  <2>1. f \in [Ids -> Int] /\ g \in [Ids -> Int]
    BY DEF TypeOK, SwapQuote, UnpulledBy
  <2>2. /\ Unpulled(t) = SumFunction(f) /\ Unpulled(t)' = SumFunction(g)
        /\ f[id] = UnpulledBy(id, t) /\ g[id] = UnpulledBy(id, t)'
        /\ \A i \in Ids \ {id} : g[i] = f[i]
    BY DEF Unpulled, UnpulledBy
  <2> HIDE DEF f, g
  <2>3. SumFunction(g) = SumFunction(f) + (g[id] - f[id])
    BY <2>1, <2>2, SumPoint, PrivateSwapAssumption
  <2> QED BY <2>2, <2>3
<1>3. Sold(t)' = Sold(t) + (SoldBy(id, t)' - SoldBy(id, t))
  <2> DEFINE f == [i \in Ids |-> SoldBy(i, t)]
             g == [i \in Ids |-> SoldBy(i, t)']
  <2>1. f \in [Ids -> Int] /\ g \in [Ids -> Int]
    BY DEF TypeOK, SwapQuote, SoldBy
  <2>2. /\ Sold(t) = SumFunction(f) /\ Sold(t)' = SumFunction(g)
        /\ f[id] = SoldBy(id, t) /\ g[id] = SoldBy(id, t)'
        /\ \A i \in Ids \ {id} : g[i] = f[i]
    BY DEF Sold, SoldBy
  <2> HIDE DEF f, g
  <2>3. SumFunction(g) = SumFunction(f) + (g[id] - f[id])
    BY <2>1, <2>2, SumPoint, PrivateSwapAssumption
  <2> QED BY <2>2, <2>3
<1> QED BY <1>1, <1>2, <1>3

(* A step that touches no quote leaves their sums as they were. *)
LEMMA QuotesStay ==
  ASSUME UNCHANGED <<quotes, pulled>>, NEW t \in Tokens
  PROVE  Held(t)' = Held(t) /\ Unpulled(t)' = Unpulled(t) /\ Sold(t)' = Sold(t)
BY DEF Held, Unpulled, Sold, HeldBy, UnpulledBy, SoldBy

(* The three accounts of one token. *)
Balanced(t) ==
  /\ liability[t] = Free(t) + Held(t)
  /\ Backed(t)
  /\ allowance[t] = Unpulled(t)
  /\ balance[t] + Sold(t) = received[t] + liability[t] + allowance[t]

LEMMA SwapInvParts ==
  SwapInv <=> TypeOK /\ QuoteSound /\ \A t \in Tokens : Balanced(t)
BY DEF SwapInv, LiabilityExact, Solvent, SurplusExact, Balanced

LEMMA SwapInitInv == Init => SwapInv
<1> SUFFICES ASSUME Init PROVE SwapInv
  OBVIOUS
<1> USE MakerBookAssumption, PrivateSwapAssumption
<1>1. TypeOK
  BY BookInitInv DEF Init, BookInv, TypeOK, SwapQuote, NoQuote
<1>2. QuoteSound
  BY DEF Init, QuoteSound, NoQuote
<1>3. ASSUME NEW t \in Tokens
      PROVE  Balanced(t)
  <2> DEFINE a == [m \in Makers |-> available[m][t]]
             h == [id \in Ids |-> HeldBy(id, t)]
             u == [id \in Ids |-> UnpulledBy(id, t)]
             s == [id \in Ids |-> SoldBy(id, t)]
  <2>1. a \in [Makers -> Int] /\ \A m \in Makers : a[m] = 0
    BY DEF Init
  <2>2. /\ h \in [Ids -> Int] /\ u \in [Ids -> Int] /\ s \in [Ids -> Int]
        /\ \A id \in Ids : h[id] = 0 /\ u[id] = 0 /\ s[id] = 0
    BY DEF Init, NoQuote, HeldBy, UnpulledBy, SoldBy
  <2>3. Free(t) = 0 /\ Held(t) = 0 /\ Unpulled(t) = 0 /\ Sold(t) = 0
    <3>1. /\ Free(t) = SumFunction(a) /\ Held(t) = SumFunction(h)
          /\ Unpulled(t) = SumFunction(u) /\ Sold(t) = SumFunction(s)
      BY DEF Free, Held, Unpulled, Sold
    <3> HIDE DEF a, h, u, s
    <3> QED BY <2>1, <2>2, <3>1, SumZero
  <2> QED BY <2>3 DEF Init, Balanced, Backed, Reserved
<1> QED BY <1>1, <1>2, <1>3, SwapInvParts

(* Numbers of a typed state. *)
LEMMA SwapNumbers ==
  ASSUME TypeOK, NEW t \in Tokens
  PROVE  /\ liability[t] \in Nat /\ balance[t] \in Nat /\ allowance[t] \in Nat
         /\ outside[t] \in Nat /\ received[t] \in Nat
         /\ \A m \in Makers : available[m][t] \in Nat
BY DEF TypeOK

LEMMA DepositInv ==
  ASSUME SwapInv, NEW m \in Makers, NEW t \in Tokens, NEW amount \in Amounts,
         deposit_inventory(m, t, amount)
  PROVE  SwapInv'
<1>1. amount \in Nat
  BY PrivateSwapAssumption
<1>2. TypeOK /\ QuoteSound /\ \A u \in Tokens : Balanced(u)
  BY SwapInvParts
<1>3. TypeOK'
  <2>1. /\ outside' \in [Tokens -> Nat] /\ balance' \in [Tokens -> Nat]
        /\ liability' \in [Tokens -> Nat]
    BY <1>1, <1>2 DEF deposit_inventory, TypeOK
  <2>2. available' \in [Makers -> [Tokens -> Nat]]
    BY <1>1, <1>2 DEF deposit_inventory, TypeOK
  <2> QED BY <2>1, <2>2, <1>2 DEF deposit_inventory, TypeOK, BookTypeOK
<1>4. QuoteSound'
  BY <1>2 DEF deposit_inventory, QuoteSound
<1>5. ASSUME NEW u \in Tokens PROVE Balanced(u)'
  <2> DEFINE d == IF u = t THEN amount ELSE 0
  <2>1. /\ liability'[u] = liability[u] + d
        /\ balance'[u] = balance[u] + d
        /\ available'[m][u] = available[m][u] + d
        /\ allowance'[u] = allowance[u] /\ received'[u] = received[u]
        /\ \A n \in Makers \ {m} : available'[n][u] = available[n][u]
    BY <1>1, <1>2 DEF deposit_inventory, TypeOK
  <2>2. d \in Nat
    BY <1>1
  <2> HIDE DEF d
  <2>3. Held(u)' = Held(u) /\ Unpulled(u)' = Unpulled(u) /\ Sold(u)' = Sold(u)
    BY QuotesStay DEF deposit_inventory
  <2>4. Free(u)' = Free(u) + d
    BY <1>2, <1>3, <2>1, <2>2, FreeMoves, FreeNat, SwapNumbers
  <2> QED BY <1>2, <2>1, <2>2, <2>3, <2>4, FreeNat, QuoteSumsNat, SwapNumbers
          DEF Balanced, Backed, Reserved
<1> QED BY <1>3, <1>4, <1>5 DEF SwapInv, LiabilityExact, Solvent, SurplusExact, Balanced

LEMMA WithdrawInv ==
  ASSUME SwapInv, NEW m \in Makers, NEW t \in Tokens, NEW amount \in Amounts,
         withdraw_inventory(m, t, amount)
  PROVE  SwapInv'
<1>1. amount \in Nat
  BY PrivateSwapAssumption
<1>2. TypeOK /\ QuoteSound /\ \A u \in Tokens : Balanced(u)
  BY SwapInvParts
<1>3. /\ amount <= available[m][t] /\ amount <= liability[t] /\ amount <= balance[t]
  BY <1>1, <1>2, FreeNat, QuoteSumsNat, SwapNumbers
     DEF withdraw_inventory, Balanced, Backed, Reserved
<1>4. TypeOK'
  <2>1. /\ outside' \in [Tokens -> Nat] /\ balance' \in [Tokens -> Nat]
        /\ liability' \in [Tokens -> Nat]
    BY <1>1, <1>2, <1>3 DEF withdraw_inventory, TypeOK
  <2>2. available' \in [Makers -> [Tokens -> Nat]]
    BY <1>1, <1>2, <1>3 DEF withdraw_inventory, TypeOK
  <2> QED BY <2>1, <2>2, <1>2 DEF withdraw_inventory, TypeOK, BookTypeOK
<1>5. QuoteSound'
  BY <1>2 DEF withdraw_inventory, QuoteSound
<1>6. ASSUME NEW u \in Tokens PROVE Balanced(u)'
  <2> DEFINE d == IF u = t THEN amount ELSE 0
  <2>1. /\ liability'[u] = liability[u] - d
        /\ balance'[u] = balance[u] - d
        /\ available'[m][u] = available[m][u] - d
        /\ allowance'[u] = allowance[u] /\ received'[u] = received[u]
        /\ \A n \in Makers \ {m} : available'[n][u] = available[n][u]
    BY <1>1, <1>2 DEF withdraw_inventory, TypeOK
  <2>2. d \in Nat
    BY <1>1
  <2> HIDE DEF d
  <2>3. Held(u)' = Held(u) /\ Unpulled(u)' = Unpulled(u) /\ Sold(u)' = Sold(u)
    BY QuotesStay DEF withdraw_inventory
  <2>4. Free(u)' = Free(u) - d
    BY <1>2, <1>4, <2>1, <2>2, FreeMoves, FreeNat, SwapNumbers
  <2> QED BY <1>2, <2>1, <2>2, <2>3, <2>4, FreeNat, QuoteSumsNat, SwapNumbers
          DEF Balanced, Backed, Reserved
<1> QED BY <1>4, <1>5, <1>6 DEF SwapInv, LiabilityExact, Solvent, SurplusExact, Balanced

LEMMA PayInv ==
  ASSUME SwapInv, NEW t \in Tokens, NEW amount \in Amounts, Pay(t, amount)
  PROVE  SwapInv'
<1>1. amount \in Nat
  BY PrivateSwapAssumption
<1>2. TypeOK /\ QuoteSound /\ \A u \in Tokens : Balanced(u)
  BY SwapInvParts
<1>3. TypeOK'
  <2>1. /\ outside' \in [Tokens -> Nat] /\ balance' \in [Tokens -> Nat]
        /\ received' \in [Tokens -> Nat]
    BY <1>1, <1>2 DEF Pay, TypeOK
  <2> QED BY <1>2, <2>1 DEF Pay, TypeOK, BookTypeOK
<1>4. QuoteSound'
  BY <1>2 DEF Pay, QuoteSound
<1>5. ASSUME NEW u \in Tokens PROVE Balanced(u)'
  <2> DEFINE d == IF u = t THEN amount ELSE 0
  <2>1. /\ balance'[u] = balance[u] + d /\ received'[u] = received[u] + d
        /\ liability'[u] = liability[u] /\ allowance'[u] = allowance[u]
    BY <1>1, <1>2 DEF Pay, TypeOK
  <2>2. d \in Nat
    BY <1>1
  <2> HIDE DEF d
  <2>3. /\ Held(u)' = Held(u) /\ Unpulled(u)' = Unpulled(u) /\ Sold(u)' = Sold(u)
        /\ Free(u)' = Free(u)
    BY QuotesStay DEF Pay, Free
  <2> QED BY <1>2, <2>1, <2>2, <2>3, FreeNat, QuoteSumsNat, SwapNumbers
          DEF Balanced, Backed, Reserved
<1> QED BY <1>3, <1>4, <1>5 DEF SwapInv, LiabilityExact, Solvent, SurplusExact, Balanced

(* A reservation moves free inventory into the quote. *)
LEMMA ReserveInv ==
  ASSUME SwapInv, NEW m \in Makers, NEW id \in Ids, NEW terms \in Terms,
         reserve_quote(m, id, terms)
  PROVE  SwapInv'
<1> DEFINE b == terms.buy_token
           q == [maker |-> m, sell_token |-> terms.sell_token, buy_token |-> terms.buy_token,
                 sell_amount |-> terms.sell_amount, buy_amount |-> terms.buy_amount,
                 commitment |-> terms.commitment, expires_at |-> terms.expires_at, status |-> 1]
<1>1. /\ terms.buy_amount \in Nat /\ terms.sell_amount \in Nat /\ b \in Tokens
      /\ terms.sell_token \in Tokens /\ terms.commitment \in Secrets
      /\ terms.expires_at \in Nat
  <2>1. /\ terms.buy_amount \in Amounts /\ terms.sell_amount \in Amounts
        /\ terms.buy_token \in Tokens /\ terms.sell_token \in Tokens
        /\ terms.commitment \in Secrets /\ terms.expires_at \in 1..MaxTime
    BY DEF Terms
  <2>2. terms.buy_amount \in Nat /\ terms.sell_amount \in Nat
    BY <2>1, PrivateSwapAssumption
  <2>3. terms.expires_at \in Nat
    BY <2>1, MakerBookAssumption
  <2> QED BY <2>1, <2>2, <2>3
<1>2. TypeOK /\ QuoteSound /\ \A u \in Tokens : Balanced(u)
  BY SwapInvParts
<1>3. /\ quotes' = [quotes EXCEPT ![id] = q] /\ q \in SwapQuote
      /\ ~pulled[id] /\ quotes[id].status = 0 /\ pulled' = pulled
  BY <1>1, <1>2 DEF reserve_quote, SwapQuote, QuoteSound
<1>4. TypeOK'
  <2>1. quotes' \in [Ids -> SwapQuote]
    BY <1>2, <1>3 DEF TypeOK
  <2>2. available' \in [Makers -> [Tokens -> Nat]]
    BY <1>1, <1>2 DEF reserve_quote, TypeOK
  <2> QED BY <1>2, <2>1, <2>2 DEF reserve_quote, TypeOK, BookTypeOK
<1>5. /\ quotes'[id] = q /\ \A i \in Ids \ {id} : quotes'[i] = quotes[i]
  BY <1>2, <1>3 DEF TypeOK
<1>6. QuoteSound'
  BY <1>1, <1>2, <1>3, <1>5 DEF reserve_quote, RequestOpenFor, QuoteSound
<1>7. ASSUME NEW u \in Tokens PROVE Balanced(u)'
  <2> DEFINE d == IF u = b THEN terms.buy_amount ELSE 0
  <2>1. /\ available'[m][u] = available[m][u] - d
        /\ liability'[u] = liability[u] /\ balance'[u] = balance[u]
        /\ allowance'[u] = allowance[u] /\ received'[u] = received[u]
        /\ \A n \in Makers \ {m} : available'[n][u] = available[n][u]
    BY <1>1, <1>2 DEF reserve_quote, TypeOK
  <2>2. d \in Nat
    BY <1>1
  <2>3. /\ HeldBy(id, u) = 0 /\ HeldBy(id, u)' = d
        /\ UnpulledBy(id, u) = 0 /\ UnpulledBy(id, u)' = 0
        /\ SoldBy(id, u) = 0 /\ SoldBy(id, u)' = 0
    BY <1>3, <1>5 DEF HeldBy, UnpulledBy, SoldBy
  <2> HIDE DEF d, q, b
  <2>4. /\ Held(u)' = Held(u) + (HeldBy(id, u)' - HeldBy(id, u))
        /\ Unpulled(u)' = Unpulled(u) + (UnpulledBy(id, u)' - UnpulledBy(id, u))
        /\ Sold(u)' = Sold(u) + (SoldBy(id, u)' - SoldBy(id, u))
    BY <1>2, <1>3, <1>4, <1>5, QuoteMoves
  <2>5. Free(u)' = Free(u) - d
    BY <1>2, <1>4, <2>1, <2>2, FreeMoves, FreeNat, SwapNumbers
  <2> QED BY <1>2, <2>1, <2>2, <2>3, <2>4, <2>5, FreeNat, QuoteSumsNat, SwapNumbers
          DEF Balanced, Backed, Reserved
<1> QED BY <1>4, <1>6, <1>7 DEF SwapInv, LiabilityExact, Solvent, SurplusExact, Balanced

(* What a change of status alone leaves of a quote. *)
LEMMA QuoteStatus ==
  ASSUME TypeOK, NEW id \in Ids, NEW status \in 0..3,
         quotes' = [quotes EXCEPT ![id].status = status]
  PROVE  /\ quotes' \in [Ids -> SwapQuote]
         /\ quotes'[id].status = status
         /\ quotes'[id].maker = quotes[id].maker
         /\ quotes'[id].buy_token = quotes[id].buy_token
         /\ quotes'[id].sell_token = quotes[id].sell_token
         /\ quotes'[id].buy_amount = quotes[id].buy_amount
         /\ quotes'[id].sell_amount = quotes[id].sell_amount
         /\ quotes'[id].expires_at = quotes[id].expires_at
         /\ \A i \in Ids \ {id} : quotes'[i] = quotes[i]
<1>1. quotes[id] \in SwapQuote /\ quotes \in [Ids -> SwapQuote]
  BY DEF TypeOK
<1>2. [quotes[id] EXCEPT !.status = status] \in SwapQuote
  BY <1>1 DEF SwapQuote
<1>3. quotes'[id] = [quotes[id] EXCEPT !.status = status]
  BY <1>1
<1> QED BY <1>1, <1>2, <1>3 DEF SwapQuote

(* A released quote gives its inventory back. *)
LEMMA ReleaseInv ==
  ASSUME SwapInv, NEW id \in Ids, release_expired(id)
  PROVE  SwapInv'
<1> DEFINE m == quotes[id].maker
           b == quotes[id].buy_token
           amount == quotes[id].buy_amount
<1>1. TypeOK /\ QuoteSound /\ \A u \in Tokens : Balanced(u)
  BY SwapInvParts
<1>2. /\ m \in Makers /\ b \in Tokens /\ amount \in Nat /\ ~pulled[id]
      /\ quotes[id].status = 1
  BY <1>1 DEF release_expired, QuoteSound, TypeOK, SwapQuote
<1>3. 3 \in 0..3 /\ quotes' = [quotes EXCEPT ![id].status = 3] /\ pulled' = pulled
  BY DEF release_expired
<1>4. /\ quotes' \in [Ids -> SwapQuote]
      /\ quotes'[id].status = 3
      /\ \A i \in Ids \ {id} : quotes'[i] = quotes[i]
  BY <1>1, <1>3, QuoteStatus
<1>5. TypeOK'
  <2>1. available' \in [Makers -> [Tokens -> Nat]]
    BY <1>1, <1>2 DEF release_expired, TypeOK
  <2> QED BY <1>1, <1>4, <2>1 DEF release_expired, TypeOK, BookTypeOK
<1>6. QuoteSound'
  <2>1. /\ quotes'[id].maker = quotes[id].maker
        /\ quotes'[id].buy_token = quotes[id].buy_token
        /\ quotes'[id].sell_token = quotes[id].sell_token
        /\ quotes'[id].expires_at = quotes[id].expires_at
    BY <1>1, <1>3, QuoteStatus
  <2> QED BY <1>1, <1>2, <1>4, <2>1 DEF release_expired, QuoteSound
<1>7. ASSUME NEW u \in Tokens PROVE Balanced(u)'
  <2> DEFINE d == IF u = b THEN amount ELSE 0
  <2>1. /\ available'[m][u] = available[m][u] + d
        /\ liability'[u] = liability[u] /\ balance'[u] = balance[u]
        /\ allowance'[u] = allowance[u] /\ received'[u] = received[u]
        /\ \A n \in Makers \ {m} : available'[n][u] = available[n][u]
    BY <1>1, <1>2 DEF release_expired, TypeOK
  <2>2. d \in Nat
    BY <1>2
  <2>3. /\ HeldBy(id, u) = d /\ HeldBy(id, u)' = 0
        /\ UnpulledBy(id, u) = 0 /\ UnpulledBy(id, u)' = 0
        /\ SoldBy(id, u) = 0 /\ SoldBy(id, u)' = 0
    BY <1>2, <1>4 DEF HeldBy, UnpulledBy, SoldBy
  <2> HIDE DEF d, m, b, amount
  <2>4. /\ Held(u)' = Held(u) + (HeldBy(id, u)' - HeldBy(id, u))
        /\ Unpulled(u)' = Unpulled(u) + (UnpulledBy(id, u)' - UnpulledBy(id, u))
        /\ Sold(u)' = Sold(u) + (SoldBy(id, u)' - SoldBy(id, u))
    BY <1>1, <1>3, <1>4, <1>5, QuoteMoves
  <2>5. Free(u)' = Free(u) + d
    BY <1>1, <1>2, <1>5, <2>1, <2>2, FreeMoves, FreeNat, SwapNumbers
  <2> QED BY <1>1, <2>1, <2>2, <2>3, <2>4, <2>5, FreeNat, QuoteSumsNat, SwapNumbers
          DEF Balanced, Backed, Reserved
<1> QED BY <1>5, <1>6, <1>7 DEF SwapInv, LiabilityExact, Solvent, SurplusExact, Balanced

(* A fill turns the maker's reserved output into an allowance of the pool,  *)
(* and the payment the contract holds into inventory of the maker.          *)
LEMMA InvokeInv ==
  ASSUME SwapInv, NEW id \in Ids, NEW secret \in Secrets, privacy_invoke(id, secret)
  PROVE  SwapInv'
<1> DEFINE m == quotes[id].maker
           b == quotes[id].buy_token
           s == quotes[id].sell_token
           amount == quotes[id].buy_amount
           price == quotes[id].sell_amount
<1>1. TypeOK /\ QuoteSound /\ \A u \in Tokens : Balanced(u)
  BY SwapInvParts
<1>2. /\ m \in Makers /\ b \in Tokens /\ s \in Tokens /\ b # s
      /\ amount \in Nat /\ price \in Nat /\ ~pulled[id] /\ quotes[id].status = 1
  BY <1>1 DEF privacy_invoke, QuoteSound, TypeOK, SwapQuote
<1>3. 2 \in 0..3 /\ quotes' = [quotes EXCEPT ![id].status = 2] /\ pulled' = pulled
  BY DEF privacy_invoke
<1>4. /\ quotes' \in [Ids -> SwapQuote]
      /\ quotes'[id].status = 2
      /\ quotes'[id].buy_token = b /\ quotes'[id].sell_token = s
      /\ quotes'[id].buy_amount = amount /\ quotes'[id].sell_amount = price
      /\ \A i \in Ids \ {id} : quotes'[i] = quotes[i]
  BY <1>1, <1>3, QuoteStatus
<1>5. amount <= liability[b]
  <2>1. HeldBy(id, b) = amount
    BY <1>2 DEF HeldBy
  <2> HIDE DEF amount, b
  <2> QED BY <1>1, <1>2, <2>1, FreeNat, QuoteSumsNat, SwapNumbers DEF Balanced
<1>6. TypeOK'
  <2>1. available' \in [Makers -> [Tokens -> Nat]]
    BY <1>1, <1>2 DEF privacy_invoke, TypeOK
  <2>2. liability' \in [Tokens -> Nat]
    BY <1>1, <1>2, <1>5 DEF privacy_invoke, TypeOK
  <2>3. allowance' \in [Tokens -> Nat]
    BY <1>1, <1>2 DEF privacy_invoke, Approved, TypeOK
  <2> QED BY <1>1, <1>4, <2>1, <2>2, <2>3 DEF privacy_invoke, TypeOK, BookTypeOK
<1>7. QuoteSound'
  <2>1. /\ quotes'[id].maker = quotes[id].maker
        /\ quotes'[id].expires_at = quotes[id].expires_at
    BY <1>1, <1>3, QuoteStatus
  <2> QED BY <1>1, <1>2, <1>4, <2>1 DEF privacy_invoke, QuoteSound
<1>8. ASSUME NEW u \in Tokens PROVE Balanced(u)'
  <2> DEFINE d == IF u = b THEN amount ELSE 0
             p == IF u = s THEN price ELSE 0
  <2>1. /\ available'[m][u] = available[m][u] + p
        /\ liability'[u] = liability[u] + p - d
        /\ balance'[u] = balance[u]
        /\ allowance'[u] = allowance[u] + d /\ received'[u] = received[u]
        /\ \A n \in Makers \ {m} : available'[n][u] = available[n][u]
    BY <1>1, <1>2 DEF privacy_invoke, Approved, TypeOK
  <2>2. d \in Nat /\ p \in Nat
    BY <1>2
  <2>3. /\ HeldBy(id, u) = d /\ HeldBy(id, u)' = 0
        /\ UnpulledBy(id, u) = 0 /\ UnpulledBy(id, u)' = d
        /\ SoldBy(id, u) = 0 /\ SoldBy(id, u)' = p
    BY <1>2, <1>3, <1>4 DEF HeldBy, UnpulledBy, SoldBy
  <2>4. balance[u] >= liability[u] + allowance[u] + p
    <3>1. CASE u = s
      BY <1>1, <1>2, <3>1, SwapNumbers DEF privacy_invoke, Reserved
    <3>2. CASE u # s
      BY <1>1, <3>2, SwapNumbers DEF Balanced, Backed, Reserved
    <3> QED BY <3>1, <3>2
  <2> HIDE DEF d, p, m, b, s, amount, price
  <2>5. /\ Held(u)' = Held(u) + (HeldBy(id, u)' - HeldBy(id, u))
        /\ Unpulled(u)' = Unpulled(u) + (UnpulledBy(id, u)' - UnpulledBy(id, u))
        /\ Sold(u)' = Sold(u) + (SoldBy(id, u)' - SoldBy(id, u))
    BY <1>1, <1>3, <1>4, <1>6, QuoteMoves
  <2>6. Free(u)' = Free(u) + p
    BY <1>1, <1>2, <1>6, <2>1, <2>2, FreeMoves, FreeNat, SwapNumbers
  <2>7. /\ Free(u) \in Nat /\ Held(u) \in Nat /\ Unpulled(u) \in Nat /\ Sold(u) \in Nat
        /\ liability[u] \in Nat /\ balance[u] \in Nat /\ allowance[u] \in Nat
        /\ received[u] \in Nat
    BY <1>1, FreeNat, QuoteSumsNat, SwapNumbers
  <2>8. /\ Held(u)' = Held(u) - d /\ Unpulled(u)' = Unpulled(u) + d /\ Sold(u)' = Sold(u) + p
    BY <2>2, <2>3, <2>5, <2>7
  <2>9. /\ liability[u] = Free(u) + Held(u)
        /\ allowance[u] = Unpulled(u)
        /\ balance[u] + Sold(u) = received[u] + liability[u] + allowance[u]
    BY <1>1 DEF Balanced
  <2>10. liability'[u] = Free(u)' + Held(u)' /\ allowance'[u] = Unpulled(u)'
    BY <2>1, <2>2, <2>6, <2>7, <2>8, <2>9
  <2>11. balance'[u] >= liability'[u] + allowance'[u]
    BY <2>1, <2>2, <2>4, <2>7
  <2>12. balance'[u] + Sold(u)' = received'[u] + liability'[u] + allowance'[u]
    BY <2>1, <2>2, <2>7, <2>8, <2>9
  <2> QED BY <2>10, <2>11, <2>12 DEF Balanced, Backed, Reserved
<1> QED BY <1>6, <1>7, <1>8 DEF SwapInv, LiabilityExact, Solvent, SurplusExact, Balanced

LEMMA PullInv ==
  ASSUME SwapInv, NEW id \in Ids, PullNote(id)
  PROVE  SwapInv'
<1> DEFINE b == quotes[id].buy_token
           amount == quotes[id].buy_amount
<1>1. TypeOK /\ QuoteSound /\ \A u \in Tokens : Balanced(u)
  BY SwapInvParts
<1>2. /\ b \in Tokens /\ amount \in Nat /\ ~pulled[id] /\ quotes[id].status = 2
      /\ quotes' = quotes /\ pulled'[id] = TRUE
      /\ \A i \in Ids \ {id} : pulled'[i] = pulled[i]
      /\ pulled' \in [Ids -> BOOLEAN]
  BY <1>1 DEF PullNote, QuoteSound, TypeOK, SwapQuote
<1>3. TypeOK'
  <2>1. /\ allowance' \in [Tokens -> Nat] /\ balance' \in [Tokens -> Nat]
        /\ outside' \in [Tokens -> Nat]
    BY <1>1, <1>2 DEF PullNote, TypeOK
  <2> QED BY <1>1, <1>2, <2>1 DEF PullNote, TypeOK, BookTypeOK
<1>4. QuoteSound'
  BY <1>1, <1>2 DEF PullNote, QuoteSound
<1>5. ASSUME NEW u \in Tokens PROVE Balanced(u)'
  <2> DEFINE d == IF u = b THEN amount ELSE 0
  <2>1. /\ liability'[u] = liability[u] /\ balance'[u] = balance[u] - d
        /\ allowance'[u] = allowance[u] - d /\ received'[u] = received[u]
    BY <1>1, <1>2 DEF PullNote, TypeOK
  <2>2. d \in Nat
    BY <1>2
  <2>3. /\ HeldBy(id, u)' = HeldBy(id, u) /\ SoldBy(id, u)' = SoldBy(id, u)
        /\ UnpulledBy(id, u) = d /\ UnpulledBy(id, u)' = 0
    BY <1>2 DEF HeldBy, UnpulledBy, SoldBy
  <2>4. HeldBy(id, u) \in Nat /\ SoldBy(id, u) \in Nat
    BY <1>1 DEF HeldBy, SoldBy, TypeOK, SwapQuote
  <2>5. Free(u)' = Free(u)
    BY DEF PullNote, Free
  <2> HIDE DEF d, b, amount
  <2>6. /\ Held(u)' = Held(u) + (HeldBy(id, u)' - HeldBy(id, u))
        /\ Unpulled(u)' = Unpulled(u) + (UnpulledBy(id, u)' - UnpulledBy(id, u))
        /\ Sold(u)' = Sold(u) + (SoldBy(id, u)' - SoldBy(id, u))
    BY <1>1, <1>2, <1>3, QuoteMoves
  <2> QED BY <1>1, <2>1, <2>2, <2>3, <2>4, <2>5, <2>6, FreeNat, QuoteSumsNat, SwapNumbers
          DEF Balanced, Backed, Reserved
<1> QED BY <1>3, <1>4, <1>5 DEF SwapInv, LiabilityExact, Solvent, SurplusExact, Balanced

(* The book changes nothing the accounts depend on, and never overwrites a  *)
(* request that exists.                                                     *)
LEMMA BookKeepsSwap ==
  ASSUME SwapInv, RegistryExact, Tick \/ BookNext, UNCHANGED swapVars
  PROVE  SwapInv'
<1>1. TypeOK /\ QuoteSound /\ \A u \in Tokens : Balanced(u)
  BY SwapInvParts
<1>2. BookTypeOK'
  <2>1. BookInv
    BY <1>1 DEF TypeOK, BookInv
  <2>2. BookInv'
    BY <2>1, BookStep DEF bookState
  <2> QED BY <2>2 DEF BookInv
<1>3. TypeOK'
  BY <1>1, <1>2 DEF TypeOK, swapVars
<1>4. ASSUME NEW id \in Ids, requests[id].status # 0
      PROVE  /\ requests'[id].status # 0
             /\ requests'[id].maker = requests[id].maker
             /\ requests'[id].expires_at = requests[id].expires_at
  <2> DEFINE Kept == /\ requests'[id].status # 0
                     /\ requests'[id].maker = requests[id].maker
                     /\ requests'[id].expires_at = requests[id].expires_at
  <2> USE <1>1, <1>4 DEF TypeOK, BookTypeOK, Request
  <2>1. ASSUME Tick PROVE Kept
    BY <2>1 DEF Tick, bookVars
  <2>2. ASSUME NEW m \in Makers, NEW valid_until \in Stamps, register(m, valid_until)
        PROVE  Kept
    BY <2>2 DEF register
  <2>3. ASSUME NEW m \in Makers, deactivate(m)
        PROVE  Kept
    BY <2>3 DEF deactivate
  <2>4. ASSUME NEW m \in Makers, NEW i \in Ids, respond(m, i)
        PROVE  Kept
    BY <2>4 DEF respond
  <2>5. ASSUME NEW taker \in Takers, NEW i \in Ids, cancel(taker, i)
        PROVE  Kept
    BY <2>5 DEF cancel
  <2>6. ASSUME NEW taker \in Takers, NEW i \in Ids, NEW m \in Makers,
               NEW revision \in 1..MaxRevision, NEW expires_at \in Stamps,
               request(taker, i, m, revision, expires_at)
        PROVE  Kept
    BY <2>6 DEF request
  <2> HIDE DEF Kept
  <2>7. Kept
    BY <2>1, <2>2, <2>3, <2>4, <2>5, <2>6 DEF BookNext
  <2> QED BY <2>7 DEF Kept
<1>5. QuoteSound'
  BY <1>1, <1>4 DEF QuoteSound, swapVars
<1>6. ASSUME NEW u \in Tokens PROVE Balanced(u)'
  BY <1>1, QuotesStay DEF swapVars, Balanced, Backed, Reserved, Free
<1> QED BY <1>3, <1>5, <1>6 DEF SwapInv, LiabilityExact, Solvent, SurplusExact, Balanced

LEMMA SwapStep ==
  ASSUME SwapInv, RegistryExact, [Next]_vars
  PROVE  SwapInv'
<1>1. CASE InventoryNext
  BY <1>1, DepositInv, WithdrawInv DEF InventoryNext
<1>2. CASE QuoteNext
  BY <1>2, ReserveInv, ReleaseInv, InvokeInv DEF QuoteNext
<1>3. CASE PoolNext
  BY <1>3, PayInv, PullInv DEF PoolNext
<1>4. CASE (Tick \/ BookNext) /\ UNCHANGED swapVars
  BY <1>4, BookKeepsSwap
<1>5. CASE UNCHANGED vars
  BY <1>5 DEF vars, SwapInv, TypeOK, BookTypeOK, QuoteSound, LiabilityExact, Solvent,
     SurplusExact, Backed, Reserved, Free, Held, Unpulled, Sold, HeldBy, UnpulledBy, SoldBy
<1> QED BY <1>1, <1>2, <1>3, <1>4, <1>5 DEF Next

LEMMA SwapInvariant == Spec => []SwapInv
<1>1. SwapInv /\ RegistryExact /\ [Next]_vars => SwapInv'
  BY SwapStep
<1> QED BY SwapInitInv, RegistryIsExact, <1>1, PTL DEF Spec

(* private_swap.cairo owes its makers exactly their free inventory and what *)
(* their open quotes hold, in every token.                                  *)
THEOREM LiabilityIsExact == Spec => []LiabilityExact
<1>1. SwapInv => LiabilityExact
  BY DEF SwapInv
<1> QED BY <1>1, SwapInvariant, PTL

(* The contract can pay what it owes together with every output the pool    *)
(* has not pulled, and the pool's allowance is exactly those outputs.       *)
THEOREM SwapIsSolvent == Spec => []Solvent
<1>1. SwapInv => Solvent
  BY DEF SwapInv
<1> QED BY <1>1, SwapInvariant, PTL

(* Every fill was paid with tokens sent to the contract for it: neither     *)
(* inventory nor an unpulled output is ever counted as payment.             *)
THEOREM FillsArePaid == Spec => []PaidInFull
<1>1. SwapInv => PaidInFull
  <2>1. SUFFICES ASSUME SwapInv, NEW t \in Tokens
                 PROVE  Sold(t) <= received[t]
    BY DEF PaidInFull
  <2>2. TypeOK /\ Balanced(t)
    BY <2>1, SwapInvParts
  <2> QED BY <2>2, QuoteSumsNat, SwapNumbers DEF Balanced, Backed, Reserved
<1> QED BY <1>1, SwapInvariant, PTL

(* A quote answers an open request to its own maker under the maker's       *)
(* current key, and never outlives that request.                            *)
THEOREM QuotesFollowRequests == Spec => QuoteFollowsRequest
<1> DEFINE Follows ==
      \A id \in Ids :
        /\ quotes'[id].status # 0 =>
             /\ requests'[id].maker = quotes'[id].maker
             /\ quotes'[id].expires_at <= requests'[id].expires_at
        /\ quotes[id].status = 0 /\ quotes'[id].status = 1 =>
             requests[id].revision = makers[requests[id].maker].revision
<1>1. SwapInv /\ SwapInv' /\ [Next]_vars => [Follows]_vars
  <2>1. SUFFICES ASSUME SwapInv, SwapInv', Next, NEW id \in Ids,
                        quotes[id].status = 0, quotes'[id].status = 1
                 PROVE  requests[id].revision = makers[requests[id].maker].revision
    BY DEF SwapInv, QuoteSound
  <2> USE DEF SwapInv, TypeOK
  <2>2. CASE InventoryNext
    BY <2>1, <2>2 DEF InventoryNext, deposit_inventory, withdraw_inventory
  <2>3. ASSUME NEW i \in Ids, NEW m \in Makers, NEW terms \in Terms, reserve_quote(m, i, terms)
        PROVE  requests[id].revision = makers[requests[id].maker].revision
    BY <2>1, <2>3 DEF reserve_quote, RequestOpenFor, ActiveKey
  <2>4. ASSUME NEW i \in Ids, release_expired(i)
        PROVE  requests[id].revision = makers[requests[id].maker].revision
    BY <2>1, <2>4 DEF release_expired, SwapQuote
  <2>5. ASSUME NEW i \in Ids, NEW secret \in Secrets, privacy_invoke(i, secret)
        PROVE  requests[id].revision = makers[requests[id].maker].revision
    BY <2>1, <2>5 DEF privacy_invoke, SwapQuote
  <2>6. CASE PoolNext
    BY <2>1, <2>6 DEF PoolNext, Pay, PullNote
  <2>7. CASE UNCHANGED swapVars
    BY <2>1, <2>7 DEF swapVars
  <2> QED BY <2>1, <2>2, <2>3, <2>4, <2>5, <2>6, <2>7 DEF Next, QuoteNext
<1> QED BY <1>1, SwapInvariant, PTL DEF Spec, QuoteFollowsRequest

=============================================================================
