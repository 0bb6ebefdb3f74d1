---------------------------- MODULE PrivateSwap ----------------------------
(***************************************************************************)
(* App20PrivateSwap (cairo/src/private_swap.cairo): maker inventory, fixed *)
(* quotes reserved from it, and their atomic fill by the privacy pool,     *)
(* composed with the maker book it reads.                                  *)
(*                                                                         *)
(* The entered flag is set at the start and cleared at the end of every    *)
(* entry point, so no call of the contract runs inside another one and     *)
(* each entry point is one action.  Tokens are ERC-20s that do what they   *)
(* say.  The pool, external, sends a taker's payment, invokes the helper   *)
(* and pulls the output notes afterwards, in any order over several quotes.*)
(***************************************************************************)
EXTENDS MakerBook, FiniteSets, Functions

CONSTANTS
  Tokens,      \* token addresses
  Amounts,     \* amounts a caller may name
  Secrets,     \* quote secrets, identified with their commitments
  NoToken,     \* the token of an absent quote
  NoSecret,    \* the commitment of an absent quote
  Supply       \* bound: what outside holders own of each token

ASSUME PrivateSwapAssumption ==
  /\ NoToken \notin Tokens
  /\ NoSecret \notin Secrets
  /\ Amounts \subseteq Nat \ {0}
  /\ Supply \in Nat
  /\ IsFiniteSet(Makers)
  /\ IsFiniteSet(Ids)

VARIABLES
  available,  \* available: uncommitted inventory by maker and token
  liability,  \* liability: what the contract owes makers in each token
  quotes,     \* quotes
  balance,    \* the contract's balance of each token (ERC-20, external)
  allowance,  \* what the pool may still pull of each token (ERC-20)
  outside,    \* what everybody else holds of each token (ERC-20)
  pulled,     \* the pool has pulled the output note of this quote
  received    \* history: tokens the pool and strangers sent the contract

swapVars == <<available, liability, quotes, balance, allowance, outside,
              pulled, received>>

vars == <<now, makers, accounts, requests, available, liability, quotes,
          balance, allowance, outside, pulled, received>>

(* status: 0 absent, 1 reserved, 2 filled, 3 released *)
SwapQuote ==
  [maker: Makers \cup {NoOne}, sell_token: Tokens \cup {NoToken},
   buy_token: Tokens \cup {NoToken}, sell_amount: Nat, buy_amount: Nat,
   commitment: Secrets \cup {NoSecret}, expires_at: Nat, status: 0..3]

NoQuote ==
  [maker |-> NoOne, sell_token |-> NoToken, buy_token |-> NoToken,
   sell_amount |-> 0, buy_amount |-> 0, commitment |-> NoSecret,
   expires_at |-> 0, status |-> 0]

TypeOK ==
  /\ BookTypeOK
  /\ available \in [Makers -> [Tokens -> Nat]]
  /\ liability \in [Tokens -> Nat]
  /\ quotes \in [Ids -> SwapQuote]
  /\ balance \in [Tokens -> Nat]
  /\ allowance \in [Tokens -> Nat]
  /\ outside \in [Tokens -> Nat]
  /\ pulled \in [Ids -> BOOLEAN]
  /\ received \in [Tokens -> Nat]

Init ==
  /\ BookInit
  /\ available = [m \in Makers |-> [t \in Tokens |-> 0]]
  /\ liability = [t \in Tokens |-> 0]
  /\ quotes = [id \in Ids |-> NoQuote]
  /\ balance = [t \in Tokens |-> 0]
  /\ allowance = [t \in Tokens |-> 0]
  /\ outside = [t \in Tokens |-> Supply]
  /\ pulled = [id \in Ids |-> FALSE]
  /\ received = [t \in Tokens |-> 0]

-----------------------------------------------------------------------------

\* Faulty variant: the pool's outstanding allowance is not set aside.
Reserved_LiabilityOnly(t) == liability[t]

(* backing: what is owed of a token.  Output notes are pulled after the     *)
(* helper returns, so an unpulled allowance is owed as well.                *)
Reserved(t) == liability[t] + allowance[t]

Backed(t) == balance[t] >= Reserved(t)

deposit_inventory(m, t, amount) ==
  /\ Backed(t)
  /\ outside[t] >= amount
  /\ outside' = [outside EXCEPT ![t] = @ - amount]
  /\ balance' = [balance EXCEPT ![t] = @ + amount]
  /\ liability' = [liability EXCEPT ![t] = @ + amount]
  /\ available' = [available EXCEPT ![m][t] = @ + amount]
  /\ UNCHANGED <<now, makers, accounts, requests, quotes, allowance, pulled, received>>

\* Faulty variant: the debt of a withdrawal is not written off.
withdraw_inventory_KeepDebt(m, t, amount) ==
  /\ available[m][t] >= amount
  /\ Backed(t)
  /\ available' = [available EXCEPT ![m][t] = @ - amount]
  /\ balance' = [balance EXCEPT ![t] = @ - amount]
  /\ outside' = [outside EXCEPT ![t] = @ + amount]
  /\ UNCHANGED <<now, makers, accounts, requests, liability, quotes, allowance, pulled, received>>

withdraw_inventory(m, t, amount) ==
  /\ available[m][t] >= amount
  /\ Backed(t)
  /\ available' = [available EXCEPT ![m][t] = @ - amount]
  /\ liability' = [liability EXCEPT ![t] = @ - amount]
  /\ balance' = [balance EXCEPT ![t] = @ - amount]
  /\ outside' = [outside EXCEPT ![t] = @ + amount]
  /\ UNCHANGED <<now, makers, accounts, requests, quotes, allowance, pulled, received>>

\* Faulty variant: the request's key is not compared with the maker's.
RequestOpenFor_AnyKey(m, id, expires_at) ==
  /\ requests[id].maker = m
  /\ requests[id].status = 1
  /\ makers[m].valid_until > now
  /\ expires_at > now
  /\ expires_at <= requests[id].expires_at

(* The maker's own open request, under its current key, not yet expired. *)
RequestOpenFor(m, id, expires_at) ==
  /\ requests[id].maker = m
  /\ requests[id].status = 1
  /\ ActiveKey(m, requests[id].revision)
  /\ expires_at > now
  /\ expires_at <= requests[id].expires_at

reserve_quote(m, id, terms) ==
  /\ quotes[id].status = 0
  /\ terms.sell_token # terms.buy_token
  /\ RequestOpenFor(m, id, terms.expires_at)
  /\ available[m][terms.buy_token] >= terms.buy_amount
  /\ Backed(terms.buy_token)
  /\ available' = [available EXCEPT ![m][terms.buy_token] = @ - terms.buy_amount]
  /\ quotes' = [quotes EXCEPT ![id] =
       [maker |-> m, sell_token |-> terms.sell_token, buy_token |-> terms.buy_token,
        sell_amount |-> terms.sell_amount, buy_amount |-> terms.buy_amount,
        commitment |-> terms.commitment, expires_at |-> terms.expires_at, status |-> 1]]
  /\ UNCHANGED <<now, makers, accounts, requests, liability, balance, allowance,
                 outside, pulled, received>>

\* Faulty variant: only while the maker's key is active.
release_expired_ActiveKey(id) ==
  LET q == quotes[id]
  IN  /\ q.status = 1
      /\ now >= q.expires_at
      /\ ActiveKey(q.maker, requests[id].revision)
      /\ quotes' = [quotes EXCEPT ![id].status = 3]
      /\ available' = [available EXCEPT ![q.maker][q.buy_token] = @ + q.buy_amount]
      /\ UNCHANGED <<now, makers, accounts, requests, liability, balance,
                     allowance, outside, pulled, received>>

release_expired(id) ==
  LET q == quotes[id]
  IN  /\ q.status = 1
      /\ now >= q.expires_at
      /\ quotes' = [quotes EXCEPT ![id].status = 3]
      /\ available' = [available EXCEPT ![q.maker][q.buy_token] = @ + q.buy_amount]
      /\ UNCHANGED <<now, makers, accounts, requests, liability, balance,
                     allowance, outside, pulled, received>>

\* Faulty variant: the allowance of an earlier fill is overwritten.
Approved_Overwrite(q) == [allowance EXCEPT ![q.buy_token] = q.buy_amount]

(* approve adds the output to what the pool has not pulled yet. *)
Approved(q) == [allowance EXCEPT ![q.buy_token] = @ + q.buy_amount]

(* privacy_invoke, by the pool with the taker's secret. *)
privacy_invoke(id, secret) ==
  LET q == quotes[id]
  IN  /\ q.status = 1
      /\ now < q.expires_at
      /\ secret = q.commitment
      /\ Backed(q.sell_token)
      /\ balance[q.sell_token] - Reserved(q.sell_token) >= q.sell_amount
      /\ Backed(q.buy_token)
      /\ quotes' = [quotes EXCEPT ![id].status = 2]
      /\ liability' = [liability EXCEPT ![q.sell_token] = @ + q.sell_amount,
                                        ![q.buy_token] = @ - q.buy_amount]
      /\ available' = [available EXCEPT ![q.maker][q.sell_token] = @ + q.sell_amount]
      /\ allowance' = Approved(q)
      /\ UNCHANGED <<now, makers, accounts, requests, balance, outside, pulled, received>>

(* External: the pool pays a taker's note, or anybody, into the contract. *)
Pay(t, amount) ==
  /\ outside[t] >= amount
  /\ outside' = [outside EXCEPT ![t] = @ - amount]
  /\ balance' = [balance EXCEPT ![t] = @ + amount]
  /\ received' = [received EXCEPT ![t] = @ + amount]
  /\ UNCHANGED <<now, makers, accounts, requests, available, liability, quotes,
                 allowance, pulled>>

(* External: the pool pulls the output note of a filled quote. *)
PullNote(id) ==
  LET q == quotes[id]
  IN  /\ q.status = 2
      /\ ~pulled[id]
      /\ allowance[q.buy_token] >= q.buy_amount
      /\ balance[q.buy_token] >= q.buy_amount
      /\ pulled' = [pulled EXCEPT ![id] = TRUE]
      /\ allowance' = [allowance EXCEPT ![q.buy_token] = @ - q.buy_amount]
      /\ balance' = [balance EXCEPT ![q.buy_token] = @ - q.buy_amount]
      /\ outside' = [outside EXCEPT ![q.buy_token] = @ + q.buy_amount]
      /\ UNCHANGED <<now, makers, accounts, requests, available, liability,
                     quotes, received>>

(* The terms a maker may quote. *)
Terms ==
  [sell_token: Tokens, buy_token: Tokens, sell_amount: Amounts,
   buy_amount: Amounts, commitment: Secrets, expires_at: 1..MaxTime]

InventoryNext ==
  \E m \in Makers, t \in Tokens, amount \in Amounts :
    deposit_inventory(m, t, amount) \/ withdraw_inventory(m, t, amount)

QuoteNext ==
  \E id \in Ids :
    \/ \E m \in Makers, terms \in Terms : reserve_quote(m, id, terms)
    \/ release_expired(id)
    \/ \E secret \in Secrets : privacy_invoke(id, secret)

PoolNext ==
  \/ \E t \in Tokens, amount \in Amounts : Pay(t, amount)
  \/ \E id \in Ids : PullNote(id)

Next ==
  \/ InventoryNext
  \/ QuoteNext
  \/ PoolNext
  \/ (Tick \/ BookNext) /\ UNCHANGED swapVars

Spec == Init /\ [][Next]_vars

-----------------------------------------------------------------------------
(* Properties *)

(* What a quote holds of a token while it is open, what the pool may still  *)
(* pull for it once it is filled, and what its fill was paid.               *)
HeldBy(id, t) ==
  IF quotes[id].status = 1 /\ quotes[id].buy_token = t
    THEN quotes[id].buy_amount ELSE 0

UnpulledBy(id, t) ==
  IF quotes[id].status = 2 /\ ~pulled[id] /\ quotes[id].buy_token = t
    THEN quotes[id].buy_amount ELSE 0

SoldBy(id, t) ==
  IF quotes[id].status = 2 /\ quotes[id].sell_token = t
    THEN quotes[id].sell_amount ELSE 0

Free(t) == SumFunction([m \in Makers |-> available[m][t]])

Held(t) == SumFunction([id \in Ids |-> HeldBy(id, t)])

Unpulled(t) == SumFunction([id \in Ids |-> UnpulledBy(id, t)])

Sold(t) == SumFunction([id \in Ids |-> SoldBy(id, t)])

(* The contract owes exactly what makers have: their free inventory and     *)
(* what is reserved under open quotes, token by token.                      *)
LiabilityExact == \A t \in Tokens : liability[t] = Free(t) + Held(t)

(* It can pay all of it at any time, next to every output note the pool has *)
(* not pulled yet: backing never finds the contract insolvent and no pull   *)
(* fails, whatever the order of fills, pulls, deposits and withdrawals.     *)
Solvent == \A t \in Tokens : Backed(t) /\ allowance[t] = Unpulled(t)

(* Every fill was paid for with tokens of its own.  Neither a maker's       *)
(* inventory nor the unpulled output of another fill in the same batch      *)
(* counts as payment (the allowance in backing).                            *)
PaidInFull == \A t \in Tokens : Sold(t) <= received[t]

(* A quote is only ever backed by a request to its own maker, and it never  *)
(* outlives that request; under a key that was rotated or deactivated no    *)
(* new quote appears.                                                       *)
QuoteFollowsRequest ==
  [][\A id \in Ids :
       /\ quotes'[id].status # 0 =>
            /\ requests'[id].maker = quotes'[id].maker
            /\ quotes'[id].expires_at <= requests'[id].expires_at
       /\ quotes[id].status = 0 /\ quotes'[id].status = 1 =>
            requests[id].revision = makers[requests[id].maker].revision]_vars

=============================================================================
