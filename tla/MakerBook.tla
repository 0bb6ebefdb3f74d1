----------------------------- MODULE MakerBook -----------------------------
(***************************************************************************)
(* App20MakerBook (cairo/src/maker_book.cairo): the on-chain registry of   *)
(* maker keys and of the quote requests addressed to them.  Every external *)
(* call is one action; block time only grows.                              *)
(***************************************************************************)
EXTENDS Integers, Sequences

CONSTANTS
  Makers,          \* accounts that may register a key
  Takers,          \* accounts that may ask for a quote
  Ids,             \* request ids (felts other than zero)
  NoOne,           \* the zero address of an absent request
  MaxTime,         \* bound: block timestamps 0..MaxTime
  MaxRevision,     \* bound: key revisions of one maker
  MaxKeyLife,      \* 2592000 seconds in the code
  MaxRequestLife   \* 3600 seconds in the code

ASSUME MakerBookAssumption ==
  /\ NoOne \notin Makers \cup Takers
  /\ MaxTime \in Nat
  /\ MaxRevision \in Nat
  /\ MaxKeyLife \in Nat
  /\ MaxRequestLife \in Nat

VARIABLES
  now,       \* block timestamp
  makers,    \* makers: the revision and validity of each account's key
  accounts,  \* accounts and count: the registry clients enumerate
  requests   \* requests

bookVars == <<makers, accounts, requests>>

(* status: 0 absent, 1 open, 2 answered, 3 cancelled *)
Request == [taker: Takers \cup {NoOne}, maker: Makers \cup {NoOne},
            revision: Nat, expires_at: Nat, status: 0..3]

NoRequest == [taker |-> NoOne, maker |-> NoOne, revision |-> 0,
              expires_at |-> 0, status |-> 0]

BookTypeOK ==
  /\ now \in 0..MaxTime
  /\ makers \in [Makers -> [revision: Nat, valid_until: Nat]]
  /\ accounts \in Seq(Makers)
  /\ requests \in [Ids -> Request]

BookInit ==
  /\ now = 0
  /\ makers = [m \in Makers |-> [revision |-> 0, valid_until |-> 0]]
  /\ accounts = << >>
  /\ requests = [id \in Ids |-> NoRequest]

(* External: a block is produced. *)
Tick ==
  /\ now < MaxTime
  /\ now' = now + 1
  /\ UNCHANGED bookVars

\* Faulty variant: every registration is listed.
Listed_Always(m) == Append(accounts, m)

(* The registry after m registers: an account is listed the first time. *)
Listed(m) ==
  IF makers[m].revision = 0 THEN Append(accounts, m) ELSE accounts

(* Every change of a key, deactivation included, takes a new revision. *)
NextRevision(m) == makers[m].revision + 1

register(m, valid_until) ==
  /\ makers[m].revision < MaxRevision
  /\ valid_until > now
  /\ valid_until - now <= MaxKeyLife
  /\ accounts' = Listed(m)
  /\ makers' = [makers EXCEPT ![m] =
       [revision |-> NextRevision(m), valid_until |-> valid_until]]
  /\ UNCHANGED <<now, requests>>

deactivate(m) ==
  /\ makers[m].revision \in 1..(MaxRevision - 1)
  /\ makers' = [makers EXCEPT ![m] =
       [revision |-> NextRevision(m), valid_until |-> 0]]
  /\ UNCHANGED <<now, accounts, requests>>

(* The key a request was made for is still the maker's, and valid. *)
ActiveKey(m, revision) ==
  makers[m].revision = revision /\ makers[m].valid_until > now

request(taker, id, m, revision, expires_at) ==
  /\ requests[id].status = 0
  /\ makers[m].revision # 0
  /\ ActiveKey(m, revision)
  /\ expires_at > now
  /\ expires_at - now <= MaxRequestLife
  /\ expires_at <= makers[m].valid_until
  /\ requests' = [requests EXCEPT ![id] =
       [taker |-> taker, maker |-> m, revision |-> revision,
        expires_at |-> expires_at, status |-> 1]]
  /\ UNCHANGED <<now, makers, accounts>>

\* Faulty variant: the key is not looked up again.
respond_AnyKey(m, id) ==
  /\ requests[id].status = 1
  /\ requests[id].expires_at > now
  /\ requests[id].maker = m
  /\ requests' = [requests EXCEPT ![id].status = 2]
  /\ UNCHANGED <<now, makers, accounts>>

respond(m, id) ==
  /\ requests[id].status = 1
  /\ requests[id].expires_at > now
  /\ requests[id].maker = m
  /\ ActiveKey(m, requests[id].revision)
  /\ requests' = [requests EXCEPT ![id].status = 2]
  /\ UNCHANGED <<now, makers, accounts>>

cancel(taker, id) ==
  /\ requests[id].status = 1
  /\ requests[id].taker = taker
  /\ requests' = [requests EXCEPT ![id].status = 3]
  /\ UNCHANGED <<now, makers, accounts>>

(* Timestamps a caller may name. *)
Stamps == 1..(MaxTime + MaxKeyLife)

BookNext ==
  \/ \E m \in Makers :
       \/ \E valid_until \in Stamps : register(m, valid_until)
       \/ deactivate(m)
       \/ \E id \in Ids : respond(m, id)
  \/ \E taker \in Takers, id \in Ids :
       \/ \E m \in Makers, revision \in 1..MaxRevision, expires_at \in Stamps :
            request(taker, id, m, revision, expires_at)
       \/ cancel(taker, id)

BookSpec ==
  BookInit /\ [][Tick \/ BookNext]_<<now, makers, accounts, requests>>

-----------------------------------------------------------------------------

(* The registry lists exactly the accounts that ever had a key, each once,  *)
(* whatever they register, rotate, deactivate and register again: a client  *)
(* that walks maker_at(0..maker_count-1) meets every maker, none twice.     *)
RegistryExact ==
  /\ \A m \in Makers : makers[m].revision > 0 <=> \E i \in DOMAIN accounts : accounts[i] = m
  /\ \A i, j \in DOMAIN accounts : accounts[i] = accounts[j] => i = j

(* Once its key is rotated or deactivated an open request is dead: no later *)
(* registration revives it, it can only be cancelled.                       *)
RotationIsFinal ==
  [][\A id \in Ids :
       requests[id].status = 1 /\ requests[id].revision # makers[requests[id].maker].revision =>
         requests'[id].status \in {1, 3}]_<<now, makers, accounts, requests>>

=============================================================================
