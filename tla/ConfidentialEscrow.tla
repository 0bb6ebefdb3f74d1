------------------------- MODULE ConfidentialEscrow -------------------------
(***************************************************************************)
(* App20ConfidentialEscrow (cairo/src/confidential_escrow.cairo): a policy *)
(* account inside the privacy pool that two parties control together until *)
(* a deadline and separately after it.                                     *)
(*                                                                         *)
(* The account never holds tokens: its notes live in the pool.  A pool     *)
(* transaction spends notes and creates notes; the pool (external) keeps   *)
(* the sums equal and refuses a note that is spent already.  What parties  *)
(* sign is up to them: the policy has to hold for every signed operation.  *)
(* Party "a" brings token "a" and party "b" token "b".                     *)
(***************************************************************************)
EXTENDS Integers, FiniteSets, Functions

CONSTANTS
  Agreed,      \* terms: the amount of each token to be traded
  Deadline,    \* deadline
  MaxTime,     \* bound: block timestamps 0..MaxTime
  MaxNotes     \* bound: notes ever paid into the escrow

Roles == {"a", "b"}

Other(r) == IF r = "a" THEN "b" ELSE "a"

ASSUME ConfidentialEscrowAssumption ==
  /\ Agreed \in [Roles -> Nat \ {0}]
  /\ Deadline \in Nat \ {0}
  /\ MaxTime \in Nat
  /\ MaxNotes \in Nat

VARIABLES
  now,         \* block timestamp
  registered,  \* the account's viewing key is registered in the pool
  settled,     \* settled
  notes,       \* the account's unspent notes (pool, external)
  made,        \* number of notes ever paid into the escrow
  put,         \* history: what was paid into the escrow, by token
  paid,        \* history: what it paid out, by token and recipient
  consent      \* history: the signers of every operation that spent a token

escrowVars == <<registered, settled, notes, made, put, paid, consent>>

(* Anybody else's address stands for every other recipient. *)
Recipients == Roles \cup {"other"}

Modes == {"setup", "settle", "refundA", "refundB"}

Notes == [id: 1..MaxNotes, token: Roles, amount: Nat \ {0}]

EscrowTypeOK ==
  /\ now \in 0..MaxTime
  /\ registered \in BOOLEAN
  /\ settled \in BOOLEAN
  /\ notes \subseteq Notes
  /\ made \in 0..MaxNotes
  /\ put \in [Roles -> Nat]
  /\ paid \in [Roles -> [Recipients -> Nat]]
  /\ consent \in [Roles -> SUBSET SUBSET Roles]

EscrowInit ==
  /\ now = 0
  /\ registered = FALSE
  /\ settled = FALSE
  /\ notes = {}
  /\ made = 0
  /\ put = [t \in Roles |-> 0]
  /\ paid = [t \in Roles |-> [p \in Recipients |-> 0]]
  /\ consent = [t \in Roles |-> {}]

(* What notes are worth in a token, and what an operation pays out of it. *)
Value(ns, t) == SumFunction([n \in ns |-> IF n.token = t THEN n.amount ELSE 0])

Total(out) == out["a"] + out["b"] + out["other"]

NoOuts == [t \in Roles |-> [p \in Recipients |-> 0]]

-----------------------------------------------------------------------------
(* The policy *)

RefundOf(mode) == IF mode = "refundA" THEN "a" ELSE "b"

\* Faulty variant: a refund may touch both assets.
token_allowed_Any(mode, t) == TRUE

token_allowed(mode, t) ==
  \/ t = "a" /\ mode # "refundB"
  \/ t = "b" /\ mode # "refundA"

(* Recipients of value outside settlement. *)
recipient_allowed(mode, p) ==
  \/ p = "a" /\ mode # "refundB"
  \/ p = "b" /\ mode # "refundA"

\* Faulty variant: surplus may go to any party.
check_trade_AnySurplus(outs) ==
  /\ outs["a"]["b"] = Agreed["a"]
  /\ outs["b"]["a"] >= Agreed["b"]
  /\ \A t \in Roles : outs[t]["other"] = 0

(* The value part of check_actions in SETTLE: exactly the agreed amounts    *)
(* change hands, and a surplus returns to its owner.                        *)
check_trade(outs) ==
  /\ \A t \in Roles : outs[t][Other(t)] = Agreed[t]
  /\ \A t \in Roles : outs[t]["other"] = 0

(* check_actions: the pool operation obeys the policy of its mode. *)
check_actions(op) ==
  /\ op.mode = "setup" => op.inputs = {} /\ op.outs = NoOuts
  /\ op.mode # "setup" => op.inputs # {}
  /\ \A n \in op.inputs : token_allowed(op.mode, n.token)
  /\ op.mode = "settle" => check_trade(op.outs)
  /\ op.mode \in {"refundA", "refundB"} =>
       /\ \A t \in Roles, p \in Recipients : op.outs[t][p] > 0 =>
            token_allowed(op.mode, t) /\ recipient_allowed(op.mode, p)
       /\ \E t \in Roles, p \in Recipients : op.outs[t][p] > 0

RequiredSigners(mode) ==
  CASE mode = "refundA" -> {"a"} [] mode = "refundB" -> {"b"} [] OTHER -> Roles

\* Faulty variant: refunds also before the deadline.
invoke_allowed_EarlyRefund(mode) ==
  mode \in {"setup", "settle"} => now < Deadline /\ ~settled

\* Faulty variant: no refunds once settled.
invoke_allowed_UnlessSettled(mode) ==
  /\ ~settled
  /\ IF mode \in {"setup", "settle"} THEN now < Deadline ELSE now >= Deadline

(* privacy_invoke_with_computation: the clock and the settled flag, at the  *)
(* time the transaction is executed and not when it was proved.             *)
invoke_allowed(mode) ==
  IF mode \in {"setup", "settle"}
    THEN now < Deadline /\ ~settled
    ELSE now >= Deadline

(* External: the pool accepts the operation's notes, and registers a key    *)
(* once.                                                                    *)
PoolAccepts(op) ==
  /\ op.inputs \subseteq notes
  /\ registered = (op.mode # "setup")
  /\ \A t \in Roles : Value(op.inputs, t) = Total(op.outs[t])

(* A proved operation can be executed now. *)
Executable(op) ==
  /\ PoolAccepts(op)
  /\ RequiredSigners(op.mode) \subseteq op.sigs
  /\ check_actions(op)
  /\ invoke_allowed(op.mode)

\* Faulty variant: a settlement is not recorded.
Execute_NotFlagged(op) ==
  /\ registered' = TRUE
  /\ notes' = notes \ op.inputs
  /\ paid' = [t \in Roles |-> [p \in Recipients |-> paid[t][p] + op.outs[t][p]]]
  /\ consent' = [t \in Roles |->
       IF \E n \in op.inputs : n.token = t THEN consent[t] \cup {op.sigs} ELSE consent[t]]
  /\ UNCHANGED <<now, settled, made, put>>

(* apply_actions of the pool with the account's callback. *)
Execute(op) ==
  /\ registered' = TRUE
  /\ settled' = (settled \/ op.mode = "settle")
  /\ notes' = notes \ op.inputs
  /\ paid' = [t \in Roles |-> [p \in Recipients |-> paid[t][p] + op.outs[t][p]]]
  /\ consent' = [t \in Roles |->
       IF \E n \in op.inputs : n.token = t THEN consent[t] \cup {op.sigs} ELSE consent[t]]
  /\ UNCHANGED <<now, made, put>>

(* External: a note for the escrow is created, by a party or by anybody,    *)
(* possibly long after it was sent.                                         *)
PayIn(t, amount) ==
  /\ registered
  /\ made < MaxNotes
  /\ made' = made + 1
  /\ notes' = notes \cup {[id |-> made + 1, token |-> t, amount |-> amount]}
  /\ put' = [put EXCEPT ![t] = @ + amount]
  /\ UNCHANGED <<now, registered, settled, paid, consent>>

(* External: a block is produced. *)
Tick ==
  /\ now < MaxTime
  /\ now' = now + 1
  /\ UNCHANGED escrowVars

(* The ways to split the value of the inputs of a token. *)
Splits(total) ==
  {f \in [Recipients -> 0..total] : Total(f) = total}

(* Whatever the parties sign: any inputs, any outputs of the same value. *)
SignedOps ==
  UNION {{[mode |-> mode, inputs |-> ns, sigs |-> sigs,
           outs |-> [t \in Roles |-> IF t = "a" THEN fa ELSE fb]] :
            mode \in Modes, sigs \in SUBSET Roles,
            fa \in Splits(Value(ns, "a")), fb \in Splits(Value(ns, "b"))} :
         ns \in SUBSET notes}

EscrowNext ==
  \/ Tick
  \/ \E t \in Roles : \E amount \in 1..Agreed[t] : PayIn(t, amount)
  \/ \E op \in SignedOps : Executable(op) /\ Execute(op)

Escrow == EscrowInit /\ [][EscrowNext]_<<now, registered, settled, notes, made, put, paid, consent>>

-----------------------------------------------------------------------------
(* Properties *)

(* The swap is atomic and nothing is lost: the counterparty gets the agreed *)
(* amount of each token if the escrow settled and nothing otherwise, no     *)
(* stranger gets anything, and the rest of what was paid in is unspent or   *)
(* went back to the asset's owner, whatever notes and operations the        *)
(* parties sign, early, late or repeatedly.                                 *)
SwapOrReturn ==
  \A t \in Roles :
    /\ paid[t][Other(t)] = (IF settled THEN Agreed[t] ELSE 0)
    /\ paid[t]["other"] = 0
    /\ put[t] = Value(notes, t) + paid[t][t] + paid[t][Other(t)]

(* A party's asset is never spent without that party's signature: alone, a  *)
(* party moves only its own asset.                                          *)
OwnConsent == \A t \in Roles : \A sigs \in consent[t] : t \in sigs

(* Refunds and settlement exclude each other in time: before the deadline   *)
(* value leaves only in the one settlement, from the deadline on only back  *)
(* to owners.                                                               *)
DeadlineSplits ==
  [][\A t \in Roles :
       /\ paid'[t][Other(t)] # paid[t][Other(t)] => now < Deadline
       /\ paid'[t][t] # paid[t][t] => now >= Deadline \/ settled' # settled]_<<now,
            registered, settled, notes, made, put, paid, consent>>

=============================================================================
