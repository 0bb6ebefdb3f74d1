------------------------- MODULE ConfidentialProofs -------------------------
(***************************************************************************)
(* Proofs about the confidential escrow account, for every agreement,      *)
(* deadline and number of notes, whatever the parties sign; and about the  *)
(* two clients that operate it, through crashes and uncertain submissions. *)
(***************************************************************************)
EXTENDS ConfidentialClient, SumProofs

-----------------------------------------------------------------------------
(* The value of notes *)

Worth(ns, t) == [n \in ns |-> IF n.token = t THEN n.amount ELSE 0]

LEMMA WorthType ==
  ASSUME NEW ns \in SUBSET Notes, NEW t
  PROVE  Worth(ns, t) \in [ns -> Nat]
<1>1. \A n \in ns : n.amount \in Nat
  BY DEF Notes
<1> QED BY <1>1 DEF Worth

(* Notes are worth a natural number. *)
LEMMA ValueType ==
  ASSUME NEW ns \in SUBSET Notes, IsFiniteSet(ns), NEW t
  PROVE  Value(ns, t) \in Nat
<1>1. Value(ns, t) = SumFunction(Worth(ns, t))
  BY DEF Value, Worth
<1> QED BY <1>1, WorthType, SumNat

LEMMA ValueNone ==
  ASSUME NEW t
  PROVE  Value({}, t) = 0
<1>1. DOMAIN Worth({}, t) = {}
  BY DEF Worth
<1>2. Value({}, t) = SumFunctionOnSet(Worth({}, t), {})
  BY <1>1 DEF Value, Worth, SumFunction
<1> QED BY <1>2, SumEmpty

(* Spending notes takes their value away. *)
LEMMA ValueSpent ==
  ASSUME NEW ns \in SUBSET Notes, IsFiniteSet(ns), NEW spent \in SUBSET ns, NEW t
  PROVE  Value(ns \ spent, t) = Value(ns, t) - Value(spent, t)
<1> DEFINE rest == ns \ spent
           f == Worth(ns, t)
<1>1. IsFiniteSet(spent) /\ IsFiniteSet(rest)
  BY FS_Subset
<1>2. f \in [ns -> Nat]
  BY WorthType
<1>3. /\ DOMAIN Worth(spent, t) = spent /\ DOMAIN Worth(rest, t) = rest /\ DOMAIN f = ns
      /\ \A n \in spent : Worth(spent, t)[n] = f[n]
      /\ \A n \in rest : Worth(rest, t)[n] = f[n]
  BY DEF Worth
<1>4. /\ Value(ns, t) = SumFunctionOnSet(f, ns)
      /\ Value(spent, t) = SumFunctionOnSet(Worth(spent, t), spent)
      /\ Value(rest, t) = SumFunctionOnSet(Worth(rest, t), rest)
  BY <1>3 DEF Value, SumFunction, Worth
<1>5. /\ SumFunctionOnSet(Worth(spent, t), spent) = SumFunctionOnSet(f, spent)
      /\ SumFunctionOnSet(Worth(rest, t), rest) = SumFunctionOnSet(f, rest)
  <2> HIDE DEF f, rest
  <2> QED BY <1>1, <1>3, SumAgree
<1>6. SumFunctionOnSet(f, ns) = SumFunctionOnSet(f, spent) + SumFunctionOnSet(f, rest)
  <2> HIDE DEF f
  <2>1. \A n \in ns : f[n] \in Int
    BY <1>2
  <2> QED BY <2>1, SumSplit
<1>7. Value(spent, t) \in Nat /\ Value(rest, t) \in Nat
  BY <1>1, ValueType
<1> HIDE DEF rest
<1>8. Value(rest, t) = Value(ns, t) - Value(spent, t)
  BY <1>4, <1>5, <1>6, <1>7
<1> QED BY <1>8 DEF rest

(* A new note adds its amount to its token. *)
LEMMA ValueAdded ==
  ASSUME NEW ns \in SUBSET Notes, IsFiniteSet(ns), NEW n \in Notes, n \notin ns, NEW t
  PROVE  Value(ns \cup {n}, t) = Value(ns, t) + (IF n.token = t THEN n.amount ELSE 0)
<1> DEFINE more == ns \cup {n}
<1>1. IsFiniteSet(more) /\ more \in SUBSET Notes /\ {n} \in SUBSET more /\ IsFiniteSet({n})
  BY FS_AddElement, FS_Singleton
<1>2. more \ {n} = ns
  OBVIOUS
<1>3. Value(ns, t) = Value(more, t) - Value({n}, t)
  <2> HIDE DEF more
  <2>1. Value(more \ {n}, t) = Value(more, t) - Value({n}, t)
    BY <1>1, ValueSpent
  <2> QED BY <2>1, <1>2
<1>4. Value({n}, t) = IF n.token = t THEN n.amount ELSE 0
  <2> DEFINE f == Worth({n}, t)
  <2>1. f \in [{n} -> Nat]
    BY <1>1, WorthType
  <2>2. DOMAIN f = {n} /\ f[n] = IF n.token = t THEN n.amount ELSE 0
    BY DEF Worth
  <2>3. Value({n}, t) = SumFunctionOnSet(f, {n})
    BY <2>2 DEF Value, SumFunction, Worth
  <2>4. {n} \ {n} = {}
    OBVIOUS
  <2> HIDE DEF f
  <2>5. SumFunctionOnSet(f, {n}) = f[n] + SumFunctionOnSet(f, {n} \ {n})
    BY <1>1, <2>1, SumRemove
  <2>6. f[n] \in Nat
    BY <2>1
  <2>7. SumFunctionOnSet(f, {n} \ {n}) = 0
    BY <2>4, SumEmpty
  <2>8. Value({n}, t) = f[n]
    BY <2>3, <2>5, <2>6, <2>7
  <2> QED BY <2>2, <2>8
<1>5. Value(more, t) \in Nat /\ Value({n}, t) \in Nat
  <2>1. {n} \in SUBSET Notes
    OBVIOUS
  <2> QED BY <1>1, <2>1, ValueType
<1> HIDE DEF more
<1>6. Value(more, t) = Value(ns, t) + Value({n}, t)
  BY <1>3, <1>5
<1> QED BY <1>4, <1>6 DEF more

-----------------------------------------------------------------------------
(* The escrow account *)

(* Notes are numbered as they are paid in: a new note is new.              *)
NotesDated == IsFiniteSet(notes) /\ \A n \in notes : n.id <= made

(* Nothing has gone back to an owner before the deadline unless the escrow  *)
(* settled: what was paid in is still there.                                *)
EarlyUnpaid == now < Deadline /\ ~settled => \A t \in Roles : paid[t][t] = 0

EscrowInv ==
  EscrowTypeOK /\ NotesDated /\ SwapOrReturn /\ OwnConsent /\ EarlyUnpaid

Outs == [Roles -> [Recipients -> Nat]]

LEMMA Parties ==
  /\ "a" \in Roles /\ "b" \in Roles
  /\ "a" \in Recipients /\ "b" \in Recipients /\ "other" \in Recipients
  /\ \A t \in Roles : /\ t \in Recipients /\ Other(t) \in Recipients /\ Other(t) \in Roles
                      /\ t # Other(t) /\ t # "other" /\ Other(t) # "other"
  /\ \A p \in Recipients : \A t \in Roles : p = t \/ p = Other(t) \/ p = "other"
BY DEF Roles, Recipients, Other

(* What a split adds up to, seen from the owner of the token. *)
LEMMA TotalOf ==
  ASSUME NEW f \in [Recipients -> Nat], NEW t \in Roles
  PROVE  /\ Total(f) = f[t] + f[Other(t)] + f["other"]
         /\ f[t] \in Nat /\ f[Other(t)] \in Nat /\ f["other"] \in Nat
<1>1. f["a"] \in Nat /\ f["b"] \in Nat /\ f["other"] \in Nat
  BY Parties
<1>2. CASE t = "a"
  BY <1>1, <1>2 DEF Total, Other
<1>3. CASE t = "b"
  BY <1>1, <1>3 DEF Total, Other
<1> QED BY <1>2, <1>3 DEF Roles

(* The policy of every mode, token by token: a stranger gets nothing, the   *)
(* counterparty the agreed amount in the one settlement and nothing in any  *)
(* other operation, the owner nothing in a setup.                           *)
LEMMA PolicyOfOuts ==
  ASSUME NEW op, op.mode \in Modes, op.outs \in Outs, check_actions(op), NEW t \in Roles
  PROVE  /\ op.outs[t]["other"] = 0
         /\ op.outs[t][Other(t)] = IF op.mode = "settle" THEN Agreed[t] ELSE 0
         /\ op.mode = "setup" => op.outs[t][t] = 0
<1>1. CASE op.mode = "setup"
  <2>1. op.outs = NoOuts
    BY <1>1 DEF check_actions
  <2> QED BY <1>1, <2>1, Parties DEF NoOuts
<1>2. CASE op.mode = "settle"
  BY <1>2 DEF check_actions, check_trade
<1>3. CASE op.mode \in {"refundA", "refundB"}
  <2>1. \A p \in Recipients : op.outs[t][p] \in Nat
    BY DEF Outs
  <2>2. \A p \in Recipients : op.outs[t][p] > 0 =>
          token_allowed(op.mode, t) /\ recipient_allowed(op.mode, p)
    BY <1>3 DEF check_actions
  <2>3. ~ (token_allowed(op.mode, t) /\ recipient_allowed(op.mode, "other"))
    BY DEF recipient_allowed
  <2>4. ~ (token_allowed(op.mode, t) /\ recipient_allowed(op.mode, Other(t)))
    BY <1>3 DEF token_allowed, recipient_allowed, Other, Roles
  <2>5. ~ (op.outs[t]["other"] > 0) /\ ~ (op.outs[t][Other(t)] > 0)
    BY <2>2, <2>3, <2>4, Parties
  <2>6. op.outs[t]["other"] = 0 /\ op.outs[t][Other(t)] = 0
    BY <2>1, <2>5, Parties
  <2> QED BY <1>3, <2>6
<1> QED BY <1>1, <1>2, <1>3 DEF Modes

LEMMA EscrowInit_Inv ==
  ASSUME EscrowInit
  PROVE  EscrowInv
<1> USE ConfidentialEscrowAssumption DEF EscrowInit
<1>1. EscrowTypeOK
  <2>1. now \in 0..MaxTime /\ made \in 0..MaxNotes
    OBVIOUS
  <2>2. /\ put \in [Roles -> Nat]
        /\ paid \in [Roles -> [Recipients -> Nat]]
        /\ consent \in [Roles -> SUBSET SUBSET Roles]
    OBVIOUS
  <2> QED BY <2>1, <2>2 DEF EscrowTypeOK
<1>2. NotesDated
  BY FS_EmptySet DEF NotesDated
<1>3. SwapOrReturn
  <2>1. SUFFICES ASSUME NEW t \in Roles
                 PROVE  /\ paid[t][Other(t)] = (IF settled THEN Agreed[t] ELSE 0)
                        /\ paid[t]["other"] = 0
                        /\ put[t] = Value(notes, t) + paid[t][t] + paid[t][Other(t)]
    BY DEF SwapOrReturn
  <2>2. Value(notes, t) = 0
    BY ValueNone
  <2>3. paid[t][Other(t)] = 0 /\ paid[t]["other"] = 0 /\ paid[t][t] = 0 /\ put[t] = 0
    BY Parties
  <2> QED BY <2>2, <2>3
<1>4. OwnConsent
  BY DEF OwnConsent
<1>5. EarlyUnpaid
  BY Parties DEF EarlyUnpaid
<1> QED BY <1>1, <1>2, <1>3, <1>4, <1>5 DEF EscrowInv

LEMMA Tick_Inv ==
  ASSUME EscrowInv, Tick
  PROVE  EscrowInv'
<1> USE ConfidentialEscrowAssumption DEF EscrowInv, Tick, escrowVars
<1>1. EscrowTypeOK'
  BY DEF EscrowTypeOK
<1>2. NotesDated'
  BY DEF NotesDated
<1>3. SwapOrReturn'
  BY DEF SwapOrReturn, Value
<1>4. OwnConsent'
  BY DEF OwnConsent
<1>5. EarlyUnpaid'
  BY DEF EarlyUnpaid, EscrowTypeOK
<1> QED BY <1>1, <1>2, <1>3, <1>4, <1>5

LEMMA PayIn_Inv ==
  ASSUME EscrowInv, NEW t \in Roles, NEW amount \in 1..Agreed[t], PayIn(t, amount)
  PROVE  EscrowInv'
<1> USE ConfidentialEscrowAssumption DEF EscrowInv, PayIn
<1> DEFINE n == [id |-> made + 1, token |-> t, amount |-> amount]
<1>1. n \in Notes /\ n.token = t /\ n.amount = amount /\ n.id = made + 1 /\ amount \in Nat
  BY DEF Notes, EscrowTypeOK
<1>2. n \notin notes
  BY <1>1 DEF NotesDated, EscrowTypeOK
<1> HIDE DEF n
<1>3. notes' = notes \cup {n}
  BY DEF n
<1>4. EscrowTypeOK'
  <2>1. notes' \subseteq Notes
    BY <1>1, <1>3 DEF EscrowTypeOK
  <2>2. put' \in [Roles -> Nat]
    BY <1>1 DEF EscrowTypeOK
  <2>3. made' \in 0..MaxNotes
    BY DEF EscrowTypeOK
  <2> QED BY <2>1, <2>2, <2>3 DEF EscrowTypeOK
<1>5. NotesDated'
  <2>1. IsFiniteSet(notes')
    BY <1>3, FS_AddElement DEF NotesDated
  <2>2. ASSUME NEW m \in notes' PROVE m.id <= made'
    <3>1. CASE m \in notes
      <4>1. m.id \in Nat /\ m.id <= made
        BY <3>1 DEF NotesDated, EscrowTypeOK, Notes
      <4> QED BY <4>1 DEF EscrowTypeOK
    <3>2. CASE m = n
      BY <3>2, <1>1 DEF EscrowTypeOK
    <3> QED BY <1>3, <3>1, <3>2
  <2> QED BY <2>1, <2>2 DEF NotesDated
<1>6. SwapOrReturn'
  <2>1. SUFFICES ASSUME NEW u \in Roles
                 PROVE  put'[u] = Value(notes', u) + paid[u][u] + paid[u][Other(u)]
    BY DEF SwapOrReturn
  <2>2. Value(notes', u) = Value(notes, u) + (IF t = u THEN amount ELSE 0)
    <3>1. notes \in SUBSET Notes /\ IsFiniteSet(notes)
      BY DEF NotesDated, EscrowTypeOK
    <3>2. Value(notes \cup {n}, u) =
            Value(notes, u) + (IF n.token = u THEN n.amount ELSE 0)
      BY <3>1, <1>1, <1>2, ValueAdded
    <3> QED BY <3>2, <1>1, <1>3
  <2>3. put'[u] = put[u] + (IF t = u THEN amount ELSE 0)
    BY <1>1 DEF EscrowTypeOK
  <2>4. put[u] = Value(notes, u) + paid[u][u] + paid[u][Other(u)]
    BY DEF SwapOrReturn
  <2>5. Value(notes, u) \in Nat
    BY ValueType DEF NotesDated, EscrowTypeOK
  <2>6. paid[u][u] \in Nat /\ paid[u][Other(u)] \in Nat
    BY Parties DEF EscrowTypeOK
  <2> QED BY <1>1, <2>2, <2>3, <2>4, <2>5, <2>6
<1>7. OwnConsent'
  BY DEF OwnConsent
<1>8. EarlyUnpaid'
  BY DEF EarlyUnpaid
<1> QED BY <1>4, <1>5, <1>6, <1>7, <1>8

(* What an executed operation does to the payments of a token. *)
LEMMA ExecutePays ==
  ASSUME EscrowInv, NEW op, op.mode \in Modes, op.outs \in Outs, op.sigs \subseteq Roles,
         Executable(op), Execute(op), NEW t \in Roles
  PROVE  /\ \A p \in Recipients : paid'[t][p] = paid[t][p] + op.outs[t][p]
         /\ \A p \in Recipients : paid[t][p] \in Nat /\ op.outs[t][p] \in Nat
         /\ Value(notes', t) = Value(notes, t) - Total(op.outs[t])
<1>1. \A p \in Recipients : paid[t][p] \in Nat /\ op.outs[t][p] \in Nat
  BY DEF EscrowInv, EscrowTypeOK, Outs
<1>2. \A p \in Recipients : paid'[t][p] = paid[t][p] + op.outs[t][p]
  BY DEF Execute
<1>3. Value(notes', t) = Value(notes, t) - Value(op.inputs, t)
  <2>1. notes \in SUBSET Notes /\ IsFiniteSet(notes)
    BY DEF EscrowInv, EscrowTypeOK, NotesDated
  <2>2. op.inputs \in SUBSET notes /\ notes' = notes \ op.inputs
    BY DEF Execute, Executable, PoolAccepts
  <2> QED BY <2>1, <2>2, ValueSpent
<1>4. Value(op.inputs, t) = Total(op.outs[t])
  BY DEF Executable, PoolAccepts
<1> QED BY <1>1, <1>2, <1>3, <1>4

LEMMA Execute_Inv ==
  ASSUME EscrowInv, NEW op, op.mode \in Modes, op.outs \in Outs, op.sigs \subseteq Roles,
         Executable(op), Execute(op)
  PROVE  EscrowInv'
<1> USE ConfidentialEscrowAssumption DEF EscrowInv
<1>1. EscrowTypeOK'
  <2>1. paid' \in [Roles -> [Recipients -> Nat]]
    <3>1. \A t \in Roles, p \in Recipients : paid[t][p] + op.outs[t][p] \in Nat
      BY DEF EscrowTypeOK, Outs
    <3> QED BY <3>1 DEF Execute
  <2>2. consent' \in [Roles -> SUBSET SUBSET Roles]
    BY DEF Execute, EscrowTypeOK
  <2>3. /\ now' \in 0..MaxTime /\ registered' \in BOOLEAN /\ settled' \in BOOLEAN
        /\ notes' \subseteq Notes /\ made' \in 0..MaxNotes /\ put' \in [Roles -> Nat]
    BY DEF Execute, EscrowTypeOK
  <2> QED BY <2>1, <2>2, <2>3 DEF EscrowTypeOK
<1>2. NotesDated'
  <2>1. notes' \subseteq notes /\ made' = made
    BY DEF Execute
  <2> QED BY <2>1, FS_Subset DEF NotesDated
<1>3. op.mode = "settle" => ~settled
  BY DEF Executable, invoke_allowed
<1>4. settled' = (settled \/ op.mode = "settle") /\ put' = put /\ now' = now
  BY DEF Execute
<1>5. check_actions(op)
  BY DEF Executable
<1>6. SwapOrReturn'
  <2>1. SUFFICES ASSUME NEW t \in Roles
                 PROVE  /\ paid'[t][Other(t)] = (IF settled' THEN Agreed[t] ELSE 0)
                        /\ paid'[t]["other"] = 0
                        /\ put'[t] = Value(notes', t) + paid'[t][t] + paid'[t][Other(t)]
    BY DEF SwapOrReturn
  <2> DEFINE out == op.outs[t]
  <2>2. /\ out["other"] = 0
        /\ out[Other(t)] = IF op.mode = "settle" THEN Agreed[t] ELSE 0
    BY <1>5, PolicyOfOuts
  <2>3. /\ paid[t][Other(t)] = (IF settled THEN Agreed[t] ELSE 0)
        /\ paid[t]["other"] = 0
        /\ put[t] = Value(notes, t) + paid[t][t] + paid[t][Other(t)]
    BY DEF SwapOrReturn
  <2>4. /\ paid'[t][t] = paid[t][t] + out[t]
        /\ paid'[t][Other(t)] = paid[t][Other(t)] + out[Other(t)]
        /\ paid'[t]["other"] = paid[t]["other"] + out["other"]
        /\ paid[t][t] \in Nat /\ paid[t][Other(t)] \in Nat /\ paid[t]["other"] \in Nat
    BY ExecutePays, Parties
  <2>5. Value(notes', t) = Value(notes, t) - Total(out)
    BY ExecutePays
  <2>6. out \in [Recipients -> Nat]
    BY DEF Outs
  <2> HIDE DEF out
  <2>7. /\ Total(out) = out[t] + out[Other(t)] + out["other"]
        /\ out[t] \in Nat /\ out[Other(t)] \in Nat
    BY <2>6, TotalOf
  <2>8. Value(notes, t) \in Nat
    BY ValueType DEF NotesDated, EscrowTypeOK
  <2>9. put'[t] = Value(notes', t) + paid'[t][t] + paid'[t][Other(t)]
    BY <1>4, <2>2, <2>3, <2>4, <2>5, <2>7, <2>8
  <2>10. paid'[t]["other"] = 0
    BY <2>2, <2>3, <2>4
  <2>11. Agreed[t] \in Nat /\ settled \in BOOLEAN
    BY DEF EscrowTypeOK
  <2>12. paid'[t][Other(t)] = (IF settled' THEN Agreed[t] ELSE 0)
    <3>1. CASE op.mode = "settle"
      <4>1. settled' /\ ~settled
        BY <1>3, <1>4, <3>1
      <4>2. paid'[t][Other(t)] = 0 + Agreed[t]
        BY <4>1, <2>2, <2>3, <2>4, <3>1
      <4> QED BY <4>1, <4>2, <2>11
    <3>2. CASE op.mode # "settle"
      <4>1. settled' = settled
        BY <1>4, <2>11, <3>2
      <4> QED BY <4>1, <2>2, <2>3, <2>4, <3>2
    <3> QED BY <3>1, <3>2
  <2> QED BY <2>9, <2>10, <2>12
<1>7. OwnConsent'
  <2>1. SUFFICES ASSUME NEW t \in Roles, NEW sigs \in consent'[t]
                 PROVE  t \in sigs
    BY DEF OwnConsent
  <2>2. CASE sigs \in consent[t]
    BY <2>2 DEF OwnConsent
  <2>3. CASE sigs \notin consent[t]
    <3>1. sigs = op.sigs /\ \E n \in op.inputs : n.token = t
      BY <2>3 DEF Execute
    <3>2. token_allowed(op.mode, t) /\ op.mode # "setup"
      BY <3>1, <1>5 DEF check_actions
    <3>3. t \in RequiredSigners(op.mode)
      BY <3>2 DEF token_allowed, RequiredSigners, Modes, Roles
    <3> QED BY <3>1, <3>3 DEF Executable
  <2> QED BY <2>2, <2>3
<1>8. EarlyUnpaid'
  <2>1. SUFFICES ASSUME now < Deadline, ~settled, op.mode # "settle", NEW t \in Roles
                 PROVE  paid'[t][t] = 0
    BY <1>4 DEF EarlyUnpaid
  <2>2. op.mode = "setup"
    BY <2>1 DEF Executable, invoke_allowed, EscrowTypeOK
  <2>3. op.outs[t][t] = 0
    BY <1>5, <2>2, PolicyOfOuts
  <2>4. paid'[t][t] = paid[t][t] + op.outs[t][t]
    BY ExecutePays, Parties
  <2>5. paid[t][t] = 0
    BY <2>1 DEF EarlyUnpaid
  <2> QED BY <2>3, <2>4, <2>5
<1> QED BY <1>1, <1>2, <1>6, <1>7, <1>8

(* Whatever the parties sign is an operation with outputs. *)
LEMMA SignedOpsTyped ==
  ASSUME EscrowInv, NEW op \in SignedOps
  PROVE  op.mode \in Modes /\ op.outs \in Outs /\ op.sigs \subseteq Roles
<1>0. PICK ns \in SUBSET notes :
        op \in {[mode |-> mode, inputs |-> ns, sigs |-> sigs,
                 outs |-> [t \in Roles |-> IF t = "a" THEN fa ELSE fb]] :
                  mode \in Modes, sigs \in SUBSET Roles,
                  fa \in Splits(Value(ns, "a")), fb \in Splits(Value(ns, "b"))}
  BY DEF SignedOps
<1>1. PICK mode \in Modes, sigs \in SUBSET Roles,
           fa \in Splits(Value(ns, "a")), fb \in Splits(Value(ns, "b")) :
        op = [mode |-> mode, inputs |-> ns, sigs |-> sigs,
              outs |-> [t \in Roles |-> IF t = "a" THEN fa ELSE fb]]
  BY <1>0
<1>2. ns \in SUBSET Notes /\ IsFiniteSet(ns)
  BY FS_Subset DEF EscrowInv, EscrowTypeOK, NotesDated
<1>3. Value(ns, "a") \in Nat /\ Value(ns, "b") \in Nat
  BY <1>2, ValueType
<1>4. fa \in [Recipients -> Nat] /\ fb \in [Recipients -> Nat]
  BY <1>3 DEF Splits
<1>5. [t \in Roles |-> IF t = "a" THEN fa ELSE fb] \in Outs
  BY <1>4 DEF Outs
<1> QED BY <1>1, <1>5

evars == <<now, registered, settled, notes, made, put, paid, consent>>

LEMMA EscrowNext_Inv ==
  ASSUME EscrowInv, [EscrowNext]_evars
  PROVE  EscrowInv'
<1>1. CASE Tick
  BY <1>1, Tick_Inv
<1>2. ASSUME NEW t \in Roles, NEW amount \in 1..Agreed[t], PayIn(t, amount)
      PROVE  EscrowInv'
  BY <1>2, PayIn_Inv
<1>3. ASSUME NEW op \in SignedOps, Executable(op), Execute(op)
      PROVE  EscrowInv'
  BY <1>3, SignedOpsTyped, Execute_Inv
<1>4. CASE UNCHANGED evars
  BY <1>4 DEF evars, EscrowInv, EscrowTypeOK, NotesDated, SwapOrReturn, OwnConsent,
              EarlyUnpaid, Value
<1> QED BY <1>1, <1>2, <1>3, <1>4 DEF EscrowNext

LEMMA EscrowInvariant == Escrow => []EscrowInv
<1>1. EscrowInit => EscrowInv
  BY EscrowInit_Inv
<1>2. EscrowInv /\ [EscrowNext]_evars => EscrowInv'
  BY EscrowNext_Inv
<1> QED BY <1>1, <1>2, PTL DEF Escrow, evars

(* The swap is atomic and nothing is lost (check_actions and the settled    *)
(* flag of App20ConfidentialEscrow), whatever notes and operations the      *)
(* parties sign.                                                            *)
THEOREM SwapIsAtomic == Escrow => []SwapOrReturn
<1>1. EscrowInv => SwapOrReturn
  BY DEF EscrowInv
<1> QED BY <1>1, EscrowInvariant, PTL

(* A party's asset is never spent without that party's signature (the       *)
(* signers each mode requires and the tokens it may touch).                 *)
THEOREM SpendingNeedsOwner == Escrow => []OwnConsent
<1>1. EscrowInv => OwnConsent
  BY DEF EscrowInv
<1> QED BY <1>1, EscrowInvariant, PTL

(* Before the deadline value leaves only in the one settlement, from the    *)
(* deadline on only back to its owners (privacy_invoke_with_computation).   *)
THEOREM DeadlineSeparates == Escrow => DeadlineSplits
<1> DEFINE Split ==
      \A t \in Roles :
        /\ paid'[t][Other(t)] # paid[t][Other(t)] => now < Deadline
        /\ paid'[t][t] # paid[t][t] => now >= Deadline \/ settled' # settled
<1>1. ASSUME EscrowInv, [EscrowNext]_evars
      PROVE  [Split]_evars
  <2>1. CASE UNCHANGED paid
    BY <2>1
  <2>2. ASSUME NEW op \in SignedOps, Executable(op), Execute(op)
        PROVE  Split
    <3>1. SUFFICES ASSUME NEW t \in Roles
                   PROVE  /\ paid'[t][Other(t)] # paid[t][Other(t)] => now < Deadline
                          /\ paid'[t][t] # paid[t][t] => now >= Deadline \/ settled' # settled
      OBVIOUS
    <3>2. op.mode \in Modes /\ op.outs \in Outs /\ op.sigs \subseteq Roles
      BY <1>1, <2>2, SignedOpsTyped
    <3>3. /\ paid'[t][t] = paid[t][t] + op.outs[t][t]
          /\ paid'[t][Other(t)] = paid[t][Other(t)] + op.outs[t][Other(t)]
          /\ paid[t][t] \in Nat /\ paid[t][Other(t)] \in Nat
      BY <1>1, <2>2, <3>2, ExecutePays, Parties
    <3>4. /\ op.mode # "settle" => op.outs[t][Other(t)] = 0
          /\ op.mode = "setup" => op.outs[t][t] = 0
      BY <2>2, <3>2, PolicyOfOuts DEF Executable
    <3>5. invoke_allowed(op.mode) /\ settled' = (settled \/ op.mode = "settle")
      BY <2>2 DEF Executable, Execute
    <3>6. CASE op.mode = "setup"
      BY <3>3, <3>4, <3>6
    <3>7. CASE op.mode = "settle"
      BY <3>5, <3>7 DEF invoke_allowed
    <3>8. CASE op.mode \in {"refundA", "refundB"}
      BY <3>3, <3>4, <3>5, <3>8 DEF invoke_allowed
    <3> QED BY <3>2, <3>6, <3>7, <3>8 DEF Modes
  <2> QED BY <1>1, <2>1, <2>2 DEF EscrowNext, Tick, PayIn, escrowVars, evars
<1> HIDE DEF Split
<1>2. Escrow => [][Split]_evars
  BY <1>1, EscrowInvariant, PTL DEF Escrow, evars
<1> QED BY <1>2 DEF DeadlineSplits, Split, evars

-----------------------------------------------------------------------------
(* The clients' sessions and journals *)

Ops == [mode: Modes, inputs: SUBSET Notes, outs: Outs]

Txs == [by: Roles, mode: Modes \cup {"fund"}, op: Ops \cup {<<>>}, amount: Nat,
        status: {"inflight", "success", "reverted"}]

Entries == Pending \cup {NoPending}

SessionTyped ==
  /\ txs \in Seq(Txs)
  /\ Len(txs) <= MaxTx
  /\ journal \in [Roles -> Entries]
  /\ pc \in [Roles -> {"idle", "proving", "saved", "sent", "waiting", "crashed"}]

(* Where a session stands, its journal says the same: nothing is pending    *)
(* while it proves, the entry is there and nothing submitted when it is     *)
(* about to send, and an entry without a hash stands for one transaction at *)
(* most.                                                                    *)
SessionSound(r) ==
  /\ pc[r] = "proving" => journal[r] = NoPending
  /\ pc[r] \in {"saved", "sent"} => journal[r] # NoPending /\ journal[r].tx = 0
  /\ pc[r] = "saved" => Unrecorded(r) = {}
  /\ journal[r].since <= Len(txs)
  /\ journal[r] # NoPending /\ journal[r].tx = 0 => \A i, j \in Unrecorded(r) : i = j

SessionInv ==
  SessionTyped /\ (\A r \in Roles : SessionSound(r)) /\ InFlightJournaled

(* An entry, its hash and its date cover transaction i. *)
Covers(e, i) == e # NoPending /\ (e.tx = i \/ (e.tx = 0 /\ e.since < i))

LEMMA EntryFacts ==
  ASSUME NEW e \in Entries
  PROVE  /\ e.tx \in Nat /\ e.since \in Nat
         /\ e = NoPending => e.tx = 0 /\ e.since = 0
         /\ e # NoPending => e \in Pending
BY ConfidentialClientAssumption DEF Entries, Pending, NoPending

LEMMA Hashed ==
  ASSUME NEW e \in Pending, NEW i \in 1..MaxTx
  PROVE  /\ [e EXCEPT !.tx = i] \in Pending
         /\ [e EXCEPT !.tx = i].tx = i
         /\ [e EXCEPT !.tx = i].since = e.since
         /\ [e EXCEPT !.tx = i] # NoPending
BY ConfidentialClientAssumption DEF Pending, NoPending, Modes

LEMMA FreshEntry ==
  ASSUME NEW mode \in Modes \cup {"fund"}, NEW n \in 0..MaxTx
  PROVE  /\ [mode |-> mode, tx |-> 0, since |-> n] \in Pending
         /\ [mode |-> mode, tx |-> 0, since |-> n] # NoPending
BY ConfidentialClientAssumption DEF Pending, NoPending, Modes

LEMMA TxFacts ==
  ASSUME SessionTyped, NEW i \in DOMAIN txs
  PROVE  i \in Nat /\ i \in 1..Len(txs) /\ i \in 1..MaxTx /\ txs[i] \in Txs /\ txs[i].by \in Roles
<1>1. DOMAIN txs = 1..Len(txs) /\ Len(txs) \in Nat /\ txs[i] \in Txs
  BY DEF SessionTyped
<1> QED BY <1>1, ConfidentialClientAssumption DEF SessionTyped, Txs

(* A session that writes its journal keeps it complete if the new entry     *)
(* covers what it has in flight.                                            *)
LEMMA JournalStep ==
  ASSUME SessionInv, NEW r \in Roles, NEW e \in Entries, UNCHANGED txs,
         journal' = [journal EXCEPT ![r] = e],
         \A i \in DOMAIN txs : txs[i].by = r /\ txs[i].status = "inflight" => Covers(e, i)
  PROVE  /\ InFlightJournaled'
         /\ journal' \in [Roles -> Entries]
         /\ journal'[r] = e
         /\ \A s \in Roles : s # r => journal'[s] = journal[s]
<1>1. /\ journal' \in [Roles -> Entries]
      /\ journal'[r] = e
      /\ \A s \in Roles : s # r => journal'[s] = journal[s]
  BY DEF SessionInv, SessionTyped
<1>2. ASSUME NEW i \in DOMAIN txs, txs[i].status = "inflight"
      PROVE  Covers(journal'[txs[i].by], i)
  <2>1. txs[i].by \in Roles
    BY TxFacts DEF SessionInv
  <2>2. Covers(journal[txs[i].by], i)
    BY <1>2 DEF SessionInv, InFlightJournaled, Covers
  <2> QED BY <1>1, <1>2, <2>1, <2>2
<1>3. ASSUME NEW i \in DOMAIN txs, NEW j \in DOMAIN txs, txs[i].status = "inflight",
             txs[j].by = txs[i].by, txs[j].status = "inflight"
      PROVE  j = i
  BY <1>3 DEF SessionInv, InFlightJournaled
<1>4. InFlightJournaled'
  BY <1>2, <1>3 DEF InFlightJournaled, Covers
<1> QED BY <1>1, <1>4

(* The sessions of the other client are not concerned. *)
LEMMA OtherSession ==
  ASSUME SessionInv, NEW s \in Roles, UNCHANGED txs,
         journal'[s] = journal[s], pc'[s] = pc[s]
  PROVE  SessionSound(s)'
BY DEF SessionInv, SessionSound, Unrecorded

(* Nothing of a client is in flight when its journal is empty, and what is  *)
(* in flight under an entry without hash was sent since it was written.     *)
LEMMA InFlightOf ==
  ASSUME SessionInv, NEW i \in DOMAIN txs, txs[i].status = "inflight"
  PROVE  /\ Covers(journal[txs[i].by], i)
         /\ journal[txs[i].by].tx = 0 => i \in Unrecorded(txs[i].by)
<1>1. Covers(journal[txs[i].by], i)
  BY DEF SessionInv, InFlightJournaled, Covers
<1>2. i \in Nat /\ i # 0
  BY TxFacts DEF SessionInv
<1> QED BY <1>1, <1>2 DEF Covers, Unrecorded

LEMMA PcStep ==
  ASSUME SessionTyped, NEW r \in Roles,
         NEW l \in {"idle", "proving", "saved", "sent", "waiting", "crashed"}, Goto(r, l)
  PROVE  /\ pc' \in [Roles -> {"idle", "proving", "saved", "sent", "waiting", "crashed"}]
         /\ pc'[r] = l
         /\ \A s \in Roles : s # r => pc'[s] = pc[s]
BY DEF SessionTyped, Goto

(* Steps of a session that leave the journal and the network alone. *)
LEMMA Session_Move ==
  ASSUME SessionInv, NEW r \in Roles, UNCHANGED <<txs, journal>>,
         NEW l \in {"idle", "proving", "waiting", "crashed"}, Goto(r, l),
         l = "proving" => journal[r] = NoPending
  PROVE  SessionInv'
<1>1. /\ pc' \in [Roles -> {"idle", "proving", "saved", "sent", "waiting", "crashed"}]
      /\ pc'[r] = l
      /\ \A s \in Roles : s # r => pc'[s] = pc[s]
  BY PcStep DEF SessionInv
<1>2. SessionTyped'
  BY <1>1 DEF SessionInv, SessionTyped
<1>3. \A s \in Roles : s # r => SessionSound(s)'
  BY <1>1, OtherSession
<1>4. SessionSound(r)'
  BY <1>1 DEF SessionInv, SessionSound, Unrecorded
<1>5. InFlightJournaled'
  BY DEF SessionInv, InFlightJournaled
<1> QED BY <1>2, <1>3, <1>4, <1>5 DEF SessionInv

(* broadcast: the entry is written while nothing is pending. *)
LEMMA Session_Save ==
  ASSUME SessionInv, NEW r \in Roles, NEW mode \in Modes \cup {"fund"},
         journal[r] = NoPending, SavePending(r, mode), Goto(r, "saved"), UNCHANGED txs
  PROVE  SessionInv'
<1> DEFINE e == [mode |-> mode, tx |-> 0, since |-> Len(txs)]
<1>1. Len(txs) \in 0..MaxTx /\ Len(txs) \in Nat
  BY ConfidentialClientAssumption DEF SessionInv, SessionTyped
<1>2. e \in Entries /\ e # NoPending /\ e.tx = 0 /\ e.since = Len(txs)
  BY <1>1, FreshEntry DEF Entries
<1>3. journal' = [journal EXCEPT ![r] = e]
  BY DEF SavePending
<1> HIDE DEF e
<1>4. \A i \in DOMAIN txs : ~ (txs[i].by = r /\ txs[i].status = "inflight")
  BY InFlightOf DEF Covers
<1>5. /\ InFlightJournaled' /\ journal' \in [Roles -> Entries] /\ journal'[r] = e
      /\ \A s \in Roles : s # r => journal'[s] = journal[s]
  BY <1>2, <1>3, <1>4, JournalStep
<1>6. /\ pc' \in [Roles -> {"idle", "proving", "saved", "sent", "waiting", "crashed"}]
      /\ pc'[r] = "saved"
      /\ \A s \in Roles : s # r => pc'[s] = pc[s]
  BY PcStep DEF SessionInv
<1>7. SessionTyped'
  BY <1>5, <1>6 DEF SessionInv, SessionTyped
<1>8. \A s \in Roles : s # r => SessionSound(s)'
  BY <1>5, <1>6, OtherSession
<1>9. Unrecorded(r)' = {}
  <2>1. ASSUME NEW i \in DOMAIN txs, i > Len(txs) PROVE FALSE
    BY <2>1, <1>1, TxFacts DEF SessionInv
  <2> QED BY <2>1, <1>2, <1>5 DEF Unrecorded
<1>10. SessionSound(r)'
  BY <1>1, <1>2, <1>5, <1>6, <1>9 DEF SessionSound
<1> QED BY <1>5, <1>7, <1>8, <1>10 DEF SessionInv

(* The hash is recorded, at once or by the operator. *)
LEMMA Session_Hash ==
  ASSUME SessionInv, NEW r \in Roles, journal[r] # NoPending, journal[r].tx = 0,
         NEW i \in Unrecorded(r), journal' = [journal EXCEPT ![r].tx = i], UNCHANGED txs,
         NEW l \in {"idle", "waiting"}, Goto(r, l)
  PROVE  SessionInv'
<1> DEFINE e == [journal[r] EXCEPT !.tx = i]
<1>0. i \in DOMAIN txs /\ i \in 1..MaxTx /\ i \in Nat /\ i # 0
  BY TxFacts DEF Unrecorded, SessionInv
<1>1. journal[r] \in Pending
  BY EntryFacts DEF SessionInv, SessionTyped
<1>2. e \in Entries /\ e # NoPending /\ e.tx = i /\ e.since = journal[r].since
  BY <1>0, <1>1, Hashed DEF Entries
<1>3. journal' = [journal EXCEPT ![r] = e]
  OBVIOUS
<1> HIDE DEF e
<1>4. \A j \in DOMAIN txs : txs[j].by = r /\ txs[j].status = "inflight" => j = i
  <2>1. \A j \in Unrecorded(r) : j = i
    BY DEF SessionInv, SessionSound
  <2> QED BY <2>1, InFlightOf
<1>5. /\ InFlightJournaled' /\ journal' \in [Roles -> Entries] /\ journal'[r] = e
      /\ \A s \in Roles : s # r => journal'[s] = journal[s]
  <2>1. \A j \in DOMAIN txs : txs[j].by = r /\ txs[j].status = "inflight" => Covers(e, j)
    BY <1>2, <1>4 DEF Covers
  <2> QED BY <1>2, <1>3, <2>1, JournalStep
<1>6. /\ pc' \in [Roles -> {"idle", "proving", "saved", "sent", "waiting", "crashed"}]
      /\ pc'[r] = l
      /\ \A s \in Roles : s # r => pc'[s] = pc[s]
  BY PcStep DEF SessionInv
<1>7. SessionTyped'
  BY <1>5, <1>6 DEF SessionInv, SessionTyped
<1>8. \A s \in Roles : s # r => SessionSound(s)'
  BY <1>5, <1>6, OtherSession
<1>9. SessionSound(r)'
  <2>1. journal[r].since <= Len(txs)
    BY DEF SessionInv, SessionSound
  <2> QED BY <2>1, <1>0, <1>2, <1>5, <1>6 DEF SessionSound
<1> QED BY <1>5, <1>7, <1>8, <1>9 DEF SessionInv

(* The entry is cleared, once nothing of the client is in flight. *)
LEMMA Session_Clear ==
  ASSUME SessionInv, NEW r \in Roles, journal' = [journal EXCEPT ![r] = NoPending],
         \A i \in DOMAIN txs : txs[i].by = r => txs[i].status # "inflight",
         UNCHANGED txs, Goto(r, "idle")
  PROVE  SessionInv'
<1>1. NoPending \in Entries /\ NoPending.since = 0
  BY DEF Entries, NoPending
<1>5. /\ InFlightJournaled' /\ journal' \in [Roles -> Entries] /\ journal'[r] = NoPending
      /\ \A s \in Roles : s # r => journal'[s] = journal[s]
  BY <1>1, JournalStep
<1>6. /\ pc' \in [Roles -> {"idle", "proving", "saved", "sent", "waiting", "crashed"}]
      /\ pc'[r] = "idle"
      /\ \A s \in Roles : s # r => pc'[s] = pc[s]
  BY PcStep DEF SessionInv
<1>7. SessionTyped'
  BY <1>5, <1>6 DEF SessionInv, SessionTyped
<1>8. \A s \in Roles : s # r => SessionSound(s)'
  BY <1>5, <1>6, OtherSession
<1>9. SessionSound(r)'
  <2>1. 0 <= Len(txs)
    BY DEF SessionInv, SessionTyped
  <2> QED BY <2>1, <1>1, <1>5, <1>6 DEF SessionSound
<1> QED BY <1>5, <1>7, <1>8, <1>9 DEF SessionInv

LEMMA Appended ==
  ASSUME SessionTyped, NEW e \in Txs, txs' = Append(txs, e)
  PROVE  /\ txs' \in Seq(Txs)
         /\ Len(txs) \in Nat /\ Len(txs') = Len(txs) + 1
         /\ DOMAIN txs = 1..Len(txs) /\ DOMAIN txs' = 1..(Len(txs) + 1)
         /\ \A i \in DOMAIN txs : txs'[i] = txs[i] /\ i \in DOMAIN txs'
         /\ txs'[Len(txs) + 1] = e
         /\ \A i \in DOMAIN txs' : i \in DOMAIN txs \/ i = Len(txs) + 1
BY DEF SessionTyped

(* A transaction is submitted by a session that has saved its entry and has *)
(* submitted nothing under it.                                              *)
LEMMA Session_Submit ==
  ASSUME SessionInv, NEW r \in Roles, pc[r] = "saved", Len(txs) < MaxTx,
         NEW e \in Txs, e.by = r, e.status = "inflight",
         txs' = Append(txs, e), UNCHANGED journal,
         NEW l \in {"idle", "sent"}, Goto(r, l)
  PROVE  SessionInv'
<1>1. /\ txs' \in Seq(Txs)
      /\ Len(txs) \in Nat /\ Len(txs') = Len(txs) + 1
      /\ \A i \in DOMAIN txs : txs'[i] = txs[i] /\ i \in DOMAIN txs'
      /\ txs'[Len(txs) + 1] = e
      /\ \A i \in DOMAIN txs' : i \in DOMAIN txs \/ i = Len(txs) + 1
  BY Appended DEF SessionInv
<1>2. /\ pc' \in [Roles -> {"idle", "proving", "saved", "sent", "waiting", "crashed"}]
      /\ pc'[r] = l
      /\ \A s \in Roles : s # r => pc'[s] = pc[s]
  BY PcStep DEF SessionInv
<1>3. SessionTyped'
  BY <1>1, <1>2, ConfidentialClientAssumption DEF SessionInv, SessionTyped
<1>4. \A s \in Roles : journal[s].since \in Nat /\ journal[s].since <= Len(txs)
  BY EntryFacts DEF SessionInv, SessionTyped, SessionSound
<1>5. journal[r] # NoPending /\ journal[r].tx = 0 /\ Unrecorded(r) = {}
  BY DEF SessionInv, SessionSound
<1>6. \A s \in Roles : Unrecorded(s)' = IF s = r THEN {Len(txs) + 1} ELSE Unrecorded(s)
  <2>1. TAKE s \in Roles
  <2>2. Len(txs) + 1 > journal[s].since /\ Len(txs) + 1 \in DOMAIN txs'
    BY <1>1, <1>4
  <2>3. ASSUME NEW i
        PROVE  i \in Unrecorded(s)' <=>
                 i \in Unrecorded(s) \/ (s = r /\ i = Len(txs) + 1)
    <3>1. CASE i \in DOMAIN txs
      <4>1. i # Len(txs) + 1
        BY <1>1, <3>1, TxFacts DEF SessionInv
      <4> QED BY <1>1, <3>1, <4>1 DEF Unrecorded
    <3>2. CASE i = Len(txs) + 1
      <4>1. i \notin DOMAIN txs
        BY <1>1, <3>2, TxFacts DEF SessionInv
      <4> QED BY <1>1, <2>2, <3>2, <4>1 DEF Unrecorded
    <3>3. CASE i \notin DOMAIN txs /\ i # Len(txs) + 1
      BY <1>1, <3>3 DEF Unrecorded
    <3> QED BY <3>1, <3>2, <3>3
  <2> QED BY <1>5, <2>3
<1>7. ASSUME NEW s \in Roles PROVE SessionSound(s)'
  <2>1. journal[s].since <= Len(txs')
    BY <1>1, <1>4
  <2>2. CASE s = r
    BY <1>2, <1>5, <1>6, <2>1, <2>2 DEF SessionSound
  <2>3. CASE s # r
    <3>1. SessionSound(s) /\ Unrecorded(s)' = Unrecorded(s) /\ pc'[s] = pc[s]
      BY <1>2, <1>6, <2>3 DEF SessionInv
    <3> QED BY <2>1, <3>1 DEF SessionSound
  <2> QED BY <2>2, <2>3
<1>8. ASSUME NEW i \in DOMAIN txs, txs[i].by = r PROVE txs[i].status # "inflight"
  BY <1>5, <1>8, InFlightOf
<1>9. InFlightJournaled'
  <2>1. ASSUME NEW i \in DOMAIN txs', txs'[i].status = "inflight"
        PROVE  Covers(journal'[txs'[i].by], i)
    <3>1. CASE i \in DOMAIN txs
      BY <1>1, <2>1, <3>1, InFlightOf
    <3>2. CASE i = Len(txs) + 1
      BY <1>1, <1>4, <1>5, <3>2 DEF Covers
    <3> QED BY <1>1, <3>1, <3>2
  <2>2. ASSUME NEW i \in DOMAIN txs', NEW j \in DOMAIN txs', txs'[i].status = "inflight",
               txs'[j].by = txs'[i].by, txs'[j].status = "inflight"
        PROVE  j = i
    <3>1. CASE i \in DOMAIN txs /\ j \in DOMAIN txs
      BY <1>1, <2>2, <3>1 DEF SessionInv, InFlightJournaled
    <3>2. CASE i = Len(txs) + 1 \/ j = Len(txs) + 1
      <4>1. txs'[i].by = r
        BY <1>1, <2>2, <3>2
      <4>2. i \notin DOMAIN txs /\ j \notin DOMAIN txs
        BY <1>1, <1>8, <2>2, <4>1
      <4> QED BY <1>1, <4>2
    <3> QED BY <1>1, <3>1, <3>2
  <2> QED BY <2>1, <2>2 DEF InFlightJournaled, Covers
<1> QED BY <1>3, <1>7, <1>9 DEF SessionInv

(* A transaction becomes final. *)
LEMMA Finalized ==
  ASSUME SessionTyped, NEW i \in DOMAIN txs, NEW s \in {"success", "reverted"},
         txs' = [txs EXCEPT ![i].status = s]
  PROVE  /\ txs' \in Seq(Txs)
         /\ Len(txs') = Len(txs) /\ DOMAIN txs' = DOMAIN txs
         /\ \A j \in DOMAIN txs : /\ j # i => txs'[j] = txs[j]
                                  /\ txs'[j].by = txs[j].by /\ txs'[j].mode = txs[j].mode
                                  /\ txs'[j].op = txs[j].op /\ txs'[j].amount = txs[j].amount
         /\ txs'[i].status = s
<1>1. txs[i] \in Txs /\ DOMAIN txs = 1..Len(txs) /\ txs \in Seq(Txs)
  BY TxFacts DEF SessionTyped
<1> DEFINE e == [txs[i] EXCEPT !.status = s]
<1>2. /\ e \in Txs /\ e.status = s /\ e.by = txs[i].by /\ e.mode = txs[i].mode
      /\ e.op = txs[i].op /\ e.amount = txs[i].amount
  BY <1>1 DEF Txs
<1>3. txs' = [txs EXCEPT ![i] = e]
  OBVIOUS
<1> HIDE DEF e
<1>4. txs' \in Seq(Txs) /\ Len(txs') = Len(txs) /\ DOMAIN txs' = DOMAIN txs
  BY <1>1, <1>2, <1>3
<1>5. txs'[i] = e /\ \A j \in DOMAIN txs : j # i => txs'[j] = txs[j]
  BY <1>3
<1> QED BY <1>2, <1>4, <1>5

LEMMA Session_Final ==
  ASSUME SessionInv, NEW i \in DOMAIN txs, NEW s \in {"success", "reverted"},
         txs' = [txs EXCEPT ![i].status = s], UNCHANGED <<journal, pc>>
  PROVE  SessionInv'
<1>1. /\ txs' \in Seq(Txs)
      /\ Len(txs') = Len(txs) /\ DOMAIN txs' = DOMAIN txs
      /\ \A j \in DOMAIN txs : (j # i => txs'[j] = txs[j]) /\ txs'[j].by = txs[j].by
      /\ txs'[i].status = s
  BY Finalized DEF SessionInv
<1>2. SessionTyped'
  BY <1>1 DEF SessionInv, SessionTyped
<1>3. ASSUME NEW r \in Roles PROVE SessionSound(r)'
  <2>1. Unrecorded(r)' = Unrecorded(r)
    BY <1>1 DEF Unrecorded
  <2> QED BY <1>1, <2>1 DEF SessionInv, SessionSound
<1>4. InFlightJournaled'
  <2>1. \A j \in DOMAIN txs' : txs'[j].status = "inflight" => j # i /\ txs[j].status = "inflight"
    BY <1>1
  <2> QED BY <1>1, <2>1 DEF SessionInv, InFlightJournaled
<1> QED BY <1>2, <1>3, <1>4 DEF SessionInv

-----------------------------------------------------------------------------
(* What the clients submit *)

Jobs == [mode: Modes \cup {"fund", "none"}, op: Ops \cup {<<>>}, amount: Nat]

(* A transfer that may still land does not overpay. *)
Affordable(r, amount) == amount \in 1..Agreed[r] /\ sent[r] + amount <= Agreed[r]

JobSound(r) ==
  pc[r] \in {"proving", "saved"} =>
    /\ job[r].mode # "none"
    /\ job[r].mode = "fund" => pc[r] = "saved" /\ Affordable(r, job[r].amount)
    /\ job[r].mode # "fund" => job[r].op \in Ops /\ job[r].op.mode = job[r].mode

TxSound(i) ==
  /\ txs[i].mode = "fund" =>
       /\ txs[i].amount \in 1..Agreed[txs[i].by]
       /\ txs[i].status = "inflight" => Affordable(txs[i].by, txs[i].amount)
  /\ txs[i].mode # "fund" => txs[i].op \in Ops /\ txs[i].op.mode = txs[i].mode

WorkTyped == ops \subseteq Ops /\ job \in [Roles -> Jobs] /\ sent \in [Roles -> Nat]

WorkInv ==
  /\ WorkTyped
  /\ \A r \in Roles : JobSound(r)
  /\ \A i \in DOMAIN txs : TxSound(i)
  /\ \A r \in Roles : sent[r] <= put[r]
  /\ FundedOnce
  /\ SettledOnce

ClientInv == EscrowInv /\ SessionInv /\ WorkInv

(* What the builder makes of notes of the escrow is an operation. *)
LEMMA BuiltTyped ==
  ASSUME EscrowInv, NEW mode \in Modes, NEW ns \in Selections(mode)
  PROVE  [mode |-> mode, inputs |-> ns, outs |-> BuiltOuts(mode, ns)] \in Ops
<1>1. ns \subseteq notes
  BY DEF Selections, Modes
<1>2. ns \in SUBSET Notes /\ IsFiniteSet(ns)
  BY <1>1, FS_Subset DEF EscrowInv, EscrowTypeOK, NotesDated
<1>3. \A t \in Roles : Value(ns, t) \in Nat
  BY <1>2, ValueType
<1>4. mode = "settle" => \A t \in Roles : Value(ns, t) - Agreed[t] \in Nat
  BY <1>3, ConfidentialEscrowAssumption DEF Selections
<1>5. ASSUME NEW t \in Roles, NEW p \in Recipients
      PROVE  BuiltOuts(mode, ns)[t][p] \in Nat
  <2>1. CASE mode = "settle" /\ p = Other(t)
    <3>1. p # t /\ mode # "refundA" /\ mode # "refundB"
      BY <2>1, Parties
    <3>2. BuiltOuts(mode, ns)[t][p] = Agreed[t]
      BY <2>1, <3>1 DEF BuiltOuts
    <3> QED BY <3>2, ConfidentialEscrowAssumption
  <2>2. CASE mode = "settle" /\ p = t
    BY <2>2, <1>4, Parties DEF BuiltOuts
  <2>3. CASE mode \in {"refundA", "refundB"} /\ p = t
    BY <2>3, <1>3 DEF BuiltOuts
  <2>4. CASE /\ ~ (mode = "settle" /\ p = Other(t))
             /\ ~ (mode = "settle" /\ p = t)
             /\ ~ (mode \in {"refundA", "refundB"} /\ p = t)
    BY <2>4 DEF BuiltOuts
  <2> QED BY <2>1, <2>2, <2>3, <2>4
<1>6. BuiltOuts(mode, ns) \in Outs
  <2> DEFINE F(t, p) == BuiltOuts(mode, ns)[t][p]
  <2>1. BuiltOuts(mode, ns) = [t \in Roles |-> [p \in Recipients |-> F(t, p)]]
    BY DEF BuiltOuts
  <2>2. \A t \in Roles, p \in Recipients : F(t, p) \in Nat
    BY <1>5
  <2> HIDE DEF F
  <2> QED BY <2>1, <2>2 DEF Outs
<1> QED BY <1>2, <1>6 DEF Ops

(* fund() asks for what is missing: before the deadline nothing has left an *)
(* unsettled escrow, so what the party sent is still among its notes.       *)
LEMMA MissingIsAffordable ==
  ASSUME EscrowInv, WorkInv, NEW r \in Roles, checkTime("settle"), Missing(r) > 0
  PROVE  Affordable(r, Missing(r)) /\ Missing(r) \in Nat
<1>1. ~settled /\ now < Deadline
  BY DEF checkTime
<1>2. paid[r][r] = 0 /\ paid[r][Other(r)] = 0
  BY <1>1 DEF EscrowInv, EarlyUnpaid, SwapOrReturn
<1>3. put[r] = Value(notes, r) + paid[r][r] + paid[r][Other(r)]
  BY DEF EscrowInv, SwapOrReturn
<1>4. Value(notes, r) \in Nat
  BY ValueType DEF EscrowInv, EscrowTypeOK, NotesDated
<1>5. sent[r] \in Nat /\ sent[r] <= put[r] /\ Agreed[r] \in Nat
  BY ConfidentialEscrowAssumption DEF WorkInv, WorkTyped
<1> QED BY <1>2, <1>3, <1>4, <1>5 DEF Affordable, Missing

LEMMA MemberOfSigned ==
  ASSUME NEW M, NEW S, NEW A, NEW B, NEW m \in M, NEW s \in S, NEW ns,
         NEW ga \in A, NEW gb \in B, NEW op,
         op = [mode |-> m, inputs |-> ns, sigs |-> s,
               outs |-> [t \in Roles |-> IF t = "a" THEN ga ELSE gb]]
  PROVE  op \in {[mode |-> mode, inputs |-> ns, sigs |-> sg,
                  outs |-> [t \in Roles |-> IF t = "a" THEN fa ELSE fb]] :
                   mode \in M, sg \in S, fa \in A, fb \in B}
<1> DEFINE G(mode, sg, fa, fb) ==
             [mode |-> mode, inputs |-> ns, sigs |-> sg,
              outs |-> [t \in Roles |-> IF t = "a" THEN fa ELSE fb]]
<1>1. op = G(m, s, ga, gb)
  OBVIOUS
<1> HIDE DEF G
<1>2. op \in {G(mode, sg, fa, fb) : mode \in M, sg \in S, fa \in A, fb \in B}
  BY <1>1
<1> QED BY <1>2 DEF G

(* An operation of the client, signed, is one the escrow may see. *)
LEMMA SignedInOps ==
  ASSUME EscrowInv, NEW tx, tx.op \in Ops, PoolAccepts(Signed(tx))
  PROVE  Signed(tx) \in SignedOps
<1> DEFINE op == Signed(tx)
           sigs == {r \in Roles : <<tx.op, r>> \in approvals}
<1>1. /\ op = [mode |-> tx.op.mode, inputs |-> tx.op.inputs, sigs |-> sigs,
               outs |-> tx.op.outs]
      /\ op.outs = tx.op.outs /\ op.inputs = tx.op.inputs
  BY DEF Signed
<1>2. tx.op.mode \in Modes /\ tx.op.outs \in Outs /\ sigs \in SUBSET Roles
  BY DEF Ops
<1>3. tx.op.inputs \in SUBSET notes
  BY <1>1 DEF PoolAccepts
<1>4. ASSUME NEW t \in Roles
      PROVE  tx.op.outs[t] \in Splits(Value(tx.op.inputs, t))
  <2>1. tx.op.outs[t] \in [Recipients -> Nat]
    BY <1>2 DEF Outs
  <2>2. Value(tx.op.inputs, t) = Total(tx.op.outs[t])
    BY <1>1 DEF PoolAccepts
  <2> DEFINE f == tx.op.outs[t]
  <2>3. \A p \in Recipients : f[p] \in 0..Total(f)
    <3>1. f["a"] \in Nat /\ f["b"] \in Nat /\ f["other"] \in Nat
      BY <2>1, Parties
    <3> HIDE DEF f
    <3> QED BY <3>1 DEF Total, Recipients, Roles
  <2>4. f \in [Recipients -> 0..Total(f)]
    BY <2>1, <2>3
  <2> QED BY <2>2, <2>4 DEF Splits
<1>5. tx.op.outs = [t \in Roles |-> IF t = "a" THEN tx.op.outs["a"] ELSE tx.op.outs["b"]]
  BY <1>2 DEF Outs, Roles
<1>6. /\ tx.op.outs["a"] \in Splits(Value(tx.op.inputs, "a"))
      /\ tx.op.outs["b"] \in Splits(Value(tx.op.inputs, "b"))
  BY <1>4, Parties
<1> HIDE DEF op, sigs
<1>7. op = [mode |-> tx.op.mode, inputs |-> tx.op.inputs, sigs |-> sigs,
            outs |-> [t \in Roles |->
                        IF t = "a" THEN tx.op.outs["a"] ELSE tx.op.outs["b"]]]
  BY <1>1, <1>5
<1>8. op \in {[mode |-> mode, inputs |-> tx.op.inputs, sigs |-> sg,
               outs |-> [t \in Roles |-> IF t = "a" THEN fa ELSE fb]] :
                mode \in Modes, sg \in SUBSET Roles,
                fa \in Splits(Value(tx.op.inputs, "a")),
                fb \in Splits(Value(tx.op.inputs, "b"))}
  <2> DEFINE M == Modes
             S == SUBSET Roles
             A == Splits(Value(tx.op.inputs, "a"))
             B == Splits(Value(tx.op.inputs, "b"))
             m == tx.op.mode
             ns == tx.op.inputs
             ga == tx.op.outs["a"]
             gb == tx.op.outs["b"]
  <2>1. /\ m \in M /\ sigs \in S /\ ga \in A /\ gb \in B
        /\ op = [mode |-> m, inputs |-> ns, sigs |-> sigs,
                 outs |-> [t \in Roles |-> IF t = "a" THEN ga ELSE gb]]
    BY <1>2, <1>6, <1>7
  <2> HIDE DEF M, S, A, B, m, ns, ga, gb
  <2>2. op \in {[mode |-> mode, inputs |-> ns, sigs |-> sg,
                 outs |-> [t \in Roles |-> IF t = "a" THEN fa ELSE fb]] :
                  mode \in M, sg \in S, fa \in A, fb \in B}
    BY <2>1, MemberOfSigned
  <2> QED BY <2>2 DEF M, S, A, B, ns
<1>9. op \in SignedOps
  BY <1>3, <1>8 DEF SignedOps
<1> QED BY <1>9 DEF op

(* Steps that leave the network and the payments alone; session r changes. *)
LEMMA Work_Session ==
  ASSUME WorkInv, NEW r \in Roles, UNCHANGED <<txs, sent, put, settled>>,
         ops' \subseteq Ops, job' \in [Roles -> Jobs], JobSound(r)',
         \A s \in Roles : s # r => job'[s] = job[s] /\ pc'[s] = pc[s]
  PROVE  WorkInv'
<1>1. \A s \in Roles : JobSound(s)'
  BY DEF WorkInv, JobSound, Affordable
<1>2. \A i \in DOMAIN txs' : TxSound(i)'
  BY DEF WorkInv, TxSound, Affordable
<1>3. FundedOnce' /\ SettledOnce' /\ WorkTyped' /\ \A s \in Roles : (sent[s] <= put[s])'
  BY DEF WorkInv, FundedOnce, SettledOnce, WorkTyped
<1> QED BY <1>1, <1>2, <1>3 DEF WorkInv

(* Steps that only add to what the escrow holds or let time pass. *)
LEMMA Work_Escrow ==
  ASSUME WorkInv, UNCHANGED <<txs, sent, settled, ops, job, pc>>,
         \A r \in Roles : sent[r] <= put'[r]
  PROVE  WorkInv'
<1>1. \A s \in Roles : JobSound(s)'
  BY DEF WorkInv, JobSound, Affordable
<1>2. \A i \in DOMAIN txs' : TxSound(i)'
  BY DEF WorkInv, TxSound, Affordable
<1>3. FundedOnce' /\ SettledOnce' /\ WorkTyped'
  BY DEF WorkInv, FundedOnce, SettledOnce, WorkTyped
<1> QED BY <1>1, <1>2, <1>3 DEF WorkInv

LEMMA NoJobTyped == NoJob \in Jobs /\ NoJob.mode = "none"
BY DEF NoJob, Jobs

(* The transaction a session submits is typed and sound. *)
LEMMA SubmittedTx ==
  ASSUME WorkInv, NEW r \in Roles, pc[r] = "saved",
         NEW e, e = [by |-> r, mode |-> job[r].mode, op |-> job[r].op,
                     amount |-> job[r].amount, status |-> "inflight"]
  PROVE  /\ e \in Txs /\ e.by = r /\ e.status = "inflight"
         /\ e.mode = "fund" => Affordable(r, e.amount)
         /\ e.mode # "fund" => e.op \in Ops /\ e.op.mode = e.mode
<1>1. job[r] \in Jobs /\ JobSound(r)
  BY DEF WorkInv, WorkTyped
<1>2. /\ job[r].mode \in Modes \cup {"fund"}
      /\ job[r].op \in Ops \cup {<<>>} /\ job[r].amount \in Nat
  BY <1>1 DEF Jobs, JobSound
<1>3. /\ e.by = r /\ e.status = "inflight" /\ e.mode = job[r].mode /\ e.op = job[r].op
      /\ e.amount = job[r].amount
  OBVIOUS
<1>4. e \in Txs
  BY <1>2 DEF Txs
<1> QED BY <1>1, <1>3, <1>4 DEF JobSound

LEMMA Work_Submit ==
  ASSUME SessionInv, WorkInv, NEW r \in Roles, pc[r] = "saved", txs' = Submitted(r),
         UNCHANGED <<sent, put, settled, ops>>, job' \in [Roles -> Jobs],
         \A s \in Roles : s # r => job'[s] = job[s],
         NEW l \in {"idle", "sent"}, Goto(r, l)
  PROVE  WorkInv'
<1> DEFINE e == [by |-> r, mode |-> job[r].mode, op |-> job[r].op,
                 amount |-> job[r].amount, status |-> "inflight"]
<1>1. txs' = Append(txs, e)
  BY DEF Submitted
<1>2. /\ e \in Txs /\ e.by = r /\ e.status = "inflight"
      /\ e.mode = "fund" => Affordable(r, e.amount)
      /\ e.mode # "fund" => e.op \in Ops /\ e.op.mode = e.mode
  BY SubmittedTx
<1> HIDE DEF e
<1>3. /\ \A i \in DOMAIN txs : txs'[i] = txs[i] /\ i \in DOMAIN txs'
      /\ txs'[Len(txs) + 1] = e
      /\ \A i \in DOMAIN txs' : i \in DOMAIN txs \/ i = Len(txs) + 1
  BY <1>1, <1>2, Appended DEF SessionInv
<1>4. pc'[r] = l /\ \A s \in Roles : s # r => pc'[s] = pc[s]
  BY PcStep DEF SessionInv
<1>5. ASSUME NEW s \in Roles PROVE JobSound(s)'
  <2>1. CASE s = r
    BY <1>4, <2>1 DEF JobSound
  <2>2. CASE s # r
    BY <1>4, <2>2 DEF WorkInv, JobSound, Affordable
  <2> QED BY <2>1, <2>2
<1>6. ASSUME NEW i \in DOMAIN txs' PROVE TxSound(i)'
  <2>1. CASE i \in DOMAIN txs
    BY <1>3, <2>1 DEF WorkInv, TxSound, Affordable
  <2>2. CASE i = Len(txs) + 1
    BY <1>2, <1>3, <2>2 DEF TxSound, Affordable
  <2> QED BY <1>3, <2>1, <2>2
<1>7. SettledOnce'
  <2>1. \A i \in DOMAIN txs' : txs'[i].status = "success" => i \in DOMAIN txs
    BY <1>2, <1>3
  <2>2. \A i : i \in DOMAIN txs' /\ txs'[i].mode = "settle" /\ txs'[i].status = "success"
          <=> i \in DOMAIN txs /\ txs[i].mode = "settle" /\ txs[i].status = "success"
    BY <1>3, <2>1
  <2> DEFINE won == {i \in DOMAIN txs : txs[i].mode = "settle" /\ txs[i].status = "success"}
             wonNext == {i \in DOMAIN txs' : txs'[i].mode = "settle" /\ txs'[i].status = "success"}
  <2>3. wonNext = won
    BY <2>2
  <2> QED BY <2>3 DEF WorkInv, SettledOnce
<1>8. FundedOnce' /\ WorkTyped' /\ \A s \in Roles : (sent[s] <= put[s])'
  BY DEF WorkInv, FundedOnce, WorkTyped
<1> QED BY <1>5, <1>6, <1>7, <1>8 DEF WorkInv

(* A transaction reverts. *)
LEMMA Work_Revert ==
  ASSUME SessionInv, WorkInv, NEW i \in DOMAIN txs, Revert(i)
  PROVE  WorkInv'
<1>1. /\ DOMAIN txs' = DOMAIN txs
      /\ \A j \in DOMAIN txs : /\ j # i => txs'[j] = txs[j]
                               /\ txs'[j].by = txs[j].by /\ txs'[j].mode = txs[j].mode
                               /\ txs'[j].op = txs[j].op /\ txs'[j].amount = txs[j].amount
      /\ txs'[i].status = "reverted"
  BY Finalized DEF SessionInv, Revert
<1>2. txs[i].status = "inflight" /\ UNCHANGED <<put, settled, ops, pc, job, sent>>
  BY DEF Revert, escrowVars
<1>3. \A s \in Roles : JobSound(s)'
  BY <1>2 DEF WorkInv, JobSound, Affordable
<1>4. ASSUME NEW j \in DOMAIN txs' PROVE TxSound(j)'
  <2>1. TxSound(j) /\ (txs'[j].status = "inflight" => txs[j].status = "inflight")
    BY <1>1, <1>2 DEF WorkInv
  <2> QED BY <1>1, <1>2, <2>1 DEF TxSound, Affordable
<1>5. SettledOnce'
  <2> DEFINE won == {j \in DOMAIN txs : txs[j].mode = "settle" /\ txs[j].status = "success"}
             wonNext == {j \in DOMAIN txs' : txs'[j].mode = "settle" /\ txs'[j].status = "success"}
  <2>1. wonNext = won
    BY <1>1, <1>2
  <2> QED BY <1>2, <2>1 DEF WorkInv, SettledOnce
<1>6. FundedOnce' /\ WorkTyped' /\ \A s \in Roles : (sent[s] <= put[s])'
  BY <1>2 DEF WorkInv, FundedOnce, WorkTyped
<1> QED BY <1>3, <1>4, <1>5, <1>6 DEF WorkInv

(* A transfer is included: nothing else of its client is in flight, and its *)
(* session is not about to send another.                                    *)
LEMMA Work_Funded ==
  ASSUME EscrowInv, SessionInv, WorkInv, NEW i \in DOMAIN txs, txs[i].status = "inflight",
         txs' = [txs EXCEPT ![i].status = "success"], txs[i].mode = "fund",
         PayIn(txs[i].by, txs[i].amount),
         sent' = [sent EXCEPT ![txs[i].by] = @ + txs[i].amount],
         UNCHANGED <<ops, approvals, journal, pc, job, strays>>
  PROVE  WorkInv'
<1> DEFINE r == txs[i].by
           amount == txs[i].amount
<1>1. /\ DOMAIN txs' = DOMAIN txs
      /\ \A j \in DOMAIN txs : /\ j # i => txs'[j] = txs[j]
                               /\ txs'[j].by = txs[j].by /\ txs'[j].mode = txs[j].mode
                               /\ txs'[j].op = txs[j].op /\ txs'[j].amount = txs[j].amount
      /\ txs'[i].status = "success"
  BY Finalized DEF SessionInv
<1>2. r \in Roles /\ Affordable(r, amount)
  BY TxFacts DEF SessionInv, WorkInv, TxSound
<1>3. /\ settled' = settled /\ \A s \in Roles : put'[s] = IF s = r THEN put[s] + amount ELSE put[s]
  BY <1>2 DEF PayIn, EscrowInv, EscrowTypeOK
<1>4. \A s \in Roles : sent'[s] = IF s = r THEN sent[s] + amount ELSE sent[s]
  BY <1>2 DEF WorkInv, WorkTyped
<1>5. amount \in Nat /\ \A s \in Roles : sent[s] \in Nat /\ put[s] \in Nat /\ Agreed[s] \in Nat
  <2>1. \A s \in Roles : sent[s] \in Nat /\ put[s] \in Nat /\ Agreed[s] \in Nat
    BY ConfidentialEscrowAssumption DEF WorkInv, WorkTyped, EscrowInv, EscrowTypeOK
  <2>2. amount \in 1..Agreed[r]
    BY <1>2 DEF Affordable
  <2> HIDE DEF amount, r
  <2> QED BY <2>1, <2>2, <1>2
<1>6. pc[r] # "saved"
  <2>1. Covers(journal[r], i) /\ (journal[r].tx = 0 => i \in Unrecorded(r))
    BY InFlightOf
  <2> QED BY <1>2, <2>1 DEF SessionInv, SessionSound
<1>7. ASSUME NEW s \in Roles PROVE JobSound(s)'
  <2>1. JobSound(s) /\ job' = job /\ pc' = pc
    BY DEF WorkInv
  <2>2. CASE s = r
    BY <1>6, <2>1, <2>2 DEF JobSound
  <2>3. CASE s # r
    BY <1>4, <2>1, <2>3 DEF JobSound, Affordable
  <2> QED BY <2>2, <2>3
<1>8. ASSUME NEW j \in DOMAIN txs' PROVE TxSound(j)'
  <2>1. TxSound(j) /\ txs[j].by \in Roles
    BY <1>1, TxFacts DEF WorkInv, SessionInv
  <2>2. CASE j = i
    BY <1>1, <2>1, <2>2 DEF TxSound
  <2>3. CASE j # i
    <3>1. txs'[j] = txs[j]
      BY <1>1, <2>3
    <3>2. txs[j].status = "inflight" => txs[j].by # r
      BY <1>1, <2>3 DEF SessionInv, InFlightJournaled
    <3>3. txs[j].by # r => sent'[txs[j].by] = sent[txs[j].by]
      BY <1>4, <2>1
    <3> QED BY <2>1, <3>1, <3>2, <3>3 DEF TxSound, Affordable
  <2> QED BY <2>2, <2>3
<1>9. SettledOnce'
  <2> DEFINE won == {j \in DOMAIN txs : txs[j].mode = "settle" /\ txs[j].status = "success"}
             wonNext == {j \in DOMAIN txs' : txs'[j].mode = "settle" /\ txs'[j].status = "success"}
  <2>1. wonNext = won
    BY <1>1
  <2> QED BY <1>3, <2>1 DEF WorkInv, SettledOnce
<1>10. FundedOnce'
  BY <1>2, <1>4 DEF FundedOnce, WorkInv, Affordable
<1>11. \A s \in Roles : sent'[s] <= put'[s]
  BY <1>3, <1>4, <1>5 DEF WorkInv
<1>12. WorkTyped'
  BY <1>2, <1>5 DEF WorkInv, WorkTyped
<1> QED BY <1>7, <1>8, <1>9, <1>10, <1>11, <1>12 DEF WorkInv

(* An operation of the escrow is included. *)
LEMMA Work_Executed ==
  ASSUME SessionInv, WorkInv, NEW i \in DOMAIN txs, txs[i].status = "inflight",
         txs' = [txs EXCEPT ![i].status = "success"], txs[i].mode # "fund",
         Executable(Signed(txs[i])), Execute(Signed(txs[i])),
         UNCHANGED <<sent, ops, approvals, journal, pc, job, strays>>
  PROVE  WorkInv'
<1>1. /\ DOMAIN txs' = DOMAIN txs
      /\ \A j \in DOMAIN txs : /\ j # i => txs'[j] = txs[j]
                               /\ txs'[j].by = txs[j].by /\ txs'[j].mode = txs[j].mode
                               /\ txs'[j].op = txs[j].op /\ txs'[j].amount = txs[j].amount
      /\ txs'[i].status = "success"
  BY Finalized DEF SessionInv
<1>2. Signed(txs[i]).mode = txs[i].mode
  BY DEF Signed, WorkInv, TxSound
<1>3. /\ put' = put /\ settled' = (settled \/ txs[i].mode = "settle")
      /\ txs[i].mode = "settle" => ~settled
  BY <1>2 DEF Execute, Executable, invoke_allowed
<1>4. \A s \in Roles : JobSound(s)'
  BY DEF WorkInv, JobSound, Affordable
<1>5. ASSUME NEW j \in DOMAIN txs' PROVE TxSound(j)'
  <2>1. TxSound(j) /\ (txs'[j].status = "inflight" => txs[j].status = "inflight")
    BY <1>1 DEF WorkInv
  <2> QED BY <1>1, <2>1 DEF TxSound, Affordable
<1>6. SettledOnce'
  <2> DEFINE won == {j \in DOMAIN txs : txs[j].mode = "settle" /\ txs[j].status = "success"}
             wonNext == {j \in DOMAIN txs' : txs'[j].mode = "settle" /\ txs'[j].status = "success"}
  <2>1. (\A j, k \in won : j = k) /\ (settled <=> won # {})
    BY DEF WorkInv, SettledOnce
  <2>2. CASE txs[i].mode = "settle"
    <3>1. won = {} /\ settled'
      BY <1>3, <2>1, <2>2
    <3>2. wonNext = {i}
      BY <1>1, <2>2, <3>1
    <3> QED BY <3>1, <3>2 DEF SettledOnce
  <2>3. CASE txs[i].mode # "settle"
    <3>1. wonNext = won
      BY <1>1, <2>3
    <3>2. settled' <=> settled
      BY <1>3, <2>3
    <3> QED BY <2>1, <3>1, <3>2 DEF SettledOnce
  <2> QED BY <2>2, <2>3
<1>7. FundedOnce' /\ WorkTyped' /\ \A s \in Roles : (sent[s] <= put[s])'
  BY <1>3 DEF WorkInv, FundedOnce, WorkTyped
<1> QED BY <1>4, <1>5, <1>6, <1>7 DEF WorkInv

-----------------------------------------------------------------------------
(* Every step of the clients and the chain *)

LEMMA Init_Inv ==
  ASSUME Init
  PROVE  ClientInv
<1> USE DEF Init
<1>1. EscrowInv
  BY EscrowInit_Inv
<1>2. txs = << >> /\ DOMAIN txs = {} /\ Len(txs) = 0
  OBVIOUS
<1>3. SessionInv
  <2>1. SessionTyped
    BY <1>2, ConfidentialClientAssumption DEF SessionTyped, Entries
  <2>2. \A r \in Roles : SessionSound(r)
    BY <1>2 DEF SessionSound, Unrecorded, NoPending
  <2>3. InFlightJournaled
    BY <1>2 DEF InFlightJournaled
  <2> QED BY <2>1, <2>2, <2>3 DEF SessionInv
<1>4. WorkInv
  <2>1. WorkTyped
    BY NoJobTyped DEF WorkTyped
  <2>2. \A r \in Roles : JobSound(r)
    BY DEF JobSound
  <2>3. FundedOnce /\ \A r \in Roles : sent[r] <= put[r]
    BY ConfidentialEscrowAssumption DEF FundedOnce, EscrowInit
  <2>4. SettledOnce
    BY <1>2 DEF SettledOnce, EscrowInit
  <2> QED BY <1>2, <2>1, <2>2, <2>3, <2>4 DEF WorkInv
<1> QED BY <1>1, <1>3, <1>4 DEF ClientInv

(* A step of a client leaves the escrow alone. *)
LEMMA ClientLeavesEscrow ==
  ASSUME ClientNext
  PROVE  UNCHANGED evars /\ UNCHANGED sent
BY DEF ClientNext, evars, escrowVars, prepare, approve, BeginExecute, AbortProof,
       FinishProof, fund, Send, SendUncertain, SaveHash, reconcile, GiveUp, Crash,
       Unlock, Repair

(* Every step of the composition is one of the escrow or leaves it alone. *)
LEMMA StepIsEscrow ==
  ASSUME ClientInv, [Next]_vars
  PROVE  [EscrowNext]_evars
<1> USE DEF ClientInv
<1>1. CASE ClientNext
  BY <1>1, ClientLeavesEscrow
<1>2. ASSUME NEW i \in DOMAIN txs, Include(i)
      PROVE  EscrowNext
  <2>1. TxSound(i) /\ txs[i].by \in Roles
    BY TxFacts DEF WorkInv, SessionInv
  <2>2. CASE txs[i].mode = "fund" /\ PayIn(txs[i].by, txs[i].amount)
    BY <2>1, <2>2 DEF TxSound, EscrowNext
  <2>3. CASE /\ txs[i].mode # "fund"
             /\ Executable(Signed(txs[i])) /\ Execute(Signed(txs[i]))
    <3>1. Signed(txs[i]) \in SignedOps
      BY <2>1, <2>3, SignedInOps DEF TxSound, Executable
    <3> QED BY <2>3, <3>1 DEF EscrowNext
  <2> QED BY <1>2, <2>2, <2>3 DEF Include
<1>3. ASSUME NEW i \in DOMAIN txs, Revert(i)
      PROVE  UNCHANGED evars
  BY <1>3 DEF Revert, evars, escrowVars
<1>4. ASSUME NEW t \in Roles, NEW amount \in 1..Agreed[t], Stray(t, amount)
      PROVE  EscrowNext
  BY <1>4 DEF Stray, EscrowNext
<1>5. CASE Tick
  BY <1>5 DEF EscrowNext
<1>6. CASE UNCHANGED vars
  BY <1>6 DEF vars, evars
<1> QED BY <1>1, <1>2, <1>3, <1>4, <1>5, <1>6 DEF Next, ChainNext

LEMMA Session_Client ==
  ASSUME ClientInv, NEW r \in Roles,
         \/ \E mode \in Modes : prepare(r, mode)
         \/ \E op \in ops : approve(r, op) \/ BeginExecute(r, op)
         \/ AbortProof(r) \/ FinishProof(r) \/ fund(r)
         \/ Send(r) \/ SendUncertain(r) \/ SaveHash(r) \/ reconcile(r) \/ GiveUp(r)
         \/ Crash(r) \/ Unlock(r) \/ Repair(r)
  PROVE  SessionInv'
<1>1. SessionInv /\ WorkInv
  BY DEF ClientInv
<1>2. CASE UNCHANGED <<txs, journal, pc>>
  BY <1>1, <1>2 DEF SessionInv, SessionTyped, SessionSound, Unrecorded, InFlightJournaled
<1>3. ASSUME NEW op \in ops, BeginExecute(r, op)
      PROVE  SessionInv'
  BY <1>1, <1>3, Session_Move DEF BeginExecute
<1>4. CASE AbortProof(r) \/ GiveUp(r) \/ Unlock(r)
  BY <1>1, <1>4, Session_Move DEF AbortProof, GiveUp, Unlock
<1>5. CASE Crash(r)
  BY <1>1, <1>5, Session_Move DEF Crash
<1>6. CASE FinishProof(r)
  <2>1. job[r].mode \in Modes \cup {"fund"}
    BY <1>1, <1>6 DEF WorkInv, WorkTyped, JobSound, Jobs, FinishProof
  <2>2. journal[r] = NoPending
    BY <1>1, <1>6 DEF SessionInv, SessionSound, FinishProof
  <2> QED BY <1>1, <1>6, <2>1, <2>2, Session_Save DEF FinishProof
<1>7. CASE fund(r)
  BY <1>1, <1>7, Session_Save DEF fund
<1>8. CASE (Send(r) \/ SendUncertain(r)) /\ Len(txs) < MaxTx /\ txs' = Submitted(r)
  <2> DEFINE e == [by |-> r, mode |-> job[r].mode, op |-> job[r].op,
                   amount |-> job[r].amount, status |-> "inflight"]
  <2>1. pc[r] = "saved" /\ UNCHANGED journal /\ \E l \in {"idle", "sent"} : Goto(r, l)
    BY <1>8 DEF Send, SendUncertain
  <2>2. e \in Txs /\ e.by = r /\ e.status = "inflight"
    BY <1>1, <2>1, SubmittedTx
  <2>3. txs' = Append(txs, e)
    BY <1>8 DEF Submitted
  <2> HIDE DEF e
  <2> QED BY <1>1, <1>8, <2>1, <2>2, <2>3, Session_Submit
<1>9. CASE SendUncertain(r) /\ UNCHANGED txs
  BY <1>1, <1>9, Session_Move DEF SendUncertain
<1>10. CASE SaveHash(r)
  <2>1. journal[r] # NoPending /\ journal[r].tx = 0
    BY <1>1, <1>10 DEF SessionInv, SessionSound, SaveHash
  <2> QED BY <1>1, <1>10, <2>1, Session_Hash DEF SaveHash
<1>11. CASE reconcile(r)
  <2>1. ASSUME NEW i \in DOMAIN txs, txs[i].by = r, txs[i].status = "inflight"
        PROVE  FALSE
    <3>1. Covers(journal[r], i)
      BY <1>1, <2>1, InFlightOf
    <3> QED BY <1>11, <2>1, <3>1 DEF reconcile, Covers
  <2> QED BY <1>1, <1>11, <2>1, Session_Clear DEF reconcile
<1>12. CASE Repair(r)
  <2>1. Goto(r, "idle")
    BY <1>1, <1>12 DEF Repair, Goto, SessionInv, SessionTyped
  <2>2. CASE \E i \in Unrecorded(r) : journal' = [journal EXCEPT ![r].tx = i]
    BY <1>1, <1>12, <2>1, <2>2, Session_Hash DEF Repair
  <2>3. CASE Unrecorded(r) = {} /\ journal' = [journal EXCEPT ![r] = NoPending]
    <3>1. \A i \in DOMAIN txs : txs[i].by = r => txs[i].status # "inflight"
      BY <1>1, <1>12, <2>3, InFlightOf DEF Repair
    <3> QED BY <1>1, <1>12, <2>1, <2>3, <3>1, Session_Clear DEF Repair
  <2> QED BY <1>12, <2>2, <2>3 DEF Repair
<1> QED BY <1>2, <1>3, <1>4, <1>5, <1>6, <1>7, <1>8, <1>9, <1>10, <1>11, <1>12
        DEF prepare, approve, Send, SendUncertain

(* A session that writes its job keeps the table of jobs typed. *)
LEMMA JobStep ==
  ASSUME WorkInv, NEW r \in Roles, NEW j \in Jobs, job' = [job EXCEPT ![r] = j]
  PROVE  /\ job' \in [Roles -> Jobs] /\ job'[r] = j
         /\ \A s \in Roles : s # r => job'[s] = job[s]
BY DEF WorkInv, WorkTyped

LEMMA Work_Client ==
  ASSUME ClientInv, NEW r \in Roles,
         \/ \E mode \in Modes : prepare(r, mode)
         \/ \E op \in ops : approve(r, op) \/ BeginExecute(r, op)
         \/ AbortProof(r) \/ FinishProof(r) \/ fund(r)
         \/ Send(r) \/ SendUncertain(r) \/ SaveHash(r) \/ reconcile(r) \/ GiveUp(r)
         \/ Crash(r) \/ Unlock(r) \/ Repair(r),
         UNCHANGED evars, UNCHANGED sent
  PROVE  WorkInv'
<1>1. EscrowInv /\ SessionInv /\ WorkInv
  BY DEF ClientInv
<1>2. UNCHANGED <<sent, put, settled>> /\ ops \subseteq Ops /\ job \in [Roles -> Jobs]
  BY <1>1 DEF evars, WorkInv, WorkTyped
<1>3. ASSUME UNCHANGED txs, ops' \subseteq Ops, UNCHANGED <<pc, job>>
      PROVE  WorkInv'
  <2>1. JobSound(r)'
    BY <1>1, <1>2, <1>3 DEF WorkInv, JobSound, Affordable
  <2> QED BY <1>1, <1>2, <1>3, <2>1, Work_Session
<1>4. ASSUME UNCHANGED <<txs, ops>>, NEW l \in {"idle", "sent", "waiting", "crashed"},
             Goto(r, l), job' = job \/ job' = [job EXCEPT ![r] = NoJob]
      PROVE  WorkInv'
  <2>1. pc'[r] = l /\ \A s \in Roles : s # r => pc'[s] = pc[s]
    BY <1>1, <1>4, PcStep DEF SessionInv
  <2>2. job' \in [Roles -> Jobs] /\ \A s \in Roles : s # r => job'[s] = job[s]
    BY <1>1, <1>2, <1>4, JobStep, NoJobTyped
  <2>3. JobSound(r)'
    BY <2>1 DEF JobSound
  <2> QED BY <1>1, <1>2, <1>4, <2>1, <2>2, <2>3, Work_Session
<1>5. ASSUME NEW mode \in Modes, prepare(r, mode)
      PROVE  WorkInv'
  <2>1. ops' \subseteq Ops
    BY <1>1, <1>2, <1>5, BuiltTyped DEF prepare
  <2> QED BY <1>3, <1>5, <2>1 DEF prepare
<1>6. ASSUME NEW op \in ops, approve(r, op)
      PROVE  WorkInv'
  BY <1>2, <1>3, <1>6 DEF approve
<1>7. ASSUME NEW op \in ops, BeginExecute(r, op)
      PROVE  WorkInv'
  <2> DEFINE j == [mode |-> op.mode, op |-> op, amount |-> 0]
  <2>1. op \in Ops /\ op.mode \in Modes
    BY <1>2 DEF Ops
  <2>2. /\ j \in Jobs /\ j.mode = op.mode /\ j.op = op /\ job' = [job EXCEPT ![r] = j]
        /\ j.mode # "none" /\ j.mode # "fund"
    BY <1>7, <2>1 DEF BeginExecute, Jobs, Modes
  <2> HIDE DEF j
  <2>3. /\ job' \in [Roles -> Jobs] /\ job'[r] = j
        /\ \A s \in Roles : s # r => job'[s] = job[s]
    BY <1>1, <2>2, JobStep
  <2>4. pc'[r] = "proving" /\ \A s \in Roles : s # r => pc'[s] = pc[s]
    BY <1>1, <1>7, PcStep DEF SessionInv, BeginExecute
  <2>5. JobSound(r)'
    BY <2>1, <2>2, <2>3, <2>4 DEF JobSound
  <2> QED BY <1>1, <1>2, <1>7, <2>3, <2>4, <2>5, Work_Session DEF BeginExecute
<1>8. CASE FinishProof(r)
  <2>1. pc'[r] = "saved" /\ \A s \in Roles : s # r => pc'[s] = pc[s]
    BY <1>1, <1>8, PcStep DEF SessionInv, FinishProof
  <2>2. JobSound(r)'
    BY <1>1, <1>8, <2>1 DEF WorkInv, JobSound, FinishProof
  <2> QED BY <1>1, <1>2, <1>8, <2>1, <2>2, Work_Session DEF FinishProof
<1>9. CASE fund(r)
  <2> DEFINE j == [mode |-> "fund", op |-> <<>>, amount |-> Missing(r)]
  <2>1. Affordable(r, Missing(r)) /\ Missing(r) \in Nat
    BY <1>1, <1>9, MissingIsAffordable DEF fund
  <2>2. /\ j \in Jobs /\ j.mode = "fund" /\ j.amount = Missing(r)
        /\ job' = [job EXCEPT ![r] = j]
    BY <1>9, <2>1 DEF fund, Jobs
  <2> HIDE DEF j
  <2>3. /\ job' \in [Roles -> Jobs] /\ job'[r] = j
        /\ \A s \in Roles : s # r => job'[s] = job[s]
    BY <1>1, <2>2, JobStep
  <2>4. pc'[r] = "saved" /\ \A s \in Roles : s # r => pc'[s] = pc[s]
    BY <1>1, <1>9, PcStep DEF SessionInv, fund
  <2>5. JobSound(r)'
    <3>1. Affordable(r, job[r].amount)'
      BY <1>2, <2>1, <2>2, <2>3 DEF Affordable
    <3> QED BY <2>2, <2>3, <2>4, <3>1 DEF JobSound
  <2> QED BY <1>1, <1>2, <1>9, <2>3, <2>4, <2>5, Work_Session DEF fund
<1>10. CASE (Send(r) \/ SendUncertain(r)) /\ txs' = Submitted(r)
  <2>1. pc[r] = "saved" /\ UNCHANGED ops /\ \E l \in {"idle", "sent"} : Goto(r, l)
    BY <1>10 DEF Send, SendUncertain
  <2>2. job' = job \/ job' = [job EXCEPT ![r] = NoJob]
    BY <1>10 DEF Send, SendUncertain
  <2>3. job' \in [Roles -> Jobs] /\ \A s \in Roles : s # r => job'[s] = job[s]
    BY <1>1, <1>2, <2>2, JobStep, NoJobTyped
  <2> QED BY <1>1, <1>2, <1>10, <2>1, <2>3, Work_Submit
<1>11. CASE SendUncertain(r) /\ UNCHANGED txs
  BY <1>4, <1>11 DEF SendUncertain
<1>12. CASE AbortProof(r) \/ SaveHash(r) \/ reconcile(r) \/ GiveUp(r) \/ Crash(r) \/ Unlock(r)
  BY <1>4, <1>12 DEF AbortProof, SaveHash, reconcile, GiveUp, Crash, Unlock
<1>13. CASE Repair(r)
  BY <1>2, <1>3, <1>13 DEF Repair
<1> QED BY <1>5, <1>6, <1>7, <1>8, <1>9, <1>10, <1>11, <1>12, <1>13 DEF Send, SendUncertain

LEMMA ClientInvStep ==
  ASSUME ClientInv, [Next]_vars
  PROVE  ClientInv'
<1>0. EscrowInv /\ SessionInv /\ WorkInv
  BY DEF ClientInv
<1>1. EscrowInv'
  BY <1>0, StepIsEscrow, EscrowNext_Inv
<1>2. ASSUME ClientNext PROVE SessionInv' /\ WorkInv'
  <2>1. UNCHANGED evars /\ UNCHANGED sent
    BY <1>2, ClientLeavesEscrow
  <2> QED BY <1>2, <2>1, Session_Client, Work_Client DEF ClientNext
<1>3. ASSUME NEW i \in DOMAIN txs, Include(i)
      PROVE  SessionInv' /\ WorkInv'
  <2>1. /\ txs' = [txs EXCEPT ![i].status = "success"] /\ txs[i].status = "inflight"
        /\ UNCHANGED <<ops, approvals, journal, pc, job, strays>>
    BY <1>3 DEF Include
  <2>2. SessionInv'
    BY <1>0, <2>1, Session_Final
  <2>3. CASE /\ txs[i].mode = "fund" /\ PayIn(txs[i].by, txs[i].amount)
             /\ sent' = [sent EXCEPT ![txs[i].by] = @ + txs[i].amount]
    BY <1>0, <2>1, <2>2, <2>3, Work_Funded
  <2>4. CASE /\ txs[i].mode # "fund" /\ Executable(Signed(txs[i]))
             /\ Execute(Signed(txs[i])) /\ UNCHANGED sent
    BY <1>0, <2>1, <2>2, <2>4, Work_Executed
  <2> QED BY <1>3, <2>2, <2>3, <2>4 DEF Include
<1>4. ASSUME NEW i \in DOMAIN txs, Revert(i)
      PROVE  SessionInv' /\ WorkInv'
  <2>1. SessionInv'
    BY <1>0, <1>4, Session_Final DEF Revert
  <2> QED BY <1>0, <1>4, <2>1, Work_Revert
<1>5. ASSUME UNCHANGED <<txs, sent, settled, ops, job, pc, journal>>,
             \A r \in Roles : sent[r] <= put'[r]
      PROVE  SessionInv' /\ WorkInv'
  <2>1. SessionInv'
    BY <1>0, <1>5 DEF SessionInv, SessionTyped, SessionSound, Unrecorded, InFlightJournaled
  <2> QED BY <1>0, <1>5, <2>1, Work_Escrow
<1>6. \A r \in Roles : sent[r] \in Nat /\ put[r] \in Nat /\ sent[r] <= put[r]
  BY <1>0 DEF WorkInv, WorkTyped, EscrowInv, EscrowTypeOK
<1>7. ASSUME NEW t \in Roles, NEW amount \in 1..Agreed[t], Stray(t, amount)
      PROVE  SessionInv' /\ WorkInv'
  <2>1. UNCHANGED <<txs, sent, settled, ops, job, pc, journal>>
    BY <1>7 DEF Stray, PayIn
  <2>2. \A r \in Roles : put'[r] = put[r] + (IF r = t THEN amount ELSE 0)
    BY <1>0, <1>6, <1>7 DEF Stray, PayIn, EscrowInv, EscrowTypeOK
  <2>3. amount \in Nat
    BY ConfidentialEscrowAssumption
  <2>4. \A r \in Roles : sent[r] <= put'[r]
    BY <1>6, <2>2, <2>3
  <2> QED BY <1>5, <2>1, <2>4
<1>8. ASSUME Tick, UNCHANGED clientVars PROVE SessionInv' /\ WorkInv'
  <2>1. UNCHANGED <<txs, sent, settled, ops, job, pc, journal>> /\ UNCHANGED put
    BY <1>8 DEF Tick, escrowVars, clientVars
  <2> QED BY <1>5, <1>6, <2>1
<1>9. ASSUME UNCHANGED vars PROVE SessionInv' /\ WorkInv'
  <2>1. UNCHANGED <<txs, sent, settled, ops, job, pc, journal>> /\ UNCHANGED put
    BY <1>9 DEF vars
  <2> QED BY <1>5, <1>6, <2>1
<1>10. SessionInv' /\ WorkInv'
  <2>1. CASE ChainNext
    BY <1>3, <1>4, <1>7, <1>8, <2>1 DEF ChainNext
  <2> QED BY <1>2, <1>9, <2>1 DEF Next
<1> QED BY <1>1, <1>10 DEF ClientInv

LEMMA ClientInvariant == Spec => []ClientInv
<1>1. Init => ClientInv
  BY Init_Inv
<1>2. ClientInv /\ [Next]_vars => ClientInv'
  BY ClientInvStep
<1> QED BY <1>1, <1>2, PTL DEF Spec

-----------------------------------------------------------------------------
(* Theorems about the clients *)

(* The clients drive the escrow only as its specification allows: every     *)
(* transfer and every operation built by prepare() and signed through       *)
(* approve() is one the policy was analysed for, so the atomicity and       *)
(* consent theorems hold for the composition too.                           *)
THEOREM ClientsUseEscrow == Spec => Escrow
<1>1. Init => EscrowInit
  BY DEF Init
<1>2. ClientInv /\ [Next]_vars => [EscrowNext]_evars
  BY StepIsEscrow
<1> QED BY <1>1, <1>2, ClientInvariant, PTL DEF Spec, Escrow, evars

(* No submission that may still take effect is forgotten, through crashes,  *)
(* lost answers and repairs (broadcast saves its entry before it submits).  *)
THEOREM SubmissionsAreJournaled == Spec => []InFlightJournaled
<1>1. ClientInv => InFlightJournaled
  BY DEF ClientInv, SessionInv
<1> QED BY <1>1, ClientInvariant, PTL

(* A settlement that succeeded shows on the escrow, and the escrow settles  *)
(* once although both clients may submit it.                                *)
THEOREM SettlesOnce == Spec => []SettledOnce
<1>1. ClientInv => SettledOnce
  BY DEF ClientInv, WorkInv
<1> QED BY <1>1, ClientInvariant, PTL

(* A party never pays more than it agreed to (fund pays what is missing and *)
(* never while an earlier payment may still land).                          *)
THEOREM FundsOnce == Spec => []FundedOnce
<1>1. ClientInv => FundedOnce
  BY DEF ClientInv, WorkInv
<1> QED BY <1>1, ClientInvariant, PTL

=============================================================================
