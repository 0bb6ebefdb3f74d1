------------------------- MODULE ConfidentialClient -------------------------
(***************************************************************************)
(* The two parties' confidential RFQ clients                               *)
(* (packages/agent-sdk/src/confidential.ts) with their durable journals    *)
(* (confidential-journal.ts), composed with the escrow they operate.       *)
(*                                                                         *)
(* execute() and fund() hold the session lock from start to end, but every *)
(* await is a point where the process may die, the relayer's answer may be *)
(* lost and the chain moves on: each is split at its journal writes and at *)
(* the submission.  A crash leaves the lock behind.                        *)
(***************************************************************************)
EXTENDS ConfidentialEscrow, Sequences

CONSTANTS
  MaxTx,      \* bound: transactions submitted in all
  MaxOps,     \* bound: operations prepared in all
  MaxStray    \* bound: notes strangers send to the escrow

ASSUME ConfidentialClientAssumption ==
  MaxTx \in Nat /\ MaxOps \in Nat /\ MaxStray \in Nat

VARIABLES
  ops,        \* prepared operations the parties have exchanged
  approvals,  \* pairs of an operation and a role that approved it
  txs,        \* transactions that reached the network, in order
  journal,    \* each client's durable pending entry
  pc,         \* where each client's session stands
  job,        \* what it is submitting, in memory
  sent,       \* history: what each party's wallet paid into the escrow
  strays      \* number of notes strangers have sent

clientVars == <<ops, approvals, txs, journal, pc, job, sent, strays>>

vars == <<now, registered, settled, notes, made, put, paid, consent,
          ops, approvals, txs, journal, pc, job, sent, strays>>

(* No submission pending; otherwise its mode, the index of its transaction  *)
(* (0 while the hash is not recorded) and what the network held when it was *)
(* recorded, which is what an operator sees in the relayer's account.       *)
NoPending == [mode |-> "none", tx |-> 0, since |-> 0]

Pending == [mode: Modes \cup {"fund"}, tx: 0..MaxTx, since: 0..MaxTx]

NoJob == [mode |-> "none", op |-> <<>>, amount |-> 0]

TypeOK ==
  /\ EscrowTypeOK
  /\ journal \in [Roles -> Pending \cup {NoPending}]
  /\ pc \in [Roles -> {"idle", "proving", "saved", "sent", "waiting", "crashed"}]
  /\ \A i \in DOMAIN txs :
       /\ txs[i].by \in Roles
       /\ txs[i].status \in {"inflight", "success", "reverted"}
  /\ sent \in [Roles -> Nat]

Init ==
  /\ EscrowInit
  /\ ops = {}
  /\ approvals = {}
  /\ txs = << >>
  /\ journal = [r \in Roles |-> NoPending]
  /\ pc = [r \in Roles |-> "idle"]
  /\ job = [r \in Roles |-> NoJob]
  /\ sent = [r \in Roles |-> 0]
  /\ strays = 0

Goto(r, label) == pc' = [pc EXCEPT ![r] = label]

-----------------------------------------------------------------------------
(* Preparing and approving *)

(* checkTime, against the latest block. *)
checkTime(mode) ==
  /\ mode \in {"setup", "settle"} => ~settled /\ now < Deadline
  /\ mode \in {"refundA", "refundB"} => now >= Deadline

(* What the builder makes of a mode and the notes it selects: the traded    *)
(* amounts, and the surplus or the refund to the asset's owner.             *)
BuiltOuts(mode, ns) ==
  [t \in Roles |-> [p \in Recipients |->
     CASE mode = "settle" /\ p = Other(t) -> Agreed[t]
       [] mode = "settle" /\ p = t -> Value(ns, t) - Agreed[t]
       [] mode \in {"refundA", "refundB"} /\ p = t -> Value(ns, t)
       [] OTHER -> 0]]

(* The notes prepare() may select: enough of both for a settlement, all of  *)
(* the party's own for a refund.                                            *)
Selections(mode) ==
  CASE mode = "setup" -> {{}}
    [] mode = "settle" ->
         {ns \in SUBSET notes : \A t \in Roles : Value(ns, t) >= Agreed[t]}
    [] OTHER -> {{n \in notes : n.token = RefundOf(mode)}} \ {{}}

prepare(r, mode) ==
  /\ pc[r] = "idle"
  /\ journal[r] = NoPending
  /\ Cardinality(ops) < MaxOps
  /\ checkTime(mode)
  /\ registered = (mode # "setup")
  /\ \E ns \in Selections(mode) :
       ops' = ops \cup {[mode |-> mode, inputs |-> ns, outs |-> BuiltOuts(mode, ns)]}
  /\ UNCHANGED <<now, escrowVars, approvals, txs, journal, pc, job, sent, strays>>

(* approve: the wallet reviews the operation by the escrow's own policy. *)
approve(r, op) ==
  /\ op \in ops
  /\ r \in RequiredSigners(op.mode)
  /\ check_actions(op)
  /\ checkTime(op.mode)
  /\ approvals' = approvals \cup {<<op, r>>}
  /\ UNCHANGED <<now, escrowVars, ops, txs, journal, pc, job, sent, strays>>

-----------------------------------------------------------------------------
(* Submitting *)

(* execute, up to the start of the proof. *)
BeginExecute(r, op) ==
  /\ pc[r] = "idle"
  /\ journal[r] = NoPending
  /\ op \in ops
  /\ checkTime(op.mode)
  /\ \A s \in RequiredSigners(op.mode) : <<op, s>> \in approvals
  /\ job' = [job EXCEPT ![r] = [mode |-> op.mode, op |-> op, amount |-> 0]]
  /\ Goto(r, "proving")
  /\ UNCHANGED <<now, escrowVars, ops, approvals, txs, journal, sent, strays>>

(* The proof is there, or it failed or came too late. *)
AbortProof(r) ==
  /\ pc[r] = "proving"
  /\ Goto(r, "idle")
  /\ job' = [job EXCEPT ![r] = NoJob]
  /\ UNCHANGED <<now, escrowVars, ops, approvals, txs, journal, sent, strays>>

\* Faulty variant: the journal is written after the submission only.
SavePending_Later(r, mode) == journal' = journal

(* broadcast: the attempt is durable before it is submitted. *)
SavePending(r, mode) ==
  journal' = [journal EXCEPT ![r] = [mode |-> mode, tx |-> 0, since |-> Len(txs)]]

FinishProof(r) ==
  /\ pc[r] = "proving"
  /\ checkTime(job[r].mode)
  /\ SavePending(r, job[r].mode)
  /\ Goto(r, "saved")
  /\ UNCHANGED <<now, escrowVars, ops, approvals, txs, job, sent, strays>>

(* funding: what is missing of the agreed amount. *)
Missing(r) == Agreed[r] - Value(notes, r)

\* Faulty variant: always the agreed amount.
fund_Full(r) ==
  /\ pc[r] = "idle"
  /\ journal[r] = NoPending
  /\ registered
  /\ checkTime("settle")
  /\ job' = [job EXCEPT ![r] = [mode |-> "fund", op |-> <<>>, amount |-> Agreed[r]]]
  /\ SavePending(r, "fund")
  /\ Goto(r, "saved")
  /\ UNCHANGED <<now, escrowVars, ops, approvals, txs, sent, strays>>

(* fund, up to the submission of the transfer. *)
fund(r) ==
  /\ pc[r] = "idle"
  /\ journal[r] = NoPending
  /\ registered
  /\ checkTime("settle")
  /\ Missing(r) > 0
  /\ job' = [job EXCEPT ![r] = [mode |-> "fund", op |-> <<>>, amount |-> Missing(r)]]
  /\ SavePending(r, "fund")
  /\ Goto(r, "saved")
  /\ UNCHANGED <<now, escrowVars, ops, approvals, txs, sent, strays>>

Submitted(r) ==
  Append(txs, [by |-> r, mode |-> job[r].mode, op |-> job[r].op,
               amount |-> job[r].amount, status |-> "inflight"])

(* send() answers with the hash. *)
Send(r) ==
  /\ pc[r] = "saved"
  /\ Len(txs) < MaxTx
  /\ txs' = Submitted(r)
  /\ Goto(r, "sent")
  /\ UNCHANGED <<now, escrowVars, ops, approvals, journal, job, sent, strays>>

(* send(), or the write of the hash, fails: the transaction may have been   *)
(* submitted or not.  The session ends, its entry has no hash.              *)
SendUncertain(r) ==
  /\ pc[r] = "saved"
  /\ \/ Len(txs) < MaxTx /\ txs' = Submitted(r)
     \/ UNCHANGED txs
  /\ Goto(r, "idle")
  /\ job' = [job EXCEPT ![r] = NoJob]
  /\ UNCHANGED <<now, escrowVars, ops, approvals, journal, sent, strays>>

(* The transactions this client submitted since its entry was recorded. *)
Unrecorded(r) == {i \in DOMAIN txs : i > journal[r].since /\ txs[i].by = r}

SaveHash(r) ==
  /\ pc[r] = "sent"
  /\ \E i \in Unrecorded(r) : journal' = [journal EXCEPT ![r].tx = i]
  /\ Goto(r, "waiting")
  /\ UNCHANGED <<now, escrowVars, ops, approvals, txs, job, sent, strays>>

(* reconcileUnlocked, at the end of a broadcast or in a later session: only *)
(* a known hash with a final receipt clears the entry, and a successful     *)
(* settlement must show on the escrow.                                      *)
reconcile(r) ==
  /\ pc[r] \in {"idle", "waiting"}
  /\ journal[r].tx # 0
  /\ txs[journal[r].tx].status # "inflight"
  /\ txs[journal[r].tx].status = "success" /\ journal[r].mode = "settle" => settled
  /\ journal' = [journal EXCEPT ![r] = NoPending]
  /\ job' = [job EXCEPT ![r] = NoJob]
  /\ Goto(r, "idle")
  /\ UNCHANGED <<now, escrowVars, ops, approvals, txs, sent, strays>>

(* waitForTransaction or the receipt fails: the session ends, the entry     *)
(* keeps its hash.                                                          *)
GiveUp(r) ==
  /\ pc[r] = "waiting"
  /\ Goto(r, "idle")
  /\ job' = [job EXCEPT ![r] = NoJob]
  /\ UNCHANGED <<now, escrowVars, ops, approvals, txs, journal, sent, strays>>

-----------------------------------------------------------------------------
(* Crashes and the operator *)

Crash(r) ==
  /\ pc[r] \notin {"idle", "crashed"}
  /\ Goto(r, "crashed")
  /\ job' = [job EXCEPT ![r] = NoJob]
  /\ UNCHANGED <<now, escrowVars, ops, approvals, txs, journal, sent, strays>>

(* External: the operator has checked that the process is gone and removes  *)
(* the lock.                                                                *)
Unlock(r) ==
  /\ pc[r] = "crashed"
  /\ Goto(r, "idle")
  /\ UNCHANGED <<now, escrowVars, ops, approvals, txs, journal, job, sent, strays>>

(* External: the operator inspects the relayer account and completes the    *)
(* entry with the hash found there, or removes it if nothing was submitted. *)
Repair(r) ==
  /\ pc[r] = "idle"
  /\ journal[r] # NoPending
  /\ journal[r].tx = 0
  /\ \/ \E i \in Unrecorded(r) : journal' = [journal EXCEPT ![r].tx = i]
     \/ Unrecorded(r) = {} /\ journal' = [journal EXCEPT ![r] = NoPending]
  /\ UNCHANGED <<now, escrowVars, ops, approvals, txs, pc, job, sent, strays>>

-----------------------------------------------------------------------------
(* The chain *)

Signed(tx) ==
  [mode |-> tx.op.mode, inputs |-> tx.op.inputs, outs |-> tx.op.outs,
   sigs |-> {r \in Roles : <<tx.op, r>> \in approvals}]

(* External: a transaction is included and succeeds. *)
Include(i) ==
  /\ txs[i].status = "inflight"
  /\ txs' = [txs EXCEPT ![i].status = "success"]
  /\ \/ /\ txs[i].mode = "fund"
        /\ PayIn(txs[i].by, txs[i].amount)
        /\ sent' = [sent EXCEPT ![txs[i].by] = @ + txs[i].amount]
     \/ /\ txs[i].mode # "fund"
        /\ Executable(Signed(txs[i]))
        /\ Execute(Signed(txs[i]))
        /\ UNCHANGED sent
  /\ UNCHANGED <<ops, approvals, journal, pc, job, strays>>

(* External: it reverts, because it is not executable any more or for want  *)
(* of fees.                                                                 *)
Revert(i) ==
  /\ txs[i].status = "inflight"
  /\ txs' = [txs EXCEPT ![i].status = "reverted"]
  /\ UNCHANGED <<now, escrowVars, ops, approvals, journal, pc, job, sent, strays>>

(* External: somebody else sends the escrow a note. *)
Stray(t, amount) ==
  /\ strays < MaxStray
  /\ strays' = strays + 1
  /\ PayIn(t, amount)
  /\ UNCHANGED <<ops, approvals, txs, journal, pc, job, sent>>

ClientNext ==
  \E r \in Roles :
    \/ \E mode \in Modes : prepare(r, mode)
    \/ \E op \in ops : approve(r, op) \/ BeginExecute(r, op)
    \/ AbortProof(r) \/ FinishProof(r) \/ fund(r)
    \/ Send(r) \/ SendUncertain(r) \/ SaveHash(r) \/ reconcile(r) \/ GiveUp(r)
    \/ Crash(r) \/ Unlock(r) \/ Repair(r)

ChainNext ==
  \/ \E i \in DOMAIN txs : Include(i) \/ Revert(i)
  \/ \E t \in Roles : \E amount \in 1..Agreed[t] : Stray(t, amount)
  \/ Tick /\ UNCHANGED clientVars

Next == ClientNext \/ ChainNext

Spec == Init /\ [][Next]_vars

-----------------------------------------------------------------------------
(* Properties *)

(* A party never pays more than it agreed to, through crashes, uncertain    *)
(* submissions, reverts, retries and notes that strangers send: fund() only *)
(* pays what is missing, and never while an earlier payment may still land. *)
FundedOnce == \A r \in Roles : sent[r] <= Agreed[r]

(* No submission that may still take effect is forgotten: its client's      *)
(* journal has an entry for it, with its hash or from before it was sent,   *)
(* and there is never more than one.                                        *)
InFlightJournaled ==
  \A i \in DOMAIN txs : txs[i].status = "inflight" =>
    LET entry == journal[txs[i].by]
    IN  /\ entry # NoPending
        /\ entry.tx = i \/ (entry.tx = 0 /\ entry.since < i)
        /\ \A j \in DOMAIN txs : txs[j].by = txs[i].by /\ txs[j].status = "inflight" => j = i

(* The check in reconcile never fires: a settlement that succeeded shows on *)
(* the escrow, and two clients that submit the same settlement settle once. *)
SettledOnce ==
  LET won == {i \in DOMAIN txs : txs[i].mode = "settle" /\ txs[i].status = "success"}
  IN  /\ \A i, j \in won : i = j
      /\ settled <=> won # {}

=============================================================================
