--------------------------- MODULE InventoryHold ---------------------------
(***************************************************************************)
(* What the reservation ledger promises its callers, without revisions,    *)
(* fences, clocks, retries or rows: inventory is held, then returned, or   *)
(* moved once by one attempt; what a key is told is what became of the     *)
(* inventory it moved, and is told once and for all.                       *)
(***************************************************************************)
CONSTANTS Ids, Keys, NoKey

VARIABLES
  hold,     \* what became of the inventory behind each reservation
  mover,    \* the attempt that may move it
  verdict   \* what is known of each attempt

vars == <<hold, mover, verdict>>

Init ==
  /\ hold = [id \in Ids |-> "none"]
  /\ mover = [id \in Ids |-> NoKey]
  /\ verdict = [k \in Keys |-> "none"]

(* The attempts nobody has been given: unused, and without a verdict. *)
Fresh(k) == verdict[k] = "none" /\ \A id \in Ids : mover[id] # k

(* What a step may do to one reservation. *)
Keep(id) == hold'[id] = hold[id] /\ mover'[id] = mover[id]

Take(id) == hold[id] = "none" /\ hold'[id] = "held" /\ mover'[id] = mover[id]

Return(id) == hold[id] = "held" /\ hold'[id] = "returned" /\ mover'[id] = mover[id]

Freeze(id) ==
  /\ hold[id] \in {"held", "moving"}
  /\ hold'[id] = "frozen"
  /\ mover'[id] = mover[id]

Spend(id) ==
  /\ hold[id] = "moving"
  /\ hold'[id] = "spent"
  /\ mover'[id] = mover[id]
  /\ verdict'[mover[id]] = "consumed"

Grant(id) ==
  /\ hold[id] = "held"
  /\ hold'[id] = "moving"
  /\ mover'[id] \in {k \in Keys : Fresh(k)}

(* A verdict is given once, together with the end of the inventory's move. *)
Judge(k) ==
  /\ verdict[k] = "none"
  /\ \E id \in Ids :
       /\ mover[id] = k
       /\ hold[id] = "moving"
       /\ \/ verdict'[k] = "consumed" /\ hold'[id] = "spent"
          \/ verdict'[k] = "unknown" /\ hold'[id] = "frozen"

(* Several reservations may step together, but one attempt at most is given. *)
Next ==
  /\ \A id \in Ids :
       Keep(id) \/ Take(id) \/ Return(id) \/ Freeze(id) \/ Spend(id) \/ Grant(id)
  /\ \A k \in Keys : verdict'[k] = verdict[k] \/ Judge(k)
  /\ \A i, j \in Ids : mover'[i] # mover[i] /\ mover'[j] # mover[j] => i = j

Spec == Init /\ [][Next]_vars

=============================================================================
