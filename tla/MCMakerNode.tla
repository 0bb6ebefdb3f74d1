---------------------------- MODULE MCMakerNode ----------------------------
(* Bounded instances of MakerNode. *)
EXTENDS MakerNode, TLC

CONSTANTS
  Units,   \* buyAmount of every reservation
  RfqEnd,  \* expiry of every RFQ and of every lock
  LockEnd

Symmetry == Permutations(Intents) \cup Permutations(Quotes)

MCAmount == [i \in Intents |-> Units]
MCRfqExpiry == [i \in Intents |-> RfqEnd]
MCLockExpiry == [q \in Rfqs |-> LockEnd]

=============================================================================
