SPECIFICATION Spec
CONSTANTS
  NoKey = NoKey
  NoSubject = NoSubject
  NoRfq = NoRfq
  NoQuote = NoQuote
  NoDeal = NoDeal
  Amount <- MCAmount
  RfqExpiry <- MCRfqExpiry
  LockExpiry <- MCLockExpiry
  Keys = {k1}
  MaxFence = 6
  Fences = {1, 2}
  MaxTime = 2
  Lag = 0
  Intents = {i1}
  Rfqs = {q1}
  Inventory = 2
  Units = 1
  RfqEnd = 2
  LockEnd = 1
  Grace = 1
  MaxAttempts = 0
  Ttl = 1
  Quotes = {p1, p2}
  Deals = {d1}
  Revisions = {1, 2}
  Sizes = {2}
  MaxFailures = 1
  Requests = {}
  LockRevisions = {}
INVARIANTS Covered FillOnce SignedOnce FenceExact Loadable
PROPERTIES AuthorityFinal
SYMMETRY Symmetry
