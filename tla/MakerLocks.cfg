SPECIFICATION FairSpec
CONSTANTS
  NoKey = NoKey
  NoSubject = NoSubject
  NoRfq = NoRfq
  NoQuote = NoQuote
  NoDeal = NoDeal
  Amount <- MCAmount
  RfqExpiry <- MCRfqExpiry
  LockExpiry <- MCLockExpiry
  Keys = {k1}
  MaxFence = 6
  Fences = {2}
  MaxTime = 3
  Lag = 1
  Intents = {}
  Rfqs = {q1}
  Inventory = 2
  Units = 1
  RfqEnd = 3
  LockEnd = 2
  Grace = 1
  MaxAttempts = 1
  Ttl = 2
  Quotes = {p1}
  Deals = {d1}
  Revisions = {1}
  Sizes = {2}
  MaxFailures = 2
  Requests = {t1}
  LockRevisions = {1}
INVARIANTS OneSubmission OnRecord
 
