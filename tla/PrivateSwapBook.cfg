SPECIFICATION FairSpec
CONSTANTS
  Makers = {m1, m2}
  Takers = {t1}
  Ids = {q1}
  NoOne = NoOne
  MaxTime = 2
  MaxRevision = 2
  MaxKeyLife = 1
  MaxRequestLife = 1
  Tokens = {a, b}
  Amounts = {1}
  Secrets = {s1}
  NoToken = NoToken
  NoSecret = NoSecret
  Supply = 2
INVARIANTS RegistryExact
PROPERTIES  QuoteFollowsRequest QuotesEnd
CHECK_DEADLOCK FALSE
