SPECIFICATION Spec
CONSTANTS
  Makers = {m1}
  Takers = {t1}
  Ids = {q1, q2}
  NoOne = NoOne
  MaxTime = 1
  MaxRevision = 1
  MaxKeyLife = 1
  MaxRequestLife = 1
  Tokens = {a, b}
  Amounts = {1, 2}
  Secrets = {s1}
  NoToken = NoToken
  NoSecret = NoSecret
  Supply = 3
SYMMETRY Symmetry
INVARIANTS LiabilityExact Solvent PaidInFull

CHECK_DEADLOCK FALSE
