SPECIFICATION LiveSpec
CONSTANTS
  Keys = {k1, k2}
  NoKey = NoKey
  MaxFence = 8
  Ids = {r1, r2}
  NoId = NoId
  Payloads = {p1}
  NoPayload = NoPayload
  Clients = {c1}
  MaxTime = 2
  Times <- MCTimes
  MaxMutations = 2
PROPERTY AttemptsConclude
