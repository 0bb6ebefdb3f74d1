SPECIFICATION Spec
CONSTANTS
  Keys = {k1, k2}
  NoKey = NoKey
  MaxFence = 6
  Ids = {r1, r2}
  NoId = NoId
  Payloads = {p1, p2}
  NoPayload = NoPayload
  Clients = {c1, c2}
  MaxTime = 2
  Times <- MCTimes
  MaxMutations = 2
SYMMETRY Symmetry
INVARIANTS TypeOK ClaimedOnce OneOutcome FillsTracked
PROPERTIES FencesAdvance SerializableCommits HoldSpec
