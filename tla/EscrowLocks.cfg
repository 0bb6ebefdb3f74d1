\* Two locks of one RFQ and the takes of them.
SPECIFICATION Spec
CONSTANTS
    Assets = {a1, a2}
    DealIds = {}
    LockIds = {l1, l2}
    RfqIds = {r1}
    Keys = {k1, k2}
    Identities = {i1, i2}
    Schedules <- MCSchedules
    Messages <- MCMessages
    Legs = {a1, a2}
    MaxSigned = 1
    MaxFills = 2
    Supply = 3
    MaxU128 = 2
    MaxTime = 1
    MaxStray = 0
    MaxPrepared = 1
    Zero = Zero
SYMMETRY Symmetry
INVARIANTS
    LockBooks
    TakeAuthorized
