\* A deal and a lock with diligent ticket holders, for liveness.
SPECIFICATION FairSpec
CONSTANTS
    Assets = {a1, a2}
    DealIds = {d1}
    LockIds = {l1}
    RfqIds = {r1}
    Keys = {k1}
    Identities = {i1}
    Schedules <- MCSchedules
    Messages <- MCMessages
    Legs = {a1, a2, d1, l1}
    MaxSigned = 1
    MaxFills = 1
    Supply = 2
    MaxU128 = 1
    MaxTime = 1
    MaxStray = 0
    MaxPrepared = 1
    Zero = Zero
PROPERTIES
    DealsEnd
    LocksClose
