\* Two deals whose legs may be assets or each other's tickets.
SPECIFICATION Spec
CONSTANTS
    Assets = {a1, a2}
    DealIds = {d1, d2}
    LockIds = {}
    RfqIds = {}
    Keys = {}
    Identities = {}
    Schedules <- MCNoSchedules
    Messages <- MCNoMessages
    Legs = {a1, a2, d1, d2}
    MaxSigned = 0
    MaxFills = 0
    Supply = 2
    MaxU128 = 2
    MaxTime = 1
    MaxStray = 1
    MaxPrepared = 2
    Zero = Zero
SYMMETRY Symmetry
INVARIANTS
    TypeOK
    Solvent
    AccountedExact
    TicketSupply
    StrayIsolated
