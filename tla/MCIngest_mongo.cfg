SPECIFICATION Spec
CONSTANTS
    Method = "z_score"
    WarmUp = 2
    Sensitivity <- MCOne
    Threshold <- MCHalf
    Cooldown = 1
    i1 = i1
    i2 = i2
    r1 = r1
    r2 = r2
    r3 = r3
    r4 = r4
    slot = slot
    None = None
    Instance = {i1, i2}
    Request = {r1, r2, r3}
    At <- PairAt
    Http = {r1}
    Payload <- PairPayload
    Unstorable = {"", "a.b"}
    Slot = {slot}
    SlotOf <- OneSlot
    Window = 1
    MuteLengths = {}
    Seed <- MCSeed
    MaxAttempts = 2
    MaxTime = 2
    MaxFaults = 1
INVARIANTS
    TypeOK
    LocksAreReleased
    ReportsFollowLandings
    ConflictsAreForeign
    AcceptedCountsLand
    VerdictsAreOfThePast
PROPERTIES
    ImplementsPromise
