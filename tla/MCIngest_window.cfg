SPECIFICATION Spec
CONSTANTS
    Method = "percentage_delta"
    WarmUp = 2
    Sensitivity <- MCOne
    Threshold <- MCHalf
    Cooldown = 1
    i1 = i1
    i2 = i2
    r1 = r1
    r2 = r2
    r3 = r3
    r4 = r4
    slot = slot
    None = None
    Instance = {i1}
    Request = {r1, r2, r3}
    At <- AloneAt
    Http = {r1}
    Payload <- WidePayload
    Unstorable = {"", "a.b"}
    Slot = {slot}
    SlotOf <- OneSlot
    Window = 1
    MuteLengths = {1}
    Seed <- ZeroStats
    MaxAttempts = 2
    MaxTime = 2
    MaxFaults = 1
INVARIANTS
    ReportsFollowLandings
    NoCountDropped
PROPERTIES
    ImplementsPromise
