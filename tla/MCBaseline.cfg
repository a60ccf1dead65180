SPECIFICATION Spec
CONSTANTS
    Method = "percentage_delta"
    WarmUp = 0
    Sensitivity <- MCHalf
    Threshold <- MCHalf
    Cooldown = 2
    LowJobs = {l1, l2, l3}
    HighJobs = {h1, h2}
    s1 = s1
    Job <- MCJob
    Series <- MCSeries
    SeriesOf <- MCSeriesOf
    CountOf <- MCCountOf
    Moment <- MCMoment
    Seed <- MCSeed
SYMMETRY MCSymmetry
CHECK_DEADLOCK FALSE
INVARIANTS
    TypeOK
    RecordsAreSpaced
    SilenceHasCause
    BaselineIsItsCounts
