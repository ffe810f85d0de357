SPECIFICATION FairSpec
CONSTANTS
    NoPower = NoPower
    ac = ac
    lamp = lamp
    Devices = {ac, lamp}
    TypeOf <- MCTypeOf
    ZoneOf <- MCZoneOf
    Measures <- MCMeasures
    Window = 2
    Horizon = 2
    Delay = 4
    Keep = 2
    PurgeEvery = 2
    MaxSkew = 1
    MaxTime = 6
    MaxSends = 3
    MaxRuns = 2
    MaxFailures = 1
INVARIANTS TypeOK StateCoversAdmitted CountsAreExact TableFaithful
PROPERTIES RowsOnlyGrow BacklogDrains
CHECK_DEADLOCK FALSE
