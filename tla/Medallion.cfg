SPECIFICATION FairSpec
CONSTANTS
    NoPower = NoPower
    Readings <- MCReadings
    BronzeRunners = {b}
    SilverRunners = {s}
    HealOutcomes = {"wiped", "torn", "kept"}
    MaxTopic = 2
    MaxBronzeLaunches = 3
    MaxSilverLaunches = 3
    MaxErasures = 1
INVARIANTS TypeOK ArchiveIsRebuilt DeliveredOnce
PROPERTIES BronzeIsFeed RunsEnd
CHECK_DEADLOCK FALSE
