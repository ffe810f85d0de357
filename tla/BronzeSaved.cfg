SPECIFICATION Spec
CONSTANTS
    Runners = {r1}
    MaxLaunches = 4
    Readings = {m}
    HealOutcomes = {"wiped"}
    MaxTopic = 4
INVARIANT SuccessMeansSaved
CHECK_DEADLOCK FALSE
