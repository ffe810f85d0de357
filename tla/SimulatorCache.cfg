SPECIFICATION FairSpec
CONSTANTS
    Devices = {d1, d2}
    Overrides = {"AUTO", "OFF"}
    Loads = {500}
    Interval = 2
    MaxChanges = 3
    MaxFailures = 3
INVARIANTS TypeOK StampIsHonest
PROPERTIES EventuallyObeyed
CHECK_DEADLOCK FALSE
