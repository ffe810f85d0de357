SPECIFICATION FairSummarySpec
CONSTANTS
    Groups = {"Living_Room AC", "Kitchen Lighting"}
    Watts = {10, 900}
    Runners = {r1, r2}
    MaxSilver = 3
    MaxFailures = 2
INVARIANTS SummaryIsOneReading RowsAreTrue
PROPERTIES EventuallyCurrent
CHECK_DEADLOCK FALSE
