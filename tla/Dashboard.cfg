SPECIFICATION Spec
CONSTANTS
    Types <- MCTypes
    Names <- MCNames
    Alike <- MCAlike
    Blank = ""
    Amounts = {1, 2}
    MaxSaves = 1
    MaxVisits = 2
    MaxFailures = 2
INVARIANTS TypeOK FailuresStayLocal SavesAreWhole AlarmIsJust
CHECK_DEADLOCK FALSE
