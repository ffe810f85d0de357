SPECIFICATION ReportSpec
CONSTANTS
    living = living
    heater = heater
    Devices = {living, heater}
    TypeOf <- MCTypeOf
    ZoneOf <- MCZoneOf
    NamedIn <- MCNamedIn
    Overrides = {"AUTO", "OFF"}
    Critical = {heater}
    BaseWatts <- MCBaseWatts
    Averages = {700}
    Limits = {400, 800}
    Trainers = {t1, t2}
    MaxReportFailures = 1
INVARIANTS ReportTypeOK AllOffIsSilent
PROPERTIES RunEndsInReport
CHECK_DEADLOCK FALSE
