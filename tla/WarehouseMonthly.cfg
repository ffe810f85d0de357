SPECIFICATION Spec
CONSTANTS
    Runners = {r1}
    MaxLaunches = 3
    x1 = x1
    x2 = x2
    x3 = x3
    y1 = y1
    Records = {x1, x3, y1}
    HourOf <- MCHourOf
    DeviceOf <- MCDeviceOf
    OccupiedOf <- MCNobodyLeaves
    DayOf <- MCOneDay
    MonthOf <- MCOneDay
    PeakOf <- MCOffPeak
    GroupOf <- MCGroupOf
    UniqueKey = TRUE
    MaxFiles = 3
    MaxFailures = 0
INVARIANT DailyMatchesMonthly
CHECK_DEADLOCK FALSE
