SPECIFICATION Spec
CONSTANTS
    Runners = {r1, r2}
    MaxLaunches = 2
    x1 = x1
    x2 = x2
    x3 = x3
    y1 = y1
    Records = {x1, x2, x3, y1}
    HourOf <- MCHourOf
    DeviceOf <- MCDeviceOf
    OccupiedOf <- MCOccupied
    DayOf <- MCDayOf
    MonthOf <- MCMonthOf
    PeakOf <- MCPeakOf
    GroupOf <- MCGroupOf
    UniqueKey = TRUE
    MaxFiles = 2
    MaxFailures = 1
SYMMETRY MCBoth
INVARIANTS TypeOK CountedTwiceOnlyIfLeft MonthlyIsOneReading MonthlyRowsTrue
PROPERTIES NewestBatchWins MergesWholeBatch MonthlyCoversProcessed
CHECK_DEADLOCK FALSE
