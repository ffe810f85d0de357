---------------------------- MODULE MCWarehouse -----------------------------
(***************************************************************************)
(* Small instances of Warehouse: one device, three readings in one hour,   *)
(* off peak, two of them with the room occupied and one with the room left,*)
(* and a reading in a peak hour of the next month.                         *)
(***************************************************************************)
EXTENDS Warehouse, TLC

CONSTANTS x1, x2, x3, y1

MCHourOf == [x \in Records |-> IF x = y1 THEN 2 ELSE 1]
MCDeviceOf == [x \in Records |-> "LV_Smart_AC"]
MCOccupied == [x \in Records |-> x # x3]
MCDayOf == [h \in {1, 2} |-> IF h = 1 THEN 31 ELSE 1]
MCMonthOf == [h \in {1, 2} |-> IF h = 1 THEN 5 ELSE 6]
MCPeakOf == [h \in {1, 2} |-> h = 2]
MCGroupOf == [d \in {"LV_Smart_AC"} |-> "Living_Room_AC"]

\* The runners are alike, and so are the readings with the room occupied.
MCReadings == Permutations({x1, x2})
MCBoth == Permutations(Runners) \cup MCReadings

\* Both hours off peak, of one day, with the room occupied.
MCOneDay == [h \in {1, 2} |-> 1]
MCOffPeak == [h \in {1, 2} |-> FALSE]
MCNobodyLeaves == [x \in Records |-> TRUE]
=============================================================================
