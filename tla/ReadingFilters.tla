--------------------------- MODULE ReadingFilters ---------------------------
(***************************************************************************)
(* The predicates the three pipelines put between a Kafka reading and a    *)
(* table.  A reading carries the device type, the status the simulator     *)
(* stamped and the power in watts; NoPower stands for a null power.        *)
(* Pure operators, shared by the hot path, the medallion path and the      *)
(* simulator's own model.                                                  *)
(***************************************************************************)
EXTENDS Integers

CONSTANT NoPower        \* the null of power_consumption_watts

\* Mutant of ErrorStatus: a fault of the sensor is not taken for one.
ErrorStatusLost == {"LOST_SIGNAL", "ERROR"}

\* The statuses the stream discards whatever the power says.
ErrorStatus == {"LOST_SIGNAL", "SENSOR_FAULT", "ERROR"}

SmallLoads == {"Lighting", "Smart_Bulb", "TV"}

\* The ceiling the stream puts on each device type, in watts.
StreamCap(type) ==
    CASE type = "AC"              -> 6000
      [] type = "Oven"            -> 4000
      [] type = "Washing_Machine" -> 3000
      [] type \in SmallLoads      -> 500
      [] OTHER                    -> 2000

\* The hot path's sanity filter.
StreamKeeps(type, status, watts) ==
    /\ watts # NoPower
    /\ status \notin ErrorStatus
    /\ watts >= 0
    /\ watts <= StreamCap(type)

\* The silver filter: no status test, one ceiling, a tighter one for lamps.
SilverKeeps(type, watts) ==
    /\ watts # NoPower
    /\ watts >= 0
    /\ watts <= 3500
    /\ ~(type = "Lighting" /\ watts > 100)
=============================================================================
