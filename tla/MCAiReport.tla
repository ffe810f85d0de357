----------------------------- MODULE MCAiReport -----------------------------
(***************************************************************************)
(* Small instances of AiReport: an AC in the living room and a heater in   *)
(* the bedroom, critical, with a load that nobody checked and an id that   *)
(* is part of the name of the AC's type.                                   *)
(***************************************************************************)
EXTENDS AiReport

CONSTANTS living, heater

MCTypeOf == [d \in Devices |-> IF d = living THEN "AC" ELSE "Heavy_Appliance"]
MCZoneOf == [d \in Devices |-> IF d = living THEN "Living_Room" ELSE "Master_Bedroom"]
MCNamedIn == {<<heater, "AC">>}
MCBaseWatts == [d \in Devices |-> IF d = living THEN 500 ELSE -900]
=============================================================================
