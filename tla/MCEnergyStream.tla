--------------------------- MODULE MCEnergyStream ---------------------------
(***************************************************************************)
(* Small instances of EnergyStream.  The lengths keep the order of the     *)
(* real ones, 5 < 10 = 10 < 15 minutes, and the margin of the watermark.   *)
(***************************************************************************)
EXTENDS EnergyStream

CONSTANTS ac, lamp

MCTypeOf == [d \in Devices |-> IF d = ac THEN "AC" ELSE "Lighting"]
MCZoneOf == [d \in Devices |-> "Living_Room"]

On(w) == [status |-> "ON", watts |-> w]

\* 900 watts: a sane load for an AC, a spike for a lamp.
MCMeasures == {On(900)}
=============================================================================
