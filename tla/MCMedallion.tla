---------------------------- MODULE MCMedallion -----------------------------
(***************************************************************************)
(* A small instance of Medallion: a sane reading and a null one.           *)
(***************************************************************************)
EXTENDS Medallion

Lost == [type |-> "AC", status |-> "LOST_SIGNAL", watts |-> NoPower]
Sane == [type |-> "AC", status |-> "ON", watts |-> 900]

MCReadings == {Sane, Lost}
=============================================================================
