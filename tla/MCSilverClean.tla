--------------------------- MODULE MCSilverClean ----------------------------
(***************************************************************************)
(* A small instance of SilverClean: a sane reading and a null one.         *)
(***************************************************************************)
EXTENDS SilverClean, TLC

Lost == [type |-> "AC", status |-> "LOST_SIGNAL", watts |-> NoPower]
Sane == [type |-> "AC", status |-> "ON", watts |-> 900]

MCReadings == {Sane, Lost}
MCSymmetry == Permutations(Runners)
=============================================================================
