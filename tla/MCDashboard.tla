---------------------------- MODULE MCDashboard -----------------------------
(***************************************************************************)
(* The dashboard with two types of which one contains the other's name:    *)
(* "ac" is part of "washing_machine", so the query joins the limit of the  *)
(* one to both.                                                            *)
(***************************************************************************)
EXTENDS Dashboard

MCTypes == {"AC", "Washing_Machine"}
MCNames == MCTypes \cup {Blank}
MCAlike == {<<t, t>> : t \in MCTypes} \cup {<<"AC", "Washing_Machine">>}
=============================================================================
