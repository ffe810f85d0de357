-------------------------- MODULE MCApplianceLogic --------------------------
(***************************************************************************)
(* A house with one device for every rule of the simulator; some loads are *)
(* entered far beyond the ceilings, one is missing, two are negative.      *)
(***************************************************************************)
EXTENDS ApplianceLogic

Device(prefix, type, load) ==
    [prefix |-> prefix, type |-> type, load |-> load, critical |-> FALSE, charger |-> FALSE]

MCAppliances ==
    {Device("LV", "AC", 5000), Device("MB", "AC", 900), Device("KT", "AC", 1200),
     Device("LV", "Lighting", 500), Device("OD", "Lighting", 10),
     Device("KT", "Heavy_Appliance", 2500), Device("LV", "Entertainment", 0),
     Device("OD", "Critical_Appliance", 60),
     Device("LV", "AC", -500), Device("OD", "Lighting", -10),
     [Device("KT", "Appliance", 300) EXCEPT !.critical = TRUE],
     [Device("GR", "EV_Charger", 7000) EXCEPT !.charger = TRUE]}
=============================================================================
