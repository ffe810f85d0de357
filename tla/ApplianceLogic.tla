--------------------------- MODULE ApplianceLogic ---------------------------
(***************************************************************************)
(* What a device of the simulated house does: the body of the loop in      *)
(* ingestion/appliance_simulator.py, from the cached settings and the hour *)
(* to the state and the power of a reading, faults included.               *)
(*                                                                         *)
(* A random draw is a choice among the outcomes it can have.  A power      *)
(* drawn from an interval is one of its two ends, rounded outwards to      *)
(* whole watts, so that what holds of all of them holds between them.      *)
(* The load of a device is any whole number, a negative one included: the  *)
(* devices panel takes whatever is entered.                                *)
(***************************************************************************)
EXTENDS ReadingFilters, FiniteSets

CONSTANT Appliances    \* [prefix, type, load, critical, charger] records

ASSUME ApplianceAssumption ==
    /\ NoPower \notin Int
    /\ \A d \in Appliances : d.load \in Int /\ d.critical \in BOOLEAN /\ d.charger \in BOOLEAN

VARIABLES
    hour,       \* hour of the simulator's clock
    ecoMode,    \* the cached eco mode
    reading     \* the last reading sent

applianceVars == <<hour, ecoMode, reading>>

-----------------------------------------------------------------------------
(* The hour and the house                                                  *)

IsSleeping(h) == h >= 23 \/ h <= 6
IsPeakHeat(h) == h \in 11 .. 16
IsEveningRush(h) == h \in 17 .. 22

ZoneOf(d) ==
    CASE d.prefix = "LV" -> "Living_Room"
      [] d.prefix = "KT" -> "Kitchen"
      [] d.prefix = "MB" -> "Master_Bedroom"
      [] d.prefix = "OD" -> "Outdoor_&_Security"
      [] OTHER           -> "Garage_&_Utility"

\* Whether someone is in the room is certain at some hours only.
Occupancies(d, h) ==
    IF \/ IsSleeping(h) /\ ZoneOf(d) = "Master_Bedroom"
       \/ IsEveningRush(h) /\ ZoneOf(d) \in {"Living_Room", "Kitchen"}
    THEN {TRUE} ELSE BOOLEAN

-----------------------------------------------------------------------------
(* The power                                                               *)

Smaller(a, b) == IF a <= b THEN a ELSE b

Ceiling(d) ==
    IF d.type = "AC" THEN 1200
    ELSE IF d.type = "Lighting" THEN 15
    ELSE IF d.charger THEN 2000
    ELSE IF d.type = "Heavy_Appliance" THEN 1000
    ELSE 80

\* Mutant of BaseWatts: the load of the database is taken as it is.
BaseWattsAsStored(d) == IF d.load = 0 THEN 100 ELSE d.load

\* A load of 0 or null counts as 100.
BaseWatts(d) == Smaller(IF d.load = 0 THEN 100 ELSE d.load, Ceiling(d))

\* An outcome: off, or on between two percentages of the base power.
Off == [on |-> FALSE, low |-> 0, high |-> 0]
Draw(low, high) == [on |-> TRUE, low |-> low, high |-> high]

\* Mutant of AirConditioner: the two factors of the living room are swapped.
AirConditionerSwapped(d, e, h, occupied) ==
    IF ZoneOf(d) = "Master_Bedroom" /\ IsSleeping(h)
        THEN IF e THEN Draw(50, 60) ELSE Draw(70, 80)
    ELSE IF ZoneOf(d) = "Living_Room" /\ IsPeakHeat(h)
        THEN IF e THEN Draw(100, 110) ELSE Draw(70, 80)
    ELSE IF occupied /\ ~IsSleeping(h)
        THEN IF e THEN Draw(70, 80) ELSE Draw(90, 100)
    ELSE Off

AirConditioner(d, e, h, occupied) ==
    IF ZoneOf(d) = "Master_Bedroom" /\ IsSleeping(h)
        THEN IF e THEN Draw(50, 60) ELSE Draw(70, 80)
    ELSE IF ZoneOf(d) = "Living_Room" /\ IsPeakHeat(h)
        THEN IF e THEN Draw(70, 80) ELSE Draw(100, 110)
    ELSE IF occupied /\ ~IsSleeping(h)
        THEN IF e THEN Draw(70, 80) ELSE Draw(90, 100)
    ELSE Off

Lamp(d, e, h, occupied) ==
    IF e /\ ZoneOf(d) = "Outdoor_&_Security"
        THEN Off
    ELSE IF IsEveningRush(h) \/ (occupied /\ ~IsSleeping(h))
        THEN Draw(IF e THEN 75 ELSE 90, 100)
    ELSE IF ZoneOf(d) = "Outdoor_&_Security" /\ (h >= 18 \/ h <= 5)
        THEN Draw(100, 100)
    ELSE Off

Charger(e, h) ==
    IF IsSleeping(h) THEN {Off, Draw(80, 100)} ELSE {Off}

HouseholdTypes == {"Heavy_Appliance", "Appliance", "Entertainment"}

Household(d, e, occupied) ==
    IF occupied /\ d.type \in HouseholdTypes /\ ~e THEN {Off, Draw(70, 110)} ELSE {Off}

\* override_status AUTO: the first rule that fits the device.
Automatic(d, e, h, occupied) ==
    IF d.critical \/ d.type = "Critical_Appliance" THEN {Draw(90, 110)}
    ELSE IF d.type = "AC" THEN {AirConditioner(d, e, h, occupied)}
    ELSE IF d.type = "Lighting" THEN {Lamp(d, e, h, occupied)}
    ELSE IF d.charger THEN Charger(e, h)
    ELSE Household(d, e, occupied)

Outcomes(d, override, e, h, occupied) ==
    CASE override = "OFF" -> {Off}
      [] override = "ON"  -> {Draw(90, 110)}
      [] OTHER            -> Automatic(d, e, h, occupied)

\* The least and the most of an interval; a negative base turns it round.
LowWatts(d, o)  == (BaseWatts(d) * (IF BaseWatts(d) >= 0 THEN o.low ELSE o.high)) \div 100
HighWatts(d, o) == (BaseWatts(d) * (IF BaseWatts(d) >= 0 THEN o.high ELSE o.low) + 99) \div 100

\* Data quality problems are injected into readings of devices that are on.
Faults ==
    {[status |-> "LOST_SIGNAL", watts |-> NoPower],
     [status |-> "SENSOR_FAULT", watts |-> -50],
     [status |-> "SENSOR_FAULT", watts |-> 1500]}

Measures(d, o) ==
    IF o.on THEN {[status |-> "ON", watts |-> w] : w \in {LowWatts(d, o), HighWatts(d, o)}}
                     \cup Faults
            ELSE {[status |-> "OFF", watts |-> 0]}

-----------------------------------------------------------------------------

OverrideStatuses == {"AUTO", "ON", "OFF"}
NoReading == [dev |-> "none"]

Statuses == {"ON", "OFF", "LOST_SIGNAL", "SENSOR_FAULT"}

ReadingTypeOK ==
    /\ hour \in 0 .. 23 /\ ecoMode \in BOOLEAN
    /\ reading # NoReading =>
          /\ reading.dev \in Appliances
          /\ reading.measure.status \in Statuses
          /\ reading.measure.watts \in Int \cup {NoPower}

ApplianceInit == hour \in 0 .. 23 /\ ecoMode \in BOOLEAN /\ reading = NoReading

NextHour == hour' = (hour + 1) % 24 /\ UNCHANGED <<ecoMode, reading>>

SwitchEco == ecoMode' = ~ecoMode /\ UNCHANGED <<hour, reading>>

Emit(d) ==
    /\ \E override \in OverrideStatuses, occupied \in Occupancies(d, hour) :
       \E o \in Outcomes(d, override, ecoMode, hour, occupied) :
       \E m \in Measures(d, o) :
          reading' = [dev |-> d, measure |-> m]
    /\ UNCHANGED <<hour, ecoMode>>

ApplianceNext == NextHour \/ SwitchEco \/ \E d \in Appliances : Emit(d)

ApplianceSpec == ApplianceInit /\ [][ApplianceNext]_applianceVars

-----------------------------------------------------------------------------
(* Properties                                                              *)

Sent == reading # NoReading
Status == reading.measure.status
Watts == reading.measure.watts
Healthy == Sent /\ Status \in {"ON", "OFF"}

\* A device with a negative load that is on: its power is negative, and what it
\* reports is sound, but no filter takes it for that.
BelowZero == reading.dev.load < 0 /\ Status = "ON" /\ Watts < 0

\* Neither the silver filter's ceilings, which know nothing of the simulator's,
\* nor the sign of a load that is not negative lose a sound reading, whatever
\* loads are entered in the devices panel: what is lost is the readings below
\* zero, which it is the panel that lets in.
SoundReachesSilver == Healthy => SilverKeeps(reading.dev.type, Watts) \/ BelowZero

\* README(eng): the eco mode scales consumption down.  For every device left
\* to itself, at this hour and with the room in either state, the most it
\* may draw in eco mode is no more than the most it may draw without.  (Not so
\* with a negative load, of which a smaller part is more.)
EcoNeverCosts ==
    \A d \in Appliances : d.load >= 0 => \A occupied \in Occupancies(d, hour) :
        \A o \in Automatic(d, TRUE, hour, occupied) :
            \E p \in Automatic(d, FALSE, hour, occupied) : HighWatts(d, o) <= HighWatts(d, p)

\* The hot path's filter, with ceilings of its own, tells sound readings from
\* injected faults, the spike of 1500 watts included, which is a load some
\* devices may well have.  It drops, as silver does, what is below zero, and it
\* may drop readings of the EV charger, whose ceiling in the simulator is the
\* filter's and which, forced ON, draws up to a tenth more.
StreamTellsFaults ==
    Sent => /\ StreamKeeps(reading.dev.type, Status, Watts) => Healthy
            /\ Healthy /\ ~reading.dev.charger
                  => StreamKeeps(reading.dev.type, Status, Watts) \/ BelowZero
=============================================================================
