-------------------------- MODULE SimulatorProofs ---------------------------
(***************************************************************************)
(* The simulator, for every set of devices and every load entered for      *)
(* them.  The stamp of its cache is honest for every interval and any      *)
(* number of changes, failures and restarts; its readings pass the filters *)
(* behind it when they are sound and not below zero, and the eco mode      *)
(* costs nothing.                                                          *)
(***************************************************************************)
EXTENDS SimulatorCache, ApplianceLogic, TLAPS

-----------------------------------------------------------------------------
(* The cache                                                               *)

\* Nothing of the types of the cached values is needed: what matters is when
\* they ceased to be true.
Ages ==
    /\ age \in 0 .. Old /\ loopAge \in 0 .. Old
    /\ devicesPast \in Never .. Old /\ ecoPast \in Never .. Old
    /\ pc \in {"asleep", "round", "devices", "eco", "pulse", "degraded", "dead"}

\* While the second query runs, the devices were read after the round began; a
\* round that does not refresh was stamped less than an interval ago.
Honest ==
    /\ devicesPast <= age /\ ecoPast <= age
    /\ pc = "eco" => devicesPast <= loopAge
    /\ pc \in {"round", "dead"} => loopAge = 0
    /\ pc = "pulse" => age <= Interval + loopAge

\* The ages are numbers within the interval's double, and stay so.
LEMMA InitAges == Init => Ages /\ Honest
BY CacheAssumption DEF Init, Ages, Honest, Old, Never, Past

\* A change on the dashboard makes a cached value untrue now, at the earliest.
LEMMA ChangeHonest ==
    ASSUME Ages, Honest, NEW newDevices, NEW newEco, Change(newDevices, newEco)
    PROVE  Ages' /\ Honest'
BY CacheAssumption DEF Change, Ages, Honest, Past, Old, Never

\* A step of the loop.
LEMMA LoopHonest ==
    ASSUME Ages, Honest, Loop
    PROVE  Ages' /\ Honest'
<1> USE CacheAssumption DEF Ages, Honest, Old, Never
<1>1. CASE StartRound
  BY <1>1 DEF StartRound, RefreshDue, cached, settings
<1>2. CASE ReadDevices
  BY <1>2 DEF ReadDevices, settings
<1>3. CASE ReadEco
  BY <1>3 DEF ReadEco, settings
<1>4. CASE Pulse
  BY <1>4 DEF Pulse, cached, settings
<1>5. CASE Wake
  BY <1>5 DEF Wake, Grow, Older, settings
<1> QED
  BY <1>1, <1>2, <1>3, <1>4, <1>5 DEF Loop

\* The other steps: a slow query, a failed refresh, an end, a new start.
LEMMA OtherHonest ==
    ASSUME Ages, Honest, Wait \/ FailRefresh \/ Die \/ Restart
    PROVE  Ages' /\ Honest'
<1> USE CacheAssumption DEF Ages, Honest, Old, Never
<1>1. CASE Wait
  BY <1>1 DEF Wait, Grow, Older
<1>2. CASE FailRefresh
  BY <1>2 DEF FailRefresh, cached
<1>3. CASE Die
  BY <1>3 DEF Die
<1>4. CASE Restart
  BY <1>4 DEF Restart, cached
<1> QED
  BY <1>1, <1>2, <1>3, <1>4

\* No step makes the stamp younger than what it stands for.
LEMMA NextHonest == Ages /\ Honest /\ [Next]_vars => Ages' /\ Honest'
<1> SUFFICES ASSUME Ages, Honest, [Next]_vars PROVE Ages' /\ Honest'
  OBVIOUS
<1>1. CASE \E d \in Devices, o \in Overrides : ControlDevice(d, o)
  BY <1>1, ChangeHonest, Zenon DEF ControlDevice
<1>2. CASE \E d \in Devices, o \in Overrides, w \in Loads : AddDevice(d, o, w)
  BY <1>2, ChangeHonest, Zenon DEF AddDevice
<1>3. CASE \E e \in BOOLEAN : UpdatePreferences(e)
  BY <1>3, ChangeHonest, Zenon DEF UpdatePreferences
<1>4. CASE Loop
  BY <1>4, LoopHonest
<1>5. CASE Wait \/ FailRefresh \/ Die \/ Restart
  BY <1>5, OtherHonest
<1>6. CASE UNCHANGED vars
  BY <1>6 DEF vars, cached, Ages, Honest
<1> QED
  BY <1>1, <1>2, <1>3, <1>4, <1>5, <1>6 DEF Next

\* Whatever changes between and after the two queries, whichever of them fails
\* and however often the process is started again, the cached values were in
\* force when the stamp says, and a round in good order uses none older.
THEOREM CacheStampHonest == Spec => []StampIsHonest
<1>1. Honest => StampIsHonest
  BY DEF Honest, StampIsHonest
<1> QED
  BY <1>1, InitAges, NextHonest, PTL DEF Spec

\* What is cached are settings of registered devices.
Typed ==
    /\ DOMAIN devices \subseteq Devices /\ \A d \in DOMAIN devices : devices[d] \in Settings
    /\ cache = [devices |-> cache.devices, eco |-> cache.eco]
    /\ DOMAIN cache.devices \subseteq Devices
    /\ \A d \in DOMAIN cache.devices : cache.devices[d] \in Settings
    /\ eco \in BOOLEAN /\ cache.eco \in BOOLEAN
    /\ changes \in Nat /\ failures \in Nat

\* The forms of the dashboard send settings.
LEMMA ChangeTyped ==
    ASSUME Typed, NEW newDevices, NEW newEco \in BOOLEAN, Change(newDevices, newEco),
           DOMAIN newDevices \subseteq Devices,
           \A d \in DOMAIN newDevices : newDevices[d] \in Settings
    PROVE  Typed'
BY DEF Typed, Change

LEMMA DashboardTyped ==
    ASSUME Typed,
           \/ \E d \in Devices, o \in Overrides : ControlDevice(d, o)
           \/ \E d \in Devices, o \in Overrides, w \in Loads : AddDevice(d, o, w)
           \/ \E e \in BOOLEAN : UpdatePreferences(e)
    PROVE  Typed'
<1>0. eco \in BOOLEAN
  BY DEF Typed
<1>1. ASSUME NEW d \in Devices, NEW o \in Overrides, ControlDevice(d, o) PROVE Typed'
  <2> DEFINE new == IF d \in DOMAIN devices THEN [devices EXCEPT ![d].override = o] ELSE devices
  <2>1. DOMAIN new \subseteq Devices /\ \A x \in DOMAIN new : new[x] \in Settings
    BY DEF Typed, Settings
  <2>2. Change(new, eco)
    BY <1>1 DEF ControlDevice
  <2> HIDE DEF new
  <2> QED
    BY <1>0, <2>1, <2>2, ChangeTyped
<1>2. ASSUME NEW d \in Devices, NEW o \in Overrides, NEW w \in Loads, AddDevice(d, o, w)
      PROVE  Typed'
  <2> DEFINE new == [x \in DOMAIN devices \cup {d} |->
                        IF x # d THEN devices[x]
                        ELSE IF d \in DOMAIN devices THEN [devices[d] EXCEPT !.load = w]
                        ELSE [override |-> o, load |-> w]]
  <2>1. DOMAIN new \subseteq Devices /\ \A x \in DOMAIN new : new[x] \in Settings
    BY DEF Typed, Settings
  <2>2. Change(new, eco)
    BY <1>2 DEF AddDevice
  <2> HIDE DEF new
  <2> QED
    BY <1>0, <2>1, <2>2, ChangeTyped
<1>3. ASSUME NEW e \in BOOLEAN, UpdatePreferences(e) PROVE Typed'
  BY <1>3, ChangeTyped DEF UpdatePreferences, Typed
<1> QED
  BY <1>1, <1>2, <1>3

LEMMA NextTyped == Typed /\ [Next]_vars => Typed'
<1> SUFFICES ASSUME Typed, [Next]_vars PROVE Typed'
  OBVIOUS
<1>1. CASE Loop
  BY <1>1 DEF Loop, StartRound, ReadDevices, ReadEco, Pulse, Wake, Grow, cached, settings, Typed
<1>2. CASE Wait \/ FailRefresh \/ Restart \/ UNCHANGED vars
  BY <1>2 DEF Wait, Grow, FailRefresh, Restart, vars, cached, settings, Typed
<1>3. CASE Die
  BY <1>3 DEF Die, Unfilled, NoDevices, settings, Typed
<1> QED
  BY <1>1, <1>2, <1>3, DashboardTyped DEF Next

\* Every value is of its type; in particular no override is ever kept for a
\* device that is not registered.
THEOREM CacheTypeCorrect == Spec => []TypeOK
<1>1. Init => Typed
  BY DEF Init, Unfilled, NoDevices, Typed
<1>2. Typed /\ Ages => TypeOK
  BY DEF Typed, Ages, TypeOK
<1> QED
  BY <1>1, <1>2, NextTyped, InitAges, NextHonest, PTL DEF Spec

-----------------------------------------------------------------------------
(* The readings                                                            *)

\* The draws there are.
Possible ==
    {Off} \cup [on : {TRUE}, low : {50, 70, 75, 90, 80, 100}, high : {60, 80, 100, 110}]

\* Whatever the rules, the override, the hour and the room, a draw is one of
\* them.
LEMMA AutomaticPossible ==
    ASSUME NEW d, NEW e, NEW h, NEW occupied, NEW o \in Automatic(d, e, h, occupied)
    PROVE  o \in Possible
<1>1. AirConditioner(d, e, h, occupied) \in Possible
  BY DEF AirConditioner, Possible, Draw
<1>2. Lamp(d, e, h, occupied) \in Possible
  BY DEF Lamp, Possible, Draw
<1>3. {Off, Draw(80, 100), Draw(70, 110), Draw(90, 110)} \subseteq Possible
  BY DEF Possible, Draw
<1>4. Charger(e, h) \subseteq Possible /\ Household(d, e, occupied) \subseteq Possible
  BY <1>3, Zenon DEF Charger, Household
<1> QED
  BY <1>1, <1>2, <1>3, <1>4 DEF Automatic

LEMMA OutcomePossible ==
    ASSUME NEW d, NEW override, NEW e, NEW h, NEW occupied,
           NEW o \in Outcomes(d, override, e, h, occupied)
    PROVE  o \in Possible
<1>1. Draw(90, 110) \in Possible /\ Off \in Possible
  BY DEF Possible, Draw
<1> QED
  BY <1>1, AutomaticPossible DEF Outcomes

LEMMA DrawShape ==
    ASSUME NEW o \in Possible
    PROVE  o.low \in {0, 50, 70, 75, 80, 90, 100} /\ o.high \in {0, 60, 80, 100, 110}
<1>1. CASE o = Off
  BY <1>1 DEF Off
<1>2. CASE o # Off
  BY <1>2 DEF Possible
<1> QED
  BY <1>1, <1>2

\* The base power is a load the ceiling allows, and keeps its sign.
LEMMA BaseBounded ==
    ASSUME NEW d \in Appliances
    PROVE  /\ BaseWatts(d) \in Int /\ Ceiling(d) \in Nat /\ BaseWatts(d) <= Ceiling(d)
           /\ BaseWatts(d) < 0 <=> d.load < 0
           /\ Ceiling(d) <= 2000
           /\ d.type = "Lighting" => Ceiling(d) = 15
           /\ ~d.charger => /\ Ceiling(d) <= 1200
                            /\ d.type \in SmallLoads => Ceiling(d) <= 80
<1>1. d.load \in Int /\ d.charger \in BOOLEAN
  BY ApplianceAssumption
<1>2. CASE d.type = "AC"
  <2>1. Ceiling(d) = 1200
    BY <1>2 DEF Ceiling
  <2> QED
    BY <1>1, <1>2, <2>1 DEF BaseWatts, Smaller, SmallLoads
<1>3. CASE d.type = "Lighting"
  <2>1. Ceiling(d) = 15
    BY <1>3 DEF Ceiling
  <2> QED
    BY <1>1, <1>3, <2>1 DEF BaseWatts, Smaller
<1>4. CASE d.type \notin {"AC", "Lighting"} /\ d.charger
  <2>1. Ceiling(d) = 2000
    BY <1>1, <1>4 DEF Ceiling
  <2> QED
    BY <1>1, <1>4, <2>1 DEF BaseWatts, Smaller
<1>5. CASE d.type = "Heavy_Appliance" /\ ~d.charger
  <2>1. Ceiling(d) = 1000
    BY <1>1, <1>5 DEF Ceiling
  <2> QED
    BY <1>1, <1>5, <2>1 DEF BaseWatts, Smaller, SmallLoads
<1>6. CASE d.type \notin {"AC", "Lighting", "Heavy_Appliance"} /\ ~d.charger
  <2>1. Ceiling(d) = 80
    BY <1>1, <1>6 DEF Ceiling
  <2> QED
    BY <1>1, <1>6, <2>1 DEF BaseWatts, Smaller
<1> QED
  BY <1>1, <1>2, <1>3, <1>4, <1>5, <1>6

\* What a filter may see of a sound reading: a power that exceeds the ceiling
\* by a tenth at most, below zero only from a load below zero.
Sound(d, w) ==
    /\ w \in Int /\ 10 * w <= 11 * Ceiling(d) + 9
    /\ w < 0 => d.load < 0

LEMMA WattsBounded ==
    ASSUME NEW d \in Appliances, NEW o \in Possible
    PROVE  Sound(d, LowWatts(d, o)) /\ Sound(d, HighWatts(d, o))
<1>1. /\ BaseWatts(d) \in Int /\ Ceiling(d) \in Nat /\ BaseWatts(d) <= Ceiling(d)
      /\ BaseWatts(d) < 0 <=> d.load < 0
  BY BaseBounded
<1>2. o.low \in {0, 50, 70, 75, 80, 90, 100} /\ o.high \in {0, 60, 80, 100, 110}
  BY DrawShape
<1>3. PICK b \in Int : b = BaseWatts(d)
  BY <1>1
<1>4. CASE b >= 0
  <2>1. LowWatts(d, o) = (b * o.low) \div 100 /\ HighWatts(d, o) = (b * o.high + 99) \div 100
    BY <1>3, <1>4 DEF LowWatts, HighWatts
  <2>2. LowWatts(d, o) \in Nat /\ LowWatts(d, o) <= b
    BY <1>2, <1>4, <2>1
  <2>3. HighWatts(d, o) \in Nat /\ 10 * HighWatts(d, o) <= 11 * b + 9
    BY <1>2, <1>4, <2>1
  <2> QED
    BY <1>1, <1>3, <2>2, <2>3 DEF Sound
<1>5. CASE b < 0
  <2>1. LowWatts(d, o) = (b * o.high) \div 100 /\ HighWatts(d, o) = (b * o.low + 99) \div 100
    BY <1>3, <1>5 DEF LowWatts, HighWatts
  <2>2. LowWatts(d, o) \in Int /\ LowWatts(d, o) <= 0
    BY <1>2, <1>5, <2>1
  <2>3. HighWatts(d, o) \in Int /\ HighWatts(d, o) <= 0
    BY <1>2, <1>5, <2>1
  <2> QED
    BY <1>1, <1>3, <1>5, <2>2, <2>3 DEF Sound
<1> QED
  BY <1>4, <1>5

\* The last reading was made by a device from one of the draws.
Made ==
    Sent => /\ reading.dev \in Appliances
            /\ \E o \in Possible : reading.measure \in Measures(reading.dev, o)

LEMMA MadeInv == ApplianceSpec => []Made
<1>1. ApplianceInit => Made
  BY DEF ApplianceInit, Made, Sent
<1>2. Made /\ [ApplianceNext]_applianceVars => Made'
  <2> SUFFICES ASSUME Made, [ApplianceNext]_applianceVars PROVE Made'
    OBVIOUS
  <2>1. ASSUME NEW d \in Appliances, Emit(d) PROVE Made'
    <3>1. PICK override \in OverrideStatuses, occupied \in Occupancies(d, hour) :
             \E o \in Outcomes(d, override, ecoMode, hour, occupied) :
             \E m \in Measures(d, o) : reading' = [dev |-> d, measure |-> m]
      BY <2>1 DEF Emit
    <3>2. PICK o \in Outcomes(d, override, ecoMode, hour, occupied) :
             \E m \in Measures(d, o) : reading' = [dev |-> d, measure |-> m]
      BY <3>1
    <3>3. o \in Possible
      BY <3>2, OutcomePossible
    <3> QED
      BY <3>2, <3>3 DEF Made
  <2>2. CASE UNCHANGED reading
    BY <2>2 DEF Made, Sent
  <2> QED
    BY <2>1, <2>2 DEF ApplianceNext, NextHour, SwitchEco, applianceVars
<1> QED
  BY <1>1, <1>2, PTL DEF ApplianceSpec

\* A sound reading says what a device may draw, any other is one of the faults.
LEMMA MadeShape ==
    ASSUME Made, Sent
    PROVE  /\ reading.dev \in Appliances
           /\ \/ Status \in {"ON", "OFF"} /\ Sound(reading.dev, Watts)
                 /\ (Watts < 0 => Status = "ON")
              \/ Status \in {"LOST_SIGNAL", "SENSOR_FAULT"} /\ Watts \in Int \cup {NoPower}
<1>1. reading.dev \in Appliances
  BY DEF Made
<1>2. PICK o \in Possible : reading.measure \in Measures(reading.dev, o)
  BY DEF Made
<1>3. /\ Sound(reading.dev, LowWatts(reading.dev, o))
      /\ Sound(reading.dev, HighWatts(reading.dev, o))
  BY <1>1, WattsBounded
<1>4. Sound(reading.dev, 0)
  BY <1>1, BaseBounded DEF Sound
<1>5. CASE reading.measure \in Faults
  BY <1>1, <1>5 DEF Faults, Status, Watts
<1>6. CASE \E w \in {LowWatts(reading.dev, o), HighWatts(reading.dev, o)} :
              reading.measure = [status |-> "ON", watts |-> w]
  BY <1>1, <1>3, <1>6 DEF Status, Watts
<1>7. CASE reading.measure = [status |-> "OFF", watts |-> 0]
  BY <1>1, <1>4, <1>7 DEF Status, Watts
<1> QED
  BY <1>2, <1>5, <1>6, <1>7 DEF Measures

\* Hours, modes and readings are of their types, for any devices.
THEOREM ReadingTypeCorrect == ApplianceSpec => []ReadingTypeOK
<1> DEFINE Clock == hour \in 0 .. 23 /\ ecoMode \in BOOLEAN
<1>1. ApplianceInit => Clock
  BY DEF ApplianceInit
<1>2. Clock /\ [ApplianceNext]_applianceVars => Clock'
  <2> SUFFICES ASSUME Clock, [ApplianceNext]_applianceVars PROVE Clock'
    OBVIOUS
  <2>1. CASE NextHour
    BY <2>1 DEF NextHour
  <2>2. CASE SwitchEco
    BY <2>2 DEF SwitchEco
  <2>3. CASE UNCHANGED <<hour, ecoMode>>
    BY <2>3
  <2> QED
    BY <2>1, <2>2, <2>3 DEF ApplianceNext, Emit, applianceVars
<1>3. Clock /\ Made => ReadingTypeOK
  <2> SUFFICES ASSUME Clock, Made PROVE ReadingTypeOK
    OBVIOUS
  <2>1. ASSUME Sent
        PROVE  /\ reading.dev \in Appliances /\ Status \in Statuses
               /\ Watts \in Int \cup {NoPower}
    BY <2>1, MadeShape DEF Statuses, Sound
  <2> QED
    BY <2>1 DEF ReadingTypeOK, Sent, Status, Watts
<1> QED
  BY <1>1, <1>2, <1>3, MadeInv, PTL DEF ApplianceSpec

\* Whatever load is entered, the silver filter drops no sound reading but those
\* below zero, which only a load below zero can make.
THEOREM SoundReadingsPass == ApplianceSpec => []SoundReachesSilver
<1>1. ASSUME Made PROVE SoundReachesSilver
  <2> SUFFICES ASSUME Healthy, ~BelowZero PROVE SilverKeeps(reading.dev.type, Watts)
    BY DEF SoundReachesSilver
  <2>1. /\ reading.dev \in Appliances /\ Sound(reading.dev, Watts)
        /\ (Watts < 0 => Status = "ON")
    BY <1>1, MadeShape DEF Healthy
  <2>2. Watts \in Int /\ Watts >= 0
    BY <2>1 DEF Sound, BelowZero
  <2>3. Watts <= 3500 /\ (reading.dev.type = "Lighting" => Watts <= 100)
    BY <2>1, <2>2, BaseBounded DEF Sound
  <2>4. Watts # NoPower
    BY <2>2, ApplianceAssumption
  <2> QED
    BY <2>2, <2>3, <2>4 DEF SilverKeeps
<1> QED
  BY <1>1, MadeInv, PTL

\* Whatever load is entered, the hot path's filter tells sound readings from
\* faults, the charger's and those below zero apart.
THEOREM StreamTellsApart == ApplianceSpec => []StreamTellsFaults
<1>1. ASSUME Made PROVE StreamTellsFaults
  <2> SUFFICES ASSUME Sent
               PROVE  /\ StreamKeeps(reading.dev.type, Status, Watts) => Healthy
                      /\ Healthy /\ ~reading.dev.charger
                            => StreamKeeps(reading.dev.type, Status, Watts) \/ BelowZero
    BY DEF StreamTellsFaults
  <2>1. StreamKeeps(reading.dev.type, Status, Watts) => Healthy
    BY <1>1, MadeShape DEF StreamKeeps, ErrorStatus, Healthy
  <2>2. ASSUME Healthy, ~reading.dev.charger, ~BelowZero
        PROVE  StreamKeeps(reading.dev.type, Status, Watts)
    <3>1. /\ reading.dev \in Appliances /\ Sound(reading.dev, Watts)
          /\ (Watts < 0 => Status = "ON") /\ Status \notin ErrorStatus
      BY <1>1, <2>2, MadeShape DEF Healthy, ErrorStatus
    <3>2. Watts \in Int /\ Watts >= 0
      BY <2>2, <3>1 DEF Sound, BelowZero
    <3>3. Watts <= StreamCap(reading.dev.type)
      <4>1. Watts <= 1321 /\ (reading.dev.type \in SmallLoads => Watts <= 500)
        BY <2>2, <3>1, <3>2, BaseBounded DEF Sound
      <4>2. StreamCap(reading.dev.type) \in {6000, 4000, 3000, 2000, 500}
        BY DEF StreamCap
      <4>3. StreamCap(reading.dev.type) = 500 => reading.dev.type \in SmallLoads
        BY DEF StreamCap
      <4> QED
        BY <3>2, <4>1, <4>2, <4>3
    <3>4. Watts # NoPower
      BY <3>2, ApplianceAssumption
    <3> QED
      BY <3>1, <3>2, <3>3, <3>4 DEF StreamKeeps
  <2> QED
    BY <2>1, <2>2
<1> QED
  BY <1>1, MadeInv, PTL

\* A larger percentage is not less power, of a load that is not negative.
LEMMA WattsGrow ==
    ASSUME NEW d \in Appliances, d.load >= 0, NEW o \in Possible, NEW p \in Possible, o.high <= p.high
    PROVE  HighWatts(d, o) <= HighWatts(d, p)
<1>1. BaseWatts(d) \in Nat
  BY BaseBounded, ApplianceAssumption
<1>2. o.high \in {0, 60, 80, 100, 110} /\ p.high \in {0, 60, 80, 100, 110}
  BY DrawShape
<1>3. BaseWatts(d) * o.high <= BaseWatts(d) * p.high
  BY <1>1, <1>2
<1> QED
  BY <1>1, <1>2, <1>3 DEF HighWatts

\* For any device, the loads below zero apart, any hour and room, the most that may be drawn in eco mode is no
\* more than the most that may be drawn without.
THEOREM EcoModeNeverCosts == ApplianceSpec => []EcoNeverCosts
<1>1. EcoNeverCosts
  <2> SUFFICES ASSUME NEW d \in Appliances, d.load >= 0, NEW occupied \in Occupancies(d, hour),
                      NEW o \in Automatic(d, TRUE, hour, occupied)
               PROVE  \E p \in Automatic(d, FALSE, hour, occupied) :
                          HighWatts(d, o) <= HighWatts(d, p)
    BY DEF EcoNeverCosts
  <2> DEFINE plain == Automatic(d, FALSE, hour, occupied)
  <2>1. \A p \in plain : p \in Possible
    BY AutomaticPossible
  <2>2. o \in Possible
    BY AutomaticPossible
  <2>3. \E p \in plain : o.high <= p.high
    <3>1. CASE d.critical \/ d.type = "Critical_Appliance"
      <4>1. /\ Automatic(d, TRUE, hour, occupied) = {Draw(90, 110)}
            /\ Automatic(d, FALSE, hour, occupied) = {Draw(90, 110)}
        BY <3>1, Zenon DEF Automatic
      <4>2. Draw(90, 110).high <= Draw(90, 110).high
        BY DEF Draw
      <4> QED
        BY <4>1, <4>2
    <3>2. CASE ~(d.critical \/ d.type = "Critical_Appliance") /\ d.type = "AC"
      <4>1. /\ o = AirConditioner(d, TRUE, hour, occupied)
            /\ plain = {AirConditioner(d, FALSE, hour, occupied)}
        BY <3>2 DEF Automatic
      <4>2. AirConditioner(d, TRUE, hour, occupied).high
                <= AirConditioner(d, FALSE, hour, occupied).high
        BY DEF AirConditioner, Draw, Off
      <4> QED
        BY <4>1, <4>2
    <3>3. CASE ~(d.critical \/ d.type = "Critical_Appliance") /\ d.type = "Lighting"
      <4>1. /\ o = Lamp(d, TRUE, hour, occupied)
            /\ plain = {Lamp(d, FALSE, hour, occupied)}
        BY <3>3 DEF Automatic
      <4>2. Lamp(d, TRUE, hour, occupied).high <= Lamp(d, FALSE, hour, occupied).high
        BY DEF Lamp, Draw, Off
      <4> QED
        BY <4>1, <4>2
    <3>4. CASE /\ ~(d.critical \/ d.type = "Critical_Appliance")
               /\ d.type \notin {"AC", "Lighting"} /\ d.charger
      <4>1. o \in Charger(TRUE, hour) /\ plain = Charger(FALSE, hour)
        BY <3>4 DEF Automatic
      <4>2. Charger(TRUE, hour) = Charger(FALSE, hour)
        BY Zenon DEF Charger
      <4>3. o.high <= o.high
        BY <2>2, DrawShape
      <4> QED
        BY <4>1, <4>2, <4>3
    <3>5. CASE /\ ~(d.critical \/ d.type = "Critical_Appliance")
               /\ d.type \notin {"AC", "Lighting"} /\ ~d.charger
      <4>1. o \in Household(d, TRUE, occupied) /\ plain = Household(d, FALSE, occupied)
        BY <3>5 DEF Automatic
      <4>2. Household(d, TRUE, occupied) = {Off}
        BY DEF Household
      <4>3. Off \in Household(d, FALSE, occupied)
        BY Zenon DEF Household
      <4>4. Off.high <= Off.high
        BY DEF Off
      <4>5. o = Off /\ Off \in plain
        BY <4>1, <4>2, <4>3
      <4> QED
        BY <4>4, <4>5
    <3> QED
      BY <3>1, <3>2, <3>3, <3>4, <3>5
  <2> QED
    BY <2>1, <2>2, <2>3, WattsGrow
<1> QED
  BY <1>1, PTL
=============================================================================
