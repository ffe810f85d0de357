--------------------------- MODULE SimulatorCache ---------------------------
(***************************************************************************)
(* The loop of ingestion/appliance_simulator.py and the settings it obeys: *)
(* the dashboard writes overrides, devices and the eco mode to the         *)
(* database, the simulator reads them into a cache that it refreshes when  *)
(* it is more than 60 seconds old or knows no device, in two queries, and  *)
(* keeps using what it has when the database fails it.  The process ends   *)
(* when Kafka refuses a reading; a person may start it again.              *)
(*                                                                         *)
(* Time is counted in rounds of the loop (5 seconds) and kept as ages,     *)
(* which stop growing well beyond the interval.                            *)
(***************************************************************************)
EXTENDS Integers, FiniteSets

CONSTANTS
    Devices,        \* ids a device may be registered under
    Overrides,      \* override_status: AUTO, ON, OFF
    Loads,          \* base_watts a form may carry
    Interval,       \* CACHE_INTERVAL_SECONDS, in rounds
    MaxChanges,     \* bound: changes made through the dashboard
    MaxFailures     \* bound: database connections that fail, and crashes

ASSUME CacheAssumption ==
    Interval \in Nat \ {0} /\ MaxChanges \in Nat /\ MaxFailures \in Nat

VARIABLES
    devices,    \* devices_status: override and load of each registered device
    eco,        \* user_preferences.eco_mode_enabled
    cache,      \* cached_data: devices, eco
    age,        \* age of last_cache_update
    loopAge,    \* age of the round's current_time
    pc,         \* where the loop is
    devicesPast,    \* history: how long ago the cached devices ceased to be true
    ecoPast,        \* history: how long ago the cached eco mode did
    changes, failures

settings == <<devices, eco>>
cached == <<cache, age, devicesPast, ecoPast>>
vars == <<settings, cached, loopAge, pc, changes, failures>>

-----------------------------------------------------------------------------

Old == 2 * Interval + 1     \* every age beyond two intervals
Never == -1                 \* the cached value is the one in the database
Older(a) == IF a \in {Never, Old} THEN a ELSE a + 1
Past(current, a) == IF current THEN Never ELSE IF a = Never THEN 0 ELSE a

Settings == [override : Overrides, load : Loads]
NoDevices == [d \in {} |-> 0]

TypeOK ==
    /\ DOMAIN devices \subseteq Devices /\ \A d \in DOMAIN devices : devices[d] \in Settings
    /\ DOMAIN cache.devices \subseteq Devices
    /\ \A d \in DOMAIN cache.devices : cache.devices[d] \in Settings
    /\ eco \in BOOLEAN /\ cache.eco \in BOOLEAN
    /\ age \in 0 .. Old /\ loopAge \in 0 .. Old
    /\ pc \in {"asleep", "round", "devices", "eco", "pulse", "degraded", "dead"}
    /\ devicesPast \in Never .. Old /\ ecoPast \in Never .. Old
    /\ changes \in Nat /\ failures \in Nat

Unfilled == [devices |-> NoDevices, eco |-> FALSE]

\* The stamp starts at 0, the epoch: the first round refreshes.
Init ==
    /\ devices = NoDevices /\ eco \in BOOLEAN
    /\ cache = Unfilled
    /\ age = Old /\ loopAge = 0 /\ pc = "round"
    /\ devicesPast = Never /\ ecoPast = Past(eco = FALSE, Never)
    /\ changes = 0 /\ failures = 0

-----------------------------------------------------------------------------
(* The dashboard                                                           *)

\* A committed change; the cached copies may cease to be true, or become so.
Change(newDevices, newEco) ==
    /\ changes < MaxChanges /\ changes' = changes + 1
    /\ devices' = newDevices /\ eco' = newEco
    /\ devicesPast' = IF newDevices = devices THEN devicesPast
                      ELSE Past(cache.devices = newDevices, devicesPast)
    /\ ecoPast' = IF newEco = eco THEN ecoPast ELSE Past(cache.eco = newEco, ecoPast)
    /\ UNCHANGED <<cache, age, loopAge, pc, failures>>

\* Mutant of ControlDevice: the override is inserted for an unknown id.
ControlAnyDevice(d, action) ==
    Change(IF d \in DOMAIN devices THEN [devices EXCEPT ![d].override = action]
           ELSE [x \in DOMAIN devices \cup {d} |->
                    IF x = d THEN [override |-> action] ELSE devices[x]], eco)

\* control_device: an id that is not registered updates no row.
ControlDevice(d, action) ==
    Change(IF d \in DOMAIN devices THEN [devices EXCEPT ![d].override = action]
                                   ELSE devices, eco)

\* add_new_device: a conflict on the id replaces the load and leaves the
\* override as it is.
AddDevice(d, status, load) ==
    Change([x \in DOMAIN devices \cup {d} |->
               IF x # d THEN devices[x]
               ELSE IF d \in DOMAIN devices THEN [devices[d] EXCEPT !.load = load]
               ELSE [override |-> status, load |-> load]], eco)

\* update_preferences; the budget and the limits do not reach the simulator.
UpdatePreferences(e) == Change(devices, e)

-----------------------------------------------------------------------------
(* The simulator                                                           *)

RefreshDue == age > Interval \/ DOMAIN cache.devices = {}

\* A round takes the time and decides whether to refresh.
StartRound ==
    /\ pc = "round"
    /\ pc' = IF RefreshDue THEN "devices" ELSE "pulse"
    /\ UNCHANGED <<settings, cached, loopAge, changes, failures>>

\* The first query; each sees what is committed when it runs.
ReadDevices ==
    /\ pc = "devices" /\ pc' = "eco"
    /\ cache' = [cache EXCEPT !.devices = devices]
    /\ devicesPast' = Never
    /\ UNCHANGED <<settings, ecoPast, age, loopAge, changes, failures>>

\* Mutant of ReadEco: the stamp is the time at which the refresh ended.
ReadEcoAndStampNow ==
    /\ pc = "eco" /\ pc' = "pulse"
    /\ cache' = [cache EXCEPT !.eco = eco]
    /\ ecoPast' = Never /\ age' = 0
    /\ UNCHANGED <<settings, devicesPast, loopAge, changes, failures>>

\* The second query; the stamp is the time at which the round began.
ReadEco ==
    /\ pc = "eco" /\ pc' = "pulse"
    /\ cache' = [cache EXCEPT !.eco = eco]
    /\ ecoPast' = Never /\ age' = loopAge
    /\ UNCHANGED <<settings, devicesPast, loopAge, changes, failures>>

\* Mutant of FailRefresh: the exception ends the loop.
FailForGood ==
    /\ pc \in {"devices", "eco"} /\ pc' = "gone"
    /\ failures < MaxFailures /\ failures' = failures + 1
    /\ UNCHANGED <<settings, cached, loopAge, changes>>

\* The connection or either query fails: the cache stays as far as it got,
\* unstamped, and the round goes on with it.
FailRefresh ==
    /\ pc \in {"devices", "eco"} /\ pc' = "degraded"
    /\ failures < MaxFailures /\ failures' = failures + 1
    /\ UNCHANGED <<settings, cached, loopAge, changes>>

\* Every cached device sends its reading, made from the cached settings.
Pulse ==
    /\ pc \in {"pulse", "degraded"} /\ pc' = "asleep"
    /\ UNCHANGED <<settings, cached, loopAge, changes, failures>>

Grow ==
    /\ age' = (IF age = Old THEN Old ELSE age + 1)
    /\ devicesPast' = Older(devicesPast) /\ ecoPast' = Older(ecoPast)
    /\ UNCHANGED <<settings, cache, changes, failures>>

\* The loop sleeps and starts over.
Wake == pc = "asleep" /\ pc' = "round" /\ loopAge' = 0 /\ Grow

\* The database takes its time over a query.
Wait == pc = "eco" /\ loopAge < Interval /\ loopAge' = loopAge + 1 /\ UNCHANGED pc /\ Grow

\* A send raises, in the midst of a round's readings, or the loop is interrupted:
\* nothing but KeyboardInterrupt is caught.  The cache is gone.
Die ==
    /\ pc # "dead" /\ pc' = "dead"
    /\ failures < MaxFailures /\ failures' = failures + 1
    /\ cache' = Unfilled /\ age' = Old /\ loopAge' = 0
    /\ devicesPast' = (IF devices = NoDevices THEN Never ELSE Old)
    /\ ecoPast' = (IF eco THEN Old ELSE Never)
    /\ UNCHANGED <<settings, changes>>

\* Someone starts the script again.
Restart ==
    /\ pc = "dead" /\ pc' = "round"
    /\ UNCHANGED <<settings, cached, loopAge, changes, failures>>

Loop == StartRound \/ ReadDevices \/ ReadEco \/ Pulse \/ Wake

Next ==
    \/ \E d \in Devices, o \in Overrides : ControlDevice(d, o)
    \/ \E d \in Devices, o \in Overrides, w \in Loads : AddDevice(d, o, w)
    \/ \E e \in BOOLEAN : UpdatePreferences(e)
    \/ Loop \/ Wait \/ FailRefresh \/ Die \/ Restart

Spec == Init /\ [][Next]_vars

\* The simulator, while it runs, keeps looping, and a query ends.  Nobody has to
\* start it again.
FairSpec == Spec /\ WF_vars(Loop)

-----------------------------------------------------------------------------
(* Properties                                                              *)

\* The stamp is honest: whatever was written between the two queries and
\* however a refresh ended, both cached values were true when, or since,
\* the time it names.  README(eng) calls the cache a 60-second one: readings
\* of a round whose refresh, if one was due, did not fail follow settings that
\* were in force less than an interval before the round began.
StampIsHonest ==
    /\ devicesPast <= age /\ ecoPast <= age
    /\ pc = "pulse" => age <= Interval + loopAge

\* Once the dashboard is left alone the simulator comes to obey it, or is dead
\* for good, failed and half-finished refreshes and restarts notwithstanding.
EventuallyObeyed ==
    <>[](cache.devices = devices /\ cache.eco = eco) \/ <>[](pc = "dead")
=============================================================================
