------------------------------ MODULE AiReport ------------------------------
(***************************************************************************)
(* The two notebooks around the model of normal consumption: ml_data.ipynb *)
(* trains it from the rows of the stream and dumps it over one file;       *)
(* ai_report_generator.ipynb loads it, reads the devices and the latest    *)
(* row of each group in separate queries, and inserts a report with an     *)
(* alert for each group that draws 25% more than it should.  Neither waits *)
(* for the other, for the stream or for the dashboard.                     *)
(*                                                                         *)
(* The content of the model is one limit for all groups; a dump is written *)
(* in two pieces.  One run of the report is followed at a time: runs only  *)
(* insert.                                                                 *)
(***************************************************************************)
EXTENDS Integers, FiniteSets

CONSTANTS
    Devices,        \* ids of devices
    TypeOf, ZoneOf, \* of each device; the zone is known to the simulator only
    NamedIn,        \* <<d, t>>: the id of d is a part of the name of type t
    Overrides,      \* override_status: AUTO, ON, OFF
    Critical,       \* the devices registered as critical
    BaseWatts,      \* of each device
    Averages,       \* avg_power_watts of a row
    Limits,         \* what a model may predict
    Trainers,       \* runs of ml_data that may overlap
    MaxReportFailures   \* bound: runs of the report that the database or
                        \* a crash ends

ASSUME ReportAssumption ==
    /\ \A d \in Devices : BaseWatts[d] \in Int
    /\ Averages \subseteq Nat /\ Limits \subseteq Nat /\ MaxReportFailures \in Nat

VARIABLES
    devices,    \* devices_status: the override of each registered device
    rows,       \* spark_windowed_energy: the latest average of each group
    enough,     \* whether the table has five rows
    file,       \* energy_model.pkl
    trainer,    \* the runs of ml_data
    reporter,   \* the run of ai_report_generator
    report,     \* what the last run of the report inserted, if it did
    awake,      \* history: types with a device (OfType) that was not forced OFF,
                \* or without a device, at some time since the run began
    reportFailures

reportVars == <<devices, rows, enough, file, trainer, reporter, report, awake, reportFailures>>

-----------------------------------------------------------------------------

Group(d) == [zone |-> ZoneOf[d], type |-> TypeOf[d]]
DeviceGroups == {Group(d) : d \in Devices}
Types == {TypeOf[d] : d \in Devices}

NoFile == [head |-> 0, tail |-> 0]      \* also what opening it for writing leaves
NoModel == 0
NoRow == [g \in {} |-> 0]

\* The devices that the report may take for one of the type.
OfType(reg, t) == {d \in DOMAIN reg : TypeOf[d] = t \/ <<d, t>> \in NamedIn}
Awake(reg) == {t \in Types : \/ OfType(reg, t) = {}
                             \/ \E d \in OfType(reg, t) : reg[d] # "OFF"}

NoRun == [pc |-> "idle", model |-> NoModel, devices |-> NoRow]
NoReport == [rows |-> NoRow, alerts |-> NoRow, awake |-> {}]

ReportTypeOK ==
    /\ DOMAIN devices \subseteq Devices /\ \A d \in DOMAIN devices : devices[d] \in Overrides
    /\ DOMAIN rows \subseteq DeviceGroups /\ \A g \in DOMAIN rows : rows[g] \in Averages
    /\ enough \in BOOLEAN
    /\ file \in [head : Limits \cup {0}, tail : Limits \cup {0}]
    /\ trainer \in [Trainers -> [pc : {"idle", "fitted", "opened", "half"}, limit : Limits \cup {0}]]
    /\ reporter.pc \in {"idle", "loaded", "read"}
    /\ reporter.model \in Limits \cup {NoModel}
    /\ \A g \in DOMAIN report.alerts : report.alerts[g] \in {"CRITICAL", "WARNING"}
    /\ awake \subseteq Types /\ reportFailures \in Nat

ReportInit ==
    /\ devices = NoRow /\ rows = NoRow /\ enough = FALSE
    /\ file = NoFile /\ trainer = [t \in Trainers |-> [pc |-> "idle", limit |-> 0]]
    /\ reporter = NoRun /\ report = NoReport /\ awake = Types /\ reportFailures = 0

-----------------------------------------------------------------------------
(* The rest of the system                                                  *)

\* The dashboard registers a device or overrides one.
SetDevice(d, o) ==
    /\ devices' = [x \in DOMAIN devices \cup {d} |-> IF x = d THEN o ELSE devices[x]]
    /\ awake' = awake \cup Awake(devices')
    /\ UNCHANGED <<rows, enough, file, trainer, reporter, report, reportFailures>>

\* The stream brings the latest row of a group; its purge may leave fewer
\* than five rows.  Only groups of registered devices send readings.
StreamRow(g, avg) ==
    /\ \E d \in DOMAIN devices : Group(d) = g
    /\ rows' = [x \in DOMAIN rows \cup {g} |-> IF x = g THEN avg ELSE rows[x]]
    /\ enough' \in BOOLEAN
    /\ UNCHANGED <<devices, file, trainer, reporter, report, awake, reportFailures>>

-----------------------------------------------------------------------------
(* ml_data.ipynb                                                           *)

\* The table is read, five rows at least, and a tree is fitted to it.
Fit(t) ==
    /\ trainer[t].pc = "idle" /\ enough
    /\ \E limit \in Limits : trainer' = [trainer EXCEPT ![t] = [pc |-> "fitted", limit |-> limit]]
    /\ UNCHANGED <<devices, rows, enough, file, reporter, report, awake, reportFailures>>

\* joblib.dump truncates the file, then writes at its own offset.
Dump(t) ==
    /\ \/ /\ trainer[t].pc = "fitted" /\ file' = NoFile
          /\ trainer' = [trainer EXCEPT ![t].pc = "opened"]
       \/ /\ trainer[t].pc = "opened" /\ file' = [file EXCEPT !.head = trainer[t].limit]
          /\ trainer' = [trainer EXCEPT ![t].pc = "half"]
       \/ /\ trainer[t].pc = "half" /\ file' = [file EXCEPT !.tail = trainer[t].limit]
          /\ trainer' = [trainer EXCEPT ![t] = [pc |-> "idle", limit |-> 0]]
    /\ UNCHANGED <<devices, rows, enough, reporter, report, awake, reportFailures>>

-----------------------------------------------------------------------------
(* ai_report_generator.ipynb                                               *)

Whole(f) == f.head # 0 /\ f.head = f.tail

\* What loading the file may give: an absent or truncated one no model, one
\* that two dumps have mixed none or anything.
Loads(f) == IF Whole(f) THEN {f.head}
            ELSE IF f.head = 0 \/ f.tail = 0 THEN {NoModel}
            ELSE Limits \cup {NoModel}

\* Mutant of LoadModel: a file that cannot be loaded ends the run.
LoadOrDie ==
    /\ reporter.pc = "idle"
    /\ \E m \in Loads(file) :
          reporter' = IF m = NoModel /\ file.head # file.tail THEN [reporter EXCEPT !.pc = "dead"]
                      ELSE [reporter EXCEPT !.pc = "loaded", !.model = m]
    /\ report' = NoReport /\ awake' = Awake(devices)
    /\ UNCHANGED <<devices, rows, enough, file, trainer, reportFailures>>

\* The run begins; without a model it goes on with the devices' own loads.
LoadModel ==
    /\ reporter.pc = "idle"
    /\ \E m \in Loads(file) : reporter' = [reporter EXCEPT !.pc = "loaded", !.model = m]
    /\ report' = NoReport /\ awake' = Awake(devices)
    /\ UNCHANGED <<devices, rows, enough, file, trainer, reportFailures>>

\* Mutant of ReadDevices: without a model the run returns.
ReadDevicesWithModel ==
    /\ reporter.pc = "loaded"
    /\ reporter' = IF reporter.model = NoModel THEN NoRun
                   ELSE [reporter EXCEPT !.pc = "read", !.devices = devices]
    /\ UNCHANGED <<devices, rows, enough, file, trainer, report, awake, reportFailures>>

ReadDevices ==
    /\ reporter.pc = "loaded"
    /\ reporter' = [reporter EXCEPT !.pc = "read", !.devices = devices]
    /\ UNCHANGED <<devices, rows, enough, file, trainer, report, awake, reportFailures>>

\* The latest rows are read, and there is none: no report.
ReadNothing ==
    /\ reporter.pc = "read" /\ rows = NoRow /\ reporter' = NoRun
    /\ UNCHANGED <<devices, rows, enough, file, trainer, report, awake, reportFailures>>

-----------------------------------------------------------------------------

NoMatch == [override |-> "AUTO", base |-> 500, critical |-> FALSE]

\* The first device of the type, or with an id that is part of the type's name,
\* in whatever order the query returned them.
Matches(t) ==
    LET found == OfType(reporter.devices, t)
    IN  IF found = {} THEN {NoMatch}
        ELSE {[override |-> reporter.devices[d], base |-> BaseWatts[d], critical |-> d \in Critical] :
                 d \in found}

\* predict_smart_threshold
SmartLimit(base) == IF reporter.model = NoModel THEN base ELSE reporter.model

\* Mutant of Deviates: the override is left out.
DeviatesAnyway(avg, match) == 4 * avg > 5 * SmartLimit(match.base)

\* More than the limit and a quarter, and not forced OFF.
Deviates(avg, match) ==
    4 * avg > 5 * SmartLimit(match.base) /\ match.override # "OFF"

\* The latest rows are read, judged and reported, and the report committed.
InsertReport ==
    /\ reporter.pc = "read" /\ rows # NoRow
    /\ \E match \in [{g.type : g \in DOMAIN rows} -> UNION {Matches(t) : t \in Types} \cup {NoMatch}] :
          LET alerted == {g \in DOMAIN rows : Deviates(rows[g], match[g.type])}
          IN  /\ \A t \in DOMAIN match : match[t] \in Matches(t)
              /\ report' =
                    [rows   |-> rows,
                     alerts |-> [g \in alerted |->
                                    IF match[g.type].critical THEN "CRITICAL" ELSE "WARNING"],
                     awake  |-> awake]
    /\ reporter' = NoRun
    /\ UNCHANGED <<devices, rows, enough, file, trainer, awake, reportFailures>>

\* The database fails a query or the insert: the error is printed.
FailReport ==
    /\ reporter.pc # "idle" /\ reporter' = NoRun
    /\ reportFailures < MaxReportFailures /\ reportFailures' = reportFailures + 1
    /\ UNCHANGED <<devices, rows, enough, file, trainer, report, awake>>

\* The container goes down with everything it runs.
GoDown ==
    /\ reportFailures < MaxReportFailures /\ reportFailures' = reportFailures + 1
    /\ trainer' = [t \in Trainers |-> [pc |-> "idle", limit |-> 0]]
    /\ reporter' = NoRun
    /\ UNCHANGED <<devices, rows, enough, file, report, awake>>

Report == LoadModel \/ ReadDevices \/ ReadNothing \/ InsertReport

ReportNext ==
    \/ \E d \in Devices, o \in Overrides : SetDevice(d, o)
    \/ \E g \in DeviceGroups, avg \in Averages : StreamRow(g, avg)
    \/ \E t \in Trainers : Fit(t) \/ Dump(t)
    \/ Report \/ FailReport \/ GoDown

ReportSpec == ReportInit /\ [][ReportNext]_reportVars

-----------------------------------------------------------------------------
(* Properties                                                              *)

\* What is true of README(eng)'s "ignoring devices manually forced OFF":
\* whatever is overridden while a report is made, it has no alert for a type
\* all of whose devices, and those whose ids it takes for the type's, were
\* forced OFF from its beginning to its end.
AllOffIsSilent == {g.type : g \in DOMAIN report.alerts} \subseteq report.awake

\* A report is made whenever there is a row to report on: a model that is
\* missing, being written, left half written by a crash or mixed up by two
\* dumps costs the report its limits, never the report itself.
RunEndsInReport ==
    [][reporter.pc # "idle" /\ reporter'.pc = "idle" =>
          report'.rows # NoRow \/ rows = NoRow \/ reportFailures' # reportFailures]_reportVars
=============================================================================
