----------------------------- MODULE Warehouse ------------------------------
(***************************************************************************)
(* The gold layer: processing/spark_dwh_batch.ipynb.  Part 1 feeds the new *)
(* silver files through foreachBatch: the batch is averaged per device and *)
(* hour, summed into daily rows, written to a staging table and merged     *)
(* into dwh_energy_analytics by INSERT ... ON CONFLICT DO UPDATE; an error *)
(* of the merge is printed and the batch counts as done.  Part 2, which    *)
(* follows whatever became of part 1, recomputes the monthly report from   *)
(* all of silver and replaces the table.  Spark's overwrite is no          *)
(* transaction: the table is dropped and created, or truncated, and then   *)
(* inserted partition by partition, each with a commit of its own.         *)
(*                                                                         *)
(* An amount of energy is represented by what it is computed from: the set *)
(* of cells, each a device-hour with the readings its average runs over.   *)
(***************************************************************************)
EXTENDS MicroBatch

CONSTANTS
    Records,        \* readings that may reach silver
    HourOf,         \* hour of each reading, date included
    DeviceOf,       \* device_id of each reading
    OccupiedOf,     \* is_room_occupied of each reading
    DayOf,          \* report_date of each hour
    MonthOf,        \* report_month of each hour
    PeakOf,         \* is_peak_hours of each hour
    GroupOf,        \* zone and device_type of each device
    UniqueKey,      \* whether dwh_energy_analytics has the conflict's key
    MaxFiles,       \* bound: files in silver
    MaxFailures     \* bound: merges that fail

ASSUME WarehouseAssumption ==
    UniqueKey \in BOOLEAN /\ MaxFiles \in Nat /\ MaxFailures \in Nat

\* Every reading is of an hour that has a date and of a device in a group.
ASSUME ReadingAssumption ==
    /\ HourOf \in [Records -> DOMAIN DayOf] /\ DeviceOf \in [Records -> DOMAIN GroupOf]
    /\ OccupiedOf \in [Records -> BOOLEAN] /\ PeakOf \in [DOMAIN DayOf -> BOOLEAN]
    /\ DOMAIN MonthOf = DOMAIN DayOf

VARIABLES
    silver,     \* the files of historical_parquet, as sets of readings
    staging,    \* temp_staging_batch_<id>: a set of rows by batch id
    writes,     \* each runner's overwrite of a staging table
    dwh,        \* dwh_energy_analytics: cells by key
    monthly,    \* dwh_monthly_energy_reports: cells by month
    report,     \* part 2 of each runner's notebook
    failures,   \* merges that failed
    newest,     \* history: the last batch merged into each key
    overlapped  \* history: whether two runs were ever in progress together

tables == <<staging, writes, dwh, monthly>>
history == <<newest, overlapped>>
vars == <<silver, tables, report, failures, history, queryVars>>

-----------------------------------------------------------------------------
(* The computation                                                         *)

Arrived == UNION {silver[i] : i \in DOMAIN silver}

\* groupBy hour and device: one cell per device-hour, with its readings.
Cells(recs) ==
    {[hour |-> HourOf[x], dev |-> DeviceOf[x],
      recs |-> {y \in recs : HourOf[y] = HourOf[x] /\ DeviceOf[y] = DeviceOf[x]}]
        : x \in recs}

\* first("is_room_occupied"): of any reading of the cell, and of another
\* one when the batch runs again.
OccupancyChoices(recs) ==
    {f \in [Cells(recs) -> BOOLEAN] :
        \A c \in Cells(recs) : \E x \in c.recs : f[c] = OccupiedOf[x]}

\* Mutant of KeyOf: the daily rows are keyed by the hour.
KeyOfHour(c, occupied) ==
    [day |-> c.hour, group |-> GroupOf[c.dev],
     occupied |-> occupied, peak |-> PeakOf[c.hour]]

KeyOf(c, occupied) ==
    [day |-> DayOf[c.hour], group |-> GroupOf[c.dev],
     occupied |-> occupied, peak |-> PeakOf[c.hour]]

\* The daily rows of a batch, as runner r writes them.
DailyRows(r, recs, occupied) ==
    {[key |-> KeyOf(c, occupied[c]),
      cells |-> {d \in Cells(recs) : KeyOf(d, occupied[d]) = KeyOf(c, occupied[c])},
      by |-> r] : c \in Cells(recs)}

\* The monthly report of a set of readings.
MonthlyRows(recs) ==
    [m \in {MonthOf[HourOf[x]] : x \in recs} |->
        {c \in Cells(recs) : MonthOf[c.hour] = m}]

Batch(r) ==
    UNION {silver[i] : i \in Stretch(run[r].from, run[r].to)}

-----------------------------------------------------------------------------

Reporting == {"off", "read", "truncate", "insert"}
NoReport == [pc |-> "off", rows |-> NoLog]
NoWrite == [pc |-> "none", left |-> {}]

Key == [day : {DayOf[h] : h \in DOMAIN DayOf},
        group : {GroupOf[d] : d \in DOMAIN GroupOf},
        occupied : BOOLEAN, peak : BOOLEAN]
AnyCells == UNION {Cells(S) : S \in SUBSET Records}
Row == [key : Key, cells : SUBSET AnyCells, by : Runners]
Months == {MonthOf[h] : h \in DOMAIN MonthOf}
MonthlyTable == UNION {[M -> SUBSET AnyCells] : M \in SUBSET Months}

TypeOK ==
    /\ silver \in Seq(SUBSET Records)
    /\ DOMAIN staging \subseteq Nat /\ \A id \in DOMAIN staging : staging[id] \subseteq Row
    /\ writes \in [Runners -> [pc : {"none", "create", "insert"}, left : SUBSET Row]]
    /\ DOMAIN dwh \subseteq Key
    /\ \A k \in DOMAIN dwh : dwh[k] \subseteq AnyCells /\ \A c \in dwh[k] : c.recs \subseteq Arrived
    /\ monthly \in MonthlyTable
    /\ report \in [Runners -> [pc : Reporting, rows : MonthlyTable]]
    /\ failures \in Nat /\ overlapped \in BOOLEAN /\ QueryTypeOK

Init ==
    /\ silver = <<>> /\ failures = 0
    /\ staging = NoLog /\ dwh = NoLog /\ monthly = NoLog /\ newest = NoLog
    /\ writes = [r \in Runners |-> NoWrite] /\ report = [r \in Runners |-> NoReport]
    /\ overlapped = FALSE /\ QueryInit

\* The silver layer appends a file of readings, empty when its filter left
\* nothing of a batch.
Arrive(recs) ==
    /\ Len(silver) < MaxFiles
    /\ silver' = Append(silver, recs)
    /\ UNCHANGED <<tables, report, failures, history, queryVars>>

InProgress(r) == run[r].pc \notin {"off", "done"} \/ report[r].pc # "off"

StartBatchJob(r) ==
    /\ report[r].pc = "off" /\ Launch(r, cp)
    /\ overlapped' = (overlapped \/ \E q \in Runners \ {r} : InProgress(q))
    /\ UNCHANGED <<silver, tables, report, failures, newest>>

Read(r) == Recover(r, Len(silver)) /\ UNCHANGED <<silver, tables, report, failures, history>>

\* foreachBatch returns at once on an empty batch.
SkipEmpty(r) ==
    /\ At(r, "sink") /\ writes[r].pc = "none" /\ Batch(r) = {}
    /\ Goto(r, "commit")
    /\ UNCHANGED <<silver, tables, report, failures, history, cp, launches>>

\* Mutant of DropStaging: a staging table that is there is taken as written.
DropUnlessThere(r) ==
    /\ At(r, "sink") /\ writes[r].pc = "none" /\ Batch(r) # {}
    /\ IF run[r].id \in DOMAIN staging
       THEN Goto(r, "publish") /\ UNCHANGED <<writes, cp, launches>>
       ELSE writes' = [writes EXCEPT ![r].pc = "create"] /\ UNCHANGED queryVars
    /\ UNCHANGED <<silver, staging, dwh, monthly, report, failures, history>>

\* The staging table of this batch id is overwritten: it is dropped, ...
DropStaging(r) ==
    /\ At(r, "sink") /\ writes[r].pc = "none" /\ Batch(r) # {}
    /\ staging' = [i \in DOMAIN staging \ {run[r].id} |-> staging[i]]
    /\ writes' = [writes EXCEPT ![r].pc = "create"]
    /\ UNCHANGED <<silver, dwh, monthly, report, failures, history, queryVars>>

\* ... created, unless another run was faster, and the daily rows computed, ...
CreateStaging(r) ==
    /\ writes[r].pc = "create" /\ run[r].id \notin DOMAIN staging
    /\ staging' = WithEntry(staging, run[r].id, {})
    /\ \E occupied \in OccupancyChoices(Batch(r)) :
          writes' = [writes EXCEPT ![r] =
                        [pc |-> "insert", left |-> DailyRows(r, Batch(r), occupied)]]
    /\ UNCHANGED <<silver, dwh, monthly, report, failures, history, queryVars>>

\* ... which are inserted by partitions into the table of that name, whoever
\* created it.
InsertStaging(r) ==
    /\ writes[r].pc = "insert" /\ run[r].id \in DOMAIN staging
    /\ \E part \in (SUBSET writes[r].left) \ {{}} :
          /\ staging' = [staging EXCEPT ![run[r].id] = @ \cup part]
          /\ IF part = writes[r].left
             THEN writes' = [writes EXCEPT ![r] = NoWrite] /\ Goto(r, "publish")
             ELSE writes' = [writes EXCEPT ![r].left = @ \ part] /\ UNCHANGED run
    /\ UNCHANGED <<silver, dwh, monthly, report, failures, history, cp, launches>>

\* PostgreSQL refuses the statement without a unique key on the five columns of
\* ON CONFLICT, without the staging table, and when two of its rows, of two
\* runs, have one key.
MergeAllowed(id) ==
    /\ UniqueKey /\ id \in DOMAIN staging
    /\ \A s, t \in staging[id] : s.key = t.key => s = t

StagedKeys(id) == {s.key : s \in staging[id]}
StagedCells(id, k) == (CHOOSE s \in staging[id] : s.key = k).cells

\* Mutant of Upsert: on conflict the amounts are added to the row.
UpsertBySum(id) ==
    /\ MergeAllowed(id)
    /\ dwh' = [k \in DOMAIN dwh \cup StagedKeys(id) |->
                  (IF k \in DOMAIN dwh THEN dwh[k] ELSE {})
                    \cup (IF k \in StagedKeys(id) THEN StagedCells(id, k) ELSE {})]
    /\ newest' = [k \in DOMAIN dwh' |-> IF k \in StagedKeys(id) THEN id ELSE newest[k]]
    /\ staging' = [i \in DOMAIN staging \ {id} |-> staging[i]]

\* The rows of the staging table replace those of the same key; the staging
\* table is dropped in the same transaction.
Upsert(id) ==
    /\ MergeAllowed(id)
    /\ dwh' = [k \in DOMAIN dwh \cup StagedKeys(id) |->
                  IF k \in StagedKeys(id) THEN StagedCells(id, k) ELSE dwh[k]]
    /\ newest' = [k \in DOMAIN dwh' |-> IF k \in StagedKeys(id) THEN id ELSE newest[k]]
    /\ staging' = [i \in DOMAIN staging \ {id} |-> staging[i]]

Merge(r) ==
    /\ At(r, "publish") /\ Upsert(run[r].id) /\ Goto(r, "commit")
    /\ UNCHANGED <<silver, writes, monthly, report, failures, overlapped, cp, launches>>

\* The merge raises: the error is printed, and the batch counts as done.
FailMerge(r) ==
    /\ At(r, "publish")
    /\ ~MergeAllowed(run[r].id) \/ failures < MaxFailures
    /\ failures' = IF failures < MaxFailures THEN failures + 1 ELSE failures
    /\ Goto(r, "commit")
    /\ UNCHANGED <<silver, tables, report, history, cp, launches>>

\* Part 1 ends, in good order or in an exception, and part 2 begins.
EndPart1(r) ==
    /\ Finish(r) \/ Abort(r)
    /\ writes' = [writes EXCEPT ![r] = NoWrite]
    /\ report' = [report EXCEPT ![r].pc = "read"]
    /\ UNCHANGED <<silver, staging, dwh, monthly, failures, history>>

\* Mutant of ReadAll: part 2 reads the batch part 1 has just processed.
ReadLastBatch(r) ==
    /\ report[r].pc = "read"
    /\ report' = [report EXCEPT ![r] =
                     [pc |-> "truncate",
                      rows |-> MonthlyRows(IF Len(silver) = 0 THEN {} ELSE silver[Len(silver)])]]
    /\ UNCHANGED <<silver, tables, failures, history, queryVars>>

\* Part 2 reads all of silver ...
ReadAll(r) ==
    /\ report[r].pc = "read"
    /\ report' = [report EXCEPT ![r] = [pc |-> "truncate", rows |-> MonthlyRows(Arrived)]]
    /\ UNCHANGED <<silver, tables, failures, history, queryVars>>

Filling(r, rows) ==
    report' = [report EXCEPT ![r] =
                  IF DOMAIN rows = {} THEN NoReport ELSE [pc |-> "insert", rows |-> rows]]

\* Mutant of Truncate: the overwrite becomes an append.
TruncateNothing(r) ==
    /\ report[r].pc = "truncate" /\ Filling(r, report[r].rows)
    /\ UNCHANGED <<silver, tables, failures, history, queryVars>>

\* ... empties the table, ...
Truncate(r) ==
    /\ report[r].pc = "truncate" /\ Filling(r, report[r].rows)
    /\ monthly' = NoLog
    /\ UNCHANGED <<silver, staging, writes, dwh, failures, history, queryVars>>

\* report_month is the primary key: a partition with a month that is there is
\* refused, and the error printed.
RefuseMonths(r) ==
    /\ report[r].pc = "insert" /\ DOMAIN report[r].rows \cap DOMAIN monthly # {}
    /\ report' = [report EXCEPT ![r] = NoReport]
    /\ UNCHANGED <<silver, tables, failures, history, queryVars>>

\* Mutant of InsertMonths: there is no primary key to refuse a month.
InsertAnyway(r) ==
    /\ report[r].pc = "insert"
    /\ LET rows == report[r].rows
       IN  monthly' = [m \in DOMAIN monthly \cup DOMAIN rows |->
                          (IF m \in DOMAIN monthly THEN monthly[m] ELSE {})
                            \cup (IF m \in DOMAIN rows THEN rows[m] ELSE {})]
    /\ report' = [report EXCEPT ![r] = NoReport]
    /\ UNCHANGED <<silver, staging, writes, dwh, failures, history, queryVars>>

\* ... and inserts the months by partitions; the report ends with the last.
InsertMonths(r) ==
    /\ report[r].pc = "insert"
    /\ LET rows == report[r].rows
       IN  \E part \in (SUBSET DOMAIN rows) \ {{}} :
              /\ part \cap DOMAIN monthly = {}
              /\ monthly' = [m \in DOMAIN monthly \cup part |->
                                IF m \in part THEN rows[m] ELSE monthly[m]]
              /\ Filling(r, [m \in DOMAIN rows \ part |-> rows[m]])
    /\ UNCHANGED <<silver, staging, writes, dwh, failures, history, queryVars>>

\* The process dies, in either part.
Die(r) ==
    /\ \/ Abort(r) /\ UNCHANGED report
       \/ /\ report[r].pc # "off"
          /\ report' = [report EXCEPT ![r] = NoReport]
          /\ Goto(r, "off") /\ UNCHANGED <<cp, launches>>
    /\ writes' = [writes EXCEPT ![r] = NoWrite]
    /\ UNCHANGED <<silver, staging, dwh, monthly, failures, history>>

Part1(r) ==
    \/ Read(r) \/ SkipEmpty(r) \/ DropStaging(r) \/ CreateStaging(r) \/ InsertStaging(r)
    \/ Merge(r) \/ FailMerge(r)
    \/ (Plan(r) \/ Commit(r)) /\ UNCHANGED <<silver, tables, report, failures, history>>

Part2(r) == ReadAll(r) \/ Truncate(r) \/ InsertMonths(r) \/ RefuseMonths(r)

\* Mutant of Advance: a merge that failed is tried again after later batches.
AdvanceWithRetry(r) ==
    \/ Part1(r) \/ EndPart1(r) \/ Part2(r)
    \/ \E id \in DOMAIN staging :
          /\ At(r, "plan") /\ Upsert(id)
          /\ UNCHANGED <<silver, writes, monthly, report, failures, overlapped, queryVars>>

Advance(r) == Part1(r) \/ EndPart1(r) \/ Part2(r)

Next ==
    \/ \E recs \in SUBSET (Records \ Arrived) : Arrive(recs)
    \/ \E r \in Runners : StartBatchJob(r) \/ Advance(r) \/ Die(r)

Spec == Init /\ [][Next]_vars

-----------------------------------------------------------------------------
(* Properties                                                              *)

\* The README says that the merge guarantees zero duplicates.  What it does, over
\* replays, failed merges and staging tables that two runs wrote into: a row
\* counts a device-hour once, and another row counts it too only where readings
\* of that hour have the room in the other state.
CountedTwiceOnlyIfLeft ==
    \A k, l \in DOMAIN dwh : \A c \in dwh[k], d \in dwh[l] :
        c.hour = d.hour /\ c.dev = d.dev =>
            IF k = l THEN c = d
            ELSE /\ l = [k EXCEPT !.occupied = ~@]
                 /\ \E x \in c.recs, y \in d.recs : OccupiedOf[x] # OccupiedOf[y]

\* A staging table that was left half written, by a run that died or was
\* broken off, is never merged as it is: what a merge brings in holds every
\* reading of its batch, as long as no two runs overlap.
MergesWholeBatch ==
    [][~overlapped => \A r \in Runners : Merge(r) =>
          Batch(r) \subseteq
              UNION {c.recs : c \in UNION {dwh'[k] : k \in StagedKeys(run[r].id)}}]_vars

\* A batch that is replayed, or that follows one whose merge failed, never
\* brings back the rows of an older batch, as long as no two runs overlap.
NewestBatchWins ==
    [][~overlapped =>
          \A k \in DOMAIN newest : k \in DOMAIN newest' /\ newest[k] <= newest'[k]]_vars

\* Whenever a run inserts the last months of its report, the table holds every
\* reading that part 1 ever counted as processed, whether or not the merge of
\* its batch failed and whatever died before, as long as no two runs overlap.
MonthlyCoversProcessed ==
    [][~overlapped => \A r \in Runners :
          report[r].pc = "insert" /\ report'[r].pc = "off" /\ monthly' # monthly =>
              \A id \in cp.done : UNION {silver[i] : i \in 1 .. EndOf(id)}
                 \subseteq UNION {c.recs : c \in UNION {monthly'[m] : m \in DOMAIN monthly'}}]_vars

FirstFiles(n) == UNION {silver[i] : i \in 1 .. n}

\* Whenever the report is shown, also while it is filled and after a run died
\* half-way, its months come from one reading of silver, as long as no two runs
\* overlap.
MonthlyIsOneReading ==
    ~overlapped =>
        \E n \in 0 .. Len(silver) :
            LET rows == MonthlyRows(FirstFiles(n))
            IN  DOMAIN monthly \subseteq DOMAIN rows /\ \A m \in DOMAIN monthly : monthly[m] = rows[m]

\* Runs that overlap may leave months of two readings; still each month was
\* computed from one reading of silver, and counts no device-hour twice.
MonthlyRowsTrue ==
    \A m \in DOMAIN monthly : \E n \in 0 .. Len(silver) :
        LET rows == MonthlyRows(FirstFiles(n))
        IN  m \in DOMAIN rows /\ monthly[m] = rows[m]

\* Part 2 ends by printing that all the data agree: when no merge failed and
\* part 1 had processed all there is in silver, the daily rows hold the
\* device-hours of the report.
DailyMatchesMonthly ==
    \A r \in Runners :
        (/\ At(r, "done") /\ report[r].pc = "off" /\ failures = 0
         /\ run[r].upto = Len(silver) /\ monthly = MonthlyRows(Arrived))
            => UNION {dwh[k] : k \in DOMAIN dwh} = UNION {monthly[m] : m \in DOMAIN monthly}
=============================================================================
