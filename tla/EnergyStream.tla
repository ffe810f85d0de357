---------------------------- MODULE EnergyStream ----------------------------
(***************************************************************************)
(* The hot path: processing/spark_stream.py.  A Structured Streaming query *)
(* takes every reading that reached the topic since the last micro-batch,  *)
(* keeps the recent and sane ones, drops duplicates, aggregates them over  *)
(* sliding windows and upserts the rows each batch changed into            *)
(* spark_windowed_energy, partition by partition, each partition in a      *)
(* transaction of its own whose failure is only printed.  Every fifth      *)
(* batch purges old rows.  The container restarts the process, which       *)
(* throws the checkpoint away and starts again from the latest offset.     *)
(*                                                                         *)
(* Time is counted in minutes, the slide of the window.  A row holds the   *)
(* number of readings behind it (the denominator of avg_power_watts and    *)
(* the number of terms of total_power_watts): a lost or doubly counted     *)
(* reading is a wrong number.                                              *)
(***************************************************************************)
EXTENDS ReadingFilters, FiniteSets

CONSTANTS
    Devices,        \* device_id
    TypeOf,         \* the device_type of each device
    ZoneOf,         \* the zone the simulator gives each device
    Measures,       \* the [status, watts] pairs a reading may carry
    Window,         \* length of a window (5 minutes)
    Horizon,        \* age beyond which readings are discarded (10 minutes)
    Delay,          \* withWatermark (15 minutes)
    Keep,           \* age of the rows the purge leaves (10 minutes)
    PurgeEvery,     \* the purge runs in every fifth batch
    MaxSkew,        \* how far the simulator's clock may run ahead
    MaxTime,        \* bound: the clock stops here
    MaxSends,       \* bound: readings sent
    MaxRuns,        \* bound: times the container is started
    MaxFailures     \* bound: database transactions that fail

ASSUME ClockAssumption ==
    /\ Window \in Nat \ {0} /\ Horizon \in Nat /\ Delay \in Nat
    /\ Keep \in Nat /\ PurgeEvery \in Nat \ {0} /\ MaxSkew \in Nat

\* The 15 minutes of the watermark leave room for the 10 of the filter and
\* for a simulator clock less than 5 minutes ahead.
ASSUME SkewAssumption == Horizon + MaxSkew < Delay

ASSUME DeviceAssumption ==
    /\ IsFiniteSet(Devices)
    /\ DOMAIN TypeOf = Devices /\ DOMAIN ZoneOf = Devices

ASSUME BoundAssumption ==
    /\ MaxTime \in Nat /\ MaxSends \in Nat
    /\ MaxRuns \in Nat /\ MaxFailures \in Nat

VARIABLES
    now,        \* the wall clock
    sent,       \* readings sent so far
    topic,      \* readings in energy_events the query has not read
    phase,      \* "down", "idle" between batches, "write" inside foreachBatch
    run,        \* how many times the process has been started
    batchId,    \* the id Spark hands to write_to_postgres_only
    wm,         \* watermark of the next batch: state at or below it is evicted
    wmLate,     \* watermark of the last batch: readings at or below are late
    dedup,      \* state of dropDuplicates: the keys seen
    agg,        \* state of the aggregation: readings counted in each open row
    unwritten,  \* rows of the current batch still to be upserted
    table,      \* spark_windowed_energy
    failures,   \* transactions that failed
    admitted,   \* history: keys this run let through both filters
    failed      \* history: rows whose last upsert of this run failed

query == <<phase, run, batchId, wm, wmLate, dedup, agg, unwritten>>
vars == <<now, sent, topic, query, table, failures, admitted, failed>>

-----------------------------------------------------------------------------
(* Readings, keys and rows                                                 *)

Minute == Nat \ {0}
Reading == [dev : Devices, ts : Minute, measure : Measures]
Key == [dev : Devices, ts : Minute]
Row == [zone : {ZoneOf[d] : d \in Devices}, type : {TypeOf[d] : d \in Devices},
        end : Minute]

KeyOf(r) == [dev |-> r.dev, ts |-> r.ts]

\* The windows a reading falls in: every window_end in (ts, ts + Window].
RowsOf(k) ==
    {[zone |-> ZoneOf[k.dev], type |-> TypeOf[k.dev], end |-> e] :
        e \in (k.ts + 1) .. (k.ts + Window)}

RowsOfAll(K) == UNION {RowsOf(k) : k \in K}
KeysIn(K, row) == {k \in K : row \in RowsOf(k)}

Timely(r) == r.ts >= now - Horizon
Clean(r) == StreamKeeps(TypeOf[r.dev], r.measure.status, r.measure.watts)

\* State above a watermark survives it.
AboveKeys(K, mark) == {k \in K : k.ts > mark}
AboveRows(R, mark) == {row \in R : row.end > mark}

Larger(a, b) == IF a >= b THEN a ELSE b
Count(f, row) == IF row \in DOMAIN f THEN f[row] ELSE 0
RestrictTo(f, S) == [x \in S |-> f[x]]

\* SELECT MAX(window_end), 0 standing for the null of an empty table.
NewestEnd(t) ==
    CHOOSE m \in {0} \cup {row.end : row \in DOMAIN t} :
        \A row \in DOMAIN t : row.end <= m

TypeOK ==
    /\ now \in Nat /\ sent \in Nat /\ failures \in Nat
    /\ topic \subseteq Reading /\ IsFiniteSet(topic)
    /\ phase \in {"down", "idle", "write"}
    /\ run \in Nat /\ batchId \in Nat
    /\ wm \in Nat /\ wmLate \in Nat
    /\ dedup \subseteq Key /\ admitted \subseteq Key
    /\ DOMAIN agg \subseteq Row /\ agg = [row \in DOMAIN agg |-> agg[row]]
    /\ \A row \in DOMAIN agg : agg[row] \in Nat
    /\ DOMAIN unwritten \subseteq Row
    /\ unwritten = [row \in DOMAIN unwritten |-> unwritten[row]]
    /\ \A row \in DOMAIN unwritten : unwritten[row] \in Nat
    /\ DOMAIN table \subseteq Row /\ table = [row \in DOMAIN table |-> table[row]]
    /\ \A row \in DOMAIN table : table[row] \in [count : Nat, run : Nat]
    /\ failed \subseteq Row

-----------------------------------------------------------------------------

NoRows == [row \in {} |-> 0]

Init ==
    /\ now = 1 /\ sent = 0 /\ topic = {} /\ failures = 0
    /\ phase = "down" /\ run = 0 /\ batchId = 0 /\ wm = 0 /\ wmLate = 0
    /\ dedup = {} /\ agg = NoRows /\ unwritten = NoRows
    /\ table = NoRows
    /\ admitted = {} /\ failed = {}

Tick ==
    /\ now < MaxTime
    /\ now' = now + 1
    /\ UNCHANGED <<sent, topic, query, table, failures, admitted, failed>>

\* A reading reaches the topic, stamped by the simulator's clock some time
\* ago or, at most, MaxSkew ahead.  The copy the simulator sends of some
\* readings is the same step taken again with the same values.
Send(d, ts, m) ==
    /\ sent < MaxSends
    /\ sent' = sent + 1
    /\ topic' = topic \cup {[dev |-> d, ts |-> ts, measure |-> m]}
    /\ UNCHANGED <<now, query, table, failures, admitted, failed>>

-----------------------------------------------------------------------------
(* A micro-batch                                                           *)

\* Mutant of TimelyReadings: the filter on the age is left out.
AnyAge == topic

\* What the time filter and then the sanity filter let through.
TimelyReadings == {r \in topic : Timely(r)}
CleanReadings == {r \in TimelyReadings : Clean(r)}
NewKeys == {KeyOf(r) : r \in CleanReadings}

\* Mutant of Fresh: dropDuplicates is left out.
FreshWithCopies == AboveKeys(NewKeys, wmLate)

\* What the late-data filter and dropDuplicates leave of them.
Fresh == AboveKeys(NewKeys, wmLate) \ dedup

\* The windows of the state and of the batch, counted together.
Total == [row \in DOMAIN agg \cup RowsOfAll(Fresh) |->
             Count(agg, row) + Cardinality(KeysIn(Fresh, row))]

\* Mutant of NextWatermark: the watermark may fall back.
FallingWatermark ==
    \E newest \in {0} \cup {r.ts : r \in CleanReadings} :
        /\ \A r \in CleanReadings : r.ts <= newest
        /\ wm' = newest - Delay

\* The new watermark follows the newest reading seen by withWatermark: that
\* is behind the time filter, and the optimizer may move the sanity filter,
\* which does not mention the timestamp, in front of it.
NextWatermark ==
    \E seen \in {TimelyReadings, CleanReadings} :
    \E newest \in {0} \cup {r.ts : r \in seen} :
        /\ \A r \in seen : r.ts <= newest
        /\ wm' = Larger(wm, newest - Delay)

\* Mutant of Aggregate: each batch is aggregated by itself.
AggregateByBatch ==
    /\ topic' = {}
    /\ admitted' = admitted \cup NewKeys
    /\ unwritten' = RestrictTo(Total, RowsOfAll(Fresh))
    /\ agg' = NoRows /\ dedup' = {}
    /\ wmLate' = wm
    /\ NextWatermark

\* The batch's plan runs over everything in the topic: the windows are
\* updated, the changed ones are the output (update mode), and state at or
\* below the watermark is evicted.
Aggregate ==
    /\ topic' = {}
    /\ admitted' = admitted \cup NewKeys
    /\ unwritten' = RestrictTo(Total, RowsOfAll(Fresh))
    /\ agg' = RestrictTo(Total, AboveRows(DOMAIN Total, wm))
    /\ dedup' = AboveKeys(dedup \cup Fresh, wm)
    /\ wmLate' = wm
    /\ NextWatermark

\* Mutant of BatchDue: new readings do not start a batch.
BatchDueOnWatermark == phase = "idle" /\ wm # wmLate

\* Spark runs a batch when there are new readings, or when the watermark has
\* moved and there may be state to evict.
BatchDue == phase = "idle" /\ (topic # {} \/ wm # wmLate)

\* A batch that changed some window enters write_to_postgres_only.
StartBatch ==
    /\ BatchDue
    /\ Aggregate
    /\ DOMAIN unwritten' # {}
    /\ phase' = "write"
    /\ UNCHANGED <<now, sent, run, batchId, table, failures, failed>>

\* A batch without output returns at once, whatever its batch_id.
EmptyBatch ==
    /\ BatchDue
    /\ Aggregate
    /\ DOMAIN unwritten' = {}
    /\ batchId' = batchId + 1
    /\ UNCHANGED <<now, sent, phase, run, table, failures, failed>>

\* Mutant of WritePartition: ON CONFLICT DO NOTHING.
WriteIfNew(S) ==
    /\ phase = "write"
    /\ table' = [row \in DOMAIN table \cup S |->
                    IF row \in DOMAIN table THEN table[row]
                    ELSE [count |-> unwritten[row], run |-> run]]
    /\ unwritten' = RestrictTo(unwritten, DOMAIN unwritten \ S)
    /\ failed' = failed \ S
    /\ UNCHANGED <<now, sent, topic, phase, run, batchId, wm, wmLate, dedup,
                   agg, failures, admitted>>

\* One partition's rows are upserted and committed.
WritePartition(S) ==
    /\ phase = "write"
    /\ table' = [row \in DOMAIN table \cup S |->
                    IF row \in S THEN [count |-> unwritten[row], run |-> run]
                                 ELSE table[row]]
    /\ unwritten' = RestrictTo(unwritten, DOMAIN unwritten \ S)
    /\ failed' = failed \ S
    /\ UNCHANGED <<now, sent, topic, phase, run, batchId, wm, wmLate, dedup,
                   agg, failures, admitted>>

\* One partition's transaction fails; the exception is printed and dropped.
FailPartition(S) ==
    /\ phase = "write" /\ failures < MaxFailures
    /\ failures' = failures + 1
    /\ unwritten' = RestrictTo(unwritten, DOMAIN unwritten \ S)
    /\ failed' = failed \cup S
    /\ UNCHANGED <<now, sent, topic, phase, run, batchId, wm, wmLate, dedup,
                   agg, table, admitted>>

PurgeDue == batchId % PurgeEvery = 0

EndBatch ==
    /\ phase = "write" /\ DOMAIN unwritten = {}
    /\ phase' = "idle" /\ batchId' = batchId + 1
    /\ UNCHANGED <<now, sent, topic, run, wm, wmLate, dedup, agg, unwritten,
                   admitted, failed>>

Purged(t) == {row \in DOMAIN t : row.end >= NewestEnd(t) - Keep}

\* foreachPartition is over and this is no purging batch.
SkipPurge == ~PurgeDue /\ EndBatch /\ UNCHANGED <<table, failures>>

\* The delete of the rows more than Keep behind the newest one, committed.
Purge ==
    /\ PurgeDue /\ EndBatch
    /\ table' = RestrictTo(table, Purged(table))
    /\ UNCHANGED failures

\* The delete fails; the exception is printed and dropped.
FailPurge ==
    /\ PurgeDue /\ EndBatch
    /\ failures < MaxFailures /\ failures' = failures + 1
    /\ UNCHANGED table

-----------------------------------------------------------------------------
(* Restarts                                                                *)

\* The process dies; what it held in memory is gone, the table stays.
Crash ==
    /\ phase # "down" /\ run < MaxRuns
    /\ phase' = "down" /\ batchId' = 0 /\ wm' = 0 /\ wmLate' = 0
    /\ dedup' = {} /\ agg' = NoRows /\ unwritten' = NoRows
    /\ admitted' = {} /\ failed' = {}
    /\ UNCHANGED <<now, sent, topic, run, table, failures>>

\* The container starts the process again.  The old checkpoint is renamed
\* and deleted, or a path never used is chosen: either way the query starts
\* with no state, at the latest offset.
Start ==
    /\ phase = "down"
    /\ phase' = "idle" /\ run' = run + 1
    /\ topic' = {}
    /\ UNCHANGED <<now, sent, batchId, wm, wmLate, dedup, agg, unwritten,
                   table, failures, admitted, failed>>

-----------------------------------------------------------------------------

Write ==
    \E S \in (SUBSET DOMAIN unwritten) \ {{}} :
        WritePartition(S) \/ FailPartition(S)

FinishBatch == SkipPurge \/ Purge \/ FailPurge

Next ==
    \/ Tick
    \/ \E d \in Devices, ts \in 1 .. (now + MaxSkew), m \in Measures :
          Send(d, ts, m)
    \/ StartBatch \/ EmptyBatch
    \/ Write \/ FinishBatch
    \/ Crash \/ Start

Spec == Init /\ [][Next]_vars

\* The trigger fires every 10 seconds, foreachBatch runs to its end unless
\* the process dies, and docker restarts a dead process.
Fairness ==
    /\ WF_vars(StartBatch \/ EmptyBatch)
    /\ WF_vars(Write) /\ WF_vars(FinishBatch)
    /\ WF_vars(Start)

FairSpec == Spec /\ Fairness

-----------------------------------------------------------------------------
(* Properties                                                              *)

\* Every reading that passed the 10-minute and the sanity filter is counted
\* exactly once in each of its windows: a duplicate that arrives while its
\* first copy may still be counted finds it in the state, and no reading
\* the filter lets through is dropped as late.
CountsAreExact ==
    \A row \in AboveRows(RowsOfAll(admitted), wmLate) :
        /\ row \in DOMAIN agg
        /\ agg[row] = Cardinality(KeysIn(admitted, row))

\* Why they are exact: the watermark trails the clock by more than the age
\* the time filter admits, so the state still holds every key that may come
\* again and every window a reading may still fall in.
StateCoversAdmitted ==
    /\ \A r \in topic : r.ts <= now + MaxSkew
    /\ wmLate <= wm
    /\ wm = 0 \/ wm <= now + MaxSkew - Delay
    /\ IsFiniteSet(admitted)
    /\ dedup = AboveKeys(admitted, wmLate)
    /\ DOMAIN agg = AboveRows(RowsOfAll(admitted), wmLate)
    /\ \A row \in DOMAIN agg : agg[row] = Cardinality(KeysIn(admitted, row))

\* Between batches the table agrees with the state of the query on every row
\* whose last upsert did not fail; a row can be missing only because the
\* purge took it, that is, when it is more than Keep behind the newest: however
\* long the house was silent, the last windows are left for the dashboard.
TableFaithful ==
    phase = "idle" =>
        \A row \in DOMAIN agg \ failed :
            \/ row \in DOMAIN table
               /\ table[row] = [count |-> agg[row], run |-> run]
            \/ row \notin DOMAIN table /\ row.end < NewestEnd(table) - Keep

\* An upsert replaces a row: within one run the replacement never knows
\* fewer readings than the row it replaces.  (A restart starts counting
\* from zero, and its rows do replace larger ones.)
RowsOnlyGrow ==
    [][\A row \in DOMAIN table \cap DOMAIN table' :
          table[row].run = table'[row].run => table[row].count <= table'[row].count]_vars

\* What reaches the topic is taken up, by a batch or by the restart that
\* skips it: no mix of failing partitions and purges leaves the query stuck.
BacklogDrains == topic # {} ~> topic = {}
=============================================================================
