------------------------- MODULE HistoricalSummary -------------------------
(***************************************************************************)
(* process_parquet_batch.ipynb: the silver archive is read, aggregated by  *)
(* group (zone and device type) and written over the table that the        *)
(* dashboard's historical pages show.  The overwrite truncates the table   *)
(* and then inserts partition by partition, each with a commit of its own, *)
(* so that pages are served, and runs die, in between.                     *)
(***************************************************************************)
EXTENDS Integers, FiniteSets, Sequences, Functions

CONSTANTS
    Groups,         \* (zone, device_type) pairs
    Watts,          \* powers of readings
    Runners,        \* runs that may be in progress together
    MaxSilver,      \* bound: readings in silver
    MaxFailures     \* bound: failures of runs and of the executor

ASSUME SummaryAssumption ==
    Watts \subseteq Nat /\ MaxSilver \in Nat /\ MaxFailures \in Nat

VARIABLES
    silver,     \* the archive, in the order in which it was committed
    summary,    \* historical_analytics_summary: a row for each of some groups
    run,        \* the runs
    ended,      \* history: how far the last run that wrote had read, or Broken off
    overlapped, \* history: whether two runs were ever in progress together
    failures,
    containerUp  \* whether the container is up in which runs are started

history == <<ended, overlapped>>
outages == <<failures, containerUp>>
summaryVars == <<silver, summary, run, history, outages>>

-----------------------------------------------------------------------------

Reading == [group : Groups, watts : Watts]
Row == [overall_avg_watts : Nat, peak_power_watts : Nat, total_records_analyzed : Nat]

\* What a run finds that reads the first n readings.
ReadUpTo(n) == SubSeq(silver, 1, n)
GroupsPresent(n) == {silver[i].group : i \in 1 .. n}

\* The powers of a group, by the place of the reading.
Powers(readings, g) ==
    [i \in {i \in DOMAIN readings : readings[i].group = g} |-> readings[i].watts]
SumOf(powers) == FoldFunction(LAMBDA x, y : x + y, 0, powers)
PeakOf(powers) == FoldFunction(LAMBDA x, y : IF x >= y THEN x ELSE y, 0, powers)

\* Mutant of Aggregate: the records counted are those of all groups.
AggregateOfAll(readings, g) ==
    [overall_avg_watts |-> (SumOf(Powers(readings, g)) + 5) \div 10,
     peak_power_watts |-> PeakOf(Powers(readings, g)),
     total_records_analyzed |-> Len(readings)]

\* The sum of watts over 1000 goes to overall_avg_watts, rounded to two
\* decimals (in hundredths here).
Aggregate(readings, g) ==
    [overall_avg_watts |-> (SumOf(Powers(readings, g)) + 5) \div 10,
     peak_power_watts |-> PeakOf(Powers(readings, g)),
     total_records_analyzed |-> Cardinality(DOMAIN Powers(readings, g))]

Empty == [g \in {} |-> 0]
Broken == -1
Idle == [pc |-> "idle", upto |-> 0, left |-> {}]

SummaryTypeOK ==
    /\ silver \in Seq(Reading) /\ Len(silver) <= MaxSilver
    /\ DOMAIN summary \subseteq Groups /\ \A g \in DOMAIN summary : summary[g] \in Row
    /\ run \in [Runners -> [pc : {"idle", "read", "insert"}, upto : Nat, left : SUBSET Groups]]
    /\ \A r \in Runners : run[r].left \subseteq GroupsPresent(run[r].upto)
    /\ ended \in {Broken} \cup 0 .. Len(silver)
    /\ overlapped \in BOOLEAN /\ failures \in 0 .. MaxFailures
    /\ containerUp \in BOOLEAN /\ (~containerUp => \A r \in Runners : run[r] = Idle)

SummaryInit ==
    /\ silver = <<>> /\ summary = Empty
    /\ run = [r \in Runners |-> Idle] /\ ended = 0
    /\ overlapped = FALSE /\ failures = 0 /\ containerUp = TRUE

-----------------------------------------------------------------------------

\* The silver notebook commits a reading.
Archive(x) ==
    /\ Len(silver) < MaxSilver /\ silver' = Append(silver, x)
    /\ UNCHANGED <<summary, run, history, outages>>

\* Whether a run that starts now overlaps another.
Beside(r) ==
    overlapped' = (overlapped \/ \E q \in Runners \ {r} : run[q].pc # "idle")

\* Mutant of Read: rows are made once.
ReadOnce(r) ==
    /\ containerUp /\ run[r].pc = "idle" /\ silver # <<>> /\ summary = Empty
    /\ run' = [run EXCEPT ![r] = [pc |-> "read", upto |-> Len(silver), left |-> GroupsPresent(Len(silver))]]
    /\ Beside(r) /\ UNCHANGED <<silver, summary, ended, outages>>

\* A run is started in the executor's container.  The files there are now are
\* listed and aggregated; an empty archive ends the run.
Read(r) ==
    /\ containerUp /\ run[r].pc = "idle" /\ silver # <<>>
    /\ run' = [run EXCEPT ![r] = [pc |-> "read", upto |-> Len(silver), left |-> GroupsPresent(Len(silver))]]
    /\ Beside(r) /\ UNCHANGED <<silver, summary, ended, outages>>

\* Mutant of Truncate: the overwrite becomes an append.
TruncateNothing(r) ==
    /\ run[r].pc = "read" /\ run' = [run EXCEPT ![r].pc = "insert"]
    /\ UNCHANGED <<silver, summary, history, outages>>

\* Overwrite, truncate: committed at once.
Truncate(r) ==
    /\ run[r].pc = "read" /\ run' = [run EXCEPT ![r].pc = "insert"]
    /\ summary' = Empty
    /\ UNCHANGED <<silver, history, outages>>

Inserted(r, part) ==
    [g \in DOMAIN summary \cup part |->
        IF g \in part THEN Aggregate(ReadUpTo(run[r].upto), g) ELSE summary[g]]

\* A partition is inserted; the run ends with the last one.
Insert(r) ==
    /\ run[r].pc = "insert"
    /\ \E part \in (SUBSET run[r].left) \ {{}} :
        /\ part \cap DOMAIN summary = {}
        /\ summary' = Inserted(r, part)
        /\ run' = [run EXCEPT ![r] = IF part = @.left THEN Idle
                                     ELSE [pc |-> "insert", upto |-> @.upto, left |-> @.left \ part]]
        /\ ended' = IF part = run[r].left THEN run[r].upto ELSE ended
    /\ UNCHANGED <<overlapped, silver, outages>>

\* The primary key refuses a partition with a group that is there: the write
\* fails and its error is printed.
RefusePartition(r) ==
    /\ run[r].pc = "insert" /\ run[r].left \cap DOMAIN summary # {}
    /\ run' = [run EXCEPT ![r] = Idle] /\ ended' = Broken
    /\ UNCHANGED <<overlapped, silver, summary, outages>>

Failure == failures < MaxFailures /\ failures' = failures + 1

\* The job fails.
Die(r) ==
    /\ run[r].pc # "idle" /\ run' = [run EXCEPT ![r] = Idle]
    /\ ended' = IF run[r].pc = "insert" THEN Broken ELSE ended
    /\ Failure /\ UNCHANGED <<overlapped, silver, summary, containerUp>>

\* The executor's container goes down, and its runs with it.
LoseExecutor ==
    /\ containerUp /\ containerUp' = FALSE
    /\ run' = [r \in Runners |-> Idle]
    /\ ended' = IF \E r \in Runners : run[r].pc = "insert" THEN Broken ELSE ended
    /\ Failure /\ UNCHANGED <<overlapped, silver, summary>>

\* It has no restart policy: somebody starts it, or nobody does.
StartExecutor ==
    /\ ~containerUp /\ containerUp' = TRUE
    /\ UNCHANGED <<silver, summary, run, history, failures>>

Step(r) == Read(r) \/ Truncate(r) \/ Insert(r) \/ RefusePartition(r)

SummaryNext ==
    \/ \E x \in Reading : Archive(x)
    \/ \E r \in Runners : Step(r) \/ Die(r)
    \/ LoseExecutor \/ StartExecutor

SummarySpec == SummaryInit /\ [][SummaryNext]_summaryVars

\* Airflow, which is always restarted, asks for a run every day, and a run gets
\* on.  Nothing is asked of StartExecutor.
FairSummarySpec == SummarySpec /\ \A r \in Runners : WF_summaryVars(Step(r))

-----------------------------------------------------------------------------
(* Properties                                                              *)

RowsOf(n) == [g \in GroupsPresent(n) |-> Aggregate(ReadUpTo(n), g)]
PartOf(f, h) == DOMAIN f \subseteq DOMAIN h /\ \A g \in DOMAIN f : f[g] = h[g]

\* Whenever the pages are served, and wherever runs died, the rows come from
\* one reading of the archive, as long as no two runs overlap: a zone is
\* never shown as of another day than the next.  Unless the run that wrote last
\* broke off, or is not done, every group of that reading is there.
SummaryIsOneReading ==
    ~overlapped =>
        /\ \E n \in 0 .. Len(silver) : PartOf(summary, RowsOf(n))
        /\ (ended # Broken /\ \A r \in Runners : run[r].pc # "insert")
              => summary = RowsOf(ended)

\* Runs that overlap may leave a mixture of what they read, or less; still
\* the peak and the count of a row are those of one reading of the archive.
RowsAreTrue ==
    \A g \in DOMAIN summary : \E n \in 1 .. Len(silver) :
        LET mine == {i \in 1 .. n : silver[i].group = g}
        IN  /\ summary[g].total_records_analyzed = Cardinality(mine)
            /\ summary[g].peak_power_watts \in {silver[i].watts : i \in mine}
            /\ \A i \in mine : silver[i].watts <= summary[g].peak_power_watts

\* When silver is left alone, runs do not overlap and the executor is in the
\* end up for good, the summary comes to show all of silver, and again after
\* each run, whatever runs failed before.
EventuallyCurrent ==
    (<>[](Len(silver) = MaxSilver) /\ []~overlapped /\ <>[]containerUp) =>
        []<>(Len(silver) = MaxSilver /\ summary = RowsOf(MaxSilver))
=============================================================================
