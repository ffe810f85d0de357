----------------------------- MODULE MicroBatch -----------------------------
(***************************************************************************)
(* Spark's checkpointed micro-batch run with Trigger.AvailableNow, as the  *)
(* notebooks of the medallion path use it: one query per notebook run, a   *)
(* write-ahead log of batch ends, a commit log, and a file sink with a log *)
(* of its own (_spark_metadata).  Each log file is created atomically and  *)
(* never replaced; finding one that exists is an exception, and every      *)
(* notebook catches its exceptions, prints them and ends.                  *)
(*                                                                         *)
(* Nothing keeps two runs of a notebook apart, so several runners share    *)
(* the checkpoint.                                                         *)
(***************************************************************************)
EXTENDS Integers, FiniteSets, Sequences

CONSTANTS
    Runners,        \* processes that may be running the notebook
    MaxLaunches     \* bound: runs of the notebook

ASSUME MicroBatchAssumption == MaxLaunches \in Nat

VARIABLES
    cp,         \* the checkpoint directory: ends (offset log), done (commit log)
    run,        \* what each runner is doing
    launches    \* runs launched so far

queryVars == <<cp, run, launches>>

-----------------------------------------------------------------------------
(* The logs: partial functions from batch ids, 0, 1, ..., to their content *)

NoLog == [id \in {} |-> 0]
NoCheckpoint == [ends |-> NoLog, done |-> {}]

WithEntry(log, id, x) ==
    [i \in DOMAIN log \cup {id} |-> IF i = id THEN x ELSE log[i]]

LatestId(ids) == CHOOSE m \in ids \cup {-1} : \A i \in ids : i <= m

EntrySets(log) == {log[id] : id \in DOMAIN log}

\* The last planned batch was not committed: it is run again.
Resumes == LatestId(cp.done) # LatestId(DOMAIN cp.ends)
LastPlanned == LatestId(DOMAIN cp.ends)
EndOf(id) == IF id = -1 THEN 0 ELSE cp.ends[id]

Stretch(from, to) == (from + 1) .. to

-----------------------------------------------------------------------------

RunType == [pc : {"off", "start", "plan", "sink", "publish", "commit", "done"},
            upto : Nat, id : Nat, from : Nat, to : Nat]

RunAt(pc, upto, id, from, to) ==
    [pc |-> pc, upto |-> upto, id |-> id, from |-> from, to |-> to]

Idle == RunAt("off", 0, 0, 0, 0)

QueryTypeOK ==
    /\ DOMAIN cp.ends \subseteq Nat /\ \A id \in DOMAIN cp.ends : cp.ends[id] \in Nat
    /\ cp.done \subseteq Nat
    /\ run \in [Runners -> RunType]
    /\ launches \in Nat

QueryInit ==
    /\ cp = NoCheckpoint
    /\ run = [r \in Runners |-> Idle]
    /\ launches = 0

At(r, pc) == run[r].pc = pc
Goto(r, pc) == run' = [run EXCEPT ![r].pc = pc]

\* The notebook gets to start() with the checkpoint it found or left.
Launch(r, checkpoint) ==
    /\ run[r].pc \in {"off", "done"} /\ launches < MaxLaunches
    /\ launches' = launches + 1
    /\ cp' = checkpoint
    /\ run' = [run EXCEPT ![r] = RunAt("start", 0, 0, 0, 0)]

\* The query reads the logs and fixes how far this run will read: the end
\* of the source as it is now.  A log without the batch before the last one
\* is unusable, and only Abort is left.
Recover(r, available) ==
    /\ At(r, "start")
    /\ LastPlanned <= 0 \/ LastPlanned - 1 \in DOMAIN cp.ends
    /\ \/ /\ Resumes /\ LastPlanned # -1
          /\ run' = [run EXCEPT ![r] =
                       RunAt("sink", available, LastPlanned,
                             EndOf(LastPlanned - 1), EndOf(LastPlanned))]
       \/ /\ ~Resumes \/ LastPlanned = -1
          /\ run' = [run EXCEPT ![r] =
                       RunAt("plan", available, LastPlanned + 1,
                             EndOf(LastPlanned), EndOf(LastPlanned))]
    /\ UNCHANGED <<cp, launches>>

\* The end of the next batch goes to the offset log before the batch runs.
Plan(r) ==
    /\ At(r, "plan") /\ run[r].from < run[r].upto
    /\ run[r].id \notin DOMAIN cp.ends
    /\ cp' = [cp EXCEPT !.ends = WithEntry(cp.ends, run[r].id, run[r].upto)]
    /\ run' = [run EXCEPT ![r] = RunAt("sink", @.upto, @.id, @.from, @.upto)]
    /\ UNCHANGED launches

\* The batch is entered in the commit log and the next one considered.
Commit(r) ==
    /\ At(r, "commit") /\ run[r].id \notin cp.done
    /\ cp' = [cp EXCEPT !.done = cp.done \cup {run[r].id}]
    /\ run' = [run EXCEPT ![r] = RunAt("plan", @.upto, @.id + 1, @.to, @.to)]
    /\ UNCHANGED launches

\* Everything that was available at the start is processed: the query ends,
\* and the notebook prints its success.
Finish(r) ==
    /\ At(r, "plan") /\ run[r].from >= run[r].upto
    /\ Goto(r, "done")
    /\ UNCHANGED <<cp, launches>>

\* An exception, or the end of the process.
Abort(r) ==
    /\ run[r].pc \notin {"off", "done"}
    /\ Goto(r, "off")
    /\ UNCHANGED <<cp, launches>>

Protocol(r) == Plan(r) \/ Commit(r) \/ Finish(r)

-----------------------------------------------------------------------------
(* The file sink; log is its _spark_metadata                               *)

\* A batch the sink has, or one older than the newest it has, is skipped.
SkipBatch(r, log) ==
    /\ At(r, "sink") /\ run[r].id <= LatestId(DOMAIN log)
    /\ Goto(r, "commit")
    /\ UNCHANGED <<cp, launches>>

\* The parquet files are written; readers do not see them yet.
WriteFiles(r, log) ==
    /\ At(r, "sink") /\ run[r].id > LatestId(DOMAIN log)
    /\ Goto(r, "publish")
    /\ UNCHANGED <<cp, launches>>

\* The files are entered in the sink's log, which makes them visible.
MayPublish(r, log) == At(r, "publish") /\ run[r].id \notin DOMAIN log
=============================================================================
