---------------------------- MODULE BronzeIngest ----------------------------
(***************************************************************************)
(* The bronze layer: processing/raw_bronze_parquet.ipynb.  Every run       *)
(* deletes the checkpoint, so the query starts again at the earliest       *)
(* offset with batch 0, and appends what it reads to raw_bronze_parquet.   *)
(* If the directory cannot be removed the failure is printed and the run   *)
(* goes on with what is left of the old checkpoint.                        *)
(***************************************************************************)
EXTENDS MicroBatch

CONSTANTS
    Readings,       \* the payloads of energy_events
    HealOutcomes,   \* what the removal of the checkpoint may do
    MaxTopic        \* bound: length of the topic

VARIABLES
    topic,      \* energy_events, a log of readings
    bronze      \* _spark_metadata of raw_bronze_parquet: offsets by batch id

vars == <<topic, bronze, queryVars>>

TypeOK ==
    /\ topic \in Seq(Readings)
    /\ DOMAIN bronze \subseteq Nat
    /\ \A id \in DOMAIN bronze : bronze[id] \subseteq 1 .. Len(topic)
    /\ QueryTypeOK

Init == topic = <<>> /\ bronze = NoLog /\ QueryInit

Produce(m) ==
    /\ Len(topic) < MaxTopic
    /\ topic' = Append(topic, m)
    /\ UNCHANGED <<bronze, queryVars>>

\* rmtree takes the two logs one after the other, file by file in any
\* order, and stops at the first file it cannot remove.
Remnants ==
    {[ends |-> [id \in ids |-> cp.ends[id]], done |-> done] :
        ids \in SUBSET DOMAIN cp.ends, done \in {{}, cp.done}}
    \cup {[ends |-> ends, done |-> done] : ends \in {NoLog, cp.ends}, done \in SUBSET cp.done}

CheckpointsLeft(healed) ==
    CASE healed = "wiped" -> {NoCheckpoint}
      [] healed = "torn"  -> Remnants
      [] healed = "kept"  -> {cp}

\* The notebook up to start(): the checkpoint is removed, in part, or not.
Ingest(r) ==
    /\ \E healed \in HealOutcomes : \E left \in CheckpointsLeft(healed) : Launch(r, left)
    /\ UNCHANGED <<topic, bronze>>

Read(r) == Recover(r, Len(topic)) /\ UNCHANGED <<topic, bronze>>

\* Mutant of Publish: the first offset of the batch is taken twice.
PublishOverlapping(r) ==
    /\ MayPublish(r, bronze)
    /\ bronze' = WithEntry(bronze, run[r].id, run[r].from .. run[r].to)
    /\ Goto(r, "commit")
    /\ UNCHANGED <<topic, cp, launches>>

\* For a mutant of Advance: a plain append, which knows nothing of batch ids.
PublishNextFile(r) ==
    /\ At(r, "publish")
    /\ bronze' = WithEntry(bronze, LatestId(DOMAIN bronze) + 1,
                           Stretch(run[r].from, run[r].to))
    /\ Goto(r, "commit")
    /\ UNCHANGED <<topic, cp, launches>>

\* No filter: the batch is appended as it is.
Publish(r) ==
    /\ MayPublish(r, bronze)
    /\ bronze' = WithEntry(bronze, run[r].id, Stretch(run[r].from, run[r].to))
    /\ Goto(r, "commit")
    /\ UNCHANGED <<topic, cp, launches>>

\* Mutant of Advance: the sink appends whatever it is given.
AdvanceByAppend(r) ==
    \/ Read(r)
    \/ PublishNextFile(r)
    \/ (Protocol(r) \/ WriteFiles(r, NoLog)) /\ UNCHANGED <<topic, bronze>>

\* Mutant of Advance: the sink refuses a batch it has instead of skipping it.
AdvanceNoSkip(r) ==
    \/ Read(r)
    \/ Publish(r)
    \/ (Protocol(r) \/ WriteFiles(r, bronze)) /\ UNCHANGED <<topic, bronze>>

Advance(r) ==
    \/ Read(r)
    \/ Publish(r)
    \/ /\ Protocol(r) \/ SkipBatch(r, bronze) \/ WriteFiles(r, bronze)
       /\ UNCHANGED <<topic, bronze>>

Die(r) == Abort(r) /\ UNCHANGED <<topic, bronze>>

Next ==
    \/ \E m \in Readings : Produce(m)
    \/ \E r \in Runners : Ingest(r) \/ Advance(r) \/ Die(r)

Spec == Init /\ [][Next]_vars

-----------------------------------------------------------------------------
(* Properties                                                              *)

Saved == UNION EntrySets(bronze)

\* The layer's promise, kept while runs do not overlap: although every run
\* reads the topic from its beginning, with the old checkpoint or without,
\* and may die anywhere, no reading is delivered twice.
Feed == INSTANCE AppendOnlyFeed
            WITH source <- 1 .. Len(topic), sink <- bronze
BronzeIsFeed == Feed!Spec

\* The notebook prints that the raw data was fetched and saved: every
\* reading that was in the topic when the run began is in bronze.
SuccessMeansSaved ==
    \A r \in Runners : At(r, "done") => 1 .. run[r].upto \subseteq Saved

\* The logs are those of a query that stopped somewhere.
Coherent ==
    /\ DOMAIN cp.ends = 0 .. LastPlanned
    /\ cp.done \in {0 .. LastPlanned, 0 .. (LastPlanned - 1)}

\* No mix of deaths and of checkpoints kept, removed or torn leaves the
\* sink in a state that a run with coherent logs cannot get through.
RunsEnd ==
    \A r \in Runners : At(r, "start") /\ Coherent ~> run[r].pc \in {"off", "done"}
=============================================================================
