---------------------------- MODULE SilverClean -----------------------------
(***************************************************************************)
(* The silver layer: processing/clean_silver_pipeline.ipynb.  A file query *)
(* over raw_bronze_parquet whose checkpoint is never removed: each run     *)
(* lists the bronze files it has not seen, enters them in the log of its   *)
(* source, filters them and appends what is left to historical_parquet.    *)
(* Of bronze it is known only that it is an AppendOnlyFeed of the topic,   *)
(* which BronzeIngest is shown to be.                                      *)
(***************************************************************************)
EXTENDS MicroBatch, ReadingFilters

CONSTANTS
    Readings,       \* payloads: [type, status, watts]
    MaxTopic,       \* bound: length of the topic
    MaxFiles        \* bound: batches published by bronze

ASSUME SilverAssumption == MaxTopic \in Nat /\ MaxFiles \in Nat

VARIABLES
    topic,      \* energy_events, a log of readings
    bronze,     \* _spark_metadata of raw_bronze_parquet: offsets by batch id
    listed,     \* log of the file source: bronze batches in the order found
    silver      \* _spark_metadata of historical_parquet: offsets by batch id

silverVars == <<listed, silver, queryVars>>
vars == <<topic, bronze, silverVars>>

Files == DOMAIN bronze
Found == {listed[i] : i \in DOMAIN listed}

Clean(offset) == SilverKeeps(topic[offset].type, topic[offset].watts)
CleanIn(files) == {o \in UNION {bronze[f] : f \in files} : Clean(o)}

TypeOK ==
    /\ topic \in Seq(Readings)
    /\ \A f \in Files : f \in Nat /\ bronze[f] \subseteq DOMAIN topic
    /\ listed \in Seq(Files) /\ Cardinality(Found) = Len(listed)
    /\ DOMAIN silver \subseteq Nat
    /\ \A id \in DOMAIN silver : silver[id] \subseteq DOMAIN topic
    /\ QueryTypeOK

Init ==
    /\ topic = <<>> /\ bronze = NoLog
    /\ listed = <<>> /\ silver = NoLog /\ QueryInit

Bronze == INSTANCE AppendOnlyFeed WITH source <- DOMAIN topic, sink <- bronze

Produce(m) ==
    /\ Len(topic) < MaxTopic
    /\ topic' = Append(topic, m)
    /\ UNCHANGED <<bronze, silverVars>>

\* The bronze layer publishes a batch, as its promise allows.
PublishBronze ==
    /\ Cardinality(Files) < MaxFiles
    /\ UNCHANGED <<topic, silverVars>>
    /\ Bronze!DeliverAs(LatestId(Files) + 1)

\* The notebook up to start(); reading a directory that does not exist
\* raises before there is a query.
Cleanse(r) == Files # {} /\ Launch(r, cp) /\ UNCHANGED <<topic, bronze, listed, silver>>

\* The query starts by listing the files it has not seen, in any order, and
\* entering them in the log of its source.
List(r) ==
    /\ \E more \in [1 .. Cardinality(Files \ Found) -> Files \ Found] :
          /\ {more[i] : i \in DOMAIN more} = Files \ Found
          /\ listed' = listed \o more
    /\ Recover(r, Len(listed'))
    /\ UNCHANGED <<topic, bronze, silver>>

\* Mutant of Publish: the batch is appended as it is.
PublishRaw(r) ==
    /\ MayPublish(r, silver)
    /\ silver' = WithEntry(silver, run[r].id,
                    UNION {bronze[listed[i]] : i \in Stretch(run[r].from, run[r].to)})
    /\ Goto(r, "commit")
    /\ UNCHANGED <<topic, bronze, listed, cp, launches>>

\* Mutant of Publish: the first file of the batch is left out.
PublishFromSecond(r) ==
    /\ MayPublish(r, silver)
    /\ silver' = WithEntry(silver, run[r].id,
                    CleanIn({listed[i] : i \in Stretch(run[r].from + 1, run[r].to)}))
    /\ Goto(r, "commit")
    /\ UNCHANGED <<topic, bronze, listed, cp, launches>>

\* What the filter leaves of the batch's files is appended.
Publish(r) ==
    /\ MayPublish(r, silver)
    /\ silver' = WithEntry(silver, run[r].id,
                    CleanIn({listed[i] : i \in Stretch(run[r].from, run[r].to)}))
    /\ Goto(r, "commit")
    /\ UNCHANGED <<topic, bronze, listed, cp, launches>>

\* Mutant of Advance: a plain append, which knows nothing of batch ids.
AdvanceByAppend(r) ==
    \/ List(r)
    \/ /\ At(r, "publish") /\ Goto(r, "commit")
       /\ silver' = WithEntry(silver, LatestId(DOMAIN silver) + 1,
                       CleanIn({listed[i] : i \in Stretch(run[r].from, run[r].to)}))
       /\ UNCHANGED <<topic, bronze, listed, cp, launches>>
    \/ (Protocol(r) \/ WriteFiles(r, NoLog)) /\ UNCHANGED <<topic, bronze, listed, silver>>

\* Mutant of Advance: the sink refuses a batch it has instead of skipping it.
AdvanceNoSkip(r) ==
    \/ List(r)
    \/ Publish(r)
    \/ /\ Protocol(r) \/ WriteFiles(r, silver)
       /\ UNCHANGED <<topic, bronze, listed, silver>>

Advance(r) ==
    \/ List(r)
    \/ Publish(r)
    \/ /\ Protocol(r) \/ SkipBatch(r, silver) \/ WriteFiles(r, silver)
       /\ UNCHANGED <<topic, bronze, listed, silver>>

Die(r) == Abort(r) /\ UNCHANGED <<topic, bronze, listed, silver>>

Next ==
    \/ PublishBronze \/ \E m \in Readings : Produce(m)
    \/ \E r \in Runners : Cleanse(r) \/ Advance(r) \/ Die(r)

Spec == Init /\ [][Next]_vars

-----------------------------------------------------------------------------
(* Properties                                                              *)

\* The layer's promise: silver holds readings of bronze that pass the
\* filter, each once, although runs overlap and die anywhere.
Feed == INSTANCE AppendOnlyFeed WITH source <- CleanIn(Files), sink <- silver
SilverIsFeed == Feed!Spec

\* A run that ends well has brought silver up to date: every clean reading
\* in the files it found is there, with the runs before it and beside it.
SuccessMeansClean ==
    \A r \in Runners : At(r, "done") =>
        CleanIn({listed[i] : i \in 1 .. run[r].upto})
            \subseteq UNION EntrySets(silver)

\* Left alone, a run gets through whatever the runs before it left behind.
\* (Checked where bronze and the removals of the archive are there, too.)
Alone(r) == \A q \in Runners \ {r} : run[q].pc \in {"off", "done"}
RunsEnd ==
    \A r \in Runners :
        At(r, "start") /\ Alone(r) ~> run[r].pc \in {"off", "done"} \/ ~Alone(r)
=============================================================================
