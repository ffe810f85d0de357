----------------------------- MODULE Medallion ------------------------------
(***************************************************************************)
(* The medallion path from Kafka to historical_parquet: the bronze and the *)
(* silver notebook side by side, and the cells with which a person starts  *)
(* the archive over, kept as text in clean_silver_pipeline.ipynb and       *)
(* delete_historical_parquet.ipynb.                                        *)
(***************************************************************************)
EXTENDS Integers, FiniteSets, Sequences

CONSTANTS
    NoPower, Readings,
    BronzeRunners, SilverRunners,
    HealOutcomes,       \* what the removal of the bronze checkpoint may do
    MaxTopic,           \* bound: length of the topic
    MaxBronzeLaunches, MaxSilverLaunches,   \* bounds: runs of the notebooks
    MaxErasures         \* bound: removals of the archive

ASSUME MedallionAssumption ==
    /\ HealOutcomes \subseteq {"wiped", "torn", "kept"}
    /\ {MaxTopic, MaxBronzeLaunches, MaxSilverLaunches, MaxErasures} \subseteq Nat

VARIABLES
    topic, bronze, bronzeCp, bronzeRun, bronzeLaunches,
    listed, silver, silverCp, silverRun, silverLaunches,
    erasures,   \* removals of the archive so far
    whole       \* history: archive and checkpoint speak of the same batches

B == INSTANCE BronzeIngest
        WITH Runners <- BronzeRunners, MaxLaunches <- MaxBronzeLaunches,
             cp <- bronzeCp, run <- bronzeRun, launches <- bronzeLaunches
S == INSTANCE SilverClean
        WITH Runners <- SilverRunners, MaxLaunches <- MaxSilverLaunches,
             MaxFiles <- MaxBronzeLaunches,
             cp <- silverCp, run <- silverRun, launches <- silverLaunches

bronzeVars == <<bronze, bronzeCp, bronzeRun, bronzeLaunches>>
silverVars == <<listed, silver, silverCp, silverRun, silverLaunches>>
vars == <<topic, bronzeVars, silverVars, erasures, whole>>

TypeOK ==
    /\ B!TypeOK /\ S!TypeOK
    /\ erasures \in Nat /\ whole \in BOOLEAN

Init == B!Init /\ S!Init /\ erasures = 0 /\ whole = TRUE

-----------------------------------------------------------------------------

Produce(m) == B!Produce(m) /\ UNCHANGED <<silverVars, erasures, whole>>

BronzeStarts(r) == B!Ingest(r) /\ UNCHANGED <<silverVars, erasures, whole>>
BronzeAdvances(r) == B!Advance(r) /\ UNCHANGED <<silverVars, erasures, whole>>
BronzeDies(r) == B!Die(r) /\ UNCHANGED <<silverVars, erasures, whole>>

SilverStarts(r) == S!Cleanse(r) /\ UNCHANGED <<bronzeVars, erasures, whole>>
SilverAdvances(r) == S!Advance(r) /\ UNCHANGED <<bronzeVars, erasures, whole>>
SilverDies(r) == S!Die(r) /\ UNCHANGED <<bronzeVars, erasures, whole>>

\* A person removes the logs while no query is using them.
Quiet == \A r \in SilverRunners : silverRun[r].pc \in {"off", "done"}

\* What ended before a removal says nothing of what is there after it.
Forget == silverRun' = [r \in SilverRunners |-> S!Idle]

\* historical_parquet goes, with the log of its sink: the first line of one
\* cell, and all that the other achieves, whose checkpoint has another name.
EraseArchive ==
    /\ Quiet
    /\ erasures < MaxErasures /\ erasures' = erasures + 1
    /\ silver' = S!NoLog
    /\ whole' = (silverCp = S!NoCheckpoint)
    /\ Forget
    /\ UNCHANGED <<topic, bronzeVars, listed, silverCp, silverLaunches>>

\* Mutant of EraseCheckpoint, and what the second cell of the deletion
\* notebook does: the directory removed is not the one the query uses.
EraseOtherCheckpoint ==
    /\ Quiet /\ erasures > 0
    /\ whole' = (silver = S!NoLog)
    /\ Forget
    /\ UNCHANGED <<topic, bronzeVars, listed, silver, silverCp, silverLaunches, erasures>>

\* checkp_silver_clean goes, with the log of the source: the second line,
\* which may come late, or after a removal that failed.
EraseCheckpoint ==
    /\ Quiet /\ erasures > 0
    /\ silverCp' = S!NoCheckpoint /\ listed' = <<>>
    /\ whole' = (silver = S!NoLog)
    /\ Forget
    /\ UNCHANGED <<topic, bronzeVars, silver, silverLaunches, erasures>>

Next ==
    \/ \E m \in Readings : Produce(m)
    \/ \E r \in BronzeRunners : BronzeStarts(r) \/ BronzeAdvances(r) \/ BronzeDies(r)
    \/ \E r \in SilverRunners : SilverStarts(r) \/ SilverAdvances(r) \/ SilverDies(r)
    \/ EraseArchive \/ EraseCheckpoint

Spec == Init /\ [][Next]_vars

\* Runs that have started go on as long as they can.
FairSpec ==
    /\ Spec
    /\ \A r \in BronzeRunners : WF_vars(BronzeAdvances(r))
    /\ \A r \in SilverRunners : WF_vars(SilverAdvances(r))

-----------------------------------------------------------------------------
(* Properties                                                              *)

\* What silver is told of bronze is true of it: whatever silver and its
\* owner do, raw_bronze_parquet is only appended to, no reading twice.
BronzeIsFeed == B!BronzeIsFeed

\* No history of deaths, erasures and torn checkpoints leaves behind what a
\* run with coherent logs cannot get through.
RunsEnd == B!RunsEnd /\ S!RunsEnd

\* The cell of the silver notebook says that the archive is built anew:
\* once archive and checkpoint were both removed, with no run in between, a
\* run that ends well has brought back every clean reading bronze holds.
ArchiveIsRebuilt == whole => S!SuccessMeansClean

\* Nor does an erasure, whole or not, bring a reading into the archive twice.
DeliveredOnce ==
    \A i, j \in DOMAIN silver : i # j => silver[i] \cap silver[j] = {}
=============================================================================
