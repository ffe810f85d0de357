-------------------------- MODULE MedallionProofs ---------------------------
(***************************************************************************)
(* The medallion path keeps its promises while bronze runs do not overlap. *)
(* Bronze starts over with batch 0 at the earliest offset, or goes on with *)
(* what a failed removal left of the old logs, and still never appends a   *)
(* reading a second time: a run reads to the end of the topic, so that the *)
(* end it enters for a batch id lies behind all that any earlier run has   *)
(* published.  Silver, with any number of runs, neither repeats a reading  *)
(* nor, where archive and checkpoint went together, loses one when its     *)
(* archive is started over.  In its place behind bronze it is what the     *)
(* module SilverClean says of it, and runs of either that find their logs  *)
(* undisturbed get to their end.                                           *)
(***************************************************************************)
EXTENDS Medallion, OrderLemmas, SequenceTheorems

\* Silver with what is proved of it.
SP == INSTANCE SilverCleanProofs
        WITH Runners <- SilverRunners, MaxLaunches <- MaxSilverLaunches,
             MaxFiles <- MaxBronzeLaunches,
             cp <- silverCp, run <- silverRun, launches <- silverLaunches

\* No two runs of the bronze notebook overlap.
SoleRunner == \E r : BronzeRunners = {r}

-----------------------------------------------------------------------------
(* The invariant                                                           *)

\* The sink holds readings of the topic.
BronzeSinkInOrder ==
    /\ topic \in Seq(Readings)
    /\ IsBounded(DOMAIN bronze)
    /\ \A b \in DOMAIN bronze : bronze[b] \subseteq 1 .. Len(topic)

\* What is left of the logs: the end of a batch lies behind all that is in
\* the sink under its id or a lower one.
Covers(ends, log, length) ==
    /\ IsBounded(DOMAIN ends)
    /\ \A id \in DOMAIN ends : ends[id] \in Nat /\ ends[id] <= length
    /\ \A id \in DOMAIN ends : \A b \in DOMAIN log :
          b <= id => log[b] \subseteq 1 .. ends[id]

BronzeLogsInOrder ==
    /\ bronzeCp = [ends |-> bronzeCp.ends, done |-> bronzeCp.done]
    /\ Covers(bronzeCp.ends, bronze, Len(topic))

\* The runner begins its batch behind the lower ones in the sink, will read
\* beyond everything that is there, and stands at the end of the logs.
BronzeInOrder(x, ends, log, length) ==
    /\ x.pc \in {"plan", "sink", "publish", "commit"} =>
         /\ x.upto <= length
         /\ \A b \in DOMAIN log : log[b] \subseteq 1 .. x.upto
    /\ x.pc \in {"plan", "sink", "publish"} =>
         \A b \in DOMAIN log : b < x.id => log[b] \subseteq 1 .. x.from
    /\ x.pc = "plan" => \A id \in DOMAIN ends : id < x.id
    /\ x.pc \in {"sink", "publish", "commit"} =>
         /\ x.id \in DOMAIN ends /\ x.to = ends[x.id] /\ x.to <= x.upto
         /\ \A id \in DOMAIN ends : id <= x.id
    /\ x.pc = "publish" => \A b \in DOMAIN log : b < x.id

BronzeRunnersInOrder ==
    /\ bronzeRun \in [BronzeRunners -> B!RunType]
    /\ \A r \in BronzeRunners :
          BronzeInOrder(bronzeRun[r], bronzeCp.ends, bronze, Len(topic))

BronzeInv == BronzeSinkInOrder /\ BronzeLogsInOrder /\ BronzeRunnersInOrder

-----------------------------------------------------------------------------
(* The steps                                                               *)

\* The latest id of a log is the greatest, or -1 when there is none.
LEMMA LatestIdExists ==
    ASSUME NEW ids, IsBounded(ids)
    PROVE  /\ B!LatestId(ids) \in ids \cup {-1}
           /\ \A id \in ids : id <= B!LatestId(ids)
           /\ B!LatestId(ids) \in Nat \cup {-1}
<1>1. \E m \in ids \cup {-1} : \A id \in ids : id <= m
  BY GreatestId
<1> QED
  BY <1>1 DEF B!LatestId, IsBounded

\* A step of the one runner keeps the invariant when it leaves logs and
\* runner in order.
LEMMA OneBronzeStep ==
    ASSUME NEW r, BronzeRunners = {r}, BronzeRunnersInOrder,
           NEW x \in B!RunType, bronzeRun' = [bronzeRun EXCEPT ![r] = x],
           BronzeInOrder(x, bronzeCp'.ends, bronze', Len(topic')),
           BronzeSinkInOrder', BronzeLogsInOrder'
    PROVE  BronzeInv'
<1>1. bronzeRun' \in [BronzeRunners -> B!RunType] /\ \A q \in BronzeRunners : bronzeRun'[q] = x
  BY DEF BronzeRunnersInOrder
<1> QED
  BY <1>1 DEF BronzeInv, BronzeRunnersInOrder

\* The topic grows: nothing there is touched.
LEMMA BronzeProduceStep ==
    ASSUME BronzeInv, NEW m \in Readings, B!Produce(m) PROVE BronzeInv'
<1>1. /\ UNCHANGED <<bronze, bronzeCp, bronzeRun>>
      /\ topic' = Append(topic, m)
      /\ topic \in Seq(Readings)
  BY DEF B!Produce, B!queryVars, BronzeInv, BronzeSinkInOrder
<1>2. /\ topic' \in Seq(Readings) /\ Len(topic) \in Nat /\ Len(topic') = Len(topic) + 1
  BY <1>1
<1> HIDE DEF BronzeInv
<1>3. BronzeSinkInOrder'
  <2>1. 1 .. Len(topic) \subseteq 1 .. Len(topic')
    BY <1>2
  <2>2. \A b \in DOMAIN bronze : bronze[b] \subseteq 1 .. Len(topic')
    BY <2>1 DEF BronzeInv, BronzeSinkInOrder
  <2> QED
    BY <1>1, <1>2, <2>2 DEF BronzeInv, BronzeSinkInOrder
<1>4. BronzeLogsInOrder'
  <2>1. \A id \in DOMAIN bronzeCp.ends :
           bronzeCp.ends[id] \in Nat /\ bronzeCp.ends[id] <= Len(topic')
    BY <1>2 DEF BronzeInv, BronzeLogsInOrder, Covers
  <2> QED
    BY <1>1, <2>1 DEF BronzeInv, BronzeLogsInOrder, Covers
<1>5. ASSUME NEW r \in BronzeRunners
      PROVE  BronzeInOrder(bronzeRun[r], bronzeCp.ends, bronze, Len(topic'))
  <2>1. /\ BronzeInOrder(bronzeRun[r], bronzeCp.ends, bronze, Len(topic))
        /\ bronzeRun[r].upto \in Nat
    BY DEF BronzeInv, BronzeRunnersInOrder, B!RunType
  <2>2. bronzeRun[r].upto <= Len(topic) => bronzeRun[r].upto <= Len(topic')
    BY <1>2, <2>1
  <2> QED
    BY <2>1, <2>2 DEF BronzeInOrder
<1>6. BronzeRunnersInOrder'
  BY <1>1, <1>5 DEF BronzeInv, BronzeRunnersInOrder
<1> QED
  BY <1>3, <1>4, <1>6 DEF BronzeInv

\* What a removal leaves of the logs is as it was.
LEMMA RemovalEffect ==
    ASSUME BronzeLogsInOrder,
           NEW healed \in HealOutcomes, NEW left \in B!CheckpointsLeft(healed)
    PROVE  /\ left = [ends |-> left.ends, done |-> left.done]
           /\ DOMAIN left.ends \subseteq DOMAIN bronzeCp.ends
           /\ \A id \in DOMAIN left.ends : left.ends[id] = bronzeCp.ends[id]
           /\ left.done \subseteq bronzeCp.done
<1>1. CASE healed = "wiped"
  BY <1>1 DEF B!CheckpointsLeft, B!NoCheckpoint, B!NoLog
<1>2. CASE healed = "torn"
  <2>1. left \in B!Remnants
    BY <1>2 DEF B!CheckpointsLeft
  <2>2. CASE \E ids \in SUBSET DOMAIN bronzeCp.ends, done \in {{}, bronzeCp.done} :
                left = [ends |-> [id \in ids |-> bronzeCp.ends[id]], done |-> done]
    BY <2>2
  <2>3. CASE \E ends \in {B!NoLog, bronzeCp.ends}, done \in SUBSET bronzeCp.done :
                left = [ends |-> ends, done |-> done]
    BY <2>3 DEF B!NoLog
  <2> QED
    BY <2>1, <2>2, <2>3 DEF B!Remnants
<1>3. CASE healed = "kept"
  BY <1>3 DEF B!CheckpointsLeft, BronzeLogsInOrder
<1> QED
  BY <1>1, <1>2, <1>3, MedallionAssumption

LEMMA BronzeIngestStep ==
    ASSUME BronzeInv, NEW r, BronzeRunners = {r}, B!Ingest(r) PROVE BronzeInv'
<1> DEFINE x == B!RunAt("start", 0, 0, 0, 0)
<1>1. UNCHANGED <<topic, bronze>> /\ bronzeRun' = [bronzeRun EXCEPT ![r] = x]
  BY DEF B!Ingest, B!Launch
<1>2. PICK healed \in HealOutcomes : \E left \in B!CheckpointsLeft(healed) : bronzeCp' = left
  BY DEF B!Ingest, B!Launch
<1>3. /\ bronzeCp' = [ends |-> bronzeCp'.ends, done |-> bronzeCp'.done]
      /\ DOMAIN bronzeCp'.ends \subseteq DOMAIN bronzeCp.ends
      /\ \A id \in DOMAIN bronzeCp'.ends : bronzeCp'.ends[id] = bronzeCp.ends[id]
  BY <1>2, RemovalEffect DEF BronzeInv
<1>4. BronzeSinkInOrder'
  BY <1>1 DEF BronzeInv, BronzeSinkInOrder
<1>5. IsBounded(DOMAIN bronzeCp'.ends)
  BY <1>3, BoundedSubset DEF BronzeInv, BronzeLogsInOrder, Covers
<1>6. BronzeLogsInOrder'
  BY <1>1, <1>3, <1>5 DEF BronzeInv, BronzeLogsInOrder, Covers
<1>7. x \in B!RunType /\ x.pc = "start"
  BY DEF B!RunAt, B!RunType
<1>8. BronzeInOrder(x, bronzeCp'.ends, bronze', Len(topic'))
  BY <1>7 DEF BronzeInOrder
<1> HIDE DEF x
<1> QED
  BY <1>1, <1>4, <1>6, <1>7, <1>8, OneBronzeStep DEF BronzeInv

\* The query takes up the last batch in the log, whose predecessor's end is
\* there too, or goes on after it: either way it begins behind all that is in
\* the sink under lower ids.
LEMMA BronzeReadStep ==
    ASSUME BronzeInv, NEW r, BronzeRunners = {r}, B!Read(r) PROVE BronzeInv'
<1> DEFINE last == B!LatestId(DOMAIN bronzeCp.ends)
           length == Len(topic)
           again == B!RunAt("sink", length, last, B!EndOf(last - 1), B!EndOf(last))
           next == B!RunAt("plan", length, last + 1, B!EndOf(last), B!EndOf(last))
<1>1. UNCHANGED <<topic, bronze, bronzeCp>>
  BY DEF B!Read, B!Recover
<1>2. BronzeSinkInOrder' /\ BronzeLogsInOrder'
  BY <1>1 DEF BronzeInv, BronzeSinkInOrder, BronzeLogsInOrder
<1>3. /\ IsBounded(DOMAIN bronzeCp.ends) /\ length \in Nat
      /\ \A id \in DOMAIN bronzeCp.ends :
            bronzeCp.ends[id] \in Nat /\ bronzeCp.ends[id] <= length
      /\ \A id \in DOMAIN bronzeCp.ends : \A b \in DOMAIN bronze :
            b <= id => bronze[b] \subseteq 1 .. bronzeCp.ends[id]
      /\ \A b \in DOMAIN bronze : b \in Nat /\ bronze[b] \subseteq 1 .. length
  BY DEF BronzeInv, BronzeLogsInOrder, Covers, BronzeSinkInOrder, IsBounded
<1>4. /\ last \in DOMAIN bronzeCp.ends \cup {-1} /\ last \in Nat \cup {-1}
      /\ \A id \in DOMAIN bronzeCp.ends : id <= last /\ id \in Nat
  BY <1>3, LatestIdExists DEF IsBounded
<1>5. /\ last <= 0 \/ last - 1 \in DOMAIN bronzeCp.ends
      /\ \/ last # -1 /\ bronzeRun' = [bronzeRun EXCEPT ![r] = again]
         \/ bronzeRun' = [bronzeRun EXCEPT ![r] = next]
  BY DEF B!Read, B!Recover, B!LastPlanned
<1> HIDE DEF last, length
<1>6. CASE last # -1 /\ bronzeRun' = [bronzeRun EXCEPT ![r] = again]
  <2>1. last \in DOMAIN bronzeCp.ends /\ last \in Nat /\ B!EndOf(last) = bronzeCp.ends[last]
    BY <1>4, <1>6 DEF B!EndOf
  <2>2. /\ B!EndOf(last - 1) \in Nat
        /\ \A b \in DOMAIN bronze : b < last => bronze[b] \subseteq 1 .. B!EndOf(last - 1)
    <3>1. CASE last = 0
      BY <1>3, <3>1 DEF B!EndOf
    <3>2. CASE last # 0
      <4>1. last - 1 \in DOMAIN bronzeCp.ends /\ B!EndOf(last - 1) = bronzeCp.ends[last - 1]
        BY <1>5, <2>1, <3>2 DEF B!EndOf
      <4>2. \A b \in DOMAIN bronze : b < last => b <= last - 1
        BY <1>3, <2>1
      <4> QED
        BY <1>3, <4>1, <4>2
    <3> QED
      BY <3>1, <3>2
  <2>3. /\ again \in B!RunType
        /\ again.pc = "sink"
        /\ again.upto = length
        /\ again.id = last
        /\ again.from = B!EndOf(last - 1) /\ again.to = B!EndOf(last)
    BY <1>3, <2>1, <2>2 DEF B!RunType, B!RunAt
  <2> HIDE DEF again
  <2>4. BronzeInOrder(again, bronzeCp.ends, bronze, length)
    BY <1>3, <1>4, <2>1, <2>2, <2>3 DEF BronzeInOrder
  <2> QED
    BY <1>1, <1>2, <1>6, <2>3, <2>4, OneBronzeStep DEF BronzeInv, length
<1>7. CASE bronzeRun' = [bronzeRun EXCEPT ![r] = next]
  <2>1. /\ B!EndOf(last) \in Nat /\ B!EndOf(last) <= length
        /\ \A b \in DOMAIN bronze : b < last + 1 => bronze[b] \subseteq 1 .. B!EndOf(last)
    <3>1. CASE last = -1
      BY <1>3, <3>1 DEF B!EndOf
    <3>2. CASE last # -1
      <4>1. last \in DOMAIN bronzeCp.ends /\ B!EndOf(last) = bronzeCp.ends[last]
        BY <1>4, <3>2 DEF B!EndOf
      <4>2. \A b \in DOMAIN bronze : b < last + 1 => b <= last
        BY <1>3, <1>4
      <4> QED
        BY <1>3, <4>1, <4>2
    <3> QED
      BY <3>1, <3>2
  <2>2. last + 1 \in Nat /\ \A id \in DOMAIN bronzeCp.ends : id < last + 1
    BY <1>4
  <2>3. /\ next \in B!RunType /\ next.pc = "plan" /\ next.upto = length
        /\ next.id = last + 1 /\ next.from = B!EndOf(last)
    BY <1>3, <2>1, <2>2 DEF B!RunType, B!RunAt
  <2> HIDE DEF next
  <2>4. BronzeInOrder(next, bronzeCp.ends, bronze, length)
    BY <1>3, <2>1, <2>2, <2>3 DEF BronzeInOrder
  <2> QED
    BY <1>1, <1>2, <1>7, <2>3, <2>4, OneBronzeStep DEF BronzeInv, length
<1> QED
  BY <1>5, <1>6, <1>7

\* The end of a new batch lies behind everything in the sink.
LEMMA BronzePlanStep ==
    ASSUME BronzeInv, NEW r, BronzeRunners = {r}, B!Plan(r), UNCHANGED <<topic, bronze>>
    PROVE  BronzeInv'
<1> DEFINE id == bronzeRun[r].id
           upto == bronzeRun[r].upto
           ends == bronzeCp.ends
           more == B!WithEntry(ends, id, upto)
           x == B!RunAt("sink", upto, id, bronzeRun[r].from, upto)
<1>1. /\ bronzeRun[r].pc = "plan"
      /\ bronzeRun[r].from < upto
      /\ bronzeRun' = [bronzeRun EXCEPT ![r] = x]
  BY DEF B!Plan, B!At, BronzeInv, BronzeRunnersInOrder
<1>2. bronzeCp' = [ends |-> more, done |-> bronzeCp.done]
  <2>1. bronzeCp = [ends |-> bronzeCp.ends, done |-> bronzeCp.done]
    BY DEF BronzeInv, BronzeLogsInOrder
  <2>2. bronzeCp' = [bronzeCp EXCEPT
           !.ends = B!WithEntry(bronzeCp.ends, bronzeRun[r].id, bronzeRun[r].upto)]
    BY DEF B!Plan
  <2> QED
    BY <2>1, <2>2
<1>3. bronzeRun[r] \in B!RunType /\ BronzeInOrder(bronzeRun[r], ends, bronze, Len(topic))
  BY DEF BronzeInv, BronzeRunnersInOrder
<1>4. /\ id \in Nat /\ upto \in Nat /\ bronzeRun[r].from \in Nat /\ upto <= Len(topic)
      /\ \A b \in DOMAIN bronze : bronze[b] \subseteq 1 .. upto
      /\ \A b \in DOMAIN bronze : b < id => bronze[b] \subseteq 1 .. bronzeRun[r].from
      /\ \A i \in DOMAIN ends : i < id
  BY <1>1, <1>3 DEF B!RunType, BronzeInOrder
<1>5. /\ x \in B!RunType /\ x.pc = "sink" /\ x.upto = upto /\ x.id = id
      /\ x.from = bronzeRun[r].from /\ x.to = upto
  BY <1>4 DEF B!RunType, B!RunAt
<1>6. /\ IsBounded(DOMAIN ends)
      /\ \A i \in DOMAIN ends : ends[i] \in Nat /\ ends[i] <= Len(topic) /\ i \in Nat
      /\ \A i \in DOMAIN ends : \A b \in DOMAIN bronze :
            b <= i => bronze[b] \subseteq 1 .. ends[i]
  BY DEF BronzeInv, BronzeLogsInOrder, Covers, IsBounded
<1> HIDE DEF id, upto, ends, x
<1>7. /\ DOMAIN more = DOMAIN ends \cup {id} /\ more[id] = upto
      /\ \A i \in DOMAIN ends : more[i] = ends[i]
  BY <1>4, <1>6 DEF B!WithEntry
<1> HIDE DEF more
<1>8. Covers(more, bronze, Len(topic))
  <2>1. IsBounded(DOMAIN more)
    <3> DEFINE ids == DOMAIN ends
    <3>1. IsBounded(ids) /\ id \in Nat /\ DOMAIN more = ids \cup {id}
      BY <1>4, <1>6, <1>7
    <3> HIDE DEF ids
    <3>2. IsBounded(ids \cup {id})
      BY <3>1, BoundedEntry
    <3> QED
      BY <3>1, <3>2
  <2> QED
    BY <1>4, <1>6, <1>7, <2>1 DEF Covers
<1>9. BronzeSinkInOrder' /\ BronzeLogsInOrder' /\ bronzeCp'.ends = more
  BY <1>2, <1>8 DEF BronzeInv, BronzeSinkInOrder, BronzeLogsInOrder
<1>10. BronzeInOrder(x, more, bronze, Len(topic))
  <2>1. \A i \in DOMAIN more : i <= id
    BY <1>4, <1>6, <1>7
  <2> QED
    BY <1>4, <1>5, <1>7, <2>1 DEF BronzeInOrder
<1> QED
  BY <1>1, <1>5, <1>9, <1>10, OneBronzeStep DEF BronzeInv

LEMMA BronzeCommitStep ==
    ASSUME BronzeInv, NEW r, BronzeRunners = {r}, B!Commit(r), UNCHANGED <<topic, bronze>>
    PROVE  BronzeInv'
<1> DEFINE id == bronzeRun[r].id
           x == B!RunAt("plan", bronzeRun[r].upto, id + 1, bronzeRun[r].to, bronzeRun[r].to)
<1>1. bronzeRun[r].pc = "commit" /\ bronzeRun' = [bronzeRun EXCEPT ![r] = x]
  BY DEF B!Commit, B!At, BronzeInv, BronzeRunnersInOrder
<1>2. bronzeCp' = [ends |-> bronzeCp.ends, done |-> bronzeCp.done \cup {id}]
  <2>1. bronzeCp = [ends |-> bronzeCp.ends, done |-> bronzeCp.done]
    BY DEF BronzeInv, BronzeLogsInOrder
  <2>2. bronzeCp' = [bronzeCp EXCEPT !.done = bronzeCp.done \cup {bronzeRun[r].id}]
    BY DEF B!Commit
  <2> QED
    BY <2>1, <2>2
<1>3. BronzeSinkInOrder' /\ BronzeLogsInOrder' /\ bronzeCp'.ends = bronzeCp.ends
  BY <1>2 DEF BronzeInv, BronzeSinkInOrder, BronzeLogsInOrder
<1>4. /\ bronzeRun[r] \in B!RunType
      /\ BronzeInOrder(bronzeRun[r], bronzeCp.ends, bronze, Len(topic))
  BY DEF BronzeInv, BronzeRunnersInOrder
<1>5. /\ id \in Nat /\ bronzeRun[r].to \in Nat /\ bronzeRun[r].upto \in Nat
      /\ id \in DOMAIN bronzeCp.ends
      /\ bronzeRun[r].to = bronzeCp.ends[id]
      /\ bronzeRun[r].upto <= Len(topic)
      /\ \A b \in DOMAIN bronze : bronze[b] \subseteq 1 .. bronzeRun[r].upto
      /\ \A i \in DOMAIN bronzeCp.ends : i <= id
  BY <1>1, <1>4 DEF B!RunType, BronzeInOrder
<1>6. /\ x \in B!RunType /\ x.pc = "plan" /\ x.upto = bronzeRun[r].upto /\ x.id = id + 1
      /\ x.from = bronzeRun[r].to
  BY <1>5 DEF B!RunType, B!RunAt
<1> HIDE DEF x, id
<1>7. BronzeInOrder(x, bronzeCp.ends, bronze, Len(topic))
  <2>1. \A b \in DOMAIN bronze : b < id + 1 => b <= id
    BY <1>5 DEF BronzeInv, BronzeSinkInOrder, IsBounded
  <2>2. \A b \in DOMAIN bronze : b < id + 1 => bronze[b] \subseteq 1 .. bronzeRun[r].to
    BY <1>5, <2>1 DEF BronzeInv, BronzeLogsInOrder, Covers
  <2>3. \A i \in DOMAIN bronzeCp.ends : i < id + 1
    BY <1>5 DEF BronzeInv, BronzeLogsInOrder, Covers, IsBounded
  <2> QED
    BY <1>5, <1>6, <2>2, <2>3 DEF BronzeInOrder
<1> QED
  BY <1>1, <1>3, <1>6, <1>7, OneBronzeStep DEF BronzeInv

\* The steps in which a runner only moves on.
LEMMA BronzeMoveStep ==
    ASSUME BronzeInv, NEW r, BronzeRunners = {r}, UNCHANGED <<topic, bronze, bronzeCp>>,
           NEW pc \in {"off", "publish", "commit", "done"}, B!Goto(r, pc),
           pc = "publish" => /\ bronzeRun[r].pc = "sink"
                             /\ \A b \in DOMAIN bronze : b < bronzeRun[r].id,
           pc = "commit" => bronzeRun[r].pc = "sink"
    PROVE  BronzeInv'
<1> DEFINE x == [bronzeRun[r] EXCEPT !.pc = pc]
<1>1. /\ bronzeRun[r] \in B!RunType
      /\ BronzeInOrder(bronzeRun[r], bronzeCp.ends, bronze, Len(topic))
  BY DEF BronzeInv, BronzeRunnersInOrder
<1>2. /\ x \in B!RunType
      /\ x.pc = pc
      /\ x.upto = bronzeRun[r].upto
      /\ x.id = bronzeRun[r].id
      /\ x.from = bronzeRun[r].from /\ x.to = bronzeRun[r].to
  BY <1>1 DEF B!RunType
<1>3. bronzeRun' = [bronzeRun EXCEPT ![r] = x]
  BY DEF B!Goto, BronzeInv, BronzeRunnersInOrder
<1> HIDE DEF x
<1>4. BronzeInOrder(x, bronzeCp.ends, bronze, Len(topic))
  BY <1>1, <1>2 DEF BronzeInOrder
<1>5. BronzeSinkInOrder' /\ BronzeLogsInOrder'
  BY DEF BronzeInv, BronzeSinkInOrder, BronzeLogsInOrder
<1> QED
  BY <1>2, <1>3, <1>4, <1>5, OneBronzeStep DEF BronzeInv

\* The files are written only for a batch newer than all in the sink.
LEMMA BronzeWriteFilesStep ==
    ASSUME BronzeInv, NEW r, BronzeRunners = {r}, B!WriteFiles(r, bronze),
           UNCHANGED <<topic, bronze>>
    PROVE  BronzeInv'
<1> DEFINE latest == B!LatestId(DOMAIN bronze)
<1>1. /\ bronzeRun[r].pc = "sink"
      /\ bronzeRun[r].id > latest
      /\ B!Goto(r, "publish")
      /\ UNCHANGED bronzeCp
      /\ bronzeRun[r].id \in Nat
  BY DEF B!WriteFiles, B!At, BronzeInv, BronzeRunnersInOrder, B!RunType
<1>2. latest \in Nat \cup {-1} /\ \A b \in DOMAIN bronze : b <= latest /\ b \in Nat
  BY LatestIdExists DEF BronzeInv, BronzeSinkInOrder, IsBounded
<1> HIDE DEF latest
<1>3. \A b \in DOMAIN bronze : b < bronzeRun[r].id
  BY <1>1, <1>2
<1> QED
  BY <1>1, <1>3, BronzeMoveStep

\* What a publication appends lies behind all that is in the sink.
LEMMA BronzePublishEffect ==
    ASSUME BronzeInv, NEW r, BronzeRunners = {r}, B!Publish(r)
    PROVE  LET id == bronzeRun[r].id
               batch == B!Stretch(bronzeRun[r].from, bronzeRun[r].to)
           IN  /\ id \notin DOMAIN bronze /\ bronze' = B!WithEntry(bronze, id, batch)
               /\ batch \subseteq 1 .. Len(topic) /\ batch \subseteq 1 .. bronzeRun[r].to
               /\ \A b \in DOMAIN bronze : batch \cap bronze[b] = {}
<1> DEFINE id == bronzeRun[r].id
           from == bronzeRun[r].from
           to == bronzeRun[r].to
<1>1. /\ bronzeRun[r].pc = "publish" /\ id \notin DOMAIN bronze
      /\ bronze' = B!WithEntry(bronze, id, B!Stretch(from, to))
  BY DEF B!Publish, B!MayPublish, B!At
<1>2. /\ from \in Nat /\ to \in Nat /\ to <= Len(topic) /\ Len(topic) \in Nat
      /\ \A b \in DOMAIN bronze : bronze[b] \subseteq 1 .. from
  <2>1. /\ bronzeRun[r] \in B!RunType
        /\ BronzeInOrder(bronzeRun[r], bronzeCp.ends, bronze, Len(topic))
    BY DEF BronzeInv, BronzeRunnersInOrder
  <2>2. from \in Nat /\ to \in Nat /\ Len(topic) \in Nat
    BY <2>1 DEF B!RunType, BronzeInv, BronzeSinkInOrder
  <2>3. to <= Len(topic)
    BY <1>1, <2>1 DEF BronzeInOrder, BronzeInv, BronzeLogsInOrder, Covers
  <2> QED
    BY <1>1, <2>1, <2>2, <2>3 DEF BronzeInOrder
<1> HIDE DEF from, to
<1>3. B!Stretch(from, to) \subseteq 1 .. Len(topic) /\ B!Stretch(from, to) \subseteq 1 .. to
  BY <1>2 DEF B!Stretch
<1>4. B!Stretch(from, to) \cap (1 .. from) = {}
  BY <1>2 DEF B!Stretch
<1>5. \A b \in DOMAIN bronze : B!Stretch(from, to) \cap bronze[b] = {}
  BY <1>2, <1>4
<1> QED
  BY <1>1, <1>3, <1>5 DEF from, to

LEMMA BronzePublishStep ==
    ASSUME BronzeInv, NEW r, BronzeRunners = {r}, B!Publish(r) PROVE BronzeInv'
<1> DEFINE id == bronzeRun[r].id
           batch == B!Stretch(bronzeRun[r].from, bronzeRun[r].to)
           x == [bronzeRun[r] EXCEPT !.pc = "commit"]
<1>1. /\ bronzeRun[r].pc = "publish"
      /\ UNCHANGED <<topic, bronzeCp>>
      /\ bronzeRun' = [bronzeRun EXCEPT ![r] = x]
  BY DEF B!Publish, B!MayPublish, B!At, B!Goto, BronzeInv, BronzeRunnersInOrder
<1>2. /\ bronzeRun[r] \in B!RunType
      /\ BronzeInOrder(bronzeRun[r], bronzeCp.ends, bronze, Len(topic))
  BY DEF BronzeInv, BronzeRunnersInOrder
<1>3. /\ id \notin DOMAIN bronze /\ bronze' = B!WithEntry(bronze, id, batch)
      /\ batch \subseteq 1 .. Len(topic) /\ batch \subseteq 1 .. bronzeRun[r].to
  BY BronzePublishEffect
<1>4. /\ x \in B!RunType /\ x.pc = "commit" /\ x.upto = bronzeRun[r].upto /\ x.id = id
      /\ x.from = bronzeRun[r].from /\ x.to = bronzeRun[r].to
  BY <1>2 DEF B!RunType
<1>5. /\ id \in Nat /\ id \in DOMAIN bronzeCp.ends /\ bronzeRun[r].to = bronzeCp.ends[id]
      /\ bronzeRun[r].upto \in Nat /\ bronzeRun[r].to \in Nat
      /\ bronzeRun[r].to <= bronzeRun[r].upto /\ bronzeRun[r].upto <= Len(topic)
      /\ \A b \in DOMAIN bronze : bronze[b] \subseteq 1 .. bronzeRun[r].upto
      /\ \A i \in DOMAIN bronzeCp.ends : i <= id
  BY <1>1, <1>2 DEF B!RunType, BronzeInOrder
<1> HIDE DEF batch, x, id
<1>6. /\ DOMAIN bronze' = DOMAIN bronze \cup {id} /\ bronze'[id] = batch
      /\ \A b \in DOMAIN bronze : bronze'[b] = bronze[b]
  BY <1>3 DEF B!WithEntry
<1>7. BronzeSinkInOrder'
  <2>1. IsBounded(DOMAIN bronze')
    BY <1>5, <1>6, BoundedEntry DEF BronzeInv, BronzeSinkInOrder
  <2> QED
    BY <1>1, <1>3, <1>6, <2>1 DEF BronzeInv, BronzeSinkInOrder
<1>8. BronzeLogsInOrder'
  <2>1. ASSUME NEW i \in DOMAIN bronzeCp.ends, NEW b \in DOMAIN bronze', b <= i
        PROVE  bronze'[b] \subseteq 1 .. bronzeCp.ends[i]
    <3>1. CASE b \in DOMAIN bronze
      BY <1>6, <2>1, <3>1 DEF BronzeInv, BronzeLogsInOrder, Covers
    <3>2. CASE b = id
      <4>1. i = id
        BY <1>5, <2>1, <3>2 DEF BronzeInv, BronzeLogsInOrder, Covers, IsBounded
      <4> QED
        BY <1>3, <1>5, <1>6, <3>2, <4>1
    <3> QED
      BY <1>6, <3>1, <3>2
  <2> QED
    BY <1>1, <2>1 DEF BronzeInv, BronzeLogsInOrder, Covers
<1>9. BronzeInOrder(x, bronzeCp.ends, bronze', Len(topic))
  <2>1. 1 .. bronzeRun[r].to \subseteq 1 .. bronzeRun[r].upto
    BY <1>5
  <2>2. \A b \in DOMAIN bronze' : bronze'[b] \subseteq 1 .. bronzeRun[r].upto
    BY <1>3, <1>5, <1>6, <2>1
  <2> QED
    BY <1>4, <1>5, <2>2 DEF BronzeInOrder
<1> QED
  BY <1>1, <1>4, <1>7, <1>8, <1>9, OneBronzeStep DEF BronzeInv

LEMMA BronzeInitInv == B!Init => BronzeInv
<1> SUFFICES ASSUME B!Init PROVE BronzeInv
  OBVIOUS
<1>1. /\ topic = <<>> /\ DOMAIN bronze = {} /\ DOMAIN bronzeCp.ends = {}
      /\ bronzeCp = [ends |-> bronzeCp.ends, done |-> bronzeCp.done]
      /\ bronzeRun = [r \in BronzeRunners |-> B!Idle]
  BY DEF B!Init, B!QueryInit, B!NoLog, B!NoCheckpoint
<1>2. B!Idle \in B!RunType /\ B!Idle.pc = "off"
  BY DEF B!Idle, B!RunAt, B!RunType
<1>3. IsBounded({})
  BY DEF IsBounded
<1>4. BronzeSinkInOrder /\ BronzeLogsInOrder
  BY <1>1, <1>3 DEF BronzeSinkInOrder, BronzeLogsInOrder, Covers
<1>5. BronzeRunnersInOrder
  BY <1>1, <1>2 DEF BronzeRunnersInOrder, BronzeInOrder
<1> QED
  BY <1>4, <1>5 DEF BronzeInv

LEMMA BronzeNextInv ==
    ASSUME SoleRunner, BronzeInv, [B!Next]_(B!vars)
    PROVE  BronzeInv'
<1>1. PICK r : BronzeRunners = {r}
  BY DEF SoleRunner
<1>2. CASE \E m \in Readings : B!Produce(m)
  BY <1>2, BronzeProduceStep
<1>3. CASE B!Ingest(r)
  BY <1>1, <1>3, BronzeIngestStep
<1>4. CASE B!Advance(r)
  <2>1. CASE B!Read(r)
    BY <1>1, <2>1, BronzeReadStep
  <2>2. CASE B!Publish(r)
    BY <1>1, <2>2, BronzePublishStep
  <2>3. CASE B!Plan(r) /\ UNCHANGED <<topic, bronze>>
    BY <1>1, <2>3, BronzePlanStep
  <2>4. CASE B!Commit(r) /\ UNCHANGED <<topic, bronze>>
    BY <1>1, <2>4, BronzeCommitStep
  <2>5. CASE B!Finish(r) /\ UNCHANGED <<topic, bronze>>
    BY <1>1, <2>5, BronzeMoveStep DEF B!Finish
  <2>6. CASE B!SkipBatch(r, bronze) /\ UNCHANGED <<topic, bronze>>
    BY <1>1, <2>6, BronzeMoveStep DEF B!SkipBatch, B!At
  <2>7. CASE B!WriteFiles(r, bronze) /\ UNCHANGED <<topic, bronze>>
    BY <1>1, <2>7, BronzeWriteFilesStep
  <2> QED
    BY <1>4, <2>1, <2>2, <2>3, <2>4, <2>5, <2>6, <2>7 DEF B!Advance, B!Protocol
<1>5. CASE B!Die(r)
  BY <1>1, <1>5, BronzeMoveStep DEF B!Die, B!Abort
<1>6. CASE UNCHANGED B!vars
  <2>1. UNCHANGED <<topic, bronze, bronzeCp, bronzeRun>>
    BY <1>6 DEF B!vars, B!queryVars
  <2> QED
    BY <2>1 DEF BronzeInv, BronzeSinkInOrder, BronzeLogsInOrder, BronzeRunnersInOrder
<1> QED
  BY <1>1, <1>2, <1>3, <1>4, <1>5, <1>6 DEF B!Next

-----------------------------------------------------------------------------

\* Bronze alone keeps its promise.
LEMMA BronzeAlone ==
    SoleRunner => (B!Spec => BronzeIsFeed)
<1> SUFFICES ASSUME SoleRunner PROVE B!Spec => BronzeIsFeed
  OBVIOUS
<1>1. B!Init => B!Feed!Init
  BY DEF B!Init, B!Feed!Init, B!NoLog
<1>2. BronzeInv /\ [B!Next]_(B!vars) => BronzeInv'
  BY BronzeNextInv
<1>3. ASSUME BronzeInv, [B!Next]_(B!vars)
      PROVE  [B!Feed!Next]_<<1 .. Len(topic), bronze>>
  <2>1. PICK r : BronzeRunners = {r}
    BY DEF SoleRunner
  <2>2. ASSUME NEW m \in Readings, B!Produce(m) PROVE B!Feed!Grow
    <3>1. /\ UNCHANGED bronze /\ topic' = Append(topic, m) /\ topic \in Seq(Readings)
      BY <1>3, <2>2 DEF B!Produce, BronzeInv, BronzeSinkInOrder
    <3>2. Len(topic) \in Nat /\ Len(topic') = Len(topic) + 1
      BY <3>1
    <3>3. 1 .. Len(topic) \subseteq 1 .. Len(topic') /\ 1 .. Len(topic) # 1 .. Len(topic')
      <4>1. Len(topic') \in 1 .. Len(topic') /\ Len(topic') \notin 1 .. Len(topic)
        BY <3>2
      <4> QED
        BY <3>2, <4>1
    <3> QED
      BY <3>1, <3>3 DEF B!Feed!Grow
  <2>3. ASSUME B!Publish(r) PROVE B!Feed!Deliver
    <3> DEFINE id == bronzeRun[r].id
               batch == B!Stretch(bronzeRun[r].from, bronzeRun[r].to)
    <3>1. /\ id \notin DOMAIN bronze /\ bronze' = B!WithEntry(bronze, id, batch)
          /\ batch \subseteq 1 .. Len(topic)
          /\ \A b \in DOMAIN bronze : batch \cap bronze[b] = {}
      BY <1>3, <2>1, <2>3, BronzePublishEffect
    <3>2. UNCHANGED topic
      BY <2>3 DEF B!Publish
    <3> HIDE DEF id, batch
    <3>3. batch \in SUBSET ((1 .. Len(topic)) \ B!Feed!Delivered(bronze))
      BY <3>1 DEF B!Feed!Delivered
    <3>4. /\ bronze' = [i \in DOMAIN bronze \cup {id} |-> IF i = id THEN batch ELSE bronze[i]]
          /\ id \in DOMAIN bronze' \ DOMAIN bronze
      BY <3>1 DEF B!WithEntry
    <3>5. B!Feed!DeliverAs(id)
      BY <3>2, <3>3, <3>4 DEF B!Feed!DeliverAs
    <3> QED
      BY <3>4, <3>5 DEF B!Feed!Deliver
  <2>4. CASE B!Ingest(r)
    BY <2>4 DEF B!Ingest
  <2>5. CASE B!Advance(r)
    BY <2>3, <2>5 DEF B!Advance, B!Read, B!Feed!Next
  <2>6. CASE B!Die(r)
    BY <2>6 DEF B!Die
  <2>7. CASE UNCHANGED B!vars
    BY <2>7 DEF B!vars
  <2> QED
    BY <1>3, <2>1, <2>2, <2>4, <2>5, <2>6, <2>7 DEF B!Next, B!Feed!Next
<1> QED
  BY <1>1, <1>2, <1>3, BronzeInitInv, PTL
     DEF B!Spec, BronzeIsFeed, B!BronzeIsFeed, B!Feed!Spec

-----------------------------------------------------------------------------
(* Bronze beside the rest                                                  *)

\* No run of silver and no removal touches what bronze has to do with.
LEMMA SpecOfBronze == Spec => B!Spec
<1>1. Init => B!Init
  BY DEF Init
<1>2. [Next]_vars => [B!Next]_(B!vars)
  <2> SUFFICES ASSUME [Next]_vars PROVE [B!Next]_(B!vars)
    OBVIOUS
  <2>1. CASE \E m \in Readings : Produce(m)
    BY <2>1 DEF Produce, B!Next
  <2>2. CASE \E r \in BronzeRunners : BronzeStarts(r) \/ BronzeAdvances(r) \/ BronzeDies(r)
    BY <2>2 DEF BronzeStarts, BronzeAdvances, BronzeDies, B!Next
  <2>3. ASSUME UNCHANGED <<topic, bronzeVars>>
        PROVE  UNCHANGED B!vars
    BY <2>3 DEF bronzeVars, B!vars, B!queryVars
  <2>4. ASSUME NEW r \in SilverRunners, SilverStarts(r) \/ SilverAdvances(r) \/ SilverDies(r)
        PROVE  UNCHANGED <<topic, bronzeVars>>
    BY <2>4 DEF SilverStarts, SilverAdvances, SilverDies, S!Cleanse, S!Advance, S!List,
                S!Publish, S!Die
  <2>5. CASE EraseArchive \/ EraseCheckpoint
    BY <2>3, <2>5 DEF EraseArchive, EraseCheckpoint
  <2>6. CASE UNCHANGED vars
    BY <2>3, <2>6 DEF vars
  <2> QED
    BY <2>1, <2>2, <2>3, <2>4, <2>5, <2>6 DEF Next
<1> QED
  BY <1>1, <1>2, PTL DEF Spec, B!Spec

\* While no two runs of the bronze notebook overlap, raw_bronze_parquet is an
\* append-only feed of the topic in which no reading is delivered twice,
\* whatever the removals of the checkpoint leave, wherever the runs die, and
\* whatever silver and its owner do meanwhile.
THEOREM BronzeImplementsFeed == SoleRunner => (Spec => BronzeIsFeed)
BY SpecOfBronze, BronzeAlone

-----------------------------------------------------------------------------
(* What silver sees is the silver of SilverClean                           *)

\* The steps of silver here are those about which SilverCleanProofs speaks.
LEMMA SameSilver ==
    ASSUME NEW r \in SilverRunners
    PROVE  /\ S!Cleanse(r) => SP!Cleanse(r)
           /\ S!Advance(r) => SP!Advance(r)
           /\ S!Die(r) => SP!Die(r)
<1>1. S!Cleanse(r) => SP!Cleanse(r)
  BY DEF S!Cleanse, SP!Cleanse, S!Launch, SP!Launch, S!Files, SP!Files, S!RunAt, SP!RunAt
<1>2. S!Die(r) => SP!Die(r)
  BY DEF S!Die, SP!Die, S!Abort, SP!Abort, S!Goto, SP!Goto
<1>3. S!List(r) => SP!List(r)
  <2>1. S!Files = SP!Files /\ S!Found = SP!Found
    BY DEF S!Files, SP!Files, S!Found, SP!Found
  <2>2. /\ S!LastPlanned = SP!LastPlanned /\ (S!Resumes <=> SP!Resumes)
        /\ S!At(r, "start") <=> SP!At(r, "start")
    BY DEF S!LastPlanned, SP!LastPlanned, S!LatestId, SP!LatestId, S!Resumes, SP!Resumes,
           S!At, SP!At
  <2>3. \A id : S!EndOf(id) = SP!EndOf(id)
    BY DEF S!EndOf, SP!EndOf
  <2>4. S!Recover(r, Len(listed')) => SP!Recover(r, Len(listed'))
    BY <2>2, <2>3 DEF S!Recover, SP!Recover, S!RunAt, SP!RunAt
  <2>5. \A X : S!Cardinality(X) = SP!Cardinality(X)
    BY DEF S!Cardinality, SP!Cardinality
  <2> QED
    BY <2>1, <2>4, <2>5 DEF S!List, SP!List
<1>4. S!Publish(r) => SP!Publish(r)
  BY DEF S!Publish, SP!Publish, S!MayPublish, SP!MayPublish, S!At, SP!At, S!Goto, SP!Goto,
         S!WithEntry, SP!WithEntry, S!Stretch, SP!Stretch, S!CleanIn, SP!CleanIn,
         S!Clean, SP!Clean, S!SilverKeeps, SP!SilverKeeps
<1>5. S!Protocol(r) => SP!Protocol(r)
  BY DEF S!Protocol, SP!Protocol, S!Plan, SP!Plan, S!Commit, SP!Commit, S!Finish, SP!Finish,
         S!At, SP!At, S!Goto, SP!Goto, S!RunAt, SP!RunAt, S!WithEntry, SP!WithEntry
<1>6. /\ S!SkipBatch(r, silver) => SP!SkipBatch(r, silver)
      /\ S!WriteFiles(r, silver) => SP!WriteFiles(r, silver)
  BY DEF S!SkipBatch, SP!SkipBatch, S!WriteFiles, SP!WriteFiles, S!At, SP!At,
         S!Goto, SP!Goto, S!LatestId, SP!LatestId
<1>7. S!Advance(r) => SP!Advance(r)
  BY <1>3, <1>4, <1>5, <1>6, Zenon DEF S!Advance, SP!Advance
<1> QED
  BY <1>1, <1>2, <1>7

LEMMA SameSuccess == S!SuccessMeansClean <=> SP!SuccessMeansClean
BY DEF S!SuccessMeansClean, SP!SuccessMeansClean, S!At, SP!At, S!CleanIn, SP!CleanIn,
       S!Clean, SP!Clean, S!SilverKeeps, SP!SilverKeeps, S!EntrySets, SP!EntrySets

-----------------------------------------------------------------------------
(* The invariant of the whole path                                         *)

\* Bronze is in order; what silver plans is in order, and what its archive
\* inherited from a former checkpoint lies in the past of the present one;
\* and while archive and checkpoint speak of the same batches, silver is as
\* if nothing had ever been removed.
Sound ==
    /\ BronzeInv
    /\ SP!Settled /\ SP!SinkInherits
    /\ whole => SP!Inv

LEMMA InitSound == Init => Sound
<1> SUFFICES ASSUME Init PROVE Sound
  OBVIOUS
<1>1. BronzeInv
  BY BronzeInitInv DEF Init
<1>2. SP!Init
  BY DEF Init, S!Init, SP!Init, S!NoLog, SP!NoLog, S!QueryInit, SP!QueryInit,
         S!NoCheckpoint, SP!NoCheckpoint, S!Idle, SP!Idle, S!RunAt, SP!RunAt
<1>3. SP!Inv
  BY <1>2, SP!InitInv, MedallionAssumption
<1>4. SP!Settled /\ SP!SinkInherits
  BY <1>2, <1>3, SP!InitSettled, MedallionAssumption
<1> QED
  BY <1>1, <1>3, <1>4 DEF Sound

\* A step of bronze: what was there stays, and what is added is new.
LEMMA BronzeGrowth ==
    ASSUME SoleRunner, BronzeInv, SP!BronzeDelivers, [B!Next]_(B!vars)
    PROVE  /\ SP!BronzeDelivers'
           /\ SP!Prolongs(topic, topic') /\ SP!Prolongs(bronze, bronze')
<1>1. PICK b : BronzeRunners = {b}
  BY DEF SoleRunner
<1>2. /\ topic \in Seq(Readings) /\ IsBounded(DOMAIN bronze)
      /\ \A f \in DOMAIN bronze : bronze[f] \subseteq DOMAIN topic
      /\ \A f, g \in DOMAIN bronze : f # g => bronze[f] \cap bronze[g] = {}
  BY DEF SP!BronzeDelivers, SP!Files, IsBounded, SP!IsBounded
<1>3. BronzeInv'
  BY BronzeNextInv
<1>4. topic' \in Seq(Readings) /\ IsBounded(DOMAIN bronze')
  BY <1>3 DEF BronzeInv, BronzeSinkInOrder
<1>5. \A f \in DOMAIN bronze' : bronze'[f] \subseteq DOMAIN topic'
  BY <1>3, <1>4 DEF BronzeInv, BronzeSinkInOrder
<1>6. CASE UNCHANGED bronze
  <2>1. UNCHANGED topic \/ \E m \in Readings : topic' = Append(topic, m)
    BY <1>1 DEF B!Next, B!Produce, B!Ingest, B!Advance, B!Read, B!Publish, B!Die, B!vars
  <2>2. SP!Prolongs(topic, topic')
    BY <1>2, <2>1 DEF SP!Prolongs
  <2> QED
    BY <1>2, <1>4, <1>5, <1>6, <2>2
       DEF SP!Prolongs, SP!BronzeDelivers, SP!Files, IsBounded, SP!IsBounded
<1>7. CASE B!Publish(b)
  <2> DEFINE id == bronzeRun[b].id
             batch == B!Stretch(bronzeRun[b].from, bronzeRun[b].to)
  <2>1. /\ id \notin DOMAIN bronze /\ bronze' = B!WithEntry(bronze, id, batch)
        /\ \A f \in DOMAIN bronze : batch \cap bronze[f] = {}
    BY <1>1, <1>7, BronzePublishEffect
  <2>2. UNCHANGED topic
    BY <1>7 DEF B!Publish
  <2> HIDE DEF id, batch
  <2>3. /\ DOMAIN bronze' = DOMAIN bronze \cup {id} /\ bronze'[id] = batch
        /\ \A f \in DOMAIN bronze : bronze'[f] = bronze[f]
    BY <2>1 DEF B!WithEntry
  <2>4. \A f, g \in DOMAIN bronze' : f # g => bronze'[f] \cap bronze'[g] = {}
    BY <1>2, <2>1, <2>3
  <2> QED
    BY <1>4, <1>5, <2>2, <2>3, <2>4
       DEF SP!Prolongs, SP!BronzeDelivers, SP!Files, IsBounded, SP!IsBounded
<1>8. UNCHANGED bronze \/ B!Publish(b)
  BY <1>1 DEF B!Next, B!Produce, B!Ingest, B!Advance, B!Read, B!Die, B!vars
<1> QED
  BY <1>6, <1>7, <1>8

LEMMA BronzeStepSound ==
    ASSUME SoleRunner, Sound, [B!Next]_(B!vars), UNCHANGED <<silverVars, whole>>
    PROVE  Sound'
<1>1. BronzeInv' /\ SP!BronzeDelivers
  BY BronzeNextInv DEF Sound, SP!Settled
<1>2. /\ SP!BronzeDelivers'
      /\ SP!Prolongs(topic, topic') /\ SP!Prolongs(bronze, bronze')
  BY <1>1, BronzeGrowth DEF Sound
<1>3. UNCHANGED <<listed, silver, silverCp, silverRun>>
  BY DEF silverVars
<1>4. SP!Settled' /\ SP!SinkInherits'
  BY <1>2, <1>3, SP!SettledGrowth, MedallionAssumption DEF Sound
<1>5. whole' => SP!Inv'
  BY <1>2, <1>3, SP!GrowthKeeps, MedallionAssumption DEF Sound
<1> QED
  BY <1>1, <1>4, <1>5 DEF Sound

LEMMA SilverStepSound ==
    ASSUME Sound, NEW r \in SilverRunners, S!Cleanse(r) \/ S!Advance(r) \/ S!Die(r),
           UNCHANGED <<bronzeVars, whole>>
    PROVE  Sound'
<1>1. SP!Cleanse(r) \/ SP!Advance(r) \/ SP!Die(r)
  BY SameSilver
<1>2. SP!Settled' /\ SP!SinkInherits'
  BY <1>1, SP!SettledAdvance, MedallionAssumption DEF Sound
<1>3. whole' => SP!Inv'
  <2>1. SP!Next
    BY <1>1 DEF SP!Next
  <2> QED
    BY <2>1, SP!NextInv, MedallionAssumption DEF Sound
<1>4. UNCHANGED <<topic, bronze, bronzeCp, bronzeRun>>
  BY DEF bronzeVars, S!Cleanse, S!Advance, S!List, S!Publish, S!Die
<1>5. BronzeInv'
  BY <1>4 DEF Sound, BronzeInv, BronzeSinkInOrder, BronzeLogsInOrder, BronzeRunnersInOrder
<1> QED
  BY <1>2, <1>3, <1>5 DEF Sound

\* A removal of the archive or of the checkpoint.
LEMMA RemovalSound ==
    ASSUME Sound, EraseArchive \/ EraseCheckpoint
    PROVE  Sound'
<1>1. /\ S!NoLog = SP!NoLog /\ S!NoCheckpoint = SP!NoCheckpoint
      /\ [r \in SilverRunners |-> S!Idle] = [r \in SilverRunners |-> SP!Idle]
  BY DEF S!NoLog, SP!NoLog, S!NoCheckpoint, SP!NoCheckpoint, S!Idle, SP!Idle,
         S!RunAt, SP!RunAt
<1>2. UNCHANGED <<topic, bronze, bronzeCp, bronzeRun>>
  BY DEF EraseArchive, EraseCheckpoint, bronzeVars
<1>3. BronzeInv'
  BY <1>2 DEF Sound, BronzeInv, BronzeSinkInOrder, BronzeLogsInOrder, BronzeRunnersInOrder
<1>4. silverRun' = [r \in SilverRunners |-> SP!Idle]
  BY <1>1 DEF EraseArchive, EraseCheckpoint, Forget
<1>5. CASE EraseArchive
  <2>1. /\ UNCHANGED <<listed, silverCp>> /\ silver' = SP!NoLog
        /\ whole' = (silverCp = SP!NoCheckpoint)
    BY <1>1, <1>5 DEF EraseArchive
  <2>2. /\ SP!Settled' /\ SP!SinkInherits'
        /\ silverCp = SP!NoCheckpoint => SP!Inv'
    BY <1>2, <1>4, <2>1, SP!SettledArchiveGone, MedallionAssumption DEF Sound
  <2> QED
    BY <1>3, <2>1, <2>2 DEF Sound
<1>6. CASE EraseCheckpoint
  <2>1. /\ UNCHANGED silver /\ silverCp' = SP!NoCheckpoint /\ listed' = <<>>
        /\ whole' = (silver = SP!NoLog)
    BY <1>1, <1>6 DEF EraseCheckpoint
  <2>2. /\ SP!Settled' /\ SP!SinkInherits'
        /\ silver = SP!NoLog => SP!Inv'
    BY <1>2, <1>4, <2>1, SP!SettledCheckpointGone, MedallionAssumption DEF Sound
  <2> QED
    BY <1>3, <2>1, <2>2 DEF Sound
<1> QED
  BY <1>5, <1>6

LEMMA NextSound == ASSUME SoleRunner, Sound, [Next]_vars PROVE Sound'
<1>1. CASE \E m \in Readings : Produce(m)
  BY <1>1, BronzeStepSound DEF Produce, B!Next
<1>2. CASE \E r \in BronzeRunners : BronzeStarts(r) \/ BronzeAdvances(r) \/ BronzeDies(r)
  BY <1>2, BronzeStepSound DEF BronzeStarts, BronzeAdvances, BronzeDies, B!Next
<1>3. CASE \E r \in SilverRunners : SilverStarts(r) \/ SilverAdvances(r) \/ SilverDies(r)
  BY <1>3, SilverStepSound DEF SilverStarts, SilverAdvances, SilverDies
<1>4. CASE EraseArchive \/ EraseCheckpoint
  BY <1>4, RemovalSound
<1>5. CASE UNCHANGED vars
  BY <1>5, BronzeStepSound DEF vars, bronzeVars, B!vars, B!queryVars
<1> QED
  BY <1>1, <1>2, <1>3, <1>4, <1>5 DEF Next

LEMMA SoundAlways == SoleRunner => (Spec => []Sound)
<1>1. SoleRunner /\ Sound /\ [Next]_vars => Sound'
  BY NextSound
<1>2. ASSUME SoleRunner PROVE Spec => []Sound
  <2>1. Sound /\ [Next]_vars => Sound'
    BY <1>1, <1>2
  <2> QED
    BY <2>1, InitSound, PTL DEF Spec
<1> QED
  BY <1>2

-----------------------------------------------------------------------------

\* The cell that says the archive is built anew is right: whatever was
\* removed before and wherever runs died, if archive and checkpoint went
\* together, a silver run that ends well has brought back every clean reading
\* in the bronze files it found.
THEOREM ArchiveComesBack == SoleRunner => (Spec => []ArchiveIsRebuilt)
<1>1. Sound => ArchiveIsRebuilt
  BY SP!InvMeansClean, MedallionAssumption, SameSuccess DEF Sound, ArchiveIsRebuilt
<1> QED
  BY <1>1, SoundAlways, PTL

\* No removal, whole or not, no death and no overlap of silver runs brings a
\* reading into historical_parquet twice.
THEOREM NothingTwice == SoleRunner => (Spec => []DeliveredOnce)
<1>1. Sound => DeliveredOnce
  BY SP!InheritedOnce, MedallionAssumption DEF Sound, DeliveredOnce
<1> QED
  BY <1>1, SoundAlways, PTL

-----------------------------------------------------------------------------
(* The type invariant, of which Sound says the better part                 *)

Counts ==
    /\ bronzeCp.done \subseteq Nat
    /\ bronzeLaunches \in Nat /\ silverLaunches \in Nat /\ erasures \in Nat
    /\ whole \in BOOLEAN

LEMMA InitCounts == Init => Counts
<1> SUFFICES ASSUME Init PROVE Counts
  OBVIOUS
<1>1. bronzeCp.done = {} /\ bronzeLaunches = 0 /\ silverLaunches = 0 /\ erasures = 0
  BY DEF Init, B!Init, S!Init, B!QueryInit, S!QueryInit, B!NoCheckpoint
<1>2. whole \in BOOLEAN
  BY DEF Init
<1> QED
  BY <1>1, <1>2 DEF Counts

\* Commits enter batch ids, and a removal leaves some of them or none.
LEMMA BronzeCounts ==
    ASSUME BronzeInv, bronzeCp.done \subseteq Nat, bronzeLaunches \in Nat,
           NEW r \in BronzeRunners, B!Ingest(r) \/ B!Advance(r) \/ B!Die(r)
    PROVE  bronzeCp'.done \subseteq Nat /\ bronzeLaunches' \in Nat
<1>1. /\ bronzeCp = [ends |-> bronzeCp.ends, done |-> bronzeCp.done]
      /\ bronzeRun[r] \in B!RunType
  BY DEF BronzeInv, BronzeLogsInOrder, BronzeRunnersInOrder
<1>2. CASE B!Ingest(r)
  <2>1. PICK healed \in HealOutcomes :
            \E left \in B!CheckpointsLeft(healed) : B!Launch(r, left)
    BY <1>2 DEF B!Ingest
  <2>2. PICK left \in B!CheckpointsLeft(healed) : B!Launch(r, left)
    BY <2>1
  <2>3. left.done \subseteq bronzeCp.done
    BY RemovalEffect DEF BronzeInv
  <2> QED
    BY <2>2, <2>3 DEF B!Launch
<1>3. CASE B!Commit(r)
  <2>1. bronzeRun[r].id \in Nat
    BY <1>1 DEF B!RunType
  <2>2. bronzeCp' = [bronzeCp EXCEPT !.done = bronzeCp.done \cup {bronzeRun[r].id}]
    BY <1>3 DEF B!Commit
  <2>3. bronzeCp'.done = bronzeCp.done \cup {bronzeRun[r].id} /\ UNCHANGED bronzeLaunches
    BY <1>1, <1>3, <2>2 DEF B!Commit
  <2> QED
    BY <2>1, <2>3
<1>4. CASE B!Plan(r)
  <2>1. bronzeCp'.done = bronzeCp.done /\ UNCHANGED bronzeLaunches
    BY <1>1, <1>4 DEF B!Plan
  <2> QED
    BY <2>1
<1>5. CASE UNCHANGED <<bronzeCp, bronzeLaunches>>
  BY <1>5
<1> QED
  BY <1>2, <1>3, <1>4, <1>5
     DEF B!Advance, B!Read, B!Recover, B!Publish, B!Protocol, B!Finish, B!SkipBatch,
         B!WriteFiles, B!Die, B!Abort

LEMMA NextCounts == ASSUME Sound, Counts, [Next]_vars PROVE Counts'
<1>1. CASE \E m \in Readings : Produce(m)
  BY <1>1 DEF Produce, B!Produce, B!queryVars, silverVars, Counts
<1>2. ASSUME NEW r \in BronzeRunners, BronzeStarts(r) \/ BronzeAdvances(r) \/ BronzeDies(r)
      PROVE  Counts'
  <2>1. /\ UNCHANGED <<silverLaunches, erasures, whole>>
        /\ B!Ingest(r) \/ B!Advance(r) \/ B!Die(r)
    BY <1>2 DEF BronzeStarts, BronzeAdvances, BronzeDies, silverVars
  <2>2. bronzeCp'.done \subseteq Nat /\ bronzeLaunches' \in Nat
    BY <2>1, BronzeCounts DEF Sound, Counts
  <2> QED
    BY <2>1, <2>2 DEF Counts
<1>3. ASSUME NEW r \in SilverRunners, SilverStarts(r) \/ SilverAdvances(r) \/ SilverDies(r)
      PROVE  Counts'
  <2>1. UNCHANGED <<bronzeCp, bronzeLaunches, erasures, whole>>
    BY <1>3 DEF SilverStarts, SilverAdvances, SilverDies, bronzeVars
  <2>2. silverLaunches' \in {silverLaunches, silverLaunches + 1}
    BY <1>3 DEF SilverStarts, SilverAdvances, SilverDies, S!Cleanse, S!Launch, S!Advance,
                S!List, S!Recover, S!Publish, S!Protocol, S!Plan, S!Commit, S!Finish,
                S!SkipBatch, S!WriteFiles, S!Die, S!Abort
  <2> QED
    BY <2>1, <2>2 DEF Counts
<1>4. CASE EraseArchive \/ EraseCheckpoint
  <2>1. /\ UNCHANGED <<bronzeCp, bronzeLaunches, silverLaunches>>
        /\ erasures' \in {erasures, erasures + 1}
    BY <1>4 DEF EraseArchive, EraseCheckpoint, bronzeVars
  <2>2. whole' \in BOOLEAN
    BY <1>4, Zenon DEF EraseArchive, EraseCheckpoint
  <2> QED
    BY <2>1, <2>2 DEF Counts
<1>5. CASE UNCHANGED vars
  BY <1>5 DEF vars, bronzeVars, silverVars, Counts
<1> QED
  BY <1>1, <1>2, <1>3, <1>4, <1>5 DEF Next

\* The types of both layers, kept through deaths, overlaps and removals.  In
\* particular the log of silver's source never names a bronze file twice: it
\* is as long as the files it names are many.
THEOREM PathTypeCorrect == SoleRunner => (Spec => []TypeOK)
<1>1. ASSUME Sound, Counts PROVE TypeOK
  <2>1. B!TypeOK
    <3>1. /\ topic \in Seq(Readings) /\ DOMAIN bronze \subseteq Nat
          /\ \A id \in DOMAIN bronze : bronze[id] \subseteq 1 .. Len(topic)
      BY <1>1 DEF Sound, BronzeInv, BronzeSinkInOrder, IsBounded
    <3>2. /\ DOMAIN bronzeCp.ends \subseteq Nat
          /\ \A id \in DOMAIN bronzeCp.ends : bronzeCp.ends[id] \in Nat
          /\ bronzeRun \in [BronzeRunners -> B!RunType]
      BY <1>1
         DEF Sound, BronzeInv, BronzeLogsInOrder, Covers, IsBounded, BronzeRunnersInOrder
    <3> QED
      BY <1>1, <3>1, <3>2 DEF B!TypeOK, B!QueryTypeOK, Counts
  <2>2. S!TypeOK
    <3>1. /\ topic \in Seq(Readings) /\ listed \in Seq(DOMAIN bronze)
          /\ \A f \in DOMAIN bronze : f \in Nat /\ bronze[f] \subseteq DOMAIN topic
      BY <1>1
         DEF Sound, SP!Settled, SP!BronzeDelivers, SP!ListedOnce, SP!Files, SP!IsBounded
    <3>2. Cardinality(S!Found) = Len(listed)
      <4>1. Cardinality(SP!Found) = Len(listed)
        BY <1>1, SP!FoundCount, MedallionAssumption
           DEF Sound, SP!Settled, SP!Cardinality, Cardinality
      <4> QED
        BY <4>1 DEF S!Found, SP!Found
    <3>3. \A id \in DOMAIN silver : id \in Nat /\ silver[id] \subseteq DOMAIN topic
      BY <1>1, SP!InheritedOnce, MedallionAssumption DEF Sound
    <3>4. /\ DOMAIN silverCp.ends \subseteq Nat
          /\ \A id \in DOMAIN silverCp.ends : silverCp.ends[id] \in Nat
          /\ silverCp.done \subseteq DOMAIN silverCp.ends
          /\ silverRun \in [SilverRunners -> S!RunType]
      BY <1>1
         DEF Sound, SP!Settled, SP!Planned, SP!Rising, SP!IsBounded, SP!RunType, S!RunType
    <3> QED
      BY <1>1, <3>1, <3>2, <3>3, <3>4
         DEF S!TypeOK, S!Files, S!QueryTypeOK, S!Cardinality, Cardinality, Counts
  <2> QED
    BY <1>1, <2>1, <2>2 DEF TypeOK, Counts
<1>2. SoleRunner /\ Sound /\ Counts /\ [Next]_vars => Sound' /\ Counts'
  BY NextSound, NextCounts
<1>3. ASSUME SoleRunner PROVE Spec => []TypeOK
  <2>1. Sound /\ Counts /\ [Next]_vars => Sound' /\ Counts'
    BY <1>2, <1>3
  <2>2. Sound /\ Counts => TypeOK
    BY <1>1
  <2> QED
    BY <2>1, <2>2, InitSound, InitCounts, PTL DEF Spec
<1> QED
  BY <1>3

-----------------------------------------------------------------------------
(* Silver in its place                                                     *)
(*                                                                         *)
(* SilverClean takes bronze for an environment that publishes one batch    *)
(* after the other, each of readings not yet delivered, and no more than   *)
(* MaxFiles of them.  Here it is shown that the bronze notebook is such an *)
(* environment: its batch ids leave no gap, although runs start over with  *)
(* batch 0 or with a torn log, and no launch plans two batches.            *)

\* All batches before id are in the sink; so is id or a later one.
Follows(id, log) == id = 0 \/ \E b \in DOMAIN log : id <= b + 1
Overtaken(id, log) == \E b \in DOMAIN log : id <= b

\* No batch is planned before the one before it is in the sink, nor entered
\* in the commit log before it is there itself.
LogsPaced(ends, done, log) ==
    /\ \A id \in DOMAIN ends : Follows(id, log)
    /\ \A id \in done : id \in Nat /\ Overtaken(id, log)

\* A run that may yet plan a batch.
Unspent(x) ==
    \/ x.pc = "start"
    \/ x.pc = "plan" /\ x.from < x.upto
    \/ x.pc \in {"sink", "publish", "commit"} /\ x.to < x.upto

\* There have been more launches than there are batch ids, and one more still
\* while a run may yet plan a batch.
RunnerPaced(x, ends, log, launches) ==
    /\ x.pc = "plan" => Follows(x.id, log)
    /\ x.pc = "commit" => Overtaken(x.id, log)
    /\ Unspent(x) => 0 < launches
    /\ \A id \in DOMAIN ends \cup DOMAIN log :
          id < launches /\ (Unspent(x) => id + 1 < launches)

Paced ==
    /\ LogsPaced(bronzeCp.ends, bronzeCp.done, bronze)
    /\ bronzeLaunches \in Nat /\ bronzeLaunches <= MaxBronzeLaunches
    /\ \A r \in BronzeRunners :
          RunnerPaced(bronzeRun[r], bronzeCp.ends, bronze, bronzeLaunches)

LEMMA OnePacedStep ==
    ASSUME NEW r, BronzeRunners = {r}, BronzeRunnersInOrder,
           NEW x, bronzeRun' = [bronzeRun EXCEPT ![r] = x],
           RunnerPaced(x, bronzeCp'.ends, bronze', bronzeLaunches'),
           LogsPaced(bronzeCp'.ends, bronzeCp'.done, bronze'),
           bronzeLaunches' \in Nat, bronzeLaunches' <= MaxBronzeLaunches
    PROVE  Paced'
<1>1. \A q \in BronzeRunners : bronzeRun'[q] = x
  BY DEF BronzeRunnersInOrder
<1> QED
  BY <1>1 DEF Paced

LEMMA PacedInit == B!Init => Paced
<1> SUFFICES ASSUME B!Init PROVE Paced
  OBVIOUS
<1>1. /\ DOMAIN bronze = {} /\ DOMAIN bronzeCp.ends = {} /\ bronzeCp.done = {}
      /\ bronzeRun = [r \in BronzeRunners |-> B!Idle] /\ bronzeLaunches = 0
  BY DEF B!Init, B!QueryInit, B!NoLog, B!NoCheckpoint
<1>2. B!Idle.pc = "off"
  BY DEF B!Idle, B!RunAt
<1>3. MaxBronzeLaunches \in Nat
  BY MedallionAssumption
<1> QED
  BY <1>1, <1>2, <1>3 DEF Paced, LogsPaced, RunnerPaced, Unspent

\* A launch starts with what is left of the logs, and may plan a batch.
LEMMA PacedIngest ==
    ASSUME BronzeInv, Paced, NEW r, BronzeRunners = {r}, B!Ingest(r) PROVE Paced'
<1> DEFINE x == B!RunAt("start", 0, 0, 0, 0)
<1>1. /\ UNCHANGED bronze /\ bronzeRun' = [bronzeRun EXCEPT ![r] = x]
      /\ bronzeLaunches < MaxBronzeLaunches /\ bronzeLaunches' = bronzeLaunches + 1
  BY DEF B!Ingest, B!Launch
<1>2. PICK healed \in HealOutcomes : \E left \in B!CheckpointsLeft(healed) : bronzeCp' = left
  BY DEF B!Ingest, B!Launch
<1>3. /\ DOMAIN bronzeCp'.ends \subseteq DOMAIN bronzeCp.ends
      /\ bronzeCp'.done \subseteq bronzeCp.done
  BY <1>2, RemovalEffect DEF BronzeInv
<1>4. LogsPaced(bronzeCp'.ends, bronzeCp'.done, bronze')
  BY <1>1, <1>3 DEF Paced, LogsPaced
<1>5. bronzeLaunches \in Nat /\ MaxBronzeLaunches \in Nat
  BY MedallionAssumption DEF Paced
<1>6. \A id \in DOMAIN bronzeCp.ends \cup DOMAIN bronze : id \in Nat /\ id < bronzeLaunches
  BY DEF Paced, RunnerPaced, BronzeInv, BronzeSinkInOrder, BronzeLogsInOrder, Covers, IsBounded
<1>7. x.pc = "start"
  BY DEF B!RunAt
<1> HIDE DEF x
<1>8. \A id \in DOMAIN bronzeCp'.ends \cup DOMAIN bronze' :
         id < bronzeLaunches' /\ id + 1 < bronzeLaunches'
  BY <1>1, <1>3, <1>5, <1>6
<1>9. RunnerPaced(x, bronzeCp'.ends, bronze', bronzeLaunches')
  BY <1>1, <1>5, <1>7, <1>8 DEF RunnerPaced
<1>10. bronzeLaunches' \in Nat /\ bronzeLaunches' <= MaxBronzeLaunches
  BY <1>1, <1>5
<1> QED
  BY <1>1, <1>4, <1>9, <1>10, OnePacedStep DEF BronzeInv

\* What the query goes on with follows the sink: either the last batch is
\* done, hence in the sink, or it is taken up again.
LEMMA PacedRead ==
    ASSUME BronzeInv, Paced, NEW r, BronzeRunners = {r}, B!Read(r) PROVE Paced'
<1> DEFINE last == B!LatestId(DOMAIN bronzeCp.ends)
<1>1. /\ UNCHANGED <<bronze, bronzeCp, bronzeLaunches>>
      /\ bronzeRun[r].pc = "start"
      /\ \E upto, from, to : 
           \/ bronzeRun' = [bronzeRun EXCEPT ![r] = B!RunAt("sink", upto, last, from, to)]
           \/ /\ last = B!LatestId(bronzeCp.done) \/ last = -1
              /\ bronzeRun' = [bronzeRun EXCEPT ![r] = B!RunAt("plan", upto, last + 1, from, to)]
  BY DEF B!Read, B!Recover, B!LastPlanned, B!Resumes, B!At
<1>2. PICK upto, from, to : 
           \/ bronzeRun' = [bronzeRun EXCEPT ![r] = B!RunAt("sink", upto, last, from, to)]
           \/ /\ last = B!LatestId(bronzeCp.done) \/ last = -1
              /\ bronzeRun' = [bronzeRun EXCEPT ![r] = B!RunAt("plan", upto, last + 1, from, to)]
  BY <1>1
<1>3. /\ RunnerPaced(bronzeRun[r], bronzeCp.ends, bronze, bronzeLaunches)
      /\ LogsPaced(bronzeCp.ends, bronzeCp.done, bronze)
      /\ bronzeLaunches \in Nat /\ bronzeLaunches <= MaxBronzeLaunches
  BY DEF Paced
<1>4. ASSUME NEW x, bronzeRun' = [bronzeRun EXCEPT ![r] = x],
             x.pc = "sink" \/ (x.pc = "plan" /\ Follows(x.id, bronze))
      PROVE  Paced'
  <2>1. Unspent(bronzeRun[r]) /\ x.pc # "commit"
    BY <1>1, <1>4 DEF Unspent
  <2>2. RunnerPaced(x, bronzeCp.ends, bronze, bronzeLaunches)
    BY <1>3, <1>4, <2>1 DEF RunnerPaced
  <2> QED
    BY <1>1, <1>3, <1>4, <2>2, OnePacedStep DEF BronzeInv
<1>5. CASE bronzeRun' = [bronzeRun EXCEPT ![r] = B!RunAt("sink", upto, last, from, to)]
  <2>1. B!RunAt("sink", upto, last, from, to).pc = "sink"
    BY DEF B!RunAt
  <2> QED
    BY <1>4, <1>5, <2>1
<1>6. CASE /\ last = B!LatestId(bronzeCp.done) \/ last = -1
           /\ bronzeRun' = [bronzeRun EXCEPT ![r] = B!RunAt("plan", upto, last + 1, from, to)]
  <2>1. last \in DOMAIN bronzeCp.ends \cup {-1} /\ last \in Nat \cup {-1}
    BY LatestIdExists DEF BronzeInv, BronzeLogsInOrder, Covers
  <2>2. Follows(last + 1, bronze)
    <3>1. CASE last = -1
      BY <3>1 DEF Follows
    <3>2. CASE last # -1
      <4>1. IsBounded(bronzeCp.done)
        <5>1. PICK top \in Nat : \A b \in DOMAIN bronze : b <= top /\ b \in Nat
          BY DEF BronzeInv, BronzeSinkInOrder, IsBounded
        <5>2. \A id \in bronzeCp.done : id \in Nat /\ id <= top
          BY <1>3, <5>1 DEF LogsPaced, Overtaken
        <5> QED
          BY <5>1, <5>2 DEF IsBounded
      <4>2. last = B!LatestId(bronzeCp.done)
        BY <1>6, <3>2
      <4> HIDE DEF last
      <4>3. last \in bronzeCp.done
        BY <3>2, <4>1, <4>2, LatestIdExists
      <4>4. PICK b \in DOMAIN bronze : last <= b
        BY <1>3, <4>3 DEF LogsPaced, Overtaken
      <4>5. b \in Nat
        BY DEF BronzeInv, BronzeSinkInOrder, IsBounded
      <4>6. last + 1 <= b + 1
        BY <2>1, <4>4, <4>5
      <4> QED
        BY <4>6 DEF Follows
    <3> QED
      BY <3>1, <3>2
  <2>3. /\ B!RunAt("plan", upto, last + 1, from, to).pc = "plan"
        /\ B!RunAt("plan", upto, last + 1, from, to).id = last + 1
    BY DEF B!RunAt
  <2> QED
    BY <1>4, <1>6, <2>2, <2>3
<1> QED
  BY <1>2, <1>5, <1>6

\* A plan spends the launch.
LEMMA PacedPlan ==
    ASSUME BronzeInv, Paced, NEW r, BronzeRunners = {r}, B!Plan(r), UNCHANGED <<topic, bronze>>
    PROVE  Paced'
<1> DEFINE id == bronzeRun[r].id
           upto == bronzeRun[r].upto
           more == B!WithEntry(bronzeCp.ends, id, upto)
           x == B!RunAt("sink", upto, id, bronzeRun[r].from, upto)
<1>1. /\ bronzeRun[r].pc = "plan" /\ bronzeRun[r].from < upto
      /\ bronzeRun' = [bronzeRun EXCEPT ![r] = x]
      /\ UNCHANGED bronzeLaunches
  BY DEF B!Plan, B!At, BronzeInv, BronzeRunnersInOrder
<1>2. bronzeCp'.ends = more /\ bronzeCp'.done = bronzeCp.done
  <2>1. bronzeCp = [ends |-> bronzeCp.ends, done |-> bronzeCp.done]
    BY DEF BronzeInv, BronzeLogsInOrder
  <2>2. bronzeCp' = [bronzeCp EXCEPT
           !.ends = B!WithEntry(bronzeCp.ends, bronzeRun[r].id, bronzeRun[r].upto)]
    BY DEF B!Plan
  <2> QED
    BY <2>1, <2>2
<1>3. /\ RunnerPaced(bronzeRun[r], bronzeCp.ends, bronze, bronzeLaunches)
      /\ LogsPaced(bronzeCp.ends, bronzeCp.done, bronze)
      /\ bronzeLaunches \in Nat /\ bronzeLaunches <= MaxBronzeLaunches
  BY DEF Paced
<1>4. /\ id \in Nat /\ upto \in Nat
      /\ \A b \in DOMAIN bronze : b \in Nat
  BY DEF BronzeInv, BronzeRunnersInOrder, B!RunType, BronzeSinkInOrder, IsBounded
<1>5. Follows(id, bronze) /\ Unspent(bronzeRun[r])
  BY <1>1, <1>3 DEF RunnerPaced, Unspent
<1>6. x.pc = "sink" /\ x.upto = upto /\ x.to = upto
  BY DEF B!RunAt
<1>7. DOMAIN more = DOMAIN bronzeCp.ends \cup {id}
  BY DEF B!WithEntry
<1> HIDE DEF x, id, upto, more
<1>8. ~Unspent(x)
  BY <1>4, <1>6 DEF Unspent
<1>9. id < bronzeLaunches
  BY <1>3, <1>4, <1>5 DEF RunnerPaced, Follows
<1>10. RunnerPaced(x, more, bronze, bronzeLaunches)
  BY <1>3, <1>6, <1>7, <1>8, <1>9 DEF RunnerPaced
<1>11. LogsPaced(more, bronzeCp.done, bronze)
  BY <1>3, <1>5, <1>7 DEF LogsPaced
<1> QED
  BY <1>1, <1>2, <1>3, <1>10, <1>11, OnePacedStep DEF BronzeInv

LEMMA PacedCommit ==
    ASSUME BronzeInv, Paced, NEW r, BronzeRunners = {r}, B!Commit(r), UNCHANGED <<topic, bronze>>
    PROVE  Paced'
<1> DEFINE id == bronzeRun[r].id
           x == B!RunAt("plan", bronzeRun[r].upto, id + 1, bronzeRun[r].to, bronzeRun[r].to)
<1>1. /\ bronzeRun[r].pc = "commit" /\ bronzeRun' = [bronzeRun EXCEPT ![r] = x]
      /\ UNCHANGED bronzeLaunches
  BY DEF B!Commit, B!At, BronzeInv, BronzeRunnersInOrder
<1>2. bronzeCp'.ends = bronzeCp.ends /\ bronzeCp'.done = bronzeCp.done \cup {id}
  <2>1. bronzeCp = [ends |-> bronzeCp.ends, done |-> bronzeCp.done]
    BY DEF BronzeInv, BronzeLogsInOrder
  <2>2. bronzeCp' = [bronzeCp EXCEPT !.done = bronzeCp.done \cup {bronzeRun[r].id}]
    BY DEF B!Commit
  <2> QED
    BY <2>1, <2>2
<1>3. /\ RunnerPaced(bronzeRun[r], bronzeCp.ends, bronze, bronzeLaunches)
      /\ LogsPaced(bronzeCp.ends, bronzeCp.done, bronze)
      /\ bronzeLaunches \in Nat /\ bronzeLaunches <= MaxBronzeLaunches
  BY DEF Paced
<1>4. /\ id \in Nat /\ bronzeRun[r].upto \in Nat /\ bronzeRun[r].to \in Nat
      /\ \A b \in DOMAIN bronze : b \in Nat
  BY DEF BronzeInv, BronzeRunnersInOrder, B!RunType, BronzeSinkInOrder, IsBounded
<1>5. Overtaken(id, bronze)
  BY <1>1, <1>3 DEF RunnerPaced
<1>6. x.pc = "plan" /\ x.id = id + 1 /\ x.from = bronzeRun[r].to /\ x.upto = bronzeRun[r].upto
  BY DEF B!RunAt
<1> HIDE DEF x, id
<1>7. Follows(id + 1, bronze)
  BY <1>4, <1>5 DEF Follows, Overtaken
<1>8. Unspent(x) => Unspent(bronzeRun[r])
  BY <1>1, <1>6 DEF Unspent
<1>9. RunnerPaced(x, bronzeCp.ends, bronze, bronzeLaunches)
  BY <1>3, <1>6, <1>7, <1>8 DEF RunnerPaced
<1>10. LogsPaced(bronzeCp.ends, bronzeCp.done \cup {id}, bronze)
  BY <1>3, <1>4, <1>5 DEF LogsPaced
<1> QED
  BY <1>1, <1>2, <1>3, <1>9, <1>10, OnePacedStep DEF BronzeInv

LEMMA PacedMove ==
    ASSUME BronzeInv, Paced, NEW r, BronzeRunners = {r},
           UNCHANGED <<bronze, bronzeCp, bronzeLaunches>>,
           NEW pc \in {"off", "publish", "commit", "done"}, B!Goto(r, pc),
           pc = "publish" => bronzeRun[r].pc = "sink",
           pc = "commit" => bronzeRun[r].pc = "sink" /\ Overtaken(bronzeRun[r].id, bronze)
    PROVE  Paced'
<1> DEFINE x == [bronzeRun[r] EXCEPT !.pc = pc]
<1>1. bronzeRun[r] \in B!RunType
  BY DEF BronzeInv, BronzeRunnersInOrder
<1>2. x.pc = pc /\ x.upto = bronzeRun[r].upto /\ x.id = bronzeRun[r].id /\ x.to = bronzeRun[r].to
  BY <1>1 DEF B!RunType
<1>3. bronzeRun' = [bronzeRun EXCEPT ![r] = x]
  BY DEF B!Goto, BronzeInv, BronzeRunnersInOrder
<1>4. /\ RunnerPaced(bronzeRun[r], bronzeCp.ends, bronze, bronzeLaunches)
      /\ LogsPaced(bronzeCp.ends, bronzeCp.done, bronze)
      /\ bronzeLaunches \in Nat /\ bronzeLaunches <= MaxBronzeLaunches
  BY DEF Paced
<1> HIDE DEF x
<1>5. Unspent(x) => Unspent(bronzeRun[r])
  BY <1>2 DEF Unspent
<1>6. RunnerPaced(x, bronzeCp.ends, bronze, bronzeLaunches)
  BY <1>2, <1>4, <1>5 DEF RunnerPaced
<1> QED
  BY <1>3, <1>4, <1>6, OnePacedStep DEF BronzeInv

\* What is published was planned before.
LEMMA PacedPublish ==
    ASSUME BronzeInv, Paced, NEW r, BronzeRunners = {r}, B!Publish(r) PROVE Paced'
<1> DEFINE id == bronzeRun[r].id
           x == [bronzeRun[r] EXCEPT !.pc = "commit"]
<1>1. /\ bronzeRun[r].pc = "publish" /\ DOMAIN bronze' = DOMAIN bronze \cup {id}
      /\ UNCHANGED <<bronzeCp, bronzeLaunches>>
      /\ bronzeRun' = [bronzeRun EXCEPT ![r] = x]
  BY DEF B!Publish, B!MayPublish, B!At, B!Goto, B!WithEntry, BronzeInv, BronzeRunnersInOrder
<1>2. /\ bronzeRun[r] \in B!RunType
      /\ BronzeInOrder(bronzeRun[r], bronzeCp.ends, bronze, Len(topic))
  BY DEF BronzeInv, BronzeRunnersInOrder
<1>3. id \in DOMAIN bronzeCp.ends /\ id \in Nat
  BY <1>1, <1>2 DEF BronzeInOrder, B!RunType
<1>4. x.pc = "commit" /\ x.upto = bronzeRun[r].upto /\ x.id = id /\ x.to = bronzeRun[r].to
  BY <1>2 DEF B!RunType
<1>5. /\ RunnerPaced(bronzeRun[r], bronzeCp.ends, bronze, bronzeLaunches)
      /\ LogsPaced(bronzeCp.ends, bronzeCp.done, bronze)
      /\ bronzeLaunches \in Nat /\ bronzeLaunches <= MaxBronzeLaunches
  BY DEF Paced
<1> HIDE DEF x, id
<1>6. Unspent(x) => Unspent(bronzeRun[r])
  BY <1>1, <1>4 DEF Unspent
<1>7. Overtaken(id, bronze')
  BY <1>1, <1>3 DEF Overtaken
<1>8. DOMAIN bronzeCp.ends \cup DOMAIN bronze' = DOMAIN bronzeCp.ends \cup DOMAIN bronze
  BY <1>1, <1>3
<1>9. RunnerPaced(x, bronzeCp.ends, bronze', bronzeLaunches)
  BY <1>4, <1>5, <1>6, <1>7, <1>8 DEF RunnerPaced
<1>10. LogsPaced(bronzeCp.ends, bronzeCp.done, bronze')
  BY <1>1, <1>5 DEF LogsPaced, Follows, Overtaken
<1> QED
  BY <1>1, <1>5, <1>9, <1>10, OnePacedStep DEF BronzeInv

LEMMA PacedNext ==
    ASSUME SoleRunner, BronzeInv, Paced, [B!Next]_(B!vars)
    PROVE  Paced'
<1>1. PICK r : BronzeRunners = {r}
  BY DEF SoleRunner
<1>2. ASSUME UNCHANGED <<bronze, bronzeCp, bronzeRun, bronzeLaunches>> PROVE Paced'
  BY <1>2 DEF Paced
<1>3. CASE UNCHANGED B!vars \/ \E m \in Readings : B!Produce(m)
  BY <1>2, <1>3 DEF B!vars, B!queryVars, B!Produce
<1>4. CASE B!Ingest(r)
  BY <1>1, <1>4, PacedIngest
<1>5. CASE B!Advance(r)
  <2>1. CASE B!Read(r)
    BY <1>1, <2>1, PacedRead
  <2>2. CASE B!Publish(r)
    BY <1>1, <2>2, PacedPublish
  <2>3. CASE B!Plan(r) /\ UNCHANGED <<topic, bronze>>
    BY <1>1, <2>3, PacedPlan
  <2>4. CASE B!Commit(r) /\ UNCHANGED <<topic, bronze>>
    BY <1>1, <2>4, PacedCommit
  <2>5. CASE B!Finish(r) /\ UNCHANGED <<topic, bronze>>
    BY <1>1, <2>5, PacedMove DEF B!Finish
  <2>6. CASE B!SkipBatch(r, bronze) /\ UNCHANGED <<topic, bronze>>
    <3> DEFINE latest == B!LatestId(DOMAIN bronze)
    <3>1. /\ bronzeRun[r].pc = "sink" /\ bronzeRun[r].id <= latest /\ B!Goto(r, "commit")
          /\ UNCHANGED <<bronze, bronzeCp, bronzeLaunches>>
      BY <2>6 DEF B!SkipBatch, B!At
    <3>2. latest \in DOMAIN bronze \cup {-1}
      BY LatestIdExists DEF BronzeInv, BronzeSinkInOrder
    <3>3. bronzeRun[r].id \in Nat
      BY <1>1 DEF BronzeInv, BronzeRunnersInOrder, B!RunType
    <3> HIDE DEF latest
    <3>4. Overtaken(bronzeRun[r].id, bronze)
      BY <3>1, <3>2, <3>3 DEF Overtaken
    <3> QED
      BY <1>1, <3>1, <3>4, PacedMove
  <2>7. CASE B!WriteFiles(r, bronze) /\ UNCHANGED <<topic, bronze>>
    BY <1>1, <2>7, PacedMove DEF B!WriteFiles, B!At
  <2> QED
    BY <1>5, <2>1, <2>2, <2>3, <2>4, <2>5, <2>6, <2>7 DEF B!Advance, B!Protocol
<1>6. CASE B!Die(r)
  BY <1>1, <1>6, PacedMove DEF B!Die, B!Abort
<1> QED
  BY <1>1, <1>3, <1>4, <1>5, <1>6 DEF B!Next

\* A publication is one that silver may expect: the next batch, and not one
\* too many.
LEMMA PublishesNext ==
    ASSUME BronzeInv, Paced, NEW r, BronzeRunners = {r}, B!Publish(r), UNCHANGED silverVars
    PROVE  SP!PublishBronze
<1> DEFINE id == bronzeRun[r].id
           batch == B!Stretch(bronzeRun[r].from, bronzeRun[r].to)
<1>1. /\ id \notin DOMAIN bronze /\ bronze' = B!WithEntry(bronze, id, batch)
      /\ batch \subseteq 1 .. Len(topic)
      /\ \A b \in DOMAIN bronze : batch \cap bronze[b] = {}
  BY BronzePublishEffect
<1>2. bronzeRun[r].pc = "publish" /\ UNCHANGED topic
  BY DEF B!Publish, B!MayPublish, B!At
<1>3. /\ id \in Nat /\ id \in DOMAIN bronzeCp.ends
      /\ \A b \in DOMAIN bronze : b < id /\ b \in Nat
  BY <1>2 DEF BronzeInv, BronzeRunnersInOrder, BronzeInOrder, B!RunType,
              BronzeSinkInOrder, IsBounded
<1>4. /\ Follows(id, bronze) /\ id < bronzeLaunches
      /\ bronzeLaunches \in Nat /\ bronzeLaunches <= MaxBronzeLaunches
  BY <1>3 DEF Paced, LogsPaced, RunnerPaced
<1>5. MaxBronzeLaunches \in Nat
  BY MedallionAssumption
<1> HIDE DEF id, batch
<1>6. SP!LatestId(SP!Files) = id - 1
  <2>1. /\ id - 1 \in DOMAIN bronze \cup {-1}
        /\ \A b \in DOMAIN bronze : b <= id - 1
    BY <1>3, <1>4 DEF Follows
  <2>2. ASSUME NEW m \in DOMAIN bronze \cup {-1}, \A b \in DOMAIN bronze : b <= m
        PROVE  m = id - 1
    <3>1. CASE id = 0
      BY <1>3, <2>2, <3>1
    <3>2. CASE id # 0
      <4>1. id - 1 \in DOMAIN bronze
        BY <1>3, <2>1, <3>2
      <4>2. id - 1 <= m /\ m <= id - 1
        BY <1>3, <2>1, <2>2, <4>1
      <4> QED
        BY <1>3, <2>2, <4>2
    <3> QED
      BY <3>1, <3>2
  <2> QED
    BY <2>1, <2>2 DEF SP!LatestId, SP!Files
<1>7. Cardinality(SP!Files) < MaxBronzeLaunches
  <2>1. SP!Files \subseteq 0 .. (id - 1)
    BY <1>3 DEF SP!Files
  <2>2. IsFiniteSet(0 .. (id - 1)) /\ Cardinality(0 .. (id - 1)) = id
    BY <1>3, FS_Interval
  <2>3. /\ IsFiniteSet(SP!Files) /\ Cardinality(SP!Files) \in Nat
        /\ Cardinality(SP!Files) <= Cardinality(0 .. (id - 1))
    BY <2>1, <2>2, FS_Subset, FS_CardinalityType
  <2> QED
    BY <1>3, <1>4, <1>5, <2>2, <2>3
<1>8. DOMAIN topic = 1 .. Len(topic)
  BY DEF BronzeInv, BronzeSinkInOrder
<1>9. SP!Bronze!DeliverAs(id)
  <2>1. batch \in SUBSET (DOMAIN topic \ SP!Bronze!Delivered(bronze))
    BY <1>1, <1>8 DEF SP!Bronze!Delivered
  <2>2. bronze' = [i \in DOMAIN bronze \cup {id} |-> IF i = id THEN batch ELSE bronze[i]]
    BY <1>1 DEF B!WithEntry
  <2> QED
    BY <1>2, <2>1, <2>2 DEF SP!Bronze!DeliverAs
<1>10. SP!LatestId(SP!Files) + 1 = id
  BY <1>3, <1>6
<1>11. UNCHANGED <<topic, SP!silverVars>>
  BY <1>2 DEF silverVars, SP!silverVars, SP!queryVars
<1>12. SP!Cardinality(SP!Files) = Cardinality(SP!Files)
  BY DEF SP!Cardinality, Cardinality
<1> QED
  BY <1>7, <1>9, <1>10, <1>11, <1>12 DEF SP!PublishBronze

\* A step of the path is a step of silver in its environment, unless it is
\* that of a person.
LEMMA SilverSeesItsEnvironment ==
    ASSUME SoleRunner, BronzeInv, Paced, [Next]_vars, erasures = 0, erasures' = 0
    PROVE  [SP!Next]_(SP!vars)
<1>1. PICK r : BronzeRunners = {r}
  BY DEF SoleRunner
<1>2. CASE \E m \in Readings : Produce(m)
  <2>1. PICK m \in Readings : Produce(m)
    BY <1>2
  <2>2. SP!Produce(m)
    BY <2>1 DEF Produce, B!Produce, SP!Produce, silverVars, SP!silverVars, SP!queryVars
  <2> QED
    BY <2>2 DEF SP!Next
<1>3. CASE BronzeStarts(r) \/ BronzeAdvances(r) \/ BronzeDies(r)
  <2>1. UNCHANGED silverVars
    BY <1>3 DEF BronzeStarts, BronzeAdvances, BronzeDies
  <2>2. CASE B!Publish(r)
    BY <1>1, <2>1, <2>2, PublishesNext DEF SP!Next
  <2>3. CASE UNCHANGED <<topic, bronze>>
    BY <2>1, <2>3 DEF silverVars, SP!vars, SP!silverVars, SP!queryVars
  <2>4. B!Publish(r) \/ UNCHANGED <<topic, bronze>>
    BY <1>3 DEF BronzeStarts, BronzeAdvances, BronzeDies, B!Ingest, B!Advance, B!Read, B!Die
  <2> QED
    BY <2>2, <2>3, <2>4
<1>4. ASSUME NEW q \in SilverRunners, SilverStarts(q) \/ SilverAdvances(q) \/ SilverDies(q)
      PROVE  SP!Next
  BY <1>4, SameSilver DEF SilverStarts, SilverAdvances, SilverDies, SP!Next
<1>5. CASE EraseArchive \/ EraseCheckpoint
  BY <1>5 DEF EraseArchive, EraseCheckpoint
<1>6. CASE UNCHANGED vars
  BY <1>6 DEF vars, bronzeVars, silverVars, SP!vars, SP!silverVars, SP!queryVars
<1> QED
  BY <1>1, <1>2, <1>3, <1>4, <1>5, <1>6 DEF Next

LEMMA BronzePaced == SoleRunner => (Spec => [](BronzeInv /\ Paced))
<1>1. SoleRunner /\ BronzeInv /\ Paced /\ [B!Next]_(B!vars) => BronzeInv' /\ Paced'
  BY BronzeNextInv, PacedNext
<1>2. ASSUME SoleRunner PROVE Spec => [](BronzeInv /\ Paced)
  <2>1. BronzeInv /\ Paced /\ [B!Next]_(B!vars) => BronzeInv' /\ Paced'
    BY <1>1, <1>2
  <2> QED
    BY <2>1, SpecOfBronze, BronzeInitInv, PacedInit, PTL DEF B!Spec
<1> QED
  BY <1>2

\* The assumption under which silver was modelled, checked and proved by
\* itself is met where it runs: as long as nothing is removed by hand, and no
\* two runs of the bronze notebook overlap, the path is SilverClean, bronze's
\* publications being those of its environment.
THEOREM SilverAsModelled == SoleRunner => (Spec /\ [](erasures = 0) => SP!Spec)
<1>1. Init => SP!Init
  BY DEF Init, S!Init, SP!Init, S!NoLog, SP!NoLog, S!QueryInit, SP!QueryInit,
         S!NoCheckpoint, SP!NoCheckpoint, S!Idle, SP!Idle, S!RunAt, SP!RunAt
<1>2. SoleRunner /\ BronzeInv /\ Paced /\ [Next]_vars /\ erasures = 0 /\ erasures' = 0
        => [SP!Next]_(SP!vars)
  BY SilverSeesItsEnvironment
<1>3. ASSUME SoleRunner PROVE Spec /\ [](erasures = 0) => SP!Spec
  <2>1. BronzeInv /\ Paced /\ [Next]_vars /\ erasures = 0 /\ (erasures = 0)'
          => [SP!Next]_(SP!vars)
    BY <1>2, <1>3
  <2>2. Spec => [](BronzeInv /\ Paced)
    BY <1>3, BronzePaced
  <2> QED
    BY <1>1, <2>1, <2>2, PTL DEF Spec, SP!Spec
<1> QED
  BY <1>3

\* From the topic to the archive: until something is removed by hand,
\* historical_parquet is an append-only feed of the clean readings in bronze,
\* which is one of the topic.
THEOREM PathImplementsFeeds ==
    SoleRunner => (Spec /\ [](erasures = 0) => BronzeIsFeed /\ SP!SilverIsFeed)
<1>1. SP!Spec => SP!SilverIsFeed
  BY SP!SilverImplementsFeed, MedallionAssumption
<1> QED
  BY <1>1, SilverAsModelled, BronzeImplementsFeed

-----------------------------------------------------------------------------
(* Runs get through                                                        *)
(*                                                                         *)
(* RunsEnd is a liveness property, which TLC checks.  What it rests on is  *)
(* proved: a run takes at most nine steps, and one that was not overtaken  *)
(* never comes to a place where no step is left but to abort.              *)

\* How many steps a run has at most before it: twice from the sink to the
\* commit when a batch is taken up again and there is more.
StepsLeft(x) ==
    CASE x.pc = "start"   -> 9
      [] x.pc = "sink"    -> IF x.to < x.upto THEN 8 ELSE 4
      [] x.pc = "publish" -> IF x.to < x.upto THEN 7 ELSE 3
      [] x.pc = "commit"  -> IF x.to < x.upto THEN 6 ELSE 2
      [] x.pc = "plan"    -> IF x.from < x.upto THEN 5 ELSE 1
      [] OTHER -> 0

\* Logs with which a query can start: of the last batches at least two are
\* there, and none is done of which there is no trace.
Usable(ends, done) ==
    /\ \A last \in DOMAIN ends :
          (\A id \in DOMAIN ends : id <= last) => last = 0 \/ last - 1 \in DOMAIN ends
    /\ \A d \in done : \E id \in DOMAIN ends : d <= id

\* The logs are as the runner left or found them.
Undisturbed(x, ends, done, log) ==
    /\ x.pc = "start" => Usable(ends, done)
    /\ x.pc = "plan" => \A id \in DOMAIN ends \cup done : id < x.id
    /\ x.pc \in {"sink", "publish", "commit"} =>
         /\ \A id \in DOMAIN ends : id <= x.id
         /\ \A id \in done : id < x.id
    /\ x.pc = "publish" => \A id \in DOMAIN log : id < x.id

BronzeUndisturbed(r) == Undisturbed(bronzeRun[r], bronzeCp.ends, bronzeCp.done, bronze)
SilverUndisturbed(r) == Undisturbed(silverRun[r], silverCp.ends, silverCp.done, silver)

\* The guards of Recover, Plan or Finish, SkipBatch or WriteFiles, Publish and
\* Commit: no log file that the step would create is there.
MayAdvance(x, last, ends, done, log) ==
    \/ x.pc = "start" /\ (last <= 0 \/ last - 1 \in DOMAIN ends)
    \/ x.pc = "plan" /\ (x.from >= x.upto \/ x.id \notin DOMAIN ends)
    \/ x.pc = "sink"
    \/ x.pc = "publish" /\ x.id \notin DOMAIN log
    \/ x.pc = "commit" /\ x.id \notin done

BronzeMayAdvance(r) ==
    MayAdvance(bronzeRun[r], B!LastPlanned, bronzeCp.ends, bronzeCp.done, bronze)
SilverMayAdvance(r) ==
    MayAdvance(silverRun[r], S!LastPlanned, silverCp.ends, silverCp.done, silver)

LEMMA UndisturbedMayAdvance ==
    ASSUME NEW x, x.pc \in {"start", "plan", "sink", "publish", "commit"}, x.id \in Nat,
           NEW ends, NEW done, NEW log, Undisturbed(x, ends, done, log),
           NEW last \in DOMAIN ends \cup {-1}, \A id \in DOMAIN ends : id <= last
    PROVE  MayAdvance(x, last, ends, done, log)
<1>1. CASE x.pc = "start"
  BY <1>1 DEF Undisturbed, Usable, MayAdvance
<1>2. CASE x.pc \in {"plan", "sink", "publish", "commit"}
  <2>1. ~(x.id < x.id)
    OBVIOUS
  <2> QED
    BY <1>2, <2>1 DEF Undisturbed, MayAdvance
<1> QED
  BY <1>1, <1>2

\* Coherent logs are usable: RunsEnd speaks of such runs.
LEMMA CoherentIsUsable ==
    ASSUME BronzeInv, B!Coherent PROVE Usable(bronzeCp.ends, bronzeCp.done)
<1> DEFINE last == B!LatestId(DOMAIN bronzeCp.ends)
<1>1. /\ last \in DOMAIN bronzeCp.ends \cup {-1} /\ last \in Nat \cup {-1}
      /\ \A id \in DOMAIN bronzeCp.ends : id <= last /\ id \in Nat
  BY LatestIdExists DEF BronzeInv, BronzeLogsInOrder, Covers, IsBounded
<1>2. /\ DOMAIN bronzeCp.ends = 0 .. last
      /\ bronzeCp.done \in {0 .. last, 0 .. (last - 1)}
  BY DEF B!Coherent, B!LastPlanned
<1> HIDE DEF last
<1>3. ASSUME NEW top \in DOMAIN bronzeCp.ends PROVE top = 0 \/ top - 1 \in DOMAIN bronzeCp.ends
  BY <1>1, <1>2
<1>4. ASSUME NEW d \in bronzeCp.done PROVE d \in DOMAIN bronzeCp.ends
  BY <1>1, <1>2
<1> QED
  BY <1>1, <1>3, <1>4 DEF Usable

\* A sole runner of bronze stays undisturbed.
LEMMA BronzeStaysUndisturbed ==
    ASSUME SoleRunner, BronzeInv, Paced, [B!Next]_(B!vars), NEW r \in BronzeRunners,
           BronzeUndisturbed(r), bronzeRun[r].pc \notin {"off", "done"}
    PROVE  BronzeUndisturbed(r)'
<1> DEFINE id == bronzeRun[r].id
           ends == bronzeCp.ends
           done == bronzeCp.done
<1>0. BronzeRunners = {r}
  BY DEF SoleRunner
<1>1. /\ bronzeRun \in [BronzeRunners -> B!RunType] /\ bronzeRun[r] \in B!RunType /\ id \in Nat
      /\ bronzeCp = [ends |-> ends, done |-> done]
      /\ IsBounded(DOMAIN ends) /\ IsBounded(DOMAIN bronze)
  BY DEF BronzeInv, BronzeRunnersInOrder, BronzeLogsInOrder, BronzeSinkInOrder, Covers, B!RunType
<1>2. Undisturbed(bronzeRun[r], ends, done, bronze)
  BY DEF BronzeUndisturbed
<1>3. ASSUME UNCHANGED <<bronzeRun, bronzeCp, bronze>> PROVE BronzeUndisturbed(r)'
  BY <1>3 DEF BronzeUndisturbed
<1>4. ASSUME NEW x, bronzeRun' = [bronzeRun EXCEPT ![r] = x],
             Undisturbed(x, bronzeCp'.ends, bronzeCp'.done, bronze')
      PROVE  BronzeUndisturbed(r)'
  BY <1>1, <1>4 DEF BronzeUndisturbed
<1>5. ASSUME NEW pc, B!Goto(r, pc), UNCHANGED bronzeCp,
             \/ pc \in {"off", "done"}
             \/ pc = "commit" /\ bronzeRun[r].pc \in {"sink", "publish"}
             \/ pc = "publish" /\ bronzeRun[r].pc = "sink" /\ \A b \in DOMAIN bronze' : b < id
      PROVE  BronzeUndisturbed(r)'
  <2> DEFINE x == [bronzeRun[r] EXCEPT !.pc = pc]
  <2>1. bronzeRun' = [bronzeRun EXCEPT ![r] = x]
    BY <1>1, <1>5 DEF B!Goto
  <2>2. x.pc = pc /\ x.id = id
    BY <1>1 DEF B!RunType
  <2> HIDE DEF x
  <2>3. Undisturbed(x, ends, done, bronze')
    BY <1>2, <1>5, <2>2 DEF Undisturbed
  <2> QED
    BY <1>4, <1>5, <2>1, <2>3
<1>6. CASE B!Read(r)
  <2> DEFINE last == B!LatestId(DOMAIN ends)
  <2>1. /\ UNCHANGED <<bronze, bronzeCp>> /\ bronzeRun[r].pc = "start"
        /\ \E upto, from, to :
             \/ /\ last # B!LatestId(done) /\ last # -1
                /\ bronzeRun' = [bronzeRun EXCEPT ![r] = B!RunAt("sink", upto, last, from, to)]
             \/ bronzeRun' = [bronzeRun EXCEPT ![r] = B!RunAt("plan", upto, last + 1, from, to)]
    BY <1>6 DEF B!Read, B!Recover, B!LastPlanned, B!Resumes, B!At
  <2>2. PICK upto, from, to :
             \/ /\ last # B!LatestId(done) /\ last # -1
                /\ bronzeRun' = [bronzeRun EXCEPT ![r] = B!RunAt("sink", upto, last, from, to)]
             \/ bronzeRun' = [bronzeRun EXCEPT ![r] = B!RunAt("plan", upto, last + 1, from, to)]
    BY <2>1
  <2>3. /\ last \in DOMAIN ends \cup {-1} /\ last \in Nat \cup {-1}
        /\ \A i \in DOMAIN ends : i <= last /\ i \in Nat
    BY <1>1, LatestIdExists DEF IsBounded
  <2>4. \A d \in done : d \in Nat /\ d <= last
    <3>1. \A d \in done : d \in Nat /\ \E i \in DOMAIN ends : d <= i
      BY <1>2, <2>1 DEF Undisturbed, Usable, Paced, LogsPaced
    <3> HIDE DEF last, ends, done
    <3> QED
      BY <2>3, <3>1
  <2>5. last # B!LatestId(done) /\ last # -1 => last \notin done
    <3> SUFFICES ASSUME last # B!LatestId(done), last # -1, last \in done PROVE FALSE
      OBVIOUS
    <3> HIDE DEF last
    <3>1. IsBounded(done)
      BY <2>3, <2>4 DEF IsBounded
    <3>2. /\ B!LatestId(done) \in done \cup {-1} /\ B!LatestId(done) \in Nat \cup {-1}
          /\ last <= B!LatestId(done)
      BY <3>1, LatestIdExists
    <3> QED
      BY <2>3, <2>4, <3>2
  <2> HIDE DEF last
  <2>6. CASE /\ last # B!LatestId(done) /\ last # -1
             /\ bronzeRun' = [bronzeRun EXCEPT ![r] = B!RunAt("sink", upto, last, from, to)]
    <3> DEFINE x == B!RunAt("sink", upto, last, from, to)
    <3>1. x.pc = "sink" /\ x.id = last
      BY DEF B!RunAt
    <3>2. bronzeRun' = [bronzeRun EXCEPT ![r] = x]
      BY <2>6
    <3> HIDE DEF x
    <3>3. \A d \in done : d < last
      BY <2>3, <2>4, <2>5, <2>6
    <3>4. Undisturbed(x, ends, done, bronze)
      BY <2>3, <3>1, <3>3 DEF Undisturbed
    <3> QED
      BY <1>4, <2>1, <3>2, <3>4
  <2>7. CASE bronzeRun' = [bronzeRun EXCEPT ![r] = B!RunAt("plan", upto, last + 1, from, to)]
    <3> DEFINE x == B!RunAt("plan", upto, last + 1, from, to)
    <3>1. x.pc = "plan" /\ x.id = last + 1
      BY DEF B!RunAt
    <3>2. bronzeRun' = [bronzeRun EXCEPT ![r] = x]
      BY <2>7
    <3> HIDE DEF x
    <3>3. \A i \in DOMAIN ends \cup done : i < last + 1
      BY <2>3, <2>4
    <3>4. Undisturbed(x, ends, done, bronze)
      BY <3>1, <3>3 DEF Undisturbed
    <3> QED
      BY <1>4, <2>1, <3>2, <3>4
  <2> QED
    BY <2>2, <2>6, <2>7
<1>7. CASE B!Plan(r) /\ UNCHANGED bronze
  <2> DEFINE x == B!RunAt("sink", bronzeRun[r].upto, id, bronzeRun[r].from, bronzeRun[r].upto)
  <2>1. /\ bronzeRun[r].pc = "plan" /\ bronzeRun' = [bronzeRun EXCEPT ![r] = x]
        /\ DOMAIN bronzeCp'.ends = DOMAIN ends \cup {id} /\ bronzeCp'.done = done
    BY <1>1, <1>7 DEF B!Plan, B!At, B!WithEntry
  <2>2. x.pc = "sink" /\ x.id = id
    BY DEF B!RunAt
  <2> HIDE DEF x
  <2>3. Undisturbed(x, bronzeCp'.ends, bronzeCp'.done, bronze')
    <3>1. \A i \in DOMAIN ends : i \in Nat
      BY <1>1 DEF IsBounded
    <3>2. \A i \in DOMAIN ends \cup done : i < id
      BY <1>2, <2>1 DEF Undisturbed
    <3>3. \A i \in DOMAIN bronzeCp'.ends : i <= id
      BY <1>1, <2>1, <3>1, <3>2
    <3> QED
      BY <2>1, <2>2, <3>2, <3>3 DEF Undisturbed
  <2> QED
    BY <1>4, <2>1, <2>3
<1>8. CASE B!Commit(r) /\ UNCHANGED bronze
  <2> DEFINE x == B!RunAt("plan", bronzeRun[r].upto, id + 1, bronzeRun[r].to, bronzeRun[r].to)
  <2>1. /\ bronzeRun[r].pc = "commit" /\ bronzeRun' = [bronzeRun EXCEPT ![r] = x]
        /\ bronzeCp'.ends = ends /\ bronzeCp'.done = done \cup {id}
    BY <1>1, <1>8 DEF B!Commit, B!At
  <2>2. x.pc = "plan" /\ x.id = id + 1
    BY DEF B!RunAt
  <2> HIDE DEF x
  <2>3. \A i \in DOMAIN ends \cup (done \cup {id}) : i < id + 1
    <3>1. /\ \A i \in DOMAIN ends : i \in Nat /\ i <= id
          /\ \A i \in done : i \in Nat /\ i < id
      BY <1>1, <1>2, <2>1 DEF Undisturbed, IsBounded, Paced, LogsPaced
    <3> QED
      BY <1>1, <3>1
  <2>4. Undisturbed(x, bronzeCp'.ends, bronzeCp'.done, bronze')
    BY <2>1, <2>2, <2>3 DEF Undisturbed
  <2> QED
    BY <1>4, <2>1, <2>4
<1>9. CASE B!WriteFiles(r, bronze) /\ UNCHANGED bronze
  <2> DEFINE latest == B!LatestId(DOMAIN bronze)
  <2>1. /\ bronzeRun[r].pc = "sink" /\ id > latest /\ B!Goto(r, "publish") /\ UNCHANGED bronzeCp
    BY <1>9 DEF B!WriteFiles, B!At
  <2>2. latest \in Nat \cup {-1} /\ \A b \in DOMAIN bronze : b <= latest /\ b \in Nat
    BY <1>1, LatestIdExists DEF IsBounded
  <2> HIDE DEF latest
  <2>3. \A b \in DOMAIN bronze : b < id
    BY <1>1, <2>1, <2>2
  <2> QED
    BY <1>5, <1>9, <2>1, <2>3
<1>10. CASE (B!SkipBatch(r, bronze) /\ UNCHANGED bronze) \/ B!Publish(r)
  BY <1>5, <1>10 DEF B!SkipBatch, B!Publish, B!MayPublish, B!At
<1>11. CASE B!Finish(r) \/ B!Die(r)
  BY <1>5, <1>11 DEF B!Finish, B!Die, B!Abort
<1>12. CASE UNCHANGED B!vars \/ \E m \in Readings : B!Produce(m)
  BY <1>3, <1>12 DEF B!vars, B!queryVars, B!Produce
<1>13. ~B!Ingest(r)
  BY DEF B!Ingest, B!Launch
<1> QED
  BY <1>0, <1>6, <1>7, <1>8, <1>9, <1>10, <1>11, <1>12, <1>13
     DEF B!Next, B!Advance, B!Protocol

\* What is known of silver's logs whatever was removed: they name every batch
\* up to the last one.
LEMMA SilverLogs ==
    ASSUME Sound
    PROVE  /\ silverRun \in [SilverRunners -> S!RunType]
           /\ silverCp = [ends |-> silverCp.ends, done |-> silverCp.done]
           /\ IsBounded(DOMAIN silverCp.ends) /\ IsBounded(DOMAIN silver)
           /\ silverCp.done \subseteq DOMAIN silverCp.ends
           /\ Usable(silverCp.ends, silverCp.done)
<1>1. /\ silverRun \in [SilverRunners -> S!RunType]
      /\ silverCp = [ends |-> silverCp.ends, done |-> silverCp.done]
      /\ silverCp.done \subseteq DOMAIN silverCp.ends
      /\ \A id \in DOMAIN silverCp.ends : \A i \in 0 .. id : i \in DOMAIN silverCp.ends
  BY DEF Sound, SP!Settled, SP!Planned, SP!Rising, SP!RunType, S!RunType
<1>2. IsBounded(DOMAIN silverCp.ends) /\ IsBounded(DOMAIN silver)
  BY DEF Sound, SP!Settled, SP!Planned, SP!Rising, SP!SinkInherits, SP!IsBounded, IsBounded
<1>3. ASSUME NEW last \in DOMAIN silverCp.ends
      PROVE  last = 0 \/ last - 1 \in DOMAIN silverCp.ends
  <2>1. last \in Nat
    BY <1>2 DEF IsBounded
  <2>2. last # 0 => last - 1 \in 0 .. last
    BY <2>1
  <2> QED
    BY <1>1, <2>2
<1>4. ASSUME NEW d \in silverCp.done PROVE \E id \in DOMAIN silverCp.ends : d <= id
  <2>1. d \in DOMAIN silverCp.ends /\ d \in Nat
    BY <1>1, <1>2 DEF IsBounded
  <2> QED
    BY <2>1
<1> QED
  BY <1>1, <1>2, <1>3, <1>4 DEF Usable

LEMMA SilverLatestId ==
    ASSUME NEW ids, IsBounded(ids)
    PROVE  /\ S!LatestId(ids) \in ids \cup {-1}
           /\ \A id \in ids : id <= S!LatestId(ids)
           /\ S!LatestId(ids) \in Nat \cup {-1}
<1>1. \E m \in ids \cup {-1} : \A id \in ids : id <= m
  BY GreatestId
<1> QED
  BY <1>1 DEF S!LatestId, IsBounded

\* A run of silver's that is alone stays undisturbed.
LEMMA SilverStaysUndisturbed ==
    ASSUME Sound, NEW r \in SilverRunners, SilverUndisturbed(r),
           S!Cleanse(r) \/ S!Advance(r) \/ S!Die(r)
    PROVE  SilverUndisturbed(r)'
<1> DEFINE id == silverRun[r].id
           ends == silverCp.ends
           done == silverCp.done
<1>1. /\ silverRun \in [SilverRunners -> S!RunType] /\ silverRun[r] \in S!RunType /\ id \in Nat
      /\ silverCp = [ends |-> ends, done |-> done] /\ done \subseteq DOMAIN ends
      /\ IsBounded(DOMAIN ends) /\ IsBounded(DOMAIN silver)
  BY SilverLogs DEF S!RunType
<1>2. Undisturbed(silverRun[r], ends, done, silver)
  BY DEF SilverUndisturbed
<1>4. ASSUME NEW x, silverRun' = [silverRun EXCEPT ![r] = x],
             Undisturbed(x, silverCp'.ends, silverCp'.done, silver')
      PROVE  SilverUndisturbed(r)'
  BY <1>1, <1>4 DEF SilverUndisturbed
<1>5. ASSUME NEW pc, S!Goto(r, pc), UNCHANGED silverCp,
             \/ pc \in {"off", "done"}
             \/ pc = "commit" /\ silverRun[r].pc \in {"sink", "publish"}
             \/ pc = "publish" /\ silverRun[r].pc = "sink" /\ \A b \in DOMAIN silver' : b < id
      PROVE  SilverUndisturbed(r)'
  <2> DEFINE x == [silverRun[r] EXCEPT !.pc = pc]
  <2>1. silverRun' = [silverRun EXCEPT ![r] = x]
    BY <1>1, <1>5 DEF S!Goto
  <2>2. x.pc = pc /\ x.id = id
    BY <1>1 DEF S!RunType
  <2> HIDE DEF x
  <2>3. Undisturbed(x, ends, done, silver')
    BY <1>2, <1>5, <2>2 DEF Undisturbed
  <2> QED
    BY <1>4, <1>5, <2>1, <2>3
<1>6. CASE S!List(r)
  <2> DEFINE last == S!LatestId(DOMAIN ends)
  <2>1. /\ UNCHANGED <<silver, silverCp>> /\ silverRun[r].pc = "start"
        /\ \E upto, from, to :
             \/ /\ last # S!LatestId(done) /\ last # -1
                /\ silverRun' = [silverRun EXCEPT ![r] = S!RunAt("sink", upto, last, from, to)]
             \/ silverRun' = [silverRun EXCEPT ![r] = S!RunAt("plan", upto, last + 1, from, to)]
    BY <1>6 DEF S!List, S!Recover, S!LastPlanned, S!Resumes, S!At
  <2>2. PICK upto, from, to :
             \/ /\ last # S!LatestId(done) /\ last # -1
                /\ silverRun' = [silverRun EXCEPT ![r] = S!RunAt("sink", upto, last, from, to)]
             \/ silverRun' = [silverRun EXCEPT ![r] = S!RunAt("plan", upto, last + 1, from, to)]
    BY <2>1
  <2>3. /\ last \in DOMAIN ends \cup {-1} /\ last \in Nat \cup {-1}
        /\ \A i \in DOMAIN ends : i <= last /\ i \in Nat
    BY <1>1, SilverLatestId DEF IsBounded
  <2>4. last # S!LatestId(done) /\ last # -1 => last \notin done
    <3> SUFFICES ASSUME last # S!LatestId(done), last # -1, last \in done PROVE FALSE
      OBVIOUS
    <3>1. IsBounded(done)
      BY <1>1 DEF IsBounded
    <3> HIDE DEF last
    <3>2. /\ S!LatestId(done) \in done \cup {-1} /\ S!LatestId(done) \in Nat \cup {-1}
          /\ last <= S!LatestId(done)
      BY <3>1, SilverLatestId
    <3> QED
      BY <1>1, <2>3, <3>2
  <2> HIDE DEF last
  <2>6. CASE /\ last # S!LatestId(done) /\ last # -1
             /\ silverRun' = [silverRun EXCEPT ![r] = S!RunAt("sink", upto, last, from, to)]
    <3> DEFINE x == S!RunAt("sink", upto, last, from, to)
    <3>1. x.pc = "sink" /\ x.id = last
      BY DEF S!RunAt
    <3>2. silverRun' = [silverRun EXCEPT ![r] = x]
      BY <2>6
    <3> HIDE DEF x
    <3>3. \A d \in done : d < last
      BY <1>1, <2>3, <2>4, <2>6
    <3>4. Undisturbed(x, ends, done, silver)
      BY <2>3, <3>1, <3>3 DEF Undisturbed
    <3> QED
      BY <1>4, <2>1, <3>2, <3>4
  <2>7. CASE silverRun' = [silverRun EXCEPT ![r] = S!RunAt("plan", upto, last + 1, from, to)]
    <3> DEFINE x == S!RunAt("plan", upto, last + 1, from, to)
    <3>1. x.pc = "plan" /\ x.id = last + 1
      BY DEF S!RunAt
    <3>2. silverRun' = [silverRun EXCEPT ![r] = x]
      BY <2>7
    <3> HIDE DEF x
    <3>3. \A i \in DOMAIN ends \cup done : i < last + 1
      BY <1>1, <2>3
    <3>4. Undisturbed(x, ends, done, silver)
      BY <3>1, <3>3 DEF Undisturbed
    <3> QED
      BY <1>4, <2>1, <3>2, <3>4
  <2> QED
    BY <2>2, <2>6, <2>7
<1>7. CASE S!Plan(r) /\ UNCHANGED silver
  <2> DEFINE x == S!RunAt("sink", silverRun[r].upto, id, silverRun[r].from, silverRun[r].upto)
  <2>1. /\ silverRun[r].pc = "plan" /\ silverRun' = [silverRun EXCEPT ![r] = x]
        /\ DOMAIN silverCp'.ends = DOMAIN ends \cup {id} /\ silverCp'.done = done
    BY <1>1, <1>7 DEF S!Plan, S!At, S!WithEntry
  <2>2. x.pc = "sink" /\ x.id = id
    BY DEF S!RunAt
  <2> HIDE DEF x
  <2>3. Undisturbed(x, silverCp'.ends, silverCp'.done, silver')
    <3>1. \A i \in DOMAIN ends : i \in Nat
      BY <1>1 DEF IsBounded
    <3>2. \A i \in DOMAIN ends \cup done : i < id
      BY <1>2, <2>1 DEF Undisturbed
    <3>3. \A i \in DOMAIN silverCp'.ends : i <= id
      BY <1>1, <2>1, <3>1, <3>2
    <3> QED
      BY <2>1, <2>2, <3>2, <3>3 DEF Undisturbed
  <2> QED
    BY <1>4, <2>1, <2>3
<1>8. CASE S!Commit(r) /\ UNCHANGED silver
  <2> DEFINE x == S!RunAt("plan", silverRun[r].upto, id + 1, silverRun[r].to, silverRun[r].to)
  <2>1. /\ silverRun[r].pc = "commit" /\ silverRun' = [silverRun EXCEPT ![r] = x]
        /\ silverCp'.ends = ends /\ silverCp'.done = done \cup {id}
    BY <1>1, <1>8 DEF S!Commit, S!At
  <2>2. x.pc = "plan" /\ x.id = id + 1
    BY DEF S!RunAt
  <2> HIDE DEF x
  <2>3. \A i \in DOMAIN ends \cup (done \cup {id}) : i < id + 1
    <3>1. \A i \in DOMAIN ends : i \in Nat /\ i <= id
      BY <1>1, <1>2, <2>1 DEF Undisturbed, IsBounded
    <3> QED
      BY <1>1, <3>1
  <2>4. Undisturbed(x, silverCp'.ends, silverCp'.done, silver')
    BY <2>1, <2>2, <2>3 DEF Undisturbed
  <2> QED
    BY <1>4, <2>1, <2>4
<1>9. CASE S!WriteFiles(r, silver) /\ UNCHANGED silver
  <2> DEFINE latest == S!LatestId(DOMAIN silver)
  <2>1. /\ silverRun[r].pc = "sink" /\ id > latest /\ S!Goto(r, "publish") /\ UNCHANGED silverCp
    BY <1>9 DEF S!WriteFiles, S!At
  <2>2. latest \in Nat \cup {-1} /\ \A b \in DOMAIN silver : b <= latest /\ b \in Nat
    BY <1>1, SilverLatestId DEF IsBounded
  <2> HIDE DEF latest
  <2>3. \A b \in DOMAIN silver : b < id
    BY <1>1, <2>1, <2>2
  <2> QED
    BY <1>5, <1>9, <2>1, <2>3
<1>10. CASE (S!SkipBatch(r, silver) /\ UNCHANGED silver) \/ S!Publish(r)
  BY <1>5, <1>10 DEF S!SkipBatch, S!Publish, S!MayPublish, S!At
<1>11. CASE S!Finish(r) \/ S!Die(r)
  BY <1>5, <1>11 DEF S!Finish, S!Die, S!Abort
<1>12. CASE S!Cleanse(r)
  <2> DEFINE x == S!RunAt("start", 0, 0, 0, 0)
  <2>1. silverRun' = [silverRun EXCEPT ![r] = x] /\ UNCHANGED <<silverCp, silver>>
    BY <1>12 DEF S!Cleanse, S!Launch
  <2>2. x.pc = "start"
    BY DEF S!RunAt
  <2> HIDE DEF x
  <2>3. Undisturbed(x, ends, done, silver)
    BY <2>2, SilverLogs DEF Undisturbed
  <2> QED
    BY <1>4, <2>1, <2>3
<1> QED
  BY <1>6, <1>7, <1>8, <1>9, <1>10, <1>11, <1>12 DEF S!Advance, S!Protocol

\* Every step of a run brings it nearer to its end, disturbed or not.
LEMMA BronzeComesNearer ==
    ASSUME BronzeInv, NEW r \in BronzeRunners, B!Advance(r)
    PROVE  StepsLeft(bronzeRun'[r]) < StepsLeft(bronzeRun[r])
<1> DEFINE x == bronzeRun[r]
           y == bronzeRun'[r]
<1>1. /\ bronzeRun \in [BronzeRunners -> B!RunType]
      /\ x.from \in Nat /\ x.to \in Nat /\ x.upto \in Nat
  BY DEF BronzeInv, BronzeRunnersInOrder, B!RunType
<1>2. ASSUME NEW pc, B!Goto(r, pc)
      PROVE  y.pc = pc /\ y.to = x.to /\ y.upto = x.upto /\ y.from = x.from
  BY <1>1, <1>2 DEF B!Goto, B!RunType
<1>3. CASE B!Read(r)
  <2>1. x.pc = "start" /\ y.pc \in {"sink", "plan"}
    BY <1>1, <1>3 DEF B!Read, B!Recover, B!At, B!RunAt
  <2> HIDE DEF x, y
  <2>2. StepsLeft(x) = 9 /\ StepsLeft(y) \in {8, 5, 4, 1}
    BY <2>1 DEF StepsLeft
  <2> QED
    BY <2>2 DEF x, y
<1>4. CASE B!Plan(r)
  <2>1. x.pc = "plan" /\ x.from < x.upto /\ y.pc = "sink" /\ y.to = x.upto /\ y.upto = x.upto
    BY <1>1, <1>4 DEF B!Plan, B!At, B!RunAt
  <2> HIDE DEF x, y
  <2>2. ~(y.to < y.upto)
    BY <1>1, <2>1
  <2>3. StepsLeft(x) = 5 /\ StepsLeft(y) = 4
    BY <2>1, <2>2 DEF StepsLeft
  <2> QED
    BY <2>3 DEF x, y
<1>5. CASE B!Commit(r)
  <2>1. x.pc = "commit" /\ y.pc = "plan" /\ y.from = x.to /\ y.upto = x.upto
    BY <1>1, <1>5 DEF B!Commit, B!At, B!RunAt
  <2> HIDE DEF x, y
  <2>2. StepsLeft(x) = IF x.to < x.upto THEN 6 ELSE 2
    BY <2>1 DEF StepsLeft
  <2>3. StepsLeft(y) = IF x.to < x.upto THEN 5 ELSE 1
    BY <2>1 DEF StepsLeft
  <2> QED
    BY <2>2, <2>3 DEF x, y
<1>6. CASE B!Finish(r)
  <2>1. x.pc = "plan" /\ y.pc = "done"
    BY <1>2, <1>6 DEF B!Finish, B!At
  <2> HIDE DEF x, y
  <2>2. StepsLeft(x) \in {5, 1} /\ StepsLeft(y) = 0
    BY <2>1 DEF StepsLeft
  <2> QED
    BY <2>2 DEF x, y
<1>7. CASE B!SkipBatch(r, bronze) \/ B!WriteFiles(r, bronze) \/ B!Publish(r)
  <2>1. /\ \/ x.pc = "sink" /\ y.pc \in {"publish", "commit"}
           \/ x.pc = "publish" /\ y.pc = "commit"
        /\ y.to = x.to /\ y.upto = x.upto
    BY <1>2, <1>7 DEF B!SkipBatch, B!WriteFiles, B!Publish, B!MayPublish, B!At
  <2> HIDE DEF x, y
  <2>2. CASE x.to < x.upto
    <3>1. \/ StepsLeft(x) = 8 /\ StepsLeft(y) \in {7, 6}
          \/ StepsLeft(x) = 7 /\ StepsLeft(y) = 6
      BY <2>1, <2>2 DEF StepsLeft
    <3> QED
      BY <3>1 DEF x, y
  <2>3. CASE ~(x.to < x.upto)
    <3>1. \/ StepsLeft(x) = 4 /\ StepsLeft(y) \in {3, 2}
          \/ StepsLeft(x) = 3 /\ StepsLeft(y) = 2
      BY <2>1, <2>3 DEF StepsLeft
    <3> QED
      BY <3>1 DEF x, y
  <2> QED
    BY <2>2, <2>3
<1> QED
  BY <1>3, <1>4, <1>5, <1>6, <1>7 DEF B!Advance, B!Protocol

LEMMA SilverComesNearer ==
    ASSUME Sound, NEW r \in SilverRunners, S!Advance(r)
    PROVE  StepsLeft(silverRun'[r]) < StepsLeft(silverRun[r])
<1> DEFINE x == silverRun[r]
           y == silverRun'[r]
<1>1. /\ silverRun \in [SilverRunners -> S!RunType]
      /\ x.from \in Nat /\ x.to \in Nat /\ x.upto \in Nat
  BY SilverLogs DEF S!RunType
<1>2. ASSUME NEW pc, S!Goto(r, pc)
      PROVE  y.pc = pc /\ y.to = x.to /\ y.upto = x.upto /\ y.from = x.from
  BY <1>1, <1>2 DEF S!Goto, S!RunType
<1>3. CASE S!List(r)
  <2>1. x.pc = "start" /\ y.pc \in {"sink", "plan"}
    BY <1>1, <1>3 DEF S!List, S!Recover, S!At, S!RunAt
  <2> HIDE DEF x, y
  <2>2. StepsLeft(x) = 9 /\ StepsLeft(y) \in {8, 5, 4, 1}
    BY <2>1 DEF StepsLeft
  <2> QED
    BY <2>2 DEF x, y
<1>4. CASE S!Plan(r)
  <2>1. x.pc = "plan" /\ x.from < x.upto /\ y.pc = "sink" /\ y.to = x.upto /\ y.upto = x.upto
    BY <1>1, <1>4 DEF S!Plan, S!At, S!RunAt
  <2> HIDE DEF x, y
  <2>2. ~(y.to < y.upto)
    BY <1>1, <2>1
  <2>3. StepsLeft(x) = 5 /\ StepsLeft(y) = 4
    BY <2>1, <2>2 DEF StepsLeft
  <2> QED
    BY <2>3 DEF x, y
<1>5. CASE S!Commit(r)
  <2>1. x.pc = "commit" /\ y.pc = "plan" /\ y.from = x.to /\ y.upto = x.upto
    BY <1>1, <1>5 DEF S!Commit, S!At, S!RunAt
  <2> HIDE DEF x, y
  <2>2. StepsLeft(x) = IF x.to < x.upto THEN 6 ELSE 2
    BY <2>1 DEF StepsLeft
  <2>3. StepsLeft(y) = IF x.to < x.upto THEN 5 ELSE 1
    BY <2>1 DEF StepsLeft
  <2> QED
    BY <2>2, <2>3 DEF x, y
<1>6. CASE S!Finish(r)
  <2>1. x.pc = "plan" /\ y.pc = "done"
    BY <1>2, <1>6 DEF S!Finish, S!At
  <2> HIDE DEF x, y
  <2>2. StepsLeft(x) \in {5, 1} /\ StepsLeft(y) = 0
    BY <2>1 DEF StepsLeft
  <2> QED
    BY <2>2 DEF x, y
<1>7. CASE S!SkipBatch(r, silver) \/ S!WriteFiles(r, silver) \/ S!Publish(r)
  <2>1. /\ \/ x.pc = "sink" /\ y.pc \in {"publish", "commit"}
           \/ x.pc = "publish" /\ y.pc = "commit"
        /\ y.to = x.to /\ y.upto = x.upto
    BY <1>2, <1>7 DEF S!SkipBatch, S!WriteFiles, S!Publish, S!MayPublish, S!At
  <2> HIDE DEF x, y
  <2>2. CASE x.to < x.upto
    <3>1. \/ StepsLeft(x) = 8 /\ StepsLeft(y) \in {7, 6}
          \/ StepsLeft(x) = 7 /\ StepsLeft(y) = 6
      BY <2>1, <2>2 DEF StepsLeft
    <3> QED
      BY <3>1 DEF x, y
  <2>3. CASE ~(x.to < x.upto)
    <3>1. \/ StepsLeft(x) = 4 /\ StepsLeft(y) \in {3, 2}
          \/ StepsLeft(x) = 3 /\ StepsLeft(y) = 2
      BY <2>1, <2>3 DEF StepsLeft
    <3> QED
      BY <3>1 DEF x, y
  <2> QED
    BY <2>2, <2>3
<1> QED
  BY <1>3, <1>4, <1>5, <1>6, <1>7 DEF S!Advance, S!Protocol

\* No run of a notebook goes on for ever: each of its steps, but for its start,
\* leaves it fewer steps to take, of nine.
THEOREM RunsAreShort ==
    SoleRunner => (Spec =>
        [][/\ \A r \in BronzeRunners :
                 BronzeAdvances(r) => StepsLeft(bronzeRun'[r]) < StepsLeft(bronzeRun[r])
           /\ \A r \in SilverRunners :
                 SilverAdvances(r) => StepsLeft(silverRun'[r]) < StepsLeft(silverRun[r])]_vars)
<1>1. Sound => /\ \A r \in BronzeRunners :
                    BronzeAdvances(r) => StepsLeft(bronzeRun'[r]) < StepsLeft(bronzeRun[r])
               /\ \A r \in SilverRunners :
                    SilverAdvances(r) => StepsLeft(silverRun'[r]) < StepsLeft(silverRun[r])
  BY BronzeComesNearer, SilverComesNearer DEF Sound, BronzeAdvances, SilverAdvances
<1> QED
  BY <1>1, SoundAlways, PTL

\* A bronze run that finds coherent logs, and a silver run whatever it finds,
\* starts undisturbed; and where a run is undisturbed, the next log file it
\* would create is not there yet: there is a step it can take.
THEOREM UndisturbedRunsAdvance ==
    SoleRunner => (Spec =>
        [](/\ \A r \in BronzeRunners :
                 /\ B!At(r, "start") /\ B!Coherent => BronzeUndisturbed(r)
                 /\ BronzeUndisturbed(r) =>
                      BronzeMayAdvance(r) \/ bronzeRun[r].pc \in {"off", "done"}
           /\ \A r \in SilverRunners :
                 /\ S!At(r, "start") => SilverUndisturbed(r)
                 /\ SilverUndisturbed(r) =>
                      SilverMayAdvance(r) \/ silverRun[r].pc \in {"off", "done"}))
<1>1. ASSUME Sound, NEW r \in BronzeRunners
      PROVE  /\ B!At(r, "start") /\ B!Coherent => BronzeUndisturbed(r)
             /\ BronzeUndisturbed(r) =>
                  BronzeMayAdvance(r) \/ bronzeRun[r].pc \in {"off", "done"}
  <2>1. BronzeInv /\ bronzeRun[r] \in B!RunType
    BY <1>1 DEF Sound, BronzeInv, BronzeRunnersInOrder
  <2>2. B!At(r, "start") /\ B!Coherent => BronzeUndisturbed(r)
    BY <2>1, CoherentIsUsable DEF B!At, BronzeUndisturbed, Undisturbed
  <2>3. ASSUME BronzeUndisturbed(r), bronzeRun[r].pc \notin {"off", "done"}
        PROVE  BronzeMayAdvance(r)
    <3>1. /\ bronzeRun[r].pc \in {"start", "plan", "sink", "publish", "commit"}
          /\ bronzeRun[r].id \in Nat
      BY <2>1, <2>3 DEF B!RunType
    <3>2. /\ B!LastPlanned \in DOMAIN bronzeCp.ends \cup {-1}
          /\ \A id \in DOMAIN bronzeCp.ends : id <= B!LastPlanned
      BY <2>1, LatestIdExists DEF B!LastPlanned, BronzeInv, BronzeLogsInOrder, Covers
    <3> QED
      BY <2>3, <3>1, <3>2, UndisturbedMayAdvance DEF BronzeUndisturbed, BronzeMayAdvance
  <2> QED
    BY <2>2, <2>3
<1>2. ASSUME Sound, NEW r \in SilverRunners
      PROVE  /\ S!At(r, "start") => SilverUndisturbed(r)
             /\ SilverUndisturbed(r) =>
                  SilverMayAdvance(r) \/ silverRun[r].pc \in {"off", "done"}
  <2>1. silverRun[r] \in S!RunType /\ IsBounded(DOMAIN silverCp.ends)
    BY <1>2, SilverLogs
  <2>2. S!At(r, "start") => SilverUndisturbed(r)
    BY <1>2, SilverLogs DEF S!At, SilverUndisturbed, Undisturbed
  <2>3. ASSUME SilverUndisturbed(r), silverRun[r].pc \notin {"off", "done"}
        PROVE  SilverMayAdvance(r)
    <3>1. /\ silverRun[r].pc \in {"start", "plan", "sink", "publish", "commit"}
          /\ silverRun[r].id \in Nat
      BY <2>1, <2>3 DEF S!RunType
    <3>2. /\ S!LastPlanned \in DOMAIN silverCp.ends \cup {-1}
          /\ \A id \in DOMAIN silverCp.ends : id <= S!LastPlanned
      BY <2>1, SilverLatestId DEF S!LastPlanned
    <3> QED
      BY <2>3, <3>1, <3>2, UndisturbedMayAdvance DEF SilverUndisturbed, SilverMayAdvance
  <2> QED
    BY <2>2, <2>3
<1>3. Sound =>
           /\ \A r \in BronzeRunners :
                 /\ B!At(r, "start") /\ B!Coherent => BronzeUndisturbed(r)
                 /\ BronzeUndisturbed(r) =>
                      BronzeMayAdvance(r) \/ bronzeRun[r].pc \in {"off", "done"}
           /\ \A r \in SilverRunners :
                 /\ S!At(r, "start") => SilverUndisturbed(r)
                 /\ SilverUndisturbed(r) =>
                      SilverMayAdvance(r) \/ silverRun[r].pc \in {"off", "done"}
  BY <1>1, <1>2
<1> QED
  BY <1>3, SoundAlways, PTL

\* A bronze run stays undisturbed until it ends, whatever silver and its owner
\* do; a silver run as long as no other of silver's is in progress.
THEOREM RunsStayUndisturbed ==
    SoleRunner => (Spec =>
        [][/\ \A r \in BronzeRunners :
                 BronzeUndisturbed(r) /\ bronzeRun[r].pc \notin {"off", "done"}
                   => BronzeUndisturbed(r)'
           /\ \A r \in SilverRunners :
                 SilverUndisturbed(r) /\ S!Alone(r) /\ S!Alone(r)' => SilverUndisturbed(r)']_vars)
<1>1. ASSUME SoleRunner, Sound, Paced, Next, NEW r \in BronzeRunners,
             BronzeUndisturbed(r), bronzeRun[r].pc \notin {"off", "done"}
      PROVE  BronzeUndisturbed(r)'
  <2>1. CASE B!Next
    BY <1>1, <2>1, BronzeStaysUndisturbed DEF Sound
  <2>2. CASE UNCHANGED bronzeVars
    BY <1>1, <2>2 DEF bronzeVars, BronzeUndisturbed
  <2>3. ASSUME NEW q \in SilverRunners, S!Cleanse(q) \/ S!Advance(q) \/ S!Die(q),
               UNCHANGED bronzeVars
        PROVE  BronzeUndisturbed(r)'
    BY <2>2, <2>3
  <2> QED
    BY <1>1, <2>1, <2>2
       DEF Next, Produce, BronzeStarts, BronzeAdvances, BronzeDies, SilverStarts,
           SilverAdvances, SilverDies, EraseArchive, EraseCheckpoint, B!Next
<1>2. ASSUME Sound, Next, NEW r \in SilverRunners,
             SilverUndisturbed(r), S!Alone(r), S!Alone(r)'
      PROVE  SilverUndisturbed(r)'
  <2>1. ASSUME NEW q \in SilverRunners, S!Cleanse(q) \/ S!Advance(q) \/ S!Die(q)
        PROVE  SilverUndisturbed(r)'
    <3>1. CASE q = r
      BY <1>2, <2>1, <3>1, SilverStaysUndisturbed
    <3>2. CASE q # r
      <4>1. silverRun[q].pc \in {"off", "done"} /\ silverRun'[q].pc \in {"off", "done"}
        BY <1>2, <3>2 DEF S!Alone
      <4>2. silverRun \in [SilverRunners -> S!RunType]
        BY <1>2, SilverLogs
      <4>3. ~S!Cleanse(q)
        BY <4>1, <4>2 DEF S!Cleanse, S!Launch, S!RunAt
      <4>4. ~S!Advance(q) /\ ~S!Die(q)
        BY <4>1 DEF S!Advance, S!List, S!Recover, S!Publish, S!MayPublish, S!Protocol, S!Plan,
                    S!Commit, S!Finish, S!SkipBatch, S!WriteFiles, S!At, S!Die, S!Abort
      <4> QED
        BY <2>1, <4>3, <4>4
    <3> QED
      BY <3>1, <3>2
  <2>2. CASE UNCHANGED silverVars
    BY <1>2, <2>2 DEF silverVars, SilverUndisturbed
  <2>3. CASE EraseArchive \/ EraseCheckpoint
    <3>1. silverRun'[r].pc = "off"
      BY <2>3 DEF EraseArchive, EraseCheckpoint, Forget, S!Idle, S!RunAt
    <3> QED
      BY <3>1 DEF SilverUndisturbed, Undisturbed
  <2> QED
    BY <1>2, <2>1, <2>2, <2>3
       DEF Next, Produce, BronzeStarts, BronzeAdvances, BronzeDies, SilverStarts,
           SilverAdvances, SilverDies
<1>3. ASSUME SoleRunner
      PROVE  Spec =>
        [][/\ \A r \in BronzeRunners :
                 BronzeUndisturbed(r) /\ bronzeRun[r].pc \notin {"off", "done"}
                   => BronzeUndisturbed(r)'
           /\ \A r \in SilverRunners :
                 SilverUndisturbed(r) /\ S!Alone(r) /\ S!Alone(r)' => SilverUndisturbed(r)']_vars
  <2>1. Sound /\ Paced /\ Next =>
           /\ \A r \in BronzeRunners :
                 BronzeUndisturbed(r) /\ bronzeRun[r].pc \notin {"off", "done"}
                   => BronzeUndisturbed(r)'
           /\ \A r \in SilverRunners :
                 SilverUndisturbed(r) /\ S!Alone(r) /\ S!Alone(r)' => SilverUndisturbed(r)'
    BY <1>1, <1>2, <1>3
  <2>2. Spec => []Sound /\ [](BronzeInv /\ Paced)
    BY <1>3, SoundAlways, BronzePaced
  <2> QED
    BY <2>1, <2>2, PTL DEF Spec
<1> QED
  BY <1>3
=============================================================================
