------------------------- MODULE SilverCleanProofs -------------------------
(***************************************************************************)
(* The silver layer keeps its promise for any number of runs that overlap  *)
(* on the one checkpoint and die anywhere: every clean reading is in the   *)
(* archive at most once, and after a run that ends well, it is there.  The *)
(* second half is about runs that find an archive or a checkpoint that was *)
(* removed without the other.                                              *)
(***************************************************************************)
EXTENDS SilverClean, OrderLemmas, SequenceTheorems

-----------------------------------------------------------------------------
(* What the state functions of SilverClean depend on                       *)

EndAt(ends, id) == IF id = -1 THEN 0 ELSE ends[id]
Span(ends, id) == Stretch(EndAt(ends, id - 1), EndAt(ends, id))
FilesAt(list, ends, id) == {list[i] : i \in Span(ends, id)}
CleanAt(readings, batches, files) ==
    {o \in UNION {batches[f] : f \in files} :
        SilverKeeps(readings[o].type, readings[o].watts)}

\* Function g has all of f, and perhaps more.
Prolongs(f, g) == \A x \in DOMAIN f : x \in DOMAIN g /\ g[x] = f[x]

-----------------------------------------------------------------------------
(* The invariant                                                           *)

\* What bronze delivers: a reading of the topic in at most one batch.
BronzeDelivers ==
    /\ topic \in Seq(Readings)
    /\ IsBounded(Files)
    /\ \A f \in Files : bronze[f] \subseteq DOMAIN topic
    /\ \A f, g \in Files : f # g => bronze[f] \cap bronze[g] = {}

\* The log of the source names each bronze batch once.
ListedOnce ==
    /\ listed \in Seq(Files)
    /\ \A i, j \in DOMAIN listed : i # j => listed[i] # listed[j]

\* A log of ends has an entry for every batch up to its last, and they rise.
Rising(ends) ==
    /\ IsBounded(DOMAIN ends)
    /\ \A id \in DOMAIN ends : ends[id] \in Nat
    /\ \A id \in DOMAIN ends : \A i \in 0 .. id : i \in DOMAIN ends
    /\ \A i, id \in DOMAIN ends : i <= id => ends[i] <= ends[id]

\* Batches are planned one after the other and reach no further than the log of
\* the source.
Planned ==
    /\ cp = [ends |-> cp.ends, done |-> cp.done] /\ Rising(cp.ends)
    /\ \A id \in DOMAIN cp.ends : cp.ends[id] <= Len(listed)

\* Each is planned when all before it are in the sink.
LogsInOrder ==
    /\ Planned
    /\ \A id \in DOMAIN cp.ends : \A i \in 0 .. (id - 1) : i \in DOMAIN silver
    /\ cp.done \subseteq DOMAIN silver
    /\ DOMAIN silver \subseteq DOMAIN cp.ends

\* The planned batches leave no file out.
NoGap ==
    \A id \in DOMAIN cp.ends : \A i \in 1 .. cp.ends[id] :
        \E j \in 0 .. id : i \in Span(cp.ends, j)

\* What was published under an id is what the filter leaves of its files.
SinkIsFiltered ==
    \A id \in DOMAIN silver :
        silver[id] = CleanAt(topic, bronze, FilesAt(listed, cp.ends, id))

\* A runner works on a planned batch, or stands behind a published one.
InOrder(x, ends, published, length) ==
    /\ x.pc \in {"plan", "sink", "publish", "commit", "done"} => x.upto <= length
    /\ x.pc \in {"sink", "publish", "commit"} =>
         /\ x.id \in DOMAIN ends
         /\ x.from = EndAt(ends, x.id - 1) /\ x.to = EndAt(ends, x.id)
    /\ x.pc = "commit" => x.id \in published
    /\ x.pc = "plan" =>
         /\ x.id = 0 \/ x.id - 1 \in published
         /\ x.from = EndAt(ends, x.id - 1)
    /\ x.pc = "done" =>
         \A i \in 1 .. x.upto : \E id \in published : i \in Span(ends, id)

RunnersInOrder ==
    /\ run \in [Runners -> RunType]
    /\ \A r \in Runners : InOrder(run[r], cp.ends, DOMAIN silver, Len(listed))

Inv == /\ BronzeDelivers /\ ListedOnce /\ LogsInOrder /\ NoGap
       /\ SinkIsFiltered /\ RunnersInOrder

-----------------------------------------------------------------------------
(* What is there stays                                                     *)

\* The latest id of a log is the greatest, or -1 when there is none.
LEMMA LatestIdExists ==
    ASSUME NEW ids, IsBounded(ids)
    PROVE  /\ LatestId(ids) \in ids \cup {-1}
           /\ \A id \in ids : id <= LatestId(ids)
           /\ LatestId(ids) \in Nat \cup {-1}
<1>1. \E m \in ids \cup {-1} : \A id \in ids : id <= m
  BY GreatestId
<1> QED
  BY <1>1 DEF LatestId, IsBounded

\* The stretch of a planned batch is not touched by later entries.
LEMMA SpanKept ==
    ASSUME NEW ends, Rising(ends), NEW more, Prolongs(ends, more), NEW id \in DOMAIN ends
    PROVE  /\ EndAt(more, id) = EndAt(ends, id)
           /\ EndAt(more, id - 1) = EndAt(ends, id - 1)
           /\ Span(more, id) = Span(ends, id)
<1>1. id \in Nat /\ (id # 0 => id - 1 \in DOMAIN ends)
  BY DEF Rising, IsBounded
<1>2. id # -1 /\ (id - 1 = -1 \/ id - 1 \in DOMAIN ends)
  BY <1>1
<1>3. EndAt(more, id) = EndAt(ends, id) /\ EndAt(more, id - 1) = EndAt(ends, id - 1)
  BY <1>2 DEF EndAt, Prolongs
<1> QED
  BY <1>3 DEF Span

\* The ends are natural numbers, and a batch begins where it should.
LEMMA EndAtType ==
    ASSUME NEW ends, Rising(ends), NEW id \in DOMAIN ends
    PROVE  /\ id \in Nat
           /\ EndAt(ends, id) \in Nat /\ EndAt(ends, id) = ends[id]
           /\ EndAt(ends, id - 1) \in Nat
           /\ EndAt(ends, id - 1) <= EndAt(ends, id)
<1>1. id \in Nat /\ (id # 0 => id - 1 \in DOMAIN ends)
  BY DEF Rising, IsBounded
<1>2. ends[id] \in Nat /\ EndAt(ends, id) = ends[id]
  BY <1>1 DEF Rising, EndAt
<1>3. CASE id = 0
  BY <1>2, <1>3 DEF EndAt
<1>4. CASE id # 0
  BY <1>1, <1>2, <1>4 DEF EndAt, Rising
<1> QED
  BY <1>1, <1>2, <1>3, <1>4

\* Two batches have no file in common.
LEMMA SpansDisjoint ==
    ASSUME NEW ends, Rising(ends), NEW i \in DOMAIN ends, NEW j \in DOMAIN ends, i # j
    PROVE  Span(ends, i) \cap Span(ends, j) = {}
<1>1. ASSUME NEW a \in DOMAIN ends, NEW b \in DOMAIN ends, a < b
      PROVE  Span(ends, a) \cap Span(ends, b) = {}
  <2>1. a \in Nat /\ b \in Nat /\ b - 1 \in DOMAIN ends /\ a <= b - 1
    BY <1>1 DEF Rising, IsBounded
  <2>2. EndAt(ends, a) <= EndAt(ends, b - 1)
    BY <2>1 DEF Rising, EndAt
  <2>3. /\ EndAt(ends, a - 1) \in Nat /\ EndAt(ends, a) \in Nat
        /\ EndAt(ends, b - 1) \in Nat /\ EndAt(ends, b) \in Nat
    BY EndAtType
  <2> QED
    BY <2>2, <2>3 DEF Span, Stretch
<1>2. i \in Nat /\ j \in Nat
  BY DEF Rising, IsBounded
<1>3. CASE i < j
  BY <1>1, <1>3
<1>4. CASE j < i
  BY <1>1, <1>4
<1> QED
  BY <1>2, <1>3, <1>4

\* The files of a planned batch are files of bronze.
LEMMA FilesAtExist ==
    ASSUME ListedOnce, Planned, NEW id \in DOMAIN cp.ends
    PROVE  /\ Span(cp.ends, id) \subseteq DOMAIN listed
           /\ FilesAt(listed, cp.ends, id) \subseteq Files
<1>1. /\ EndAt(cp.ends, id) \in Nat /\ EndAt(cp.ends, id - 1) \in Nat
      /\ EndAt(cp.ends, id) <= Len(listed)
  BY EndAtType DEF LogsInOrder, Planned
<1>2. Len(listed) \in Nat /\ DOMAIN listed = 1 .. Len(listed)
  BY DEF ListedOnce
<1>3. Span(cp.ends, id) \subseteq DOMAIN listed
  BY <1>1, <1>2 DEF Span, Stretch
<1>4. \A i \in DOMAIN listed : listed[i] \in Files
  BY DEF ListedOnce
<1> QED
  BY <1>3, <1>4 DEF FilesAt

\* Nothing that happens later changes what a planned batch comes to.
LEMMA BatchKept ==
    ASSUME BronzeDelivers, ListedOnce, Planned,
           Prolongs(topic, topic'), Prolongs(bronze, bronze'), Prolongs(listed, listed'),
           Prolongs(cp.ends, cp'.ends), NEW id \in DOMAIN cp.ends
    PROVE  CleanAt(topic', bronze', FilesAt(listed', cp'.ends, id))
             = CleanAt(topic, bronze, FilesAt(listed, cp.ends, id))
<1>1. Span(cp'.ends, id) = Span(cp.ends, id)
  BY SpanKept DEF LogsInOrder, Planned
<1>2. \A i \in Span(cp.ends, id) : listed'[i] = listed[i]
  BY FilesAtExist DEF Prolongs
<1>3. FilesAt(listed', cp'.ends, id) = FilesAt(listed, cp.ends, id)
  BY <1>1, <1>2 DEF FilesAt
<1> DEFINE F == FilesAt(listed, cp.ends, id)
<1>4. F \subseteq Files
  BY FilesAtExist
<1> HIDE DEF F
<1>5. \A f \in F : bronze'[f] = bronze[f] /\ bronze[f] \subseteq DOMAIN topic
  BY <1>4 DEF Files, Prolongs, BronzeDelivers
<1>6. \A o \in DOMAIN topic : topic'[o] = topic[o]
  BY DEF Prolongs
<1>7. UNION {bronze'[f] : f \in F} = UNION {bronze[f] : f \in F}
  BY <1>5
<1>8. UNION {bronze[f] : f \in F} \subseteq DOMAIN topic
  BY <1>5
<1>9. CleanAt(topic', bronze', F) = CleanAt(topic, bronze, F)
  BY <1>6, <1>7, <1>8 DEF CleanAt
<1> QED
  BY <1>3, <1>9 DEF F

\* Two batches have no reading in common.
LEMMA BatchesDisjoint ==
    ASSUME BronzeDelivers, ListedOnce, Planned,
           NEW i \in DOMAIN cp.ends, NEW j \in DOMAIN cp.ends, i # j
    PROVE  CleanAt(topic, bronze, FilesAt(listed, cp.ends, i))
             \cap CleanAt(topic, bronze, FilesAt(listed, cp.ends, j)) = {}
<1> DEFINE F == FilesAt(listed, cp.ends, i)
           G == FilesAt(listed, cp.ends, j)
<1>1. Span(cp.ends, i) \cap Span(cp.ends, j) = {}
  BY SpansDisjoint DEF Planned
<1>2. /\ Span(cp.ends, i) \subseteq DOMAIN listed
      /\ Span(cp.ends, j) \subseteq DOMAIN listed
      /\ F \subseteq Files /\ G \subseteq Files
  BY FilesAtExist
<1>3. \A a, b \in DOMAIN listed : a # b => listed[a] # listed[b]
  BY DEF ListedOnce
<1>4. \A f \in F, g \in G : f # g
  BY <1>1, <1>2, <1>3 DEF FilesAt
<1>5. \A f, g \in Files : f # g => bronze[f] \cap bronze[g] = {}
  BY DEF BronzeDelivers
<1> HIDE DEF F, G
<1>6. \A f \in F, g \in G : bronze[f] \cap bronze[g] = {}
  BY <1>2, <1>4, <1>5
<1>7. CleanAt(topic, bronze, F) \cap CleanAt(topic, bronze, G) = {}
  BY <1>6 DEF CleanAt
<1> QED
  BY <1>7 DEF F, G

\* A runner that does nothing is still in order when the others have gone on.
LEMMA OrderKept ==
    ASSUME NEW ends, Rising(ends), NEW more, Prolongs(ends, more),
           NEW published, published \subseteq DOMAIN ends,
           NEW later, published \subseteq later,
           NEW length \in Nat, NEW longer \in Nat, length <= longer,
           NEW x \in RunType, InOrder(x, ends, published, length)
    PROVE  InOrder(x, more, later, longer)
<1>1. x.upto \in Nat /\ x.id \in Nat
  BY DEF RunType
<1>2. x.pc \in {"plan", "sink", "publish", "commit", "done"} => x.upto <= longer
  BY <1>1 DEF InOrder
<1>3. x.pc \in {"sink", "publish", "commit"} =>
         /\ x.id \in DOMAIN more
         /\ x.from = EndAt(more, x.id - 1) /\ x.to = EndAt(more, x.id)
  BY SpanKept DEF InOrder, Prolongs
<1>4. x.pc = "commit" => x.id \in later
  BY DEF InOrder
<1>5. x.pc = "plan" =>
         /\ x.id = 0 \/ x.id - 1 \in later
         /\ x.from = EndAt(more, x.id - 1)
  <2> SUFFICES ASSUME x.pc = "plan"
               PROVE  /\ x.id = 0 \/ x.id - 1 \in later
                      /\ x.from = EndAt(more, x.id - 1)
    OBVIOUS
  <2>1. x.from = EndAt(ends, x.id - 1) /\ (x.id = 0 \/ x.id - 1 \in published)
    BY DEF InOrder
  <2>2. CASE x.id = 0
    BY <2>1, <2>2 DEF EndAt
  <2>3. CASE x.id - 1 \in published
    BY <2>1, <2>3, SpanKept
  <2> QED
    BY <2>1, <2>2, <2>3
<1>6. x.pc = "done" =>
         \A i \in 1 .. x.upto : \E id \in later : i \in Span(more, id)
  BY SpanKept DEF InOrder
<1> QED
  BY <1>2, <1>3, <1>4, <1>5, <1>6 DEF InOrder

-----------------------------------------------------------------------------
(* The steps                                                               *)

\* A step that only adds to the topic, to bronze or to the log of the source
\* leaves what concerns the sink and the runners as it is.
LEMMA AddingKeeps ==
    ASSUME Inv, BronzeDelivers', ListedOnce',
           Prolongs(topic, topic'), Prolongs(bronze, bronze'), Prolongs(listed, listed'),
           Len(listed) <= Len(listed'), UNCHANGED <<silver, cp>>
    PROVE  /\ LogsInOrder' /\ NoGap' /\ SinkIsFiltered'
           /\ \A r \in Runners : run'[r] = run[r] =>
                InOrder(run'[r], cp'.ends, DOMAIN silver', Len(listed'))
<1>1. Len(listed) \in Nat /\ Len(listed') \in Nat
  BY DEF Inv, ListedOnce
<1>2. \A id \in DOMAIN cp.ends : cp.ends[id] \in Nat /\ cp.ends[id] <= Len(listed)
  BY DEF Inv, LogsInOrder, Planned, Rising
<1>3. LogsInOrder'
  BY <1>1, <1>2 DEF Inv, LogsInOrder, Planned
<1>4. NoGap'
  BY DEF Inv, NoGap
<1>5. Prolongs(cp.ends, cp'.ends) /\ DOMAIN silver \subseteq DOMAIN cp.ends
  BY DEF Prolongs, Inv, LogsInOrder, Planned
<1>6. SinkIsFiltered'
  BY <1>5, BatchKept DEF Inv, SinkIsFiltered, LogsInOrder
<1>7. ASSUME NEW r \in Runners, run'[r] = run[r]
      PROVE  InOrder(run'[r], cp'.ends, DOMAIN silver', Len(listed'))
  BY <1>1, <1>5, <1>7, OrderKept DEF Inv, LogsInOrder, Planned, RunnersInOrder
<1> QED
  BY <1>3, <1>4, <1>6, <1>7

\* Such a step of others, which leaves the log of the source alone as well.
LEMMA GrowthKeeps ==
    ASSUME Inv, BronzeDelivers', Prolongs(topic, topic'), Prolongs(bronze, bronze'),
           UNCHANGED <<listed, silver, cp, run>>
    PROVE  Inv'
<1>1. Prolongs(listed, listed') /\ Len(listed) <= Len(listed')
  BY DEF Prolongs, Inv, ListedOnce
<1>2. ListedOnce'
  BY DEF Inv, ListedOnce, Prolongs, Files
<1> QED
  BY <1>1, <1>2, AddingKeeps DEF Inv, RunnersInOrder

\* Bronze batches stay as they were published.
LEMMA BronzeGrows ==
    ASSUME BronzeDelivers, PublishBronze
    PROVE  Prolongs(bronze, bronze')
<1>1. LatestId(Files) + 1 \notin Files
  <2>1. LatestId(Files) \in Nat \cup {-1} /\ \A f \in Files : f <= LatestId(Files)
    BY LatestIdExists DEF BronzeDelivers
  <2> QED
    BY <2>1
<1> DEFINE new == LatestId(Files) + 1
<1>2. PICK batch :
          bronze' = [f \in Files \cup {new} |-> IF f = new THEN batch ELSE bronze[f]]
  BY DEF PublishBronze, Bronze!DeliverAs, Files
<1> HIDE DEF new
<1> QED
  BY <1>1, <1>2 DEF Prolongs, Files, new

LEMMA PublishBronzeStep == ASSUME Inv, PublishBronze PROVE Inv'
<1> DEFINE new == LatestId(Files) + 1
<1>1. UNCHANGED <<topic, listed, silver, cp, run>>
  BY DEF PublishBronze, silverVars, queryVars
<1>2. IsBounded(Files)
  BY DEF Inv, BronzeDelivers
<1>3. new \in Nat /\ new \notin Files
  <2>1. LatestId(Files) \in Nat \cup {-1} /\ \A f \in Files : f <= LatestId(Files)
    BY <1>2, LatestIdExists
  <2> QED
    BY <2>1
<1>4. PICK batch \in SUBSET (DOMAIN topic \ UNION {bronze[f] : f \in Files}) :
          bronze' = [f \in Files \cup {new} |-> IF f = new THEN batch ELSE bronze[f]]
  BY DEF PublishBronze, Bronze!DeliverAs, Bronze!Delivered, Files
<1> HIDE DEF new
<1>5. /\ Files' = Files \cup {new} /\ bronze'[new] = batch
      /\ \A f \in Files : bronze'[f] = bronze[f]
  BY <1>3, <1>4 DEF Files
<1>6. IsBounded(Files')
  BY <1>2, <1>3, <1>5, BoundedEntry
<1>7. BronzeDelivers'
  <2>1. \A f \in Files' : bronze'[f] \subseteq DOMAIN topic'
    BY <1>1, <1>4, <1>5 DEF Inv, BronzeDelivers
  <2>2. ASSUME NEW f \in Files', NEW g \in Files', f # g
        PROVE  bronze'[f] \cap bronze'[g] = {}
    <3>1. \A h \in Files : bronze[h] \cap batch = {}
      BY <1>4
    <3> QED
      BY <1>5, <2>2, <3>1 DEF Inv, BronzeDelivers
  <2> QED
    BY <1>1, <1>6, <2>1, <2>2 DEF Inv, BronzeDelivers
<1>8. Prolongs(topic, topic') /\ Prolongs(bronze, bronze')
  BY <1>1, <1>5 DEF Prolongs, Files
<1> QED
  BY <1>1, <1>7, <1>8, GrowthKeeps

LEMMA ProduceStep == ASSUME Inv, NEW m \in Readings, Produce(m) PROVE Inv'
<1>1. UNCHANGED <<bronze, listed, silver, cp, run>> /\ topic' = Append(topic, m)
  BY DEF Produce, silverVars, queryVars
<1>2. topic \in Seq(Readings)
  BY DEF Inv, BronzeDelivers
<1>3. /\ topic' \in Seq(Readings) /\ DOMAIN topic \subseteq DOMAIN topic'
      /\ \A o \in DOMAIN topic : topic'[o] = topic[o]
  BY <1>1, <1>2
<1>4. Prolongs(topic, topic') /\ Prolongs(bronze, bronze')
  BY <1>1, <1>3 DEF Prolongs
<1>5. BronzeDelivers'
  BY <1>1, <1>3 DEF Inv, BronzeDelivers, Files
<1> QED
  BY <1>1, <1>4, <1>5, GrowthKeeps

\* A step of one runner that leaves the logs alone.
LEMMA QuietStep ==
    ASSUME Inv, UNCHANGED <<topic, bronze, listed, silver, cp>>,
           NEW r \in Runners, NEW x \in RunType, run' = [run EXCEPT ![r] = x],
           InOrder(x, cp.ends, DOMAIN silver, Len(listed))
    PROVE  Inv'
<1>1. BronzeDelivers' /\ ListedOnce' /\ LogsInOrder' /\ NoGap' /\ SinkIsFiltered'
  BY DEF Inv, BronzeDelivers, ListedOnce, LogsInOrder, Planned, NoGap,
         SinkIsFiltered, Files
<1>2. RunnersInOrder'
  BY DEF Inv, RunnersInOrder
<1> QED
  BY <1>1, <1>2 DEF Inv

LEMMA CleanseStep == ASSUME Inv, NEW r \in Runners, Cleanse(r) PROVE Inv'
<1> DEFINE x == RunAt("start", 0, 0, 0, 0)
<1>1. UNCHANGED <<topic, bronze, listed, silver, cp>> /\ run' = [run EXCEPT ![r] = x]
  BY DEF Cleanse, Launch
<1>2. x \in RunType /\ x.pc = "start"
  BY DEF RunAt, RunType
<1>3. InOrder(x, cp.ends, DOMAIN silver, Len(listed))
  BY <1>2 DEF InOrder
<1> HIDE DEF x
<1> QED
  BY <1>1, <1>2, <1>3, QuietStep

LEMMA DieStep == ASSUME Inv, NEW r \in Runners, Die(r) PROVE Inv'
<1> DEFINE x == [run[r] EXCEPT !.pc = "off"]
<1>1. UNCHANGED <<topic, bronze, listed, silver, cp>> /\ run' = [run EXCEPT ![r] = x]
  BY DEF Die, Abort, Goto, Inv, RunnersInOrder
<1>2. x \in RunType /\ x.pc = "off"
  BY DEF Inv, RunnersInOrder, RunType
<1>3. InOrder(x, cp.ends, DOMAIN silver, Len(listed))
  BY <1>2 DEF InOrder
<1> HIDE DEF x
<1> QED
  BY <1>1, <1>2, <1>3, QuietStep

\* The query has read all there was: what it looked at is in published files.
LEMMA FinishStep ==
    ASSUME Inv, NEW r \in Runners, Finish(r), UNCHANGED <<topic, bronze, listed, silver>>
    PROVE  Inv'
<1> DEFINE x == [run[r] EXCEPT !.pc = "done"]
<1>1. /\ UNCHANGED <<topic, bronze, listed, silver, cp>> /\ run' = [run EXCEPT ![r] = x]
      /\ run[r].pc = "plan" /\ run[r].from >= run[r].upto
  BY DEF Finish, Goto, At, Inv, RunnersInOrder
<1>2. run[r] \in RunType /\ InOrder(run[r], cp.ends, DOMAIN silver, Len(listed))
  BY DEF Inv, RunnersInOrder
<1>3. x \in RunType /\ x.pc = "done" /\ x.upto = run[r].upto
  BY <1>2 DEF RunType
<1>4. run[r].upto \in Nat /\ run[r].id \in Nat /\ run[r].upto <= Len(listed)
  BY <1>1, <1>2 DEF RunType, InOrder
<1>5. ASSUME NEW i \in 1 .. run[r].upto
      PROVE  \E id \in DOMAIN silver : i \in Span(cp.ends, id)
  <2> DEFINE last == run[r].id - 1
  <2>1. run[r].from = EndAt(cp.ends, last) /\ (run[r].id = 0 \/ last \in DOMAIN silver)
    BY <1>1, <1>2 DEF InOrder
  <2>2. run[r].id # 0
    BY <1>1, <1>4, <1>5, <2>1 DEF EndAt
  <2>3. last \in DOMAIN silver /\ last \in DOMAIN cp.ends /\ Rising(cp.ends)
    BY <2>1, <2>2 DEF Inv, LogsInOrder, Planned
  <2>4. i \in 1 .. cp.ends[last]
    BY <1>1, <1>4, <1>5, <2>1, <2>3, EndAtType
  <2>5. PICK j \in 0 .. last : i \in Span(cp.ends, j)
    BY <2>3, <2>4 DEF Inv, NoGap
  <2>6. j = last \/ j \in 0 .. (last - 1)
    BY <1>4
  <2>7. j \in DOMAIN silver
    BY <2>3, <2>6 DEF Inv, LogsInOrder, Planned
  <2> QED
    BY <2>5, <2>7
<1>6. InOrder(x, cp.ends, DOMAIN silver, Len(listed))
  BY <1>3, <1>4, <1>5 DEF InOrder
<1> HIDE DEF x
<1> QED
  BY <1>1, <1>3, <1>6, QuietStep

\* A batch is skipped only when the sink has it.
LEMMA SkipStep ==
    ASSUME Inv, NEW r \in Runners, SkipBatch(r, silver),
           UNCHANGED <<topic, bronze, listed, silver>>
    PROVE  Inv'
<1> DEFINE x == [run[r] EXCEPT !.pc = "commit"]
           latest == LatestId(DOMAIN silver)
<1>1. /\ UNCHANGED <<topic, bronze, listed, silver, cp>> /\ run' = [run EXCEPT ![r] = x]
      /\ run[r].pc = "sink" /\ run[r].id <= latest
  BY DEF SkipBatch, Goto, At, Inv, RunnersInOrder
<1>2. run[r] \in RunType /\ InOrder(run[r], cp.ends, DOMAIN silver, Len(listed))
  BY DEF Inv, RunnersInOrder
<1>3. /\ x \in RunType /\ x.pc = "commit" /\ x.upto = run[r].upto /\ x.id = run[r].id
      /\ x.from = run[r].from /\ x.to = run[r].to
  BY <1>2 DEF RunType
<1>4. IsBounded(DOMAIN silver)
  BY BoundedSubset DEF Inv, LogsInOrder, Planned, Rising
<1>5. latest \in DOMAIN silver \cup {-1} /\ latest \in Nat \cup {-1}
  BY <1>4, LatestIdExists
<1> HIDE DEF latest
<1>6. run[r].id \in Nat
  BY <1>2 DEF RunType
<1>7. latest \in DOMAIN silver /\ latest \in DOMAIN cp.ends
  BY <1>1, <1>5, <1>6 DEF Inv, LogsInOrder, Planned
<1>8. run[r].id = latest \/ run[r].id \in 0 .. (latest - 1)
  BY <1>1, <1>5, <1>6
<1>9. run[r].id \in DOMAIN silver
  BY <1>7, <1>8 DEF Inv, LogsInOrder, Planned
<1>10. InOrder(x, cp.ends, DOMAIN silver, Len(listed))
  BY <1>1, <1>2, <1>3, <1>9 DEF InOrder
<1> HIDE DEF x
<1> QED
  BY <1>1, <1>3, <1>10, QuietStep

LEMMA WriteFilesStep ==
    ASSUME Inv, NEW r \in Runners, WriteFiles(r, silver),
           UNCHANGED <<topic, bronze, listed, silver>>
    PROVE  Inv'
<1> DEFINE x == [run[r] EXCEPT !.pc = "publish"]
<1>1. /\ UNCHANGED <<topic, bronze, listed, silver, cp>> /\ run' = [run EXCEPT ![r] = x]
      /\ run[r].pc = "sink"
  BY DEF WriteFiles, Goto, At, Inv, RunnersInOrder
<1>2. run[r] \in RunType /\ InOrder(run[r], cp.ends, DOMAIN silver, Len(listed))
  BY DEF Inv, RunnersInOrder
<1>3. /\ x \in RunType /\ x.pc = "publish" /\ x.upto = run[r].upto /\ x.id = run[r].id
      /\ x.from = run[r].from /\ x.to = run[r].to
  BY <1>2 DEF RunType
<1>4. InOrder(x, cp.ends, DOMAIN silver, Len(listed))
  BY <1>1, <1>2, <1>3 DEF InOrder
<1> HIDE DEF x
<1> QED
  BY <1>1, <1>3, <1>4, QuietStep

LEMMA IndexSet ==
    ASSUME NEW n \in Nat
    PROVE  IsFiniteSet(1 .. n) /\ Cardinality(1 .. n) = n
<1> DEFINE size == Cardinality(1 .. n)
<1>1. 1 \in Int /\ n \in Int
  OBVIOUS
<1>2. IsFiniteSet(1 .. n) /\ size = IF 1 > n THEN 0 ELSE n - 1 + 1
  BY <1>1, FS_Interval, Zenon
<1> HIDE DEF size
<1>3. size = n
  BY <1>2
<1> QED
  BY <1>2, <1>3 DEF size

\* The new files go to the end of the source's log, each once.
LEMMA ListingEffect ==
    ASSUME BronzeDelivers, ListedOnce,
           NEW more \in [1 .. Cardinality(Files \ Found) -> Files \ Found],
           {more[i] : i \in DOMAIN more} = Files \ Found,
           listed' = listed \o more, UNCHANGED bronze
    PROVE  /\ ListedOnce' /\ Prolongs(listed, listed')
           /\ Len(listed) \in Nat /\ Len(listed') \in Nat /\ Len(listed) <= Len(listed')
<1> DEFINE S == Files \ Found
           n == Cardinality(S)
<1>1. IsFiniteSet(S)
  <2>1. PICK b \in Nat : Files \subseteq Nat /\ \A f \in Files : f <= b
    BY DEF BronzeDelivers, IsBounded
  <2>2. S \in SUBSET Nat /\ \A f \in S : f <= b
    BY <2>1
  <2> HIDE DEF S
  <2> QED
    BY <2>2, FS_BoundedSetOfNaturals
<1>2. n \in Nat /\ more \in [1 .. n -> S] /\ \A f \in S : \E i \in 1 .. n : more[i] = f
  <2>1. n \in Nat
    BY <1>1, FS_CardinalityType
  <2> QED
    BY <2>1
<1>3. S \subseteq Files /\ \A f \in S : f \notin Found
  OBVIOUS
<1> HIDE DEF S, n
<1>4. \A i, j \in 1 .. n : i # j => more[i] # more[j]
  <2>1. more \in Surjection(1 .. n, S)
    BY <1>2, Zenon DEF Surjection
  <2>2. IsFiniteSet(1 .. n) /\ Cardinality(1 .. n) = n
    BY <1>2, IndexSet
  <2>3. more \in Injection(1 .. n, S)
    BY <1>1, <2>1, <2>2, FS_SurjSameCardinalityImpliesInj DEF n
  <2> QED
    BY <2>3 DEF Injection, IsInjective
<1>5. /\ listed \in Seq(Files) /\ Len(listed) \in Nat /\ DOMAIN listed = 1 .. Len(listed)
      /\ \A i \in DOMAIN listed : listed[i] \in Found
  BY DEF ListedOnce, Found
<1>6. more \in Seq(Files) /\ Len(more) = n
  <2>1. more \in [1 .. n -> Files]
    BY <1>2, <1>3
  <2> QED
    BY <1>2, <2>1
<1>7. /\ listed' \in Seq(Files) /\ Len(listed') = Len(listed) + n
      /\ DOMAIN listed' = 1 .. (Len(listed) + n)
      /\ \A i \in 1 .. Len(listed) : listed'[i] = listed[i]
      /\ \A i \in (Len(listed) + 1) .. (Len(listed) + n) :
            listed'[i] = more[i - Len(listed)]
  <2>1. /\ listed' \in Seq(Files) /\ Len(listed') = Len(listed) + Len(more)
        /\ \A i \in 1 .. (Len(listed) + Len(more)) :
              listed'[i] = IF i <= Len(listed) THEN listed[i] ELSE more[i - Len(listed)]
    BY <1>5, <1>6, ConcatProperties
  <2>2. DOMAIN listed' = 1 .. Len(listed')
    BY <2>1, LenProperties
  <2> QED
    BY <1>2, <1>5, <1>6, <2>1, <2>2
<1>8. ASSUME NEW i \in DOMAIN listed', NEW j \in DOMAIN listed', i < j
      PROVE  listed'[i] # listed'[j]
  <2>1. i \in Nat /\ j \in Nat
    BY <1>7
  <2>2. CASE j <= Len(listed)
    BY <1>5, <1>7, <1>8, <2>1, <2>2 DEF ListedOnce
  <2>3. CASE i <= Len(listed) /\ j > Len(listed)
    <3>1. listed'[i] \in Found
      BY <1>5, <1>7, <2>1, <2>3
    <3>2. listed'[j] = more[j - Len(listed)] /\ j - Len(listed) \in 1 .. n
      BY <1>2, <1>5, <1>7, <2>1, <2>3
    <3>3. listed'[j] \notin Found
      BY <1>2, <1>3, <3>2
    <3> QED
      BY <3>1, <3>3
  <2>4. CASE i > Len(listed)
    <3>1. i - Len(listed) \in 1 .. n /\ j - Len(listed) \in 1 .. n
      BY <1>2, <1>5, <1>7, <1>8, <2>1, <2>4
    <3>2. listed'[i] = more[i - Len(listed)] /\ listed'[j] = more[j - Len(listed)]
      BY <1>2, <1>5, <1>7, <1>8, <2>1, <2>4
    <3>3. i - Len(listed) # j - Len(listed)
      BY <1>5, <1>8, <2>1
    <3> QED
      BY <1>4, <3>1, <3>2, <3>3
  <2> QED
    BY <1>5, <2>1, <2>2, <2>3, <2>4
<1>9. \A i, j \in DOMAIN listed' : i # j => listed'[i] # listed'[j]
  <2>1. \A i \in DOMAIN listed' : i \in Nat
    BY <1>7
  <2>2. ASSUME NEW i \in DOMAIN listed', NEW j \in DOMAIN listed', i # j
        PROVE  listed'[i] # listed'[j]
    <3>1. i < j \/ j < i
      BY <2>1, <2>2
    <3> QED
      BY <1>8, <3>1
  <2> QED
    BY <2>2
<1>10. ListedOnce'
  BY <1>7, <1>9 DEF ListedOnce, Files
<1> QED
  BY <1>2, <1>5, <1>7, <1>10 DEF Prolongs

\* The query picks up the last planned batch, or goes on after it.
LEMMA RecoverEffect ==
    ASSUME Inv, NEW r \in Runners, NEW length \in Nat, Len(listed) <= length,
           Recover(r, length)
    PROVE  /\ \E x \in RunType : /\ run' = [run EXCEPT ![r] = x]
                                 /\ InOrder(x, cp.ends, DOMAIN silver, length)
           /\ UNCHANGED cp
<1> DEFINE last == LatestId(DOMAIN cp.ends)
           done == LatestId(cp.done)
           again == RunAt("sink", length, last, EndAt(cp.ends, last - 1), EndAt(cp.ends, last))
           next == RunAt("plan", length, last + 1, EndAt(cp.ends, last), EndAt(cp.ends, last))
<1>1. UNCHANGED cp
  BY DEF Recover
<1>2. Rising(cp.ends) /\ IsBounded(DOMAIN cp.ends) /\ IsBounded(cp.done)
  BY BoundedSubset DEF Inv, LogsInOrder, Planned, Rising
<1>3. /\ last \in DOMAIN cp.ends \cup {-1} /\ last \in Nat \cup {-1}
      /\ done \in cp.done \cup {-1}
  BY <1>2, LatestIdExists
<1>4. \/ done # last /\ last # -1 /\ run' = [run EXCEPT ![r] = again]
      \/ (done = last \/ last = -1) /\ run' = [run EXCEPT ![r] = next]
  BY DEF Recover, Resumes, LastPlanned, EndOf, EndAt
<1> HIDE DEF last, done
<1>5. CASE last # -1 /\ run' = [run EXCEPT ![r] = again]
  <2>1. last \in DOMAIN cp.ends /\ last \in Nat
    BY <1>3, <1>5
  <2>2. EndAt(cp.ends, last) \in Nat /\ EndAt(cp.ends, last - 1) \in Nat
    BY <1>2, <2>1, EndAtType
  <2>3. again \in RunType
    BY <2>1, <2>2 DEF RunType, RunAt
  <2>4. InOrder(again, cp.ends, DOMAIN silver, length)
    BY <2>1 DEF InOrder, RunAt
  <2> QED
    BY <1>1, <1>5, <2>3, <2>4
<1>6. CASE (done = last \/ last = -1) /\ run' = [run EXCEPT ![r] = next]
  <2>1. last = -1 \/ last \in DOMAIN silver
    BY <1>3, <1>6 DEF Inv, LogsInOrder, Planned
  <2>2. EndAt(cp.ends, last) \in Nat
    BY <1>2, <1>3, EndAtType DEF EndAt
  <2>3. last + 1 \in Nat /\ (last + 1) - 1 = last /\ (last = -1 => last + 1 = 0)
    BY <1>3
  <2>4. next \in RunType
    BY <2>2, <2>3 DEF RunType, RunAt
  <2>5. InOrder(next, cp.ends, DOMAIN silver, length)
    BY <2>1, <2>3 DEF InOrder, RunAt
  <2> QED
    BY <1>1, <1>6, <2>4, <2>5
<1> QED
  BY <1>4, <1>5, <1>6

LEMMA ListStep == ASSUME Inv, NEW r \in Runners, List(r) PROVE Inv'
<1>1. UNCHANGED <<topic, bronze, silver>> /\ Recover(r, Len(listed'))
  BY DEF List
<1>2. PICK more \in [1 .. Cardinality(Files \ Found) -> Files \ Found] :
          /\ {more[i] : i \in DOMAIN more} = Files \ Found
          /\ listed' = listed \o more
  BY DEF List
<1>3. BronzeDelivers /\ ListedOnce
  BY DEF Inv
<1>4. /\ ListedOnce' /\ Prolongs(listed, listed')
      /\ Len(listed) \in Nat /\ Len(listed') \in Nat /\ Len(listed) <= Len(listed')
  BY <1>1, <1>2, <1>3, ListingEffect
<1>5. UNCHANGED cp
  BY <1>1 DEF Recover
<1>6. PICK x \in RunType : /\ run' = [run EXCEPT ![r] = x]
                           /\ InOrder(x, cp.ends, DOMAIN silver, Len(listed'))
  BY <1>1, <1>4, RecoverEffect
<1>7. BronzeDelivers'
  BY <1>1, <1>3 DEF BronzeDelivers, Files
<1>8. Prolongs(topic, topic') /\ Prolongs(bronze, bronze')
  BY <1>1 DEF Prolongs
<1>9. /\ LogsInOrder' /\ NoGap' /\ SinkIsFiltered'
      /\ \A q \in Runners : run'[q] = run[q] =>
            InOrder(run'[q], cp'.ends, DOMAIN silver', Len(listed'))
  BY <1>1, <1>4, <1>5, <1>7, <1>8, AddingKeeps
<1>10. RunnersInOrder'
  BY <1>1, <1>5, <1>6, <1>9 DEF Inv, RunnersInOrder
<1> QED
  BY <1>4, <1>7, <1>9, <1>10 DEF Inv

\* A log in order stays so when the batch after its last is entered with an end
\* behind that of the last.
LEMMA RisingMore ==
    ASSUME NEW ends, Rising(ends), NEW new \in Nat, new \notin DOMAIN ends,
           new = 0 \/ new - 1 \in DOMAIN ends,
           NEW end \in Nat, EndAt(ends, new - 1) < end,
           NEW more, more = WithEntry(ends, new, end)
    PROVE  Rising(more) /\ Prolongs(ends, more)
<1>1. /\ DOMAIN more = DOMAIN ends \cup {new} /\ more[new] = end
      /\ \A i \in DOMAIN ends \ {new} : more[i] = ends[i]
  BY DEF WithEntry
<1>2. \A i \in DOMAIN ends : more[i] = ends[i]
  BY <1>1
<1>3. /\ DOMAIN ends \subseteq Nat /\ \A i \in DOMAIN ends : ends[i] \in Nat
      /\ \A i \in DOMAIN ends : \A j \in 0 .. i : j \in DOMAIN ends
  BY DEF Rising, IsBounded
<1>4. \A i \in DOMAIN ends : i \in Nat /\ i < new
  BY <1>3
<1>5. \A i \in DOMAIN ends : ends[i] <= end
  <2> SUFFICES ASSUME NEW i \in DOMAIN ends PROVE ends[i] <= end
    OBVIOUS
  <2>1. i \in Nat /\ i <= new - 1 /\ new # 0
    BY <1>4
  <2>2. new - 1 \in DOMAIN ends /\ new - 1 # -1
    BY <2>1
  <2>3. ends[i] <= ends[new - 1] /\ ends[i] \in Nat /\ ends[new - 1] \in Nat
    BY <2>1, <2>2 DEF Rising
  <2>4. ends[new - 1] < end
    BY <2>2 DEF EndAt
  <2> QED
    BY <2>3, <2>4
<1>6. Rising(more)
  <2>1. IsBounded(DOMAIN more)
    BY <1>1, BoundedEntry DEF Rising
  <2>2. \A i \in DOMAIN more : more[i] \in Nat
    BY <1>1, <1>2, <1>3
  <2>3. \A i \in DOMAIN more : \A j \in 0 .. i : j \in DOMAIN more
    <3>1. \A j \in 0 .. new : j = new \/ (new # 0 /\ j \in 0 .. (new - 1))
      OBVIOUS
    <3>2. new # 0 => \A j \in 0 .. (new - 1) : j \in DOMAIN ends
      BY <1>3
    <3> QED
      BY <1>1, <1>3, <3>1, <3>2
  <2>4. ASSUME NEW i \in DOMAIN more, NEW j \in DOMAIN more, i <= j
        PROVE  more[i] <= more[j]
    <3>1. CASE j = new
      BY <1>1, <1>2, <1>5, <3>1
    <3>2. CASE j # new
      <4>1. j \in DOMAIN ends /\ j < new /\ j \in Nat /\ i # new
        BY <1>1, <1>4, <2>4, <3>2
      <4> QED
        BY <1>1, <1>2, <2>4, <4>1 DEF Rising
    <3> QED
      BY <3>1, <3>2
  <2> QED
    BY <2>1, <2>2, <2>3, <2>4 DEF Rising
<1> QED
  BY <1>1, <1>2, <1>6 DEF Prolongs

\* The end of a batch is entered only behind the end of the one before, even
\* when the runner's view of the log is old.
LEMMA PlanStep ==
    ASSUME Inv, NEW r \in Runners, Plan(r), UNCHANGED <<topic, bronze, listed, silver>>
    PROVE  Inv'
<1> DEFINE id == run[r].id
           upto == run[r].upto
           x == RunAt("sink", upto, id, run[r].from, upto)
<1>1. /\ run[r].pc = "plan" /\ run[r].from < upto /\ id \notin DOMAIN cp.ends
      /\ cp'.ends = WithEntry(cp.ends, id, upto) /\ cp'.done = cp.done
      /\ cp' = [ends |-> cp'.ends, done |-> cp'.done]
      /\ run' = [run EXCEPT ![r] = x]
  <2>1. cp = [ends |-> cp.ends, done |-> cp.done]
    BY DEF Inv, LogsInOrder, Planned
  <2>2. cp' = [cp EXCEPT !.ends = WithEntry(cp.ends, id, upto)]
    BY DEF Plan
  <2>3. cp' = [ends |-> WithEntry(cp.ends, id, upto), done |-> cp.done]
    BY <2>1, <2>2
  <2> QED
    BY <2>3 DEF Plan, At, Inv, RunnersInOrder
<1>2. run[r] \in RunType /\ InOrder(run[r], cp.ends, DOMAIN silver, Len(listed))
  BY DEF Inv, RunnersInOrder
<1>3. /\ x \in RunType /\ x.pc = "sink" /\ x.upto = upto /\ x.id = id
      /\ x.from = run[r].from /\ x.to = upto
  BY <1>2 DEF RunType, RunAt
<1>4. /\ id \in Nat /\ upto \in Nat /\ run[r].from \in Nat /\ upto <= Len(listed)
      /\ run[r].from = EndAt(cp.ends, id - 1)
      /\ id = 0 \/ id - 1 \in DOMAIN silver
  BY <1>1, <1>2 DEF RunType, InOrder
<1>5. /\ Rising(cp.ends) /\ DOMAIN silver \subseteq DOMAIN cp.ends
      /\ cp.done \subseteq DOMAIN silver
      /\ \A i \in DOMAIN cp.ends : cp.ends[i] <= Len(listed)
      /\ \A i \in DOMAIN cp.ends : \A j \in 0 .. (i - 1) : j \in DOMAIN silver
  BY DEF Inv, LogsInOrder, Planned
<1> HIDE DEF id, upto, x
<1>6. /\ DOMAIN cp'.ends = DOMAIN cp.ends \cup {id} /\ cp'.ends[id] = upto
      /\ \A i \in DOMAIN cp.ends : cp'.ends[i] = cp.ends[i]
      /\ Prolongs(cp.ends, cp'.ends) /\ Rising(cp'.ends)
  <2> DEFINE ends == cp.ends
             more == cp'.ends
  <2>1. /\ Rising(ends) /\ id \in Nat /\ id \notin DOMAIN ends /\ upto \in Nat
        /\ more = WithEntry(ends, id, upto)
        /\ id = 0 \/ id - 1 \in DOMAIN ends
    BY <1>1, <1>4, <1>5
  <2>2. EndAt(ends, id - 1) < upto
    BY <1>1, <1>4 DEF upto
  <2> HIDE DEF more, ends
  <2>3. Rising(more) /\ Prolongs(ends, more)
    BY <2>1, <2>2, RisingMore
  <2>4. DOMAIN more = DOMAIN ends \cup {id} /\ more[id] = upto
    BY <2>1 DEF WithEntry
  <2> QED
    BY <2>3, <2>4 DEF more, ends, Prolongs
<1>7. \A i \in 0 .. (id - 1) : i \in DOMAIN silver
  <2>1. CASE id = 0
    BY <2>1
  <2>2. CASE id - 1 \in DOMAIN silver
    <3>1. /\ id - 1 \in DOMAIN cp.ends
          /\ \A i \in 0 .. (id - 1) : i = id - 1 \/ i \in 0 .. (id - 1 - 1)
      BY <1>4, <1>5, <2>2
    <3> QED
      BY <1>5, <2>2, <3>1
  <2> QED
    BY <1>4, <2>1, <2>2
<1>8. LogsInOrder'
  <2>1. \A i \in DOMAIN cp'.ends : cp'.ends[i] <= Len(listed')
    BY <1>4, <1>5, <1>6
  <2>2. \A i \in DOMAIN cp'.ends : \A j \in 0 .. (i - 1) : j \in DOMAIN silver'
    BY <1>5, <1>6, <1>7
  <2> QED
    BY <1>1, <1>5, <1>6, <2>1, <2>2 DEF LogsInOrder, Planned
<1>9. NoGap'
  <2>1. ASSUME NEW last \in DOMAIN cp.ends, NEW i \in 1 .. cp.ends[last]
        PROVE  \E j \in 0 .. last : i \in Span(cp'.ends, j)
    <3>1. PICK j \in 0 .. last : i \in Span(cp.ends, j)
      BY DEF Inv, NoGap
    <3>2. j \in DOMAIN cp.ends
      BY <1>5 DEF Rising
    <3>3. Span(cp'.ends, j) = Span(cp.ends, j)
      BY <1>5, <1>6, <3>2, SpanKept
    <3> QED
      BY <3>1, <3>3
  <2>2. ASSUME NEW i \in 1 .. upto
        PROVE  \E j \in 0 .. id : i \in Span(cp'.ends, j)
    <3>1. EndAt(cp'.ends, id) = upto
      BY <1>4, <1>6 DEF EndAt
    <3>2. EndAt(cp'.ends, id - 1) = EndAt(cp.ends, id - 1)
      BY <1>4, <1>5, <1>6 DEF EndAt
    <3>3. CASE i > EndAt(cp.ends, id - 1)
      <4>1. i \in Span(cp'.ends, id)
        BY <1>4, <3>1, <3>2, <3>3 DEF Span, Stretch
      <4> QED
        BY <1>4, <4>1
    <3>4. CASE i <= EndAt(cp.ends, id - 1)
      <4>1. id # 0
        BY <3>4 DEF EndAt
      <4>2. id - 1 \in DOMAIN cp.ends /\ i \in 1 .. cp.ends[id - 1]
        BY <1>4, <1>5, <3>4, <4>1 DEF EndAt
      <4>3. PICK j \in 0 .. (id - 1) : i \in Span(cp'.ends, j)
        BY <2>1, <4>2
      <4>4. j \in 0 .. id
        BY <1>4
      <4> QED
        BY <4>3, <4>4
    <3> QED
      BY <1>4, <3>3, <3>4
  <2> QED
    BY <1>6, <2>1, <2>2 DEF NoGap
<1>10. /\ Prolongs(topic, topic') /\ Prolongs(bronze, bronze') /\ Prolongs(listed, listed')
       /\ BronzeDelivers /\ ListedOnce /\ Planned
  BY DEF Prolongs, Inv, LogsInOrder
<1>11. SinkIsFiltered'
  BY <1>5, <1>6, <1>10, BatchKept DEF Inv, SinkIsFiltered
<1>12. RunnersInOrder'
  <2>1. Len(listed) \in Nat
    BY DEF Inv, ListedOnce
  <2>2. \A q \in Runners : InOrder(run[q], cp'.ends, DOMAIN silver, Len(listed))
    BY <1>5, <1>6, <2>1, OrderKept DEF Inv, RunnersInOrder
  <2>3. /\ EndAt(cp'.ends, id) = upto
        /\ EndAt(cp'.ends, id - 1) = EndAt(cp.ends, id - 1)
    BY <1>4, <1>5, <1>6 DEF EndAt
  <2>4. InOrder(x, cp'.ends, DOMAIN silver, Len(listed))
    BY <1>3, <1>4, <1>6, <2>3 DEF InOrder
  <2> QED
    BY <1>1, <1>3, <2>2, <2>4 DEF Inv, RunnersInOrder
<1>13. BronzeDelivers' /\ ListedOnce'
  BY DEF Inv, BronzeDelivers, ListedOnce, Files
<1> QED
  BY <1>8, <1>9, <1>11, <1>12, <1>13 DEF Inv

\* Only a published batch is committed.
LEMMA CommitStep ==
    ASSUME Inv, NEW r \in Runners, Commit(r), UNCHANGED <<topic, bronze, listed, silver>>
    PROVE  Inv'
<1> DEFINE id == run[r].id
           x == RunAt("plan", run[r].upto, id + 1, run[r].to, run[r].to)
<1>1. /\ run[r].pc = "commit" /\ cp'.ends = cp.ends /\ cp'.done = cp.done \cup {id}
      /\ cp' = [ends |-> cp'.ends, done |-> cp'.done]
      /\ run' = [run EXCEPT ![r] = x]
  <2>1. cp = [ends |-> cp.ends, done |-> cp.done]
    BY DEF Inv, LogsInOrder, Planned
  <2>2. cp' = [cp EXCEPT !.done = cp.done \cup {id}]
    BY DEF Commit
  <2>3. cp' = [ends |-> cp.ends, done |-> cp.done \cup {id}]
    BY <2>1, <2>2
  <2> QED
    BY <2>3 DEF Commit, At, Inv, RunnersInOrder
<1>2. run[r] \in RunType /\ InOrder(run[r], cp.ends, DOMAIN silver, Len(listed))
  BY DEF Inv, RunnersInOrder
<1>3. id \in Nat /\ run[r].to \in Nat
  BY <1>2 DEF RunType
<1>4. /\ x \in RunType /\ x.pc = "plan" /\ x.upto = run[r].upto
      /\ x.id = id + 1 /\ x.from = run[r].to
  BY <1>2, <1>3 DEF RunType, RunAt
<1>5. id \in DOMAIN silver /\ run[r].to = EndAt(cp.ends, id) /\ run[r].upto <= Len(listed)
  BY <1>1, <1>2 DEF InOrder
<1>6. InOrder(x, cp.ends, DOMAIN silver, Len(listed))
  <2>1. (id + 1) - 1 = id
    BY <1>3
  <2> HIDE DEF x, id
  <2> QED
    BY <1>4, <1>5, <2>1 DEF InOrder
<1> HIDE DEF x, id
<1>7. LogsInOrder' /\ NoGap' /\ SinkIsFiltered'
  <2>1. LogsInOrder'
    BY <1>1, <1>5 DEF Inv, LogsInOrder, Planned
  <2>2. NoGap'
    BY <1>1 DEF Inv, NoGap
  <2>3. SinkIsFiltered'
    BY <1>1 DEF Inv, SinkIsFiltered
  <2> QED
    BY <2>1, <2>2, <2>3
<1>8. BronzeDelivers' /\ ListedOnce'
  BY DEF Inv, BronzeDelivers, ListedOnce, Files
<1>9. RunnersInOrder'
  BY <1>1, <1>4, <1>6 DEF Inv, RunnersInOrder
<1> QED
  BY <1>7, <1>8, <1>9 DEF Inv

\* What a publication adds is clean, and not in the sink yet.
LEMMA PublishEffect ==
    ASSUME Inv, NEW r \in Runners, Publish(r)
    PROVE  LET id == run[r].id
               batch == CleanAt(topic, bronze, FilesAt(listed, cp.ends, id))
           IN  /\ id \in DOMAIN cp.ends /\ id \notin DOMAIN silver
               /\ silver' = WithEntry(silver, id, batch)
               /\ batch \subseteq CleanIn(Files)
               /\ \A i \in DOMAIN silver : batch \cap silver[i] = {}
<1> DEFINE id == run[r].id
           files == FilesAt(listed, cp.ends, id)
           batch == CleanAt(topic, bronze, files)
<1>1. run[r].pc = "publish" /\ id \notin DOMAIN silver
  BY DEF Publish, MayPublish, At
<1>2. /\ id \in DOMAIN cp.ends
      /\ run[r].from = EndAt(cp.ends, id - 1) /\ run[r].to = EndAt(cp.ends, id)
  BY <1>1 DEF Inv, RunnersInOrder, InOrder
<1>3. silver' = WithEntry(silver, id, batch)
  BY <1>2 DEF Publish, CleanIn, Clean, CleanAt, FilesAt, Span
<1>4. files \subseteq Files
  BY <1>2, FilesAtExist DEF Inv, LogsInOrder
<1>5. batch \subseteq CleanIn(Files)
  BY <1>4 DEF CleanAt, CleanIn, Clean
<1>6. ASSUME NEW i \in DOMAIN silver PROVE batch \cap silver[i] = {}
  <2>1. i \in DOMAIN cp.ends /\ i # id /\ BronzeDelivers /\ ListedOnce /\ Planned
    BY <1>1 DEF Inv, LogsInOrder
  <2>2. silver[i] = CleanAt(topic, bronze, FilesAt(listed, cp.ends, i))
    BY DEF Inv, SinkIsFiltered
  <2> QED
    BY <1>2, <2>1, <2>2, BatchesDisjoint
<1> QED
  BY <1>1, <1>2, <1>3, <1>5, <1>6

LEMMA PublishStep == ASSUME Inv, NEW r \in Runners, Publish(r) PROVE Inv'
<1> DEFINE id == run[r].id
           batch == CleanAt(topic, bronze, FilesAt(listed, cp.ends, id))
           x == [run[r] EXCEPT !.pc = "commit"]
<1>1. /\ run[r].pc = "publish" /\ UNCHANGED <<topic, bronze, listed, cp>>
      /\ run' = [run EXCEPT ![r] = x]
  BY DEF Publish, MayPublish, At, Goto, Inv, RunnersInOrder
<1>2. run[r] \in RunType /\ InOrder(run[r], cp.ends, DOMAIN silver, Len(listed))
  BY DEF Inv, RunnersInOrder
<1>3. /\ x \in RunType /\ x.pc = "commit" /\ x.upto = run[r].upto /\ x.id = id
      /\ x.from = run[r].from /\ x.to = run[r].to
  BY <1>2 DEF RunType
<1>4. /\ id \in DOMAIN cp.ends
      /\ id \notin DOMAIN silver
      /\ silver' = WithEntry(silver, id, batch)
  BY PublishEffect
<1> HIDE DEF batch, id
<1>5. /\ DOMAIN silver' = DOMAIN silver \cup {id} /\ silver'[id] = batch
      /\ \A i \in DOMAIN silver : silver'[i] = silver[i]
  <2>1. /\ DOMAIN WithEntry(silver, id, batch) = DOMAIN silver \cup {id}
        /\ WithEntry(silver, id, batch)[id] = batch
        /\ \A i \in DOMAIN silver \ {id} : WithEntry(silver, id, batch)[i] = silver[i]
    BY DEF WithEntry
  <2> QED
    BY <1>4, <2>1
<1>6. LogsInOrder' /\ NoGap'
  BY <1>1, <1>4, <1>5 DEF Inv, LogsInOrder, Planned, NoGap
<1>7. SinkIsFiltered'
  BY <1>1, <1>4, <1>5 DEF Inv, SinkIsFiltered, batch
<1>8. BronzeDelivers' /\ ListedOnce'
  BY <1>1 DEF Inv, BronzeDelivers, ListedOnce, Files
<1>9. RunnersInOrder'
  <2>1. Len(listed) \in Nat /\ Rising(cp.ends) /\ DOMAIN silver \subseteq DOMAIN cp.ends
    BY DEF Inv, ListedOnce, LogsInOrder, Planned
  <2>2. Prolongs(cp.ends, cp.ends) /\ DOMAIN silver \subseteq DOMAIN silver'
    BY <1>5 DEF Prolongs
  <2>3. \A q \in Runners : InOrder(run[q], cp.ends, DOMAIN silver', Len(listed))
    BY <2>1, <2>2, OrderKept DEF Inv, RunnersInOrder
  <2>4. InOrder(x, cp.ends, DOMAIN silver', Len(listed))
    BY <1>1, <1>2, <1>3, <1>5 DEF InOrder, id
  <2> HIDE DEF x
  <2> QED
    BY <1>1, <1>3, <2>3, <2>4 DEF Inv, RunnersInOrder
<1> QED
  BY <1>6, <1>7, <1>8, <1>9 DEF Inv

LEMMA InitInv == Init => Inv
<1> SUFFICES ASSUME Init PROVE Inv
  OBVIOUS
<1>1. /\ topic = <<>> /\ listed = <<>> /\ DOMAIN bronze = {} /\ DOMAIN silver = {}
      /\ cp = [ends |-> cp.ends, done |-> cp.done] /\ DOMAIN cp.ends = {} /\ cp.done = {}
      /\ run = [r \in Runners |-> Idle]
  BY DEF Init, QueryInit, NoLog, NoCheckpoint
<1>2. Idle \in RunType /\ Idle.pc = "off"
  BY DEF Idle, RunAt, RunType
<1>3. IsBounded({})
  BY DEF IsBounded
<1>4. BronzeDelivers /\ ListedOnce
  BY <1>1, <1>3 DEF BronzeDelivers, ListedOnce, Files
<1>5. LogsInOrder /\ NoGap /\ SinkIsFiltered
  BY <1>1, <1>3 DEF LogsInOrder, Planned, Rising, NoGap, SinkIsFiltered
<1>6. RunnersInOrder
  BY <1>1, <1>2 DEF RunnersInOrder, InOrder
<1> QED
  BY <1>4, <1>5, <1>6 DEF Inv

LEMMA NextInv == Inv /\ [Next]_vars => Inv'
<1> SUFFICES ASSUME Inv, [Next]_vars PROVE Inv'
  OBVIOUS
<1>1. CASE PublishBronze
  BY <1>1, PublishBronzeStep
<1>2. CASE \E m \in Readings : Produce(m)
  BY <1>2, ProduceStep
<1>3. ASSUME NEW r \in Runners, Cleanse(r) PROVE Inv'
  BY <1>3, CleanseStep
<1>4. ASSUME NEW r \in Runners, Advance(r) PROVE Inv'
  <2>1. CASE List(r)
    BY <2>1, ListStep
  <2>2. CASE Publish(r)
    BY <2>2, PublishStep
  <2>3. CASE Plan(r) /\ UNCHANGED <<topic, bronze, listed, silver>>
    BY <2>3, PlanStep
  <2>4. CASE Commit(r) /\ UNCHANGED <<topic, bronze, listed, silver>>
    BY <2>4, CommitStep
  <2>5. CASE Finish(r) /\ UNCHANGED <<topic, bronze, listed, silver>>
    BY <2>5, FinishStep
  <2>6. CASE SkipBatch(r, silver) /\ UNCHANGED <<topic, bronze, listed, silver>>
    BY <2>6, SkipStep
  <2>7. CASE WriteFiles(r, silver) /\ UNCHANGED <<topic, bronze, listed, silver>>
    BY <2>7, WriteFilesStep
  <2> QED
    BY <1>4, <2>1, <2>2, <2>3, <2>4, <2>5, <2>6, <2>7 DEF Advance, Protocol
<1>5. ASSUME NEW r \in Runners, Die(r) PROVE Inv'
  BY <1>5, DieStep
<1>6. CASE UNCHANGED vars
  <2>1. UNCHANGED <<topic, bronze, listed, silver, cp, run>>
    BY <1>6 DEF vars, silverVars, queryVars
  <2> QED
    BY <2>1
       DEF Inv, BronzeDelivers, ListedOnce, LogsInOrder, Planned, NoGap, SinkIsFiltered,
                RunnersInOrder, Files, Planned
<1> QED
  BY <1>1, <1>2, <1>3, <1>4, <1>5, <1>6 DEF Next

LEMMA SilverInvariant == Spec => []Inv
BY InitInv, NextInv, PTL DEF Spec

-----------------------------------------------------------------------------

\* What is published and what the runs have behind them is what bronze holds.
LEMMA InvMeansClean == Inv => SuccessMeansClean
<1> SUFFICES ASSUME Inv, NEW r \in Runners, At(r, "done"),
                    NEW o \in CleanIn({listed[i] : i \in 1 .. run[r].upto})
             PROVE  o \in UNION EntrySets(silver)
  BY DEF SuccessMeansClean
<1>1. PICK i \in 1 .. run[r].upto : o \in bronze[listed[i]]
  BY DEF CleanIn
<1>2. SilverKeeps(topic[o].type, topic[o].watts)
  BY DEF CleanIn, Clean
<1>3. PICK id \in DOMAIN silver : i \in Span(cp.ends, id)
  BY DEF At, Inv, RunnersInOrder, InOrder
<1>4. o \in CleanAt(topic, bronze, FilesAt(listed, cp.ends, id))
  BY <1>1, <1>2, <1>3 DEF CleanAt, FilesAt
<1>5. o \in silver[id]
  BY <1>4 DEF Inv, SinkIsFiltered
<1> QED
  BY <1>3, <1>5 DEF EntrySets

\* However many runs overlap and die, and whatever bronze publishes meanwhile:
\* once a run has ended well, every clean reading in the files that were there
\* when it began is in historical_parquet.
THEOREM SilverComplete == Spec => []SuccessMeansClean
BY InvMeansClean, SilverInvariant, PTL

-----------------------------------------------------------------------------

\* Clean readings stay clean readings; a longer topic alone adds none.
LEMMA CleanStays ==
    ASSUME BronzeDelivers, Prolongs(topic, topic'), Prolongs(bronze, bronze')
    PROVE  /\ CleanIn(Files) \subseteq CleanIn(Files)'
           /\ bronze' = bronze => CleanIn(Files)' = CleanIn(Files)
<1>1. \A f \in Files :
         f \in Files' /\ bronze'[f] = bronze[f] /\ bronze[f] \subseteq DOMAIN topic
  BY DEF BronzeDelivers, Prolongs, Files
<1>2. \A o \in DOMAIN topic : topic'[o] = topic[o]
  BY DEF Prolongs
<1>3. CleanIn(Files) \subseteq CleanIn(Files)'
  BY <1>1, <1>2 DEF CleanIn, Clean
<1>4. ASSUME bronze' = bronze PROVE CleanIn(Files)' = CleanIn(Files)
  <2>1. Files' = Files
    BY <1>4 DEF Files
  <2> QED
    BY <1>1, <1>2, <1>4, <2>1 DEF CleanIn, Clean
<1> QED
  BY <1>3, <1>4

\* historical_parquet is an append-only feed of the clean readings of bronze:
\* a publication delivers only what was not delivered, and no other step, no
\* death and no second run touches what is there.
THEOREM SilverImplementsFeed == Spec => SilverIsFeed
<1>1. Init => Feed!Init
  BY DEF Init, Feed!Init, NoLog, CleanIn, Files
<1>2. ASSUME Inv, [Next]_vars
      PROVE  [Feed!Next]_<<CleanIn(Files), silver>>
  <2>1. CASE PublishBronze
    <3>1. UNCHANGED <<topic, silver>> /\ BronzeDelivers
      BY <1>2, <2>1 DEF PublishBronze, silverVars, Inv
    <3>2. Prolongs(topic, topic') /\ Prolongs(bronze, bronze')
      BY <2>1, <3>1, BronzeGrows DEF Prolongs
    <3>3. CleanIn(Files) \subseteq CleanIn(Files)'
      BY <3>1, <3>2, CleanStays
    <3> QED
      BY <3>1, <3>3 DEF Feed!Next, Feed!Grow
  <2>2. ASSUME NEW m \in Readings, Produce(m)
        PROVE  UNCHANGED <<CleanIn(Files), silver>>
    <3>1. UNCHANGED <<bronze, silver>> /\ topic' = Append(topic, m) /\ BronzeDelivers
      BY <1>2, <2>2 DEF Produce, silverVars, Inv
    <3>2. Prolongs(topic, topic') /\ Prolongs(bronze, bronze')
      BY <3>1 DEF BronzeDelivers, Prolongs
    <3> QED
      BY <3>1, <3>2, CleanStays
  <2>3. ASSUME NEW r \in Runners, Publish(r)
        PROVE  Feed!Next
    <3> DEFINE id == run[r].id
               batch == CleanAt(topic, bronze, FilesAt(listed, cp.ends, id))
    <3>1. /\ id \notin DOMAIN silver /\ silver' = WithEntry(silver, id, batch)
          /\ batch \subseteq CleanIn(Files)
          /\ \A i \in DOMAIN silver : batch \cap silver[i] = {}
      BY <1>2, <2>3, PublishEffect
    <3>2. UNCHANGED CleanIn(Files)
      BY <2>3 DEF Publish, CleanIn, Clean, Files
    <3> HIDE DEF id, batch
    <3>3. batch \in SUBSET (CleanIn(Files) \ Feed!Delivered(silver))
      BY <3>1 DEF Feed!Delivered
    <3>4. /\ silver' = [i \in DOMAIN silver \cup {id} |->
                          IF i = id THEN batch ELSE silver[i]]
          /\ id \in DOMAIN silver' \ DOMAIN silver
      BY <3>1 DEF WithEntry
    <3>5. Feed!DeliverAs(id)
      BY <3>2, <3>3, <3>4 DEF Feed!DeliverAs
    <3> QED
      BY <3>4, <3>5 DEF Feed!Next, Feed!Deliver
  <2>4. ASSUME UNCHANGED <<topic, bronze, silver>>
        PROVE  UNCHANGED <<CleanIn(Files), silver>>
    BY <2>4 DEF CleanIn, Clean, Files
  <2>5. ASSUME NEW r \in Runners, Cleanse(r) PROVE UNCHANGED <<topic, bronze, silver>>
    BY <2>5 DEF Cleanse
  <2>6. ASSUME NEW r \in Runners, Advance(r)
        PROVE  Publish(r) \/ UNCHANGED <<topic, bronze, silver>>
    BY <2>6 DEF Advance, List
  <2>7. ASSUME NEW r \in Runners, Die(r) PROVE UNCHANGED <<topic, bronze, silver>>
    BY <2>7 DEF Die
  <2>8. CASE UNCHANGED vars
    BY <2>4, <2>8 DEF vars, silverVars
  <2> QED
    BY <1>2, <2>1, <2>2, <2>3, <2>4, <2>5, <2>6, <2>7, <2>8 DEF Next
<1> QED
  BY <1>1, <1>2, SilverInvariant, PTL DEF Spec, SilverIsFeed, Feed!Spec

-----------------------------------------------------------------------------
(* Where the archive and the checkpoint were not removed together.  Then   *)
(* the sink may hold entries that no planned batch stands for, or lack     *)
(* those of committed ones; what the runs plan is in order all the same.   *)

\* A runner works on a planned batch, or plans the one after a planned one.
Placed(x, ends, length) ==
    /\ x.pc \in {"plan", "sink", "publish", "commit"} => x.upto <= length
    /\ x.pc \in {"sink", "publish", "commit"} =>
         /\ x.id \in DOMAIN ends
         /\ x.from = EndAt(ends, x.id - 1) /\ x.to = EndAt(ends, x.id)
    /\ x.pc = "plan" =>
         /\ x.id = 0 \/ x.id - 1 \in DOMAIN ends
         /\ x.from = EndAt(ends, x.id - 1)

Settled ==
    /\ BronzeDelivers /\ ListedOnce /\ Planned
    /\ cp.done \subseteq DOMAIN cp.ends
    /\ run \in [Runners -> RunType]
    /\ \A r \in Runners : Placed(run[r], cp.ends, Len(listed))

\* What bronze holds in the first n files of the log of the source.
Told(batches, list, n) == UNION {batches[list[p]] : p \in 1 .. n}

\* The entries old were written with a checkpoint that is gone.  They come
\* before the others, and what they hold lies in the first batch of the
\* present checkpoint: that of a new entry begins behind it.
Inherited(old) ==
    /\ \A i \in DOMAIN silver \ old :
         /\ i \in DOMAIN cp.ends
         /\ silver[i] = CleanAt(topic, bronze, FilesAt(listed, cp.ends, i))
         /\ \A j \in old : j < i
    /\ \A i, j \in old : i # j => silver[i] \cap silver[j] = {}
    /\ \A j \in old : silver[j] \subseteq UNION {bronze[f] : f \in Files}
    /\ 0 \in DOMAIN cp.ends =>
         \A j \in old : silver[j] \subseteq Told(bronze, listed, cp.ends[0])
    /\ \A r \in Runners :
         /\ run[r].pc = "plan" /\ run[r].id = 0 =>
              \A j \in old : silver[j] \subseteq Told(bronze, listed, run[r].upto)
         /\ run[r].pc = "publish" => \A j \in old : j < run[r].id

SinkInherits ==
    /\ IsBounded(DOMAIN silver)
    /\ \E old \in SUBSET DOMAIN silver : Inherited(old)

\* A runner that does nothing keeps its place when the others have gone on.
LEMMA PlaceKept ==
    ASSUME NEW ends, Rising(ends), NEW more, Prolongs(ends, more),
           NEW length \in Nat, NEW longer \in Nat, length <= longer,
           NEW x \in RunType, Placed(x, ends, length)
    PROVE  Placed(x, more, longer)
<1>1. x.upto \in Nat /\ x.id \in Nat
  BY DEF RunType
<1>2. x.pc \in {"plan", "sink", "publish", "commit"} => x.upto <= longer
  BY <1>1 DEF Placed
<1>3. x.pc \in {"sink", "publish", "commit"} =>
         /\ x.id \in DOMAIN more
         /\ x.from = EndAt(more, x.id - 1) /\ x.to = EndAt(more, x.id)
  BY SpanKept DEF Placed, Prolongs
<1>4. x.pc = "plan" =>
         /\ x.id = 0 \/ x.id - 1 \in DOMAIN more
         /\ x.from = EndAt(more, x.id - 1)
  <2> SUFFICES ASSUME x.pc = "plan"
               PROVE  /\ x.id = 0 \/ x.id - 1 \in DOMAIN more
                      /\ x.from = EndAt(more, x.id - 1)
    OBVIOUS
  <2>1. x.from = EndAt(ends, x.id - 1) /\ (x.id = 0 \/ x.id - 1 \in DOMAIN ends)
    BY DEF Placed
  <2>2. CASE x.id = 0
    BY <2>1, <2>2 DEF EndAt
  <2>3. CASE x.id - 1 \in DOMAIN ends
    BY <2>1, <2>3, SpanKept DEF Prolongs
  <2> QED
    BY <2>1, <2>2, <2>3
<1> QED
  BY <1>2, <1>3, <1>4 DEF Placed

\* The first files stay the same, and so does what they hold.
LEMMA ToldKept ==
    ASSUME ListedOnce, Prolongs(bronze, bronze'), Prolongs(listed, listed'),
           NEW n \in Nat, n <= Len(listed)
    PROVE  Told(bronze', listed', n) = Told(bronze, listed, n)
<1>1. \A p \in 1 .. n : p \in DOMAIN listed /\ listed[p] \in Files
  BY DEF ListedOnce
<1>2. \A p \in 1 .. n : listed'[p] = listed[p] /\ bronze'[listed[p]] = bronze[listed[p]]
  BY <1>1 DEF Prolongs, Files
<1> QED
  BY <1>2 DEF Told

\* A step after which the logs hold all they held, and each runner stands
\* where it stood or in a place of its own.
LEMMA SettledStep ==
    ASSUME Settled, BronzeDelivers', ListedOnce', Planned', cp'.done \subseteq DOMAIN cp'.ends,
           Prolongs(cp.ends, cp'.ends), Len(listed) <= Len(listed'),
           run' \in [Runners -> RunType],
           \A r \in Runners : run'[r] = run[r] \/ Placed(run'[r], cp'.ends, Len(listed'))
    PROVE  Settled'
<1> DEFINE ends == cp.ends
           more == cp'.ends
<1>1. Len(listed) \in Nat /\ Len(listed') \in Nat /\ Rising(ends) /\ Prolongs(ends, more)
  BY DEF Settled, ListedOnce, Planned
<1>2. \A r \in Runners : run[r] \in RunType /\ Placed(run[r], ends, Len(listed))
  BY DEF Settled
<1> HIDE DEF ends, more
<1>3. \A r \in Runners : Placed(run[r], more, Len(listed'))
  BY <1>1, <1>2, PlaceKept
<1> QED
  BY <1>3 DEF Settled, more

\* Such a step that leaves the sink alone keeps what it has inherited.
LEMMA InheritedStep ==
    ASSUME Settled, NEW old \in SUBSET DOMAIN silver, Inherited(old),
           UNCHANGED silver,
           Prolongs(topic, topic'), Prolongs(bronze, bronze'), Prolongs(listed, listed'),
           Prolongs(cp.ends, cp'.ends),
           0 \in DOMAIN cp'.ends =>
             \/ 0 \in DOMAIN cp.ends
             \/ \A j \in old : silver[j] \subseteq Told(bronze', listed', cp'.ends[0]),
           \A r \in Runners :
             \/ run'[r] = run[r]
             \/ /\ run'[r].pc = "plan" /\ run'[r].id = 0 =>
                     \A j \in old : silver[j] \subseteq Told(bronze', listed', run'[r].upto)
                /\ run'[r].pc = "publish" => \A j \in old : j < run'[r].id
    PROVE  Inherited(old)'
<1>1. BronzeDelivers /\ ListedOnce /\ Planned
  BY DEF Settled
<1>2. ASSUME NEW i \in DOMAIN silver \ old
      PROVE  /\ i \in DOMAIN cp'.ends
             /\ silver[i] = CleanAt(topic', bronze', FilesAt(listed', cp'.ends, i))
             /\ \A j \in old : j < i
  <2>1. /\ i \in DOMAIN cp.ends /\ \A j \in old : j < i
        /\ silver[i] = CleanAt(topic, bronze, FilesAt(listed, cp.ends, i))
    BY DEF Inherited
  <2>2. CleanAt(topic', bronze', FilesAt(listed', cp'.ends, i))
          = CleanAt(topic, bronze, FilesAt(listed, cp.ends, i))
    BY <1>1, <2>1, BatchKept
  <2> QED
    BY <2>1, <2>2 DEF Prolongs
<1>3. \A j \in old : silver[j] \subseteq UNION {bronze'[f] : f \in Files'}
  BY DEF Inherited, Prolongs, Files
<1>4. 0 \in DOMAIN cp'.ends =>
         \A j \in old : silver[j] \subseteq Told(bronze', listed', cp'.ends[0])
  <2> SUFFICES ASSUME 0 \in DOMAIN cp.ends
               PROVE  \A j \in old : silver[j] \subseteq Told(bronze', listed', cp'.ends[0])
    OBVIOUS
  <2> DEFINE n == cp.ends[0]
  <2>1. n \in Nat /\ n <= Len(listed) /\ cp'.ends[0] = n
    BY <1>1 DEF Planned, Rising, Prolongs
  <2>2. \A j \in old : silver[j] \subseteq Told(bronze, listed, n)
    BY DEF Inherited
  <2> HIDE DEF n
  <2>3. Told(bronze', listed', n) = Told(bronze, listed, n)
    BY <1>1, <2>1, ToldKept
  <2> QED
    BY <2>1, <2>2, <2>3
<1>5. ASSUME NEW r \in Runners
      PROVE  /\ run'[r].pc = "plan" /\ run'[r].id = 0 =>
                  \A j \in old : silver[j] \subseteq Told(bronze', listed', run'[r].upto)
             /\ run'[r].pc = "publish" => \A j \in old : j < run'[r].id
  <2> SUFFICES ASSUME run'[r] = run[r]
               PROVE  /\ run[r].pc = "plan" /\ run[r].id = 0 =>
                          \A j \in old :
                             silver[j] \subseteq Told(bronze', listed', run[r].upto)
                      /\ run[r].pc = "publish" => \A j \in old : j < run[r].id
    OBVIOUS
  <2> DEFINE n == run[r].upto
  <2>1. run[r].pc = "publish" => \A j \in old : j < run[r].id
    BY DEF Inherited
  <2>2. CASE run[r].pc = "plan" /\ run[r].id = 0
    <3>1. n \in Nat /\ n <= Len(listed)
      BY <2>2 DEF Settled, RunType, Placed
    <3>2. \A j \in old : silver[j] \subseteq Told(bronze, listed, n)
      BY <2>2 DEF Inherited
    <3> HIDE DEF n
    <3>3. Told(bronze', listed', n) = Told(bronze, listed, n)
      BY <1>1, <3>1, ToldKept
    <3> QED
      BY <2>1, <3>2, <3>3 DEF n
  <2> QED
    BY <2>1, <2>2
<1> QED
  BY <1>2, <1>3, <1>4, <1>5 DEF Inherited

\* Both, after a step of one runner that leaves the logs alone and plans nothing.
LEMMA SettledQuiet ==
    ASSUME Settled, SinkInherits, UNCHANGED <<topic, bronze, listed, silver, cp>>,
           NEW r \in Runners, NEW x \in RunType, run' = [run EXCEPT ![r] = x],
           Placed(x, cp.ends, Len(listed)), x.pc # "plan",
           x.pc = "publish" => \A j \in DOMAIN silver : j < x.id
    PROVE  Settled' /\ SinkInherits'
<1>1. /\ BronzeDelivers' /\ ListedOnce' /\ Planned' /\ cp'.done \subseteq DOMAIN cp'.ends
      /\ Len(listed) <= Len(listed')
  BY DEF Settled, BronzeDelivers, ListedOnce, Planned, Files
<1>2. /\ Prolongs(topic, topic') /\ Prolongs(bronze, bronze') /\ Prolongs(listed, listed')
      /\ Prolongs(cp.ends, cp'.ends)
  BY DEF Prolongs
<1>3. /\ run' \in [Runners -> RunType] /\ run'[r] = x
      /\ \A q \in Runners : run'[q] = run[q] \/ q = r
  BY DEF Settled
<1>4. Settled'
  BY <1>1, <1>2, <1>3, SettledStep
<1>5. PICK old \in SUBSET DOMAIN silver : Inherited(old)
  BY DEF SinkInherits
<1>6. Inherited(old)'
  BY <1>2, <1>3, <1>5, InheritedStep
<1> QED
  BY <1>4, <1>5, <1>6 DEF SinkInherits

LEMMA SettledCleanse ==
    ASSUME Settled, SinkInherits, NEW r \in Runners, Cleanse(r)
    PROVE  Settled' /\ SinkInherits'
<1> DEFINE x == RunAt("start", 0, 0, 0, 0)
<1>1. UNCHANGED <<topic, bronze, listed, silver, cp>> /\ run' = [run EXCEPT ![r] = x]
  BY DEF Cleanse, Launch
<1>2. x \in RunType /\ x.pc = "start"
  BY DEF RunAt, RunType
<1>3. Placed(x, cp.ends, Len(listed))
  BY <1>2 DEF Placed
<1> HIDE DEF x
<1> QED
  BY <1>1, <1>2, <1>3, SettledQuiet

\* The end of a run, good or bad.
LEMMA SettledEnd ==
    ASSUME Settled, SinkInherits, NEW r \in Runners,
           Die(r) \/ (Finish(r) /\ UNCHANGED <<topic, bronze, listed, silver>>)
    PROVE  Settled' /\ SinkInherits'
<1>1. UNCHANGED <<topic, bronze, listed, silver, cp>>
  BY DEF Die, Abort, Finish
<1>2. PICK pc \in {"off", "done"} : run' = [run EXCEPT ![r].pc = pc]
  BY DEF Die, Abort, Finish, Goto
<1> DEFINE x == [run[r] EXCEPT !.pc = pc]
<1>3. run' = [run EXCEPT ![r] = x] /\ x \in RunType /\ x.pc = pc
  BY <1>2 DEF Settled, RunType
<1>4. Placed(x, cp.ends, Len(listed))
  BY <1>3 DEF Placed
<1> HIDE DEF x
<1> QED
  BY <1>1, <1>3, <1>4, SettledQuiet

\* A batch that is skipped, or whose files are written under a new latest id.
LEMMA SettledSink ==
    ASSUME Settled, SinkInherits, NEW r \in Runners,
           SkipBatch(r, silver) \/ WriteFiles(r, silver),
           UNCHANGED <<topic, bronze, listed, silver>>
    PROVE  Settled' /\ SinkInherits'
<1> DEFINE latest == LatestId(DOMAIN silver)
<1>1. UNCHANGED cp /\ run[r].pc = "sink" /\ run[r] \in RunType
  BY DEF SkipBatch, WriteFiles, At, Settled
<1>2. PICK pc \in {"commit", "publish"} :
          run' = [run EXCEPT ![r].pc = pc] /\ (pc = "publish" => run[r].id > latest)
  BY DEF SkipBatch, WriteFiles, Goto
<1>3. latest \in Nat \cup {-1} /\ \A j \in DOMAIN silver : j \in Nat /\ j <= latest
  BY LatestIdExists DEF SinkInherits, IsBounded
<1> HIDE DEF latest
<1> DEFINE x == [run[r] EXCEPT !.pc = pc]
<1>4. /\ run' = [run EXCEPT ![r] = x] /\ x \in RunType /\ x.pc = pc
      /\ x.upto = run[r].upto /\ x.id = run[r].id
      /\ x.from = run[r].from /\ x.to = run[r].to
  BY <1>1, <1>2 DEF Settled, RunType
<1>5. Placed(x, cp.ends, Len(listed))
  BY <1>1, <1>4 DEF Placed, Settled
<1>6. x.id \in Nat
  BY <1>4 DEF RunType
<1>7. x.pc = "publish" => \A j \in DOMAIN silver : j < x.id
  BY <1>2, <1>3, <1>4, <1>6
<1> HIDE DEF x
<1> QED
  BY <1>1, <1>4, <1>5, <1>7, SettledQuiet

\* The query picks up the last planned batch, or goes on after it: at the
\* beginning only when nothing is planned.
LEMMA PickUpEffect ==
    ASSUME Planned, NEW r \in Runners, NEW length \in Nat, Recover(r, length)
    PROVE  /\ UNCHANGED cp
           /\ \E x \in RunType : /\ run' = [run EXCEPT ![r] = x]
                                 /\ Placed(x, cp.ends, length)
                                 /\ x.pc \in {"plan", "sink"} /\ x.upto = length
                                 /\ x.pc = "plan" /\ x.id = 0 => DOMAIN cp.ends = {}
<1> DEFINE last == LatestId(DOMAIN cp.ends)
           again == RunAt("sink", length, last, EndAt(cp.ends, last - 1), EndAt(cp.ends, last))
           next == RunAt("plan", length, last + 1, EndAt(cp.ends, last), EndAt(cp.ends, last))
<1>1. UNCHANGED cp
  BY DEF Recover
<1>2. Rising(cp.ends) /\ IsBounded(DOMAIN cp.ends)
  BY DEF Planned, Rising
<1>3. /\ last \in DOMAIN cp.ends \cup {-1} /\ last \in Nat \cup {-1}
      /\ \A id \in DOMAIN cp.ends : id \in Nat /\ id <= last
  BY <1>2, LatestIdExists DEF IsBounded
<1>4. \/ last # -1 /\ run' = [run EXCEPT ![r] = again]
      \/ run' = [run EXCEPT ![r] = next]
  BY DEF Recover, LastPlanned, EndOf, EndAt
<1> HIDE DEF last
<1>5. CASE last # -1 /\ run' = [run EXCEPT ![r] = again]
  <2>1. last \in DOMAIN cp.ends /\ last \in Nat
    BY <1>3, <1>5
  <2>2. EndAt(cp.ends, last) \in Nat /\ EndAt(cp.ends, last - 1) \in Nat
    BY <1>2, <2>1, EndAtType
  <2>3. again \in RunType
    BY <2>1, <2>2 DEF RunType, RunAt
  <2>4. Placed(again, cp.ends, length) /\ again.pc = "sink" /\ again.upto = length
    BY <2>1 DEF Placed, RunAt
  <2> QED
    BY <1>1, <1>5, <2>3, <2>4
<1>6. CASE run' = [run EXCEPT ![r] = next]
  <2>1. EndAt(cp.ends, last) \in Nat
    BY <1>2, <1>3, EndAtType DEF EndAt
  <2>2. last + 1 \in Nat /\ (last + 1) - 1 = last /\ (last + 1 = 0 <=> last = -1)
    BY <1>3
  <2>3. next \in RunType
    BY <2>1, <2>2 DEF RunType, RunAt
  <2>4. Placed(next, cp.ends, length) /\ next.pc = "plan" /\ next.upto = length
    BY <1>3, <2>2 DEF Placed, RunAt
  <2>5. next.id = last + 1
    BY DEF RunAt
  <2>6. next.id = 0 => DOMAIN cp.ends = {}
    BY <1>3, <2>2, <2>5
  <2> QED
    BY <1>1, <1>6, <2>3, <2>4, <2>6
<1> QED
  BY <1>4, <1>5, <1>6

\* A run that starts without a checkpoint lists all of bronze before it plans.
LEMMA SettledList ==
    ASSUME Settled, SinkInherits, NEW r \in Runners, List(r)
    PROVE  Settled' /\ SinkInherits'
<1>1. UNCHANGED <<topic, bronze, silver>> /\ Recover(r, Len(listed'))
  BY DEF List
<1>2. PICK more \in [1 .. Cardinality(Files \ Found) -> Files \ Found] :
          /\ {more[i] : i \in DOMAIN more} = Files \ Found
          /\ listed' = listed \o more
  BY DEF List
<1>3. BronzeDelivers /\ ListedOnce /\ Planned
  BY DEF Settled
<1>4. /\ ListedOnce' /\ Prolongs(listed, listed')
      /\ Len(listed) \in Nat /\ Len(listed') \in Nat /\ Len(listed) <= Len(listed')
  BY <1>1, <1>2, <1>3, ListingEffect
<1>5. PICK x \in RunType : /\ run' = [run EXCEPT ![r] = x]
                           /\ Placed(x, cp.ends, Len(listed'))
                           /\ x.pc \in {"plan", "sink"} /\ x.upto = Len(listed')
                           /\ x.pc = "plan" /\ x.id = 0 => DOMAIN cp.ends = {}
  BY <1>1, <1>3, <1>4, PickUpEffect
<1>6. UNCHANGED cp
  BY <1>1 DEF Recover
<1>7. /\ BronzeDelivers' /\ Planned' /\ cp'.done \subseteq DOMAIN cp'.ends
  <2>1. \A id \in DOMAIN cp.ends : cp.ends[id] \in Nat
    BY <1>3 DEF Planned, Rising
  <2> QED
    BY <1>1, <1>4, <1>6, <2>1 DEF Settled, BronzeDelivers, Planned, Files
<1>8. /\ Prolongs(topic, topic') /\ Prolongs(bronze, bronze') /\ Prolongs(cp.ends, cp'.ends)
  BY <1>1, <1>6 DEF Prolongs
<1>9. /\ run' \in [Runners -> RunType] /\ run'[r] = x
      /\ \A q \in Runners : run'[q] = run[q] \/ q = r
  BY <1>5 DEF Settled
<1>10. Settled'
  BY <1>4, <1>5, <1>6, <1>7, <1>8, <1>9, SettledStep
<1>11. \A f \in Files : \E p \in 1 .. Len(listed') : listed'[p] = f
  <2> DEFINE S == Files \ Found
             n == Cardinality(S)
  <2>1. \A i \in DOMAIN more : \E p \in 1 .. Len(listed') : listed'[p] = more[i]
    <3>1. n \in Nat
      <4>1. PICK b \in Nat : Files \subseteq Nat /\ \A f \in Files : f <= b
        BY <1>3 DEF BronzeDelivers, IsBounded
      <4>2. S \in SUBSET Nat /\ \A f \in S : f <= b
        BY <4>1
      <4> HIDE DEF S
      <4> QED
        BY <4>2, FS_BoundedSetOfNaturals, FS_CardinalityType
    <3>2. more \in [1 .. n -> S] /\ S \subseteq Files
      BY <1>2
    <3> HIDE DEF n, S
    <3>3. more \in Seq(Files) /\ Len(more) = n /\ DOMAIN more = 1 .. n
      BY <3>1, <3>2
    <3>4. /\ Len(listed') = Len(listed) + n
          /\ \A i \in 1 .. (Len(listed) + n) :
                listed'[i] = IF i <= Len(listed) THEN listed[i] ELSE more[i - Len(listed)]
      BY <1>2, <1>3, <3>3, ConcatProperties DEF ListedOnce
    <3>5. ASSUME NEW i \in 1 .. n
          PROVE  /\ i + Len(listed) \in 1 .. Len(listed')
                 /\ listed'[i + Len(listed)] = more[i]
      <4> DEFINE p == i + Len(listed)
      <4>1. p \in 1 .. (Len(listed) + n) /\ ~(p <= Len(listed)) /\ p - Len(listed) = i
        BY <1>4, <3>1
      <4> HIDE DEF p
      <4>2. p \in 1 .. Len(listed') /\ listed'[p] = more[i]
        BY <3>4, <4>1
      <4> QED
        BY <4>2 DEF p
    <3> QED
      BY <3>3, <3>5
  <2>2. \A i \in DOMAIN listed : i \in 1 .. Len(listed') /\ listed'[i] = listed[i]
    BY <1>3, <1>4 DEF ListedOnce, Prolongs
  <2>3. \A f \in Files :
           (\E i \in DOMAIN listed : listed[i] = f) \/ (\E i \in DOMAIN more : more[i] = f)
    BY <1>2 DEF Found
  <2> QED
    BY <2>1, <2>2, <2>3
<1>12. UNION {bronze[f] : f \in Files} \subseteq Told(bronze', listed', Len(listed'))
  BY <1>1, <1>11 DEF Told
<1>13. PICK old \in SUBSET DOMAIN silver : Inherited(old)
  BY DEF SinkInherits
<1>14. \A j \in old : silver[j] \subseteq Told(bronze', listed', Len(listed'))
  BY <1>12, <1>13 DEF Inherited
<1>15. Inherited(old)'
  BY <1>1, <1>4, <1>5, <1>6, <1>8, <1>9, <1>13, <1>14, InheritedStep
<1> QED
  BY <1>1, <1>10, <1>13, <1>15 DEF SinkInherits

\* The first batch of a checkpoint reaches as far as the run looked when it
\* found no batch planned.
LEMMA SettledPlan ==
    ASSUME Settled, SinkInherits, NEW r \in Runners, Plan(r),
           UNCHANGED <<topic, bronze, listed, silver>>
    PROVE  Settled' /\ SinkInherits'
<1> DEFINE id == run[r].id
           upto == run[r].upto
           x == RunAt("sink", upto, id, run[r].from, upto)
           ends == cp.ends
           more == cp'.ends
<1>1. /\ run[r].pc = "plan" /\ run[r].from < upto /\ id \notin DOMAIN ends
      /\ more = WithEntry(ends, id, upto) /\ cp'.done = cp.done
      /\ cp' = [ends |-> cp'.ends, done |-> cp'.done]
      /\ run' = [run EXCEPT ![r] = x]
  <2>1. cp = [ends |-> cp.ends, done |-> cp.done]
    BY DEF Settled, Planned
  <2>2. cp' = [cp EXCEPT !.ends = WithEntry(cp.ends, id, upto)]
    BY DEF Plan
  <2>3. cp' = [ends |-> WithEntry(cp.ends, id, upto), done |-> cp.done]
    BY <2>1, <2>2
  <2> QED
    BY <2>3 DEF Plan, At, Settled
<1>2. /\ run[r] \in RunType /\ Placed(run[r], ends, Len(listed))
      /\ BronzeDelivers /\ ListedOnce /\ Planned /\ Rising(ends)
      /\ \A i \in DOMAIN ends : ends[i] <= Len(listed)
      /\ cp.done \subseteq DOMAIN ends
  BY DEF Settled, Planned
<1>3. /\ x \in RunType /\ x.pc = "sink" /\ x.upto = upto /\ x.id = id
      /\ x.from = run[r].from /\ x.to = upto
  BY <1>2 DEF RunType, RunAt
<1>4. /\ id \in Nat
      /\ upto \in Nat
      /\ upto <= Len(listed)
      /\ run[r].from = EndAt(ends, id - 1)
      /\ id = 0 \/ id - 1 \in DOMAIN ends
  BY <1>1, <1>2 DEF RunType, Placed
<1>5. EndAt(ends, id - 1) < upto
  BY <1>1, <1>4
<1> HIDE DEF id, upto, x, ends, more
<1>6. Rising(more) /\ Prolongs(ends, more)
  BY <1>1, <1>2, <1>4, <1>5, RisingMore
<1>7. /\ DOMAIN more = DOMAIN ends \cup {id} /\ more[id] = upto
      /\ \A i \in DOMAIN ends : more[i] = ends[i]
  BY <1>1, <1>6 DEF WithEntry, Prolongs
<1>8. Planned'
  BY <1>1, <1>2, <1>4, <1>6, <1>7 DEF Planned, more
<1>9. Placed(x, more, Len(listed))
  <2>1. EndAt(more, id) = upto /\ EndAt(more, id - 1) = EndAt(ends, id - 1)
    BY <1>4, <1>6, <1>7 DEF EndAt
  <2> QED
    BY <1>3, <1>4, <1>7, <2>1 DEF Placed
<1>10. /\ BronzeDelivers' /\ ListedOnce' /\ cp'.done \subseteq DOMAIN cp'.ends
       /\ Len(listed) <= Len(listed')
  BY <1>1, <1>2, <1>7 DEF BronzeDelivers, ListedOnce, Files, more, ends
<1>11. /\ run' \in [Runners -> RunType] /\ run'[r] = x
       /\ \A q \in Runners : run'[q] = run[q] \/ q = r
  BY <1>1, <1>3 DEF Settled
<1>12. Settled'
  BY <1>6, <1>8, <1>9, <1>10, <1>11, SettledStep DEF more, ends
<1>13. PICK old \in SUBSET DOMAIN silver : Inherited(old)
  BY DEF SinkInherits
<1>14. 0 \in DOMAIN more =>
          \/ 0 \in DOMAIN ends
          \/ \A j \in old : silver[j] \subseteq Told(bronze', listed', more[0])
  <2> SUFFICES ASSUME id = 0
               PROVE  \A j \in old : silver[j] \subseteq Told(bronze, listed, upto)
    BY <1>7
  <2> QED
    BY <1>1, <1>13 DEF Inherited, id, upto
<1>15. /\ Prolongs(topic, topic') /\ Prolongs(bronze, bronze') /\ Prolongs(listed, listed')
  BY DEF Prolongs
<1>16. Inherited(old)'
  BY <1>3, <1>6, <1>11, <1>13, <1>14, <1>15, InheritedStep DEF more, ends
<1> QED
  BY <1>12, <1>13, <1>16 DEF SinkInherits

LEMMA SettledCommit ==
    ASSUME Settled, SinkInherits, NEW r \in Runners, Commit(r),
           UNCHANGED <<topic, bronze, listed, silver>>
    PROVE  Settled' /\ SinkInherits'
<1> DEFINE id == run[r].id
           x == RunAt("plan", run[r].upto, id + 1, run[r].to, run[r].to)
<1>1. /\ run[r].pc = "commit" /\ cp'.ends = cp.ends /\ cp'.done = cp.done \cup {id}
      /\ cp' = [ends |-> cp'.ends, done |-> cp'.done]
      /\ run' = [run EXCEPT ![r] = x]
  <2>1. cp = [ends |-> cp.ends, done |-> cp.done]
    BY DEF Settled, Planned
  <2>2. cp' = [cp EXCEPT !.done = cp.done \cup {id}]
    BY DEF Commit
  <2>3. cp' = [ends |-> cp.ends, done |-> cp.done \cup {id}]
    BY <2>1, <2>2
  <2> QED
    BY <2>3 DEF Commit, At, Settled
<1>2. run[r] \in RunType /\ Placed(run[r], cp.ends, Len(listed))
  BY DEF Settled
<1>3. id \in Nat /\ run[r].to \in Nat
  BY <1>2 DEF RunType
<1>4. /\ x \in RunType /\ x.pc = "plan" /\ x.upto = run[r].upto
      /\ x.id = id + 1 /\ x.from = run[r].to
  BY <1>2, <1>3 DEF RunType, RunAt
<1>5. id \in DOMAIN cp.ends /\ run[r].to = EndAt(cp.ends, id) /\ run[r].upto <= Len(listed)
  BY <1>1, <1>2 DEF Placed
<1>6. (id + 1) - 1 = id /\ id + 1 # 0
  BY <1>3
<1> HIDE DEF x, id
<1>7. Placed(x, cp.ends, Len(listed))
  BY <1>4, <1>5, <1>6 DEF Placed
<1>8. /\ BronzeDelivers' /\ ListedOnce' /\ cp'.done \subseteq DOMAIN cp'.ends
      /\ Len(listed) <= Len(listed')
  BY <1>1, <1>5 DEF Settled, BronzeDelivers, ListedOnce, Files
<1>9. Planned'
  BY <1>1 DEF Settled, Planned
<1>10. /\ run' \in [Runners -> RunType] /\ run'[r] = x
       /\ \A q \in Runners : run'[q] = run[q] \/ q = r
  BY <1>1, <1>4 DEF Settled
<1>11. /\ Prolongs(topic, topic') /\ Prolongs(bronze, bronze') /\ Prolongs(listed, listed')
       /\ Prolongs(cp.ends, cp'.ends)
  BY <1>1 DEF Prolongs
<1>12. Settled'
  BY <1>1, <1>7, <1>8, <1>9, <1>10, <1>11, SettledStep
<1>13. PICK old \in SUBSET DOMAIN silver : Inherited(old)
  BY DEF SinkInherits
<1>14. Inherited(old)'
  BY <1>1, <1>4, <1>6, <1>10, <1>11, <1>13, InheritedStep
<1> QED
  BY <1>12, <1>13, <1>14 DEF SinkInherits

\* A new entry holds what the filter leaves of its batch, and comes after all
\* that was inherited.
LEMMA SettledPublish ==
    ASSUME Settled, SinkInherits, NEW r \in Runners, Publish(r)
    PROVE  Settled' /\ SinkInherits'
<1> DEFINE id == run[r].id
           batch == CleanAt(topic, bronze, FilesAt(listed, cp.ends, id))
           x == [run[r] EXCEPT !.pc = "commit"]
<1>1. /\ run[r].pc = "publish" /\ UNCHANGED <<topic, bronze, listed, cp>>
      /\ id \notin DOMAIN silver
      /\ run' = [run EXCEPT ![r] = x]
  BY DEF Publish, MayPublish, At, Goto, Settled
<1>2. run[r] \in RunType /\ Placed(run[r], cp.ends, Len(listed))
  BY DEF Settled
<1>3. /\ x \in RunType /\ x.pc = "commit" /\ x.upto = run[r].upto /\ x.id = id
      /\ x.from = run[r].from /\ x.to = run[r].to
  BY <1>2 DEF RunType
<1>4. /\ id \in DOMAIN cp.ends /\ id \in Nat
      /\ run[r].from = EndAt(cp.ends, id - 1) /\ run[r].to = EndAt(cp.ends, id)
  BY <1>1, <1>2 DEF Placed, RunType
<1>5. silver' = WithEntry(silver, id, batch)
  BY <1>4 DEF Publish, CleanIn, Clean, CleanAt, FilesAt, Span
<1>6. Placed(x, cp.ends, Len(listed))
  BY <1>1, <1>2, <1>3 DEF Placed, id
<1> HIDE DEF batch, id, x
<1>7. /\ DOMAIN silver' = DOMAIN silver \cup {id} /\ silver'[id] = batch
      /\ \A i \in DOMAIN silver : silver'[i] = silver[i]
  <2>1. /\ DOMAIN WithEntry(silver, id, batch) = DOMAIN silver \cup {id}
        /\ WithEntry(silver, id, batch)[id] = batch
        /\ \A i \in DOMAIN silver \ {id} : WithEntry(silver, id, batch)[i] = silver[i]
    BY DEF WithEntry
  <2> QED
    BY <1>1, <1>5, <2>1
<1>8. /\ run' \in [Runners -> RunType] /\ run'[r] = x
      /\ \A q \in Runners : run'[q] = run[q] \/ q = r
  BY <1>1, <1>3 DEF Settled
<1>9. Settled'
  <2>1. /\ BronzeDelivers' /\ ListedOnce' /\ Planned' /\ cp'.done \subseteq DOMAIN cp'.ends
        /\ Len(listed) <= Len(listed') /\ Prolongs(cp.ends, cp'.ends)
    BY <1>1 DEF Settled, BronzeDelivers, ListedOnce, Planned, Files, Prolongs
  <2> QED
    BY <1>1, <1>6, <1>8, <2>1, SettledStep
<1>10. PICK old \in SUBSET DOMAIN silver : Inherited(old)
  BY DEF SinkInherits
<1>11. \A j \in old : j \in DOMAIN silver /\ silver'[j] = silver[j] /\ j < id
  BY <1>1, <1>7, <1>10 DEF Inherited, id
<1>12. \A i \in DOMAIN silver' \ old :
          /\ i \in DOMAIN cp.ends
          /\ silver'[i] = CleanAt(topic, bronze, FilesAt(listed, cp.ends, i))
          /\ \A j \in old : j < i
  <2>1. \A i \in DOMAIN silver \ old :
          /\ i \in DOMAIN cp.ends
          /\ silver[i] = CleanAt(topic, bronze, FilesAt(listed, cp.ends, i))
          /\ \A j \in old : j < i
    BY <1>10 DEF Inherited
  <2>2. silver'[id] = CleanAt(topic, bronze, FilesAt(listed, cp.ends, id))
    BY <1>7 DEF batch
  <2> QED
    BY <1>4, <1>7, <1>11, <2>1, <2>2
<1>13. \A i, j \in old : i # j => silver'[i] \cap silver'[j] = {}
  BY <1>10, <1>11 DEF Inherited
<1>14. /\ \A j \in old : silver'[j] \subseteq UNION {bronze[f] : f \in Files}
       /\ 0 \in DOMAIN cp.ends =>
            \A j \in old : silver'[j] \subseteq Told(bronze, listed, cp.ends[0])
  BY <1>10, <1>11 DEF Inherited
<1>15. ASSUME NEW q \in Runners
       PROVE  /\ run'[q].pc = "plan" /\ run'[q].id = 0 =>
                   \A j \in old : silver'[j] \subseteq Told(bronze, listed, run'[q].upto)
              /\ run'[q].pc = "publish" => \A j \in old : j < run'[q].id
  BY <1>3, <1>8, <1>10, <1>11 DEF Inherited
<1>16. Inherited(old)'
  <2>1. Files' = Files
    BY <1>1 DEF Files
  <2> QED
    BY <1>1, <1>12, <1>13, <1>14, <1>15, <2>1 DEF Inherited
<1>17. IsBounded(DOMAIN silver') /\ old \in SUBSET DOMAIN silver'
  BY <1>4, <1>7, <1>10, BoundedEntry DEF SinkInherits
<1> QED
  BY <1>9, <1>16, <1>17 DEF SinkInherits

\* Whatever a run of the silver notebook does next.
LEMMA SettledAdvance ==
    ASSUME Settled, SinkInherits, NEW r \in Runners, Cleanse(r) \/ Advance(r) \/ Die(r)
    PROVE  Settled' /\ SinkInherits'
<1>1. CASE Cleanse(r)
  BY <1>1, SettledCleanse
<1>2. CASE Advance(r)
  <2>1. CASE List(r)
    BY <2>1, SettledList
  <2>2. CASE Publish(r)
    BY <2>2, SettledPublish
  <2>3. CASE Plan(r) /\ UNCHANGED <<topic, bronze, listed, silver>>
    BY <2>3, SettledPlan
  <2>4. CASE Commit(r) /\ UNCHANGED <<topic, bronze, listed, silver>>
    BY <2>4, SettledCommit
  <2>5. CASE Finish(r) /\ UNCHANGED <<topic, bronze, listed, silver>>
    BY <2>5, SettledEnd
  <2>6. CASE /\ SkipBatch(r, silver) \/ WriteFiles(r, silver)
             /\ UNCHANGED <<topic, bronze, listed, silver>>
    BY <2>6, SettledSink
  <2> QED
    BY <1>2, <2>1, <2>2, <2>3, <2>4, <2>5, <2>6 DEF Advance, Protocol
<1>3. CASE Die(r)
  BY <1>3, SettledEnd
<1> QED
  BY <1>1, <1>2, <1>3

\* A longer topic and more of bronze disturb neither.
LEMMA SettledGrowth ==
    ASSUME Settled, SinkInherits, BronzeDelivers',
           Prolongs(topic, topic'), Prolongs(bronze, bronze'),
           UNCHANGED <<listed, silver, cp, run>>
    PROVE  Settled' /\ SinkInherits'
<1>1. /\ Planned' /\ cp'.done \subseteq DOMAIN cp'.ends /\ Len(listed) <= Len(listed')
      /\ Prolongs(cp.ends, cp'.ends) /\ Prolongs(listed, listed')
      /\ run' \in [Runners -> RunType]
  BY DEF Settled, ListedOnce, Planned, Prolongs
<1>2. ListedOnce'
  BY DEF Settled, ListedOnce, Prolongs, Files
<1>3. Settled'
  BY <1>1, <1>2, SettledStep
<1>4. PICK old \in SUBSET DOMAIN silver : Inherited(old)
  BY DEF SinkInherits
<1>5. Inherited(old)'
  BY <1>1, <1>4, InheritedStep
<1> QED
  BY <1>3, <1>4, <1>5 DEF SinkInherits

\* Hence no reading is in the archive twice, and only what the topic holds.
LEMMA InheritedOnce ==
    ASSUME Settled, SinkInherits
    PROVE  /\ \A i, j \in DOMAIN silver : i # j => silver[i] \cap silver[j] = {}
           /\ \A i \in DOMAIN silver : /\ i \in Nat /\ silver[i] \subseteq DOMAIN topic
                                      /\ silver[i] \subseteq UNION {bronze[f] : f \in Files}
<1>1. BronzeDelivers /\ ListedOnce /\ Planned /\ Rising(cp.ends)
  BY DEF Settled, Planned
<1>2. PICK old \in SUBSET DOMAIN silver : Inherited(old)
  BY DEF SinkInherits
<1>3. DOMAIN silver \subseteq Nat
  BY DEF SinkInherits, IsBounded
<1>4. ASSUME NEW i \in DOMAIN silver \ old
      PROVE  /\ i \in DOMAIN cp.ends
             /\ silver[i] = CleanAt(topic, bronze, FilesAt(listed, cp.ends, i))
             /\ \A j \in old : j < i
  BY <1>2 DEF Inherited
<1>5. ASSUME NEW i \in DOMAIN silver \ old, NEW j \in old
      PROVE  silver[i] \cap silver[j] = {}
  <2>1. i \in DOMAIN cp.ends /\ 0 \in DOMAIN cp.ends /\ i # 0 /\ i \in Nat
    BY <1>1, <1>3, <1>4 DEF Rising
  <2> DEFINE n == cp.ends[0]
             F == FilesAt(listed, cp.ends, i)
  <2>2. silver[j] \subseteq Told(bronze, listed, n)
    BY <1>2, <2>1 DEF Inherited
  <2>3. n \in Nat /\ n <= Len(listed)
    BY <1>1, <2>1 DEF Planned, Rising
  <2>4. i - 1 \in DOMAIN cp.ends /\ 0 <= i - 1 /\ i - 1 # -1
    BY <1>1, <2>1 DEF Rising
  <2>5. EndAt(cp.ends, i - 1) \in Nat /\ n <= EndAt(cp.ends, i - 1)
    BY <1>1, <2>1, <2>4 DEF Rising, EndAt
  <2>6. EndAt(cp.ends, i) \in Nat
    BY <1>1, <2>1, EndAtType
  <2>7. \A p \in Span(cp.ends, i) : p > n
    BY <2>3, <2>5, <2>6 DEF Span, Stretch
  <2>8. Span(cp.ends, i) \subseteq DOMAIN listed /\ F \subseteq Files
    BY <1>1, <2>1, FilesAtExist
  <2> HIDE DEF n
  <2>9. \A p \in 1 .. n : p \in DOMAIN listed /\ listed[p] \in Files /\ listed[p] \notin F
    <3>1. \A p \in 1 .. n : p \in DOMAIN listed /\ listed[p] \in Files
      BY <1>1, <2>3 DEF ListedOnce
    <3>2. \A p \in 1 .. n : \A q \in Span(cp.ends, i) : p # q
      BY <2>3, <2>7
    <3>3. \A p, q \in DOMAIN listed : p # q => listed[p] # listed[q]
      BY <1>1 DEF ListedOnce
    <3> QED
      BY <2>8, <3>1, <3>2, <3>3 DEF FilesAt
  <2> HIDE DEF F
  <2>10. \A f, g \in Files : f # g => bronze[f] \cap bronze[g] = {}
    BY <1>1 DEF BronzeDelivers
  <2>11. \A p \in 1 .. n : \A f \in F : bronze[f] \cap bronze[listed[p]] = {}
    BY <2>8, <2>9, <2>10
  <2>12. silver[i] \subseteq UNION {bronze[f] : f \in F}
    BY <1>4 DEF CleanAt, F
  <2> QED
    BY <2>2, <2>11, <2>12 DEF Told
<1>6. ASSUME NEW i \in DOMAIN silver \ old, NEW j \in DOMAIN silver \ old, i # j
      PROVE  silver[i] \cap silver[j] = {}
  BY <1>1, <1>4, <1>6, BatchesDisjoint
<1>7. \A i, j \in old : i # j => silver[i] \cap silver[j] = {}
  BY <1>2 DEF Inherited
<1>8. \A i, j \in DOMAIN silver : i # j => silver[i] \cap silver[j] = {}
  BY <1>5, <1>6, <1>7
<1>9. ASSUME NEW i \in DOMAIN silver
      PROVE  silver[i] \subseteq UNION {bronze[f] : f \in Files}
  <2>1. CASE i \in old
    BY <1>2, <2>1 DEF Inherited
  <2>2. CASE i \notin old
    <3>1. FilesAt(listed, cp.ends, i) \subseteq Files
      BY <1>1, <1>4, <2>2, FilesAtExist
    <3> QED
      BY <1>4, <2>2, <3>1 DEF CleanAt
  <2> QED
    BY <2>1, <2>2
<1>10. UNION {bronze[f] : f \in Files} \subseteq DOMAIN topic
  BY <1>1 DEF BronzeDelivers
<1> QED
  BY <1>3, <1>8, <1>9, <1>10

\* The log of the source is as long as the files it names are many.
LEMMA FoundCount ==
    ASSUME ListedOnce PROVE Cardinality(Found) = Len(listed)
<1>1. /\ Len(listed) \in Nat /\ DOMAIN listed = 1 .. Len(listed)
      /\ listed \in [1 .. Len(listed) -> Files]
  BY DEF ListedOnce
<1>2. listed \in [1 .. Len(listed) -> Found]
  BY <1>1 DEF Found
<1>3. listed \in Injection(1 .. Len(listed), Found)
  BY <1>1, <1>2 DEF Injection, IsInjective, ListedOnce
<1>4. listed \in Surjection(1 .. Len(listed), Found)
  BY <1>1, <1>2 DEF Surjection, Found
<1>5. ExistsBijection(1 .. Len(listed), Found)
  BY <1>3, <1>4, Zenon DEF ExistsBijection, Bijection
<1> QED
  BY <1>1, <1>5, FS_CountingElements

\* With nothing in the archive and no checkpoint all is as at the beginning.
LEMMA FreshStart ==
    ASSUME BronzeDelivers', ListedOnce', cp' = NoCheckpoint, silver' = NoLog,
           run' = [r \in Runners |-> Idle]
    PROVE  Inv'
<1>1. /\ DOMAIN silver' = {}
      /\ cp' = [ends |-> cp'.ends, done |-> cp'.done]
      /\ DOMAIN cp'.ends = {}
      /\ cp'.done = {}
  BY DEF NoLog, NoCheckpoint
<1>2. Idle \in RunType /\ Idle.pc = "off"
  BY DEF Idle, RunAt, RunType
<1>3. IsBounded({})
  BY DEF IsBounded
<1>4. LogsInOrder' /\ NoGap' /\ SinkIsFiltered'
  BY <1>1, <1>3 DEF LogsInOrder, Planned, Rising, NoGap, SinkIsFiltered
<1>5. RunnersInOrder'
  BY <1>2 DEF RunnersInOrder, InOrder
<1> QED
  BY <1>4, <1>5 DEF Inv

\* The archive is removed while no run is going on.
LEMMA SettledArchiveGone ==
    ASSUME Settled, UNCHANGED <<topic, bronze, listed, cp>>,
           silver' = NoLog, run' = [r \in Runners |-> Idle]
    PROVE  /\ Settled' /\ SinkInherits'
           /\ cp = NoCheckpoint => Inv'
<1>1. Idle \in RunType /\ Idle.pc = "off" /\ DOMAIN silver' = {} /\ IsBounded({})
  BY DEF Idle, RunAt, RunType, NoLog, IsBounded
<1>2. BronzeDelivers' /\ ListedOnce' /\ Planned' /\ cp'.done \subseteq DOMAIN cp'.ends
  BY DEF Settled, BronzeDelivers, ListedOnce, Planned, Files
<1>3. Settled'
  BY <1>1, <1>2 DEF Settled, Placed
<1>4. SinkInherits'
  <2>1. Inherited({})'
    BY <1>1 DEF Inherited
  <2> QED
    BY <1>1, <2>1 DEF SinkInherits
<1> QED
  BY <1>2, <1>3, <1>4, FreshStart

\* The checkpoint is removed while no run is going on: what is in the archive
\* now is inherited.
LEMMA SettledCheckpointGone ==
    ASSUME Settled, SinkInherits, UNCHANGED <<topic, bronze, silver>>,
           cp' = NoCheckpoint, listed' = <<>>, run' = [r \in Runners |-> Idle]
    PROVE  /\ Settled' /\ SinkInherits'
           /\ silver = NoLog => Inv'
<1>1. /\ Idle \in RunType /\ Idle.pc = "off" /\ IsBounded({})
      /\ cp' = [ends |-> cp'.ends, done |-> cp'.done]
      /\ DOMAIN cp'.ends = {}
      /\ cp'.done = {}
  BY DEF Idle, RunAt, RunType, NoLog, NoCheckpoint, IsBounded
<1>2. BronzeDelivers' /\ ListedOnce' /\ Planned' /\ cp'.done \subseteq DOMAIN cp'.ends
  BY <1>1 DEF Settled, BronzeDelivers, ListedOnce, Planned, Rising, Files
<1>3. Settled'
  BY <1>1, <1>2 DEF Settled, Placed
<1>4. SinkInherits'
  <2> PICK old : old = DOMAIN silver
    OBVIOUS
  <2>1. /\ \A i, j \in old : i # j => silver'[i] \cap silver'[j] = {}
        /\ \A i \in old : silver'[i] \subseteq UNION {bronze'[f] : f \in Files'}
    BY InheritedOnce DEF Files
  <2>2. /\ DOMAIN silver' = old /\ 0 \notin DOMAIN cp'.ends
        /\ \A r \in Runners : run'[r].pc = "off"
    BY <1>1
  <2>3. Inherited(old)'
    BY <2>1, <2>2 DEF Inherited
  <2> QED
    BY <2>2, <2>3 DEF SinkInherits
<1> QED
  BY <1>2, <1>3, <1>4, FreshStart

LEMMA InitSettled == ASSUME Init, Inv PROVE Settled /\ SinkInherits
<1>1. /\ DOMAIN silver = {} /\ cp.done = {}
      /\ run = [r \in Runners |-> Idle]
  BY DEF Init, QueryInit, NoLog, NoCheckpoint
<1>2. Idle \in RunType /\ Idle.pc = "off" /\ IsBounded({})
  BY DEF Idle, RunAt, RunType, IsBounded
<1>3. Settled
  BY <1>1, <1>2 DEF Settled, Placed, Inv, LogsInOrder
<1>4. Inherited({})
  BY <1>1, <1>2 DEF Inherited
<1> QED
  BY <1>1, <1>2, <1>3, <1>4 DEF SinkInherits
=============================================================================
