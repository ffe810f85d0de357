-------------------------- MODULE WarehouseProofs ---------------------------
(***************************************************************************)
(* What the gold layer keeps to for any readings, files, failures and      *)
(* runs: in two daily rows a device-hour only when somebody came or left,  *)
(* and months that are each of one reading of silver; until two runs       *)
(* overlap, also no older batch over a newer one, no half-written staging  *)
(* table merged, a report of one reading, and no processed reading missing *)
(* from a report that is done.                                             *)
(***************************************************************************)
EXTENDS Warehouse, TLAPS

-----------------------------------------------------------------------------
(* The invariant                                                           *)

FilesUpTo(files, n) == UNION {files[i] : i \in 1 .. n}

\* A daily row holds the cells of its key in one batch.
IsRow(k, cells, recs) ==
    \E some \in SUBSET recs : \E occupied \in OccupancyChoices(some) :
        cells = {c \in Cells(some) : KeyOf(c, occupied[c]) = k} /\ cells # {}

AreRows(log, recs) == \A k \in DOMAIN log : IsRow(k, log[k], recs)
AreStaged(rows, recs) == \A s \in rows : IsRow(s.key, s.cells, recs)

Rows ==
    /\ AreRows(dwh, Arrived)
    /\ \A id \in DOMAIN staging : AreStaged(staging[id], Arrived)
    /\ \A r \in Runners : AreStaged(writes[r].left, Arrived)

\* Every month, of the table or of a report in the making, is of a reading of
\* silver.
Reading(files, n) == MonthlyRows(FilesUpTo(files, n))
TrueMonths(rows, files) ==
    \A m \in DOMAIN rows : \E n \in 0 .. Len(files) :
        m \in DOMAIN Reading(files, n) /\ rows[m] = Reading(files, n)[m]

Reports ==
    /\ TrueMonths(monthly, silver)
    /\ \A r \in Runners : TrueMonths(report[r].rows, silver)

\* Batches are planned one after the other; a runner works on a planned batch
\* or stands before the next one, and reads no further than silver goes.
InLog(x, ends, length) ==
    /\ x.pc \in {"plan", "sink", "publish", "commit"} => x.upto <= length /\ x.to <= length
    /\ x.pc \in {"sink", "publish", "commit"} => x.id \in DOMAIN ends
    /\ x.pc = "plan" => x.id = 0 \/ x.id - 1 \in DOMAIN ends

Consecutive(ids) == \E n \in Nat : ids = 0 .. (n - 1)

Logs ==
    /\ cp = [ends |-> cp.ends, done |-> cp.done]
    /\ Consecutive(DOMAIN cp.ends) /\ cp.done \subseteq DOMAIN cp.ends
    /\ \A id \in DOMAIN cp.ends : cp.ends[id] \in 0 .. Len(silver)
    /\ \A r \in Runners : InLog(run[r], cp.ends, Len(silver))
    /\ DOMAIN newest = DOMAIN dwh /\ \A k \in DOMAIN newest : newest[k] \in DOMAIN cp.ends

ReportType == [pc : Reporting, rows : MonthlyTable]
WriteType == [pc : {"none", "create", "insert"}, left : SUBSET Row]

Types ==
    /\ silver \in Seq(SUBSET Records)
    /\ DOMAIN staging \subseteq Nat /\ \A id \in DOMAIN staging : staging[id] \subseteq Row
    /\ writes \in [Runners -> WriteType]
    /\ run \in [Runners -> RunType] /\ launches \in Nat
    /\ monthly \in MonthlyTable /\ report \in [Runners -> ReportType]
    /\ failures \in Nat /\ overlapped \in BOOLEAN

\* A staging table is written while the sink has the batch, and part 2 begins
\* when part 1 has ended.
PartsInOrder ==
    \A r \in Runners : /\ writes[r].pc # "none" => run[r].pc = "sink"
                       /\ report[r].pc # "off" => run[r].pc \in {"off", "done"}

\* Until two runs overlap one at most is in progress, at the last planned batch.
Alone ==
    ~overlapped =>
        /\ \A r, q \in Runners : InProgress(r) /\ InProgress(q) => r = q
        /\ \A r \in Runners : run[r].pc \in {"sink", "publish", "commit"} =>
              \A id \in DOMAIN cp.ends : id <= run[r].id

\* What it has staged, with what is left to insert, holds its batch.
HeldBy(rows) == UNION {c.recs : c \in UNION {s.cells : s \in rows}}

Whole(r) ==
    run[r].id \in DOMAIN staging =>
        /\ writes[r].pc = "insert" =>
              Batch(r) \subseteq HeldBy(staging[run[r].id] \cup writes[r].left)
        /\ run[r].pc = "publish" => Batch(r) \subseteq HeldBy(staging[run[r].id])

Staged == ~overlapped => \A r \in Runners : Whole(r)

\* The months of the table are of one reading, and with what is left to insert
\* they are all of a reading that covers the batches that are done.
Within(rows, all) == DOMAIN rows \subseteq DOMAIN all /\ \A m \in DOMAIN rows : rows[m] = all[m]

Making(table, rows, files, ends, done) ==
    \E n \in 0 .. Len(files) :
        /\ \A id \in done : ends[id] <= n
        /\ Within(table, Reading(files, n)) /\ Within(rows, Reading(files, n))
        /\ DOMAIN Reading(files, n) \subseteq DOMAIN table \cup DOMAIN rows

OneReading ==
    ~overlapped =>
        /\ \E n \in 0 .. Len(silver) : Within(monthly, Reading(silver, n))
        /\ \A r \in Runners :
              /\ report[r].pc = "truncate" =>
                    Making(NoLog, report[r].rows, silver, cp.ends, cp.done)
              /\ report[r].pc = "insert" =>
                    Making(monthly, report[r].rows, silver, cp.ends, cp.done)

Inv == Types /\ Logs /\ Rows /\ Reports /\ PartsInOrder /\ Alone /\ Staged /\ OneReading
-----------------------------------------------------------------------------
(* The operators                                                           *)

\* A cell is a device-hour with the readings of a batch that fall in it.
LEMMA CellShape ==
    ASSUME NEW recs \in SUBSET Records, NEW c \in Cells(recs)
    PROVE  /\ c.hour \in DOMAIN DayOf /\ c.dev \in DOMAIN GroupOf /\ c.recs \subseteq recs
           /\ c = [hour |-> c.hour, dev |-> c.dev, recs |-> c.recs]
           /\ c.recs = {y \in recs : HourOf[y] = c.hour /\ DeviceOf[y] = c.dev}
           /\ c.recs # {}
BY ReadingAssumption DEF Cells

\* The readings of the cells of a batch are those of the batch.
LEMMA CellsCover ==
    ASSUME NEW recs PROVE recs \subseteq UNION {c.recs : c \in Cells(recs)}
<1> SUFFICES ASSUME NEW x \in recs PROVE \E c \in Cells(recs) : x \in c.recs
  OBVIOUS
<1> DEFINE mates == {y \in recs : HourOf[y] = HourOf[x] /\ DeviceOf[y] = DeviceOf[x]}
           cell == [hour |-> HourOf[x], dev |-> DeviceOf[x], recs |-> mates]
<1>1. cell \in Cells(recs)
  BY DEF Cells
<1>2. x \in cell.recs
  OBVIOUS
<1> QED
  BY <1>1, <1>2

\* The occupancy taken for a cell is that of one of its readings.
LEMMA OccupancyShape ==
    ASSUME NEW recs \in SUBSET Records, NEW occupied \in OccupancyChoices(recs),
           NEW c \in Cells(recs)
    PROVE  occupied[c] \in BOOLEAN /\ \E x \in c.recs : occupied[c] = OccupiedOf[x]
BY CellShape, ReadingAssumption DEF OccupancyChoices

\* A row has a key, and holds cells of readings of the batch.
LEMMA RowShape ==
    ASSUME NEW recs \in SUBSET Records, NEW k, NEW cells, IsRow(k, cells, recs)
    PROVE  /\ k \in Key
           /\ cells \subseteq UNION {Cells(S) : S \in SUBSET recs}
<1>0. PICK some \in SUBSET recs : \E occupied \in OccupancyChoices(some) :
          cells = {c \in Cells(some) : KeyOf(c, occupied[c]) = k} /\ cells # {}
  BY DEF IsRow
<1>1. PICK occupied \in OccupancyChoices(some) :
          cells = {c \in Cells(some) : KeyOf(c, occupied[c]) = k} /\ cells # {}
  BY <1>0
<1>2. PICK c \in Cells(some) : KeyOf(c, occupied[c]) = k
  BY <1>1
<1>3. some \in SUBSET Records
  OBVIOUS
<1>4. /\ c.hour \in DOMAIN DayOf /\ c.dev \in DOMAIN GroupOf /\ occupied[c] \in BOOLEAN
  BY <1>3, CellShape, OccupancyShape
<1>5. PeakOf[c.hour] \in BOOLEAN
  BY <1>4, ReadingAssumption
<1>6. k = [day |-> DayOf[c.hour], group |-> GroupOf[c.dev],
           occupied |-> occupied[c], peak |-> PeakOf[c.hour]]
  BY <1>2 DEF KeyOf
<1>7. k \in Key
  BY <1>4, <1>5, <1>6 DEF Key
<1> QED
  BY <1>1, <1>7

\* A row of some readings is one of more.
LEMMA RowKept ==
    ASSUME NEW recs, NEW more, recs \subseteq more
    PROVE  /\ \A log : AreRows(log, recs) => AreRows(log, more)
           /\ \A rows : AreStaged(rows, recs) => AreStaged(rows, more)
BY DEF AreRows, AreStaged, IsRow

\* The daily rows of a batch are rows of the table, whatever occupancy was
\* taken, and hold all of the batch.
LEMMA DailyRowsAreRows ==
    ASSUME NEW recs \in SUBSET Records, NEW some \in SUBSET recs,
           NEW occupied \in OccupancyChoices(some), NEW r \in Runners
    PROVE  /\ DailyRows(r, some, occupied) \subseteq Row
           /\ AreStaged(DailyRows(r, some, occupied), recs)
           /\ some \subseteq HeldBy(DailyRows(r, some, occupied))
<1> DEFINE rows == DailyRows(r, some, occupied)
           held(c) == {d \in Cells(some) : KeyOf(d, occupied[d]) = KeyOf(c, occupied[c])}
           row(c) == [key |-> KeyOf(c, occupied[c]), cells |-> held(c), by |-> r]
<1>1. rows = {row(c) : c \in Cells(some)}
  BY DEF DailyRows
<1>2. ASSUME NEW c \in Cells(some)
      PROVE  /\ IsRow(KeyOf(c, occupied[c]), held(c), recs)
             /\ c \in held(c) /\ held(c) \in SUBSET AnyCells
  <2>1. c \in held(c)
    OBVIOUS
  <2>2. IsRow(KeyOf(c, occupied[c]), held(c), recs)
    BY <2>1 DEF IsRow
  <2>3. some \in SUBSET Records
    OBVIOUS
  <2>4. held(c) \in SUBSET AnyCells
    BY <2>3 DEF AnyCells
  <2> QED
    BY <2>1, <2>2, <2>4
<1>3. ASSUME NEW c \in Cells(some)
      PROVE  row(c) \in Row /\ IsRow(row(c).key, row(c).cells, recs)
  <2>1. KeyOf(c, occupied[c]) \in Key
    BY <1>2, RowShape
  <2>2. row(c) \in Row
    BY <1>2, <2>1 DEF Row
  <2> QED
    BY <1>2, <2>2
<1>4. rows \subseteq Row /\ AreStaged(rows, recs)
  BY <1>1, <1>3 DEF AreStaged
<1>5. ASSUME NEW x \in some PROVE x \in HeldBy(rows)
  <2>1. PICK c \in Cells(some) : x \in c.recs
    BY CellsCover
  <2>2. row(c) \in rows /\ c \in row(c).cells
    BY <1>1, <1>2, <2>1
  <2> HIDE DEF rows, row
  <2> QED
    BY <2>1, <2>2 DEF HeldBy
<1> QED
  BY <1>4, <1>5

\* The monthly report of some readings has a month for each of them, in which
\* its cell is.
LEMMA MonthlyShape ==
    ASSUME NEW recs \in SUBSET Records
    PROVE  /\ MonthlyRows(recs) \in MonthlyTable
           /\ recs \subseteq UNION {c.recs : c \in UNION {MonthlyRows(recs)[m] :
                                                     m \in DOMAIN MonthlyRows(recs)}}
<1> DEFINE rows == MonthlyRows(recs)
           M == {MonthOf[HourOf[x]] : x \in recs}
<1>1. /\ DOMAIN rows = M /\ rows = [m \in M |-> rows[m]]
      /\ \A m \in M : rows[m] = {c \in Cells(recs) : MonthOf[c.hour] = m}
  BY DEF MonthlyRows
<1>2. M \in SUBSET Months
  BY ReadingAssumption DEF Months
<1>3. \A m \in M : rows[m] \in SUBSET AnyCells
  <2>1. Cells(recs) \subseteq AnyCells
    BY DEF AnyCells
  <2> HIDE DEF rows
  <2> QED
    BY <1>1, <2>1
<1>4. rows \in [M -> SUBSET AnyCells]
  BY <1>1, <1>3
<1>5. rows \in MonthlyTable
  BY <1>2, <1>4 DEF MonthlyTable
<1>6. ASSUME NEW x \in recs
      PROVE  \E m \in DOMAIN rows : \E c \in rows[m] : x \in c.recs
  <2>1. PICK c \in Cells(recs) : x \in c.recs
    BY CellsCover
  <2>2. HourOf[x] = c.hour
    <3>1. c.recs = {y \in recs : HourOf[y] = c.hour /\ DeviceOf[y] = c.dev}
      BY CellShape
    <3> QED
      BY <2>1, <3>1
  <2>3. MonthOf[HourOf[x]] \in M /\ c \in rows[MonthOf[HourOf[x]]]
    BY <1>1, <2>1, <2>2
  <2> QED
    BY <1>1, <2>1, <2>3
<1>7. recs \subseteq UNION {c.recs : c \in UNION {rows[m] : m \in DOMAIN rows}}
  <2> HIDE DEF rows
  <2> QED
    BY <1>6
<1> QED
  BY <1>5, <1>7

\* A part of a table is a table, and so are two parts that agree with it.
LEMMA TableParts ==
    ASSUME NEW table \in MonthlyTable, NEW rows \in MonthlyTable,
           NEW part \in SUBSET DOMAIN rows
    PROVE  /\ [m \in DOMAIN rows \ part |-> rows[m]] \in MonthlyTable
           /\ [m \in DOMAIN table \cup part |-> IF m \in part THEN rows[m] ELSE table[m]]
                 \in MonthlyTable
<1>1. /\ DOMAIN rows \in SUBSET Months /\ \A m \in DOMAIN rows : rows[m] \in SUBSET AnyCells
      /\ DOMAIN table \in SUBSET Months /\ \A m \in DOMAIN table : table[m] \in SUBSET AnyCells
  BY DEF MonthlyTable
<1> DEFINE D == DOMAIN rows \ part
           E == DOMAIN table \cup part
<1>2. [m \in D |-> rows[m]] \in [D -> SUBSET AnyCells] /\ D \in SUBSET Months
  BY <1>1
<1>3. /\ [m \in E |-> IF m \in part THEN rows[m] ELSE table[m]] \in [E -> SUBSET AnyCells]
      /\ E \in SUBSET Months
  BY <1>1
<1> QED
  BY <1>2, <1>3 DEF MonthlyTable

LEMMA EmptyTable ==
    /\ NoLog \in MonthlyTable /\ DOMAIN NoLog = {} /\ NoReport \in ReportType
    /\ NoReport.pc = "off" /\ NoReport.rows = NoLog
    /\ \A files : TrueMonths(NoLog, files)
    /\ \A all : Within(NoLog, all)
<1>1. NoLog \in [{} -> SUBSET AnyCells] /\ DOMAIN NoLog = {}
  BY DEF NoLog
<1>2. NoLog \in MonthlyTable
  BY <1>1 DEF MonthlyTable
<1> QED
  BY <1>1, <1>2 DEF TrueMonths, Within, NoReport, ReportType, Reporting

\* The latest id of a log without gaps.
LEMMA LatestOfLog ==
    ASSUME NEW n \in Nat
    PROVE  LatestId(0 .. (n - 1)) = n - 1
<1> DEFINE ids == 0 .. (n - 1)
<1>1. n - 1 \in ids \cup {-1} /\ \A i \in ids : i <= n - 1
  OBVIOUS
<1>2. ASSUME NEW m \in ids \cup {-1}, \A i \in ids : i <= m PROVE m = n - 1
  BY <1>2
<1> HIDE DEF ids
<1>3. LatestId(ids) = n - 1
  BY <1>1, <1>2 DEF LatestId
<1> QED
  BY <1>3 DEF ids

\* What a prefix of silver holds does not change when a file arrives.
LEMMA FilesKept ==
    ASSUME Types, NEW recs \in SUBSET Records, silver' = Append(silver, recs)
    PROVE  /\ silver' \in Seq(SUBSET Records)
           /\ Len(silver) \in Nat /\ Len(silver') = Len(silver) + 1
           /\ Arrived \subseteq Arrived' /\ Arrived' \subseteq Records
           /\ \A n \in 0 .. Len(silver) : FilesUpTo(silver', n) = FilesUpTo(silver, n)
           /\ \A i \in 1 .. Len(silver) : silver'[i] = silver[i]
<1>1. /\ silver' \in Seq(SUBSET Records)
      /\ Len(silver) \in Nat /\ Len(silver') = Len(silver) + 1
      /\ DOMAIN silver' = 1 .. Len(silver')
      /\ \A i \in 1 .. Len(silver) : silver'[i] = silver[i]
      /\ \A i \in DOMAIN silver' : silver'[i] \subseteq Records
  BY DEF Types
<1>2. DOMAIN silver = 1 .. Len(silver)
  BY DEF Types
<1>3. Arrived \subseteq Arrived' /\ Arrived' \subseteq Records
  BY <1>1, <1>2 DEF Arrived
<1>4. ASSUME NEW n \in 0 .. Len(silver)
      PROVE  FilesUpTo(silver', n) = FilesUpTo(silver, n)
  <2>1. \A i \in 1 .. n : silver'[i] = silver[i]
    BY <1>1
  <2> QED
    BY <2>1 DEF FilesUpTo
<1> QED
  BY <1>1, <1>3, <1>4

LEMMA ArrivedShape ==
    ASSUME Types
    PROVE  /\ Arrived \subseteq Records /\ Arrived = FilesUpTo(silver, Len(silver))
           /\ Len(silver) \in Nat /\ DOMAIN silver = 1 .. Len(silver)
BY DEF Types, Arrived, FilesUpTo

-----------------------------------------------------------------------------
(* The steps of part 1                                                     *)

\* While runs do not overlap, what a runner in progress does leaves nothing of
\* another half staged.
LEMMA OthersStagedNothing ==
    ASSUME Inv, NEW r \in Runners, InProgress(r), UNCHANGED overlapped,
           \A q \in Runners \ {r} : run'[q] = run[q] /\ writes'[q] = writes[q],
           ~overlapped => Whole(r)'
    PROVE  Staged'
<1> SUFFICES ASSUME ~overlapped, NEW q \in Runners PROVE Whole(q)'
  BY DEF Staged
<1>1. CASE q = r
  BY <1>1
<1>2. CASE q # r
  <2>1. ~InProgress(q)
    BY <1>2 DEF Inv, Alone
  <2>2. run'[q].pc \in {"off", "done"} /\ writes'[q].pc = "none"
    BY <1>2, <2>1 DEF InProgress, Inv, PartsInOrder, Types, WriteType
  <2> QED
    BY <2>2 DEF Whole
<1> QED
  BY <1>1, <1>2

\* A runner in part 1 has no report in hand.
LEMMA NoReportYet ==
    ASSUME Inv, NEW r \in Runners, run[r].pc \notin {"off", "done"}
    PROVE  report[r].pc = "off" /\ InProgress(r)
BY DEF Inv, PartsInOrder, InProgress

\* One runner moves within part 1, writing a staging table only for the sink
\* and working on the last planned batch when it works on one: what it does not
\* touch is as before, and if it was alone it still is.
LEMMA RunnerMoves ==
    ASSUME Inv, NEW r \in Runners,
           NEW x \in RunType, run' = [run EXCEPT ![r] = x],
           NEW w \in WriteType, writes' = [writes EXCEPT ![r] = w],
           run[r].pc \notin {"off", "done"}, x.pc \notin {"off", "done"},
           w.pc # "none" => x.pc = "sink",
           UNCHANGED <<silver, monthly, report, overlapped>>,
           DOMAIN cp.ends \subseteq DOMAIN cp'.ends, InLog(x, cp'.ends, Len(silver)),
           ~overlapped /\ x.pc \in {"sink", "publish", "commit"} =>
               \A id \in DOMAIN cp'.ends : id <= x.id,
           ~overlapped /\ (w.pc = "insert" \/ x.pc = "publish") => Whole(r)'
    PROVE  /\ run' \in [Runners -> RunType] /\ writes' \in [Runners -> WriteType]
           /\ Arrived' = Arrived
           /\ \A q \in Runners : InLog(run'[q], cp'.ends, Len(silver'))
           /\ Reports' /\ PartsInOrder' /\ Alone' /\ Staged' /\ OneReading'
<1>1. /\ run' \in [Runners -> RunType] /\ run'[r] = x
      /\ writes' \in [Runners -> WriteType] /\ writes'[r] = w
      /\ \A q \in Runners \ {r} : run'[q] = run[q] /\ writes'[q] = writes[q]
      /\ report[r].pc = "off" /\ InProgress(r)
  BY NoReportYet DEF Inv, Types
<1>2. \A q \in Runners : InLog(run'[q], cp'.ends, Len(silver'))
  <2>1. \A q \in Runners : InLog(run[q], cp.ends, Len(silver))
    BY DEF Inv, Logs
  <2> QED
    BY <1>1, <2>1 DEF InLog
<1>3. PartsInOrder'
  BY <1>1 DEF Inv, PartsInOrder
<1>4. \A q \in Runners : InProgress(q)' => InProgress(q)
  BY <1>1 DEF InProgress
<1>5. ASSUME ~overlapped
      PROVE  /\ \A p, q \in Runners : InProgress(p)' /\ InProgress(q)' => p = q
             /\ \A q \in Runners \ {r} : run'[q].pc \in {"off", "done"} /\ report'[q].pc = "off"
  BY <1>1, <1>4, <1>5 DEF Inv, Alone, InProgress
<1>6. Alone'
  BY <1>1, <1>5 DEF Alone
<1>7. ~overlapped => Whole(r)'
  BY <1>1 DEF Whole
<1>8. Staged'
  BY <1>1, <1>7, OthersStagedNothing
<1>9. OneReading'
  BY <1>1, <1>5 DEF Inv, OneReading
<1>10. Reports'
  BY DEF Inv, Reports
<1>11. Arrived' = Arrived
  BY DEF Arrived
<1> QED
  BY <1>1, <1>2, <1>3, <1>6, <1>8, <1>9, <1>10, <1>11

\* A runner takes its batch to the next point, with nothing left to write,
\* whatever becomes of the tables.
LEMMA BatchMoves ==
    ASSUME Inv, NEW r \in Runners, NEW pc \in {"publish", "commit"}, Goto(r, pc),
           run[r].pc \in {"sink", "publish"},
           NEW w \in WriteType, writes' = [writes EXCEPT ![r] = w], w.pc = "none",
           UNCHANGED <<silver, monthly, report, overlapped, cp>>,
           ~overlapped /\ pc = "publish" => Whole(r)'
    PROVE  /\ run' \in [Runners -> RunType] /\ writes' \in [Runners -> WriteType]
           /\ Arrived' = Arrived
           /\ \A q \in Runners : InLog(run'[q], cp'.ends, Len(silver'))
           /\ Reports' /\ PartsInOrder' /\ Alone' /\ Staged' /\ OneReading'
<1> DEFINE x == [run[r] EXCEPT !.pc = pc]
<1>1. run[r] \in RunType /\ InLog(run[r], cp.ends, Len(silver))
  BY DEF Inv, Types, Logs
<1>2. /\ x \in RunType /\ x.pc = pc /\ x.id = run[r].id
      /\ x.upto = run[r].upto /\ x.to = run[r].to
  BY <1>1 DEF RunType
<1>3. run' = [run EXCEPT ![r] = x]
  BY DEF Goto, Inv, Types
<1> HIDE DEF x
<1>4. InLog(x, cp'.ends, Len(silver))
  BY <1>1, <1>2 DEF InLog
<1>5. ~overlapped => \A id \in DOMAIN cp'.ends : id <= x.id
  BY <1>2 DEF Inv, Alone
<1>6. x.pc \notin {"off", "done"} /\ (x.pc = "publish" => pc = "publish") /\ w.pc # "insert"
  BY <1>2
<1> QED
  BY <1>2, <1>3, <1>4, <1>5, <1>6, RunnerMoves

\* A runner that has nothing to write leaves its overwrite as it is.
LEMMA NothingWritten ==
    ASSUME Inv, NEW r \in Runners, writes[r].pc = "none" \/ run[r].pc = "publish"
    PROVE  writes[r] \in WriteType /\ writes[r].pc = "none"
           /\ writes = [writes EXCEPT ![r] = writes[r]]
BY DEF Inv, Types, PartsInOrder, WriteType

\* The readings of a batch are in silver.
LEMMA BatchArrived ==
    ASSUME Inv, NEW r \in Runners, run[r].pc = "sink"
    PROVE  Batch(r) \subseteq Arrived
<1>1. /\ run[r].to <= Len(silver) /\ run[r].to \in Nat /\ run[r].from \in Nat
      /\ Len(silver) \in Nat /\ DOMAIN silver = 1 .. Len(silver)
  BY ArrivedShape DEF Inv, Types, Logs, InLog, RunType
<1>2. Stretch(run[r].from, run[r].to) \subseteq DOMAIN silver
  BY <1>1 DEF Stretch
<1> QED
  BY <1>2 DEF Batch, Arrived

LEMMA SkipEmptyStep == ASSUME Inv, NEW r \in Runners, SkipEmpty(r) PROVE Inv'
<1>1. /\ UNCHANGED <<silver, staging, writes, dwh, monthly, report, failures, newest, overlapped,
                     cp, launches>>
      /\ run[r].pc = "sink" /\ writes[r].pc = "none" /\ Goto(r, "commit")
  BY DEF SkipEmpty, tables, history, At
<1>2. /\ run' \in [Runners -> RunType] /\ Arrived' = Arrived
      /\ \A q \in Runners : InLog(run'[q], cp'.ends, Len(silver'))
      /\ Reports' /\ PartsInOrder' /\ Alone' /\ Staged' /\ OneReading'
  BY <1>1, NothingWritten, BatchMoves
<1>3. Types'
  BY <1>1, <1>2 DEF Inv, Types
<1>4. Logs'
  BY <1>1, <1>2 DEF Inv, Logs
<1>5. Rows'
  BY <1>1, <1>2 DEF Inv, Rows
<1> QED
  BY <1>2, <1>3, <1>4, <1>5 DEF Inv

\* A step of the overwrite: the runner stays at its sink.
LEMMA SinkStays ==
    ASSUME Inv, NEW r \in Runners, run[r].pc = "sink",
           NEW w \in WriteType, writes' = [writes EXCEPT ![r] = w],
           AreStaged(w.left, Arrived),
           UNCHANGED <<silver, dwh, monthly, report, failures, history, queryVars>>,
           DOMAIN staging' \subseteq Nat,
           \A i \in DOMAIN staging' : staging'[i] \subseteq Row /\ AreStaged(staging'[i], Arrived),
           ~overlapped /\ w.pc = "insert" => Whole(r)'
    PROVE  Inv'
<1>1. /\ UNCHANGED <<newest, overlapped, cp, run, launches>>
      /\ run[r] \in RunType /\ run' = [run EXCEPT ![r] = run[r]]
      /\ InLog(run[r], cp'.ends, Len(silver))
  BY DEF history, queryVars, Inv, Types, Logs
<1>2. ~overlapped => \A id \in DOMAIN cp'.ends : id <= run[r].id
  BY <1>1 DEF Inv, Alone
<1>3. /\ writes' \in [Runners -> WriteType] /\ Arrived' = Arrived
      /\ \A q \in Runners : InLog(run'[q], cp'.ends, Len(silver'))
      /\ Reports' /\ PartsInOrder' /\ Alone' /\ Staged' /\ OneReading'
  BY <1>1, <1>2, RunnerMoves
<1>4. Types'
  BY <1>1, <1>3 DEF Inv, Types
<1>5. Logs'
  BY <1>1 DEF Inv, Logs
<1>6. \A q \in Runners : AreStaged(writes'[q].left, Arrived)
  BY DEF Inv, Rows, Types
<1>7. Rows'
  BY <1>3, <1>6 DEF Inv, Rows
<1> QED
  BY <1>3, <1>4, <1>5, <1>7 DEF Inv

LEMMA DropStagingStep == ASSUME Inv, NEW r \in Runners, DropStaging(r) PROVE Inv'
<1> DEFINE w == [writes[r] EXCEPT !.pc = "create"]
<1>1. /\ UNCHANGED <<silver, dwh, monthly, report, failures, history, queryVars>>
      /\ run[r].pc = "sink"
      /\ staging' = [i \in DOMAIN staging \ {run[r].id} |-> staging[i]]
  BY DEF DropStaging, At
<1>2. /\ writes' = [writes EXCEPT ![r] = w] /\ w \in WriteType
      /\ w.pc = "create" /\ w.left = writes[r].left
  BY DEF DropStaging, Inv, Types, WriteType
<1> HIDE DEF w
<1>3. AreStaged(w.left, Arrived)
  BY <1>2 DEF Inv, Rows
<1>4. /\ DOMAIN staging' \subseteq Nat
      /\ \A i \in DOMAIN staging' : staging'[i] \subseteq Row /\ AreStaged(staging'[i], Arrived)
  BY <1>1 DEF Inv, Types, Rows
<1> QED
  BY <1>1, <1>2, <1>3, <1>4, SinkStays

LEMMA CreateStagingStep == ASSUME Inv, NEW r \in Runners, CreateStaging(r) PROVE Inv'
<1> DEFINE id == run[r].id
<1>1. /\ UNCHANGED <<silver, dwh, monthly, report, failures, history, queryVars>>
      /\ writes[r].pc = "create" /\ staging' = WithEntry(staging, id, {})
  BY DEF CreateStaging
<1>2. PICK occupied \in OccupancyChoices(Batch(r)) :
          writes' = [writes EXCEPT ![r] =
                        [pc |-> "insert", left |-> DailyRows(r, Batch(r), occupied)]]
  BY DEF CreateStaging
<1> DEFINE rows == DailyRows(r, Batch(r), occupied)
           w == [pc |-> "insert", left |-> rows]
<1>3. run[r].pc = "sink" /\ id \in Nat
  BY <1>1 DEF Inv, PartsInOrder, Types, RunType
<1>4. Batch(r) \subseteq Arrived /\ Arrived \subseteq Records
  BY <1>3, BatchArrived, ArrivedShape DEF Inv
<1>5. rows \subseteq Row /\ AreStaged(rows, Arrived) /\ Batch(r) \subseteq HeldBy(rows)
  BY <1>4, DailyRowsAreRows
<1> HIDE DEF rows
<1>6. w \in WriteType /\ w.pc = "insert" /\ w.left = rows
  BY <1>5 DEF WriteType
<1>7. writes' = [writes EXCEPT ![r] = w] /\ writes'[r] = w
  BY <1>2 DEF rows, Inv, Types
<1> HIDE DEF w
<1>8. /\ DOMAIN staging' = DOMAIN staging \cup {id} /\ staging'[id] = {}
      /\ \A i \in DOMAIN staging \ {id} : staging'[i] = staging[i]
  BY <1>1 DEF WithEntry
<1>9. AreStaged({}, Arrived)
  BY DEF AreStaged
<1>10. /\ DOMAIN staging' \subseteq Nat
       /\ \A i \in DOMAIN staging' : staging'[i] \subseteq Row /\ AreStaged(staging'[i], Arrived)
  BY <1>3, <1>8, <1>9 DEF Inv, Types, Rows
<1>11. Whole(r)'
  <2>1. Batch(r)' = Batch(r) /\ run' = run
    BY <1>1 DEF Batch, queryVars
  <2>2. staging'[id] \cup writes'[r].left = rows
    BY <1>6, <1>7, <1>8
  <2> QED
    BY <1>3, <1>5, <2>1, <2>2 DEF Whole
<1> QED
  BY <1>1, <1>3, <1>5, <1>6, <1>7, <1>10, <1>11, SinkStays

\* A partition goes from what is left into the table: together they hold the
\* batch as before.
LEMMA InsertStagingStep == ASSUME Inv, NEW r \in Runners, InsertStaging(r) PROVE Inv'
<1> DEFINE id == run[r].id
<1>1. /\ UNCHANGED <<silver, dwh, monthly, report, failures, newest, overlapped, cp, launches>>
      /\ writes[r].pc = "insert" /\ id \in DOMAIN staging
  BY DEF InsertStaging, history
<1>2. PICK part \in SUBSET writes[r].left :
          /\ staging' = [staging EXCEPT ![id] = @ \cup part]
          /\ IF part = writes[r].left
             THEN writes' = [writes EXCEPT ![r] = NoWrite] /\ Goto(r, "publish")
             ELSE writes' = [writes EXCEPT ![r].left = @ \ part] /\ UNCHANGED run
  BY DEF InsertStaging
<1>3. /\ run[r].pc = "sink" /\ writes[r] \in WriteType /\ writes[r].left \subseteq Row
      /\ staging[id] \subseteq Row
  BY <1>1 DEF Inv, PartsInOrder, Types, WriteType
<1>4. /\ DOMAIN staging' = DOMAIN staging /\ staging'[id] = staging[id] \cup part
      /\ \A i \in DOMAIN staging \ {id} : staging'[i] = staging[i]
  BY <1>1, <1>2
<1>5. AreStaged(part, Arrived) /\ AreStaged(staging[id] \cup part, Arrived)
  BY <1>1 DEF Inv, Rows, AreStaged
<1>6. /\ DOMAIN staging' \subseteq Nat
      /\ \A i \in DOMAIN staging' : staging'[i] \subseteq Row /\ AreStaged(staging'[i], Arrived)
  BY <1>3, <1>4, <1>5 DEF Inv, Types, Rows
<1>7. ~overlapped => Batch(r) \subseteq HeldBy(staging[id] \cup writes[r].left)
  BY <1>1 DEF Inv, Staged, Whole
<1>8. CASE part = writes[r].left
  <2>1. writes' = [writes EXCEPT ![r] = NoWrite] /\ Goto(r, "publish")
    BY <1>2, <1>8
  <2>2. NoWrite \in WriteType /\ NoWrite.pc = "none" /\ NoWrite.left = {}
    BY DEF NoWrite, WriteType
  <2>3. /\ run'[r].pc = "publish" /\ run'[r].id = id
        /\ run'[r].from = run[r].from /\ run'[r].to = run[r].to /\ writes'[r].pc = "none"
    BY <2>1, <2>2 DEF Goto, Inv, Types, RunType
  <2>4. Batch(r)' = Batch(r)
    BY <1>1, <2>3 DEF Batch
  <2>5. ~overlapped => Whole(r)'
    BY <1>4, <1>7, <1>8, <2>3, <2>4 DEF Whole
  <2>6. /\ run' \in [Runners -> RunType] /\ writes' \in [Runners -> WriteType]
        /\ Arrived' = Arrived
        /\ \A q \in Runners : InLog(run'[q], cp'.ends, Len(silver'))
        /\ Reports' /\ PartsInOrder' /\ Alone' /\ Staged' /\ OneReading'
    BY <1>1, <1>3, <2>1, <2>2, <2>5, BatchMoves
  <2>7. Types'
    BY <1>1, <1>6, <2>6 DEF Inv, Types
  <2>8. Logs'
    BY <1>1, <2>6 DEF Inv, Logs
  <2>9. Rows'
    <3>1. AreStaged(NoWrite.left, Arrived)
      BY <2>2 DEF AreStaged
    <3>2. \A q \in Runners : AreStaged(writes'[q].left, Arrived)
      BY <2>1, <3>1 DEF Inv, Rows, Types
    <3> QED
      BY <1>1, <1>6, <2>6, <3>2 DEF Inv, Rows
  <2> QED
    BY <2>6, <2>7, <2>8, <2>9 DEF Inv
<1>9. CASE part # writes[r].left
  <2> DEFINE w == [writes[r] EXCEPT !.left = writes[r].left \ part]
  <2>1. /\ writes' = [writes EXCEPT ![r] = w] /\ writes'[r] = w /\ UNCHANGED run
        /\ w \in WriteType /\ w.pc = "insert" /\ w.left = writes[r].left \ part
    BY <1>1, <1>2, <1>3, <1>9 DEF Inv, Types, WriteType
  <2> HIDE DEF w
  <2>2. AreStaged(w.left, Arrived)
    BY <2>1 DEF Inv, Rows, AreStaged
  <2>3. Batch(r)' = Batch(r)
    BY <1>1, <2>1 DEF Batch
  <2>4. staging'[id] \cup writes'[r].left = staging[id] \cup writes[r].left
    BY <1>4, <2>1
  <2>5. ~overlapped => Whole(r)'
    BY <1>3, <1>7, <2>1, <2>3, <2>4 DEF Whole
  <2>6. UNCHANGED <<silver, dwh, monthly, report, failures, history, queryVars>>
    BY <1>1, <2>1 DEF history, queryVars
  <2> QED
    BY <1>3, <1>6, <2>1, <2>2, <2>5, <2>6, SinkStays
<1> QED
  BY <1>8, <1>9

\* What an upsert brings in is rows of the staging table.
LEMMA StagedRow ==
    ASSUME NEW id, NEW k \in StagedKeys(id)
    PROVE  \E s \in staging[id] : s.key = k /\ StagedCells(id, k) = s.cells
BY DEF StagedKeys, StagedCells

\* The merge replaces rows by those of one staging table.
LEMMA MergeStep == ASSUME Inv, NEW r \in Runners, Merge(r) PROVE Inv'
<1> DEFINE id == run[r].id
<1>1. /\ UNCHANGED <<silver, writes, monthly, report, failures, overlapped, cp, launches>>
      /\ run[r].pc = "publish" /\ Goto(r, "commit") /\ id \in DOMAIN staging
      /\ dwh' = [k \in DOMAIN dwh \cup StagedKeys(id) |->
                    IF k \in StagedKeys(id) THEN StagedCells(id, k) ELSE dwh[k]]
      /\ newest' = [k \in DOMAIN dwh' |-> IF k \in StagedKeys(id) THEN id ELSE newest[k]]
      /\ staging' = [i \in DOMAIN staging \ {id} |-> staging[i]]
  BY DEF Merge, Upsert, MergeAllowed, At
<1>2. /\ run' \in [Runners -> RunType] /\ Arrived' = Arrived
      /\ \A q \in Runners : InLog(run'[q], cp'.ends, Len(silver'))
      /\ Reports' /\ PartsInOrder' /\ Alone' /\ Staged' /\ OneReading'
  BY <1>1, NothingWritten, BatchMoves
<1>3. id \in DOMAIN cp.ends
  BY <1>1 DEF Inv, Logs, InLog
<1>4. Types'
  BY <1>1, <1>2 DEF Inv, Types
<1>5. Rows'
  <2>1. \A k \in StagedKeys(id) : IsRow(k, StagedCells(id, k), Arrived)
    BY <1>1, StagedRow DEF Inv, Rows, AreStaged
  <2>2. AreRows(dwh', Arrived)
    BY <1>1, <2>1 DEF Inv, Rows, AreRows
  <2>3. \A i \in DOMAIN staging' : AreStaged(staging'[i], Arrived)
    BY <1>1 DEF Inv, Rows
  <2> QED
    BY <1>1, <1>2, <2>2, <2>3 DEF Inv, Rows
<1>6. Logs'
  <2>1. DOMAIN newest' = DOMAIN dwh' /\ \A k \in DOMAIN newest' : newest'[k] \in DOMAIN cp.ends
    BY <1>1, <1>3 DEF Inv, Logs
  <2> QED
    BY <1>1, <1>2, <2>1 DEF Inv, Logs
<1> QED
  BY <1>2, <1>4, <1>5, <1>6 DEF Inv

LEMMA FailMergeStep == ASSUME Inv, NEW r \in Runners, FailMerge(r) PROVE Inv'
<1>1. /\ UNCHANGED <<silver, staging, writes, dwh, monthly, report, newest, overlapped, cp, launches>>
      /\ run[r].pc = "publish" /\ Goto(r, "commit") /\ failures' \in Nat
  BY DEF FailMerge, tables, history, At, Inv, Types
<1>2. /\ run' \in [Runners -> RunType] /\ Arrived' = Arrived
      /\ \A q \in Runners : InLog(run'[q], cp'.ends, Len(silver'))
      /\ Reports' /\ PartsInOrder' /\ Alone' /\ Staged' /\ OneReading'
  BY <1>1, NothingWritten, BatchMoves
<1>3. Types'
  BY <1>1, <1>2 DEF Inv, Types
<1>4. Logs'
  BY <1>1, <1>2 DEF Inv, Logs
<1>5. Rows'
  BY <1>1, <1>2 DEF Inv, Rows
<1> QED
  BY <1>2, <1>3, <1>4, <1>5 DEF Inv

\* Reading the logs: the last planned batch again, or the one that follows it.
LEMMA ReadStep == ASSUME Inv, NEW r \in Runners, Read(r) PROVE Inv'
<1>1. /\ UNCHANGED <<silver, staging, writes, dwh, monthly, report, failures, newest, overlapped,
                     cp, launches>>
      /\ run[r].pc = "start" /\ Recover(r, Len(silver))
  BY DEF Read, Recover, tables, history, At
<1>2. PICK n \in Nat : DOMAIN cp.ends = 0 .. (n - 1)
  BY DEF Inv, Logs, Consecutive
<1>3. LastPlanned = n - 1
  BY <1>2, LatestOfLog DEF LastPlanned
<1>4. /\ Len(silver) \in Nat /\ \A id \in DOMAIN cp.ends : cp.ends[id] \in 0 .. Len(silver)
  BY ArrivedShape DEF Inv, Logs
<1>5. PICK x : /\ run' = [run EXCEPT ![r] = x]
               /\ \/ /\ LastPlanned # -1
                     /\ x = RunAt("sink", Len(silver), LastPlanned,
                                  EndOf(LastPlanned - 1), EndOf(LastPlanned))
                  \/ x = RunAt("plan", Len(silver), LastPlanned + 1,
                               EndOf(LastPlanned), EndOf(LastPlanned))
  BY <1>1 DEF Recover
<1>6. EndOf(n - 1) \in 0 .. Len(silver)
  BY <1>2, <1>4 DEF EndOf
<1>7. n # 0 => EndOf(n - 2) \in 0 .. Len(silver)
  BY <1>2, <1>4 DEF EndOf
<1>8. /\ x \in RunType /\ x.pc \notin {"off", "done"}
      /\ InLog(x, cp.ends, Len(silver))
      /\ x.pc \in {"sink", "publish", "commit"} => \A id \in DOMAIN cp.ends : id <= x.id
  <2>1. CASE n # 0 /\ x = RunAt("sink", Len(silver), n - 1, EndOf(n - 2), EndOf(n - 1))
    BY <1>2, <1>4, <1>6, <1>7, <2>1 DEF RunAt, RunType, InLog
  <2>2. CASE x = RunAt("plan", Len(silver), n, EndOf(n - 1), EndOf(n - 1))
    BY <1>2, <1>4, <1>6, <2>2 DEF RunAt, RunType, InLog
  <2>3. (n - 1) - 1 = n - 2 /\ (n - 1) + 1 = n /\ (n - 1 # -1 => n # 0)
    OBVIOUS
  <2> QED
    BY <1>3, <1>5, <2>1, <2>2, <2>3
<1>9. writes[r] \in WriteType /\ writes[r].pc = "none" /\ writes = [writes EXCEPT ![r] = writes[r]]
  BY <1>1 DEF Inv, Types, PartsInOrder, WriteType
<1>10. x.pc # "publish"
  BY <1>5 DEF RunAt
<1>11. /\ run' \in [Runners -> RunType] /\ Arrived' = Arrived
       /\ \A q \in Runners : InLog(run'[q], cp'.ends, Len(silver'))
       /\ Reports' /\ PartsInOrder' /\ Alone' /\ Staged' /\ OneReading'
  BY <1>1, <1>5, <1>8, <1>9, <1>10, RunnerMoves
<1>12. Types'
  BY <1>1, <1>11 DEF Inv, Types
<1>13. Logs'
  BY <1>1, <1>11 DEF Inv, Logs
<1>14. Rows'
  BY <1>1, <1>11 DEF Inv, Rows
<1> QED
  BY <1>11, <1>12, <1>13, <1>14 DEF Inv

\* The steps that write to the logs: what they leave alone.
LEMMA LogStep ==
    ASSUME Inv, NEW r \in Runners, NEW x \in RunType, run' = [run EXCEPT ![r] = x],
           run[r].pc \notin {"off", "done", "sink"}, x.pc \in {"plan", "sink"},
           UNCHANGED <<silver, tables, report, failures, history, launches>>,
           DOMAIN cp.ends \subseteq DOMAIN cp'.ends, InLog(x, cp'.ends, Len(silver)),
           cp' = [ends |-> cp'.ends, done |-> cp'.done], Consecutive(DOMAIN cp'.ends),
           cp'.done \subseteq DOMAIN cp'.ends,
           \A id \in DOMAIN cp'.ends : cp'.ends[id] \in 0 .. Len(silver),
           x.pc = "sink" => \A id \in DOMAIN cp'.ends : id <= x.id
    PROVE  Inv'
<1>1. UNCHANGED <<silver, staging, writes, dwh, monthly, report, failures, newest, overlapped,
                  launches>>
  BY DEF tables, history
<1>2. writes[r] \in WriteType /\ writes[r].pc = "none" /\ writes = [writes EXCEPT ![r] = writes[r]]
  BY DEF Inv, Types, PartsInOrder, WriteType
<1>3. /\ run' \in [Runners -> RunType] /\ Arrived' = Arrived
      /\ \A q \in Runners : InLog(run'[q], cp'.ends, Len(silver'))
      /\ Reports' /\ PartsInOrder' /\ Alone' /\ Staged' /\ OneReading'
  BY <1>1, <1>2, RunnerMoves
<1>4. Types'
  BY <1>1, <1>3 DEF Inv, Types
<1>5. Logs'
  BY <1>1, <1>3 DEF Inv, Logs
<1>6. Rows'
  BY <1>1, <1>3 DEF Inv, Rows
<1> QED
  BY <1>3, <1>4, <1>5, <1>6 DEF Inv

\* A batch is planned only after the one before it.
LEMMA PlanStep ==
    ASSUME Inv, NEW r \in Runners, Plan(r),
           UNCHANGED <<silver, tables, report, failures, history>>
    PROVE  Inv'
<1> DEFINE old == run[r]
           x == RunAt("sink", old.upto, old.id, old.from, old.upto)
<1>1. /\ old.pc = "plan" /\ old.id \notin DOMAIN cp.ends /\ run' = [run EXCEPT ![r] = x]
      /\ cp' = [cp EXCEPT !.ends = WithEntry(cp.ends, old.id, old.upto)]
      /\ UNCHANGED launches
  BY DEF Plan, At, Inv, Types
<1>2. /\ old \in RunType /\ old.upto <= Len(silver) /\ Len(silver) \in Nat
      /\ old.id = 0 \/ old.id - 1 \in DOMAIN cp.ends
  BY <1>1, ArrivedShape DEF Inv, Types, Logs, InLog
<1>3. PICK n \in Nat : DOMAIN cp.ends = 0 .. (n - 1)
  BY DEF Inv, Logs, Consecutive
<1>4. old.id \in Nat /\ old.upto \in Nat /\ old.from \in Nat
  BY <1>2 DEF RunType
<1>5. old.id = n
  BY <1>1, <1>2, <1>3, <1>4
<1>6. /\ cp' = [ends |-> cp'.ends, done |-> cp.done] /\ cp'.done = cp.done
      /\ cp'.ends = WithEntry(cp.ends, n, old.upto)
  BY <1>1, <1>5 DEF Inv, Logs
<1>7. DOMAIN cp'.ends = 0 .. n
  BY <1>3, <1>6 DEF WithEntry
<1>8. \A id \in DOMAIN cp'.ends : cp'.ends[id] \in 0 .. Len(silver)
  BY <1>2, <1>4, <1>6 DEF WithEntry, Inv, Logs
<1>9. Consecutive(DOMAIN cp'.ends)
  <2>1. n + 1 \in Nat /\ 0 .. n = 0 .. ((n + 1) - 1)
    OBVIOUS
  <2> QED
    BY <1>7, <2>1 DEF Consecutive
<1>10. x \in RunType /\ x.pc = "sink" /\ x.id = n /\ InLog(x, cp'.ends, Len(silver))
  BY <1>2, <1>4, <1>5, <1>7 DEF RunAt, RunType, InLog
<1>11. \A id \in DOMAIN cp'.ends : id <= x.id
  BY <1>7, <1>10
<1>12. DOMAIN cp.ends \subseteq DOMAIN cp'.ends /\ cp'.done \subseteq DOMAIN cp'.ends
  BY <1>3, <1>6, <1>7 DEF Inv, Logs
<1> HIDE DEF x
<1> QED
  BY <1>1, <1>6, <1>8, <1>9, <1>10, <1>11, <1>12, LogStep

\* A batch is entered in the commit log, whatever became of its merge.
LEMMA CommitStep ==
    ASSUME Inv, NEW r \in Runners, Commit(r),
           UNCHANGED <<silver, tables, report, failures, history>>
    PROVE  Inv'
<1> DEFINE old == run[r]
           x == RunAt("plan", old.upto, old.id + 1, old.to, old.to)
<1>1. /\ old.pc = "commit" /\ run' = [run EXCEPT ![r] = x]
      /\ cp' = [cp EXCEPT !.done = cp.done \cup {old.id}]
      /\ UNCHANGED launches
  BY DEF Commit, At, Inv, Types
<1>2. /\ old \in RunType /\ old.upto <= Len(silver) /\ old.to <= Len(silver)
      /\ old.id \in DOMAIN cp.ends
  BY <1>1 DEF Inv, Types, Logs, InLog
<1>3. old.id \in Nat /\ old.upto \in Nat /\ old.to \in Nat
  BY <1>2 DEF RunType
<1>4. /\ cp'.ends = cp.ends /\ cp'.done = cp.done \cup {old.id}
      /\ cp' = [ends |-> cp'.ends, done |-> cp'.done]
  BY <1>1 DEF Inv, Logs
<1>5. x \in RunType /\ x.pc = "plan" /\ InLog(x, cp'.ends, Len(silver))
  BY <1>2, <1>3, <1>4 DEF RunAt, RunType, InLog
<1>6. /\ cp'.done \subseteq DOMAIN cp'.ends /\ Consecutive(DOMAIN cp'.ends)
      /\ \A id \in DOMAIN cp'.ends : cp'.ends[id] \in 0 .. Len(silver)
  BY <1>2, <1>4 DEF Inv, Logs
<1> HIDE DEF x
<1> QED
  BY <1>1, <1>4, <1>5, <1>6, LogStep

\* A file that arrives changes no reading of silver that was made, no batch that
\* was planned, and makes no report fall short.
LEMMA ArriveStep ==
    ASSUME Inv, NEW recs \in SUBSET Records, Arrive(recs) PROVE Inv'
<1>1. /\ UNCHANGED <<staging, writes, dwh, monthly, report, failures, newest, overlapped,
                     cp, run, launches>>
      /\ silver' = Append(silver, recs)
  BY DEF Arrive, tables, history, queryVars
<1>2. /\ silver' \in Seq(SUBSET Records)
      /\ Len(silver) \in Nat /\ Len(silver') = Len(silver) + 1
      /\ Arrived \subseteq Arrived'
      /\ \A n \in 0 .. Len(silver) : FilesUpTo(silver', n) = FilesUpTo(silver, n)
      /\ \A i \in 1 .. Len(silver) : silver'[i] = silver[i]
  BY <1>1, FilesKept DEF Inv
<1>3. 0 .. Len(silver) \subseteq 0 .. Len(silver')
  BY <1>2
<1>4. \A n \in 0 .. Len(silver) : Reading(silver', n) = Reading(silver, n)
  BY <1>2 DEF Reading
<1>5. Types'
  BY <1>1, <1>2 DEF Inv, Types
<1>6. Logs'
  <2>1. \A q \in Runners : InLog(run'[q], cp'.ends, Len(silver'))
    <3> SUFFICES ASSUME NEW q \in Runners PROVE InLog(run[q], cp.ends, Len(silver'))
      BY <1>1
    <3>1. run[q].upto \in Nat /\ run[q].to \in Nat /\ InLog(run[q], cp.ends, Len(silver))
      BY DEF Inv, Types, Logs, RunType
    <3> QED
      BY <1>2, <3>1 DEF InLog
  <2> QED
    BY <1>1, <1>3, <2>1 DEF Inv, Logs
<1>7. Rows'
  BY <1>1, <1>2, RowKept DEF Inv, Rows
<1>8. Reports'
  <2>1. \A rows : TrueMonths(rows, silver) => TrueMonths(rows, silver')
    BY <1>3, <1>4 DEF TrueMonths
  <2> QED
    BY <1>1, <2>1 DEF Inv, Reports
<1>9. PartsInOrder' /\ Alone'
  BY <1>1 DEF Inv, PartsInOrder, Alone, InProgress
<1>10. Staged'
  <2> SUFFICES ASSUME ~overlapped, NEW r \in Runners PROVE Whole(r)'
    BY <1>1 DEF Staged
  <2>1. Whole(r)
    BY DEF Inv, Staged
  <2>2. CASE run[r].pc \in {"sink", "publish"}
    <3>1. run[r].to <= Len(silver) /\ run[r].to \in Nat /\ run[r].from \in Nat
      BY <2>2 DEF Inv, Types, Logs, InLog, RunType
    <3>2. \A i \in Stretch(run[r].from, run[r].to) : silver'[i] = silver[i]
      BY <1>2, <3>1 DEF Stretch
    <3>3. Batch(r)' = Batch(r)
      BY <1>1, <3>2 DEF Batch
    <3> QED
      BY <1>1, <2>1, <3>3 DEF Whole
  <2>3. CASE run[r].pc \notin {"sink", "publish"}
    BY <1>1, <2>3 DEF Whole, Inv, PartsInOrder
  <2> QED
    BY <2>2, <2>3
<1>11. OneReading'
  <2>1. \A table, rows : Making(table, rows, silver, cp.ends, cp.done)
                           => Making(table, rows, silver', cp.ends, cp.done)
    BY <1>3, <1>4 DEF Making
  <2>2. (\E n \in 0 .. Len(silver) : Within(monthly, Reading(silver, n)))
            => \E n \in 0 .. Len(silver') : Within(monthly, Reading(silver', n))
    BY <1>3, <1>4
  <2> QED
    BY <1>1, <2>1, <2>2 DEF Inv, OneReading
<1> QED
  BY <1>5, <1>6, <1>7, <1>8, <1>9, <1>10, <1>11 DEF Inv

\* Who starts while nobody is in progress is alone; who does not is seen.
LEMMA StartBatchJobStep == ASSUME Inv, NEW r \in Runners, StartBatchJob(r) PROVE Inv'
<1> DEFINE x == RunAt("start", 0, 0, 0, 0)
<1>1. /\ UNCHANGED <<silver, staging, writes, dwh, monthly, report, failures, newest, cp>>
      /\ run[r].pc \in {"off", "done"} /\ report[r].pc = "off"
      /\ run' = [run EXCEPT ![r] = x] /\ launches' = launches + 1
      /\ overlapped' = (overlapped \/ \E q \in Runners \ {r} : InProgress(q))
  BY DEF StartBatchJob, Launch, tables
<1>2. x \in RunType /\ x.pc = "start" /\ InLog(x, cp'.ends, Len(silver))
  BY DEF RunAt, RunType, InLog
<1> HIDE DEF x
<1>3. /\ run' \in [Runners -> RunType] /\ run'[r] = x
      /\ \A q \in Runners \ {r} : run'[q] = run[q]
  BY <1>1, <1>2 DEF Inv, Types
<1>4. Types'
  BY <1>1, <1>3 DEF Inv, Types
<1>5. Logs'
  <2>1. \A q \in Runners : InLog(run'[q], cp'.ends, Len(silver'))
    BY <1>1, <1>2, <1>3 DEF Inv, Logs
  <2> QED
    BY <1>1, <2>1 DEF Inv, Logs
<1>6. Rows'
  <2>1. Arrived' = Arrived
    BY <1>1 DEF Arrived
  <2> QED
    BY <1>1, <2>1 DEF Inv, Rows
<1>7. Reports'
  BY <1>1 DEF Inv, Reports
<1>8. PartsInOrder'
  BY <1>1, <1>3 DEF Inv, PartsInOrder
<1>9. ASSUME ~overlapped'
      PROVE  /\ ~overlapped /\ \A q \in Runners : InProgress(q)' => q = r
             /\ \A q \in Runners : run'[q].pc \notin {"sink", "publish", "commit"}
             /\ \A q \in Runners : report[q].pc = "off" /\ writes[q].pc = "none"
  <2>1. ~overlapped /\ \A q \in Runners \ {r} : ~InProgress(q)
    BY <1>1, <1>9
  <2>2. \A q \in Runners \ {r} : run[q].pc \in {"off", "done"} /\ report[q].pc = "off"
    BY <2>1 DEF InProgress
  <2>3. \A q \in Runners : InProgress(q)' => q = r
    BY <1>1, <1>3, <2>2 DEF InProgress
  <2>4. \A q \in Runners : writes[q].pc = "none"
    BY <1>1, <2>2 DEF Inv, PartsInOrder
  <2> QED
    BY <1>1, <1>2, <1>3, <2>1, <2>2, <2>3, <2>4
<1>10. Alone'
  BY <1>1, <1>9 DEF Inv, Alone
<1>11. Staged'
  BY <1>1, <1>9 DEF Staged, Whole
<1>12. OneReading'
  BY <1>1, <1>9 DEF Inv, OneReading
<1> QED
  BY <1>4, <1>5, <1>6, <1>7, <1>8, <1>10, <1>11, <1>12 DEF Inv

-----------------------------------------------------------------------------
(* The steps of part 2, and death                                          *)

\* What part 2 needs of the table and of the report in hand while runs do not
\* overlap.
InTheMaking(table, y) ==
    /\ \E n \in 0 .. Len(silver) : Within(table, Reading(silver, n))
    /\ y.pc = "truncate" => Making(NoLog, y.rows, silver, cp.ends, cp.done)
    /\ y.pc = "insert" => Making(table, y.rows, silver, cp.ends, cp.done)

\* A runner goes on with its report, or drops it; its part 1 is over.
LEMMA ReportMoves ==
    ASSUME Inv, NEW r \in Runners, InProgress(r),
           NEW y \in ReportType, report' = [report EXCEPT ![r] = y],
           NEW pc \in {"off", "done"}, run' \in {run, [run EXCEPT ![r].pc = pc]},
           run'[r].pc \in {"off", "done"},
           NEW w \in {NoWrite, writes[r]}, writes' = [writes EXCEPT ![r] = w], w.pc = "none",
           UNCHANGED <<silver, staging, dwh, failures, history, cp, launches>>,
           monthly' \in MonthlyTable,
           TrueMonths(monthly', silver), TrueMonths(y.rows, silver),
           ~overlapped => InTheMaking(monthly', y)
    PROVE  Inv'
<1>1. /\ UNCHANGED <<silver, staging, dwh, failures, newest, overlapped, cp, launches>>
      /\ report' \in [Runners -> ReportType] /\ report'[r] = y
      /\ \A q \in Runners \ {r} : report'[q] = report[q]
  BY DEF history, Inv, Types
<1>2. /\ run' \in [Runners -> RunType]
      /\ \A q \in Runners \ {r} : run'[q] = run[q]
      /\ run[r] \in RunType /\ run'[r] \in {run[r], [run[r] EXCEPT !.pc = pc]}
  BY DEF Inv, Types, RunType
<1>3. NoWrite \in WriteType /\ NoWrite.left = {}
  BY DEF NoWrite, WriteType
<1>4. /\ writes' \in [Runners -> WriteType] /\ writes'[r] = w
      /\ \A q \in Runners \ {r} : writes'[q] = writes[q]
  BY <1>3 DEF Inv, Types
<1>5. Types'
  BY <1>1, <1>2, <1>4 DEF Inv, Types
<1>6. Logs'
  <2>1. \A q \in Runners : InLog(run'[q], cp'.ends, Len(silver'))
    BY <1>1, <1>2 DEF Inv, Logs, InLog
  <2> QED
    BY <1>1, <2>1 DEF Inv, Logs
<1>7. Rows'
  <2>1. Arrived' = Arrived
    BY <1>1 DEF Arrived
  <2>2. AreStaged(w.left, Arrived)
    BY <1>3 DEF Inv, Rows, AreStaged
  <2>3. \A q \in Runners : AreStaged(writes'[q].left, Arrived)
    BY <1>4, <2>2 DEF Inv, Rows
  <2> QED
    BY <1>1, <2>1, <2>3 DEF Inv, Rows
<1>8. Reports'
  BY <1>1 DEF Inv, Reports
<1>9. PartsInOrder'
  BY <1>1, <1>2, <1>4 DEF Inv, PartsInOrder
<1>10. \A q \in Runners : InProgress(q)' => InProgress(q)
  BY <1>1, <1>2 DEF InProgress
<1>11. ASSUME ~overlapped
       PROVE  /\ \A p, q \in Runners : InProgress(p)' /\ InProgress(q)' => p = q
              /\ \A q \in Runners \ {r} : run'[q].pc \in {"off", "done"} /\ report'[q].pc = "off"
  BY <1>1, <1>2, <1>10, <1>11 DEF Inv, Alone, InProgress
<1>12. Alone'
  BY <1>1, <1>11 DEF Alone
<1>13. Staged'
  <2>1. Whole(r)'
    BY <1>4 DEF Whole
  <2> QED
    BY <1>1, <1>2, <1>4, <2>1, OthersStagedNothing
<1>14. OneReading'
  BY <1>1, <1>11 DEF OneReading, InTheMaking
<1> QED
  BY <1>5, <1>6, <1>7, <1>8, <1>9, <1>12, <1>13, <1>14 DEF Inv

\* Whoever has a report in hand has ended part 1 and writes no staging table.
LEMMA ReportInHand ==
    ASSUME Inv, NEW r \in Runners, report[r].pc # "off"
    PROVE  /\ InProgress(r) /\ run[r].pc \in {"off", "done"} /\ writes[r].pc = "none"
           /\ writes = [writes EXCEPT ![r] = writes[r]]
           /\ report[r] \in ReportType /\ report[r].rows \in MonthlyTable
           /\ TrueMonths(report[r].rows, silver)
BY DEF Inv, PartsInOrder, InProgress, Types, ReportType, Reports

\* The table as it is keeps what is asked of it.
LEMMA TableAsItIs ==
    ASSUME Inv
    PROVE  /\ monthly \in MonthlyTable /\ TrueMonths(monthly, silver)
           /\ ~overlapped => \E n \in 0 .. Len(silver) : Within(monthly, Reading(silver, n))
BY DEF Inv, Types, Reports, OneReading

LEMMA EndPart1Step == ASSUME Inv, NEW r \in Runners, EndPart1(r) PROVE Inv'
<1> DEFINE y == [report[r] EXCEPT !.pc = "read"]
<1>1. /\ UNCHANGED <<silver, staging, dwh, monthly, failures, history, cp, launches>>
      /\ report' = [report EXCEPT ![r] = y]
      /\ writes' = [writes EXCEPT ![r] = NoWrite]
      /\ run[r].pc \notin {"off", "done"}
      /\ \E pc \in {"off", "done"} : run' = [run EXCEPT ![r].pc = pc]
  BY DEF EndPart1, Finish, Abort, Goto, At, Inv, Types
<1>2. PICK pc \in {"off", "done"} : run' = [run EXCEPT ![r].pc = pc]
  BY <1>1
<1>3. run'[r].pc \in {"off", "done"}
  BY <1>2 DEF Inv, Types, RunType
<1>4. y \in ReportType /\ y.pc = "read" /\ y.rows = report[r].rows
  BY DEF Inv, Types, ReportType, Reporting
<1>5. TrueMonths(y.rows, silver)
  BY <1>4 DEF Inv, Reports
<1>6. InProgress(r) /\ NoWrite.pc = "none"
  BY <1>1 DEF InProgress, NoWrite
<1> HIDE DEF y
<1>7. ~overlapped => InTheMaking(monthly', y)
  BY <1>1, <1>4, TableAsItIs DEF InTheMaking
<1> QED
  BY <1>1, <1>2, <1>3, <1>4, <1>5, <1>6, <1>7, TableAsItIs, ReportMoves

\* Part 2 reads all of silver, and with it every batch that is done.
LEMMA ReadAllStep == ASSUME Inv, NEW r \in Runners, ReadAll(r) PROVE Inv'
<1> DEFINE y == [pc |-> "truncate", rows |-> MonthlyRows(Arrived)]
           n == Len(silver)
<1>1. /\ UNCHANGED <<silver, staging, writes, dwh, monthly, failures, history, cp, run, launches>>
      /\ report' = [report EXCEPT ![r] = y] /\ report[r].pc = "read"
  BY DEF ReadAll, tables, queryVars
<1>2. /\ Arrived \in SUBSET Records /\ n \in 0 .. n /\ n \in Nat
      /\ MonthlyRows(Arrived) = Reading(silver, n)
  BY ArrivedShape DEF Inv, Reading
<1>3. y \in ReportType /\ y.pc = "truncate" /\ y.rows = Reading(silver, n)
  BY <1>2, MonthlyShape DEF ReportType, Reporting
<1>4. TrueMonths(y.rows, silver)
  BY <1>2, <1>3 DEF TrueMonths
<1>5. \A id \in cp.done : cp.ends[id] <= n
  BY <1>2 DEF Inv, Logs
<1>6. Within(NoLog, Reading(silver, n)) /\ Within(y.rows, Reading(silver, n))
  BY <1>3, EmptyTable DEF Within
<1>7. Making(NoLog, y.rows, silver, cp.ends, cp.done)
  BY <1>2, <1>3, <1>5, <1>6 DEF Making
<1> HIDE DEF y
<1>8. ~overlapped => InTheMaking(monthly', y)
  BY <1>1, <1>3, <1>7, TableAsItIs DEF InTheMaking
<1> QED
  BY <1>1, <1>3, <1>4, <1>8, ReportInHand, TableAsItIs, ReportMoves

\* What a runner has left when it goes on to insert: the rows, or nothing.
LEMMA FillingShape ==
    ASSUME Inv, NEW r \in Runners, NEW rows \in MonthlyTable, Filling(r, rows),
           TrueMonths(rows, silver)
    PROVE  \E y \in ReportType :
              /\ report' = [report EXCEPT ![r] = y] /\ TrueMonths(y.rows, silver)
              /\ y.pc # "truncate" /\ (y.pc = "insert" => y.rows = rows)
<1> DEFINE y == IF DOMAIN rows = {} THEN NoReport ELSE [pc |-> "insert", rows |-> rows]
<1>1. report' = [report EXCEPT ![r] = y]
  BY DEF Filling
<1>2. /\ y \in ReportType /\ TrueMonths(y.rows, silver)
      /\ y.pc # "truncate" /\ (y.pc = "insert" => y.rows = rows)
  BY EmptyTable DEF ReportType, Reporting
<1> HIDE DEF y
<1> QED
  BY <1>1, <1>2

LEMMA TruncateStep == ASSUME Inv, NEW r \in Runners, Truncate(r) PROVE Inv'
<1>1. /\ UNCHANGED <<silver, staging, writes, dwh, failures, history, cp, run, launches>>
      /\ report[r].pc = "truncate" /\ monthly' = NoLog /\ Filling(r, report[r].rows)
  BY DEF Truncate, queryVars
<1>2. /\ InProgress(r) /\ run[r].pc \in {"off", "done"} /\ writes[r].pc = "none"
      /\ writes = [writes EXCEPT ![r] = writes[r]]
      /\ report[r].rows \in MonthlyTable /\ TrueMonths(report[r].rows, silver)
  BY <1>1, ReportInHand
<1>3. PICK y \in ReportType :
          /\ report' = [report EXCEPT ![r] = y] /\ TrueMonths(y.rows, silver)
          /\ y.pc # "truncate" /\ (y.pc = "insert" => y.rows = report[r].rows)
  BY <1>1, <1>2, FillingShape
<1>4. ~overlapped => Making(NoLog, report[r].rows, silver, cp.ends, cp.done)
  BY <1>1 DEF Inv, OneReading
<1>5. \E n \in 0 .. Len(silver) : Within(NoLog, Reading(silver, n))
  BY ArrivedShape, EmptyTable DEF Inv
<1>6. ~overlapped => InTheMaking(monthly', y)
  BY <1>1, <1>3, <1>4, <1>5 DEF InTheMaking
<1>7. monthly' \in MonthlyTable /\ TrueMonths(monthly', silver)
  BY <1>1, EmptyTable
<1> QED
  BY <1>1, <1>2, <1>3, <1>6, <1>7, ReportMoves

LEMMA RefuseMonthsStep == ASSUME Inv, NEW r \in Runners, RefuseMonths(r) PROVE Inv'
<1>1. /\ UNCHANGED <<silver, staging, writes, dwh, monthly, failures, history, cp, run, launches>>
      /\ report' = [report EXCEPT ![r] = NoReport] /\ report[r].pc = "insert"
  BY DEF RefuseMonths, tables, queryVars
<1>2. ~overlapped => InTheMaking(monthly', NoReport)
  BY <1>1, TableAsItIs, EmptyTable DEF InTheMaking
<1> QED
  BY <1>1, <1>2, ReportInHand, TableAsItIs, EmptyTable, ReportMoves

\* A partition goes from what is left into the table: together they are of the
\* same reading as before.
LEMMA InsertMonthsStep == ASSUME Inv, NEW r \in Runners, InsertMonths(r) PROVE Inv'
<1> DEFINE rows == report[r].rows
<1>1. /\ UNCHANGED <<silver, staging, writes, dwh, failures, history, cp, run, launches>>
      /\ report[r].pc = "insert"
  BY DEF InsertMonths, queryVars
<1>2. PICK part \in SUBSET DOMAIN rows :
          /\ part \cap DOMAIN monthly = {}
          /\ monthly' = [m \in DOMAIN monthly \cup part |-> IF m \in part THEN rows[m] ELSE monthly[m]]
          /\ Filling(r, [m \in DOMAIN rows \ part |-> rows[m]])
  BY DEF InsertMonths
<1> DEFINE left == [m \in DOMAIN rows \ part |-> rows[m]]
<1>3. /\ InProgress(r) /\ run[r].pc \in {"off", "done"} /\ writes[r].pc = "none"
      /\ writes = [writes EXCEPT ![r] = writes[r]]
      /\ rows \in MonthlyTable /\ TrueMonths(rows, silver)
  BY <1>1, ReportInHand
<1>4. left \in MonthlyTable /\ monthly' \in MonthlyTable
  BY <1>2, <1>3, TableAsItIs, TableParts
<1>5. TrueMonths(left, silver) /\ TrueMonths(monthly', silver)
  BY <1>2, <1>3, TableAsItIs DEF TrueMonths
<1>6. PICK y \in ReportType :
          /\ report' = [report EXCEPT ![r] = y] /\ TrueMonths(y.rows, silver)
          /\ y.pc # "truncate" /\ (y.pc = "insert" => y.rows = left)
  BY <1>2, <1>4, <1>5, FillingShape
<1>7. ASSUME ~overlapped
      PROVE  /\ \E n \in 0 .. Len(silver) : Within(monthly', Reading(silver, n))
             /\ Making(monthly', left, silver, cp.ends, cp.done)
  <2>1. PICK n \in 0 .. Len(silver) :
            /\ \A id \in cp.done : cp.ends[id] <= n
            /\ Within(monthly, Reading(silver, n)) /\ Within(rows, Reading(silver, n))
            /\ DOMAIN Reading(silver, n) \subseteq DOMAIN monthly \cup DOMAIN rows
    BY <1>1, <1>7 DEF Inv, OneReading, Making
  <2>2. Within(monthly', Reading(silver, n)) /\ Within(left, Reading(silver, n))
    BY <1>2, <2>1 DEF Within
  <2>3. DOMAIN Reading(silver, n) \subseteq DOMAIN monthly' \cup DOMAIN left
    BY <1>2, <2>1
  <2> HIDE DEF left
  <2> QED
    BY <2>1, <2>2, <2>3 DEF Making
<1> HIDE DEF left
<1>8. ~overlapped => InTheMaking(monthly', y)
  BY <1>6, <1>7 DEF InTheMaking
<1> QED
  BY <1>1, <1>3, <1>4, <1>5, <1>6, <1>8, ReportMoves

LEMMA DieStep == ASSUME Inv, NEW r \in Runners, Die(r) PROVE Inv'
<1>1. /\ UNCHANGED <<silver, staging, dwh, monthly, failures, history, cp, launches>>
      /\ writes' = [writes EXCEPT ![r] = NoWrite] /\ NoWrite.pc = "none"
  BY DEF Die, Abort, NoWrite
<1>2. monthly' \in MonthlyTable /\ TrueMonths(monthly', silver)
  BY <1>1, TableAsItIs
<1>3. CASE Abort(r) /\ UNCHANGED report
  <2>1. /\ run' = [run EXCEPT ![r].pc = "off"] /\ run[r].pc \notin {"off", "done"}
        /\ report' = [report EXCEPT ![r] = report[r]]
    BY <1>3 DEF Abort, Goto, Inv, Types
  <2>2. run'[r].pc = "off"
    BY <2>1 DEF Inv, Types, RunType
  <2>3. /\ InProgress(r) /\ report[r].pc = "off" /\ report[r] \in ReportType
        /\ TrueMonths(report[r].rows, silver)
    BY <2>1, NoReportYet DEF Inv, Types, Reports
  <2>4. ~overlapped => InTheMaking(monthly', report[r])
    BY <1>1, <2>3, TableAsItIs DEF InTheMaking
  <2> QED
    BY <1>1, <1>2, <2>1, <2>2, <2>3, <2>4, ReportMoves
<1>4. CASE /\ report[r].pc # "off"
           /\ report' = [report EXCEPT ![r] = NoReport]
           /\ Goto(r, "off")
  <2>1. run' = [run EXCEPT ![r].pc = "off"] /\ run'[r].pc = "off"
    BY <1>4 DEF Goto, Inv, Types, RunType
  <2>2. InProgress(r)
    BY <1>4, ReportInHand
  <2>3. ~overlapped => InTheMaking(monthly', NoReport)
    BY <1>1, TableAsItIs, EmptyTable DEF InTheMaking
  <2> QED
    BY <1>1, <1>2, <1>4, <2>1, <2>2, <2>3, EmptyTable, ReportMoves
<1> QED
  BY <1>3, <1>4 DEF Die

-----------------------------------------------------------------------------
(* The theorems                                                            *)

LEMMA InitInv == Init => Inv
<1> SUFFICES ASSUME Init PROVE Inv
  OBVIOUS
<1>1. /\ silver = <<>> /\ failures = 0 /\ overlapped = FALSE /\ launches = 0
      /\ DOMAIN staging = {} /\ DOMAIN dwh = {} /\ monthly = NoLog /\ DOMAIN newest = {}
      /\ report = [r \in Runners |-> NoReport] /\ writes = [r \in Runners |-> NoWrite]
      /\ run = [r \in Runners |-> Idle] /\ cp = NoCheckpoint
  BY DEF Init, QueryInit, NoLog
<1>2. /\ Idle \in RunType /\ Idle.pc = "off"
      /\ NoWrite \in WriteType /\ NoWrite.pc = "none" /\ NoWrite.left = {}
  BY DEF Idle, RunAt, RunType, NoWrite, WriteType
<1>3. Types
  <2>1. silver \in Seq(SUBSET Records)
    BY <1>1
  <2>2. run \in [Runners -> RunType] /\ writes \in [Runners -> WriteType]
    BY <1>1, <1>2
  <2>3. report \in [Runners -> ReportType] /\ monthly \in MonthlyTable
    BY <1>1, EmptyTable
  <2> QED
    BY <1>1, <2>1, <2>2, <2>3 DEF Types
<1>4. Logs
  <2>1. DOMAIN cp.ends = {} /\ cp.done = {} /\ cp = [ends |-> cp.ends, done |-> cp.done]
    BY <1>1 DEF NoCheckpoint, NoLog
  <2>2. Consecutive(DOMAIN cp.ends)
    <3>1. 0 \in Nat /\ {} = 0 .. (0 - 1)
      OBVIOUS
    <3> QED
      BY <2>1, <3>1 DEF Consecutive
  <2> QED
    BY <1>1, <1>2, <2>1, <2>2 DEF Logs, InLog
<1>5. Rows
  BY <1>1, <1>2 DEF Rows, AreRows, AreStaged
<1>6. Reports
  BY <1>1, EmptyTable DEF Reports
<1>7. PartsInOrder /\ Alone /\ Staged
  BY <1>1, <1>2, EmptyTable DEF PartsInOrder, Alone, Staged, Whole, InProgress
<1>8. OneReading
  <2>1. \E n \in 0 .. Len(silver) : Within(monthly, Reading(silver, n))
    BY <1>1, <1>3, ArrivedShape, EmptyTable
  <2> QED
    BY <1>1, <2>1, EmptyTable DEF OneReading
<1> QED
  BY <1>3, <1>4, <1>5, <1>6, <1>7, <1>8 DEF Inv

LEMMA StutterStep == ASSUME Inv, UNCHANGED vars PROVE Inv'
<1>1. UNCHANGED <<silver, staging, writes, dwh, monthly, report, failures, newest, overlapped,
                  cp, run, launches>>
  BY DEF vars, tables, history, queryVars
<1>2. Types' /\ Logs'
  BY <1>1 DEF Inv, Types, Logs
<1>3. Rows'
  <2>1. Arrived' = Arrived
    BY <1>1 DEF Arrived
  <2> QED
    BY <1>1, <2>1 DEF Inv, Rows
<1>4. Reports' /\ PartsInOrder' /\ Alone' /\ OneReading'
  BY <1>1 DEF Inv, Reports, PartsInOrder, Alone, InProgress, OneReading
<1>5. Staged'
  BY <1>1 DEF Inv, Staged, Whole, Batch
<1> QED
  BY <1>2, <1>3, <1>4, <1>5 DEF Inv

LEMMA NextInv == Inv /\ [Next]_vars => Inv'
<1> SUFFICES ASSUME Inv, [Next]_vars PROVE Inv'
  OBVIOUS
<1>1. ASSUME NEW recs \in SUBSET (Records \ Arrived), Arrive(recs) PROVE Inv'
  BY <1>1, ArriveStep
<1>2. ASSUME NEW r \in Runners, StartBatchJob(r) PROVE Inv'
  BY <1>2, StartBatchJobStep
<1>3. ASSUME NEW r \in Runners, Part1(r) PROVE Inv'
  BY <1>3, ReadStep, SkipEmptyStep, DropStagingStep, CreateStagingStep, InsertStagingStep,
     MergeStep, FailMergeStep, PlanStep, CommitStep DEF Part1
<1>4. ASSUME NEW r \in Runners, EndPart1(r) PROVE Inv'
  BY <1>4, EndPart1Step
<1>5. ASSUME NEW r \in Runners, Part2(r) PROVE Inv'
  BY <1>5, ReadAllStep, TruncateStep, InsertMonthsStep, RefuseMonthsStep DEF Part2
<1>6. ASSUME NEW r \in Runners, Die(r) PROVE Inv'
  BY <1>6, DieStep
<1> QED
  BY <1>1, <1>2, <1>3, <1>4, <1>5, <1>6, StutterStep DEF Next, Advance

\* The invariant holds of every state that is reached.
THEOREM WarehouseInvariant == Spec => []Inv
<1> QED
  BY InitInv, NextInv, PTL DEF Spec

\* Every value is of its type: what the tables hold is cells of readings that
\* are in silver, under keys of the five columns and of months.
THEOREM WarehouseTypeCorrect == Spec => []TypeOK
<1>1. ASSUME Inv PROVE TypeOK
  <2>1. Arrived \subseteq Records /\ Len(silver) \in Nat
    BY <1>1, ArrivedShape DEF Inv
  <2>2. ASSUME NEW k \in DOMAIN dwh
        PROVE  /\ k \in Key /\ dwh[k] \subseteq AnyCells
               /\ \A c \in dwh[k] : c.recs \subseteq Arrived
    <3>1. k \in Key /\ dwh[k] \subseteq UNION {Cells(S) : S \in SUBSET Arrived}
      BY <1>1, <2>1, RowShape DEF Inv, Rows, AreRows
    <3>2. ASSUME NEW c \in dwh[k] PROVE c \in AnyCells /\ c.recs \subseteq Arrived
      <4>1. PICK S \in SUBSET Arrived : c \in Cells(S)
        BY <3>1
      <4>2. S \in SUBSET Records
        BY <2>1
      <4>3. c \in AnyCells
        BY <4>1, <4>2 DEF AnyCells
      <4> QED
        BY <4>1, <4>2, <4>3, CellShape
    <3> QED
      BY <3>1, <3>2
  <2>3. QueryTypeOK
    <3>1. PICK n \in Nat : DOMAIN cp.ends = 0 .. (n - 1)
      BY <1>1 DEF Inv, Logs, Consecutive
    <3>2. DOMAIN cp.ends \subseteq Nat
      BY <3>1
    <3> QED
      BY <1>1, <2>1, <3>2 DEF Inv, Types, Logs, QueryTypeOK
  <2> QED
    BY <1>1, <2>2, <2>3 DEF Inv, Types, TypeOK, ReportType, WriteType
<1> QED
  BY <1>1, WarehouseInvariant, PTL

\* The key of a row agrees with its cells, the occupancy being that of one
\* reading of the cell, and cells of one row that are of one device-hour are one.
LEMMA RowKey ==
    ASSUME NEW recs \in SUBSET Records,
           NEW k, NEW cells, IsRow(k, cells, recs), NEW c \in cells
    PROVE  /\ \E x \in c.recs : OccupiedOf[x] \in BOOLEAN /\ k = KeyOf(c, OccupiedOf[x])
           /\ \A d \in cells : c.hour = d.hour /\ c.dev = d.dev => c = d
<1>0. PICK some \in SUBSET recs : \E occupied \in OccupancyChoices(some) :
          cells = {e \in Cells(some) : KeyOf(e, occupied[e]) = k} /\ cells # {}
  BY DEF IsRow
<1>1. PICK occupied \in OccupancyChoices(some) :
          cells = {e \in Cells(some) : KeyOf(e, occupied[e]) = k} /\ cells # {}
  BY <1>0
<1>2. some \in SUBSET Records /\ c \in Cells(some) /\ KeyOf(c, occupied[c]) = k
  BY <1>1
<1>3. PICK x \in c.recs : occupied[c] \in BOOLEAN /\ occupied[c] = OccupiedOf[x]
  BY <1>2, OccupancyShape
<1>4. ASSUME NEW d \in cells, c.hour = d.hour, c.dev = d.dev PROVE c = d
  <2>1. d \in Cells(some)
    BY <1>1
  <2>2. /\ c = [hour |-> c.hour, dev |-> c.dev, recs |-> c.recs]
        /\ c.recs = {y \in some : HourOf[y] = c.hour /\ DeviceOf[y] = c.dev}
    BY <1>2, CellShape
  <2>3. /\ d = [hour |-> d.hour, dev |-> d.dev, recs |-> d.recs]
        /\ d.recs = {y \in some : HourOf[y] = d.hour /\ DeviceOf[y] = d.dev}
    BY <1>2, <2>1, CellShape
  <2> QED
    BY <1>4, <2>2, <2>3
<1> QED
  BY <1>2, <1>3, <1>4

\* Whatever was replayed, failed, or written by two runs into one staging table,
\* only somebody who came or left within the hour brings it into two daily rows.
THEOREM WarehouseCountsTwiceOnlyIfLeft == Spec => []CountedTwiceOnlyIfLeft
<1>1. ASSUME Inv PROVE CountedTwiceOnlyIfLeft
  <2> SUFFICES ASSUME NEW k \in DOMAIN dwh, NEW l \in DOMAIN dwh,
                      NEW c \in dwh[k], NEW d \in dwh[l],
                      c.hour = d.hour, c.dev = d.dev
               PROVE  IF k = l THEN c = d
                      ELSE /\ l = [k EXCEPT !.occupied = ~@]
                           /\ \E x \in c.recs, y \in d.recs : OccupiedOf[x] # OccupiedOf[y]
    BY DEF CountedTwiceOnlyIfLeft
  <2>1. Arrived \in SUBSET Records
    BY <1>1, ArrivedShape DEF Inv
  <2>2. IsRow(k, dwh[k], Arrived) /\ IsRow(l, dwh[l], Arrived)
    BY <1>1 DEF Inv, Rows, AreRows
  <2>3. PICK x \in c.recs : OccupiedOf[x] \in BOOLEAN /\ k = KeyOf(c, OccupiedOf[x])
    BY <2>1, <2>2, RowKey
  <2>4. PICK y \in d.recs : OccupiedOf[y] \in BOOLEAN /\ l = KeyOf(d, OccupiedOf[y])
    BY <2>1, <2>2, RowKey
  <2>5. CASE k = l
    BY <2>1, <2>2, <2>5, RowKey
  <2>6. CASE k # l
    <3>1. k = [day |-> DayOf[c.hour], group |-> GroupOf[c.dev],
               occupied |-> OccupiedOf[x], peak |-> PeakOf[c.hour]]
      BY <2>3 DEF KeyOf
    <3>2. l = [day |-> DayOf[c.hour], group |-> GroupOf[c.dev],
               occupied |-> OccupiedOf[y], peak |-> PeakOf[c.hour]]
      BY <2>4 DEF KeyOf
    <3>3. OccupiedOf[x] # OccupiedOf[y]
      BY <2>6, <3>1, <3>2
    <3>4. OccupiedOf[y] = ~OccupiedOf[x]
      BY <2>3, <2>4, <3>3, Zenon
    <3>5. l = [k EXCEPT !.occupied = ~OccupiedOf[x]]
      BY <3>1, <3>2, <3>4
    <3>6. k.occupied = OccupiedOf[x]
      BY <3>1
    <3>7. l = [k EXCEPT !.occupied = ~@]
      BY <3>5, <3>6
    <3> QED
      BY <2>6, <3>3, <3>7
  <2> QED
    BY <2>5, <2>6
<1> QED
  BY <1>1, WarehouseInvariant, PTL

\* Until two runs overlap the monthly table is of one reading of silver, however
\* far a run got with it.
THEOREM WarehouseMonthly == Spec => []MonthlyIsOneReading
<1>1. ASSUME Inv PROVE MonthlyIsOneReading
  BY <1>1 DEF Inv, OneReading, Within, Reading, FilesUpTo, FirstFiles, MonthlyIsOneReading
<1> QED
  BY <1>1, WarehouseInvariant, PTL

\* However runs overlap, each month of the table is of one reading of silver.
THEOREM WarehouseMonthsTrue == Spec => []MonthlyRowsTrue
<1>1. ASSUME Inv PROVE MonthlyRowsTrue
  BY <1>1 DEF Inv, Reports, TrueMonths, Reading, FilesUpTo, FirstFiles, MonthlyRowsTrue
<1> QED
  BY <1>1, WarehouseInvariant, PTL

\* Only a merge changes a row, and until two runs overlap the batch it merges
\* is the last planned.
THEOREM WarehouseKeepsNewest == Spec => NewestBatchWins
<1> DEFINE Grows ==
        ~overlapped => \A k \in DOMAIN newest : k \in DOMAIN newest' /\ newest[k] <= newest'[k]
<1>1. ASSUME Inv, [Next]_vars PROVE Grows
  <2>1. ASSUME NEW r \in Runners, Merge(r) PROVE Grows
    <3> SUFFICES ASSUME ~overlapped, NEW k \in DOMAIN newest
                 PROVE  k \in DOMAIN newest' /\ newest[k] <= newest'[k]
      OBVIOUS
    <3>1. /\ run[r].pc = "publish"
          /\ newest' = [l \in DOMAIN dwh' |->
                           IF l \in StagedKeys(run[r].id) THEN run[r].id ELSE newest[l]]
          /\ DOMAIN dwh' = DOMAIN dwh \cup StagedKeys(run[r].id)
      BY <2>1 DEF Merge, Upsert, At
    <3>2. k \in DOMAIN dwh /\ newest[k] \in DOMAIN cp.ends
      BY <1>1 DEF Inv, Logs
    <3>3. newest[k] <= run[r].id
      BY <1>1, <3>1, <3>2 DEF Inv, Alone
    <3>4. PICK n \in Nat : DOMAIN cp.ends = 0 .. (n - 1)
      BY <1>1 DEF Inv, Logs, Consecutive
    <3>5. newest[k] <= newest[k]
      BY <3>2, <3>4
    <3> QED
      BY <3>1, <3>2, <3>3, <3>5
  <2>2. ASSUME UNCHANGED newest PROVE Grows
    <3>1. PICK n \in Nat : DOMAIN cp.ends = 0 .. (n - 1)
      BY <1>1 DEF Inv, Logs, Consecutive
    <3>2. \A k \in DOMAIN newest : newest[k] <= newest[k]
      BY <1>1, <3>1 DEF Inv, Logs
    <3> QED
      BY <2>2, <3>2
  <2>3. ASSUME NEW recs, Arrive(recs) PROVE UNCHANGED newest
    BY <2>3 DEF Arrive, history
  <2>4. ASSUME NEW r \in Runners, Advance(r) PROVE Merge(r) \/ UNCHANGED newest
    BY <2>4 DEF Advance, Part1, Part2, Read, SkipEmpty, DropStaging, CreateStaging, InsertStaging,
                FailMerge, EndPart1, ReadAll, Truncate, InsertMonths, RefuseMonths, history
  <2>5. ASSUME NEW r \in Runners, StartBatchJob(r) \/ Die(r) PROVE UNCHANGED newest
    BY <2>5 DEF StartBatchJob, Die, history
  <2>6. UNCHANGED vars => UNCHANGED newest
    BY DEF vars, history
  <2> HIDE DEF Grows
  <2> QED
    BY <1>1, <2>1, <2>2, <2>3, <2>4, <2>5, <2>6 DEF Next
<1> QED
  BY <1>1, WarehouseInvariant, PTL DEF Spec, NewestBatchWins

\* A run that comes to its merge alone has staged the whole of its batch since it
\* last created the table, and nobody has taken a row out.
THEOREM WarehouseMergesWhole == Spec => MergesWholeBatch
<1> DEFINE Brought(r) == UNION {c.recs : c \in UNION {dwh'[k] : k \in StagedKeys(run[r].id)}}
           MergesWhole == ~overlapped => \A r \in Runners : Merge(r) => Batch(r) \subseteq Brought(r)
<1>1. ASSUME Inv PROVE MergesWhole
  <2> SUFFICES ASSUME NEW r \in Runners, Merge(r), ~overlapped PROVE Batch(r) \subseteq Brought(r)
    OBVIOUS
  <2> DEFINE id == run[r].id
  <2>1. /\ run[r].pc = "publish" /\ id \in DOMAIN staging
        /\ \A s, t \in staging[id] : s.key = t.key => s = t
        /\ \A k \in StagedKeys(id) : dwh'[k] = StagedCells(id, k)
    BY DEF Merge, Upsert, MergeAllowed, At
  <2>2. Batch(r) \subseteq HeldBy(staging[id])
    BY <1>1, <2>1 DEF Inv, Staged, Whole
  <2>3. ASSUME NEW s \in staging[id] PROVE s.key \in StagedKeys(id) /\ dwh'[s.key] = s.cells
    <3>1. s.key \in StagedKeys(id)
      BY DEF StagedKeys
    <3>2. PICK t \in staging[id] : t.key = s.key /\ StagedCells(id, s.key) = t.cells
      BY <3>1, StagedRow
    <3> QED
      BY <2>1, <3>1, <3>2
  <2>4. HeldBy(staging[id]) \subseteq Brought(r)
    BY <2>3 DEF HeldBy
  <2> QED
    BY <2>2, <2>4
<1> QED
  BY <1>1, WarehouseInvariant, PTL DEF Spec, MergesWholeBatch

\* Only the insertion of the last months ends a report with a change to the
\* table.  By then it is a reading of silver made when part 1 of the only run in
\* progress was over: it covers all that is done.
THEOREM WarehouseCoversProcessed == Spec => MonthlyCoversProcessed
<1> DEFINE Shown == UNION {c.recs : c \in UNION {monthly'[m] : m \in DOMAIN monthly'}}
           Covers ==
             ~overlapped => \A r \in Runners :
               report[r].pc = "insert" /\ report'[r].pc = "off" /\ monthly' # monthly =>
                 \A id \in cp.done : UNION {silver[i] : i \in 1 .. EndOf(id)} \subseteq Shown
<1>1. ASSUME Inv, [Next]_vars PROVE Covers
  <2> SUFFICES ASSUME NEW r \in Runners, report[r].pc = "insert", report'[r].pc = "off",
                      monthly' # monthly, ~overlapped, NEW id \in cp.done
               PROVE  UNION {silver[i] : i \in 1 .. EndOf(id)} \subseteq Shown
    OBVIOUS
  <2> DEFINE rows == report[r].rows
  <2>1. InsertMonths(r)
    <3>1. ASSUME NEW recs, Arrive(recs) PROVE FALSE
      BY <3>1 DEF Arrive, tables
    <3>2. ASSUME NEW q \in Runners, StartBatchJob(q) \/ Part1(q) \/ EndPart1(q) \/ Die(q) PROVE FALSE
      BY <3>2 DEF StartBatchJob, Part1, EndPart1, Die, Read, SkipEmpty, DropStaging, CreateStaging,
                  InsertStaging, Merge, FailMerge, tables
    <3>3. ASSUME NEW q \in Runners, Part2(q) PROVE q = r /\ InsertMonths(q)
      <4>1. UNCHANGED monthly => FALSE
        OBVIOUS
      <4>2. Truncate(q) \/ InsertMonths(q)
        BY <3>3, <4>1 DEF Part2, ReadAll, RefuseMonths, tables
      <4>3. \E y : report' = [report EXCEPT ![q] = y]
        BY <4>2 DEF Truncate, InsertMonths, Filling
      <4>4. q = r
        BY <1>1, <4>3 DEF Inv, Types
      <4>5. ~Truncate(r)
        BY DEF Truncate
      <4> QED
        BY <4>2, <4>4, <4>5
    <3>4. ~UNCHANGED vars
      BY DEF vars, tables
    <3> QED
      BY <1>1, <3>1, <3>2, <3>3, <3>4 DEF Next, Advance
  <2>2. PICK part \in SUBSET DOMAIN rows :
            /\ part \cap DOMAIN monthly = {}
            /\ monthly' = [m \in DOMAIN monthly \cup part |-> IF m \in part THEN rows[m] ELSE monthly[m]]
            /\ Filling(r, [m \in DOMAIN rows \ part |-> rows[m]])
    BY <2>1 DEF InsertMonths
  <2>3. part = DOMAIN rows
    <3> DEFINE left == [m \in DOMAIN rows \ part |-> rows[m]]
    <3>1. report'[r] = IF DOMAIN left = {} THEN NoReport ELSE [pc |-> "insert", rows |-> left]
      BY <1>1, <2>2 DEF Filling, Inv, Types
    <3>2. DOMAIN left = DOMAIN rows \ part
      OBVIOUS
    <3> HIDE DEF left
    <3>3. DOMAIN left = {}
      BY <3>1
    <3> QED
      BY <2>2, <3>2, <3>3
  <2>4. PICK n \in 0 .. Len(silver) :
            /\ \A i \in cp.done : cp.ends[i] <= n
            /\ Within(monthly, Reading(silver, n)) /\ Within(rows, Reading(silver, n))
            /\ DOMAIN Reading(silver, n) \subseteq DOMAIN monthly \cup DOMAIN rows
    BY <1>1 DEF Inv, OneReading, Making
  <2>5. /\ DOMAIN monthly' = DOMAIN Reading(silver, n)
        /\ \A m \in DOMAIN monthly' : monthly'[m] = Reading(silver, n)[m]
    BY <2>2, <2>3, <2>4 DEF Within
  <2>6. FilesUpTo(silver, n) \in SUBSET Records
    BY <1>1, ArrivedShape DEF FilesUpTo, Arrived, Inv
  <2>7. FilesUpTo(silver, n) \subseteq Shown
    BY <2>5, <2>6, MonthlyShape DEF Reading
  <2>8. PICK m \in Nat : DOMAIN cp.ends = 0 .. (m - 1)
    BY <1>1 DEF Inv, Logs, Consecutive
  <2>9. EndOf(id) \in Nat /\ EndOf(id) <= n /\ n \in Nat
    BY <1>1, <2>4, <2>8, ArrivedShape DEF EndOf, Inv, Logs
  <2>10. 1 .. EndOf(id) \subseteq 1 .. n
    BY <2>9
  <2>11. UNION {silver[i] : i \in 1 .. EndOf(id)} \subseteq FilesUpTo(silver, n)
    BY <2>10 DEF FilesUpTo
  <2> HIDE DEF Shown
  <2> QED
    BY <2>7, <2>11
<1> QED
  BY <1>1, WarehouseInvariant, PTL DEF Spec, MonthlyCoversProcessed
=============================================================================
