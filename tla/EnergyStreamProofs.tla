------------------------- MODULE EnergyStreamProofs -------------------------
(***************************************************************************)
(* The hot path, for every set of devices and every choice of the lengths  *)
(* in which the watermark leaves room for the time filter (SkewAssumption):*)
(* type correctness, exactness of the aggregates, what the table shows of  *)
(* them whatever partitions, transactions, purges and restarts do, and     *)
(* that batches come to an end.                                            *)
(***************************************************************************)
EXTENDS EnergyStream, OrderLemmas

-----------------------------------------------------------------------------
(* The operators                                                           *)

\* The windows of a key are rows of the table, ending after its timestamp.
LEMMA RowsOfType ==
    ASSUME NEW k \in Key
    PROVE  /\ RowsOf(k) \subseteq Row
           /\ \A row \in RowsOf(k) : row.end > k.ts
<1>1. k.dev \in Devices /\ k.ts \in Nat \ {0}
  BY DEF Key, Minute
<1> SUFFICES ASSUME NEW e \in (k.ts + 1) .. (k.ts + Window)
             PROVE  e \in Minute /\ e > k.ts
  BY <1>1 DEF RowsOf, Row
<1> QED
  BY <1>1, ClockAssumption DEF Minute

\* A row is among the windows of a set of keys iff some key falls in it.
LEMMA RowsOfAllMember ==
    ASSUME NEW K, NEW row
    PROVE  /\ row \in RowsOfAll(K) <=> \E k \in K : row \in RowsOf(k)
           /\ row \in RowsOfAll(K) <=> KeysIn(K, row) # {}
BY DEF RowsOfAll, KeysIn

\* The rows of two sets of keys together are the rows of each.
LEMMA RowsOfAllUnion ==
    ASSUME NEW K, NEW L
    PROVE  RowsOfAll(K \cup L) = RowsOfAll(K) \cup RowsOfAll(L)
BY DEF RowsOfAll

\* Disjoint finite sets: the sizes add up.
LEMMA DisjointUnion ==
    ASSUME NEW S, NEW T, IsFiniteSet(S), IsFiniteSet(T), S \cap T = {}
    PROVE  /\ Cardinality(S) \in Nat /\ Cardinality(T) \in Nat
           /\ Cardinality(S \cup T) = Cardinality(S) + Cardinality(T)
<1> DEFINE s == Cardinality(S)
           t == Cardinality(T)
           u == Cardinality(S \cup T)
           i == Cardinality(S \cap T)
<1>1. s \in Nat /\ t \in Nat
  BY FS_CardinalityType
<1>2. i = 0
  BY FS_EmptySet, Zenon
<1>3. u = s + t - i
  BY FS_Union, Zenon
<1> HIDE DEF s, t, u, i
<1>4. u = s + t
  BY <1>1, <1>2, <1>3
<1> QED
  BY <1>1, <1>4 DEF s, t, u

\* The readings a row gains are the new keys in it, when they are new.
LEMMA CountDisjoint ==
    ASSUME NEW K, NEW L, NEW row,
           IsFiniteSet(K), IsFiniteSet(L), K \cap L = {}
    PROVE  /\ Cardinality(KeysIn(K, row)) \in Nat
           /\ Cardinality(KeysIn(L, row)) \in Nat
           /\ Cardinality(KeysIn(K \cup L, row))
                = Cardinality(KeysIn(K, row)) + Cardinality(KeysIn(L, row))
<1>1. IsFiniteSet(KeysIn(K, row)) /\ IsFiniteSet(KeysIn(L, row))
  BY FS_Subset DEF KeysIn
<1>2. KeysIn(K \cup L, row) = KeysIn(K, row) \cup KeysIn(L, row)
  BY DEF KeysIn
<1>3. KeysIn(K, row) \cap KeysIn(L, row) = {}
  BY DEF KeysIn
<1> QED
  BY <1>1, <1>2, <1>3, DisjointUnion, Zenon

\* Finitely many readings have finitely many keys.
LEMMA KeysFinite ==
    ASSUME NEW T, IsFiniteSet(T)
    PROVE  IsFiniteSet({KeyOf(r) : r \in T})
<1> DEFINE f == [r \in T |-> KeyOf(r)]
           K == {KeyOf(r) : r \in T}
<1>1. f \in Surjection(T, K)
  BY DEF Surjection
<1> QED
  BY <1>1, FS_Surjection

\* The key of a reading is a key.
LEMMA KeyOfType ==
    ASSUME NEW r \in Reading
    PROVE  KeyOf(r) \in Key /\ KeyOf(r).ts = r.ts
BY DEF Reading, Key, KeyOf

-----------------------------------------------------------------------------
(* Type correctness                                                        *)

\* The sets a batch works with are typed and finite.
LEMMA BatchTypes ==
    ASSUME TypeOK
    PROVE  /\ CleanReadings \subseteq TimelyReadings
           /\ TimelyReadings \subseteq Reading
           /\ NewKeys \subseteq Key /\ IsFiniteSet(NewKeys)
           /\ Fresh \subseteq NewKeys /\ IsFiniteSet(Fresh)
           /\ RowsOfAll(Fresh) \subseteq Row
           /\ DOMAIN Total \subseteq Row
           /\ \A row \in DOMAIN Total : Total[row] \in Nat
<1>1. CleanReadings \subseteq TimelyReadings /\ TimelyReadings \subseteq topic
  BY DEF CleanReadings, TimelyReadings
<1>2. topic \subseteq Reading /\ IsFiniteSet(topic)
  BY DEF TypeOK
<1>3. NewKeys \subseteq Key
  BY <1>1, <1>2, KeyOfType DEF NewKeys
<1>4. IsFiniteSet(CleanReadings)
  BY <1>1, <1>2, FS_Subset
<1>5. IsFiniteSet(NewKeys)
  BY <1>4, KeysFinite DEF NewKeys
<1>6. Fresh \subseteq NewKeys
  BY DEF Fresh, AboveKeys
<1>7. IsFiniteSet(Fresh)
  BY <1>5, <1>6, FS_Subset
<1>8. RowsOfAll(Fresh) \subseteq Row
  BY <1>3, <1>6, RowsOfType DEF RowsOfAll
<1>9. DOMAIN Total = DOMAIN agg \cup RowsOfAll(Fresh)
  BY DEF Total
<1>10. ASSUME NEW row \in DOMAIN Total
       PROVE  Total[row] \in Nat
  <2>1. IsFiniteSet(KeysIn(Fresh, row))
    BY <1>7, FS_Subset DEF KeysIn
  <2>2. Cardinality(KeysIn(Fresh, row)) \in Nat
    BY <2>1, FS_CardinalityType
  <2>3. Count(agg, row) \in Nat
    BY DEF Count, TypeOK
  <2>4. Total[row] = Count(agg, row) + Cardinality(KeysIn(Fresh, row))
    BY <1>9, <1>10 DEF Total
  <2> QED
    BY <2>2, <2>3, <2>4
<1> QED
  BY <1>1, <1>2, <1>3, <1>5, <1>6, <1>7, <1>8, <1>9, <1>10 DEF TypeOK

\* A restriction is a function with the domain it is given.
LEMMA Restriction ==
    ASSUME NEW f, NEW S
    PROVE  /\ DOMAIN RestrictTo(f, S) = S
           /\ \A x \in S : RestrictTo(f, S)[x] = f[x]
           /\ RestrictTo(f, S) = [x \in DOMAIN RestrictTo(f, S) |-> RestrictTo(f, S)[x]]
BY DEF RestrictTo

\* The watermark moves forward, and stays Delay behind the newest reading.
LEMMA WatermarkStep ==
    ASSUME TypeOK, NextWatermark
    PROVE  /\ wm' \in Nat /\ wm <= wm'
           /\ wm' = wm \/ \E r \in topic : wm' = r.ts - Delay
<1>a. PICK seen \in {TimelyReadings, CleanReadings} :
          \E newest \in {0} \cup {r.ts : r \in seen} : wm' = Larger(wm, newest - Delay)
  BY DEF NextWatermark
<1>1. PICK newest \in {0} \cup {r.ts : r \in seen} : wm' = Larger(wm, newest - Delay)
  BY <1>a
<1>2. seen \subseteq topic /\ topic \subseteq Reading
  BY DEF TypeOK, TimelyReadings, CleanReadings
<1>3. newest \in Nat /\ (newest = 0 \/ \E r \in topic : newest = r.ts)
  BY <1>2 DEF Reading, Minute
<1>4. wm \in Nat /\ Delay \in Nat
  BY ClockAssumption DEF TypeOK
<1>5. CASE newest = 0
  BY <1>1, <1>4, <1>5 DEF Larger
<1>6. CASE \E r \in topic : newest = r.ts
  BY <1>1, <1>3, <1>4, <1>6 DEF Larger
<1> QED
  BY <1>3, <1>5, <1>6

\* The plan of a batch keeps the state of the query typed.
LEMMA AggregateType ==
    ASSUME TypeOK, Aggregate
    PROVE  /\ topic' = {} /\ admitted' \subseteq Key /\ dedup' \subseteq Key
           /\ wm' \in Nat /\ wmLate' \in Nat
           /\ DOMAIN agg' \subseteq Row /\ agg' = [row \in DOMAIN agg' |-> agg'[row]]
           /\ \A row \in DOMAIN agg' : agg'[row] \in Nat
           /\ DOMAIN unwritten' \subseteq Row
           /\ unwritten' = [row \in DOMAIN unwritten' |-> unwritten'[row]]
           /\ \A row \in DOMAIN unwritten' : unwritten'[row] \in Nat
<1>1. topic' = {} /\ admitted' \subseteq Key /\ dedup' \subseteq Key
  BY BatchTypes DEF Aggregate, TypeOK, AboveKeys
<1>2. wm' \in Nat /\ wmLate' \in Nat
  BY WatermarkStep DEF Aggregate, TypeOK
<1>3. AboveRows(DOMAIN Total, wm) \subseteq DOMAIN Total
  BY DEF AboveRows
<1>4. RowsOfAll(Fresh) \subseteq DOMAIN Total
  BY DEF Total
<1>5. /\ DOMAIN agg' = AboveRows(DOMAIN Total, wm)
      /\ \A row \in DOMAIN agg' : agg'[row] = Total[row]
      /\ agg' = [row \in DOMAIN agg' |-> agg'[row]]
  BY Restriction DEF Aggregate
<1>6. /\ DOMAIN unwritten' = RowsOfAll(Fresh)
      /\ \A row \in DOMAIN unwritten' : unwritten'[row] = Total[row]
      /\ unwritten' = [row \in DOMAIN unwritten' |-> unwritten'[row]]
  BY Restriction DEF Aggregate
<1> QED
  BY <1>1, <1>2, <1>3, <1>4, <1>5, <1>6, BatchTypes

\* The types hold initially.
LEMMA InitType == Init => TypeOK
BY FS_EmptySet DEF Init, TypeOK, NoRows

\* No step of the query, the simulator or the clock leaves the types.
LEMMA NextType == TypeOK /\ [Next]_vars => TypeOK'
<1> SUFFICES ASSUME TypeOK, [Next]_vars PROVE TypeOK'
  OBVIOUS
<1>1. CASE Tick
  BY <1>1 DEF TypeOK, Tick, query
<1>2. ASSUME NEW d \in Devices, NEW ts \in 1 .. (now + MaxSkew), NEW m \in Measures,
             Send(d, ts, m)
      PROVE  TypeOK'
  <2>1. [dev |-> d, ts |-> ts, measure |-> m] \in Reading
    BY ClockAssumption DEF TypeOK, Reading, Minute
  <2>2. topic' \subseteq Reading /\ IsFiniteSet(topic')
    BY <1>2, <2>1, FS_AddElement DEF Send, TypeOK
  <2> QED
    BY <1>2, <2>2 DEF TypeOK, Send, query
<1>3. CASE StartBatch \/ EmptyBatch
  <2>1. Aggregate
    BY <1>3 DEF StartBatch, EmptyBatch
  <2>2. /\ now' = now /\ sent' = sent /\ run' = run /\ table' = table
        /\ failures' = failures /\ failed' = failed
        /\ phase' \in {"down", "idle", "write"} /\ batchId' \in Nat
    BY <1>3 DEF StartBatch, EmptyBatch, TypeOK
  <2>3. topic' \subseteq Reading /\ IsFiniteSet(topic')
    BY <2>1, AggregateType, FS_EmptySet
  <2> QED
    BY <2>1, <2>2, <2>3, AggregateType DEF TypeOK
<1>4. CASE Write
  <2>1. PICK S \in (SUBSET DOMAIN unwritten) \ {{}} :
            WritePartition(S) \/ FailPartition(S)
    BY <1>4 DEF Write
  <2>2. /\ now' = now /\ sent' = sent /\ topic' = topic /\ phase' = phase
        /\ run' = run /\ batchId' = batchId /\ wm' = wm /\ wmLate' = wmLate
        /\ dedup' = dedup /\ agg' = agg /\ admitted' = admitted
        /\ unwritten' = RestrictTo(unwritten, DOMAIN unwritten \ S)
        /\ failures' \in Nat /\ failed' \subseteq Row
    BY <2>1 DEF WritePartition, FailPartition, TypeOK
  <2>3. /\ DOMAIN unwritten' \subseteq Row
        /\ unwritten' = [row \in DOMAIN unwritten' |-> unwritten'[row]]
        /\ \A row \in DOMAIN unwritten' : unwritten'[row] \in Nat
    BY <2>2 DEF RestrictTo, TypeOK
  <2>4. /\ DOMAIN table' \subseteq Row
        /\ table' = [row \in DOMAIN table' |-> table'[row]]
        /\ \A row \in DOMAIN table' : table'[row] \in [count : Nat, run : Nat]
    BY <2>1 DEF WritePartition, FailPartition, TypeOK
  <2> QED
    BY <2>2, <2>3, <2>4 DEF TypeOK
<1>5. CASE FinishBatch
  <2>1. EndBatch /\ failures' \in Nat
    BY <1>5 DEF FinishBatch, SkipPurge, Purge, FailPurge, TypeOK
  <2>2. table' = table \/ table' = RestrictTo(table, Purged(table))
    BY <1>5 DEF FinishBatch, SkipPurge, Purge, FailPurge
  <2>3. /\ DOMAIN table' \subseteq Row
        /\ table' = [row \in DOMAIN table' |-> table'[row]]
        /\ \A row \in DOMAIN table' : table'[row] \in [count : Nat, run : Nat]
    BY <2>2 DEF RestrictTo, Purged, TypeOK
  <2> QED
    BY <2>1, <2>3 DEF TypeOK, EndBatch
<1>6. CASE Crash
  BY <1>6 DEF Crash, TypeOK, NoRows
<1>7. CASE Start
  BY <1>7, FS_EmptySet DEF Start, TypeOK
<1>8. CASE UNCHANGED vars
  BY <1>8 DEF vars, query, TypeOK
<1> QED
  BY <1>1, <1>2, <1>3, <1>4, <1>5, <1>6, <1>7, <1>8 DEF Next

\* The state of the hot path is always well formed: readings, keys, rows and
\* counts of the right types, finitely many of them in flight.
THEOREM StreamTypeCorrect == Spec => []TypeOK
BY InitType, NextType, PTL DEF Spec

-----------------------------------------------------------------------------
(* Exactness of the counts                                                 *)

\* What the filters admit is newer than both watermarks, so the late-data
\* filter drops nothing, and what is not in the state is truly new.
LEMMA AdmittedIsFresh ==
    ASSUME TypeOK, StateCoversAdmitted
    PROVE  /\ \A k \in NewKeys : k.ts > wm /\ k.ts > wmLate
           /\ Fresh = NewKeys \ admitted
<1>1. ASSUME NEW k \in NewKeys
      PROVE  k.ts > wm /\ k.ts > wmLate
  <2>1. PICK r \in CleanReadings : k = KeyOf(r)
    BY DEF NewKeys
  <2>2. r \in topic /\ r.ts >= now - Horizon
    BY <2>1 DEF CleanReadings, TimelyReadings, Timely
  <2>3. k.ts = r.ts /\ r.ts \in Nat \ {0}
    BY <2>1, <2>2, KeyOfType DEF TypeOK, Reading, Minute
  <2>4. now \in Nat /\ wm \in Nat /\ wmLate \in Nat
    BY DEF TypeOK
  <2>5. r.ts > wm
    BY <2>2, <2>3, <2>4, ClockAssumption, SkewAssumption DEF StateCoversAdmitted
  <2> QED
    BY <2>3, <2>4, <2>5 DEF StateCoversAdmitted
<1>2. AboveKeys(NewKeys, wmLate) = NewKeys
  BY <1>1 DEF AboveKeys
<1>3. dedup = AboveKeys(admitted, wmLate)
  BY DEF StateCoversAdmitted
<1>4. ASSUME NEW k \in NewKeys PROVE k \in dedup <=> k \in admitted
  BY <1>1, <1>3 DEF AboveKeys
<1> QED
  BY <1>1, <1>2, <1>4 DEF Fresh

\* A batch keeps the state in step with what has been admitted.
LEMMA AggregateCovers ==
    ASSUME TypeOK, StateCoversAdmitted, Aggregate
    PROVE  /\ IsFiniteSet(admitted')
           /\ dedup' = AboveKeys(admitted', wmLate')
           /\ DOMAIN agg' = AboveRows(RowsOfAll(admitted'), wmLate')
           /\ \A row \in DOMAIN agg' : agg'[row] = Cardinality(KeysIn(admitted', row))
<1>1. /\ admitted' = admitted \cup NewKeys
      /\ agg' = RestrictTo(Total, AboveRows(DOMAIN Total, wm))
      /\ dedup' = AboveKeys(dedup \cup Fresh, wm)
      /\ wmLate' = wm
  BY DEF Aggregate
<1>2. /\ IsFiniteSet(admitted) /\ wmLate <= wm
      /\ dedup = AboveKeys(admitted, wmLate)
      /\ DOMAIN agg = AboveRows(RowsOfAll(admitted), wmLate)
      /\ \A row \in DOMAIN agg : agg[row] = Cardinality(KeysIn(admitted, row))
  BY DEF StateCoversAdmitted
<1>3. /\ admitted \subseteq Key /\ NewKeys \subseteq Key
      /\ wm \in Nat /\ wmLate \in Nat
  BY BatchTypes DEF TypeOK
<1>4. /\ admitted' = admitted \cup Fresh
      /\ admitted \cap Fresh = {}
      /\ \A k \in Fresh : k.ts > wm
  BY <1>1, AdmittedIsFresh
<1>5. IsFiniteSet(Fresh) /\ Fresh \subseteq Key
  BY BatchTypes
<1>6. IsFiniteSet(admitted')
  BY <1>2, <1>4, <1>5, FS_Union
<1>7. dedup' = AboveKeys(admitted', wmLate')
  BY <1>1, <1>2, <1>3, <1>4 DEF AboveKeys, Key, Minute
<1>8. RowsOfAll(admitted') = RowsOfAll(admitted) \cup RowsOfAll(Fresh)
  BY <1>4, RowsOfAllUnion
<1>9. RowsOfAll(admitted) \subseteq Row /\ RowsOfAll(Fresh) \subseteq Row
  BY <1>3, <1>5, RowsOfType DEF RowsOfAll
<1>10. DOMAIN Total = AboveRows(RowsOfAll(admitted), wmLate) \cup RowsOfAll(Fresh)
  BY <1>2 DEF Total
<1>11. /\ DOMAIN agg' = AboveRows(DOMAIN Total, wm)
       /\ \A row \in DOMAIN agg' : agg'[row] = Total[row]
  BY <1>1, Restriction
<1>12. DOMAIN agg' = AboveRows(RowsOfAll(admitted'), wmLate')
  <2>1. ASSUME NEW row \in RowsOfAll(admitted), row.end > wm
        PROVE  row.end > wmLate
    <3>1. row.end \in Nat
      BY <1>9 DEF Row, Minute
    <3> QED
      BY <1>2, <1>3, <2>1, <3>1
  <2> QED
    BY <1>1, <1>8, <1>10, <1>11, <2>1 DEF AboveRows
<1>13. ASSUME NEW row \in DOMAIN agg'
       PROVE  agg'[row] = Cardinality(KeysIn(admitted', row))
  <2>1. row \in DOMAIN Total /\ row.end > wm /\ row \in Row
    BY <1>9, <1>10, <1>11, <1>13 DEF AboveRows
  <2>2. agg'[row] = Count(agg, row) + Cardinality(KeysIn(Fresh, row))
    BY <1>11, <1>13, <2>1 DEF Total
  <2>4. Count(agg, row) = Cardinality(KeysIn(admitted, row))
    <3>1. CASE row \in DOMAIN agg
      BY <1>2, <3>1 DEF Count
    <3>2. CASE row \notin DOMAIN agg
      <4>1. row.end > wmLate
        BY <1>2, <1>3, <2>1 DEF Row, Minute
      <4>2. KeysIn(admitted, row) = {}
        BY <1>2, <3>2, <4>1, RowsOfAllMember DEF AboveRows
      <4> QED
        BY <3>2, <4>2, FS_EmptySet DEF Count
    <3> QED
      BY <3>1, <3>2
  <2>5. Cardinality(KeysIn(admitted \cup Fresh, row))
          = Cardinality(KeysIn(admitted, row)) + Cardinality(KeysIn(Fresh, row))
    BY <1>2, <1>4, <1>5, CountDisjoint
  <2> QED
    BY <1>4, <2>2, <2>4, <2>5
<1> QED
  BY <1>6, <1>7, <1>12, <1>13

\* StateCoversAdmitted is inductive relative to the types.
LEMMA InitCovers == Init => StateCoversAdmitted
<1> SUFFICES ASSUME Init PROVE StateCoversAdmitted
  OBVIOUS
<1>1. /\ topic = {} /\ wm = 0 /\ wmLate = 0 /\ admitted = {} /\ dedup = {}
      /\ DOMAIN agg = {}
  BY DEF Init, NoRows
<1> QED
  BY <1>1, FS_EmptySet DEF StateCoversAdmitted, AboveKeys, AboveRows, RowsOfAll

LEMMA NextCovers == TypeOK /\ StateCoversAdmitted /\ [Next]_vars => StateCoversAdmitted'
<1> SUFFICES ASSUME TypeOK, StateCoversAdmitted, [Next]_vars
             PROVE  StateCoversAdmitted'
  OBVIOUS
<1> USE ClockAssumption
<1>1. CASE Tick
  <2>1. now \in Nat /\ now' = now + 1
    BY <1>1 DEF Tick, TypeOK
  <2>2. \A r \in topic : r.ts \in Nat
    BY DEF TypeOK, Reading, Minute
  <2>3. /\ topic' = topic /\ wm' = wm /\ wmLate' = wmLate /\ dedup' = dedup
        /\ agg' = agg /\ admitted' = admitted
    BY <1>1 DEF Tick, query
  <2>4. \A r \in topic' : r.ts <= now' + MaxSkew
    BY <2>1, <2>2, <2>3 DEF StateCoversAdmitted
  <2>5. wm' = 0 \/ wm' <= now' + MaxSkew - Delay
    BY <2>1, <2>3 DEF StateCoversAdmitted, TypeOK
  <2> QED
    BY <2>3, <2>4, <2>5 DEF StateCoversAdmitted
<1>2. ASSUME NEW d \in Devices, NEW ts \in 1 .. (now + MaxSkew), NEW m \in Measures,
             Send(d, ts, m)
      PROVE  StateCoversAdmitted'
  BY <1>2 DEF StateCoversAdmitted, Send, query, TypeOK
<1>3. CASE StartBatch \/ EmptyBatch
  <2>1. Aggregate /\ now' = now
    BY <1>3 DEF StartBatch, EmptyBatch
  <2>2. NextWatermark /\ topic' = {} /\ wmLate' = wm
    BY <2>1 DEF Aggregate
  <2>3. wmLate' <= wm'
    BY <2>2, WatermarkStep
  <2>4. wm' = 0 \/ wm' <= now' + MaxSkew - Delay
    <3>1. CASE wm' = wm
      BY <2>1, <3>1 DEF StateCoversAdmitted
    <3>2. CASE \E r \in topic : wm' = r.ts - Delay
      <4>1. PICK r \in topic : wm' = r.ts - Delay
        BY <3>2
      <4>2. r.ts <= now + MaxSkew /\ r.ts \in Nat /\ now \in Nat
        BY DEF StateCoversAdmitted, TypeOK, Reading, Minute
      <4> QED
        BY <2>1, <4>1, <4>2
    <3> QED
      BY <2>2, <3>1, <3>2, WatermarkStep
  <2> QED
    BY <2>1, <2>2, <2>3, <2>4, AggregateCovers DEF StateCoversAdmitted
<1>4. CASE Write
  BY <1>4 DEF Write, WritePartition, FailPartition, StateCoversAdmitted
<1>5. CASE FinishBatch
  BY <1>5 DEF FinishBatch, SkipPurge, Purge, FailPurge, EndBatch, StateCoversAdmitted
<1>6. CASE Crash
  <2>1. /\ topic' = topic /\ now' = now /\ wm' = 0 /\ wmLate' = 0
        /\ admitted' = {} /\ dedup' = {} /\ DOMAIN agg' = {}
    BY <1>6 DEF Crash, NoRows
  <2> QED
    BY <2>1, FS_EmptySet DEF StateCoversAdmitted, AboveKeys, AboveRows, RowsOfAll
<1>7. CASE Start
  BY <1>7 DEF Start, StateCoversAdmitted
<1>8. CASE UNCHANGED vars
  BY <1>8 DEF vars, query, StateCoversAdmitted
<1> QED
  BY <1>1, <1>2, <1>3, <1>4, <1>5, <1>6, <1>7, <1>8 DEF Next

\* The state of the query always covers what it admitted: its duplicates
\* filter holds every key and its aggregation every window that the next
\* readings may meet again.
THEOREM StreamStateCovers == Spec => []StateCoversAdmitted
BY InitType, NextType, InitCovers, NextCovers, PTL DEF Spec

\* Every admitted reading is counted exactly once in each of its windows,
\* whatever duplicates, delays, write failures and restarts occur.
THEOREM StreamCountsExact == Spec => []CountsAreExact
<1>1. StateCoversAdmitted => CountsAreExact
  BY DEF StateCoversAdmitted, CountsAreExact
<1> QED
  BY <1>1, StreamStateCovers, PTL

-----------------------------------------------------------------------------
(* The newest window of the table                                          *)

Bounded(t, b) == \A row \in DOMAIN t : row.end <= b

\* A bounded table has a newest window, and NewestEnd is it.
LEMMA NewestExists ==
    ASSUME NEW t, DOMAIN t \subseteq Row, NEW b \in Nat, Bounded(t, b)
    PROVE  /\ NewestEnd(t) \in {0} \cup {row.end : row \in DOMAIN t}
           /\ \A row \in DOMAIN t : row.end <= NewestEnd(t)
           /\ NewestEnd(t) \in Nat
<1> DEFINE E == {0} \cup {row.end : row \in DOMAIN t}
<1>1. \A row \in DOMAIN t : row.end \in Nat
  BY DEF Row, Minute
<1>2. E \subseteq Nat /\ E # {} /\ \A e \in E : e <= b
  BY <1>1 DEF Bounded
<1>3. \E m \in E : \A e \in E : e <= m
  <2> HIDE DEF E
  <2> QED
    BY <1>2, GreatestNatural
<1>4. NewestEnd(t) \in E /\ \A row \in DOMAIN t : row.end <= NewestEnd(t)
  BY <1>3 DEF NewestEnd
<1> QED
  BY <1>2, <1>4

\* The newest window is not older in a table that has more rows.
LEMMA NewestGrows ==
    ASSUME NEW t, NEW u, DOMAIN t \subseteq DOMAIN u, DOMAIN u \subseteq Row,
           NEW b \in Nat, Bounded(u, b)
    PROVE  NewestEnd(t) <= NewestEnd(u) /\ NewestEnd(t) \in Nat /\ NewestEnd(u) \in Nat
<1>1. Bounded(t, b) /\ DOMAIN t \subseteq Row
  BY DEF Bounded
<1>2. /\ NewestEnd(t) \in {0} \cup {row.end : row \in DOMAIN t}
      /\ NewestEnd(t) \in Nat
  BY <1>1, NewestExists
<1>3. /\ \A row \in DOMAIN u : row.end <= NewestEnd(u)
      /\ NewestEnd(u) \in Nat
  BY NewestExists
<1> QED
  BY <1>2, <1>3

\* The purge leaves the newest window.
LEMMA NewestStays ==
    ASSUME NEW t, DOMAIN t \subseteq Row, NEW b \in Nat, Bounded(t, b)
    PROVE  NewestEnd(RestrictTo(t, Purged(t))) = NewestEnd(t)
<1> DEFINE u == RestrictTo(t, Purged(t))
           m == NewestEnd(t)
<1>1. /\ m \in {0} \cup {row.end : row \in DOMAIN t}
      /\ \A row \in DOMAIN t : row.end <= m
      /\ m \in Nat
  BY NewestExists
<1>2. DOMAIN u = {row \in DOMAIN t : row.end >= m - Keep}
  BY DEF RestrictTo, Purged
<1>3. DOMAIN u \subseteq DOMAIN t /\ DOMAIN u \subseteq Row /\ Bounded(u, b)
  BY <1>2 DEF Bounded
<1>4. /\ NewestEnd(u) \in {0} \cup {row.end : row \in DOMAIN u}
      /\ \A row \in DOMAIN u : row.end <= NewestEnd(u)
      /\ NewestEnd(u) \in Nat
  BY <1>3, NewestExists
<1>5. m \in {0} \cup {row.end : row \in DOMAIN u}
  <2>1. m >= m - Keep
    BY <1>1, ClockAssumption
  <2> QED
    BY <1>1, <1>2, <2>1
<1>6. \A row \in DOMAIN t : row.end \in Nat
  BY DEF Row, Minute
<1>7. m <= NewestEnd(u)
  BY <1>4, <1>5
<1>8. NewestEnd(u) <= m
  BY <1>1, <1>3, <1>4
<1> QED
  BY <1>1, <1>4, <1>7, <1>8

-----------------------------------------------------------------------------
(* The invariant                                                           *)

\* Nothing is ahead of the clock by more than the skew and a window.
NothingAhead ==
    /\ \A k \in admitted : k.ts <= now + MaxSkew
    /\ Bounded(table, now + MaxSkew + Window)

\* What is still to be upserted is in the state of the query, and only a
\* batch has something to upsert.
PendingIsState ==
    /\ phase # "write" => DOMAIN unwritten = {}
    /\ phase = "down" => DOMAIN agg = {}
    /\ \A row \in DOMAIN unwritten : row \in DOMAIN agg /\ agg[row] = unwritten[row]

\* No row of this run knows more than the state does.
RowsTrail ==
    /\ \A row \in DOMAIN table : table[row].run <= run
    /\ phase # "down" =>
         \A row \in DOMAIN table :
            table[row].run = run /\ row.end > wmLate
                => row \in DOMAIN agg /\ table[row].count <= agg[row]

\* A row of the state is in the table as it is, or has been purged.
Mirrored(row) ==
    \/ row \in DOMAIN table /\ table[row] = [count |-> agg[row], run |-> run]
    \/ row \notin DOMAIN table /\ row.end < NewestEnd(table) - Keep

SettledRowsMirrored ==
    \A row \in DOMAIN agg \ (failed \cup DOMAIN unwritten) : Mirrored(row)

TableInv == NothingAhead /\ PendingIsState /\ RowsTrail /\ SettledRowsMirrored

-----------------------------------------------------------------------------
(* The steps                                                               *)

\* What a batch makes of the state of the query: rows of the fresh keys are in
\* the state and pending with one count; the others keep theirs or are evicted.
LEMMA BatchEffect ==
    ASSUME TypeOK, StateCoversAdmitted, Aggregate
    PROVE  /\ \A row \in DOMAIN unwritten' :
                 row \in DOMAIN agg' /\ agg'[row] = unwritten'[row]
           /\ \A row \in DOMAIN agg' \ DOMAIN unwritten' :
                 row \in DOMAIN agg /\ agg'[row] = agg[row]
           /\ \A row \in DOMAIN agg :
                 row.end > wmLate' => row \in DOMAIN agg' /\ agg[row] <= agg'[row]
           /\ wmLate <= wmLate'
<1>1. /\ wmLate' = wm /\ wmLate <= wm
      /\ DOMAIN agg' = AboveRows(DOMAIN Total, wm)
      /\ \A row \in DOMAIN agg' : agg'[row] = Total[row]
      /\ DOMAIN unwritten' = RowsOfAll(Fresh)
      /\ \A row \in DOMAIN unwritten' : unwritten'[row] = Total[row]
  BY Restriction DEF Aggregate, StateCoversAdmitted
<1>2. /\ DOMAIN Total = DOMAIN agg \cup RowsOfAll(Fresh)
      /\ \A row \in DOMAIN Total :
            Total[row] = Count(agg, row) + Cardinality(KeysIn(Fresh, row))
  BY DEF Total
<1>3. IsFiniteSet(Fresh) /\ Fresh \subseteq NewKeys /\ NewKeys \subseteq Key
  BY BatchTypes
<1>4. ASSUME NEW row \in RowsOfAll(Fresh) PROVE row \in DOMAIN agg'
  <2>1. PICK k \in Fresh : row \in RowsOf(k)
    BY RowsOfAllMember
  <2>2. k \in Key /\ k.ts > wm
    BY <1>3, AdmittedIsFresh
  <2>3. row \in Row /\ row.end > k.ts
    BY <2>1, <2>2, RowsOfType
  <2>4. k.ts \in Nat /\ row.end \in Nat /\ wm \in Nat
    BY <2>2, <2>3 DEF Key, Row, Minute, TypeOK
  <2>5. row.end > wm
    BY <2>2, <2>3, <2>4
  <2> QED
    BY <1>1, <1>2, <2>5 DEF AboveRows
<1>5. ASSUME NEW row \in DOMAIN agg' \ DOMAIN unwritten'
      PROVE  row \in DOMAIN agg /\ agg'[row] = agg[row]
  <2>1. row \in DOMAIN Total /\ row \notin RowsOfAll(Fresh)
    BY <1>1 DEF AboveRows
  <2>2. row \in DOMAIN agg /\ agg[row] \in Nat
    BY <1>2, <2>1 DEF TypeOK
  <2>3. Cardinality(KeysIn(Fresh, row)) = 0
    BY <2>1, RowsOfAllMember, FS_EmptySet
  <2>4. agg'[row] = agg[row] + 0
    BY <1>1, <1>2, <2>1, <2>2, <2>3 DEF Count
  <2> QED
    BY <2>2, <2>4
<1>6. ASSUME NEW row \in DOMAIN agg, row.end > wmLate'
      PROVE  row \in DOMAIN agg' /\ agg[row] <= agg'[row]
  <2>1. row \in DOMAIN agg'
    BY <1>1, <1>2, <1>6 DEF AboveRows
  <2>2. IsFiniteSet(KeysIn(Fresh, row))
    BY <1>3, FS_Subset DEF KeysIn
  <2>3. Cardinality(KeysIn(Fresh, row)) \in Nat
    BY <2>2, FS_CardinalityType
  <2>4. agg[row] \in Nat /\ agg'[row] = agg[row] + Cardinality(KeysIn(Fresh, row))
    BY <1>1, <1>2, <1>6, <2>1 DEF Count, TypeOK
  <2> QED
    BY <2>1, <2>3, <2>4
<1> QED
  BY <1>1, <1>2, <1>4, <1>5, <1>6

\* The rows of the state are no more ahead of the clock than the keys.
LEMMA StateNotAhead ==
    ASSUME TypeOK, StateCoversAdmitted, NothingAhead
    PROVE  Bounded(agg, now + MaxSkew + Window)
<1> SUFFICES ASSUME NEW row \in DOMAIN agg
             PROVE  row.end <= now + MaxSkew + Window
  BY DEF Bounded
<1>1. PICK k \in admitted : row \in RowsOf(k)
  BY RowsOfAllMember DEF StateCoversAdmitted, AboveRows
<1>2. k.ts \in Nat /\ k.ts <= now + MaxSkew
  BY DEF TypeOK, Key, Minute, NothingAhead
<1>3. row.end \in (k.ts + 1) .. (k.ts + Window)
  BY <1>1 DEF RowsOf
<1> QED
  BY <1>2, <1>3, ClockAssumption DEF TypeOK

LEMMA InitTable == Init => TableInv
BY DEF Init, NoRows, TableInv, NothingAhead, Bounded, PendingIsState, RowsTrail,
       SettledRowsMirrored

LEMMA BatchTable ==
    ASSUME TypeOK, StateCoversAdmitted, TableInv, StartBatch \/ EmptyBatch
    PROVE  TableInv'
<1>1. /\ Aggregate /\ phase = "idle"
      /\ now' = now /\ run' = run /\ table' = table /\ failed' = failed
      /\ phase' \in {"idle", "write"}
      /\ phase' # "write" => DOMAIN unwritten' = {}
  BY DEF StartBatch, EmptyBatch, BatchDue
<1>2. NothingAhead'
  <2>1. admitted' = admitted \cup NewKeys
    BY <1>1 DEF Aggregate
  <2>2. ASSUME NEW k \in NewKeys PROVE k.ts <= now + MaxSkew
    <3>1. PICK r \in topic : k = KeyOf(r)
      BY DEF NewKeys, CleanReadings, TimelyReadings
    <3>2. k.ts = r.ts
      BY <3>1 DEF KeyOf
    <3> QED
      BY <3>2 DEF StateCoversAdmitted
  <2> QED
    BY <1>1, <2>1, <2>2 DEF TableInv, NothingAhead
<1>3. PendingIsState'
  BY <1>1, BatchEffect DEF PendingIsState
<1>4. RowsTrail'
  <2>1. ASSUME NEW row \in DOMAIN table, table[row].run = run, row.end > wmLate'
        PROVE  row \in DOMAIN agg' /\ table[row].count <= agg'[row]
    <3>1. row.end \in Nat /\ wmLate \in Nat /\ wmLate' \in Nat /\ table[row].count \in Nat
      BY <1>1, AggregateType DEF TypeOK, Row, Minute
    <3>2. row.end > wmLate
      BY <1>1, <2>1, <3>1, BatchEffect
    <3>3. row \in DOMAIN agg /\ table[row].count <= agg[row] /\ agg[row] \in Nat
      BY <1>1, <2>1, <3>2 DEF TableInv, RowsTrail, TypeOK
    <3>4. row \in DOMAIN agg' /\ agg[row] <= agg'[row] /\ agg'[row] \in Nat
      BY <1>1, <2>1, <3>3, BatchEffect, AggregateType
    <3> QED
      BY <3>1, <3>3, <3>4
  <2> QED
    BY <1>1, <2>1 DEF TableInv, RowsTrail
<1>5. SettledRowsMirrored'
  <2>1. ASSUME NEW row \in DOMAIN agg' \ (failed' \cup DOMAIN unwritten')
        PROVE  Mirrored(row)'
    <3>1. row \in DOMAIN agg /\ agg'[row] = agg[row]
      BY <1>1, BatchEffect
    <3>2. row \notin failed /\ DOMAIN unwritten = {}
      BY <1>1 DEF TableInv, PendingIsState
    <3>3. Mirrored(row)
      BY <3>1, <3>2 DEF TableInv, SettledRowsMirrored
    <3> QED
      BY <1>1, <3>1, <3>3 DEF Mirrored
  <2> QED
    BY <2>1 DEF SettledRowsMirrored
<1> QED
  BY <1>2, <1>3, <1>4, <1>5 DEF TableInv

\* An upsert writes the state's count and takes no row away.
LEMMA WriteTable ==
    ASSUME TypeOK, StateCoversAdmitted, TableInv,
           NEW S \in (SUBSET DOMAIN unwritten) \ {{}}, WritePartition(S)
    PROVE  TableInv'
<1>1. /\ phase = "write" /\ phase' = phase /\ now' = now /\ run' = run
      /\ agg' = agg /\ admitted' = admitted /\ wmLate' = wmLate
      /\ DOMAIN unwritten' = DOMAIN unwritten \ S
      /\ \A row \in DOMAIN unwritten' : unwritten'[row] = unwritten[row]
      /\ failed' = failed \ S
      /\ DOMAIN table' = DOMAIN table \cup S
      /\ \A row \in DOMAIN table' :
            table'[row] = IF row \in S THEN [count |-> unwritten[row], run |-> run]
                                       ELSE table[row]
  BY Restriction DEF WritePartition
<1>2. \A row \in S : row \in DOMAIN agg /\ agg[row] = unwritten[row]
  BY DEF TableInv, PendingIsState
<1>3. DOMAIN agg \subseteq Row /\ DOMAIN table \subseteq Row
  BY DEF TypeOK
<1>4. Bounded(table', now + MaxSkew + Window)
  BY <1>1, <1>2, StateNotAhead DEF TableInv, NothingAhead, Bounded
<1>5. NothingAhead'
  BY <1>1, <1>4 DEF TableInv, NothingAhead
<1>6. PendingIsState'
  BY <1>1 DEF TableInv, PendingIsState
<1>7. RowsTrail'
  <2>1. ASSUME NEW row \in DOMAIN table'
        PROVE  /\ table'[row].run <= run'
               /\ table'[row].run = run' /\ row.end > wmLate'
                    => row \in DOMAIN agg' /\ table'[row].count <= agg'[row]
    <3>1. CASE row \in S
      <4>1. agg[row] \in Nat /\ run \in Nat /\ agg[row] = unwritten[row]
        BY <1>2, <3>1 DEF TypeOK
      <4>2. table'[row] = [count |-> unwritten[row], run |-> run]
        BY <1>1, <3>1
      <4>3. table'[row].run = run /\ table'[row].count = unwritten[row]
        BY <4>2
      <4> QED
        BY <1>1, <1>2, <3>1, <4>1, <4>3
    <3>2. CASE row \notin S
      BY <1>1, <3>2 DEF TableInv, RowsTrail
    <3> QED
      BY <3>1, <3>2
  <2> QED
    BY <2>1 DEF RowsTrail
<1>8. SettledRowsMirrored'
  <2>1. ASSUME NEW row \in DOMAIN agg' \ (failed' \cup DOMAIN unwritten')
        PROVE  Mirrored(row)'
    <3>1. CASE row \in S
      BY <1>1, <1>2, <3>1 DEF Mirrored
    <3>2. CASE row \notin S
      <4>1. Mirrored(row)
        BY <1>1, <3>2 DEF TableInv, SettledRowsMirrored
      <4>2. CASE row \in DOMAIN table
        BY <1>1, <3>2, <4>1, <4>2 DEF Mirrored
      <4>3. CASE row \notin DOMAIN table
        <5>1. row.end < NewestEnd(table) - Keep /\ row.end \in Nat
          BY <1>1, <1>3, <4>1, <4>3 DEF Mirrored, Row, Minute
        <5>2. now + MaxSkew + Window \in Nat
          BY ClockAssumption DEF TypeOK
        <5>3. DOMAIN table \subseteq DOMAIN table' /\ DOMAIN table' \subseteq Row
          BY <1>1, <1>2, <1>3
        <5>4. /\ NewestEnd(table) <= NewestEnd(table')
              /\ NewestEnd(table) \in Nat /\ NewestEnd(table') \in Nat
          BY <1>4, <5>2, <5>3, NewestGrows
        <5>5. row.end < NewestEnd(table') - Keep
          BY <5>1, <5>4, ClockAssumption
        <5> QED
          BY <1>1, <3>2, <4>3, <5>5 DEF Mirrored
      <4> QED
        BY <4>2, <4>3
    <3> QED
      BY <3>1, <3>2
  <2> QED
    BY <2>1 DEF SettledRowsMirrored
<1> QED
  BY <1>5, <1>6, <1>7, <1>8 DEF TableInv

\* The purge takes only rows that Mirrored allows to be missing.
LEMMA PurgeTable ==
    ASSUME TypeOK, TableInv, Purge
    PROVE  TableInv'
<1>1. /\ phase = "write" /\ phase' = "idle" /\ now' = now /\ run' = run
      /\ agg' = agg /\ admitted' = admitted /\ wmLate' = wmLate
      /\ unwritten' = unwritten /\ DOMAIN unwritten = {} /\ failed' = failed
      /\ table' = RestrictTo(table, Purged(table))
  BY DEF Purge, EndBatch
<1>2. /\ DOMAIN table' = {row \in DOMAIN table : row.end >= NewestEnd(table) - Keep}
      /\ \A row \in DOMAIN table' : table'[row] = table[row]
  BY <1>1, Restriction DEF Purged
<1>3. DOMAIN table \subseteq Row /\ now + MaxSkew + Window \in Nat
  BY ClockAssumption DEF TypeOK
<1>4. NewestEnd(table') = NewestEnd(table) /\ NewestEnd(table) \in Nat
  BY <1>1, <1>3, NewestStays, NewestExists DEF TableInv, NothingAhead
<1>5. NothingAhead' /\ PendingIsState' /\ RowsTrail'
  BY <1>1, <1>2 DEF TableInv, NothingAhead, Bounded, PendingIsState, RowsTrail
<1>6. ASSUME NEW row \in DOMAIN agg' \ (failed' \cup DOMAIN unwritten')
      PROVE  Mirrored(row)'
  <2>1. Mirrored(row)
    BY <1>1, <1>6 DEF TableInv, SettledRowsMirrored
  <2>2. row.end \in Nat
    BY <1>1, <1>6 DEF TypeOK, Row, Minute
  <2>3. CASE row \in DOMAIN table'
    BY <1>1, <1>2, <2>1, <2>3 DEF Mirrored
  <2>4. CASE row \notin DOMAIN table'
    <3>1. row.end < NewestEnd(table) - Keep
      BY <1>2, <1>4, <2>1, <2>2, <2>4, ClockAssumption DEF Mirrored
    <3> QED
      BY <1>4, <2>4, <3>1 DEF Mirrored
  <2> QED
    BY <2>3, <2>4
<1> QED
  BY <1>5, <1>6 DEF TableInv, SettledRowsMirrored

\* The other steps leave the table alone; a crash empties the state it is
\* compared with, and the next run owns no row yet.
LEMMA NextTable == TypeOK /\ StateCoversAdmitted /\ TableInv /\ [Next]_vars => TableInv'
<1> SUFFICES ASSUME TypeOK, StateCoversAdmitted, TableInv, [Next]_vars
             PROVE  TableInv'
  OBVIOUS
<1>1. CASE Tick
  <2>1. /\ now \in Nat /\ now' = now + 1
        /\ UNCHANGED <<phase, run, wmLate, agg, unwritten, table, admitted, failed>>
    BY <1>1 DEF Tick, query, TypeOK
  <2>2. /\ \A k \in admitted : k.ts \in Nat
        /\ \A row \in DOMAIN table : row.end \in Nat
    BY DEF TypeOK, Key, Row, Minute
  <2>3. NothingAhead'
    BY <2>1, <2>2, ClockAssumption DEF TableInv, NothingAhead, Bounded
  <2> QED
    BY <2>1, <2>3 DEF TableInv, PendingIsState, RowsTrail, SettledRowsMirrored, Mirrored
<1>2. ASSUME NEW d \in Devices, NEW ts \in 1 .. (now + MaxSkew), NEW m \in Measures,
             Send(d, ts, m)
      PROVE  TableInv'
  BY <1>2 DEF Send, query, TableInv, NothingAhead, Bounded, PendingIsState, RowsTrail,
              SettledRowsMirrored, Mirrored
<1>3. CASE StartBatch \/ EmptyBatch
  BY <1>3, BatchTable
<1>4. CASE Write
  <2>1. PICK S \in (SUBSET DOMAIN unwritten) \ {{}} :
            WritePartition(S) \/ FailPartition(S)
    BY <1>4 DEF Write
  <2>2. CASE WritePartition(S)
    BY <2>2, WriteTable
  <2>3. CASE FailPartition(S)
    <3>1. /\ DOMAIN unwritten' = DOMAIN unwritten \ S
          /\ \A row \in DOMAIN unwritten' : unwritten'[row] = unwritten[row]
          /\ failed' = failed \cup S
          /\ UNCHANGED <<now, phase, run, wmLate, agg, table, admitted>>
          /\ phase = "write"
      BY <2>3, Restriction DEF FailPartition
    <3>2. NothingAhead' /\ PendingIsState' /\ RowsTrail'
      BY <3>1 DEF TableInv, NothingAhead, Bounded, PendingIsState, RowsTrail
    <3>3. SettledRowsMirrored'
      BY <3>1 DEF TableInv, SettledRowsMirrored, Mirrored
    <3> QED
      BY <3>2, <3>3 DEF TableInv
  <2> QED
    BY <2>1, <2>2, <2>3
<1>5. CASE FinishBatch
  <2>1. CASE Purge
    BY <2>1, PurgeTable
  <2>2. CASE SkipPurge \/ FailPurge
    BY <2>2 DEF SkipPurge, FailPurge, EndBatch, TableInv, NothingAhead, Bounded,
                PendingIsState, RowsTrail, SettledRowsMirrored, Mirrored
  <2> QED
    BY <1>5, <2>1, <2>2 DEF FinishBatch
<1>6. CASE Crash
  <2>1. /\ phase' = "down" /\ now' = now /\ run' = run /\ table' = table
        /\ DOMAIN agg' = {} /\ DOMAIN unwritten' = {} /\ admitted' = {}
    BY <1>6 DEF Crash, NoRows
  <2> QED
    BY <2>1 DEF TableInv, NothingAhead, Bounded, PendingIsState, RowsTrail,
                SettledRowsMirrored
<1>7. CASE Start
  <2>1. /\ phase = "down" /\ phase' = "idle" /\ run' = run + 1
        /\ UNCHANGED <<now, wmLate, agg, unwritten, table, admitted, failed>>
    BY <1>7 DEF Start
  <2>2. DOMAIN agg = {} /\ DOMAIN unwritten = {}
    BY <2>1 DEF TableInv, PendingIsState
  <2>3. run \in Nat /\ \A row \in DOMAIN table : table[row].run \in Nat /\ table[row].run <= run
    BY DEF TypeOK, TableInv, RowsTrail
  <2>4. RowsTrail'
    BY <2>1, <2>3 DEF RowsTrail
  <2> QED
    BY <2>1, <2>2, <2>4 DEF TableInv, NothingAhead, Bounded, PendingIsState,
                            SettledRowsMirrored
<1>8. CASE UNCHANGED vars
  BY <1>8 DEF vars, query, TableInv, NothingAhead, Bounded, PendingIsState, RowsTrail,
              SettledRowsMirrored, Mirrored
<1> QED
  BY <1>1, <1>2, <1>3, <1>4, <1>5, <1>6, <1>7, <1>8 DEF Next

-----------------------------------------------------------------------------

LEMMA TableInvariant == Spec => [](TypeOK /\ StateCoversAdmitted /\ TableInv)
BY InitType, NextType, InitCovers, NextCovers, InitTable, NextTable, PTL DEF Spec

\* Between batches the table mirrors the state of the query, but for failed
\* upserts and purged rows, whatever was written, purged or restarted before.
THEOREM StreamTableFaithful == Spec => []TableFaithful
<1>1. TableInv => TableFaithful
  <2> SUFFICES ASSUME TableInv, phase = "idle", NEW row \in DOMAIN agg \ failed
               PROVE  Mirrored(row)
    BY DEF TableFaithful, Mirrored
  <2> QED
    BY DEF TableInv, PendingIsState, SettledRowsMirrored
<1> QED
  BY <1>1, TableInvariant, PTL

\* Within a run no upsert replaces a row by one that knows fewer readings.
LEMMA StepGrows ==
    TypeOK /\ StateCoversAdmitted /\ TableInv /\ [Next]_vars =>
        \A row \in DOMAIN table \cap DOMAIN table' :
            table[row].run = table'[row].run => table[row].count <= table'[row].count
<1> SUFFICES ASSUME TypeOK, StateCoversAdmitted, TableInv, [Next]_vars,
                    NEW row \in DOMAIN table \cap DOMAIN table',
                    table[row].run = table'[row].run
             PROVE  table[row].count <= table'[row].count
  OBVIOUS
<1>1. table[row].count \in Nat
  BY DEF TypeOK
<1>2. CASE table' = table
  BY <1>1, <1>2
<1>3. ASSUME NEW S \in SUBSET DOMAIN unwritten, WritePartition(S)
      PROVE  table[row].count <= table'[row].count
  <2>1. /\ phase = "write"
        /\ table'[row] = IF row \in S THEN [count |-> unwritten[row], run |-> run]
                                      ELSE table[row]
    BY <1>3 DEF WritePartition
  <2>2. CASE row \in S
    <3>1. table[row].run = run /\ table'[row].count = unwritten[row]
      BY <2>1, <2>2
    <3>2. row \in DOMAIN agg /\ agg[row] = unwritten[row]
      BY <2>2 DEF TableInv, PendingIsState
    <3>3. row.end > wmLate
      BY <3>2 DEF StateCoversAdmitted, AboveRows
    <3> QED
      BY <2>1, <3>1, <3>2, <3>3 DEF TableInv, RowsTrail
  <2>3. CASE row \notin S
    BY <1>1, <2>1, <2>3
  <2> QED
    BY <2>2, <2>3
<1>4. CASE Purge
  BY <1>1, <1>4, Restriction DEF Purge
<1>5. table' = table \/ Purge \/ \E S \in SUBSET DOMAIN unwritten : WritePartition(S)
  BY DEF Next, Tick, Send, StartBatch, EmptyBatch, Write, FailPartition, FinishBatch,
         SkipPurge, FailPurge, Crash, Start, vars
<1> QED
  BY <1>2, <1>3, <1>4, <1>5

\* For every schedule of batches, failing partitions and purges, what the
\* dashboard reads of a window only gets more complete until a restart.
THEOREM StreamRowsGrow == Spec => RowsOnlyGrow
<1>1. TypeOK /\ StateCoversAdmitted /\ TableInv /\ [Next]_vars =>
        [\A row \in DOMAIN table \cap DOMAIN table' :
            table[row].run = table'[row].run => table[row].count <= table'[row].count]_vars
  BY StepGrows
<1> QED
  BY <1>1, TableInvariant, PTL DEF Spec, RowsOnlyGrow

-----------------------------------------------------------------------------
(* Batches come to an end                                                  *)

\* What a batch has left to do: rows to write, or to fail to, and the purge.
LeftInBatch == IF phase = "write" THEN 1 + Cardinality(DOMAIN unwritten) ELSE 0

\* There is a newest reading for the watermark to follow.
HasNewest(seen) ==
    \E newest \in {0} \cup {r.ts : r \in seen} : \A r \in seen : r.ts <= newest

\* Finitely many keys fall in finitely many windows.
LEMMA RowsFinite ==
    ASSUME NEW K, K \subseteq Key, IsFiniteSet(K) PROVE IsFiniteSet(RowsOfAll(K))
<1>1. ASSUME NEW k \in K PROVE IsFiniteSet(RowsOf(k))
  <2> DEFINE ends == (k.ts + 1) .. (k.ts + Window)
             f == [e \in ends |-> [zone |-> ZoneOf[k.dev], type |-> TypeOf[k.dev], end |-> e]]
  <2>1. k.ts + 1 \in Int /\ k.ts + Window \in Int
    BY ClockAssumption DEF Key, Minute
  <2>2. IsFiniteSet(ends)
    BY <2>1, FS_Interval
  <2>3. f \in Surjection(ends, RowsOf(k))
    BY DEF RowsOf, Surjection
  <2> QED
    BY <2>2, <2>3, FS_Surjection
<1> DEFINE f == [k \in K |-> RowsOf(k)]
           parts == {RowsOf(k) : k \in K}
<1>2. f \in Surjection(K, parts)
  BY DEF Surjection
<1>3. IsFiniteSet(parts) /\ \A part \in parts : IsFiniteSet(part)
  BY <1>1, <1>2, FS_Surjection
<1> QED
  BY <1>3, FS_UNION DEF RowsOfAll

LEMMA NextFinite ==
    ASSUME TypeOK, IsFiniteSet(DOMAIN unwritten), [Next]_vars
    PROVE  IsFiniteSet(DOMAIN unwritten')
<1>1. CASE Aggregate
  <2>1. DOMAIN unwritten' = RowsOfAll(Fresh)
    BY <1>1, Restriction DEF Aggregate
  <2>2. Fresh \subseteq Key /\ IsFiniteSet(Fresh)
    BY BatchTypes
  <2> QED
    BY <2>1, <2>2, RowsFinite
<1>2. CASE DOMAIN unwritten' \subseteq DOMAIN unwritten
  BY <1>2, FS_Subset
<1>3. ASSUME NEW S, WritePartition(S) \/ FailPartition(S)
      PROVE  DOMAIN unwritten' \subseteq DOMAIN unwritten
  BY <1>3, Restriction DEF WritePartition, FailPartition
<1>4. CASE Crash
  BY <1>4, <1>2 DEF Crash, NoRows
<1> QED
  BY <1>1, <1>2, <1>3, <1>4
     DEF Next, Tick, Send, StartBatch, EmptyBatch, Write, FinishBatch, SkipPurge, Purge,
         FailPurge, EndBatch, Start, vars, query

\* A step of a batch, failed or not, brings it nearer to its end; readings
\* that arrive meanwhile do not prolong it.
LEMMA BatchShrinks ==
    ASSUME IsFiniteSet(DOMAIN unwritten), phase = "write", Next
    PROVE  UNCHANGED <<phase, unwritten>> \/ LeftInBatch' < LeftInBatch
<1> DEFINE left == Cardinality(DOMAIN unwritten)
<1>1. left \in Nat /\ LeftInBatch = 1 + left
  BY FS_CardinalityType DEF LeftInBatch
<1>2. CASE Write
  <2>1. PICK S \in (SUBSET DOMAIN unwritten) \ {{}} : WritePartition(S) \/ FailPartition(S)
    BY <1>2 DEF Write
  <2>2. DOMAIN unwritten' = DOMAIN unwritten \ S /\ phase' = phase
    BY <2>1, Restriction DEF WritePartition, FailPartition
  <2>3. PICK row \in S : row \in DOMAIN unwritten
    BY <2>1
  <2>4. DOMAIN unwritten' \subseteq DOMAIN unwritten /\ DOMAIN unwritten' # DOMAIN unwritten
    BY <2>2, <2>3
  <2>5. IsFiniteSet(DOMAIN unwritten') /\ Cardinality(DOMAIN unwritten') < left
    <3> DEFINE D == DOMAIN unwritten
               E == DOMAIN unwritten'
    <3> HIDE DEF D, E
    <3>1. IsFiniteSet(D) /\ E \subseteq D /\ E # D
      BY <2>4 DEF D, E
    <3>2. IsFiniteSet(E) /\ Cardinality(E) <= Cardinality(D)
           /\ (Cardinality(E) = Cardinality(D) => E = D)
      BY <3>1, FS_Subset
    <3>3. Cardinality(E) \in Nat /\ Cardinality(D) \in Nat
      BY <3>1, <3>2, FS_CardinalityType
    <3>4. Cardinality(E) < Cardinality(D)
      BY <3>1, <3>2, <3>3
    <3> QED
      BY <3>2, <3>4 DEF D, E
  <2>6. Cardinality(DOMAIN unwritten') \in Nat
    BY <2>5, FS_CardinalityType
  <2>7. LeftInBatch' = 1 + Cardinality(DOMAIN unwritten')
    BY <2>2 DEF LeftInBatch
  <2> HIDE DEF left
  <2> QED
    BY <1>1, <2>5, <2>6, <2>7
<1>3. CASE FinishBatch \/ Crash
  <2>1. LeftInBatch' = 0
    BY <1>3 DEF FinishBatch, SkipPurge, Purge, FailPurge, EndBatch, Crash, LeftInBatch
  <2> QED
    BY <1>1, <2>1
<1>4. CASE Tick \/ \E d \in Devices, ts \in 1 .. (now + MaxSkew), m \in Measures : Send(d, ts, m)
  BY <1>4 DEF Tick, Send, query
<1>5. ~StartBatch /\ ~EmptyBatch /\ ~Start
  BY DEF StartBatch, EmptyBatch, BatchDue, Start
<1> QED
  BY <1>2, <1>3, <1>4, <1>5 DEF Next

\* The readings of the topic are stamped no later than the skew allows: some
\* of them are the newest.
LEMMA TopicHasNewest ==
    ASSUME TypeOK, StateCoversAdmitted PROVE HasNewest(TimelyReadings)
<1> DEFINE T == {0} \cup {r.ts : r \in TimelyReadings}
           b == now + MaxSkew
<1>1. b \in Nat /\ \A r \in TimelyReadings : r.ts \in Nat /\ r.ts <= b
  BY BatchTypes, ClockAssumption
     DEF TypeOK, StateCoversAdmitted, TimelyReadings, Reading, Minute
<1>2. T \subseteq Nat /\ T # {} /\ \A n \in T : n <= b
  BY <1>1
<1>3. \E m \in T : \A n \in T : n <= m
  <2> HIDE DEF T, b
  <2> QED
    BY <1>1, <1>2, GreatestNatural
<1> QED
  BY <1>3 DEF HasNewest

\* No mix of failing partitions and purges, and no stream of new readings,
\* holds a batch up: it writes and purges in at most one step for each window
\* it changed and one more, and then a batch may take up what has arrived.
THEOREM BatchesAreShort ==
    Spec =>
        /\ [](/\ LeftInBatch \in Nat
              /\ LeftInBatch = 0 <=> phase # "write"
              /\ HasNewest(TimelyReadings))
        /\ [][phase = "write" => UNCHANGED <<phase, unwritten>> \/ LeftInBatch' < LeftInBatch]_vars
<1> DEFINE Finite == IsFiniteSet(DOMAIN unwritten)
<1>1. Init => Finite
  BY FS_EmptySet DEF Init, NoRows
<1>2. TypeOK /\ Finite /\ [Next]_vars => Finite'
  BY NextFinite
<1>3. TypeOK /\ StateCoversAdmitted /\ Finite =>
        /\ LeftInBatch \in Nat
        /\ LeftInBatch = 0 <=> phase # "write"
        /\ HasNewest(TimelyReadings)
  <2> SUFFICES ASSUME TypeOK, StateCoversAdmitted, Finite
               PROVE  /\ LeftInBatch \in Nat
                      /\ LeftInBatch = 0 <=> phase # "write"
                      /\ HasNewest(TimelyReadings)
    OBVIOUS
  <2>1. Cardinality(DOMAIN unwritten) \in Nat
    BY FS_CardinalityType
  <2>2. LeftInBatch \in Nat /\ (LeftInBatch = 0 <=> phase # "write")
    BY <2>1 DEF LeftInBatch
  <2> QED
    BY <2>2, TopicHasNewest
<1>4. Finite /\ Next =>
        (phase = "write" => UNCHANGED <<phase, unwritten>> \/ LeftInBatch' < LeftInBatch)
  BY BatchShrinks
<1> QED
  BY <1>1, <1>2, <1>3, <1>4, TableInvariant, PTL DEF Spec
=============================================================================
