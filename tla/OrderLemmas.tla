---------------------------- MODULE OrderLemmas ----------------------------
(***************************************************************************)
(* Sets of natural numbers have a least and, when bounded, a greatest      *)
(* element: what definitions by CHOOSE of a newest window or a last batch  *)
(* rely on.  The ids of a log are finitely many, hence bounded.            *)
(***************************************************************************)
EXTENDS Integers, FiniteSetTheorems, WellFoundedInduction, TLAPS

\* Among natural numbers some are smallest: of the intervals that end there
\* some are smallest.
LEMMA LeastNatural ==
    ASSUME NEW T, T \subseteq Nat, T # {}
    PROVE  \E m \in T : \A n \in T : m <= n
<1> DEFINE I == {0 .. n : n \in T}
<1>1. I \subseteq FiniteSubsetsOf(Nat) /\ I # {}
  <2>1. ASSUME NEW n \in T PROVE 0 .. n \in FiniteSubsetsOf(Nat)
    <3>1. n \in Nat
      OBVIOUS
    <3>2. IsFiniteSet(0 .. n)
      BY <3>1, FS_Interval
    <3>3. 0 .. n \in SUBSET Nat
      BY <3>1
    <3> QED
      BY <3>2, <3>3, Zenon DEF FiniteSubsetsOf
  <2> QED
    BY <2>1
<1>2. \E i \in I : \A j \in I : ~ (<<j, i>> \in StrictSubsetOrdering(Nat))
  <2> HIDE DEF I
  <2> QED
    BY <1>1, WFMin, FS_StrictSubsetOrderingWellFounded
<1>3. PICK m \in T : \A n \in T : ~ (<<0 .. n, 0 .. m>> \in StrictSubsetOrdering(Nat))
  BY <1>2
<1>4. ASSUME NEW n \in T, n < m PROVE FALSE
  <2>1. n \in Nat /\ m \in Nat
    OBVIOUS
  <2>2. 0 .. n \subseteq 0 .. m /\ m \in 0 .. m /\ m \notin 0 .. n
    BY <1>4, <2>1
  <2>3. 0 .. n \subseteq Nat /\ 0 .. m \subseteq Nat
    OBVIOUS
  <2> QED
    BY <1>3, <2>2, <2>3 DEF StrictSubsetOrdering
<1> QED
  BY <1>4

\* The least upper bound of natural numbers is one of them.
LEMMA GreatestNatural ==
    ASSUME NEW T, T \subseteq Nat, T # {}, NEW b \in Nat, \A n \in T : n <= b
    PROVE  \E m \in T : \A n \in T : n <= m
<1> DEFINE U == {u \in Nat : \A n \in T : n <= u}
<1>1. U \subseteq Nat /\ U # {}
  OBVIOUS
<1>2. PICK m \in U : \A u \in U : m <= u
  <2> HIDE DEF U
  <2> QED
    BY <1>1, LeastNatural
<1>3. m \in Nat /\ \A n \in T : n <= m
  OBVIOUS
<1>4. m \in T
  <2>1. CASE m = 0
    <3>1. PICK n \in T : TRUE
      OBVIOUS
    <3>2. n \in Nat /\ n <= 0
      BY <1>3, <2>1
    <3> QED
      BY <2>1, <3>2
  <2>2. CASE m # 0
    <3>1. m - 1 \in Nat /\ m - 1 \notin U
      BY <1>2, <1>3, <2>2
    <3>2. PICK n \in T : ~ (n <= m - 1)
      BY <3>1
    <3> QED
      BY <1>3, <3>2
  <2> QED
    BY <2>1, <2>2
<1> QED
  BY <1>3, <1>4

\* The ids of a log: finitely many, hence bounded.
IsBounded(ids) == ids \subseteq Nat /\ \E b \in Nat : \A id \in ids : id <= b

LEMMA BoundedSubset ==
    ASSUME NEW ids, IsBounded(ids), NEW some \in SUBSET ids
    PROVE  IsBounded(some)
BY DEF IsBounded

LEMMA BoundedEntry ==
    ASSUME NEW ids, IsBounded(ids), NEW id \in Nat
    PROVE  IsBounded(ids \cup {id})
<1>1. PICK b \in Nat : \A i \in ids : i <= b
  BY DEF IsBounded
<1>2. ids \subseteq Nat
  BY DEF IsBounded
<1>3. b + id \in Nat /\ \A i \in ids \cup {id} : i <= b + id
  BY <1>1, <1>2
<1> QED
  BY <1>2, <1>3 DEF IsBounded

\* Of bounded ids one is the latest, unless there is none.
LEMMA GreatestId ==
    ASSUME NEW ids, IsBounded(ids)
    PROVE  \E m \in ids \cup {-1} : m \in Nat \cup {-1} /\ \A id \in ids : id <= m
<1>1. ids \subseteq Nat
  BY DEF IsBounded
<1>2. CASE ids = {}
  BY <1>2
<1>3. CASE ids # {}
  <2>1. PICK b \in Nat : \A id \in ids : id <= b
    BY DEF IsBounded
  <2>2. \E m \in ids : \A id \in ids : id <= m
    BY <1>1, <1>3, <2>1, GreatestNatural
  <2> QED
    BY <1>1, <2>2
<1> QED
  BY <1>2, <1>3

\* What holds of the empty set, and of a set as soon as it holds of what is
\* left when some element is taken away, holds of every finite set.
LEMMA SubsetInduction ==
    ASSUME NEW S, IsFiniteSet(S), NEW good, {} \in good,
           \A s \in SUBSET S : s # {} => \E x \in s : s \ {x} \in good => s \in good
    PROVE  \A s \in SUBSET S : s \in good
<1> DEFINE bad == {s \in SUBSET S : s \notin good}
<1>1. ASSUME bad # {} PROVE FALSE
  <2>1. bad \subseteq FiniteSubsetsOf(S)
    BY FS_Subset DEF FiniteSubsetsOf
  <2>2. \E s \in bad : \A t \in bad : ~ (<<t, s>> \in StrictSubsetOrdering(S))
    <3> HIDE DEF bad
    <3> QED
      BY <1>1, <2>1, WFMin, FS_StrictSubsetOrderingWellFounded
  <2>3. PICK s \in bad : \A t \in bad : ~ (<<t, s>> \in StrictSubsetOrdering(S))
    BY <2>2
  <2>4. PICK x \in s : s \ {x} \in good => s \in good
    OBVIOUS
  <2>5. s \ {x} \in bad
    BY <2>4
  <2>6. <<s \ {x}, s>> \in StrictSubsetOrdering(S)
    BY DEF StrictSubsetOrdering
  <2> QED
    BY <2>3, <2>5, <2>6
<1> QED
  BY <1>1
=============================================================================
