---------------------------- MODULE ChangeSetsProofs ----------------------------
(***************************************************************************)
(* The change sets of a list or a table are right (ChangeSets), for one of *)
(* any size and any number of instructions and transactions.               *)
(*                                                                         *)
(* Index sets are taken as they shift indices: a set of indices is known   *)
(* by Unshift, and InsertedAll and ErasedAll compose as those do.  Two     *)
(* collections are Lined when the entries that stay are the same in the    *)
(* same order.  Tells says of a change set what has to be kept while it    *)
(* grows; each instruction, CleanUpStaleMoves and MergeInto keep it, most  *)
(* of them as instances of Carry.  Folds are followed step by step: a      *)
(* function over the steps exists by induction (FoldExists).               *)
(*                                                                         *)
(* Rows of a table that are told neither as deleted nor as inserted are    *)
(* where they were: TableTells says it of the change set of a transaction  *)
(* until its end, which makes it one that Tells.  Those of several         *)
(* transactions are Chained, and merging them from the last on tells of    *)
(* all of them.                                                            *)
(***************************************************************************)
EXTENDS ChangeSets, FiniteSetTheorems, SequenceTheorems, WellFoundedInduction, TLAPS

-----------------------------------------------------------------------------
(* Induction                                                               *)

\* A set of natural numbers has a least one.
LEMMA LeastOf == ASSUME NEW S \in SUBSET Nat, S # {} PROVE \E x \in S : \A y \in S : x <= y
<1> DEFINE R == OpToRel(<, Nat)
<1>1. \E x \in S : \A y \in S : <<y, x>> \notin R
  <2>1. IsWellFoundedOn(R, Nat)
    BY NatLessThanWellFounded
  <2> HIDE DEF R
  <2>2. QED BY <2>1, WFMin
<1>2. \A x, y \in Nat : y < x => <<y, x>> \in R
  BY DEF OpToRel
<1> HIDE DEF R
<1>3. PICK x \in S : \A y \in S : <<y, x>> \notin R
  BY <1>1
<1>4. \A y \in S : ~(y < x)
  BY <1>2, <1>3
<1>5. QED BY <1>4

\* Induction over the natural numbers, for a set.
LEMMA Induction == ASSUME NEW S, 0 \in S, \A n \in Nat : n \in S => n + 1 \in S PROVE Nat \subseteq S
<1> SUFFICES ASSUME Nat \ S # {} PROVE FALSE
  OBVIOUS
<1>1. PICK x \in Nat \ S : \A y \in Nat \ S : x <= y
  BY LeastOf
<1>2. x # 0 /\ x - 1 \in Nat /\ x - 1 \notin Nat \ S
  BY <1>1
<1>3. QED BY <1>1, <1>2

-----------------------------------------------------------------------------
(* Counting the indices of a set, and shifting by them                     *)

\* What the index sets of a change set are.
IndexSet == {S \in SUBSET Nat : IsFiniteSet(S)}

\* The indices of a set below one are finitely many.
LEMMA BelowIsFinite ==
    ASSUME NEW S \in SUBSET Nat, NEW i \in Nat
    PROVE  IsFiniteSet({s \in S : s < i}) /\ CountBelow(S, i) \in Nat
<1>1. \A s \in S : s < i => s \in 0 .. i - 1
  OBVIOUS
<1>2. {s \in S : s < i} \in SUBSET (0 .. i - 1)
  BY <1>1, Zenon
<1>3. IsFiniteSet(0 .. i - 1)
  BY FS_Interval
<1>4. IsFiniteSet({s \in S : s < i})
  BY <1>2, <1>3, FS_Subset
<1>5. QED BY <1>4, FS_CardinalityType, Zenon DEF CountBelow

\* Counting up to the next index.
LEMMA CountStep ==
    ASSUME NEW S \in SUBSET Nat, NEW i \in Nat
    PROVE  CountBelow(S, i + 1) = IF i \in S THEN CountBelow(S, i) + 1 ELSE CountBelow(S, i)
<1> DEFINE B == {s \in S : s < i}
<1>a. ~(i < i)
  OBVIOUS
<1>0. IsFiniteSet(B) /\ i \notin B /\ CountBelow(S, i) = Cardinality(B) /\ CountBelow(S, i) \in Nat
  BY <1>a, BelowIsFinite, Zenon DEF CountBelow
<1>1. CASE i \in S
  <2>1. \A s \in S : s < i + 1 <=> s < i \/ s = i
    OBVIOUS
  <2>2. {s \in S : s < i + 1} = B \cup {i}
    BY <1>1, <2>1, Zenon
  <2> HIDE DEF B
  <2>3. Cardinality(B \cup {i}) = Cardinality(B) + 1
    BY <1>0, FS_AddElement
  <2>4. QED BY <1>0, <1>1, <2>2, <2>3 DEF CountBelow
<1>2. CASE i \notin S
  <2>1. \A s \in S : s < i + 1 <=> s < i
    BY <1>2
  <2>2. {s \in S : s < i + 1} = B
    BY <2>1, Zenon
  <2>3. QED BY <1>0, <1>2, <2>2 DEF CountBelow
<1>3. QED BY <1>1, <1>2

\* No index is below the first.
LEMMA CountZero == ASSUME NEW S \in SUBSET Nat PROVE CountBelow(S, 0) = 0
<1>1. \A s \in S : ~(s < 0)
  OBVIOUS
<1>2. {s \in S : s < 0} = {}
  BY <1>1, Zenon
<1>3. QED BY <1>2, FS_EmptySet, Zenon DEF CountBelow

\* Taking the indices of S away moves an index by at most as many as there
\* are before it, one by one.
LEMMA UnshiftStep ==
    ASSUME NEW S \in SUBSET Nat
    PROVE  /\ Unshift(S, 0) = 0
           /\ \A i \in Nat : Unshift(S, i + 1) = IF i \in S THEN Unshift(S, i) ELSE Unshift(S, i) + 1
<1>1. Unshift(S, 0) = 0
  BY CountZero DEF Unshift
<1>2. ASSUME NEW i \in Nat PROVE Unshift(S, i + 1) = IF i \in S THEN Unshift(S, i) ELSE Unshift(S, i) + 1
  <2>1. CountBelow(S, i) \in Nat
    BY BelowIsFinite
  <2>2. QED BY <2>1, CountStep DEF Unshift
<1>3. QED BY <1>1, <1>2

\* Taking away the indices of a set moves an index to one not above it.
LEMMA UnshiftType == ASSUME NEW S \in SUBSET Nat, NEW i \in Nat PROVE Unshift(S, i) \in Nat /\ Unshift(S, i) <= i
<1> DEFINE P == {n \in Nat : Unshift(S, n) \in Nat /\ Unshift(S, n) <= n}
<1>1. 0 \in P
  BY UnshiftStep
<1>2. \A n \in Nat : n \in P => n + 1 \in P
  BY UnshiftStep
<1> HIDE DEF P
<1>3. Nat \subseteq P
  BY <1>1, <1>2, Induction
<1>4. QED BY <1>3 DEF P

\* The further on an index is, the further on it still is when the indices of
\* a set are taken away.
LEMMA UnshiftIsMonotonic ==
    ASSUME NEW S \in SUBSET Nat, NEW i \in Nat, NEW j \in Nat
    PROVE  /\ i <= j => Unshift(S, i) <= Unshift(S, j) /\ Unshift(S, j) - Unshift(S, i) <= j - i
           /\ i < j /\ i \notin S => Unshift(S, i) < Unshift(S, j)
<1> DEFINE P == {n \in Nat : /\ Unshift(S, i) <= Unshift(S, i + n)
                             /\ Unshift(S, i + n) - Unshift(S, i) <= n
                             /\ n > 0 /\ i \notin S => Unshift(S, i) < Unshift(S, i + n)}
<1>1. 0 \in P
  BY UnshiftType
<1>2. ASSUME NEW n \in Nat, n \in P PROVE n + 1 \in P
  <2>1. Unshift(S, i + (n + 1)) = IF i + n \in S THEN Unshift(S, i + n) ELSE Unshift(S, i + n) + 1
    <3>1. i + n \in Nat /\ i + (n + 1) = (i + n) + 1
      OBVIOUS
    <3>2. QED BY <3>1, UnshiftStep
  <2>2. Unshift(S, i) \in Nat /\ Unshift(S, i + n) \in Nat
    BY UnshiftType
  <2>3. n = 0 => i + n = i
    OBVIOUS
  <2>4. QED BY <1>2, <2>1, <2>2, <2>3
<1> HIDE DEF P
<1>3. Nat \subseteq P
  BY <1>1, <1>2, Induction
<1>4. ASSUME i <= j PROVE j - i \in P
  BY <1>3, <1>4
<1>5. QED
  <2>1. i <= j => i + (j - i) = j
    OBVIOUS
  <2>2. QED BY <1>4, <2>1 DEF P

\* A finite set of natural numbers has a greatest one.
LEMMA GreatestOf ==
    ASSUME NEW S \in IndexSet, S # {}
    PROVE  Max(S) \in S /\ \A y \in S : y <= Max(S)
<1> DEFINE P == {n \in Nat : \A T \in IndexSet : Cardinality(T) = n /\ T # {} => \E x \in T : \A y \in T : y <= x}
<1>0. \A T \in IndexSet : T \in SUBSET Nat /\ IsFiniteSet(T) /\ Cardinality(T) \in Nat
  BY FS_CardinalityType DEF IndexSet
<1>1. 0 \in P
  BY <1>0, FS_EmptySet
<1>2. ASSUME NEW n \in Nat, n \in P PROVE n + 1 \in P
  <2>0. n + 1 \in Nat
    OBVIOUS
  <2> SUFFICES ASSUME NEW T \in IndexSet, Cardinality(T) = n + 1, T # {} PROVE \E x \in T : \A y \in T : y <= x
    BY <2>0, Zenon
  <2>1. PICK x \in T : TRUE
    OBVIOUS
  <2>2. T \ {x} \in IndexSet /\ Cardinality(T \ {x}) = n
    BY <1>0, FS_RemoveElement DEF IndexSet
  <2>3. CASE T \ {x} = {}
    <3>1. \A y \in T : y = x /\ x \in Nat
      BY <1>0, <2>3
    <3>2. QED BY <2>1, <3>1
  <2>4. CASE T \ {x} # {}
    <3>1. PICK z \in T \ {x} : \A y \in T \ {x} : y <= z
      BY <1>2, <2>2, <2>4, Zenon
    <3>2. x \in Nat /\ z \in Nat /\ T \in SUBSET Nat
      BY <1>0
    <3>3. CASE x <= z
      BY <3>1, <3>2, <3>3
    <3>4. CASE z <= x
      BY <3>1, <3>2, <3>4
    <3>5. QED BY <3>2, <3>3, <3>4
  <2>5. QED BY <2>3, <2>4
<1> HIDE DEF P
<1>3. Nat \subseteq P
  BY <1>1, <1>2, Induction
<1>4. \E x \in S : \A y \in S : y <= x
  BY <1>0, <1>3, Zenon DEF P
<1>5. \E x \in S : \A y \in S : x >= y
  BY <1>0, <1>4
<1>6. Max(S) \in S /\ \A y \in S : Max(S) >= y
  BY <1>5, Zenon DEF Max
<1>7. QED BY <1>0, <1>6

\* Putting the indices of S in moves index i to the one place that is free
\* and has i free ones before it.
LEMMA ShiftLaw ==
    ASSUME NEW S \in IndexSet, NEW i \in Nat
    PROVE  /\ Shift(S, i) \in Nat \ S /\ i <= Shift(S, i)
           /\ Unshift(S, Shift(S, i)) = i
<1>0. S \in SUBSET Nat /\ IsFiniteSet(S) /\ Cardinality(S) \in Nat
  BY FS_CardinalityType DEF IndexSet
<1>1. ASSUME NEW j \in Nat PROVE CountBelow(S, j) \in Nat /\ CountBelow(S, j) <= Cardinality(S)
  <2>1. {s \in S : s < j} \in SUBSET S
    BY Zenon
  <2>2. Cardinality({s \in S : s < j}) <= Cardinality(S)
    BY <1>0, <2>1, FS_Subset
  <2>3. QED BY <1>0, <2>2, BelowIsFinite DEF CountBelow
<1>2. \E j \in i .. (i + Cardinality(S)) : j \notin S /\ Unshift(S, j) = i
  <2> DEFINE N == Cardinality(S)
             J == {j \in Nat : Unshift(S, j + 1) > i}
  <2>1. i + N \in J
    <3>1. i + N + 1 \in Nat /\ CountBelow(S, i + N + 1) <= N /\ CountBelow(S, i + N + 1) \in Nat
      BY <1>0, <1>1
    <3>2. QED BY <1>0, <3>1 DEF Unshift
  <2>2. J \in SUBSET Nat
    OBVIOUS
  <2>3. PICK j \in J : \A k \in J : j <= k
    <3> HIDE DEF J
    <3>1. QED BY <2>1, <2>2, LeastOf
  <2>4. j \in Nat /\ Unshift(S, j + 1) > i /\ j <= i + N
    BY <2>1, <2>3
  <2>5. Unshift(S, j) <= i
    <3>1. CASE j = 0
      BY <1>0, <3>1, UnshiftStep
    <3>2. CASE j # 0
      <4>1. j - 1 \in Nat /\ (j - 1) + 1 = j /\ j - 1 \notin J
        BY <2>3, <2>4, <3>2
      <4>2. Unshift(S, j) \in Nat
        BY <1>0, <2>4, UnshiftType
      <4>3. ~(Unshift(S, j) > i)
        BY <4>1
      <4>4. QED BY <4>2, <4>3
    <3>3. QED BY <3>1, <3>2
  <2>6. Unshift(S, j + 1) = IF j \in S THEN Unshift(S, j) ELSE Unshift(S, j) + 1
    BY <1>0, <2>4, UnshiftStep
  <2>7. Unshift(S, j) \in Nat /\ Unshift(S, j) <= j
    BY <1>0, <2>4, UnshiftType
  <2>8. j \notin S /\ Unshift(S, j) = i /\ i <= j
    BY <2>4, <2>5, <2>6, <2>7
  <2>9. QED BY <1>0, <2>4, <2>8
<1>3. Shift(S, i) \in i .. (i + Cardinality(S)) /\ Shift(S, i) \notin S /\ Unshift(S, Shift(S, i)) = i
  BY <1>2, Zenon DEF Shift
<1>4. QED BY <1>0, <1>3

\* Indices that are not in S are told apart by where they are without S.
LEMMA UnshiftIsInjective ==
    ASSUME NEW S \in SUBSET Nat, NEW i \in Nat \ S, NEW j \in Nat \ S, Unshift(S, i) = Unshift(S, j)
    PROVE  i = j
<1>1. Unshift(S, i) \in Nat /\ Unshift(S, j) \in Nat
  BY UnshiftType
<1>2. ~(i < j) /\ ~(j < i)
  BY <1>1, UnshiftIsMonotonic
<1>3. QED BY <1>2

\* shift undoes unshift, for the indices that are not in the set.
LEMMA ShiftUnshift ==
    ASSUME NEW S \in IndexSet, NEW i \in Nat \ S
    PROVE  Shift(S, Unshift(S, i)) = i
<1>1. S \in SUBSET Nat
  BY DEF IndexSet
<1>2. Unshift(S, i) \in Nat
  BY <1>1, UnshiftType
<1>3. /\ Shift(S, Unshift(S, i)) \in Nat \ S
      /\ Unshift(S, Shift(S, Unshift(S, i))) = Unshift(S, i)
  BY <1>2, ShiftLaw
<1>4. QED BY <1>1, <1>3, UnshiftIsInjective

\* What the index sets of E leave is what those of D leave in two stages: if
\* D has S and, of the other indices, those that are at one of E without S.
LEMMA TwoStages ==
    ASSUME NEW S \in SUBSET Nat, NEW E \in SUBSET Nat, NEW D \in SUBSET Nat,
           S \subseteq D, \A i \in Nat \ S : i \in D <=> Unshift(S, i) \in E,
           NEW i \in Nat
    PROVE  Unshift(D, i) = Unshift(E, Unshift(S, i))
<1> DEFINE P == {n \in Nat : Unshift(D, n) = Unshift(E, Unshift(S, n))}
<1>1. 0 \in P
  BY UnshiftStep
<1>2. ASSUME NEW n \in Nat, n \in P PROVE n + 1 \in P
  <2>0. Unshift(S, n) \in Nat
    BY UnshiftType
  <2>1. Unshift(D, n + 1) = IF n \in D THEN Unshift(D, n) ELSE Unshift(D, n) + 1
    BY UnshiftStep
  <2>2. Unshift(S, n + 1) = IF n \in S THEN Unshift(S, n) ELSE Unshift(S, n) + 1
    BY UnshiftStep
  <2>3. Unshift(E, Unshift(S, n) + 1)
           = IF Unshift(S, n) \in E THEN Unshift(E, Unshift(S, n)) ELSE Unshift(E, Unshift(S, n)) + 1
    BY <2>0, UnshiftStep
  <2>4. CASE n \in S
    BY <1>2, <2>1, <2>2, <2>4
  <2>5. CASE n \notin S
    BY <1>2, <2>1, <2>2, <2>3, <2>5
  <2>6. QED BY <2>4, <2>5
<1> HIDE DEF P
<1>3. Nat \subseteq P
  BY <1>1, <1>2, Induction
<1>4. QED BY <1>3 DEF P

\* An index set that begins as another does.
LEMMA UnshiftAgrees ==
    ASSUME NEW S \in SUBSET Nat, NEW T \in SUBSET Nat, NEW i \in Nat,
           \A j \in Nat : j < i => (j \in S <=> j \in T)
    PROVE  Unshift(S, i) = Unshift(T, i)
<1>1. \A s : s \in S /\ s < i <=> s \in T /\ s < i
  OBVIOUS
<1>2. {s \in S : s < i} = {s \in T : s < i}
  BY <1>1, Zenon
<1>3. QED BY <1>2 DEF Unshift, CountBelow

\* What a function makes of finitely many are finitely many.
LEMMA FiniteImage == ASSUME NEW S, IsFiniteSet(S), NEW f PROVE IsFiniteSet({f[s] : s \in S})
<1> DEFINE T == {f[s] : s \in S}
           g == [s \in S |-> f[s]]
<1>1. g \in [S -> T] /\ \A t \in T : \E s \in S : g[s] = t
  OBVIOUS
<1>2. g \in Surjection(S, T)
  BY <1>1 DEF Surjection
<1> HIDE DEF T, g
<1>3. IsFiniteSet(T)
  BY <1>2, FS_Surjection
<1>4. QED BY <1>3 DEF T

-----------------------------------------------------------------------------
(* What the operations of IndexSets do to where an index is                *)

\* The indices of S, once those of T are put in.
LEMMA ShiftForAllLaw ==
    ASSUME NEW S \in IndexSet, NEW T \in IndexSet
    PROVE  /\ ShiftForAll(S, T) \in IndexSet
           /\ \A i \in T : i \notin ShiftForAll(S, T)
           /\ \A i \in Nat \ T : i \in ShiftForAll(S, T) <=> Unshift(T, i) \in S
<1>0. S \in SUBSET Nat /\ T \in SUBSET Nat /\ IsFiniteSet(S)
  BY DEF IndexSet
<1>1. \A s \in S : Shift(T, s) \in Nat \ T /\ Unshift(T, Shift(T, s)) = s
  BY <1>0, ShiftLaw
<1>2. IsFiniteSet(ShiftForAll(S, T))
  <2> DEFINE f == [s \in S |-> Shift(T, s)]
  <2>1. ShiftForAll(S, T) = {f[s] : s \in S}
    BY DEF ShiftForAll
  <2>2. IsFiniteSet(S)
    BY <1>0
  <2> HIDE DEF f
  <2>3. QED BY <2>1, <2>2, FiniteImage
<1>3. ASSUME NEW i \in Nat \ T, Unshift(T, i) \in S PROVE i \in ShiftForAll(S, T)
  BY <1>3, ShiftUnshift DEF ShiftForAll
<1>4. QED BY <1>1, <1>2, <1>3 DEF ShiftForAll, IndexSet

\* insert_at with a set: the new indices, and the old ones moved on by them.
LEMMA InsertedAllLaw ==
    ASSUME NEW S \in IndexSet, NEW T \in IndexSet
    PROVE  /\ InsertedAll(S, T) \in IndexSet
           /\ T \subseteq InsertedAll(S, T)
           /\ \A i \in Nat \ T : i \in InsertedAll(S, T) <=> Unshift(T, i) \in S
           /\ \A i \in Nat : Unshift(InsertedAll(S, T), i) = Unshift(S, Unshift(T, i))
<1> DEFINE I == InsertedAll(S, T)
<1>0. S \in SUBSET Nat /\ T \in SUBSET Nat /\ IsFiniteSet(T)
  BY DEF IndexSet
<1>1. I = ShiftForAll(S, T) \cup T
  BY DEF InsertedAll
<1>2. ShiftForAll(S, T) \in SUBSET Nat /\ IsFiniteSet(ShiftForAll(S, T))
  BY ShiftForAllLaw DEF IndexSet
<1>3. I \in SUBSET Nat /\ IsFiniteSet(I) /\ T \subseteq I
  BY <1>0, <1>1, <1>2, FS_Union
<1>4. \A i \in Nat \ T : i \in I <=> Unshift(T, i) \in S
  BY <1>1, ShiftForAllLaw
<1> HIDE DEF I
<1>5. \A i \in Nat : Unshift(I, i) = Unshift(S, Unshift(T, i))
  BY <1>0, <1>3, <1>4, TwoStages
<1>6. QED BY <1>3, <1>4, <1>5 DEF I, IndexSet

\* erase_at with a set: the rest, moved back by those that are gone.
LEMMA ErasedAllLaw ==
    ASSUME NEW S \in IndexSet, NEW T \in IndexSet
    PROVE  /\ ErasedAll(S, T) \in IndexSet
           /\ \A i \in Nat \ T : i \in S <=> Unshift(T, i) \in ErasedAll(S, T)
           /\ \A i \in Nat : Unshift(S \cup T, i) = Unshift(ErasedAll(S, T), Unshift(T, i))
<1> DEFINE E == ErasedAll(S, T)
<1>0. S \in SUBSET Nat /\ T \in SUBSET Nat /\ IsFiniteSet(S \ T)
  BY FS_Difference DEF IndexSet
<1>1. IsFiniteSet(E)
  <2> DEFINE X == S \ T
             f == [s \in X |-> Unshift(T, s)]
  <2>1. E = {f[s] : s \in X}
    BY DEF ErasedAll
  <2>2. IsFiniteSet(X)
    BY <1>0
  <2> HIDE DEF X, f, E
  <2>3. QED BY <2>1, <2>2, FiniteImage
<1>2. E \in SUBSET Nat
  BY <1>0, UnshiftType DEF ErasedAll
<1>3. ASSUME NEW i \in Nat \ T PROVE i \in S <=> Unshift(T, i) \in E
  <2>1. ASSUME Unshift(T, i) \in E PROVE i \in S
    <3>1. PICK s \in S \ T : Unshift(T, s) = Unshift(T, i)
      BY <2>1 DEF ErasedAll
    <3>2. s = i
      BY <1>0, <3>1, UnshiftIsInjective
    <3>3. QED BY <3>1, <3>2
  <2>2. QED BY <2>1 DEF ErasedAll
<1> HIDE DEF E
<1>4. ASSUME NEW i \in Nat PROVE Unshift(S \cup T, i) = Unshift(E, Unshift(T, i))
  <2> DEFINE D == S \cup T
  <2>1. D \in SUBSET Nat /\ T \subseteq D /\ \A j \in Nat \ T : j \in D <=> Unshift(T, j) \in E
    BY <1>0, <1>3
  <2> HIDE DEF D
  <2>2. Unshift(D, i) = Unshift(E, Unshift(T, i))
    BY <1>0, <1>2, <2>1, TwoStages
  <2>3. QED BY <2>2 DEF D
<1>5. QED BY <1>1, <1>2, <1>3, <1>4 DEF E, IndexSet

\* What add_shifted_by adds are the indices of V without T, put into S.
LEMMA AddShiftedByLaw ==
    ASSUME NEW S, NEW T, NEW V
    PROVE  AddShiftedBy(S, T, V) = InsertedAll(ErasedAll(V, T), S)
<1>1. {Shift(S, Unshift(T, v)) : v \in V \ T} = {Shift(S, s) : s \in {Unshift(T, v) : v \in V \ T}}
  OBVIOUS
<1>2. QED BY <1>1 DEF AddShiftedBy, InsertedAll, ShiftForAll, ErasedAll

\* add_shifted adds an index counted among those that are not in the set.
LEMMA AddShiftedLaw == ASSUME NEW S, NEW i PROVE AddShifted(S, i) = InsertedAll({i}, S)
BY DEF AddShifted, InsertedAll, ShiftForAll

\* Shifting by one index.
LEMMA SingletonLaw ==
    ASSUME NEW i \in Nat
    PROVE  /\ {i} \in IndexSet
           /\ \A j \in Nat : Unshift({i}, j) = IF j <= i THEN j ELSE j - 1
           /\ \A j \in Nat : Shift({i}, j) = IF j < i THEN j ELSE j + 1
<1>1. {i} \in IndexSet
  BY FS_Singleton DEF IndexSet
<1>2. ASSUME NEW j \in Nat PROVE Unshift({i}, j) = IF j <= i THEN j ELSE j - 1
  <2>1. CASE j <= i
    <3>1. \A s \in {i} : ~(s < j)
      BY <2>1
    <3>2. {s \in {i} : s < j} = {}
      BY <3>1, Zenon
    <3>3. CountBelow({i}, j) = 0
      BY <3>2, FS_EmptySet, Zenon DEF CountBelow
    <3>4. QED BY <2>1, <3>3 DEF Unshift
  <2>2. CASE j > i
    <3>1. \A s \in {i} : s < j
      BY <2>2
    <3>2. {s \in {i} : s < j} = {i}
      BY <3>1, Zenon
    <3>3. CountBelow({i}, j) = 1
      BY <3>2, FS_Singleton, Zenon DEF CountBelow
    <3>4. QED BY <2>2, <3>3 DEF Unshift
  <2>3. QED BY <2>1, <2>2
<1>3. ASSUME NEW j \in Nat PROVE Shift({i}, j) = IF j < i THEN j ELSE j + 1
  <2>1. Shift({i}, j) \in Nat \ {i} /\ Unshift({i}, Shift({i}, j)) = j
    BY <1>1, ShiftLaw
  <2>2. QED BY <1>2, <2>1
<1>4. QED BY <1>1, <1>2, <1>3

\* The operations on one index are those on a set of one.
LEMMA OneIndex ==
    ASSUME NEW S \in IndexSet, NEW i \in Nat
    PROVE  /\ ShiftForInsertAt(S, i, 1) = ShiftForAll(S, {i})
           /\ InsertedAt(S, i, 1) = InsertedAll(S, {i})
           /\ ErasedAt(S, i) = ErasedAll(S, {i})
<1>0. S \in SUBSET Nat
  BY DEF IndexSet
<1>1. \A s \in S : Shift({i}, s) = IF s < i THEN s ELSE s + 1
  BY <1>0, SingletonLaw
<1>2. ASSUME NEW s \in S \ {i} PROVE Unshift({i}, s) = IF s < i THEN s ELSE s - 1
  <2>1. s \in Nat /\ s # i /\ (s <= i <=> s < i)
    BY <1>0
  <2>2. QED BY <2>1, SingletonLaw
<1>3. ShiftForInsertAt(S, i, 1) = ShiftForAll(S, {i})
  BY <1>1, Zenon DEF ShiftForInsertAt, ShiftForAll
<1>4. ErasedAt(S, i) = ErasedAll(S, {i})
  BY <1>2, Zenon DEF ErasedAt, ErasedAll
<1>5. i .. i + 1 - 1 = {i}
  OBVIOUS
<1>6. QED BY <1>3, <1>4, <1>5 DEF InsertedAt, InsertedAll

-----------------------------------------------------------------------------
(* Two collections and a change set between them                           *)

\* The entries of s that are not deleted are, one after the other, those of t
\* that are not inserted.
Lined(D, I, s, t) ==
    /\ Unshift(D, Len(s)) = Unshift(I, Len(t))
    /\ \A i \in IndicesOf(s) \ D, j \in IndicesOf(t) \ I :
          Unshift(D, i) = Unshift(I, j) => At(s, i) = At(t, j)

\* It says the same of the two collections the other way round.
LEMMA LinedIsSymmetric == ASSUME NEW D, NEW I, NEW s, NEW t, Lined(D, I, s, t) PROVE Lined(I, D, t, s)
BY DEF Lined

\* Every entry that stays has its place in the other collection.
LEMMA Partner ==
    ASSUME NEW D \in IndexSet, NEW I \in IndexSet, NEW s \in Seq(Nat), NEW t \in Seq(Nat),
           Lined(D, I, s, t), NEW i \in IndicesOf(s) \ D
    PROVE  LET x == Shift(I, Unshift(D, i))
           IN  x \in IndicesOf(t) \ I /\ Unshift(I, x) = Unshift(D, i) /\ At(s, i) = At(t, x)
<1> DEFINE x == Shift(I, Unshift(D, i))
<1>0. D \in SUBSET Nat /\ I \in SUBSET Nat /\ i \in Nat /\ i < Len(s) /\ Len(s) \in Nat /\ Len(t) \in Nat
  BY DEF IndexSet, IndicesOf
<1>1. Unshift(D, i) \in Nat
  BY <1>0, UnshiftType
<1>2. x \in Nat \ I /\ Unshift(I, x) = Unshift(D, i)
  BY <1>1, ShiftLaw
<1> HIDE DEF x
<1>3. Unshift(D, i) < Unshift(I, Len(t))
  BY <1>0, UnshiftIsMonotonic DEF Lined
<1>4. x < Len(t)
  <2>1. Len(t) <= x => Unshift(I, Len(t)) <= Unshift(I, x)
    BY <1>0, <1>2, UnshiftIsMonotonic
  <2>2. Unshift(I, Len(t)) \in Nat
    BY <1>0, UnshiftType
  <2>3. QED BY <1>0, <1>1, <1>2, <1>3, <2>1, <2>2
<1>5. x \in IndicesOf(t) \ I
  BY <1>0, <1>2, <1>4 DEF IndicesOf
<1>6. QED BY <1>2, <1>5 DEF x, Lined

\* How many entries of s there are apart from those at D.
LEMMA KeptCount ==
    ASSUME NEW D \in IndexSet, NEW n \in Nat
    PROVE  Cardinality({i \in 1 .. n : i - 1 \notin D}) = Unshift(D, n)
<1> DEFINE K(k) == {i \in 1 .. k : i - 1 \notin D}
           P == {k \in Nat : IsFiniteSet(K(k)) /\ Cardinality(K(k)) = Unshift(D, k)}
<1>0. D \in SUBSET Nat
  BY DEF IndexSet
<1>1. 0 \in P
  <2>1. K(0) = {}
    OBVIOUS
  <2>2. QED BY <1>0, <2>1, UnshiftStep, FS_EmptySet
<1>2. ASSUME NEW k \in Nat, k \in P PROVE k + 1 \in P
  <2>0. Unshift(D, k + 1) = IF k \in D THEN Unshift(D, k) ELSE Unshift(D, k) + 1
    BY <1>0, UnshiftStep
  <2>1. CASE k \in D
    <3>1. K(k + 1) = K(k)
      BY <2>1
    <3>2. QED BY <1>2, <2>0, <2>1, <3>1
  <2>2. CASE k \notin D
    <3>1. K(k + 1) = K(k) \cup {k + 1} /\ k + 1 \notin K(k)
      BY <2>2
    <3>2. IsFiniteSet(K(k)) /\ Cardinality(K(k)) = Unshift(D, k)
      BY <1>2
    <3> HIDE DEF K
    <3>3. IsFiniteSet(K(k + 1)) /\ Cardinality(K(k + 1)) = Cardinality(K(k)) + 1
      BY <3>1, <3>2, FS_AddElement
    <3>4. QED BY <2>0, <2>2, <3>2, <3>3
  <2>3. QED BY <2>1, <2>2
<1> HIDE DEF P
<1>3. Nat \subseteq P
  BY <1>1, <1>2, Induction
<1>4. QED BY <1>3 DEF P

\* What is left of s at a place, and of what index that is.
LEMMA WithoutLaw ==
    ASSUME NEW D \in IndexSet, NEW s \in Seq(Nat)
    PROVE  /\ Without(s, D) = [k \in 1 .. Unshift(D, Len(s)) |-> At(s, Shift(D, k - 1))]
           /\ \A k \in 1 .. Unshift(D, Len(s)) :
                 Shift(D, k - 1) \in IndicesOf(s) \ D /\ Unshift(D, Shift(D, k - 1)) = k - 1
           /\ ToSet(Without(s, D)) = {At(s, i) : i \in IndicesOf(s) \ D}
<1> DEFINE N == Unshift(D, Len(s))
<1>0. D \in SUBSET Nat /\ Len(s) \in Nat
  BY DEF IndexSet
<1>1. N \in Nat
  BY <1>0, UnshiftType
<1>2. Without(s, D) = [k \in 1 .. N |-> At(s, Shift(D, k - 1))]
  BY <1>0, KeptCount, Zenon DEF Without, At
<1>3. ASSUME NEW k \in 1 .. N
      PROVE  Shift(D, k - 1) \in IndicesOf(s) \ D /\ Unshift(D, Shift(D, k - 1)) = k - 1
  <2> DEFINE x == Shift(D, k - 1)
  <2>1. k - 1 \in Nat /\ k - 1 < N
    BY <1>1
  <2>2. x \in Nat \ D /\ Unshift(D, x) = k - 1
    BY <2>1, ShiftLaw
  <2> HIDE DEF x
  <2>3. Len(s) <= x => N <= Unshift(D, x)
    BY <1>0, <2>2, UnshiftIsMonotonic
  <2>4. x < Len(s)
    BY <1>0, <1>1, <2>1, <2>2, <2>3
  <2>5. QED BY <1>0, <2>2, <2>4 DEF x, IndicesOf
<1>4. ASSUME NEW i \in IndicesOf(s) \ D PROVE \E k \in 1 .. N : Shift(D, k - 1) = i
  <2>1. i \in Nat \ D /\ i < Len(s)
    BY <1>0 DEF IndicesOf
  <2>2. Unshift(D, i) \in Nat /\ Unshift(D, i) < N
    BY <1>0, <2>1, UnshiftType, UnshiftIsMonotonic
  <2>3. Unshift(D, i) + 1 \in 1 .. N /\ (Unshift(D, i) + 1) - 1 = Unshift(D, i)
    BY <1>1, <2>2
  <2>4. QED BY <2>1, <2>3, ShiftUnshift
<1> HIDE DEF N
<1>5. ToSet(Without(s, D)) = {At(s, Shift(D, k - 1)) : k \in 1 .. N}
  BY <1>2 DEF ToSet
<1>6. ToSet(Without(s, D)) = {At(s, i) : i \in IndicesOf(s) \ D}
  BY <1>3, <1>4, <1>5
<1>7. QED BY <1>2, <1>3, <1>6 DEF N

\* If what stays is in line, leaving out what does not stay leaves the same.
LEMMA LinedLeavesTheSame ==
    ASSUME NEW D \in IndexSet, NEW I \in IndexSet, NEW s \in Seq(Nat), NEW t \in Seq(Nat), Lined(D, I, s, t)
    PROVE  Without(s, D) = Without(t, I)
<1> DEFINE N == Unshift(D, Len(s))
<1>1. N = Unshift(I, Len(t))
  BY DEF Lined
<1>2. ASSUME NEW k \in 1 .. N PROVE At(s, Shift(D, k - 1)) = At(t, Shift(I, k - 1))
  <2>1. Shift(D, k - 1) \in IndicesOf(s) \ D /\ Unshift(D, Shift(D, k - 1)) = k - 1
    BY WithoutLaw
  <2>2. Shift(I, k - 1) \in IndicesOf(t) \ I /\ Unshift(I, Shift(I, k - 1)) = k - 1
    BY <1>1, WithoutLaw
  <2>3. QED BY <2>1, <2>2 DEF Lined
<1>3. Without(s, D) = [k \in 1 .. N |-> At(s, Shift(D, k - 1))]
  BY WithoutLaw
<1>4. Without(t, I) = [k \in 1 .. N |-> At(t, Shift(I, k - 1))]
  BY <1>1, WithoutLaw
<1>5. QED BY <1>2, <1>3, <1>4

\* One change set after the other: what both leave, and where.
LEMMA Compose ==
    ASSUME NEW D1 \in IndexSet, NEW I1 \in IndexSet, NEW D2 \in IndexSet, NEW I2 \in IndexSet,
           NEW s \in Seq(Nat), NEW m \in Seq(Nat), NEW t \in Seq(Nat),
           Lined(D1, I1, s, m), Lined(D2, I2, m, t)
    PROVE  Lined(InsertedAll(ErasedAll(D2, I1), D1), InsertedAll(ErasedAll(I1, D2), I2), s, t)
<1> DEFINE E2 == ErasedAll(D2, I1)
           E1 == ErasedAll(I1, D2)
           D == InsertedAll(E2, D1)
           I == InsertedAll(E1, I2)
           B == D2 \cup I1
<1>0. /\ D1 \in SUBSET Nat /\ I1 \in SUBSET Nat /\ D2 \in SUBSET Nat /\ I2 \in SUBSET Nat /\ B \in SUBSET Nat
      /\ Len(s) \in Nat /\ Len(m) \in Nat /\ Len(t) \in Nat
  BY DEF IndexSet
<1>1. /\ E2 \in IndexSet
      /\ \A x \in Nat \ I1 : x \in D2 <=> Unshift(I1, x) \in E2
      /\ \A x \in Nat : Unshift(B, x) = Unshift(E2, Unshift(I1, x))
  BY ErasedAllLaw
<1>2. /\ E1 \in IndexSet
      /\ \A x \in Nat \ D2 : x \in I1 <=> Unshift(D2, x) \in E1
      /\ \A x \in Nat : Unshift(B, x) = Unshift(E1, Unshift(D2, x))
  <2>1. I1 \cup D2 = B
    OBVIOUS
  <2>2. /\ E1 \in IndexSet
        /\ \A x \in Nat \ D2 : x \in I1 <=> Unshift(D2, x) \in E1
        /\ \A x \in Nat : Unshift(I1 \cup D2, x) = Unshift(E1, Unshift(D2, x))
    BY ErasedAllLaw
  <2> HIDE DEF B
  <2>3. QED BY <2>1, <2>2
<1> HIDE DEF E1, E2, B
<1>3. /\ D1 \subseteq D
      /\ \A i \in Nat \ D1 : i \in D <=> Unshift(D1, i) \in E2
      /\ \A i \in Nat : Unshift(D, i) = Unshift(E2, Unshift(D1, i))
  BY <1>1, InsertedAllLaw
<1>4. /\ I2 \subseteq I
      /\ \A j \in Nat \ I2 : j \in I <=> Unshift(I2, j) \in E1
      /\ \A j \in Nat : Unshift(I, j) = Unshift(E1, Unshift(I2, j))
  BY <1>2, InsertedAllLaw
<1> HIDE DEF D, I
<1>5. Unshift(D, Len(s)) = Unshift(I, Len(t))
  BY <1>0, <1>1, <1>2, <1>3, <1>4 DEF Lined
<1>6. ASSUME NEW i \in IndicesOf(s) \ D, NEW j \in IndicesOf(t) \ I, Unshift(D, i) = Unshift(I, j)
      PROVE  At(s, i) = At(t, j)
  <2> DEFINE x == Shift(I1, Unshift(D1, i))
             y == Shift(D2, Unshift(I2, j))
  <2>0. i \in Nat \ D1 /\ j \in Nat \ I2 /\ i \in IndicesOf(s) \ D1 /\ j \in IndicesOf(t) \ I2
    BY <1>0, <1>3, <1>4 DEF IndicesOf
  <2>1. x \in IndicesOf(m) \ I1 /\ Unshift(I1, x) = Unshift(D1, i) /\ At(s, i) = At(m, x)
    BY <2>0, Partner
  <2>2. y \in IndicesOf(m) \ D2 /\ Unshift(D2, y) = Unshift(I2, j) /\ At(t, j) = At(m, y)
    BY <2>0, LinedIsSymmetric, Partner
  <2> HIDE DEF x, y
  <2>3. x \in Nat /\ y \in Nat
    BY <1>0, <2>1, <2>2 DEF IndicesOf
  <2>4. x \notin B /\ y \notin B
    BY <1>1, <1>2, <1>3, <1>4, <1>6, <2>0, <2>1, <2>2, <2>3 DEF B
  <2>5. Unshift(B, x) = Unshift(B, y)
    BY <1>1, <1>2, <1>3, <1>4, <1>6, <2>0, <2>1, <2>2, <2>3
  <2>6. x = y
    BY <1>0, <2>3, <2>4, <2>5, UnshiftIsInjective
  <2>7. QED BY <2>1, <2>2, <2>6
<1>7. QED BY <1>5, <1>6 DEF Lined, D, I, E1, E2

\* The deletions of both, taken together, are of the first collection.
LEMMA ComposeStaysInside ==
    ASSUME NEW D1 \in IndexSet, NEW I1 \in IndexSet, NEW D2 \in IndexSet,
           NEW s \in Seq(Nat), NEW m \in Seq(Nat), Lined(D1, I1, s, m),
           D1 \subseteq IndicesOf(s), D2 \subseteq IndicesOf(m)
    PROVE  /\ InsertedAll(ErasedAll(D2, I1), D1) \in IndexSet
           /\ InsertedAll(ErasedAll(D2, I1), D1) \subseteq IndicesOf(s)
<1> DEFINE E2 == ErasedAll(D2, I1)
           D == InsertedAll(E2, D1)
<1>0. /\ D1 \in SUBSET Nat /\ I1 \in SUBSET Nat /\ D2 \in SUBSET Nat /\ Len(s) \in Nat /\ Len(m) \in Nat
  BY DEF IndexSet
<1>1. E2 \in IndexSet
  BY ErasedAllLaw
<1>2. \A e \in E2 : e < Unshift(I1, Len(m))
  <2>1. ASSUME NEW x \in D2 \ I1 PROVE Unshift(I1, x) < Unshift(I1, Len(m))
    <3>1. x \in Nat /\ x < Len(m) /\ x \notin I1
      BY <1>0 DEF IndicesOf
    <3>2. QED BY <1>0, <3>1, UnshiftIsMonotonic
  <2>2. QED BY <2>1 DEF ErasedAll
<1> HIDE DEF E2
<1>3. D \in IndexSet /\ D \in SUBSET Nat /\ \A i \in Nat \ D1 : i \in D <=> Unshift(D1, i) \in E2
  BY <1>1, InsertedAllLaw DEF IndexSet
<1> HIDE DEF D
<1>4. ASSUME NEW i \in D PROVE i < Len(s)
  <2>0. i \in Nat
    BY <1>3
  <2>1. CASE i \in D1
    BY <1>0, <2>1 DEF IndicesOf
  <2>2. CASE i \notin D1
    <3>1. Unshift(D1, i) < Unshift(D1, Len(s))
      BY <1>2, <1>3, <2>0, <2>2 DEF Lined
    <3>2. Len(s) <= i => Unshift(D1, Len(s)) <= Unshift(D1, i)
      BY <1>0, <2>0, UnshiftIsMonotonic
    <3>3. Unshift(D1, i) \in Nat /\ Unshift(D1, Len(s)) \in Nat
      BY <1>0, <2>0, UnshiftType
    <3>4. QED BY <1>0, <2>0, <3>1, <3>2, <3>3
  <2>3. QED BY <2>1, <2>2
<1>5. D \subseteq IndicesOf(s)
  BY <1>0, <1>3, <1>4 DEF IndicesOf
<1>6. QED BY <1>3, <1>5 DEF D, E2

\* The empty index set leaves every index where it is.
LEMMA NothingShifts == {} \in IndexSet /\ \A i \in Nat : Unshift({}, i) = i
<1>1. {} \in IndexSet
  BY FS_EmptySet DEF IndexSet
<1> DEFINE P == {i \in Nat : Unshift({}, i) = i}
<1>2. {} \in SUBSET Nat
  OBVIOUS
<1>3. 0 \in P /\ \A i \in Nat : i \in P => i + 1 \in P
  BY <1>2, UnshiftStep
<1> HIDE DEF P
<1>4. Nat \subseteq P
  BY <1>3, Induction
<1>5. QED BY <1>1, <1>4 DEF P

\* An index set without, or into, an empty one.
LEMMA NothingChanges ==
    ASSUME NEW S \in IndexSet
    PROVE  /\ ErasedAll(S, {}) = S /\ InsertedAll(S, {}) = S
           /\ ErasedAll({}, S) = {} /\ InsertedAll({}, S) = S
<1>0. S \in SUBSET Nat
  BY DEF IndexSet
<1>1. {} \in IndexSet
  BY NothingShifts
<1>3. \A i \in Nat : Shift({}, i) = i
  <2>1. ASSUME NEW i \in Nat PROVE Shift({}, i) = i
    <3>1. Shift({}, i) \in Nat /\ Unshift({}, Shift({}, i)) = i
      BY <1>1, ShiftLaw
    <3>2. QED BY NothingShifts, <3>1
  <2>2. QED BY <2>1
<1>4. ErasedAll(S, {}) = S
  <2>1. \A i \in S : Unshift({}, i) = i
    BY <1>0, NothingShifts
  <2>2. QED BY <2>1 DEF ErasedAll
<1>5. InsertedAll(S, {}) = S
  <2>1. \A i \in S : Shift({}, i) = i
    BY <1>0, <1>3
  <2>2. QED BY <2>1 DEF InsertedAll, ShiftForAll
<1>6. QED BY <1>4, <1>5 DEF ErasedAll, InsertedAll, ShiftForAll

-----------------------------------------------------------------------------
(* Folding, and what is kept of a sequence of moves                        *)

\* The function by which n elements are folded: on a set of indices it takes
\* the last to what it is on the rest.
HasFold(n, R, base, F) ==
    \E h \in [SUBSET (1 .. n) -> R] :
       \A T \in SUBSET (1 .. n) : h[T] = IF T = {} THEN base ELSE F[Max(T)][h[T \ {Max(T)}]]

\* There is such a function, for any way to fold: by induction over n.
LEMMA FoldExists ==
    ASSUME NEW n \in Nat, NEW R, NEW base \in R, NEW F \in [1 .. n -> [R -> R]]
    PROVE  HasFold(n, R, base, F)
<1> DEFINE Folds(k, h) == \A T \in SUBSET (1 .. k) : h[T] = IF T = {} THEN base ELSE F[Max(T)][h[T \ {Max(T)}]]
           P == {k \in Nat : k <= n => \E h \in [SUBSET (1 .. k) -> R] : Folds(k, h)}
<1>1. 0 \in P
  <2> DEFINE h == [T \in SUBSET (1 .. 0) |-> base]
  <2>1. 1 .. 0 = {}
    OBVIOUS
  <2>2. h \in [SUBSET (1 .. 0) -> R] /\ Folds(0, h)
    BY <2>1
  <2>3. QED BY <2>2
<1>2. ASSUME NEW k \in Nat, k \in P PROVE k + 1 \in P
  <2> HIDE DEF Folds
  <2>0. k + 1 \in Nat /\ (k + 1 <= n => k <= n)
    OBVIOUS
  <2> SUFFICES ASSUME k + 1 <= n PROVE \E h \in [SUBSET (1 .. k + 1) -> R] : Folds(k + 1, h)
    BY <2>0, Zenon
  <2>1. PICK g \in [SUBSET (1 .. k) -> R] : Folds(k, g)
    BY <1>2, <2>0, Zenon
  <2> USE DEF Folds
  <2> DEFINE h == [T \in SUBSET (1 .. k + 1) |-> IF k + 1 \in T THEN F[k + 1][g[T \ {k + 1}]] ELSE g[T]]
  <2>2. ASSUME NEW T \in SUBSET (1 .. k + 1)
        PROVE  /\ k + 1 \in T => T \ {k + 1} \in SUBSET (1 .. k) /\ Max(T) = k + 1
               /\ k + 1 \notin T => T \in SUBSET (1 .. k)
               /\ k + 1 \in 1 .. n
    <3>1. \A x \in T : x \in 1 .. k + 1
      OBVIOUS
    <3>2. \A x \in T : x # k + 1 => x \in 1 .. k
      BY <3>1
    <3>3. k + 1 \in T => Max(T) = k + 1
      <4> SUFFICES ASSUME k + 1 \in T PROVE Max(T) = k + 1
        OBVIOUS
      <4>1. \A y \in T : k + 1 >= y
        BY <3>1
      <4>2. PICK x \in T : x = Max(T) /\ \A y \in T : x >= y
        BY <4>1, Zenon DEF Max
      <4>3. x >= k + 1 /\ x <= k + 1 /\ x \in Nat
        BY <3>1, <4>2
      <4>4. QED BY <4>2, <4>3
    <3>4. k + 1 \in 1 .. n
      OBVIOUS
    <3>5. QED BY <3>2, <3>3, <3>4
  <2>3. h \in [SUBSET (1 .. k + 1) -> R]
    BY <2>2
  <2>4. ASSUME NEW T \in SUBSET (1 .. k + 1) PROVE h[T] = IF T = {} THEN base ELSE F[Max(T)][h[T \ {Max(T)}]]
    <3>1. CASE k + 1 \in T
      <4>1. T # {} /\ Max(T) = k + 1 /\ T \ {k + 1} \in SUBSET (1 .. k) /\ k + 1 \notin T \ {k + 1}
        BY <2>2, <3>1
      <4>2. T \ {k + 1} \in SUBSET (1 .. k + 1)
        OBVIOUS
      <4>3. h[T \ {k + 1}] = g[T \ {k + 1}]
        BY <4>1, <4>2
      <4>4. h[T] = F[k + 1][g[T \ {k + 1}]]
        BY <3>1
      <4>5. QED BY <4>1, <4>3, <4>4
    <3>2. CASE k + 1 \notin T
      <4>1. T \in SUBSET (1 .. k) /\ h[T] = g[T]
        BY <2>2, <3>2
      <4>2. CASE T = {}
        BY <2>1, <4>1, <4>2
      <4>3. CASE T # {}
        <5>1. k + 1 \notin T \ {Max(T)} /\ T \ {Max(T)} \in SUBSET (1 .. k + 1)
          BY <3>2
        <5>2. h[T \ {Max(T)}] = g[T \ {Max(T)}]
          BY <5>1
        <5>3. g[T] = F[Max(T)][g[T \ {Max(T)}]]
          BY <2>1, <4>1, <4>3
        <5>4. QED BY <4>1, <4>3, <5>2, <5>3
      <4>4. QED BY <4>2, <4>3
    <3>3. QED BY <3>1, <3>2
  <2> HIDE DEF h
  <2>5. QED BY <2>3, <2>4
<1> HIDE DEF P
<1>3. Nat \subseteq P
  BY <1>1, <1>2, Induction
<1>4. n \in P /\ n <= n
  BY <1>3
<1> HIDE DEF Folds
<1>5. \E h \in [SUBSET (1 .. n) -> R] : Folds(n, h)
  BY <1>4, Zenon DEF P
<1>6. QED BY <1>5 DEF Folds, HasFold

\* The last of the first indices.
LEMMA FirstIndices ==
    ASSUME NEW k \in Nat
    PROVE  /\ 1 .. 0 = {}
           /\ 1 .. k + 1 # {} /\ Max(1 .. k + 1) = k + 1 /\ (1 .. k + 1) \ {Max(1 .. k + 1)} = 1 .. k
<1>1. k + 1 \in 1 .. k + 1 /\ \A y \in 1 .. k + 1 : k + 1 >= y
  OBVIOUS
<1>2. PICK x \in 1 .. k + 1 : x = Max(1 .. k + 1) /\ \A y \in 1 .. k + 1 : x >= y
  BY <1>1, Zenon DEF Max
<1>3. x = k + 1
  BY <1>1, <1>2
<1>4. (1 .. k + 1) \ {k + 1} = 1 .. k
  OBVIOUS
<1>5. QED BY <1>1, <1>2, <1>3, <1>4

AMove == [from : Nat, to : Nat]

\* MovesIn takes the moves one by one.
LEMMA MovesInSteps ==
    ASSUME NEW moves \in Seq(AMove), NEW K
    PROVE  \E g : /\ g[0] = <<>>
                  /\ \A k \in Nat : k < Len(moves) =>
                        g[k + 1] = IF moves[k + 1] \in K THEN Append(g[k], moves[k + 1]) ELSE g[k]
                  /\ MovesIn(moves, K) = g[Len(moves)]
<1> DEFINE n == Len(moves)
           IsFold(h) == h = [T \in SUBSET DOMAIN moves |->
                               IF T = {} THEN <<>>
                               ELSE IF moves[Max(T)] \in K THEN Append(h[T \ {Max(T)}], moves[Max(T)])
                               ELSE h[T \ {Max(T)}]]
           H == CHOOSE h : IsFold(h)
           g == [k \in Nat |-> H[1 .. k]]
<1>1. n \in Nat /\ DOMAIN moves = 1 .. n /\ \A k \in 1 .. n : moves[k] \in AMove
  OBVIOUS
<1>2. MovesIn(moves, K) = H[DOMAIN moves]
  BY Zenon DEF MovesIn, FoldLeft, MapThenFoldSet
<1>3. \E h : IsFold(h)
  <2> DEFINE F == [k \in 1 .. n |-> [r \in Seq(AMove) |-> IF moves[k] \in K THEN Append(r, moves[k]) ELSE r]]
  <2>1. <<>> \in Seq(AMove) /\ F \in [1 .. n -> [Seq(AMove) -> Seq(AMove)]]
    BY <1>1
  <2> DEFINE R == Seq(AMove)
             base == <<>>
  <2> HIDE DEF n, F
  <2>a. n \in Nat /\ base \in R /\ F \in [1 .. n -> [R -> R]]
    BY <1>1, <2>1
  <2> HIDE DEF R, base
  <2>b. HasFold(n, R, base, F)
    BY <2>a, FoldExists
  <2> USE DEF R, base
  <2>2. PICK h \in [SUBSET (1 .. n) -> Seq(AMove)] :
           \A T \in SUBSET (1 .. n) : h[T] = IF T = {} THEN <<>> ELSE F[Max(T)][h[T \ {Max(T)}]]
    BY <2>b DEF HasFold
  <2>3. ASSUME NEW T \in SUBSET (1 .. n), T # {}
        PROVE  F[Max(T)][h[T \ {Max(T)}]]
                  = IF moves[Max(T)] \in K THEN Append(h[T \ {Max(T)}], moves[Max(T)]) ELSE h[T \ {Max(T)}]
    <3>1. Max(T) \in 1 .. n
      <4>1. T \in IndexSet
        <5>1. IsFiniteSet(1 .. n)
          BY <1>1, FS_Interval
        <5>2. IsFiniteSet(T)
          BY <5>1, FS_Subset
        <5>3. QED BY <5>2 DEF IndexSet
      <4>2. QED BY <2>3, <4>1, GreatestOf
    <3>2. h[T \ {Max(T)}] \in Seq(AMove)
      <4>1. T \ {Max(T)} \in SUBSET (1 .. n)
        OBVIOUS
      <4>2. QED BY <4>1
    <3>3. QED BY <3>1, <3>2 DEF F
  <2>4. h = [T \in SUBSET (1 .. n) |-> h[T]]
    OBVIOUS
  <2>5. IsFold(h)
    BY <1>1, <2>2, <2>3, <2>4, Zenon
  <2>6. QED BY <2>5
<1>4. IsFold(H)
  BY <1>3, Zenon
<1> HIDE DEF H
<1>5. g[0] = <<>>
  <2>1. H[{}] = <<>>
    BY <1>4, Zenon
  <2>2. g[0] = H[1 .. 0] /\ 1 .. 0 = {}
    BY FirstIndices
  <2>3. QED BY <2>1, <2>2
<1>6. ASSUME NEW k \in Nat, k < n
      PROVE  g[k + 1] = IF moves[k + 1] \in K THEN Append(g[k], moves[k + 1]) ELSE g[k]
  <2>1. 1 .. k + 1 \in SUBSET DOMAIN moves /\ 1 .. k + 1 # {} /\ Max(1 .. k + 1) = k + 1 /\ (1 .. k + 1) \ {k + 1} = 1 .. k
    <3>1. 1 .. k + 1 \in SUBSET DOMAIN moves
      BY <1>1, <1>6
    <3>2. QED BY <3>1, FirstIndices, Zenon
  <2>2. H[1 .. k + 1] = IF moves[k + 1] \in K THEN Append(H[1 .. k], moves[k + 1]) ELSE H[1 .. k]
    BY <1>4, <2>1, ZenonT(60)
  <2>3. g[k] = H[1 .. k] /\ g[k + 1] = H[1 .. k + 1]
    OBVIOUS
  <2>4. QED BY <2>2, <2>3
<1>7. MovesIn(moves, K) = g[n]
  BY <1>1, <1>2
<1> HIDE DEF g
<1>8. QED BY <1>5, <1>6, <1>7

\* No index is in two of the moves: they have different sources and ends.
OneEach(moves) ==
    \A k, l \in DOMAIN moves : moves[k].from = moves[l].from \/ moves[k].to = moves[l].to => k = l

\* MovesIn keeps those that are in K, and no two of them become one.
LEMMA MovesInLaw ==
    ASSUME NEW moves \in Seq(AMove), NEW K
    PROVE  /\ MovesIn(moves, K) \in Seq(AMove)
           /\ ToSet(MovesIn(moves, K)) = ToSet(moves) \cap K
           /\ OneEach(moves) => OneEach(MovesIn(moves, K))
<1> DEFINE n == Len(moves)
<1>0. n \in Nat /\ DOMAIN moves = 1 .. n /\ \A k \in 1 .. n : moves[k] \in AMove
  OBVIOUS
<1>1. PICK g : /\ g[0] = <<>>
               /\ \A k \in Nat : k < n =>
                     g[k + 1] = IF moves[k + 1] \in K THEN Append(g[k], moves[k + 1]) ELSE g[k]
               /\ MovesIn(moves, K) = g[n]
  BY MovesInSteps
<1> HIDE DEF n
<1> DEFINE Kept(k) == /\ g[k] \in Seq(AMove)
                      /\ \A q \in DOMAIN g[k] : \E j \in 1 .. k : moves[j] \in K /\ g[k][q] = moves[j]
                      /\ \A j \in 1 .. k : moves[j] \in K => \E q \in DOMAIN g[k] : g[k][q] = moves[j]
                      /\ OneEach(moves) => OneEach(g[k])
           P == {k \in Nat : k <= n => Kept(k)}
<1>2. 0 \in P
  <2>1. g[0] = <<>> /\ <<>> \in Seq(AMove) /\ DOMAIN <<>> = {} /\ 1 .. 0 = {}
    BY <1>1
  <2> HIDE DEF Kept
  <2>2. Kept(0)
    BY <2>1 DEF Kept, OneEach
  <2>3. QED BY <2>2
<1>3. ASSUME NEW k \in Nat, k \in P PROVE k + 1 \in P
  <2>0. k + 1 \in Nat /\ (k + 1 <= n => k <= n /\ k < n /\ k + 1 \in 1 .. n)
    BY <1>0
  <2> HIDE DEF Kept
  <2> SUFFICES ASSUME k + 1 <= n PROVE Kept(k + 1)
    BY <2>0, Zenon
  <2>1. Kept(k)
    BY <1>3, <2>0, Zenon
  <2> USE DEF Kept
  <2>2. moves[k + 1] \in AMove /\ \A j \in 1 .. k + 1 : j \in 1 .. k \/ j = k + 1
    BY <1>0, <2>0
  <2>3. CASE moves[k + 1] \notin K
    <3>1. g[k + 1] = g[k]
      BY <1>1, <2>0, <2>3
    <3>2. \A j \in 1 .. k : j \in 1 .. k + 1
      OBVIOUS
    <3>3. QED BY <2>1, <2>2, <2>3, <3>1, <3>2
  <2>4. CASE moves[k + 1] \in K
    <3> DEFINE r == g[k]
    <3>1. r \in Seq(AMove) /\ g[k + 1] = Append(r, moves[k + 1])
      BY <1>1, <2>0, <2>1, <2>4
    <3>2. /\ Append(r, moves[k + 1]) \in Seq(AMove) /\ Len(r) \in Nat
          /\ DOMAIN Append(r, moves[k + 1]) = 1 .. Len(r) + 1 /\ DOMAIN r = 1 .. Len(r)
          /\ Append(r, moves[k + 1])[Len(r) + 1] = moves[k + 1]
          /\ \A q \in 1 .. Len(r) : Append(r, moves[k + 1])[q] = r[q]
      BY <2>2, <3>1
    <3>3. \A q \in DOMAIN r : \E j \in 1 .. k : moves[j] \in K /\ r[q] = moves[j]
      BY <2>1
    <3>4. \A j \in 1 .. k : moves[j] \in K => \E q \in DOMAIN r : r[q] = moves[j]
      BY <2>1
    <3>5. OneEach(moves) => OneEach(r)
      BY <2>1
    <3> HIDE DEF r
    <3> DEFINE u == Append(r, moves[k + 1])
    <3>6. u \in Seq(AMove)
      BY <3>2
    <3>7. ASSUME NEW q \in DOMAIN u PROVE \E j \in 1 .. k + 1 : moves[j] \in K /\ u[q] = moves[j]
      <4>1. CASE q = Len(r) + 1
        BY <2>4, <3>2, <4>1
      <4>2. CASE q # Len(r) + 1
        <5>1. q \in 1 .. Len(r)
          BY <3>2, <4>2
        <5>2. QED BY <3>2, <3>3, <5>1
      <4>3. QED BY <4>1, <4>2
    <3>8. ASSUME NEW j \in 1 .. k + 1, moves[j] \in K PROVE \E q \in DOMAIN u : u[q] = moves[j]
      <4>1. CASE j = k + 1
        <5>1. Len(r) + 1 \in DOMAIN u
          BY <3>2
        <5>2. QED BY <3>2, <4>1, <5>1
      <4>2. CASE j \in 1 .. k
        <5>1. PICK q \in DOMAIN r : r[q] = moves[j]
          BY <3>4, <3>8, <4>2
        <5>2. q \in DOMAIN u
          BY <3>2
        <5>3. QED BY <3>2, <5>1, <5>2
      <4>3. QED BY <2>2, <4>1, <4>2
    <3>9. ASSUME OneEach(moves) PROVE OneEach(u)
      <4>1. ASSUME NEW q \in 1 .. Len(r)
            PROVE  r[q].from # moves[k + 1].from /\ r[q].to # moves[k + 1].to
        <5>1. PICK j \in 1 .. k : r[q] = moves[j]
          BY <3>2, <3>3
        <5>2. j \in DOMAIN moves /\ k + 1 \in DOMAIN moves /\ j # k + 1
          BY <1>0, <2>0
        <5>3. QED BY <3>9, <5>1, <5>2 DEF OneEach
      <4>2. \A q \in DOMAIN u : q \in 1 .. Len(r) \/ q = Len(r) + 1
        BY <3>2
      <4>3. ASSUME NEW p \in DOMAIN u, NEW q \in DOMAIN u, u[p].from = u[q].from \/ u[p].to = u[q].to
            PROVE  p = q
        <5>1. CASE p \in 1 .. Len(r) /\ q \in 1 .. Len(r)
          BY <3>2, <3>5, <3>9, <4>3, <5>1 DEF OneEach
        <5>2. CASE p = Len(r) + 1 /\ q \in 1 .. Len(r)
          BY <3>2, <4>1, <4>3, <5>2
        <5>3. CASE p \in 1 .. Len(r) /\ q = Len(r) + 1
          BY <3>2, <4>1, <4>3, <5>3
        <5>4. QED BY <4>2, <5>1, <5>2, <5>3
      <4>4. QED BY <4>3 DEF OneEach
    <3> HIDE DEF u
    <3>10. g[k + 1] = u
      BY <3>1 DEF u
    <3>11. QED BY <3>6, <3>7, <3>8, <3>9, <3>10
  <2>5. QED BY <2>3, <2>4
<1> HIDE DEF P
<1>4. Nat \subseteq P
  BY <1>2, <1>3, Induction
<1>5. n \in P /\ n <= n
  BY <1>0, <1>4
<1>6. Kept(n)
  <2> HIDE DEF Kept
  <2>1. QED BY <1>5, Zenon DEF P
<1> DEFINE r == MovesIn(moves, K)
<1>7. /\ r \in Seq(AMove)
      /\ \A q \in DOMAIN r : \E j \in 1 .. n : moves[j] \in K /\ r[q] = moves[j]
      /\ \A j \in 1 .. n : moves[j] \in K => \E q \in DOMAIN r : r[q] = moves[j]
      /\ OneEach(moves) => OneEach(r)
  BY <1>1, <1>6
<1> HIDE DEF r
<1>8. ToSet(r) = ToSet(moves) \cap K
  <2>1. \A q \in DOMAIN r : \E j \in DOMAIN moves : moves[j] \in K /\ r[q] = moves[j]
    BY <1>0, <1>7, Zenon
  <2>2. \A j \in DOMAIN moves : moves[j] \in K => \E q \in DOMAIN r : r[q] = moves[j]
    BY <1>0, <1>7, Zenon
  <2>3. ASSUME NEW m PROVE m \in ToSet(r) <=> m \in ToSet(moves) \cap K
    <3>1. m \in ToSet(r) <=> \E q \in DOMAIN r : m = r[q]
      BY DEF ToSet
    <3>2. m \in ToSet(moves) <=> \E j \in DOMAIN moves : m = moves[j]
      BY DEF ToSet
    <3>3. QED BY <2>1, <2>2, <3>1, <3>2, Zenon
  <2>4. QED BY <2>3
<1>9. QED BY <1>7, <1>8 DEF r

\* A function on 1 .. n is a sequence.
LEMMA FunctionIsASeq == ASSUME NEW n \in Nat, NEW S, NEW f \in [1 .. n -> S] PROVE f \in Seq(S) /\ Len(f) = n
OBVIOUS

-----------------------------------------------------------------------------
(* Putting an entry into a collection, and taking one out of it            *)

\* t is s with e at i.
WithAt(s, i, e, t) ==
    /\ t \in Seq(Nat) /\ Len(t) = Len(s) + 1 /\ At(t, i) = e
    /\ \A j \in IndicesOf(s) : At(t, Shift({i}, j)) = At(s, j) /\ Shift({i}, j) \in IndicesOf(t)
    /\ \A k \in IndicesOf(t) \ {i} : Unshift({i}, k) \in IndicesOf(s) /\ At(t, k) = At(s, Unshift({i}, k))

\* What is before i, and what is from there on.
LEMMA PartLaw ==
    ASSUME NEW s \in Seq(Nat), NEW i \in Nat, i <= Len(s)
    PROVE  /\ SubSeq(s, 1, i) \in Seq(Nat) /\ Len(SubSeq(s, 1, i)) = i
           /\ \A j \in 1 .. i : SubSeq(s, 1, i)[j] = s[j]
           /\ SubSeq(s, i + 1, Len(s)) \in Seq(Nat) /\ Len(SubSeq(s, i + 1, Len(s))) = Len(s) - i
           /\ \A j \in 1 .. Len(s) - i : SubSeq(s, i + 1, Len(s))[j] = s[i + j]
<1>0. Len(s) \in Nat
  OBVIOUS
<1>1. SubSeq(s, 1, i) \in Seq(Nat) /\ Len(SubSeq(s, 1, i)) = i
  BY <1>0
<1>2. \A j \in 1 .. i : SubSeq(s, 1, i)[j] = s[j]
  BY <1>0
<1>3. SubSeq(s, i + 1, Len(s)) \in Seq(Nat)
  BY <1>0
<1>4. Len(SubSeq(s, i + 1, Len(s))) = Len(s) - i
  BY <1>0
<1>5. \A j \in 1 .. Len(s) - i : SubSeq(s, i + 1, Len(s))[j] = s[i + j]
  BY <1>0
<1>6. QED BY <1>1, <1>2, <1>3, <1>4, <1>5

\* One more entry after what there is.
LEMMA OneMoreLaw ==
    ASSUME NEW a \in Seq(Nat), NEW e \in Nat, NEW u, u = a \o <<e>>
    PROVE  /\ u \in Seq(Nat) /\ Len(u) = Len(a) + 1 /\ u[Len(a) + 1] = e
           /\ \A j \in 1 .. Len(a) : u[j] = a[j]
<1> DEFINE o == <<e>>
           n == Len(a)
<1>1. o \in Seq(Nat) /\ Len(o) = 1 /\ o[1] = e /\ n \in Nat
  OBVIOUS
<1> HIDE DEF o, n
<1>2. u = a \o o
  BY DEF o
<1>3. /\ u \in Seq(Nat) /\ Len(u) = n + 1
      /\ \A j \in 1 .. n + 1 : u[j] = IF j <= n THEN a[j] ELSE o[j - n]
  BY <1>1, <1>2, ConcatProperties DEF n
<1>4. u[n + 1] = e
  <2>1. n + 1 \in 1 .. n + 1 /\ ~(n + 1 <= n) /\ (n + 1) - n = 1
    BY <1>1
  <2>2. u[n + 1] = o[(n + 1) - n]
    BY <1>3, <2>1
  <2>3. QED BY <1>1, <2>1, <2>2
<1>5. \A j \in 1 .. n : u[j] = a[j]
  <2>1. \A j \in 1 .. n : j \in 1 .. n + 1 /\ j <= n
    BY <1>1
  <2>2. QED BY <1>3, <2>1
<1>6. QED BY <1>3, <1>4, <1>5 DEF n

\* InsertAt: the entry is there, the others are moved on by it.
LEMMA InsertAtLaw ==
    ASSUME NEW s \in Seq(Nat), NEW i \in 0 .. Len(s), NEW e \in Nat
    PROVE  WithAt(s, i, e, InsertAt(s, i + 1, e))
<1> DEFINE t == InsertAt(s, i + 1, e)
           a == SubSeq(s, 1, i)
           b == SubSeq(s, i + 1, Len(s))
<1>0. Len(s) \in Nat /\ i \in Nat /\ i <= Len(s)
  OBVIOUS
<1>1. a \in Seq(Nat) /\ Len(a) = i /\ \A j \in 1 .. i : a[j] = s[j]
  BY <1>0, PartLaw
<1>2. b \in Seq(Nat) /\ Len(b) = Len(s) - i /\ \A j \in 1 .. Len(s) - i : b[j] = s[i + j]
  BY <1>0, PartLaw
<1>3. t = a \o <<e>> \o b
  <2>1. (i + 1) - 1 = i
    OBVIOUS
  <2>2. QED BY <2>1, Zenon DEF InsertAt
<1> HIDE DEF t, a, b
<1> DEFINE u == a \o <<e>>
<1>a. u \in Seq(Nat) /\ Len(u) = i + 1 /\ u[i + 1] = e /\ \A j \in 1 .. i : u[j] = s[j]
  <2>1. /\ u \in Seq(Nat) /\ Len(u) = Len(a) + 1 /\ u[Len(a) + 1] = e
        /\ \A j \in 1 .. Len(a) : u[j] = a[j]
    BY <1>1, OneMoreLaw
  <2>2. QED BY <1>1, <2>1
<1> HIDE DEF u
<1>4. t \in Seq(Nat) /\ Len(t) = Len(s) + 1
  <2>1. t = u \o b
    BY <1>1, <1>2, <1>3 DEF u
  <2>2. QED BY <1>0, <1>2, <1>a, <2>1, ConcatProperties
<1>5. ASSUME NEW k \in Nat, k < Len(s) + 1
      PROVE  At(t, k) = IF k < i THEN At(s, k) ELSE IF k = i THEN e ELSE At(s, k - 1)
  <2>1. t = u \o b
    BY <1>1, <1>2, <1>3 DEF u
  <2>2. k + 1 \in 1 .. Len(u) + Len(b)
    BY <1>0, <1>2, <1>a, <1>5
  <2>b. \A q \in 1 .. Len(u) + Len(b) : t[q] = IF q <= Len(u) THEN u[q] ELSE b[q - Len(u)]
    BY <1>2, <1>a, <2>1, ConcatProperties
  <2>3. t[k + 1] = IF k + 1 <= Len(u) THEN u[k + 1] ELSE b[k + 1 - Len(u)]
    BY <2>2, <2>b
  <2>4. CASE k < i
    <3>1. k + 1 \in 1 .. i
      BY <1>0, <1>5, <2>4
    <3>2. QED BY <1>a, <2>3, <2>4, <3>1 DEF At
  <2>5. CASE k = i
    BY <1>a, <2>3, <2>5 DEF At
  <2>6. CASE k > i
    <3>1. k - i \in 1 .. Len(s) - i /\ k + 1 - (i + 1) = k - i /\ i + (k - i) = (k - 1) + 1
      BY <1>0, <1>5, <2>6
    <3>2. b[k - i] = s[i + (k - i)]
      BY <1>2, <3>1
    <3>3. ~(k + 1 <= i + 1) /\ ~(k < i) /\ k # i
      BY <1>0, <1>5, <2>6
    <3>4. QED BY <1>a, <2>3, <3>1, <3>2, <3>3 DEF At
  <2>7. QED BY <1>0, <1>5, <2>4, <2>5, <2>6
<1>6. At(t, i) = e
  BY <1>0, <1>5
<1>7. ASSUME NEW j \in IndicesOf(s) PROVE At(t, Shift({i}, j)) = At(s, j) /\ Shift({i}, j) \in IndicesOf(t)
  <2>1. j \in Nat /\ j < Len(s)
    BY <1>0 DEF IndicesOf
  <2>2. Shift({i}, j) = IF j < i THEN j ELSE j + 1
    BY <1>0, <2>1, SingletonLaw
  <2>3. CASE j < i
    BY <1>0, <1>4, <1>5, <2>1, <2>2, <2>3 DEF IndicesOf
  <2>4. CASE j >= i
    <3>1. j + 1 \in Nat /\ (j + 1) - 1 = j /\ ~(j + 1 < i) /\ j + 1 # i /\ ~(j < i)
      BY <1>0, <2>1, <2>4
    <3>2. j + 1 \in IndicesOf(t)
      BY <1>0, <1>4, <2>1, <3>1 DEF IndicesOf
    <3>3. At(t, j + 1) = At(s, j)
      BY <1>4, <1>5, <2>1, <3>1
    <3>4. QED BY <2>2, <3>1, <3>2, <3>3
  <2>5. QED BY <1>0, <2>1, <2>3, <2>4
<1>8. ASSUME NEW k \in IndicesOf(t) \ {i}
      PROVE  Unshift({i}, k) \in IndicesOf(s) /\ At(t, k) = At(s, Unshift({i}, k))
  <2>1. k \in Nat /\ k < Len(s) + 1
    BY <1>0, <1>4 DEF IndicesOf
  <2>2. Unshift({i}, k) = IF k <= i THEN k ELSE k - 1
    BY <1>0, <2>1, SingletonLaw
  <2>3. CASE k < i
    BY <1>0, <1>4, <1>5, <2>1, <2>2, <2>3 DEF IndicesOf
  <2>4. CASE k > i
    <3>1. k - 1 \in Nat /\ (k - 1) + 1 = k /\ ~(k < i) /\ k # i /\ ~(k <= i) /\ ~(k - 1 < i)
      BY <1>0, <2>1, <2>4
    <3>2. k - 1 \in IndicesOf(s)
      BY <1>0, <1>4, <2>1, <3>1 DEF IndicesOf
    <3>3. At(t, k) = At(s, k - 1)
      BY <1>0, <1>4, <1>5, <2>1, <3>1
    <3>4. QED BY <2>2, <3>1, <3>2, <3>3
  <2>5. QED BY <1>0, <2>1, <2>3, <2>4
<1>9. WithAt(s, i, e, t)
  BY <1>4, <1>6, <1>7, <1>8 DEF WithAt
<1>10. QED BY <1>9 DEF t

\* t is s without what is at i.
WithoutAt(s, i, t) ==
    /\ t \in Seq(Nat) /\ Len(t) = Len(s) - 1
    /\ \A j \in IndicesOf(t) : At(t, j) = At(s, Shift({i}, j)) /\ Shift({i}, j) \in IndicesOf(s)
    /\ \A k \in IndicesOf(s) \ {i} : Unshift({i}, k) \in IndicesOf(t) /\ At(t, Unshift({i}, k)) = At(s, k)

\* RemoveAt: the others are moved back by the one that is gone.
LEMMA RemoveAtLaw ==
    ASSUME NEW s \in Seq(Nat), NEW i \in IndicesOf(s)
    PROVE  WithoutAt(s, i, RemoveAt(s, i + 1))
<1> DEFINE t == RemoveAt(s, i + 1)
           a == SubSeq(s, 1, i)
           b == SubSeq(s, i + 2, Len(s))
<1>0. Len(s) \in Nat /\ i \in Nat /\ i < Len(s)
  BY DEF IndicesOf
<1>1. a \in Seq(Nat) /\ Len(a) = i /\ \A j \in 1 .. i : a[j] = s[j]
  BY <1>0, PartLaw
<1>2. b \in Seq(Nat) /\ Len(b) = Len(s) - (i + 1) /\ \A j \in 1 .. Len(s) - (i + 1) : b[j] = s[i + 1 + j]
  <2> DEFINE k == i + 1
  <2>1. k \in Nat /\ k <= Len(s) /\ i + 2 = k + 1
    BY <1>0
  <2> HIDE DEF k
  <2>2. /\ SubSeq(s, k + 1, Len(s)) \in Seq(Nat) /\ Len(SubSeq(s, k + 1, Len(s))) = Len(s) - k
        /\ \A j \in 1 .. Len(s) - k : SubSeq(s, k + 1, Len(s))[j] = s[k + j]
    BY <2>1, PartLaw
  <2>3. b = SubSeq(s, k + 1, Len(s))
    BY <2>1
  <2> HIDE DEF b
  <2>4. b \in Seq(Nat) /\ Len(b) = Len(s) - k /\ \A j \in 1 .. Len(s) - k : b[j] = s[k + j]
    BY <2>2, <2>3, Zenon
  <2>5. QED BY <2>4, Zenon DEF k
<1>3. t = a \o b
  <2>1. (i + 1) - 1 = i /\ (i + 1) + 1 = i + 2
    BY <1>0
  <2>2. QED BY <2>1, Zenon DEF RemoveAt
<1> HIDE DEF t, a, b
<1>4. t \in Seq(Nat) /\ Len(t) = Len(s) - 1
  BY <1>0, <1>1, <1>2, <1>3, ConcatProperties
<1>5. ASSUME NEW k \in Nat, k < Len(s) - 1 PROVE At(t, k) = IF k < i THEN At(s, k) ELSE At(s, k + 1)
  <2>1. k + 1 \in 1 .. Len(a) + Len(b)
    BY <1>0, <1>1, <1>2, <1>5
  <2>b. \A q \in 1 .. Len(a) + Len(b) : t[q] = IF q <= Len(a) THEN a[q] ELSE b[q - Len(a)]
    BY <1>1, <1>2, <1>3, ConcatProperties, ZenonT(60)
  <2>2. t[k + 1] = IF k + 1 <= Len(a) THEN a[k + 1] ELSE b[k + 1 - Len(a)]
    BY <2>1, <2>b
  <2>3. CASE k < i
    <3>1. k + 1 \in 1 .. i
      BY <1>0, <1>5, <2>3
    <3>2. QED BY <1>1, <2>2, <2>3, <3>1 DEF At
  <2>4. CASE k >= i
    <3>1. k + 1 - i \in 1 .. Len(s) - (i + 1) /\ i + 1 + (k + 1 - i) = (k + 1) + 1
      BY <1>0, <1>5, <2>4
    <3>2. b[k + 1 - i] = s[i + 1 + (k + 1 - i)]
      BY <1>2, <3>1
    <3>3. ~(k + 1 <= i) /\ ~(k < i)
      BY <1>0, <1>5, <2>4
    <3>4. QED BY <1>1, <2>2, <3>1, <3>2, <3>3 DEF At
  <2>5. QED BY <1>0, <1>5, <2>3, <2>4
<1>6. ASSUME NEW j \in IndicesOf(t) PROVE At(t, j) = At(s, Shift({i}, j)) /\ Shift({i}, j) \in IndicesOf(s)
  <2>1. j \in Nat /\ j < Len(s) - 1
    BY <1>0, <1>4 DEF IndicesOf
  <2>2. Shift({i}, j) = IF j < i THEN j ELSE j + 1
    BY <1>0, <2>1, SingletonLaw
  <2>3. CASE j < i
    BY <1>0, <1>4, <1>5, <2>1, <2>2, <2>3 DEF IndicesOf
  <2>4. CASE j >= i
    <3>1. j + 1 \in Nat /\ (j + 1) - 1 = j /\ ~(j + 1 < i) /\ j + 1 # i /\ ~(j < i)
      BY <1>0, <2>1, <2>4
    <3>2. j + 1 \in IndicesOf(s)
      BY <1>0, <1>4, <2>1, <3>1 DEF IndicesOf
    <3>3. At(t, j) = At(s, j + 1)
      BY <1>4, <1>5, <2>1, <3>1
    <3>4. QED BY <2>2, <3>1, <3>2, <3>3
  <2>5. QED BY <1>0, <2>1, <2>3, <2>4
<1>7. ASSUME NEW k \in IndicesOf(s) \ {i}
      PROVE  Unshift({i}, k) \in IndicesOf(t) /\ At(t, Unshift({i}, k)) = At(s, k)
  <2>1. k \in Nat /\ k < Len(s) /\ k # i
    BY <1>0 DEF IndicesOf
  <2>2. Unshift({i}, k) = IF k <= i THEN k ELSE k - 1
    BY <1>0, <2>1, SingletonLaw
  <2>3. CASE k < i
    <3>1. k < Len(s) - 1 /\ k <= i /\ Len(t) \in Nat
      BY <1>0, <1>4, <2>1, <2>3
    <3>2. k \in IndicesOf(t)
      BY <1>0, <1>4, <2>1, <3>1 DEF IndicesOf
    <3>3. At(t, k) = At(s, k)
      BY <1>5, <2>1, <2>3, <3>1
    <3>4. QED BY <2>2, <3>1, <3>2, <3>3
  <2>4. CASE k > i
    <3>1. k - 1 \in Nat /\ (k - 1) + 1 = k /\ ~(k < i) /\ k # i /\ ~(k <= i) /\ ~(k - 1 < i)
      BY <1>0, <2>1, <2>4
    <3>2. k - 1 \in IndicesOf(t)
      BY <1>0, <1>4, <2>1, <3>1 DEF IndicesOf
    <3>3. At(t, k - 1) = At(s, k)
      BY <1>0, <1>4, <1>5, <2>1, <3>1
    <3>4. QED BY <2>2, <3>1, <3>2, <3>3
  <2>5. QED BY <1>0, <2>1, <2>3, <2>4
<1>8. WithoutAt(s, i, t)
  BY <1>4, <1>6, <1>7 DEF WithoutAt
<1>9. QED BY <1>8 DEF t

\* What the change sets of one insertion, one deletion and one move are.
LEMMA InsertIsLined ==
    ASSUME NEW s \in Seq(Nat), NEW i \in 0 .. Len(s), NEW e \in Nat
    PROVE  Lined({}, {i}, s, InsertAt(s, i + 1, e))
<1> DEFINE t == InsertAt(s, i + 1, e)
<1>0. Len(s) \in Nat /\ i \in Nat /\ i <= Len(s)
  OBVIOUS
<1>1. /\ t \in Seq(Nat) /\ Len(t) = Len(s) + 1
      /\ \A k \in IndicesOf(t) \ {i} : Unshift({i}, k) \in IndicesOf(s) /\ At(t, k) = At(s, Unshift({i}, k))
  <2>1. WithAt(s, i, e, t)
    BY InsertAtLaw
  <2> HIDE DEF t
  <2>2. QED BY <2>1 DEF WithAt
<1> HIDE DEF t
<1>2. Unshift({}, Len(s)) = Len(s) /\ \A j \in IndicesOf(s) : Unshift({}, j) = j
  BY <1>0, NothingShifts DEF IndicesOf
<1>3. Unshift({i}, Len(t)) = Len(s)
  <2>1. Len(s) + 1 \in Nat
    BY <1>0
  <2>b. \A j \in Nat : Unshift({i}, j) = IF j <= i THEN j ELSE j - 1
    BY <1>0, SingletonLaw
  <2>2. Len(t) \in Nat /\ Len(t) > i
    BY <1>0, <1>1
  <2>3. Unshift({i}, Len(t)) = IF Len(t) <= i THEN Len(t) ELSE Len(t) - 1
    BY <2>2, <2>b, Zenon
  <2>4. QED BY <1>0, <1>1, <2>2, <2>3
<1>4. Lined({}, {i}, s, t)
  BY <1>1, <1>2, <1>3 DEF Lined
<1>5. QED BY <1>4 DEF t

\* Without the row that was erased the rows are as they were.
LEMMA EraseIsLined ==
    ASSUME NEW s \in Seq(Nat), NEW i \in IndicesOf(s)
    PROVE  Lined({i}, {}, s, RemoveAt(s, i + 1))
<1> DEFINE t == RemoveAt(s, i + 1)
<1>0. Len(s) \in Nat /\ i \in Nat /\ i < Len(s)
  BY DEF IndicesOf
<1>1. /\ t \in Seq(Nat) /\ Len(t) = Len(s) - 1
      /\ \A k \in IndicesOf(s) \ {i} : Unshift({i}, k) \in IndicesOf(t) /\ At(t, Unshift({i}, k)) = At(s, k)
  <2>1. WithoutAt(s, i, t)
    BY RemoveAtLaw
  <2> HIDE DEF t
  <2>2. QED BY <2>1 DEF WithoutAt
<1> HIDE DEF t
<1>2. Unshift({}, Len(t)) = Len(t) /\ \A j \in IndicesOf(t) : Unshift({}, j) = j
  BY <1>0, <1>1, NothingShifts DEF IndicesOf
<1>3. Unshift({i}, Len(s)) = Len(t)
  <2>1. \A j \in Nat : Unshift({i}, j) = IF j <= i THEN j ELSE j - 1
    BY <1>0, SingletonLaw
  <2>2. Unshift({i}, Len(s)) = IF Len(s) <= i THEN Len(s) ELSE Len(s) - 1
    BY <1>0, <2>1, Zenon
  <2>3. QED BY <1>0, <1>1, <2>2
<1>4. Lined({i}, {}, s, t)
  BY <1>1, <1>2, <1>3 DEF Lined
<1>5. QED BY <1>4 DEF t

MovedTo(s, from, to) == InsertAt(RemoveAt(s, from + 1), to + 1, At(s, from))

\* Without the row that was moved the rows are as they were, and it is the one
\* at its new place.
LEMMA MoveIsLined ==
    ASSUME NEW s \in Seq(Nat), NEW from \in IndicesOf(s), NEW to \in IndicesOf(s)
    PROVE  /\ Lined({from}, {to}, s, MovedTo(s, from, to))
           /\ MovedTo(s, from, to) \in Seq(Nat) /\ Len(MovedTo(s, from, to)) = Len(s)
           /\ At(MovedTo(s, from, to), to) = At(s, from)
<1> DEFINE m == RemoveAt(s, from + 1)
           t == InsertAt(m, to + 1, At(s, from))
<1>0. Len(s) \in Nat /\ from \in Nat /\ from < Len(s) /\ to \in Nat /\ to < Len(s)
  BY DEF IndicesOf
<1>1. {from} \in IndexSet /\ {to} \in IndexSet /\ {} \in IndexSet
  BY <1>0, SingletonLaw, NothingShifts
<1>2. m \in Seq(Nat) /\ Len(m) = Len(s) - 1 /\ Lined({from}, {}, s, m)
  BY RemoveAtLaw, EraseIsLined DEF WithoutAt
<1>3. At(s, from) \in Nat
  BY <1>0 DEF At
<1> HIDE DEF m
<1>4. to \in 0 .. Len(m)
  BY <1>0, <1>2
<1>5. t \in Seq(Nat) /\ Len(t) = Len(m) + 1 /\ At(t, to) = At(s, from) /\ Lined({}, {to}, m, t)
  <2>1. t = InsertAt(m, to + 1, At(s, from))
    OBVIOUS
  <2> HIDE DEF t
  <2>2. t \in Seq(Nat) /\ Len(t) = Len(m) + 1 /\ At(t, to) = At(s, from)
    BY <1>2, <1>3, <1>4, <2>1, InsertAtLaw DEF WithAt
  <2>3. QED BY <1>2, <1>3, <1>4, <2>1, <2>2, InsertIsLined
<1> HIDE DEF t
<1>6. Lined(InsertedAll(ErasedAll({}, {}), {from}), InsertedAll(ErasedAll({}, {}), {to}), s, t)
  BY <1>1, <1>2, <1>5, Compose
<1>7. Lined({from}, {to}, s, t)
  BY <1>1, <1>6, NothingChanges
<1>8. MovedTo(s, from, to) = t
  BY DEF MovedTo, t, m
<1>9. QED BY <1>0, <1>2, <1>5, <1>7, <1>8

-----------------------------------------------------------------------------
(* What a change set tells, and what its readers make of it                *)

ChangeSet == [deletions : IndexSet, insertions : IndexSet, modifications : IndexSet,
              moves : Seq(AMove), mapping : SUBSET AMove]

\* The moves are of different rows, each told as deleted and as inserted.
MovesAreTold(b, s, t) ==
    /\ OneEach(b.moves)
    /\ \A k \in DOMAIN b.moves :
          /\ b.moves[k].from \in b.deletions \cap IndicesOf(s) /\ b.moves[k].to \in b.insertions
          /\ At(s, b.moves[k].from) = At(t, b.moves[k].to)

\* Rows that have stayed or were moved are marked if they are in T.
ModificationsAreTold(b, t, T) ==
    \A i \in IndicesOf(t) :
        i \notin b.insertions \/ (\E k \in DOMAIN b.moves : b.moves[k].to = i) =>
            (i \in b.modifications <=> At(t, i) \in T)

\* b is what makes t of s, when the rows of T were modified.
Tells(b, s, t, T) ==
    /\ b \in ChangeSet
    /\ b.insertions \subseteq IndicesOf(t) /\ b.modifications \subseteq IndicesOf(t)
    /\ Lined(b.deletions, b.insertions, s, t)
    /\ MovesAreTold(b, s, t)
    /\ ModificationsAreTold(b, t, T)

\* The indices that are marked in the old collection are, one for one, those
\* that are in the new one.
LEMMA FinalizedLaw ==
    ASSUME NEW s \in Seq(Nat), NEW t \in Seq(Nat), NEW T, NEW b, Tells(b, s, t, T)
    PROVE  Marks(b, s, t, T)
<1> DEFINE D == b.deletions
           I == b.insertions
           M == b.modifications \ I
           g == [i \in M |-> Shift(D, Unshift(I, i))]
           O == {g[i] : i \in M}
           stayed == ToSet(Without(t, I))
<1>0. /\ D \in IndexSet /\ I \in IndexSet /\ b.modifications \subseteq IndicesOf(t) /\ Lined(D, I, s, t)
      /\ D \in SUBSET Nat /\ I \in SUBSET Nat /\ b.modifications \in IndexSet
  BY DEF Tells, ChangeSet, IndexSet
<1>1. ModifiedInNew(b) = M
  BY DEF ModifiedInNew
<1>2. ModifiedInOld(b) = O
  <2>1. ErasedAll(b.modifications, I) = {Unshift(I, i) : i \in M}
    BY DEF ErasedAll
  <2>2. ModifiedInOld(b) = {Shift(D, x) : x \in {Unshift(I, i) : i \in M}}
    BY <2>1 DEF ModifiedInOld, ShiftForAll
  <2>3. QED BY <2>2
<1>3. stayed = {At(t, i) : i \in IndicesOf(t) \ I}
  BY <1>0, WithoutLaw
<1>4. ASSUME NEW i \in M PROVE At(s, g[i]) = At(t, i) /\ g[i] \in Nat \ D /\ Unshift(D, g[i]) = Unshift(I, i)
  <2>1. i \in IndicesOf(t) \ I /\ Lined(I, D, t, s)
    BY <1>0, LinedIsSymmetric
  <2>2. g[i] = Shift(D, Unshift(I, i))
    OBVIOUS
  <2> DEFINE x == Shift(D, Unshift(I, i))
  <2>3. x \in IndicesOf(s) \ D /\ Unshift(D, x) = Unshift(I, i) /\ At(t, i) = At(s, x)
    BY <1>0, <2>1, Partner
  <2>4. IndicesOf(s) \subseteq Nat
    BY DEF IndicesOf
  <2>5. QED BY <2>2, <2>3, <2>4
<1>5. \A i \in IndicesOf(t) \ I : i \in M <=> At(t, i) \in T
  BY <1>0 DEF Tells, ModificationsAreTold
<1>6. M \subseteq IndicesOf(t) \ I /\ M \subseteq Nat \ I
  BY <1>0 DEF IndicesOf
<1> HIDE DEF stayed, g
<1>7. {At(t, i) : i \in M} = T \cap stayed
  BY <1>3, <1>5, <1>6
<1>8. {At(s, j) : j \in O} = T \cap stayed
  <2>1. {At(s, j) : j \in O} = {At(t, i) : i \in M}
    BY <1>4
  <2>2. QED BY <1>7, <2>1
<1>9. Cardinality(O) = Cardinality(M)
  <2>1. IsFiniteSet(M)
    BY <1>0, FS_Difference DEF IndexSet
  <2>2. g \in [M -> O]
    BY DEF g
  <2>3. \A i, j \in M : g[i] = g[j] => i = j
    BY <1>0, <1>4, <1>6, UnshiftIsInjective, SMTT(30)
  <2>4. \A o \in O : \E i \in M : g[i] = o
    OBVIOUS
  <2> HIDE DEF M, O
  <2>5. g \in Bijection(M, O)
    BY <2>2, <2>3, <2>4 DEF Bijection, Injection, Surjection, IsInjective
  <2>6. ExistsBijection(M, O)
    BY <2>5 DEF ExistsBijection
  <2>7. QED BY <2>1, <2>6, FS_Bijection
<1>10. QED BY <1>1, <1>2, <1>7, <1>8, <1>9 DEF Marks, stayed

\* What is told is what the three properties ask for.
LEMMA ToldIsRight ==
    ASSUME NEW s \in Seq(Nat), NEW t \in Seq(Nat), NEW T, NEW b, Tells(b, s, t, T)
    PROVE  /\ (kind = "list" => b.deletions \subseteq IndicesOf(s)) => Describes(b, s, t)
           /\ Marks(b, s, t, T)
           /\ MovesHold(b, s, t)
<1>1. b.deletions \in IndexSet /\ b.insertions \in IndexSet
  BY DEF Tells, ChangeSet
<1>2. Without(s, b.deletions) = Without(t, b.insertions)
  BY <1>1, LinedLeavesTheSame DEF Tells
<1>3. MovesHold(b, s, t)
  <2>1. ASSUME NEW m \in ToSet(b.moves)
        PROVE  m.from \in b.deletions /\ m.to \in b.insertions /\ At(s, m.from) = At(t, m.to)
    <3>1. PICK k \in DOMAIN b.moves : m = b.moves[k]
      BY DEF ToSet
    <3>2. QED BY <3>1 DEF Tells, MovesAreTold
  <2>2. QED BY <2>1 DEF MovesHold
<1>4. QED BY <1>2, <1>3, FinalizedLaw DEF Describes, Tells

-----------------------------------------------------------------------------
(* Moves that end where they began                                         *)

\* Leaving one out of the indices that are taken away.
LEMMA UnshiftOneLess ==
    ASSUME NEW D \in SUBSET Nat, NEW f \in D, NEW i \in Nat
    PROVE  Unshift(D \ {f}, i) = IF i <= f THEN Unshift(D, i) ELSE Unshift(D, i) + 1
<1> DEFINE E == D \ {f}
           P == {n \in Nat : Unshift(E, n) = IF n <= f THEN Unshift(D, n) ELSE Unshift(D, n) + 1}
<1>0. E \in SUBSET Nat /\ f \in Nat /\ \A n \in Nat : n \in E <=> n \in D /\ n # f
  OBVIOUS
<1> HIDE DEF E
<1>1. 0 \in P
  BY <1>0, UnshiftStep
<1>2. ASSUME NEW n \in Nat, n \in P PROVE n + 1 \in P
  <2>1. Unshift(D, n + 1) = IF n \in D THEN Unshift(D, n) ELSE Unshift(D, n) + 1
    BY UnshiftStep
  <2>2. Unshift(E, n + 1) = IF n \in E THEN Unshift(E, n) ELSE Unshift(E, n) + 1
    BY <1>0, UnshiftStep
  <2>3. Unshift(D, n) \in Nat /\ Unshift(E, n) \in Nat
    BY <1>0, UnshiftType
  <2>4. CASE n < f
    BY <1>0, <1>2, <2>1, <2>2, <2>3, <2>4
  <2>5. CASE n = f
    BY <1>0, <1>2, <2>1, <2>2, <2>3, <2>5
  <2>6. CASE n > f
    BY <1>0, <1>2, <2>1, <2>2, <2>3, <2>6
  <2>7. QED BY <1>0, <2>4, <2>5, <2>6
<1> HIDE DEF P
<1>3. Nat \subseteq P
  BY <1>1, <1>2, Induction
<1>4. QED BY <1>3 DEF P, E

\* The arithmetic of a row that is deleted and put in again with as many rows
\* before it: f is where it was, e where it is.
LEMMA StaleOrder ==
    ASSUME NEW i \in Nat, NEW f \in Nat, NEW j \in Nat, NEW e \in Nat,
           NEW di \in Nat, NEW df \in Nat, NEW ij \in Nat, NEW ie \in Nat,
           i < f => di < df, i > f => df <= di, i = f => di = df,
           j < e => ij < ie, j > e => ie <= ij, j = e => ij = ie,
           df = ie,
           (IF i <= f THEN di ELSE di + 1) = (IF j <= e THEN ij ELSE ij + 1)
    PROVE  (i = f /\ j = e) \/ (i # f /\ j # e /\ di = ij)
OBVIOUS

\* A row that is deleted and put in again, with as many of the rows that stay
\* before it, has stayed.
LEMMA StaleLined ==
    ASSUME NEW D \in IndexSet, NEW I \in IndexSet, NEW s \in Seq(Nat), NEW t \in Seq(Nat), Lined(D, I, s, t),
           NEW f \in D \cap IndicesOf(s), NEW e \in I \cap IndicesOf(t),
           At(s, f) = At(t, e), Unshift(D, f) = Unshift(I, e)
    PROVE  D \ {f} \in IndexSet /\ I \ {e} \in IndexSet /\ Lined(D \ {f}, I \ {e}, s, t)
<1> DEFINE Df == D \ {f}
           Ie == I \ {e}
<1>0. /\ D \in SUBSET Nat /\ I \in SUBSET Nat /\ Df \in IndexSet /\ Ie \in IndexSet
      /\ Len(s) \in Nat /\ Len(t) \in Nat
  BY FS_RemoveElement DEF IndexSet
<1>a. /\ f \in Nat /\ f < Len(s) /\ e \in Nat /\ e < Len(t) /\ IndicesOf(s) \subseteq Nat /\ IndicesOf(t) \subseteq Nat
  BY <1>0 DEF IndicesOf
<1>1. \A i \in Nat : Unshift(Df, i) = IF i <= f THEN Unshift(D, i) ELSE Unshift(D, i) + 1
  BY <1>0, UnshiftOneLess
<1>2. \A i \in Nat : Unshift(Ie, i) = IF i <= e THEN Unshift(I, i) ELSE Unshift(I, i) + 1
  BY <1>0, UnshiftOneLess
<1>b. \A i \in Nat : Unshift(D, i) \in Nat /\ Unshift(I, i) \in Nat
  BY <1>0, UnshiftType
<1> HIDE DEF Df, Ie
<1>3. Unshift(Df, Len(s)) = Unshift(Ie, Len(t))
  <2>1. ~(Len(s) <= f) /\ ~(Len(t) <= e)
    BY <1>0, <1>a
  <2>2. Unshift(Df, Len(s)) = Unshift(D, Len(s)) + 1 /\ Unshift(Ie, Len(t)) = Unshift(I, Len(t)) + 1
    BY <1>0, <1>1, <1>2, <2>1
  <2>3. QED BY <2>2 DEF Lined
<1>4. ASSUME NEW i \in IndicesOf(s) \ Df, NEW j \in IndicesOf(t) \ Ie, Unshift(Df, i) = Unshift(Ie, j)
      PROVE  At(s, i) = At(t, j)
  <2>0. i \in Nat /\ j \in Nat /\ (i # f => i \notin D) /\ (j # e => j \notin I)
    BY <1>a DEF Df, Ie
  <2>1. /\ i # f /\ i < f => Unshift(D, i) < Unshift(D, f)
        /\ i > f => Unshift(D, f) <= Unshift(D, i)
        /\ j # e /\ j < e => Unshift(I, j) < Unshift(I, e)
        /\ j > e => Unshift(I, e) <= Unshift(I, j)
    BY <1>0, <1>a, <2>0, UnshiftIsMonotonic, SMTT(30)
  <2>2. /\ Unshift(Df, i) = IF i <= f THEN Unshift(D, i) ELSE Unshift(D, i) + 1
        /\ Unshift(Ie, j) = IF j <= e THEN Unshift(I, j) ELSE Unshift(I, j) + 1
    BY <1>1, <1>2, <2>0
  <2>3. /\ Unshift(D, i) \in Nat /\ Unshift(D, f) \in Nat /\ Unshift(I, j) \in Nat /\ Unshift(I, e) \in Nat
    BY <1>a, <1>b, <2>0
  <2>4. (i = f /\ j = e) \/ (i # f /\ j # e /\ Unshift(D, i) = Unshift(I, j))
    <3> DEFINE di == Unshift(D, i)
               df == Unshift(D, f)
               ij == Unshift(I, j)
               ie == Unshift(I, e)
    <3>1. /\ i \in Nat /\ f \in Nat /\ j \in Nat /\ e \in Nat
          /\ di \in Nat /\ df \in Nat /\ ij \in Nat /\ ie \in Nat
      BY <1>a, <2>0, <2>3
    <3>2. (IF i <= f THEN di ELSE di + 1) = (IF j <= e THEN ij ELSE ij + 1) /\ df = ie
      BY <1>4, <2>2
    <3>3. /\ i < f => di < df
          /\ j < e => ij < ie
      BY <2>1, <3>1
    <3>4. /\ i > f => df <= di
          /\ j > e => ie <= ij
      BY <2>1, <3>1
    <3>5. (i = f => di = df) /\ (j = e => ij = ie)
      OBVIOUS
    <3> HIDE DEF di, df, ij, ie
    <3>6. (i = f /\ j = e) \/ (i # f /\ j # e /\ di = ij)
      BY <3>1, <3>2, <3>3, <3>4, <3>5, StaleOrder
    <3>7. QED BY <3>6 DEF di, ij
  <2>5. QED BY <2>0, <2>4 DEF Lined
<1>5. QED BY <1>0, <1>3, <1>4 DEF Lined, Df, Ie

\* What CleanUpStaleMoves does with one move.
Judged(r, m) ==
    IF Unshift(r.deletions, m.from) # Unshift(r.insertions, m.to)
    THEN [r EXCEPT !.moves = Append(@, m)]
    ELSE [r EXCEPT !.deletions = @ \ {m.from}, !.insertions = @ \ {m.to}]

\* It makes a change set of a change set.
LEMMA JudgedType ==
    ASSUME NEW r \in ChangeSet, NEW m \in AMove
    PROVE  Judged(r, m) \in ChangeSet
<1>1. \A S \in IndexSet : \A x : S \ {x} \in IndexSet
  BY FS_RemoveElement DEF IndexSet
<1>2. r.deletions \ {m.from} \in IndexSet /\ r.insertions \ {m.to} \in IndexSet /\ Append(r.moves, m) \in Seq(AMove)
  <2>1. r.deletions \in IndexSet /\ r.insertions \in IndexSet /\ r.moves \in Seq(AMove)
    BY DEF ChangeSet
  <2>2. Append(r.moves, m) \in Seq(AMove)
    BY <2>1
  <2>3. QED BY <1>1, <2>1, <2>2
<1>3. QED BY <1>2 DEF Judged, ChangeSet

\* CleanUpStaleMoves judges the moves one after the other.
LEMMA CleanUpSteps ==
    ASSUME NEW b \in ChangeSet
    PROVE  \E g : /\ g[0] = [b EXCEPT !.moves = <<>>]
                  /\ \A k \in Nat : k < Len(b.moves) => g[k + 1] = Judged(g[k], b.moves[k + 1])
                  /\ CleanUpStaleMoves(b) = g[Len(b.moves)]
<1> DEFINE moves == b.moves
           n == Len(moves)
           start == [b EXCEPT !.moves = <<>>]
           IsFold(h) == h = [T \in SUBSET DOMAIN moves |->
                               IF T = {} THEN start ELSE Judged(h[T \ {Max(T)}], moves[Max(T)])]
           H == CHOOSE h : IsFold(h)
           g == [k \in Nat |-> H[1 .. k]]
<1>1. n \in Nat /\ DOMAIN moves = 1 .. n /\ \A k \in 1 .. n : moves[k] \in AMove
  BY DEF ChangeSet
<1>2. CleanUpStaleMoves(b) = H[DOMAIN moves]
  BY Zenon DEF CleanUpStaleMoves, FoldLeft, MapThenFoldSet, Judged, Unshift
<1>s. start \in ChangeSet
  <2>1. <<>> \in Seq(AMove)
    OBVIOUS
  <2>2. QED BY <2>1 DEF ChangeSet
<1> HIDE DEF moves, start
<1>3. \E h : IsFold(h)
  <2> DEFINE F == [k \in 1 .. n |-> [r \in ChangeSet |-> Judged(r, moves[k])]]
  <2>1. F \in [1 .. n -> [ChangeSet -> ChangeSet]]
    BY <1>1, JudgedType
  <2> HIDE DEF n, F
  <2>b. HasFold(n, ChangeSet, start, F)
    BY <1>1, <1>s, <2>1, FoldExists
  <2>2. PICK h \in [SUBSET (1 .. n) -> ChangeSet] :
           \A T \in SUBSET (1 .. n) : h[T] = IF T = {} THEN start ELSE F[Max(T)][h[T \ {Max(T)}]]
    BY <2>b DEF HasFold
  <2>3. ASSUME NEW T \in SUBSET (1 .. n), T # {}
        PROVE  F[Max(T)][h[T \ {Max(T)}]] = Judged(h[T \ {Max(T)}], moves[Max(T)])
    <3>1. Max(T) \in 1 .. n
      <4>1. T \in IndexSet
        <5>1. IsFiniteSet(1 .. n)
          BY <1>1, FS_Interval
        <5>2. IsFiniteSet(T)
          BY <5>1, FS_Subset
        <5>3. QED BY <5>2 DEF IndexSet
      <4>2. QED BY <2>3, <4>1, GreatestOf
    <3>2. h[T \ {Max(T)}] \in ChangeSet
      <4>1. T \ {Max(T)} \in SUBSET (1 .. n)
        OBVIOUS
      <4>2. QED BY <4>1
    <3>3. QED BY <3>1, <3>2 DEF F
  <2>4. h = [T \in SUBSET (1 .. n) |-> h[T]]
    OBVIOUS
  <2>5. IsFold(h)
    BY <1>1, <2>2, <2>3, <2>4, Zenon
  <2>6. QED BY <2>5
<1>4. IsFold(H)
  BY <1>3, Zenon
<1> HIDE DEF H
<1>5. g[0] = start
  <2>1. H[{}] = start
    BY <1>4, Zenon
  <2>2. g[0] = H[1 .. 0] /\ 1 .. 0 = {}
    BY FirstIndices
  <2>3. QED BY <2>1, <2>2
<1>6. ASSUME NEW k \in Nat, k < n PROVE g[k + 1] = Judged(g[k], moves[k + 1])
  <2>1. 1 .. k + 1 \in SUBSET DOMAIN moves /\ 1 .. k + 1 # {} /\ Max(1 .. k + 1) = k + 1 /\ (1 .. k + 1) \ {k + 1} = 1 .. k
    <3>1. 1 .. k + 1 \in SUBSET DOMAIN moves
      BY <1>1, <1>6
    <3>2. QED BY <3>1, FirstIndices, Zenon
  <2>2. H[1 .. k + 1] = Judged(H[1 .. k], moves[k + 1])
    BY <1>4, <2>1, Zenon
  <2>3. g[k] = H[1 .. k] /\ g[k + 1] = H[1 .. k + 1]
    OBVIOUS
  <2>4. QED BY <2>2, <2>3
<1>7. CleanUpStaleMoves(b) = g[n]
  BY <1>1, <1>2
<1> HIDE DEF g
<1>8. QED BY <1>5, <1>6, <1>7 DEF moves, start

\* c is b without some of its moves, which the rows have not made.
Cleaned(b, c, s, t) ==
    /\ c \in ChangeSet /\ c.modifications = b.modifications /\ c.mapping = b.mapping
    /\ c.deletions \subseteq b.deletions /\ c.insertions \subseteq b.insertions
    /\ Lined(c.deletions, c.insertions, s, t)
    /\ MovesAreTold(c, s, t)
    /\ \A i \in b.insertions \ c.insertions : \E k \in DOMAIN b.moves : b.moves[k].to = i
    /\ \A q \in DOMAIN c.moves : \E k \in DOMAIN b.moves : c.moves[q] = b.moves[k]

\* What CleanUpStaleMoves leaves is in line as it was, and the moves it leaves
\* are moves: induction over the moves, each judged by what is left of those
\* before it.
LEMMA CleanUpLaw ==
    ASSUME NEW s \in Seq(Nat), NEW t \in Seq(Nat), NEW b \in ChangeSet,
           b.insertions \subseteq IndicesOf(t), Lined(b.deletions, b.insertions, s, t), MovesAreTold(b, s, t)
    PROVE  Cleaned(b, CleanUpStaleMoves(b), s, t)
<1> DEFINE moves == b.moves
           n == Len(moves)
<1>0. n \in Nat /\ DOMAIN moves = 1 .. n /\ \A k \in 1 .. n : moves[k] \in AMove
  BY DEF ChangeSet
<1>1. PICK g : /\ g[0] = [b EXCEPT !.moves = <<>>]
               /\ \A k \in Nat : k < n => g[k + 1] = Judged(g[k], moves[k + 1])
               /\ CleanUpStaleMoves(b) = g[n]
  BY CleanUpSteps
<1>a. /\ OneEach(moves)
      /\ \A k \in 1 .. n : /\ moves[k].from \in b.deletions \cap IndicesOf(s) /\ moves[k].to \in b.insertions
                           /\ At(s, moves[k].from) = At(t, moves[k].to)
  BY <1>0 DEF MovesAreTold
<1>b. moves \in Seq(AMove)
  BY DEF ChangeSet
<1> HIDE DEF n, moves
<1> DEFINE Done(k, r) ==
             /\ r \in ChangeSet /\ r.modifications = b.modifications /\ r.mapping = b.mapping
             /\ r.deletions \subseteq b.deletions /\ r.insertions \subseteq b.insertions
             /\ Lined(r.deletions, r.insertions, s, t)
             /\ \A l \in k + 1 .. n : moves[l].from \in r.deletions /\ moves[l].to \in r.insertions
             /\ \A q \in DOMAIN r.moves : \E l \in 1 .. k :
                   r.moves[q] = moves[l] /\ moves[l].from \in r.deletions /\ moves[l].to \in r.insertions
             /\ OneEach(r.moves)
             /\ \A i \in b.insertions \ r.insertions : \E l \in 1 .. k : moves[l].to = i
           P == {k \in Nat : k <= n => Done(k, g[k])}
<1>2. 0 \in P
  <2>0. <<>> \in Seq(AMove) /\ DOMAIN <<>> = {}
    OBVIOUS
  <2>1. /\ g[0] \in ChangeSet /\ g[0].modifications = b.modifications /\ g[0].mapping = b.mapping
        /\ g[0].deletions = b.deletions /\ g[0].insertions = b.insertions /\ g[0].moves = <<>>
    BY <1>1, <2>0 DEF ChangeSet
  <2>2. Done(0, g[0])
    BY <1>a, <2>0, <2>1 DEF OneEach
  <2> HIDE DEF Done
  <2>3. QED BY <2>2
<1>3. ASSUME NEW k \in Nat, k \in P PROVE k + 1 \in P
  <2>0. k + 1 \in Nat /\ (k + 1 <= n => k <= n /\ k < n /\ k + 1 \in 1 .. n)
    BY <1>0
  <2> HIDE DEF Done
  <2> SUFFICES ASSUME k + 1 <= n PROVE Done(k + 1, g[k + 1])
    BY <2>0, Zenon
  <2> DEFINE r == g[k]
             m == moves[k + 1]
             u == Judged(r, m)
  <2>1. Done(k, r)
    BY <1>3, <2>0, Zenon
  <2>2. g[k + 1] = u
    BY <1>1, <2>0
  <2>3. m \in AMove /\ m.from \in Nat /\ m.to \in Nat /\ \A j \in 1 .. k + 1 : j \in 1 .. k \/ j = k + 1
    <3>1. m \in AMove
      BY <1>0, <2>0
    <3>2. \A j \in 1 .. k + 1 : j \in 1 .. k \/ j = k + 1
      OBVIOUS
    <3> HIDE DEF m
    <3>3. QED BY <3>1, <3>2 DEF AMove
  <2>4. /\ m.from \in r.deletions \cap IndicesOf(s) /\ m.to \in r.insertions \cap IndicesOf(t)
        /\ At(s, m.from) = At(t, m.to)
    <3>1. k + 1 \in k + 1 .. n
      BY <1>0, <2>0
    <3>2. QED BY <1>a, <2>0, <2>1, <3>1 DEF Done
  <2>5. \A l \in 1 .. n : l # k + 1 => moves[l].from # m.from /\ moves[l].to # m.to
    BY <1>0, <1>a, <2>0 DEF OneEach
  <2>t. /\ r \in ChangeSet /\ u \in ChangeSet /\ r.moves \in Seq(AMove)
        /\ r.deletions \in IndexSet /\ r.insertions \in IndexSet
    <3>1. r \in ChangeSet
      BY <2>1 DEF Done
    <3>2. u \in ChangeSet
      BY <2>3, <3>1, JudgedType
    <3>3. QED BY <3>1, <3>2 DEF ChangeSet
  <2>6. CASE Unshift(r.deletions, m.from) # Unshift(r.insertions, m.to)
    <3>1. u = [r EXCEPT !.moves = Append(r.moves, m)]
      BY <2>6 DEF Judged
    <3>2. /\ u.modifications = r.modifications /\ u.mapping = r.mapping
          /\ u.deletions = r.deletions /\ u.insertions = r.insertions /\ u.moves = Append(r.moves, m)
      BY <2>t, <3>1 DEF ChangeSet
    <3> DEFINE v == Append(r.moves, m)
               L == Len(r.moves)
    <3>3. /\ L \in Nat /\ DOMAIN v = 1 .. L + 1 /\ DOMAIN r.moves = 1 .. L
          /\ v[L + 1] = m /\ \A q \in 1 .. L : v[q] = r.moves[q]
      BY <2>3, <2>t
    <3>4. \A q \in DOMAIN v : q \in 1 .. L \/ q = L + 1
      BY <3>3, SMTT(30)
    <3>5. \A q \in 1 .. L : \E l \in 1 .. k :
             r.moves[q] = moves[l] /\ moves[l].from \in r.deletions /\ moves[l].to \in r.insertions
      BY <2>1, <3>3, ZenonT(60) DEF Done
    <3>6. OneEach(r.moves)
      BY <2>1 DEF Done
    <3> HIDE DEF v, L, m, r
    <3>7. ASSUME NEW q \in DOMAIN v
          PROVE  \E l \in 1 .. k + 1 :
                    v[q] = moves[l] /\ moves[l].from \in r.deletions /\ moves[l].to \in r.insertions
      <4>1. CASE q = L + 1
        <5>1. v[q] = moves[k + 1] /\ moves[k + 1].from \in r.deletions /\ moves[k + 1].to \in r.insertions
          BY <2>4, <3>3, <4>1 DEF m
        <5>2. QED BY <5>1
      <4>2. CASE q \in 1 .. L
        <5>1. PICK l \in 1 .. k :
                 r.moves[q] = moves[l] /\ moves[l].from \in r.deletions /\ moves[l].to \in r.insertions
          BY <3>5, <4>2
        <5>2. l \in 1 .. k + 1 /\ v[q] = r.moves[q]
          BY <3>3, <4>2
        <5>3. QED BY <5>1, <5>2
      <4>3. QED BY <3>4, <4>1, <4>2
    <3>8. OneEach(v)
      <4>1. ASSUME NEW q \in 1 .. L PROVE r.moves[q].from # m.from /\ r.moves[q].to # m.to
        <5>1. PICK l \in 1 .. k : r.moves[q] = moves[l]
          BY <3>5
        <5>2. l \in 1 .. n /\ l # k + 1
          BY <1>0, <2>0
        <5>3. QED BY <2>5, <5>1, <5>2
      <4>2. ASSUME NEW p \in DOMAIN v, NEW q \in DOMAIN v, v[p].from = v[q].from \/ v[p].to = v[q].to
            PROVE  p = q
        <5>1. CASE p \in 1 .. L /\ q \in 1 .. L
          BY <3>3, <3>6, <4>2, <5>1 DEF OneEach
        <5>2. CASE p = L + 1 /\ q \in 1 .. L
          BY <3>3, <4>1, <4>2, <5>2
        <5>3. CASE p \in 1 .. L /\ q = L + 1
          BY <3>3, <4>1, <4>2, <5>3
        <5>4. QED BY <3>4, <5>1, <5>2, <5>3
      <4>3. QED BY <4>2 DEF OneEach
    <3>9. /\ r.modifications = b.modifications /\ r.mapping = b.mapping
          /\ r.deletions \subseteq b.deletions /\ r.insertions \subseteq b.insertions
          /\ Lined(r.deletions, r.insertions, s, t)
      BY <2>1 DEF Done
    <3>10. \A l \in (k + 1) + 1 .. n : moves[l].from \in r.deletions /\ moves[l].to \in r.insertions
      <4>1. \A l \in (k + 1) + 1 .. n : l \in k + 1 .. n
        BY <1>0
      <4>2. QED BY <2>1, <4>1 DEF Done
    <3>11. \A i \in b.insertions \ r.insertions : \E l \in 1 .. k + 1 : moves[l].to = i
      <4>1. \A l \in 1 .. k : l \in 1 .. k + 1
        OBVIOUS
      <4>2. QED BY <2>1, <4>1 DEF Done
    <3> HIDE DEF u
    <3>12. u \in ChangeSet
      BY <2>t
    <3>13. u.moves = v
      BY <3>2 DEF v
    <3>14. Done(k + 1, u)
      BY <3>2, <3>7, <3>8, <3>9, <3>10, <3>11, <3>12, <3>13 DEF Done
    <3>15. QED BY <2>2, <3>14
  <2>7. CASE Unshift(r.deletions, m.from) = Unshift(r.insertions, m.to)
    <3>1. u = [r EXCEPT !.deletions = @ \ {m.from}, !.insertions = @ \ {m.to}]
      BY <2>7 DEF Judged
    <3>2. /\ u.modifications = r.modifications /\ u.mapping = r.mapping /\ u.moves = r.moves
          /\ u.deletions = r.deletions \ {m.from} /\ u.insertions = r.insertions \ {m.to}
      BY <2>t, <3>1 DEF ChangeSet
    <3>3. Lined(r.deletions, r.insertions, s, t)
      BY <2>1 DEF Done
    <3> DEFINE D == r.deletions
               I == r.insertions
               f == m.from
               e == m.to
    <3>4. D \in IndexSet /\ I \in IndexSet /\ f \in D \cap IndicesOf(s) /\ e \in I \cap IndicesOf(t)
      BY <2>4, <2>t
    <3>5. At(s, f) = At(t, e) /\ Unshift(D, f) = Unshift(I, e) /\ Lined(D, I, s, t)
      BY <2>4, <2>7, <3>3
    <3> HIDE DEF D, I, f, e
    <3>6. Lined(D \ {f}, I \ {e}, s, t)
      BY <3>4, <3>5, StaleLined
    <3>7. ASSUME NEW l \in 1 .. n, l # k + 1, moves[l].from \in r.deletions, moves[l].to \in r.insertions
          PROVE  moves[l].from \in r.deletions \ {m.from} /\ moves[l].to \in r.insertions \ {m.to}
      BY <2>5, <3>7
    <3>8. /\ r.modifications = b.modifications /\ r.mapping = b.mapping
          /\ r.deletions \subseteq b.deletions /\ r.insertions \subseteq b.insertions
          /\ OneEach(r.moves)
      BY <2>1 DEF Done
    <3>9. \A l \in (k + 1) + 1 .. n : moves[l].from \in r.deletions \ {m.from} /\ moves[l].to \in r.insertions \ {m.to}
      <4>1. \A l \in (k + 1) + 1 .. n : l \in k + 1 .. n /\ l \in 1 .. n /\ l # k + 1
        BY <1>0
      <4>2. \A l \in k + 1 .. n : moves[l].from \in r.deletions /\ moves[l].to \in r.insertions
        BY <2>1 DEF Done
      <4>3. QED BY <3>7, <4>1, <4>2
    <3>10. ASSUME NEW q \in DOMAIN r.moves
           PROVE  \E l \in 1 .. k + 1 : /\ r.moves[q] = moves[l]
                                        /\ moves[l].from \in r.deletions \ {m.from}
                                        /\ moves[l].to \in r.insertions \ {m.to}
      <4>1. PICK l \in 1 .. k : r.moves[q] = moves[l] /\ moves[l].from \in r.deletions /\ moves[l].to \in r.insertions
        BY <2>1 DEF Done
      <4>2. l \in 1 .. n /\ l # k + 1 /\ l \in 1 .. k + 1
        BY <1>0, <2>0
      <4>3. QED BY <3>7, <4>1, <4>2
    <3>11. ASSUME NEW i \in b.insertions, i \notin r.insertions \ {m.to} PROVE \E l \in 1 .. k + 1 : moves[l].to = i
      <4>1. CASE i = m.to
        <5>1. k + 1 \in 1 .. k + 1
          OBVIOUS
        <5>2. QED BY <4>1, <5>1
      <4>2. CASE i # m.to
        <5>1. PICK l \in 1 .. k : moves[l].to = i
          BY <2>1, <3>11, <4>2 DEF Done
        <5>2. l \in 1 .. k + 1
          OBVIOUS
        <5>3. QED BY <5>1, <5>2
      <4>3. QED BY <4>1, <4>2
    <3> HIDE DEF u
    <3>12. u \in ChangeSet
      BY <2>t
    <3>13. Lined(u.deletions, u.insertions, s, t)
      BY <3>2, <3>6 DEF D, I, f, e
    <3> HIDE DEF r, m
    <3>14. Done(k + 1, u)
      BY <3>2, <3>8, <3>9, <3>10, <3>11, <3>12, <3>13 DEF Done
    <3>15. QED BY <2>2, <3>14
  <2>8. QED BY <2>6, <2>7
<1> HIDE DEF P
<1>4. Nat \subseteq P
  BY <1>2, <1>3, Induction
<1>5. n \in P /\ n <= n
  BY <1>0, <1>4
<1> DEFINE c == CleanUpStaleMoves(b)
<1>6. Done(n, c)
  <2> HIDE DEF Done
  <2>1. QED BY <1>1, <1>5, Zenon DEF P
<1> HIDE DEF c
<1>7. MovesAreTold(c, s, t)
  BY <1>0, <1>6, <1>a DEF MovesAreTold
<1>8. Cleaned(b, c, s, t)
  BY <1>0, <1>6, <1>7 DEF Cleaned, moves
<1>9. QED BY <1>8 DEF c

-----------------------------------------------------------------------------
(* What was told of m, once more has happened                              *)

\* Where an index that is not in D goes, when those of D are taken away and
\* those of I put in.
Through(D, I, i) == Shift(I, Unshift(D, i))

\* Each index that stays goes to one that stays, and different ones to
\* different ones.
LEMMA ThroughLaw ==
    ASSUME NEW D \in IndexSet, NEW I \in IndexSet, NEW i \in Nat \ D
    PROVE  /\ Through(D, I, i) \in Nat \ I /\ Unshift(I, Through(D, I, i)) = Unshift(D, i)
           /\ Through(I, D, Through(D, I, i)) = i
           /\ \A j \in Nat \ D : Through(D, I, i) = Through(D, I, j) => i = j
<1>0. D \in SUBSET Nat /\ I \in SUBSET Nat
  BY DEF IndexSet
<1>1. ASSUME NEW j \in Nat \ D PROVE Through(D, I, j) \in Nat \ I /\ Unshift(I, Through(D, I, j)) = Unshift(D, j)
  <2>1. Unshift(D, j) \in Nat
    BY <1>0, UnshiftType
  <2>2. QED BY <2>1, ShiftLaw DEF Through
<1>2. Through(I, D, Through(D, I, i)) = i
  BY <1>1, ShiftUnshift DEF Through
<1>3. ASSUME NEW j \in Nat \ D, Through(D, I, i) = Through(D, I, j) PROVE i = j
  <2>1. Unshift(D, i) = Unshift(D, j)
    BY <1>1, <1>3
  <2>2. QED BY <1>0, <2>1, UnshiftIsInjective
<1>4. QED BY <1>1, <1>2, <1>3

\* p is a move of b that D leaves.
Carried(b, D, I, p) ==
    \E l \in DOMAIN b.moves :
       /\ b.moves[l].to \notin D
       /\ p.from = b.moves[l].from /\ p.to = Through(D, I, b.moves[l].to)

\* p is one that has its end in I.
Arrived(c, s, t, I, T, p) ==
    /\ p.from \in c.deletions \cap IndicesOf(s) /\ p.to \in I
    /\ At(s, p.from) = At(t, p.to)
    /\ p.to \in c.modifications <=> At(t, p.to) \in T

\* If b tells of what became of s in m, and the indices D of m are deleted and
\* I of t inserted, then c, which is b with its indices taken through this, its
\* moves carried on or arriving in I, tells of what became of s in t.
LEMMA Carry ==
    ASSUME NEW s \in Seq(Nat), NEW m \in Seq(Nat), NEW t \in Seq(Nat), NEW T, NEW U,
           NEW b, Tells(b, s, m, T),
           NEW D \in IndexSet, NEW I \in IndexSet, I \subseteq IndicesOf(t), Lined(D, I, m, t),
           NEW c \in ChangeSet,
           c.deletions = InsertedAll(ErasedAll(D, b.insertions), b.deletions),
           c.insertions = InsertedAll(ErasedAll(b.insertions, D), I),
           c.modifications \subseteq IndicesOf(t),
           OneEach(c.moves),
           \A k \in DOMAIN c.moves : Carried(b, D, I, c.moves[k]) \/ Arrived(c, s, t, I, U, c.moves[k]),
           \A i \in IndicesOf(t) \ I :
              (Through(I, D, i) \in b.modifications <=> At(t, i) \in T) => (i \in c.modifications <=> At(t, i) \in U)
    PROVE  Tells(c, s, t, U)
<1> DEFINE D1 == b.deletions
           I1 == b.insertions
           E == ErasedAll(I1, D)
<1>0. /\ D1 \in IndexSet /\ I1 \in IndexSet /\ D1 \in SUBSET Nat /\ D \in SUBSET Nat /\ I \in SUBSET Nat /\ I1 \in SUBSET Nat
      /\ Lined(D1, I1, s, m) /\ Lined(I, D, t, m) /\ I1 \subseteq IndicesOf(m) /\ MovesAreTold(b, s, m)
      /\ IndicesOf(s) \subseteq Nat /\ IndicesOf(m) \subseteq Nat /\ IndicesOf(t) \subseteq Nat
  <2>1. IndicesOf(s) \subseteq Nat /\ IndicesOf(m) \subseteq Nat /\ IndicesOf(t) \subseteq Nat
    BY DEF IndicesOf
  <2>2. QED BY <2>1, LinedIsSymmetric DEF Tells, ChangeSet, IndexSet
<1>1. Lined(c.deletions, c.insertions, s, t)
  BY <1>0, Compose
<1>2. c.insertions \subseteq IndicesOf(t)
  BY <1>0, ComposeStaysInside
<1>3. E \in IndexSet /\ \A x \in Nat \ D : x \in I1 <=> Unshift(D, x) \in E
  BY <1>0, ErasedAllLaw
<1>4. D1 \subseteq c.deletions
  <2>1. ErasedAll(D, I1) \in IndexSet
    BY <1>0, ErasedAllLaw
  <2>2. QED BY <1>0, <2>1, InsertedAllLaw
<1>5. I \subseteq c.insertions /\ \A i \in Nat \ I : i \in c.insertions <=> Unshift(I, i) \in E
  BY <1>3, InsertedAllLaw
<1> HIDE DEF E
\* Where the entries of m that stay are, and those of t that have stayed were.
<1>6. ASSUME NEW y \in IndicesOf(m) \ D
      PROVE  LET i == Through(D, I, y)
             IN  /\ i \in IndicesOf(t) \ I /\ At(t, i) = At(m, y) /\ Through(I, D, i) = y
                 /\ i \in c.insertions <=> y \in I1
  <2> DEFINE i == Through(D, I, y)
  <2>1. i \in IndicesOf(t) \ I /\ Unshift(I, i) = Unshift(D, y) /\ At(m, y) = At(t, i)
    BY Partner DEF Through
  <2>2. Through(I, D, i) = y
    BY <1>0, ThroughLaw
  <2>3. i \in c.insertions <=> y \in I1
    BY <1>0, <1>3, <1>5, <2>1
  <2>4. QED BY <2>1, <2>2, <2>3
<1>7. ASSUME NEW i \in IndicesOf(t) \ I
      PROVE  LET y == Through(I, D, i)
             IN  /\ y \in IndicesOf(m) \ D /\ At(t, i) = At(m, y)
                 /\ i \in c.insertions <=> y \in I1
  <2> DEFINE y == Through(I, D, i)
  <2>1. y \in IndicesOf(m) \ D /\ Unshift(D, y) = Unshift(I, i) /\ At(t, i) = At(m, y)
    BY <1>0, Partner DEF Through
  <2>2. i \in c.insertions <=> y \in I1
    BY <1>0, <1>3, <1>5, <2>1
  <2>3. QED BY <2>1, <2>2
<1>8. ASSUME NEW k \in DOMAIN c.moves
      PROVE  /\ c.moves[k].from \in c.deletions \cap IndicesOf(s) /\ c.moves[k].to \in c.insertions
             /\ At(s, c.moves[k].from) = At(t, c.moves[k].to)
             /\ c.moves[k].to \in c.modifications <=> At(t, c.moves[k].to) \in U
  <2> DEFINE p == c.moves[k]
  <2>1. CASE Carried(b, D, I, p)
    <3>1. PICK l \in DOMAIN b.moves : /\ b.moves[l].to \notin D
                                      /\ p.from = b.moves[l].from /\ p.to = Through(D, I, b.moves[l].to)
      BY <2>1 DEF Carried
    <3> DEFINE y == b.moves[l].to
    <3>2. p.from \in D1 \cap IndicesOf(s) /\ y \in I1 /\ At(s, p.from) = At(m, y)
      BY <1>0, <3>1 DEF MovesAreTold
    <3>3. y \in IndicesOf(m) \ D
      BY <1>0, <3>1, <3>2
    <3>4. y \in b.modifications <=> At(m, y) \in T
      BY <3>3 DEF Tells, ModificationsAreTold
    <3> HIDE DEF y, p
    <3>5. p.to = Through(D, I, y)
      BY <3>1 DEF y
    <3>6. p.to \in IndicesOf(t) \ I /\ At(t, p.to) = At(m, y) /\ Through(I, D, p.to) = y /\ p.to \in c.insertions
      BY <1>6, <3>2, <3>3, <3>5
    <3>7. p.to \in c.modifications <=> At(t, p.to) \in U
      BY <3>4, <3>6
    <3>8. QED BY <1>4, <3>2, <3>6, <3>7 DEF p
  <2>2. CASE Arrived(c, s, t, I, U, p)
    BY <1>5, <2>2 DEF Arrived
  <2>3. QED BY <2>1, <2>2
<1>9. MovesAreTold(c, s, t)
  BY <1>8 DEF MovesAreTold
<1>10. ASSUME NEW i \in IndicesOf(t), i \notin c.insertions PROVE i \in c.modifications <=> At(t, i) \in U
  <2> DEFINE y == Through(I, D, i)
  <2>1. i \in IndicesOf(t) \ I
    BY <1>5, <1>10
  <2>2. y \in IndicesOf(m) \ D /\ At(t, i) = At(m, y) /\ y \notin I1
    BY <1>7, <1>10, <2>1
  <2>3. y \in b.modifications <=> At(m, y) \in T
    BY <2>2 DEF Tells, ModificationsAreTold
  <2>4. QED BY <2>1, <2>2, <2>3
<1>11. ModificationsAreTold(c, t, U)
  BY <1>8, <1>10 DEF ModificationsAreTold
<1>12. QED BY <1>1, <1>2, <1>9, <1>11 DEF Tells

-----------------------------------------------------------------------------
(* The instructions on a list                                              *)

\* Where nothing is deleted, or nothing inserted.
LEMMA ThroughNothing ==
    ASSUME NEW S \in IndexSet, NEW i \in Nat
    PROVE  Through({}, S, i) = Shift(S, i) /\ Through(S, {}, i) = Unshift(S, i)
<1>1. Unshift({}, i) = i /\ {} \in IndexSet
  BY NothingShifts
<1>2. \A j \in Nat : Shift({}, j) = j
  <2>1. ASSUME NEW j \in Nat PROVE Shift({}, j) = j
    <3>1. Shift({}, j) \in Nat /\ Unshift({}, Shift({}, j)) = j
      BY <1>1, ShiftLaw
    <3>2. QED BY NothingShifts, <3>1
  <2>2. QED BY <2>1
<1>3. Unshift(S, i) \in Nat
  BY UnshiftType DEF IndexSet
<1>4. QED BY <1>1, <1>2, <1>3 DEF Through

\* Indices of rows that are there, put through a change, are there.
LEMMA MarksStayInside ==
    ASSUME NEW M \in IndexSet, NEW D \in IndexSet, NEW I \in IndexSet,
           NEW m \in Seq(Nat), NEW t \in Seq(Nat), Lined(D, I, m, t),
           M \subseteq IndicesOf(m), I \subseteq IndicesOf(t)
    PROVE  /\ InsertedAll(ErasedAll(M, D), I) \in IndexSet
           /\ InsertedAll(ErasedAll(M, D), I) \subseteq IndicesOf(t)
           /\ ShiftForAll(ErasedAll(M, D), I) \in IndexSet
           /\ ShiftForAll(ErasedAll(M, D), I) \subseteq IndicesOf(t)
           /\ \A i \in IndicesOf(t) \ I :
                 i \in ShiftForAll(ErasedAll(M, D), I) <=> Through(I, D, i) \in M
<1>0. Lined(I, D, t, m) /\ ErasedAll(M, D) \in IndexSet
  BY LinedIsSymmetric, ErasedAllLaw
<1>1. InsertedAll(ErasedAll(M, D), I) \in IndexSet /\ InsertedAll(ErasedAll(M, D), I) \subseteq IndicesOf(t)
  BY <1>0, ComposeStaysInside
<1>2. ShiftForAll(ErasedAll(M, D), I) \in IndexSet
  BY <1>0, ShiftForAllLaw
<1>3. ShiftForAll(ErasedAll(M, D), I) \subseteq InsertedAll(ErasedAll(M, D), I)
  BY DEF InsertedAll
<1>4. ASSUME NEW i \in IndicesOf(t) \ I
      PROVE  i \in ShiftForAll(ErasedAll(M, D), I) <=> Through(I, D, i) \in M
  <2> DEFINE x == Through(I, D, i)
  <2>1. i \in Nat \ I
    BY DEF IndicesOf
  <2>2. x \in Nat \ D /\ Unshift(D, x) = Unshift(I, i)
    BY <2>1, ThroughLaw
  <2>3. i \in ShiftForAll(ErasedAll(M, D), I) <=> Unshift(I, i) \in ErasedAll(M, D)
    BY <1>0, <2>1, ShiftForAllLaw
  <2>4. x \in M <=> Unshift(D, x) \in ErasedAll(M, D)
    BY <2>2, ErasedAllLaw
  <2>5. QED BY <2>2, <2>3, <2>4
<1>5. QED BY <1>1, <1>2, <1>3, <1>4

\* Insert, where e is put into what b tells of.
LEMMA InsertTells ==
    ASSUME NEW s \in Seq(Nat), NEW m \in Seq(Nat), NEW T, NEW b, Tells(b, s, m, T),
           NEW i \in 0 .. Len(m), NEW e \in Nat
    PROVE  /\ Tells(Insert(b, i), s, InsertAt(m, i + 1, e), T)
           /\ Insert(b, i).deletions = b.deletions
<1> DEFINE t == InsertAt(m, i + 1, e)
           c == Insert(b, i)
           Moved(p) == IF p.to >= i THEN Pair(p.from, p.to + 1) ELSE p
<1>0. /\ i \in Nat /\ Len(m) \in Nat /\ b \in ChangeSet /\ b.modifications \in IndexSet /\ b.moves \in Seq(AMove)
      /\ b.insertions \in IndexSet /\ b.deletions \in IndexSet /\ b.mapping \in SUBSET AMove
  BY DEF Tells, ChangeSet
<1>1. {i} \in IndexSet /\ {} \in IndexSet
  BY <1>0, SingletonLaw, NothingShifts
<1>2. t \in Seq(Nat) /\ Len(t) = Len(m) + 1 /\ Lined({}, {i}, m, t)
  BY InsertAtLaw, InsertIsLined DEF WithAt
<1>3. /\ c.modifications = ShiftForInsertAt(b.modifications, i, 1)
      /\ c.insertions = InsertedAt(b.insertions, i, 1)
      /\ c.deletions = b.deletions
      /\ c.moves = [k \in DOMAIN b.moves |-> Moved(b.moves[k])]
      /\ c.mapping = {Moved(p) : p \in b.mapping}
      /\ c = [b EXCEPT !.modifications = c.modifications, !.insertions = c.insertions,
                        !.moves = c.moves, !.mapping = c.mapping]
  <2>1. c.modifications = ShiftForInsertAt(b.modifications, i, 1)
    BY <1>0 DEF Insert, ChangeSet
  <2>2. c.insertions = InsertedAt(b.insertions, i, 1)
    BY <1>0 DEF Insert, ChangeSet
  <2>3. c.deletions = b.deletions
    BY <1>0 DEF Insert, ChangeSet
  <2>4. c.moves = [k \in DOMAIN b.moves |-> Moved(b.moves[k])]
    BY <1>0 DEF Insert, MapMoves, ChangeSet
  <2>5. c.mapping = {Moved(p) : p \in b.mapping}
    BY <1>0 DEF Insert, ChangeSet
  <2>6. c = [b EXCEPT !.modifications = c.modifications, !.insertions = c.insertions,
                      !.moves = c.moves, !.mapping = c.mapping]
    <3>1. c = [b EXCEPT !.modifications = ShiftForInsertAt(b.modifications, i, 1),
                        !.insertions = InsertedAt(b.insertions, i, 1),
                        !.moves = [k \in DOMAIN b.moves |-> Moved(b.moves[k])],
                        !.mapping = {Moved(p) : p \in b.mapping}]
      BY Zenon DEF Insert, MapMoves
    <3> HIDE DEF c, Moved
    <3>2. QED BY <2>1, <2>2, <2>4, <2>5, <3>1, Zenon
  <2> HIDE DEF c, Moved
  <2>7. QED BY <2>1, <2>2, <2>3, <2>4, <2>5, <2>6
<1> HIDE DEF t
<1>4. {i} \subseteq IndicesOf(t)
  BY <1>0, <1>2 DEF IndicesOf
<1> HIDE DEF c
<1>5. c.modifications = ShiftForAll(ErasedAll(b.modifications, {}), {i})
  <2>1. ErasedAll(b.modifications, {}) = b.modifications
    BY <1>0, NothingChanges
  <2>2. ShiftForInsertAt(b.modifications, i, 1) = ShiftForAll(b.modifications, {i})
    BY <1>0, OneIndex
  <2>3. QED BY <1>3, <2>1, <2>2, Zenon
<1>6. c.insertions = InsertedAll(ErasedAll(b.insertions, {}), {i})
  <2>1. ErasedAll(b.insertions, {}) = b.insertions
    BY <1>0, NothingChanges
  <2>2. InsertedAt(b.insertions, i, 1) = InsertedAll(b.insertions, {i})
    BY <1>0, OneIndex
  <2>3. QED BY <1>3, <2>1, <2>2, Zenon
<1>7. c.deletions = InsertedAll(ErasedAll({}, b.insertions), b.deletions)
  BY <1>0, <1>3, NothingChanges
<1>8. /\ c.modifications \in IndexSet /\ c.modifications \subseteq IndicesOf(t)
      /\ \A j \in IndicesOf(t) \ {i} : j \in c.modifications <=> Through({i}, {}, j) \in b.modifications
  <2> DEFINE M == b.modifications
  <2>1. M \in IndexSet /\ M \subseteq IndicesOf(m)
    BY <1>0 DEF Tells
  <2>2. c.modifications = ShiftForAll(ErasedAll(M, {}), {i})
    BY <1>5
  <2> HIDE DEF M
  <2>3. /\ ShiftForAll(ErasedAll(M, {}), {i}) \in IndexSet
        /\ ShiftForAll(ErasedAll(M, {}), {i}) \subseteq IndicesOf(t)
        /\ \A j \in IndicesOf(t) \ {i} : j \in ShiftForAll(ErasedAll(M, {}), {i}) <=> Through({i}, {}, j) \in M
    BY <1>1, <1>2, <1>4, <2>1, MarksStayInside
  <2>4. QED BY <2>2, <2>3 DEF M
<1>9. c.insertions \in IndexSet
  <2>1. c.insertions = InsertedAll(b.insertions, {i})
    BY <1>0, <1>3, OneIndex
  <2>2. QED BY <1>0, <1>1, <2>1, InsertedAllLaw
<1>10. ASSUME NEW p \in AMove
       PROVE  Moved(p) \in AMove /\ Moved(p).from = p.from /\ Moved(p).to = Through({}, {i}, p.to)
  <2>1. p.to \in Nat
    BY DEF AMove
  <2>2. Through({}, {i}, p.to) = IF p.to < i THEN p.to ELSE p.to + 1
    BY <1>0, <1>1, <2>1, ThroughNothing, SingletonLaw, ZenonT(60)
  <2>3. CASE p.to >= i
    BY <1>0, <2>1, <2>2, <2>3 DEF AMove, Pair
  <2>4. CASE p.to < i
    BY <1>0, <2>1, <2>2, <2>4 DEF AMove, Pair
  <2>5. QED BY <1>0, <2>1, <2>3, <2>4
<1>11. \A k \in DOMAIN b.moves : b.moves[k] \in AMove
  BY <1>0
<1>12. /\ DOMAIN c.moves = DOMAIN b.moves
       /\ \A k \in DOMAIN b.moves : /\ c.moves[k] = Moved(b.moves[k])
  BY <1>3
<1>13. \A k \in DOMAIN b.moves :
          c.moves[k].from = b.moves[k].from /\ c.moves[k].to = Through({}, {i}, b.moves[k].to)
  BY <1>10, <1>11, <1>12
<1>14. c \in ChangeSet
  <2>1. c.moves \in Seq(AMove)
    <3>1. DOMAIN b.moves = 1 .. Len(b.moves) /\ Len(b.moves) \in Nat
      BY <1>0
    <3>2. c.moves \in [1 .. Len(b.moves) -> AMove]
      BY <1>3, <1>10, <1>11, <3>1, ZenonT(60)
    <3>3. QED BY <3>1, <3>2, FunctionIsASeq
  <2>2. c.mapping \in SUBSET AMove
    BY <1>0, <1>3, <1>10
  <2> HIDE DEF Moved
  <2>3. QED BY <1>0, <1>3, <1>8, <1>9, <2>1, <2>2 DEF ChangeSet
<1> HIDE DEF Moved
<1>15. OneEach(c.moves)
  <2>1. \A k \in DOMAIN b.moves : b.moves[k].to \in Nat \ {}
    BY <1>11 DEF AMove
  <2>2. OneEach(b.moves)
    BY DEF Tells, MovesAreTold
  <2>3. ASSUME NEW k \in DOMAIN b.moves, NEW l \in DOMAIN b.moves, c.moves[k].to = c.moves[l].to
        PROVE  b.moves[k].to = b.moves[l].to
    <3> DEFINE x == b.moves[k].to
               y == b.moves[l].to
    <3>1. x \in Nat \ {} /\ y \in Nat \ {} /\ Through({}, {i}, x) = Through({}, {i}, y)
      BY <1>13, <2>1, <2>3
    <3> HIDE DEF x, y
    <3>2. x = y
      BY <1>1, <3>1, ThroughLaw
    <3>3. QED BY <3>2 DEF x, y
  <2>4. QED BY <1>12, <1>13, <2>2, <2>3 DEF OneEach
<1>16. \A k \in DOMAIN c.moves : Carried(b, {}, {i}, c.moves[k])
  BY <1>12, <1>13 DEF Carried
<1>17. Tells(c, s, t, T)
  BY <1>1, <1>2, <1>4, <1>6, <1>7, <1>8, <1>14, <1>15, <1>16, Carry
<1>18. QED BY <1>3, <1>17 DEF c, t

\* The deletions of a builder that one more index is deleted from.
LEMMA DeleteOne ==
    ASSUME NEW D \in IndexSet, NEW I \in IndexSet, NEW i \in Nat
    PROVE  /\ InsertedAll(ErasedAll({i}, I), D) = IF i \in I THEN D ELSE AddShifted(D, Unshift(I, i))
           /\ InsertedAll(ErasedAll({i}, I), D) \in IndexSet
<1>1. CASE i \in I
  <2>1. ErasedAll({i}, I) = {}
    BY <1>1 DEF ErasedAll
  <2>2. QED BY <1>1, <2>1, NothingChanges
<1>2. CASE i \notin I
  <2>1. ErasedAll({i}, I) = {Unshift(I, i)}
    BY <1>2 DEF ErasedAll
  <2>2. InsertedAll({Unshift(I, i)}, D) = AddShifted(D, Unshift(I, i))
    BY AddShiftedLaw
  <2>3. {Unshift(I, i)} \in IndexSet
    <3>1. Unshift(I, i) \in Nat
      BY UnshiftType DEF IndexSet
    <3>2. QED BY <3>1, SingletonLaw
  <2>4. InsertedAll({Unshift(I, i)}, D) \in IndexSet
    BY <2>3, InsertedAllLaw
  <2>5. QED BY <1>2, <2>1, <2>2, <2>4
<1>3. QED BY <1>1, <1>2

\* Erase, where what is at i is taken out of what b tells of.
LEMMA EraseTells ==
    ASSUME NEW s \in Seq(Nat), NEW m \in Seq(Nat), NEW T, NEW b, Tells(b, s, m, T), NEW i \in IndicesOf(m)
    PROVE  /\ Tells(Erase(b, i), s, RemoveAt(m, i + 1), T)
           /\ b.deletions \subseteq IndicesOf(s) => Erase(b, i).deletions \subseteq IndicesOf(s)
<1> DEFINE t == RemoveAt(m, i + 1)
           c == Erase(b, i)
           Moved(p) == IF p.to > i THEN Pair(p.from, p.to - 1) ELSE p
           q == MovesIn(b.moves, {p \in ToSet(b.moves) : p.to # i})
<1>0. /\ i \in Nat /\ Len(m) \in Nat /\ b \in ChangeSet /\ b.modifications \in IndexSet /\ b.moves \in Seq(AMove)
      /\ b.insertions \in IndexSet /\ b.deletions \in IndexSet
  BY DEF Tells, ChangeSet, IndicesOf
<1>1. {i} \in IndexSet /\ {} \in IndexSet
  BY <1>0, SingletonLaw, NothingShifts
<1>2. t \in Seq(Nat) /\ Lined({i}, {}, m, t)
  BY RemoveAtLaw, EraseIsLined DEF WithoutAt
<1>3. /\ c.modifications = ErasedAt(b.modifications, i)
      /\ c.insertions = ErasedAt(b.insertions, i)
      /\ c.deletions = IF i \in b.insertions THEN b.deletions ELSE AddShifted(b.deletions, Unshift(b.insertions, i))
      /\ c.moves = [k \in DOMAIN q |-> Moved(q[k])]
      /\ c = [b EXCEPT !.modifications = c.modifications, !.insertions = c.insertions,
                       !.deletions = c.deletions, !.moves = c.moves]
  <2> DEFINE M1 == ErasedAt(b.modifications, i)
             I1 == ErasedAt(b.insertions, i)
             D1 == IF i \in b.insertions THEN b.deletions ELSE AddShifted(b.deletions, Unshift(b.insertions, i))
             V1 == [k \in DOMAIN q |-> Moved(q[k])]
  <2>1. c = [b EXCEPT !.modifications = M1, !.insertions = I1, !.deletions = D1, !.moves = V1]
    BY Zenon DEF Erase, MapMoves
  <2> HIDE DEF M1, I1, D1, V1, c
  <2>2. c.modifications = M1 /\ c.insertions = I1 /\ c.deletions = D1 /\ c.moves = V1
    BY <1>0, <2>1 DEF ChangeSet
  <2>3. c = [b EXCEPT !.modifications = c.modifications, !.insertions = c.insertions,
                      !.deletions = c.deletions, !.moves = c.moves]
    BY <2>1, <2>2, Zenon
  <2>4. QED BY <2>2, <2>3 DEF M1, I1, D1, V1
<1> HIDE DEF t, c
<1>4. {} \subseteq IndicesOf(t)
  OBVIOUS
<1>5. c.modifications = ShiftForAll(ErasedAll(b.modifications, {i}), {})
  <2>1. ErasedAt(b.modifications, i) = ErasedAll(b.modifications, {i})
    BY <1>0, OneIndex
  <2>2. ErasedAll(b.modifications, {i}) \in IndexSet
    BY <1>0, <1>1, ErasedAllLaw
  <2>3. InsertedAll(ErasedAll(b.modifications, {i}), {}) = ErasedAll(b.modifications, {i})
    BY <2>2, NothingChanges
  <2>4. InsertedAll(ErasedAll(b.modifications, {i}), {}) = ShiftForAll(ErasedAll(b.modifications, {i}), {})
    BY DEF InsertedAll
  <2>5. QED BY <1>3, <2>1, <2>3, <2>4
<1>6. c.insertions = InsertedAll(ErasedAll(b.insertions, {i}), {}) /\ c.insertions \in IndexSet
  <2>1. ErasedAt(b.insertions, i) = ErasedAll(b.insertions, {i})
    BY <1>0, OneIndex
  <2>2. ErasedAll(b.insertions, {i}) \in IndexSet
    BY <1>0, <1>1, ErasedAllLaw
  <2>3. InsertedAll(ErasedAll(b.insertions, {i}), {}) = ErasedAll(b.insertions, {i})
    BY <2>2, NothingChanges
  <2>4. QED BY <1>3, <2>1, <2>2, <2>3
<1>7. c.deletions = InsertedAll(ErasedAll({i}, b.insertions), b.deletions) /\ c.deletions \in IndexSet
  <2> DEFINE D1 == b.deletions
             I1 == b.insertions
  <2>1. c.deletions = IF i \in I1 THEN D1 ELSE AddShifted(D1, Unshift(I1, i))
    BY <1>3
  <2>2. D1 \in IndexSet /\ I1 \in IndexSet
    BY <1>0
  <2> HIDE DEF D1, I1
  <2>3. /\ InsertedAll(ErasedAll({i}, I1), D1) = IF i \in I1 THEN D1 ELSE AddShifted(D1, Unshift(I1, i))
        /\ InsertedAll(ErasedAll({i}, I1), D1) \in IndexSet
    BY <1>0, <2>2, DeleteOne
  <2>4. QED BY <2>1, <2>3 DEF D1, I1
<1>8. /\ c.modifications \in IndexSet /\ c.modifications \subseteq IndicesOf(t)
      /\ \A j \in IndicesOf(t) \ {} : j \in c.modifications <=> Through({}, {i}, j) \in b.modifications
  <2> DEFINE M == b.modifications
  <2>1. M \in IndexSet /\ M \subseteq IndicesOf(m)
    BY <1>0 DEF Tells
  <2>2. c.modifications = ShiftForAll(ErasedAll(M, {i}), {})
    BY <1>5
  <2> HIDE DEF M
  <2>3. /\ ShiftForAll(ErasedAll(M, {i}), {}) \in IndexSet
        /\ ShiftForAll(ErasedAll(M, {i}), {}) \subseteq IndicesOf(t)
        /\ \A j \in IndicesOf(t) \ {} : j \in ShiftForAll(ErasedAll(M, {i}), {}) <=> Through({}, {i}, j) \in M
    BY <1>1, <1>2, <1>4, <2>1, MarksStayInside
  <2>4. QED BY <2>2, <2>3 DEF M
<1>9. ASSUME NEW p \in AMove, p.to # i
      PROVE  Moved(p) \in AMove /\ Moved(p).from = p.from /\ Moved(p).to = Through({i}, {}, p.to)
  <2>1. p.to \in Nat
    BY DEF AMove
  <2>2. Through({i}, {}, p.to) = IF p.to <= i THEN p.to ELSE p.to - 1
    BY <1>0, <1>1, <2>1, ThroughNothing, SingletonLaw, ZenonT(60)
  <2>3. CASE p.to > i
    BY <1>0, <2>1, <2>2, <2>3 DEF AMove, Pair
  <2>4. CASE p.to < i
    BY <1>0, <2>1, <2>2, <2>4 DEF AMove, Pair
  <2>5. QED BY <1>0, <1>9, <2>1, <2>3, <2>4
<1>10. OneEach(b.moves)
  BY DEF Tells, MovesAreTold
<1>11. /\ q \in Seq(AMove) /\ OneEach(q)
       /\ \A k \in DOMAIN q : q[k] \in AMove /\ q[k].to # i /\ \E l \in DOMAIN b.moves : q[k] = b.moves[l]
  <2> DEFINE K == {p \in ToSet(b.moves) : p.to # i}
             v == MovesIn(b.moves, K)
  <2>1. v \in Seq(AMove) /\ ToSet(v) = ToSet(b.moves) \cap K /\ OneEach(v)
    <3> HIDE DEF K
    <3>1. QED BY <1>0, <1>10, MovesInLaw
  <2> HIDE DEF v
  <2>2. ASSUME NEW k \in DOMAIN v PROVE v[k] \in AMove /\ v[k].to # i /\ \E l \in DOMAIN b.moves : v[k] = b.moves[l]
    <3>1. v[k] \in ToSet(v) /\ v[k] \in AMove
      BY <2>1 DEF ToSet
    <3>2. v[k] \in ToSet(b.moves) /\ v[k].to # i
      BY <2>1, <3>1
    <3>3. QED BY <3>1, <3>2 DEF ToSet
  <2>3. v = q
    BY DEF v
  <2> HIDE DEF q
  <2>4. QED BY <2>1, <2>2, <2>3
<1> HIDE DEF q
<1>12. DOMAIN c.moves = DOMAIN q /\ \A k \in DOMAIN q : c.moves[k] = Moved(q[k])
  BY <1>3
<1>13. \A k \in DOMAIN q : c.moves[k].from = q[k].from /\ c.moves[k].to = Through({i}, {}, q[k].to)
  BY <1>9, <1>11, <1>12
<1>14. c \in ChangeSet
  <2>1. c.moves \in Seq(AMove)
    <3>1. DOMAIN q = 1 .. Len(q) /\ Len(q) \in Nat
      BY <1>11
    <3>2. c.moves \in [1 .. Len(q) -> AMove]
      BY <1>3, <1>9, <1>11, <3>1
    <3>3. QED BY <3>1, <3>2, FunctionIsASeq
  <2> HIDE DEF Moved
  <2>3. QED BY <1>0, <1>3, <1>6, <1>7, <1>8, <2>1 DEF ChangeSet
<1> HIDE DEF Moved
<1>15. OneEach(c.moves)
  <2>1. \A k \in DOMAIN q : q[k].to \in Nat \ {i}
    BY <1>11 DEF AMove
  <2>3. ASSUME NEW k \in DOMAIN q, NEW l \in DOMAIN q, c.moves[k].to = c.moves[l].to
        PROVE  q[k].to = q[l].to
    <3> DEFINE x == q[k].to
               y == q[l].to
    <3>1. x \in Nat \ {i} /\ y \in Nat \ {i} /\ Through({i}, {}, x) = Through({i}, {}, y)
      BY <1>13, <2>1, <2>3
    <3> HIDE DEF x, y
    <3>2. x = y
      BY <1>1, <3>1, ThroughLaw
    <3>3. QED BY <3>2 DEF x, y
  <2>4. QED BY <1>11, <1>12, <1>13, <2>3 DEF OneEach
<1>16. \A k \in DOMAIN c.moves : Carried(b, {i}, {}, c.moves[k])
  <2>1. ASSUME NEW k \in DOMAIN q PROVE Carried(b, {i}, {}, c.moves[k])
    <3>1. PICK l \in DOMAIN b.moves : q[k] = b.moves[l]
      BY <1>11
    <3>2. b.moves[l].to \notin {i}
      BY <1>11, <3>1
    <3>3. QED BY <1>13, <3>1, <3>2 DEF Carried
  <2>2. QED BY <1>12, <2>1
<1>17. Tells(c, s, t, T)
  BY <1>1, <1>2, <1>4, <1>6, <1>7, <1>8, <1>14, <1>15, <1>16, Carry
<1>18. ASSUME b.deletions \subseteq IndicesOf(s) PROVE c.deletions \subseteq IndicesOf(s)
  <2>1. {i} \subseteq IndicesOf(m) /\ Lined(b.deletions, b.insertions, s, m)
    BY DEF Tells
  <2>2. InsertedAll(ErasedAll({i}, b.insertions), b.deletions) \subseteq IndicesOf(s)
    BY <1>0, <1>1, <1>18, <2>1, ComposeStaysInside
  <2>3. QED BY <1>7, <2>2
<1>19. QED BY <1>17, <1>18 DEF c, t

\* No row twice.
Distinct(s) == \A i, j \in IndicesOf(s) : At(s, i) = At(s, j) => i = j

\* Modify, of the row at i.
LEMMA ModifyTells ==
    ASSUME NEW s \in Seq(Nat), NEW m \in Seq(Nat), NEW T, NEW b, Tells(b, s, m, T),
           Distinct(m), NEW i \in IndicesOf(m)
    PROVE  /\ Tells(Modify(b, i), s, m, T \cup {At(m, i)})
           /\ Modify(b, i).deletions = b.deletions
<1> DEFINE c == Modify(b, i)
           M == b.modifications \cup {i}
<1>0. b \in ChangeSet /\ i \in Nat
  BY DEF Tells, IndicesOf
<1>1. M \in IndexSet
  BY <1>0, FS_AddElement DEF ChangeSet, IndexSet
<1>2. c = [b EXCEPT !.modifications = M]
  BY Zenon DEF Modify
<1> HIDE DEF c, M
<1>3. /\ c \in ChangeSet /\ c.modifications = M /\ c.deletions = b.deletions /\ c.insertions = b.insertions
      /\ c.moves = b.moves
  BY <1>0, <1>1, <1>2 DEF ChangeSet
<1>4. M \subseteq IndicesOf(m)
  BY DEF Tells, M
<1>5. MovesAreTold(c, s, m)
  BY <1>3 DEF Tells, MovesAreTold
<1>6. ASSUME NEW j \in IndicesOf(m), j \notin c.insertions \/ (\E k \in DOMAIN c.moves : c.moves[k].to = j)
      PROVE  j \in M <=> At(m, j) \in T \cup {At(m, i)}
  <2>1. j \in b.modifications <=> At(m, j) \in T
    BY <1>3, <1>6 DEF Tells, ModificationsAreTold
  <2>2. At(m, j) = At(m, i) <=> j = i
    BY DEF Distinct
  <2>3. QED BY <2>1, <2>2 DEF M
<1>7. ModificationsAreTold(c, m, T \cup {At(m, i)})
  BY <1>3, <1>6 DEF ModificationsAreTold
<1>8. QED BY <1>3, <1>4, <1>5, <1>7 DEF Tells, c

\* A change set is its fields.
LEMMA FromFields ==
    ASSUME NEW D \in IndexSet, NEW I \in IndexSet, NEW M \in IndexSet, NEW v \in Seq(AMove), NEW g \in SUBSET AMove
    PROVE  [deletions |-> D, insertions |-> I, modifications |-> M, moves |-> v, mapping |-> g] \in ChangeSet
BY DEF ChangeSet

\* All the rows are deleted, and perhaps more than there were.
LEMMA AllDeleted ==
    ASSUME NEW s \in Seq(Nat), NEW n \in Nat, Len(s) <= n, NEW T, NEW b,
           b = Deleting(0 .. n - 1)
    PROVE  Tells(b, s, <<>>, T)
<1> DEFINE N == 0 .. n - 1
<1>0. N \in IndexSet /\ N \in SUBSET Nat /\ {} \in IndexSet
  <2>1. N \in SUBSET Nat /\ 0 \in Int /\ n - 1 \in Int
    OBVIOUS
  <2>2. IsFiniteSet(N)
    BY <2>1, FS_Interval
  <2> HIDE DEF N
  <2>3. QED BY <2>1, <2>2, NothingShifts DEF IndexSet
<1>1. \A k \in Nat : k <= n => Unshift(N, k) = 0
  <2> DEFINE P == {k \in Nat : k <= n => Unshift(N, k) = 0}
  <2>1. 0 \in P
    BY <1>0, UnshiftStep
  <2>2. ASSUME NEW k \in Nat, k \in P PROVE k + 1 \in P
    <3>1. k + 1 <= n => k \in N
      OBVIOUS
    <3> HIDE DEF N
    <3>2. Unshift(N, k + 1) = IF k \in N THEN Unshift(N, k) ELSE Unshift(N, k) + 1
      BY <1>0, UnshiftStep
    <3>3. QED BY <2>2, <3>1, <3>2
  <2> HIDE DEF P
  <2>3. Nat \subseteq P
    BY <2>1, <2>2, Induction
  <2>4. QED BY <2>3 DEF P
<1> DEFINE e == <<>>
<1>2. e \in Seq(Nat) /\ Len(e) = 0 /\ IndicesOf(e) = {} /\ DOMAIN e = {} /\ e \in Seq(AMove)
  BY DEF IndicesOf
<1>3. \A i \in IndicesOf(s) : i \in N
  BY DEF IndicesOf
<1>4. Unshift(N, Len(s)) = 0 /\ Unshift({}, 0) = 0
  BY <1>1, NothingShifts
<1>5. b = [deletions |-> N, insertions |-> {}, modifications |-> {}, moves |-> e, mapping |-> {}]
  BY DEF Deleting
<1> HIDE DEF N, e
<1>6. Lined(N, {}, s, e)
  BY <1>2, <1>3, <1>4 DEF Lined
<1>7. b \in ChangeSet /\ b.insertions = {} /\ b.modifications = {} /\ b.deletions = N /\ b.moves = e
  <2>1. {} \in SUBSET AMove
    OBVIOUS
  <2>2. b.insertions = {} /\ b.modifications = {} /\ b.deletions = N /\ b.moves = e
    BY <1>5
  <2>3. b \in ChangeSet
    BY <1>0, <1>2, <1>5, <2>1, FromFields, ZenonT(60)
  <2>4. QED BY <2>2, <2>3
<1>8. MovesAreTold(b, s, e) /\ ModificationsAreTold(b, e, T)
  BY <1>2, <1>5 DEF MovesAreTold, ModificationsAreTold, OneEach
<1>9. Tells(b, s, e, T)
  BY <1>6, <1>7, <1>8 DEF Tells
<1>10. QED BY <1>9 DEF e

\* How many rows there were is known from how many there are.
LEMMA SizeBefore ==
    ASSUME NEW s \in Seq(Nat), NEW m \in Seq(Nat), NEW D \in IndexSet, NEW I \in IndexSet, Lined(D, I, s, m),
           D \subseteq IndicesOf(s), I \subseteq IndicesOf(m)
    PROVE  Len(m) + Cardinality(D) - Cardinality(I) = Len(s)
<1>1. ASSUME NEW S \in IndexSet, NEW q \in Seq(Nat), S \subseteq IndicesOf(q)
      PROVE  Unshift(S, Len(q)) = Len(q) - Cardinality(S) /\ Cardinality(S) \in Nat
  <2>1. \A x \in S : x < Len(q)
    BY <1>1 DEF IndicesOf
  <2>2. {x \in S : x < Len(q)} = S
    BY <2>1, Zenon
  <2>3. QED BY <2>2, FS_CardinalityType DEF Unshift, CountBelow, IndexSet
<1>2. Unshift(D, Len(s)) = Unshift(I, Len(m))
  BY DEF Lined
<1>3. Len(s) \in Nat /\ Len(m) \in Nat
  OBVIOUS
<1>4. QED BY <1>1, <1>2, <1>3, SMTT(30)

\* Clear.
LEMMA ClearTells ==
    ASSUME NEW s \in Seq(Nat), NEW m \in Seq(Nat), NEW T, NEW b, Tells(b, s, m, T),
           b.deletions \subseteq IndicesOf(s)
    PROVE  /\ Tells(Clear(b, Len(m)), s, <<>>, T)
           /\ Clear(b, Len(m)).deletions \subseteq IndicesOf(s)
<1> DEFINE c == Clear(b, Len(m))
<1>1. Len(m) + Cardinality(b.deletions) - Cardinality(b.insertions) = Len(s)
  BY SizeBefore DEF Tells, ChangeSet
<1>2. c = Deleting(0 .. Len(s) - 1)
  <2> DEFINE x == Len(m) + Cardinality(b.deletions) - Cardinality(b.insertions) - 1
  <2>1. c = Deleting(0 .. x)
    BY DEF Clear
  <2>2. x = Len(s) - 1
    <3>1. /\ Cardinality(b.deletions) \in Nat /\ Cardinality(b.insertions) \in Nat
          /\ Len(s) \in Nat /\ Len(m) \in Nat
      BY FS_CardinalityType DEF Tells, ChangeSet, IndexSet
    <3>2. QED BY <1>1, <3>1
  <2> HIDE DEF x, c
  <2>3. QED BY <2>1, <2>2
<1> HIDE DEF c
<1>3. Tells(c, s, <<>>, T)
  <2>1. Len(s) \in Nat /\ Len(s) <= Len(s)
    OBVIOUS
  <2>2. QED BY <1>2, <2>1, AllDeleted
<1>4. c.deletions = IndicesOf(s)
  BY <1>2 DEF IndicesOf, Deleting
<1>5. QED BY <1>3, <1>4 DEF c

\* What becomes of a move when a row is moved from one index to another.
MovedOn(p, from, to) ==
    CASE p.to = from                -> Pair(p.from, to)
      [] p.to >= to /\ p.to < from  -> Pair(p.from, p.to + 1)
      [] p.to <= to /\ p.to > from  -> Pair(p.from, p.to - 1)
      [] OTHER                      -> p

\* It ends where the move takes what was at its end.
LEMMA MovedOnLaw ==
    ASSUME NEW p \in AMove, NEW from \in Nat, NEW to \in Nat
    PROVE  /\ MovedOn(p, from, to) \in AMove /\ MovedOn(p, from, to).from = p.from
           /\ MovedOn(p, from, to).to = IF p.to = from THEN to ELSE Through({from}, {to}, p.to)
<1> DEFINE x == p.to
           y == Unshift({from}, x)
<1>0. x \in Nat /\ p.from \in Nat /\ p = [from |-> p.from, to |-> x]
  BY DEF AMove
<1>1. y = IF x <= from THEN x ELSE x - 1
  BY <1>0, SingletonLaw
<1>2. Through({from}, {to}, x) = Shift({to}, y)
  BY DEF Through
<1> HIDE DEF y
<1>3. x # from => y \in Nat
  BY <1>0, <1>1
<1>4. x # from => Shift({to}, y) = IF y < to THEN y ELSE y + 1
  BY <1>3, SingletonLaw
<1>5. CASE x = from
  BY <1>0, <1>5 DEF MovedOn, Pair, AMove
<1>6. CASE x >= to /\ x < from
  BY <1>0, <1>1, <1>2, <1>4, <1>6 DEF MovedOn, Pair, AMove
<1>7. CASE x <= to /\ x > from
  BY <1>0, <1>1, <1>2, <1>4, <1>7 DEF MovedOn, Pair, AMove
<1>8. CASE x # from /\ ~(x >= to /\ x < from) /\ ~(x <= to /\ x > from)
  <2>1. MovedOn(p, from, to) = p
    BY <1>8 DEF MovedOn
  <2>2. Through({from}, {to}, x) = x
    BY <1>0, <1>1, <1>2, <1>4, <1>8
  <2>3. QED BY <1>8, <2>1, <2>2
<1>9. QED BY <1>5, <1>6, <1>7, <1>8

\* Move.
LEMMA MoveTells ==
    ASSUME NEW s \in Seq(Nat), NEW m \in Seq(Nat), NEW T, NEW b, Tells(b, s, m, T),
           NEW from \in IndicesOf(m), NEW to \in IndicesOf(m)
    PROVE  /\ Tells(Move(b, from, to), s, MovedTo(m, from, to), T)
           /\ b.deletions \subseteq IndicesOf(s) => Move(b, from, to).deletions \subseteq IndicesOf(s)
<1> DEFINE t == MovedTo(m, from, to)
           c == Move(b, from, to)
           D1 == b.deletions
           I1 == b.insertions
           M1 == b.modifications
           x == Shift(D1, Unshift(I1, from))
           again == \E k \in DOMAIN b.moves : b.moves[k].to = from
           fresh == ~again /\ from \notin I1
           v == [k \in DOMAIN b.moves |-> MovedOn(b.moves[k], from, to)]
           D == IF fresh THEN AddShifted(D1, Unshift(I1, from)) ELSE D1
           I == InsertedAt(ErasedAt(I1, from), to, 1)
           V == IF fresh THEN Append(v, Pair(x, to)) ELSE v
           M == IF from \in M1 THEN InsertedAt(ErasedAt(M1, from), to, 1)
                ELSE ShiftForInsertAt(ErasedAt(M1, from), to, 1)
<1>0. /\ from \in Nat /\ to \in Nat /\ Len(m) \in Nat /\ b \in ChangeSet /\ M1 \in IndexSet /\ b.moves \in Seq(AMove)
      /\ I1 \in IndexSet /\ D1 \in IndexSet /\ M1 \subseteq IndicesOf(m) /\ MovesAreTold(b, s, m) /\ OneEach(b.moves)
      /\ Lined(I1, D1, m, s)
  BY LinedIsSymmetric DEF Tells, ChangeSet, IndicesOf, MovesAreTold
<1>a. from \in Nat /\ to \in Nat
  BY <1>0
<1>b. D1 \in IndexSet /\ I1 \in IndexSet /\ M1 \in IndexSet
  BY <1>0
<1>c. M1 \subseteq IndicesOf(m)
  BY <1>0
<1>d. b.moves \in Seq(AMove)
  BY <1>0
<1>1. {from} \in IndexSet /\ {to} \in IndexSet
  BY <1>0, SingletonLaw
<1>2. t \in Seq(Nat) /\ Lined({from}, {to}, m, t) /\ At(t, to) = At(m, from) /\ {to} \subseteq IndicesOf(t)
  BY MoveIsLined DEF IndicesOf
<1>3. c.modifications = M /\ c.insertions = I /\ c.deletions = D /\ c.moves = V /\ c.mapping = b.mapping
  <2>1. c = [b EXCEPT !.insertions = I, !.deletions = D, !.moves = V, !.modifications = M]
    BY Zenon DEF Move, MapMoves, MovedOn
  <2> HIDE DEF M, I, D, V, c
  <2>2. QED BY <1>0, <2>1 DEF ChangeSet
<1>4. c = [deletions |-> c.deletions, insertions |-> c.insertions, modifications |-> c.modifications,
           moves |-> c.moves, mapping |-> c.mapping] /\ c.mapping \in SUBSET AMove
  <2>1. c = [b EXCEPT !.insertions = I, !.deletions = D, !.moves = V, !.modifications = M]
    BY Zenon DEF Move, MapMoves, MovedOn
  <2> HIDE DEF M, I, D, V, c
  <2>2. QED BY <1>0, <1>3, <2>1 DEF ChangeSet
<1> HIDE DEF t, c
<1>5. fresh <=> from \notin I1
  BY <1>0 DEF MovesAreTold
<1>6. D = InsertedAll(ErasedAll({from}, I1), D1) /\ D \in IndexSet
  <2> HIDE DEF D1, I1, fresh
  <2>1. /\ InsertedAll(ErasedAll({from}, I1), D1) = IF from \in I1 THEN D1 ELSE AddShifted(D1, Unshift(I1, from))
        /\ InsertedAll(ErasedAll({from}, I1), D1) \in IndexSet
    BY <1>a, <1>b, DeleteOne
  <2>2. D = IF from \in I1 THEN D1 ELSE AddShifted(D1, Unshift(I1, from))
    BY <1>5
  <2> HIDE DEF D
  <2>3. QED BY <2>1, <2>2
<1>7. I = InsertedAll(ErasedAll(I1, {from}), {to}) /\ I \in IndexSet
  <2> HIDE DEF I1
  <2>1. ErasedAt(I1, from) = ErasedAll(I1, {from}) /\ ErasedAll(I1, {from}) \in IndexSet
    BY <1>a, <1>b, <1>1, OneIndex, ErasedAllLaw
  <2> DEFINE E == ErasedAll(I1, {from})
  <2>2. I = InsertedAt(E, to, 1)
    BY <2>1
  <2>3. E \in IndexSet
    BY <2>1
  <2> HIDE DEF I, E
  <2>4. InsertedAt(E, to, 1) = InsertedAll(E, {to}) /\ InsertedAll(E, {to}) \in IndexSet
    BY <1>a, <1>1, <2>3, OneIndex, InsertedAllLaw
  <2>5. QED BY <2>2, <2>4 DEF E
<1>8. /\ M \in IndexSet /\ M \subseteq IndicesOf(t)
      /\ \A j \in IndicesOf(t) \ {to} : j \in M <=> Through({to}, {from}, j) \in M1
      /\ to \in M <=> from \in M1
  <2> DEFINE E == ErasedAll(M1, {from})
  <2> HIDE DEF M1
  <2>1. ErasedAt(M1, from) = E /\ E \in IndexSet
    BY <1>a, <1>b, <1>1, OneIndex, ErasedAllLaw
  <2>2. /\ InsertedAll(ErasedAll(M1, {from}), {to}) \in IndexSet
        /\ InsertedAll(ErasedAll(M1, {from}), {to}) \subseteq IndicesOf(t)
        /\ ShiftForAll(ErasedAll(M1, {from}), {to}) \in IndexSet
        /\ ShiftForAll(ErasedAll(M1, {from}), {to}) \subseteq IndicesOf(t)
        /\ \A j \in IndicesOf(t) \ {to} :
              j \in ShiftForAll(ErasedAll(M1, {from}), {to}) <=> Through({to}, {from}, j) \in M1
    <3> HIDE DEF M, E
    <3>1. M1 \in IndexSet /\ {to} \subseteq IndicesOf(t) /\ Lined({from}, {to}, m, t) /\ t \in Seq(Nat)
      BY <1>b, <1>2
    <3>2. QED BY <1>c, <1>1, <3>1, MarksStayInside
  <2> HIDE DEF E
  <2>3. M = IF from \in M1 THEN InsertedAll(E, {to}) ELSE ShiftForAll(E, {to})
    BY <1>a, <2>1, OneIndex
  <2>4. InsertedAll(E, {to}) = ShiftForAll(E, {to}) \cup {to} /\ to \notin ShiftForAll(E, {to})
    BY <1>1, <2>1, ShiftForAllLaw DEF InsertedAll
  <2> HIDE DEF M
  <2>5. E = ErasedAll(M1, {from})
    BY DEF E
  <2>6. QED BY <2>2, <2>3, <2>4, <2>5
<1> HIDE DEF D, I, M
<1>9. /\ DOMAIN b.moves = 1 .. Len(b.moves) /\ Len(b.moves) \in Nat
      /\ \A k \in DOMAIN b.moves : b.moves[k] \in AMove /\ b.moves[k].to \in Nat
  <2> DEFINE B == b.moves
  <2>1. DOMAIN B = 1 .. Len(B) /\ Len(B) \in Nat /\ \A k \in DOMAIN B : B[k] \in AMove
    BY <1>d
  <2>2. \A p \in AMove : p.to \in Nat
    BY DEF AMove
  <2> HIDE DEF B
  <2>3. \A k \in DOMAIN B : B[k] \in AMove /\ B[k].to \in Nat
    BY <2>1, <2>2
  <2>4. QED BY <2>1, <2>3 DEF B
<1>10. /\ DOMAIN v = DOMAIN b.moves
       /\ \A k \in DOMAIN b.moves :
             /\ v[k] \in AMove /\ v[k].from = b.moves[k].from
             /\ v[k].to = IF b.moves[k].to = from THEN to ELSE Through({from}, {to}, b.moves[k].to)
  <2>1. DOMAIN v = DOMAIN b.moves /\ \A k \in DOMAIN b.moves : v[k] = MovedOn(b.moves[k], from, to)
    OBVIOUS
  <2> HIDE DEF v
  <2>2. \A p \in AMove : /\ MovedOn(p, from, to) \in AMove /\ MovedOn(p, from, to).from = p.from
                         /\ MovedOn(p, from, to).to = IF p.to = from THEN to ELSE Through({from}, {to}, p.to)
    BY <1>a, MovedOnLaw
  <2>3. QED BY <1>9, <2>1, <2>2
<1>11. v \in Seq(AMove) /\ Len(v) = Len(b.moves)
  <2>1. v \in [1 .. Len(b.moves) -> AMove]
    BY <1>9, <1>10
  <2>2. QED BY <1>9, <2>1, FunctionIsASeq
<1> HIDE DEF v
<1>12. ASSUME NEW y \in Nat \ {from}, NEW z \in Nat \ {from}
       PROVE  /\ Through({from}, {to}, y) # to
              /\ Through({from}, {to}, y) = Through({from}, {to}, z) => y = z
  BY <1>1, ThroughLaw
<1>13. OneEach(v)
  <2>1. ASSUME NEW k \in DOMAIN b.moves, NEW l \in DOMAIN b.moves, v[k].to = v[l].to
        PROVE  b.moves[k].to = b.moves[l].to
    <3> DEFINE y == b.moves[k].to
               z == b.moves[l].to
    <3>1. y \in Nat /\ z \in Nat
      BY <1>9
    <3>2. (IF y = from THEN to ELSE Through({from}, {to}, y)) = (IF z = from THEN to ELSE Through({from}, {to}, z))
      BY <1>10, <2>1
    <3> HIDE DEF y, z
    <3>3. y = z
      BY <1>12, <3>1, <3>2
    <3>4. QED BY <3>3 DEF y, z
  <2>2. QED BY <1>0, <1>10, <2>1 DEF OneEach
<1>14. from \notin I1 => x \in IndicesOf(s) \ D1 /\ At(m, from) = At(s, x)
  <2> HIDE DEF D1, I1
  <2>1. QED BY <1>0, Partner
<1>15. D1 \subseteq D /\ (fresh => x \in D)
  <2>1. D = IF fresh THEN D1 \cup {x} ELSE D1
    BY DEF AddShifted, D
  <2>2. QED BY <2>1
<1>16. /\ V \in Seq(AMove)
       /\ \A k \in DOMAIN V : (k \in DOMAIN v /\ V[k] = v[k]) \/ (fresh /\ k = Len(v) + 1 /\ V[k] = Pair(x, to))
  <2>1. CASE fresh
    <3>1. x \in Nat
      BY <1>5, <1>14, <2>1 DEF IndicesOf
    <3> DEFINE p == Pair(x, to)
    <3>2. p \in AMove
      BY <1>0, <3>1 DEF Pair, AMove
    <3> HIDE DEF p
    <3>3. V = Append(v, p)
      BY <2>1 DEF p
    <3> HIDE DEF V
    <3>4. V \in Seq(AMove) /\ \A k \in DOMAIN V : (k \in DOMAIN v /\ V[k] = v[k]) \/ (k = Len(v) + 1 /\ V[k] = p)
      <4>1. v \in Seq(AMove)
        BY <1>11
      <4>2. /\ V \in Seq(AMove) /\ Len(V) = Len(v) + 1
            /\ \A k \in 1 .. Len(v) : V[k] = v[k]
            /\ V[Len(v) + 1] = p
        BY <3>2, <3>3, <4>1, AppendProperties
      <4>3. Len(v) \in Nat /\ DOMAIN v = 1 .. Len(v) /\ DOMAIN V = 1 .. Len(V)
        BY <4>1, <4>2
      <4>4. QED BY <4>2, <4>3
    <3>5. Pair(x, to) = p
      BY DEF p
    <3> HIDE DEF fresh, V
    <3>6. QED BY <2>1, <3>4, <3>5
  <2>2. CASE ~fresh
    <3>1. V = v
      BY <2>2
    <3> HIDE DEF V, fresh, x
    <3>2. v \in Seq(AMove)
      BY <1>11
    <3>3. \A k \in DOMAIN V : k \in DOMAIN v /\ V[k] = v[k]
      BY <3>1
    <3>4. QED BY <3>1, <3>2, <3>3
  <2>3. QED BY <2>1, <2>2
<1> HIDE DEF V
<1>17. Pair(x, to).from = x /\ Pair(x, to).to = to
  BY DEF Pair
<1>18. ASSUME fresh, NEW k \in DOMAIN v PROVE v[k].from # x /\ v[k].to # to
  <2>1. v[k].from \in D1
    BY <1>0, <1>10 DEF MovesAreTold
  <2>2. b.moves[k].to \in Nat \ {from}
    BY <1>9, <1>10, <1>18
  <2>3. v[k].to = Through({from}, {to}, b.moves[k].to)
    BY <1>10, <2>2
  <2>4. v[k].to # to
    <3> DEFINE y == b.moves[k].to
    <3>1. y \in Nat \ {from} /\ v[k].to = Through({from}, {to}, y)
      BY <2>2, <2>3
    <3> HIDE DEF y
    <3>2. QED BY <1>12, <3>1
  <2>5. QED BY <1>5, <1>14, <1>18, <2>1, <2>4
<1> HIDE DEF x, fresh
<1>19. OneEach(V)
  BY <1>13, <1>16, <1>17, <1>18 DEF OneEach
<1>20. ASSUME NEW k \in DOMAIN V
       PROVE  Carried(b, {from}, {to}, V[k]) \/ Arrived(c, s, t, {to}, T, V[k])
  <2>1. from \notin I1 \/ again => (to \in M <=> At(t, to) \in T)
    BY <1>2, <1>8 DEF Tells, ModificationsAreTold
  <2>2. CASE k \in DOMAIN v /\ V[k] = v[k] /\ b.moves[k].to = from
    <3>1. V[k].from = b.moves[k].from /\ V[k].to = to
      BY <1>10, <2>2
    <3>2. V[k].from \in D \cap IndicesOf(s) /\ At(s, V[k].from) = At(t, to)
      BY <1>0, <1>2, <1>10, <1>15, <2>2, <3>1 DEF MovesAreTold
    <3>3. to \in M <=> At(t, to) \in T
      BY <1>10, <2>1, <2>2
    <3>4. QED BY <1>3, <3>1, <3>2, <3>3 DEF Arrived
  <2>3. CASE k \in DOMAIN v /\ V[k] = v[k] /\ b.moves[k].to # from
    BY <1>10, <2>3 DEF Carried
  <2>4. CASE fresh /\ V[k] = Pair(x, to)
    <3>1. x \in D \cap IndicesOf(s) /\ At(s, x) = At(t, to)
      BY <1>2, <1>5, <1>14, <1>15, <2>4
    <3>2. to \in M <=> At(t, to) \in T
      BY <1>5, <2>1, <2>4
    <3>3. V[k].from = x /\ V[k].to = to
      BY <1>17, <2>4
    <3>4. QED BY <1>3, <3>1, <3>2, <3>3 DEF Arrived
  <2>5. QED BY <1>16, <2>2, <2>3, <2>4
<1>21. c \in ChangeSet
  BY <1>3, <1>4, <1>6, <1>7, <1>8, <1>16 DEF ChangeSet
<1> HIDE DEF M1, D1, I1
<1>22. Tells(c, s, t, T)
  <2>1. c.deletions = InsertedAll(ErasedAll({from}, b.insertions), b.deletions)
    BY <1>3, <1>6 DEF D1, I1
  <2>2. c.insertions = InsertedAll(ErasedAll(b.insertions, {from}), {to})
    BY <1>3, <1>7 DEF I1
  <2>3. \A j \in IndicesOf(t) \ {to} : j \in c.modifications <=> Through({to}, {from}, j) \in b.modifications
    BY <1>3, <1>8 DEF M1
  <2>4. c.modifications \subseteq IndicesOf(t) /\ OneEach(c.moves)
    BY <1>3, <1>8, <1>19
  <2>5. \A k \in DOMAIN c.moves : Carried(b, {from}, {to}, c.moves[k]) \/ Arrived(c, s, t, {to}, T, c.moves[k])
    BY <1>3, <1>20
  <2>6. QED BY <1>1, <1>2, <1>21, <2>1, <2>2, <2>3, <2>4, <2>5, Carry
<1>23. ASSUME b.deletions \subseteq IndicesOf(s) PROVE c.deletions \subseteq IndicesOf(s)
  <2>1. {from} \subseteq IndicesOf(m) /\ Lined(D1, I1, s, m) /\ D1 \subseteq IndicesOf(s)
    BY <1>23 DEF Tells, D1, I1
  <2>2. InsertedAll(ErasedAll({from}, I1), D1) \subseteq IndicesOf(s)
    BY <1>0, <1>1, <2>1, ComposeStaysInside
  <2>3. QED BY <1>3, <1>6, <2>2
<1>24. QED BY <1>22, <1>23 DEF c, t

\* The moves that are left tell the rows that were moved, and of those that are
\* not, what they told before.
LEMMA CleanedTells ==
    ASSUME NEW s \in Seq(Nat), NEW t \in Seq(Nat), NEW T, NEW b, Tells(b, s, t, T),
           NEW x \in ChangeSet, x.moves = b.moves, x.insertions = b.insertions,
           NEW y, Cleaned(x, y, s, t),
           NEW c \in ChangeSet, c.deletions = y.deletions, c.insertions = y.insertions, c.moves = y.moves,
           c.modifications = b.modifications
    PROVE  Tells(c, s, t, T)
<1>1. /\ y.insertions \subseteq x.insertions /\ Lined(y.deletions, y.insertions, s, t) /\ MovesAreTold(y, s, t)
      /\ \A i \in x.insertions \ y.insertions : \E k \in DOMAIN x.moves : x.moves[k].to = i
      /\ \A q \in DOMAIN y.moves : \E k \in DOMAIN x.moves : y.moves[q] = x.moves[k]
  BY DEF Cleaned
<1>2. c.insertions \subseteq IndicesOf(t) /\ c.modifications \subseteq IndicesOf(t)
  BY <1>1 DEF Tells
<1>3. MovesAreTold(c, s, t)
  BY <1>1 DEF MovesAreTold
<1>4. ASSUME NEW i \in IndicesOf(t), i \notin c.insertions \/ (\E k \in DOMAIN c.moves : c.moves[k].to = i)
      PROVE  i \in c.modifications <=> At(t, i) \in T
  <2>1. i \notin b.insertions \/ (\E k \in DOMAIN b.moves : b.moves[k].to = i)
    BY <1>1, <1>4
  <2>2. QED BY <2>1 DEF Tells, ModificationsAreTold
<1>5. ModificationsAreTold(c, t, T)
  BY <1>4 DEF ModificationsAreTold
<1>6. QED BY <1>1, <1>2, <1>3, <1>5 DEF Tells

\* CleanUpStaleMoves.
LEMMA CleanUpTells ==
    ASSUME NEW s \in Seq(Nat), NEW t \in Seq(Nat), NEW T, NEW b, Tells(b, s, t, T)
    PROVE  /\ Tells(CleanUpStaleMoves(b), s, t, T)
           /\ CleanUpStaleMoves(b).deletions \subseteq b.deletions
<1> DEFINE c == CleanUpStaleMoves(b)
<1>1. b \in ChangeSet
  BY DEF Tells
<1>2. Cleaned(b, c, s, t)
  BY <1>1, CleanUpLaw DEF Tells
<1> HIDE DEF c
<1>3. c \in ChangeSet /\ c.modifications = b.modifications /\ c.deletions \subseteq b.deletions
  BY <1>2 DEF Cleaned
<1>4. Tells(c, s, t, T)
  BY <1>1, <1>2, <1>3, CleanedTells
<1>5. QED BY <1>3, <1>4 DEF c

-----------------------------------------------------------------------------
(* What becomes of the moves of the earlier of two change sets             *)

\* q without what is at k, which the last takes the place of.
TakenOut(q, k) == Front([q EXCEPT ![k] = Last(q)])

\* The others are still there, each once.
LEMMA TakenOutLaw ==
    ASSUME NEW q \in Seq(AMove), NEW k \in DOMAIN q
    PROVE  /\ TakenOut(q, k) \in Seq(AMove)
           /\ \A j \in DOMAIN TakenOut(q, k) : \E l \in DOMAIN q : l # k /\ TakenOut(q, k)[j] = q[l]
           /\ OneEach(q) => OneEach(TakenOut(q, k))
<1> DEFINE n == Len(q)
           z == [q EXCEPT ![k] = q[n]]
           u == TakenOut(q, k)
           At1(j) == IF j = k THEN n ELSE j
<1>1. n \in Nat /\ DOMAIN q = 1 .. n /\ k \in 1 .. n /\ n >= 1 /\ q[n] \in AMove
  BY DEF Last
<1>2. z \in [1 .. n -> AMove] /\ z \in Seq(AMove) /\ Len(z) = n
  <2>1. z \in [1 .. n -> AMove]
    BY <1>1
  <2> HIDE DEF z, n
  <2>2. QED BY <1>1, <2>1, FunctionIsASeq
<1>3. u = SubSeq(z, 1, n - 1)
  <2>1. u = SubSeq(z, 1, Len(z) - 1)
    BY DEF TakenOut, Front, Last
  <2>2. QED BY <1>2, <2>1
<1>4. \A j \in 1 .. n : z[j] = q[At1(j)]
  BY <1>1
<1> HIDE DEF z, n, u
<1>5. u \in Seq(AMove) /\ DOMAIN u = 1 .. n - 1 /\ \A j \in 1 .. n - 1 : u[j] = z[j]
  <2>1. n - 1 \in 0 .. n
    BY <1>1
  <2>2. \A i \in 1 .. n - 1 : z[i] \in AMove
    BY <1>1, <1>2
  <2>3. u \in Seq(AMove) /\ Len(u) = n - 1 /\ \A j \in 1 .. n - 1 : u[j] = z[j]
    BY <1>1, <1>2, <1>3, <2>1, <2>2
  <2>4. QED BY <2>3
<1>6. ASSUME NEW j \in 1 .. n - 1 PROVE At1(j) \in 1 .. n /\ At1(j) # k /\ u[j] = q[At1(j)]
  BY <1>1, <1>4, <1>5
<1>7. \A i, j \in 1 .. n - 1 : At1(i) = At1(j) => i = j
  BY <1>1
<1>8. OneEach(q) => OneEach(u)
  BY <1>1, <1>5, <1>6, <1>7 DEF OneEach
<1>9. QED BY <1>1, <1>5, <1>6, <1>8 DEF u

FollowState == [moves : Seq(AMove), later : Seq(AMove), modifications : IndexSet]

\* What following one move does: it is joined with a later one, its row was
\* deleted, or it is carried on.
Joined(r, p, a, u) ==
    \E l \in DOMAIN r.later :
       /\ r.later[l].from = p.to
       /\ u.moves = Append(r.moves, Pair(p.from, r.later[l].to))
       /\ u.later = TakenOut(r.later, l)
       /\ u.modifications = r.modifications \cup (IF r.later[l].from \in a.modifications THEN {r.later[l].to} ELSE {})
CarriedOn(r, p, c, u) ==
    /\ p.to \notin c.deletions
    /\ u.moves = Append(r.moves, Pair(p.from, Through(c.deletions, c.insertions, p.to)))
    /\ u.later = r.later /\ u.modifications = r.modifications

\* Those are what can become of a move.
LEMMA FollowMoveLaw ==
    ASSUME NEW r \in FollowState, NEW p \in AMove, NEW a \in ChangeSet, NEW c \in ChangeSet
    PROVE  LET u == FollowMove(r, p, a, c)
           IN  u \in FollowState /\ (Joined(r, p, a, u) \/ u = r \/ CarriedOn(r, p, c, u))
<1> DEFINE K == {k \in DOMAIN r.later : r.later[k].from = p.to}
           u == FollowMove(r, p, a, c)
<1>1. r.moves \in Seq(AMove) /\ r.later \in Seq(AMove) /\ r.modifications \in IndexSet /\ p.from \in Nat /\ p.to \in Nat
  BY DEF FollowState, AMove
<1>2. CASE K # {}
  <2> DEFINE k == CHOOSE k \in K : TRUE
             n == r.later[k]
             V == Append(r.moves, Pair(p.from, n.to))
             L == TakenOut(r.later, k)
             M == r.modifications \cup (IF n.from \in a.modifications THEN {n.to} ELSE {})
  <2>1. u = [moves |-> V, later |-> L, modifications |-> M]
    BY <1>2, Zenon DEF FollowMove, TakenOut
  <2>2. k \in K
    BY <1>2
  <2> HIDE DEF k, u
  <2>3. n \in AMove /\ n.to \in Nat /\ n.from = p.to /\ k \in DOMAIN r.later
    <3>1. n \in AMove /\ n.from = p.to /\ k \in DOMAIN r.later
      BY <1>1, <2>2
    <3> HIDE DEF n
    <3>2. QED BY <3>1 DEF AMove
  <2>4. V \in Seq(AMove)
    <3>1. Pair(p.from, n.to) \in AMove
      BY <1>1, <2>3 DEF Pair, AMove
    <3>2. QED BY <1>1, <3>1
  <2>5. L \in Seq(AMove)
    BY <1>1, <2>3, TakenOutLaw
  <2>6. M \in IndexSet
    <3>1. \A S \in IndexSet, i \in Nat : S \cup {i} \in IndexSet
      BY FS_AddElement DEF IndexSet
    <3>2. r.modifications \cup {} = r.modifications
      OBVIOUS
    <3>3. CASE n.from \in a.modifications
      BY <1>1, <2>3, <3>1, <3>3
    <3>4. CASE n.from \notin a.modifications
      BY <1>1, <3>2, <3>4
    <3>5. QED BY <3>3, <3>4
  <2> HIDE DEF V, L, M
  <2>7. u \in FollowState /\ u.moves = V /\ u.later = L /\ u.modifications = M
    BY <2>1, <2>4, <2>5, <2>6 DEF FollowState
  <2>8. Joined(r, p, a, u)
    BY <2>3, <2>7 DEF Joined, V, L, M
  <2>9. QED BY <2>7, <2>8 DEF u
<1>3. CASE K = {} /\ p.to \in c.deletions
  <2>1. u = r
    BY <1>3, Zenon DEF FollowMove
  <2>2. QED BY <2>1
<1>4. CASE K = {} /\ p.to \notin c.deletions
  <2> DEFINE x == Through(c.deletions, c.insertions, p.to)
             V == Append(r.moves, Pair(p.from, x))
  <2>1. u = [r EXCEPT !.moves = V]
    BY <1>4, Zenon DEF FollowMove, Through
  <2>2. x \in Nat
    <3>1. c.deletions \in IndexSet /\ c.insertions \in IndexSet /\ p.to \in Nat \ c.deletions
      BY <1>1, <1>4 DEF ChangeSet
    <3>2. QED BY <3>1, ThroughLaw
  <2> HIDE DEF x, u
  <2>3. V \in Seq(AMove)
    <3>1. Pair(p.from, x) \in AMove
      BY <1>1, <2>2 DEF Pair, AMove
    <3>2. QED BY <1>1, <3>1
  <2> HIDE DEF V
  <2>4. u \in FollowState /\ u.moves = V /\ u.later = r.later /\ u.modifications = r.modifications
    BY <2>1, <2>3 DEF FollowState
  <2>5. CarriedOn(r, p, c, u)
    BY <1>4, <2>4 DEF CarriedOn, V, x
  <2>6. QED BY <2>4, <2>5 DEF u
<1>5. QED BY <1>2, <1>3, <1>4

\* FollowMoves follows the moves one after the other.
LEMMA FollowSteps ==
    ASSUME NEW a \in ChangeSet, NEW c \in ChangeSet
    PROVE  \E g : /\ g[0] = [moves |-> <<>>, later |-> c.moves, modifications |-> c.modifications]
                  /\ \A k \in Nat : k < Len(a.moves) => g[k + 1] = FollowMove(g[k], a.moves[k + 1], a, c)
                  /\ FollowMoves(a, c) = g[Len(a.moves)]
<1> DEFINE moves == a.moves
           n == Len(moves)
           start == [moves |-> <<>>, later |-> c.moves, modifications |-> c.modifications]
           IsFold(h) == h = [T \in SUBSET DOMAIN moves |->
                               IF T = {} THEN start ELSE FollowMove(h[T \ {Max(T)}], moves[Max(T)], a, c)]
           H == CHOOSE h : IsFold(h)
           g == [k \in Nat |-> H[1 .. k]]
<1>1. n \in Nat /\ DOMAIN moves = 1 .. n /\ \A k \in 1 .. n : moves[k] \in AMove
  BY DEF ChangeSet
<1>2. FollowMoves(a, c) = H[DOMAIN moves]
  BY Zenon DEF FollowMoves, FoldLeft, MapThenFoldSet
<1>s. start \in FollowState
  <2>1. <<>> \in Seq(AMove)
    OBVIOUS
  <2>2. c.moves \in Seq(AMove) /\ c.modifications \in IndexSet
    BY DEF ChangeSet
  <2>3. QED BY <2>1, <2>2 DEF FollowState
<1> HIDE DEF moves, start
<1>3. \E h : IsFold(h)
  <2> DEFINE F == [k \in 1 .. n |-> [r \in FollowState |-> FollowMove(r, moves[k], a, c)]]
  <2>1. F \in [1 .. n -> [FollowState -> FollowState]]
    BY <1>1, FollowMoveLaw
  <2> HIDE DEF n, F
  <2>b. HasFold(n, FollowState, start, F)
    BY <1>1, <1>s, <2>1, FoldExists
  <2>2. PICK h \in [SUBSET (1 .. n) -> FollowState] :
           \A T \in SUBSET (1 .. n) : h[T] = IF T = {} THEN start ELSE F[Max(T)][h[T \ {Max(T)}]]
    BY <2>b DEF HasFold
  <2>3. ASSUME NEW T \in SUBSET (1 .. n), T # {}
        PROVE  F[Max(T)][h[T \ {Max(T)}]] = FollowMove(h[T \ {Max(T)}], moves[Max(T)], a, c)
    <3>1. Max(T) \in 1 .. n
      <4>1. T \in IndexSet
        <5>1. IsFiniteSet(1 .. n)
          BY <1>1, FS_Interval
        <5>2. IsFiniteSet(T)
          BY <5>1, FS_Subset
        <5>3. QED BY <5>2 DEF IndexSet
      <4>2. QED BY <2>3, <4>1, GreatestOf
    <3>2. h[T \ {Max(T)}] \in FollowState
      <4>1. T \ {Max(T)} \in SUBSET (1 .. n)
        OBVIOUS
      <4>2. QED BY <4>1
    <3>3. QED BY <3>1, <3>2 DEF F
  <2>4. h = [T \in SUBSET (1 .. n) |-> h[T]]
    OBVIOUS
  <2>5. IsFold(h)
    BY <1>1, <2>2, <2>3, <2>4, Zenon
  <2>6. QED BY <2>5
<1>4. IsFold(H)
  BY <1>3, Zenon
<1> HIDE DEF H
<1>5. g[0] = start
  <2>1. H[{}] = start
    BY <1>4, Zenon
  <2>2. g[0] = H[1 .. 0] /\ 1 .. 0 = {}
    BY FirstIndices
  <2>3. QED BY <2>1, <2>2
<1>6. ASSUME NEW k \in Nat, k < n PROVE g[k + 1] = FollowMove(g[k], moves[k + 1], a, c)
  <2>1. 1 .. k + 1 \in SUBSET DOMAIN moves /\ 1 .. k + 1 # {} /\ Max(1 .. k + 1) = k + 1 /\ (1 .. k + 1) \ {k + 1} = 1 .. k
    <3>1. 1 .. k + 1 \in SUBSET DOMAIN moves
      BY <1>1, <1>6
    <3>2. QED BY <3>1, FirstIndices, Zenon
  <2>2. H[1 .. k + 1] = FollowMove(H[1 .. k], moves[k + 1], a, c)
    BY <1>4, <2>1, Zenon
  <2>3. g[k] = H[1 .. k] /\ g[k + 1] = H[1 .. k + 1]
    OBVIOUS
  <2>4. QED BY <2>2, <2>3
<1>7. FollowMoves(a, c) = g[n]
  BY <1>1, <1>2
<1> HIDE DEF g
<1>8. QED BY <1>5, <1>6, <1>7 DEF moves, start

\* One more move, of indices no other move has, leaves no index in two moves.
LEMMA AppendOne ==
    ASSUME NEW v \in Seq(AMove), NEW p \in AMove
    PROVE  /\ Append(v, p) \in Seq(AMove)
           /\ \A q \in DOMAIN Append(v, p) : (q \in DOMAIN v /\ Append(v, p)[q] = v[q]) \/ Append(v, p)[q] = p
           /\ OneEach(v) /\ (\A q \in DOMAIN v : v[q].from # p.from /\ v[q].to # p.to) => OneEach(Append(v, p))
<1> DEFINE u == Append(v, p)
<1>1. u \in Seq(AMove) /\ Len(u) = Len(v) + 1 /\ (\A q \in 1 .. Len(v) : u[q] = v[q]) /\ u[Len(v) + 1] = p
  BY AppendProperties
<1>2. Len(v) \in Nat /\ DOMAIN v = 1 .. Len(v) /\ DOMAIN u = 1 .. Len(u)
  BY <1>1
<1> HIDE DEF u
<1>3. \A q \in DOMAIN u : (q \in DOMAIN v /\ u[q] = v[q]) \/ (q = Len(v) + 1 /\ u[q] = p)
  BY <1>1, <1>2
<1>4. ASSUME OneEach(v), \A q \in DOMAIN v : v[q].from # p.from /\ v[q].to # p.to PROVE OneEach(u)
  BY <1>3, <1>4 DEF OneEach
<1>5. QED BY <1>1, <1>3, <1>4 DEF u

\* How p came of o, a move of a: c moves the row again, or does not touch it.
IsJoined(p, o, a, c, M) ==
    \E l \in DOMAIN c.moves : /\ c.moves[l].from = o.to /\ p.to = c.moves[l].to
                              /\ o.to \in a.modifications => p.to \in M
IsCarriedOn(p, o, c) == o.to \notin c.deletions /\ p.to = Through(c.deletions, c.insertions, o.to)

\* When the first k moves of a were followed.
Following(k, r, a, c) ==
    /\ r \in FollowState
    /\ \A q \in DOMAIN r.moves : \E j \in 1 .. k :
          /\ r.moves[q].from = a.moves[j].from
          /\ IsJoined(r.moves[q], a.moves[j], a, c, r.modifications) \/ IsCarriedOn(r.moves[q], a.moves[j], c)
    /\ OneEach(r.moves)
    /\ OneEach(r.later)
    /\ \A j \in DOMAIN r.later : \E l \in DOMAIN c.moves : r.later[j] = c.moves[l]
    /\ \A q \in DOMAIN r.moves, j \in DOMAIN r.later : r.moves[q].to # r.later[j].to
    /\ c.modifications \subseteq r.modifications
    /\ \A i \in r.modifications \ c.modifications :
          \E l \in DOMAIN c.moves : c.moves[l].to = i /\ c.moves[l].from \in a.modifications

\* All the moves were followed: induction over those of a.
LEMMA FollowLaw ==
    ASSUME NEW a \in ChangeSet, NEW c \in ChangeSet, OneEach(a.moves), OneEach(c.moves),
           \A l \in DOMAIN c.moves : c.moves[l].to \in c.insertions
    PROVE  Following(Len(a.moves), FollowMoves(a, c), a, c)
<1> DEFINE moves == a.moves
           n == Len(moves)
<1>0. n \in Nat /\ DOMAIN moves = 1 .. n /\ \A k \in 1 .. n : moves[k] \in AMove
  BY DEF ChangeSet
<1>1. PICK g : /\ g[0] = [moves |-> <<>>, later |-> c.moves, modifications |-> c.modifications]
               /\ \A k \in Nat : k < n => g[k + 1] = FollowMove(g[k], moves[k + 1], a, c)
               /\ FollowMoves(a, c) = g[n]
  BY FollowSteps
<1>2. /\ c.moves \in Seq(AMove) /\ c.modifications \in IndexSet /\ c.deletions \in IndexSet /\ c.insertions \in IndexSet
      /\ OneEach(moves)
  BY DEF ChangeSet
<1> HIDE DEF n
<1> DEFINE P == {k \in Nat : k <= n => Following(k, g[k], a, c)}
<1>3. 0 \in P
  <2>1. <<>> \in Seq(AMove) /\ DOMAIN <<>> = {}
    OBVIOUS
  <2>2. g[0] \in FollowState /\ g[0].moves = <<>> /\ g[0].later = c.moves /\ g[0].modifications = c.modifications
    BY <1>1, <1>2, <2>1 DEF FollowState
  <2>3. Following(0, g[0], a, c)
    BY <2>1, <2>2 DEF Following, OneEach
  <2>4. QED BY <2>3
<1>4. ASSUME NEW k \in Nat, k \in P PROVE k + 1 \in P
  <2>0. k + 1 \in Nat /\ (k + 1 <= n => k <= n /\ k < n /\ k + 1 \in 1 .. n)
    BY <1>0
  <2> SUFFICES ASSUME k + 1 <= n PROVE Following(k + 1, g[k + 1], a, c)
    BY <2>0, Zenon
  <2> DEFINE r == g[k]
             u == g[k + 1]
             o == moves[k + 1]
  <2>1. Following(k, r, a, c)
    BY <1>4, <2>0, Zenon
  <2>2. o \in AMove /\ o.from \in Nat /\ o.to \in Nat
    <3>1. \A x \in AMove : x.from \in Nat /\ x.to \in Nat
      BY DEF AMove
    <3>2. o \in AMove
      BY <1>0, <2>0
    <3> HIDE DEF o
    <3>3. QED BY <3>1, <3>2
  <2>3. \A j \in 1 .. k : moves[j].from # o.from /\ moves[j].to # o.to
    BY <1>0, <1>2, <2>0 DEF OneEach
  <2>a. \A j \in 1 .. k : moves[j] \in AMove /\ moves[j].to \in Nat
    <3>1. \A x \in AMove : x.to \in Nat
      BY DEF AMove
    <3>2. \A j \in 1 .. k : moves[j] \in AMove
      BY <1>0, <2>0
    <3>3. QED BY <3>1, <3>2
  <2> HIDE DEF P, r
  <2>4. /\ r \in FollowState /\ OneEach(r.moves) /\ OneEach(r.later)
        /\ \A j \in DOMAIN r.later : \E l \in DOMAIN c.moves : r.later[j] = c.moves[l]
        /\ \A q \in DOMAIN r.moves, j \in DOMAIN r.later : r.moves[q].to # r.later[j].to
    BY <2>1 DEF Following
  <2>5. \A q \in DOMAIN r.moves : \E j \in 1 .. k :
          /\ r.moves[q].from = moves[j].from
          /\ IsJoined(r.moves[q], moves[j], a, c, r.modifications) \/ IsCarriedOn(r.moves[q], moves[j], c)
    BY <2>1 DEF Following
  <2>6. /\ c.modifications \subseteq r.modifications
        /\ \A i \in r.modifications \ c.modifications :
              \E l \in DOMAIN c.moves : c.moves[l].to = i /\ c.moves[l].from \in a.modifications
    BY <2>1 DEF Following
  <2>7. u = FollowMove(r, o, a, c)
    BY <1>1, <2>0 DEF r
  <2>s. ASSUME NEW v \in FollowState,
               \A q \in DOMAIN v.moves : \E j \in 1 .. k + 1 :
                  /\ v.moves[q].from = moves[j].from
                  /\ IsJoined(v.moves[q], moves[j], a, c, v.modifications) \/ IsCarriedOn(v.moves[q], moves[j], c),
               OneEach(v.moves), OneEach(v.later),
               \A j \in DOMAIN v.later : \E l \in DOMAIN c.moves : v.later[j] = c.moves[l],
               \A q \in DOMAIN v.moves, j \in DOMAIN v.later : v.moves[q].to # v.later[j].to,
               c.modifications \subseteq v.modifications,
               \A i \in v.modifications \ c.modifications :
                  \E l \in DOMAIN c.moves : c.moves[l].to = i /\ c.moves[l].from \in a.modifications
        PROVE  Following(k + 1, v, a, c)
    BY <2>s DEF Following
  <2> HIDE DEF u, o, moves
  <2>8. u \in FollowState /\ (Joined(r, o, a, u) \/ u = r \/ CarriedOn(r, o, c, u))
    BY <2>2, <2>4, <2>7, FollowMoveLaw
  <2>9. r.moves \in Seq(AMove) /\ r.later \in Seq(AMove)
    BY <2>4 DEF FollowState
  <2>10. \A q \in DOMAIN r.moves : r.moves[q].from # o.from
    BY <2>3, <2>5
  <2>11. a.moves = moves /\ moves[k + 1] = o
    BY DEF moves, o
  <2>12. ASSUME NEW M, r.modifications \subseteq M
         PROVE  \A q \in DOMAIN r.moves : \E j \in 1 .. k + 1 :
                   /\ r.moves[q].from = moves[j].from
                   /\ IsJoined(r.moves[q], moves[j], a, c, M) \/ IsCarriedOn(r.moves[q], moves[j], c)
    <3> SUFFICES ASSUME NEW q \in DOMAIN r.moves
                 PROVE  \E j \in 1 .. k + 1 :
                   /\ r.moves[q].from = moves[j].from
                   /\ IsJoined(r.moves[q], moves[j], a, c, M) \/ IsCarriedOn(r.moves[q], moves[j], c)
      OBVIOUS
    <3>1. PICK j \in 1 .. k :
             /\ r.moves[q].from = moves[j].from
             /\ IsJoined(r.moves[q], moves[j], a, c, r.modifications) \/ IsCarriedOn(r.moves[q], moves[j], c)
      BY <2>5
    <3>2. IsJoined(r.moves[q], moves[j], a, c, r.modifications) => IsJoined(r.moves[q], moves[j], a, c, M)
      BY <2>12 DEF IsJoined
    <3>3. j \in 1 .. k + 1
      OBVIOUS
    <3>4. QED BY <3>1, <3>2, <3>3
  <2>13. k + 1 \in 1 .. k + 1
    OBVIOUS
  <2>14. ASSUME Joined(r, o, a, u) PROVE Following(k + 1, u, a, c)
    <3>1. PICK l \in DOMAIN r.later :
             /\ r.later[l].from = o.to
             /\ u.moves = Append(r.moves, Pair(o.from, r.later[l].to))
             /\ u.later = TakenOut(r.later, l)
             /\ u.modifications = r.modifications \cup (IF r.later[l].from \in a.modifications THEN {r.later[l].to} ELSE {})
      BY <2>14 DEF Joined
    <3>2. PICK x \in DOMAIN c.moves : r.later[l] = c.moves[x]
      BY <2>4
    <3> DEFINE p == Pair(o.from, r.later[l].to)
               e == r.later[l].to
    <3>3. e = c.moves[x].to /\ c.moves[x].from = o.to /\ p.from = o.from /\ p.to = e
      BY <3>1, <3>2 DEF Pair
    <3>4. e \in Nat
      <4>1. r.later[l] \in AMove
        BY <2>9
      <4>2. QED BY <4>1 DEF AMove
    <3>5. p \in AMove
      BY <2>2, <3>4 DEF Pair, AMove
    <3>6. /\ u.later \in Seq(AMove) /\ OneEach(u.later)
          /\ \A j \in DOMAIN u.later : \E i \in DOMAIN r.later : i # l /\ u.later[j] = r.later[i]
      BY <2>4, <2>9, <3>1, TakenOutLaw
    <3>7. \A q \in DOMAIN r.moves : r.moves[q].from # p.from /\ r.moves[q].to # p.to
      BY <2>4, <2>10, <3>3
    <3>8. u.moves = Append(r.moves, p)
      BY <3>1
    <3> HIDE DEF p
    <3>9. /\ OneEach(u.moves)
          /\ \A q \in DOMAIN u.moves : (q \in DOMAIN r.moves /\ u.moves[q] = r.moves[q]) \/ u.moves[q] = p
      <4> DEFINE v == r.moves
                 w == Append(v, p)
      <4>1. v \in Seq(AMove) /\ OneEach(v) /\ (\A q \in DOMAIN v : v[q].from # p.from /\ v[q].to # p.to)
        BY <2>4, <2>9, <3>7
      <4>2. u.moves = w
        BY <3>8
      <4> HIDE DEF v
      <4>3. /\ OneEach(w)
            /\ \A q \in DOMAIN w : (q \in DOMAIN v /\ w[q] = v[q]) \/ w[q] = p
        BY <3>5, <4>1, AppendOne
      <4> HIDE DEF w
      <4>4. QED BY <4>2, <4>3 DEF v
    <3>10. /\ r.modifications \subseteq u.modifications /\ (o.to \in a.modifications => e \in u.modifications)
           /\ \A i \in u.modifications : i \in r.modifications \/ (i = e /\ o.to \in a.modifications)
      BY <3>1
    <3>11. IsJoined(p, o, a, c, u.modifications)
      BY <3>3, <3>10 DEF IsJoined
    <3>12. \A q \in DOMAIN u.moves : \E j \in 1 .. k + 1 :
              /\ u.moves[q].from = moves[j].from
              /\ IsJoined(u.moves[q], moves[j], a, c, u.modifications) \/ IsCarriedOn(u.moves[q], moves[j], c)
      <4>1. \A q \in DOMAIN r.moves : \E j \in 1 .. k + 1 :
                   /\ r.moves[q].from = moves[j].from
                   /\ IsJoined(r.moves[q], moves[j], a, c, u.modifications) \/ IsCarriedOn(r.moves[q], moves[j], c)
        BY <2>12, <3>10
      <4>2. QED BY <2>11, <2>13, <3>3, <3>9, <3>11, <4>1
    <3>13. \A j \in DOMAIN u.later : \E i \in DOMAIN c.moves : u.later[j] = c.moves[i]
      BY <2>4, <3>6
    <3>14. \A j \in DOMAIN u.later : u.later[j].to # e
      BY <2>4, <3>6 DEF OneEach
    <3>15. \A q \in DOMAIN u.moves, j \in DOMAIN u.later : u.moves[q].to # u.later[j].to
      BY <2>4, <3>3, <3>6, <3>9, <3>14
    <3>16. \A i \in u.modifications \ c.modifications :
              \E y \in DOMAIN c.moves : c.moves[y].to = i /\ c.moves[y].from \in a.modifications
      BY <2>6, <3>3, <3>10
    <3>17. c.modifications \subseteq u.modifications
      BY <2>6, <3>10
    <3>18. QED BY <2>8, <2>s, <3>6, <3>9, <3>12, <3>13, <3>15, <3>16, <3>17
  <2>15. ASSUME u = r PROVE Following(k + 1, u, a, c)
    <3>1. \A q \in DOMAIN r.moves : \E j \in 1 .. k + 1 :
             /\ r.moves[q].from = moves[j].from
             /\ IsJoined(r.moves[q], moves[j], a, c, r.modifications) \/ IsCarriedOn(r.moves[q], moves[j], c)
      BY <2>12
    <3>2. Following(k + 1, r, a, c)
      BY <2>4, <2>6, <2>s, <3>1
    <3>3. QED BY <2>15, <3>2
  <2>16. ASSUME CarriedOn(r, o, c, u) PROVE Following(k + 1, u, a, c)
    <3> DEFINE D == c.deletions
               I == c.insertions
               e == Through(D, I, o.to)
               p == Pair(o.from, e)
    <3>1. o.to \notin D /\ u.moves = Append(r.moves, p) /\ u.later = r.later /\ u.modifications = r.modifications
      BY <2>16 DEF CarriedOn
    <3>2. p.from = o.from /\ p.to = e
      BY DEF Pair
    <3>3. D \in IndexSet /\ I \in IndexSet /\ o.to \in Nat \ D
      BY <1>2, <2>2, <3>1
    <3> HIDE DEF D, I
    <3>4. e \in Nat \ I /\ \A y \in Nat \ D : e = Through(D, I, y) => y = o.to
      BY <3>3, ThroughLaw
    <3> HIDE DEF e
    <3>5. p \in AMove
      BY <2>2, <3>4 DEF Pair, AMove
    <3> HIDE DEF p
    <3>6. \A l \in DOMAIN c.moves : c.moves[l].to \in I
      BY DEF I
    <3>7. \A q \in DOMAIN r.moves : r.moves[q].to # e
      <4> SUFFICES ASSUME NEW q \in DOMAIN r.moves PROVE r.moves[q].to # e
        OBVIOUS
      <4>1. PICK j \in 1 .. k : IsJoined(r.moves[q], moves[j], a, c, r.modifications) \/ IsCarriedOn(r.moves[q], moves[j], c)
        BY <2>5
      <4>2. CASE IsJoined(r.moves[q], moves[j], a, c, r.modifications)
        BY <3>4, <3>6, <4>2 DEF IsJoined
      <4>3. CASE IsCarriedOn(r.moves[q], moves[j], c)
        <5>1. moves[j].to \in Nat \ D /\ r.moves[q].to = Through(D, I, moves[j].to)
          BY <2>a, <4>3 DEF IsCarriedOn, D, I
        <5>2. QED BY <2>3, <3>4, <5>1
      <4>4. QED BY <4>1, <4>2, <4>3
    <3>8. /\ OneEach(u.moves)
          /\ \A q \in DOMAIN u.moves : (q \in DOMAIN r.moves /\ u.moves[q] = r.moves[q]) \/ u.moves[q] = p
      <4> DEFINE v == r.moves
                 w == Append(v, p)
      <4>1. v \in Seq(AMove) /\ OneEach(v) /\ (\A q \in DOMAIN v : v[q].from # p.from /\ v[q].to # p.to)
        BY <2>4, <2>9, <2>10, <3>2, <3>7
      <4>2. u.moves = w
        BY <3>1
      <4> HIDE DEF v
      <4>3. /\ OneEach(w)
            /\ \A q \in DOMAIN w : (q \in DOMAIN v /\ w[q] = v[q]) \/ w[q] = p
        BY <3>5, <4>1, AppendOne
      <4> HIDE DEF w
      <4>4. QED BY <4>2, <4>3 DEF v
    <3>9. IsCarriedOn(p, o, c)
      BY <3>1, <3>2 DEF IsCarriedOn, D, I, e
    <3>10. \A q \in DOMAIN u.moves : \E j \in 1 .. k + 1 :
              /\ u.moves[q].from = moves[j].from
              /\ IsJoined(u.moves[q], moves[j], a, c, u.modifications) \/ IsCarriedOn(u.moves[q], moves[j], c)
      <4>1. \A q \in DOMAIN r.moves : \E j \in 1 .. k + 1 :
                   /\ r.moves[q].from = moves[j].from
                   /\ IsJoined(r.moves[q], moves[j], a, c, u.modifications) \/ IsCarriedOn(r.moves[q], moves[j], c)
        BY <2>12, <3>1
      <4>2. QED BY <2>11, <2>13, <3>2, <3>8, <3>9, <4>1
    <3>11. \A q \in DOMAIN u.moves, j \in DOMAIN u.later : u.moves[q].to # u.later[j].to
      BY <2>4, <3>1, <3>2, <3>4, <3>6, <3>8
    <3>12. /\ \A j \in DOMAIN u.later : \E l \in DOMAIN c.moves : u.later[j] = c.moves[l]
           /\ c.modifications \subseteq u.modifications
           /\ \A i \in u.modifications \ c.modifications :
                 \E l \in DOMAIN c.moves : c.moves[l].to = i /\ c.moves[l].from \in a.modifications
           /\ OneEach(u.later)
      BY <2>4, <2>6, <3>1
    <3>13. QED BY <2>8, <2>s, <3>8, <3>10, <3>11, <3>12
  <2>17. QED BY <2>8, <2>14, <2>15, <2>16 DEF u
<1> HIDE DEF P
<1>5. Nat \subseteq P
  BY <1>3, <1>4, Induction
<1>6. Following(n, g[n], a, c)
  BY <1>0, <1>5 DEF P
<1>7. QED BY <1>1, <1>6 DEF n

-----------------------------------------------------------------------------
(* Merging two change sets                                                 *)

\* Moves of different indices in two sequences, put together.
LEMMA ConcatOneEach ==
    ASSUME NEW v \in Seq(AMove), NEW w \in Seq(AMove)
    PROVE  /\ v \o w \in Seq(AMove)
           /\ \A q \in DOMAIN (v \o w) :
                 (\E k \in DOMAIN v : (v \o w)[q] = v[k]) \/ (\E k \in DOMAIN w : (v \o w)[q] = w[k])
           /\ OneEach(v) /\ OneEach(w) /\ (\A k \in DOMAIN v, l \in DOMAIN w : v[k].from # w[l].from /\ v[k].to # w[l].to)
              => OneEach(v \o w)
<1> DEFINE u == v \o w
<1>1. /\ u \in Seq(AMove) /\ Len(u) = Len(v) + Len(w)
      /\ \A q \in 1 .. Len(u) : u[q] = IF q <= Len(v) THEN v[q] ELSE w[q - Len(v)]
  BY ConcatProperties
<1>2. /\ Len(v) \in Nat /\ Len(w) \in Nat
      /\ DOMAIN v = 1 .. Len(v) /\ DOMAIN w = 1 .. Len(w) /\ DOMAIN u = 1 .. Len(u)
  BY <1>1
<1> HIDE DEF u
<1>3. \A q \in DOMAIN u : (q \in DOMAIN v /\ u[q] = v[q]) \/ (q - Len(v) \in DOMAIN w /\ u[q] = w[q - Len(v)])
  BY <1>1, <1>2
<1>4. ASSUME OneEach(v), OneEach(w), \A k \in DOMAIN v, l \in DOMAIN w : v[k].from # w[l].from /\ v[k].to # w[l].to
      PROVE  OneEach(u)
  <2> SUFFICES ASSUME NEW p \in DOMAIN u, NEW q \in DOMAIN u, u[p].from = u[q].from \/ u[p].to = u[q].to PROVE p = q
    BY DEF OneEach
  <2>0. p \in Nat /\ q \in Nat
    BY <1>1, <1>2
  <2>1. CASE p \in DOMAIN v /\ u[p] = v[p] /\ q \in DOMAIN v /\ u[q] = v[q]
    BY <1>4, <2>1 DEF OneEach
  <2>2. CASE /\ p - Len(v) \in DOMAIN w /\ u[p] = w[p - Len(v)]
             /\ q - Len(v) \in DOMAIN w /\ u[q] = w[q - Len(v)]
    <3>1. p - Len(v) = q - Len(v)
      BY <1>4, <2>2 DEF OneEach
    <3>2. QED BY <1>2, <2>0, <3>1
  <2>3. CASE p \in DOMAIN v /\ u[p] = v[p] /\ q - Len(v) \in DOMAIN w /\ u[q] = w[q - Len(v)]
    BY <1>4, <2>3
  <2>4. CASE q \in DOMAIN v /\ u[q] = v[q] /\ p - Len(v) \in DOMAIN w /\ u[p] = w[p - Len(v)]
    BY <1>4, <2>4
  <2>5. QED BY <1>3, <2>1, <2>2, <2>3, <2>4
<1>5. QED BY <1>1, <1>3, <1>4 DEF u

\* What MergeInto has before the moves are cleaned up.
LaterOnes(a, c) ==
    LET r == FollowMoves(a, c) IN MovesIn(r.later, {m \in ToSet(r.later) : m.from \notin a.insertions})
SourceOf(a, m) == Pair(Shift(a.deletions, Unshift(a.insertions, m.from)), m.to)
AllMoves(a, c) ==
    FollowMoves(a, c).moves \o [k \in DOMAIN LaterOnes(a, c) |-> SourceOf(a, LaterOnes(a, c)[k])]
AllDeletions(a, c) == AddShiftedBy(a.deletions, a.insertions, c.deletions)
AllInsertions(a, c) == InsertedAll(ErasedAll(a.insertions, c.deletions), c.insertions)
AllModifications(a, c) ==
    ShiftForAll(ErasedAll(a.modifications, c.deletions), c.insertions)
    \cup (FollowMoves(a, c).modifications
          \cup {m.to : m \in {x \in ToSet(LaterOnes(a, c)) : x.from \in a.modifications}})

\* MergeInto, by these names.
LEMMA MergeIntoIs ==
    ASSUME NEW a, NEW c
    PROVE  MergeInto(a, c) =
              [CleanUpStaleMoves([a EXCEPT !.deletions = AllDeletions(a, c), !.insertions = AllInsertions(a, c),
                                           !.moves = AllMoves(a, c)])
               EXCEPT !.modifications = AllModifications(a, c)]
BY Zenon DEF MergeInto, AllDeletions, AllInsertions, AllMoves, AllModifications, LaterOnes, SourceOf, MapMoves

\* The moves of c that are of rows that a did not put in.
LEMMA LaterOnesLaw ==
    ASSUME NEW a \in ChangeSet, NEW c \in ChangeSet, Following(Len(a.moves), FollowMoves(a, c), a, c)
    PROVE  /\ LaterOnes(a, c) \in Seq(AMove) /\ OneEach(LaterOnes(a, c))
           /\ \A j \in DOMAIN LaterOnes(a, c) :
                 /\ LaterOnes(a, c)[j].from \notin a.insertions
                 /\ \E l \in DOMAIN c.moves : LaterOnes(a, c)[j] = c.moves[l]
                 /\ \A q \in DOMAIN FollowMoves(a, c).moves : FollowMoves(a, c).moves[q].to # LaterOnes(a, c)[j].to
<1> DEFINE r == FollowMoves(a, c)
           q == r.later
           K == {m \in ToSet(q) : m.from \notin a.insertions}
           v == MovesIn(q, K)
<1>1. v = LaterOnes(a, c)
  BY Zenon DEF LaterOnes
<1> HIDE DEF r
<1>2. /\ r \in FollowState /\ OneEach(q) /\ \A j \in DOMAIN q : \E l \in DOMAIN c.moves : q[j] = c.moves[l]
      /\ \A i \in DOMAIN r.moves, j \in DOMAIN q : r.moves[i].to # q[j].to
  BY DEF Following, r
<1>3. q \in Seq(AMove)
  BY <1>2 DEF FollowState
<1> HIDE DEF q
<1>4. v \in Seq(AMove) /\ ToSet(v) = ToSet(q) \cap K /\ OneEach(v)
  <2> HIDE DEF K
  <2>1. QED BY <1>2, <1>3, MovesInLaw
<1>5. \A j \in DOMAIN v : v[j] \in ToSet(q) /\ v[j].from \notin a.insertions
  <2>1. \A j \in DOMAIN v : v[j] \in ToSet(v)
    BY <1>4 DEF ToSet
  <2> HIDE DEF v
  <2>2. QED BY <1>4, <2>1
<1> HIDE DEF v, K
<1>6. \A j \in DOMAIN v : \E i \in DOMAIN q : v[j] = q[i]
  BY <1>5 DEF ToSet
<1>7. \A j \in DOMAIN v :
         /\ v[j].from \notin a.insertions
         /\ \E l \in DOMAIN c.moves : v[j] = c.moves[l]
         /\ \A i \in DOMAIN r.moves : r.moves[i].to # v[j].to
  BY <1>2, <1>5, <1>6
<1>8. QED BY <1>1, <1>4, <1>7 DEF r

\* A row that was moved by c, and not put in by a before, was where Shift says.
LEMMA SourceLaw ==
    ASSUME NEW s \in Seq(Nat), NEW m \in Seq(Nat), NEW T, NEW a, Tells(a, s, m, T),
           NEW p \in AMove, p.from \in IndicesOf(m), p.from \notin a.insertions
    PROVE  /\ SourceOf(a, p) \in AMove /\ SourceOf(a, p).to = p.to
           /\ SourceOf(a, p).from \in IndicesOf(s) \ a.deletions
           /\ At(s, SourceOf(a, p).from) = At(m, p.from)
           /\ SourceOf(a, p).from = Through(a.insertions, a.deletions, p.from)
<1> DEFINE D == a.deletions
           I == a.insertions
           i == p.from
           x == Shift(D, Unshift(I, i))
<1>1. D \in IndexSet /\ I \in IndexSet /\ Lined(I, D, m, s) /\ i \in IndicesOf(m) \ I
  BY LinedIsSymmetric DEF Tells, ChangeSet
<1>2. SourceOf(a, p) = [from |-> x, to |-> p.to] /\ x = Through(I, D, i)
  BY DEF SourceOf, Pair, Through
<1> HIDE DEF D, I, i
<1>3. x \in IndicesOf(s) \ D /\ At(m, i) = At(s, x)
  BY <1>1, Partner
<1>4. x \in Nat /\ p.to \in Nat
  BY <1>3 DEF IndicesOf, AMove
<1> HIDE DEF x
<1>5. SourceOf(a, p) \in AMove /\ SourceOf(a, p).from = x /\ SourceOf(a, p).to = p.to
  BY <1>2, <1>4 DEF AMove
<1>6. QED BY <1>2, <1>3, <1>5 DEF D, I, i

\* The moves of a merged change set.
AllMovesHold(a, c, m) ==
    /\ AllMoves(a, c) \in Seq(AMove) /\ OneEach(AllMoves(a, c))
    /\ \A q \in DOMAIN AllMoves(a, c) :
          LET p == AllMoves(a, c)[q]
          IN  \/ Carried(a, c.deletions, c.insertions, p)
              \/ \E l \in DOMAIN c.moves, j \in DOMAIN a.moves :
                    /\ c.moves[l].from = a.moves[j].to /\ p.from = a.moves[j].from /\ p.to = c.moves[l].to
                    /\ c.moves[l].from \in a.modifications => p.to \in AllModifications(a, c)
              \/ \E l \in DOMAIN c.moves :
                    /\ c.moves[l].from \notin a.insertions /\ p = SourceOf(a, c.moves[l])
                    /\ c.moves[l].from \in a.modifications => p.to \in AllModifications(a, c)

\* The moves of a merge come from those of a and c in one of these ways, and
\* no index is in two of them.
LEMMA AllMovesLaw ==
    ASSUME NEW s \in Seq(Nat), NEW m \in Seq(Nat), NEW t \in Seq(Nat), NEW T, NEW U,
           NEW a, NEW c, Tells(a, s, m, T), Tells(c, m, t, U)
    PROVE  AllMovesHold(a, c, m)
<1> DEFINE r == FollowMoves(a, c)
           v == r.moves
           L == LaterOnes(a, c)
           w == [k \in DOMAIN L |-> SourceOf(a, L[k])]
           D == c.deletions
           I == c.insertions
           N == AllModifications(a, c)
<1>1. /\ a \in ChangeSet /\ c \in ChangeSet /\ MovesAreTold(a, s, m) /\ MovesAreTold(c, m, t)
      /\ a.moves \in Seq(AMove) /\ c.moves \in Seq(AMove) /\ D \in IndexSet /\ I \in IndexSet
      /\ a.insertions \in IndexSet /\ a.deletions \in IndexSet
  BY DEF Tells, ChangeSet
<1>2. Following(Len(a.moves), r, a, c)
  BY <1>1, FollowLaw DEF MovesAreTold
<1>3. /\ L \in Seq(AMove) /\ OneEach(L)
      /\ \A j \in DOMAIN L : /\ L[j].from \notin a.insertions
                             /\ \E l \in DOMAIN c.moves : L[j] = c.moves[l]
                             /\ \A q \in DOMAIN v : v[q].to # L[j].to
  BY <1>1, <1>2, LaterOnesLaw
<1>4. AllMoves(a, c) = v \o w
  BY Zenon DEF AllMoves
<1>5. \A i \in r.modifications : i \in N
  BY DEF AllModifications
<1>6. \A k \in DOMAIN L : L[k].from \in a.modifications => L[k].to \in N
  <2>1. ASSUME NEW k \in DOMAIN L, L[k].from \in a.modifications PROVE L[k].to \in N
    <3>1. L[k] \in ToSet(L)
      BY DEF ToSet
    <3> HIDE DEF L
    <3>2. L[k].to \in {z.to : z \in {x \in ToSet(L) : x.from \in a.modifications}}
      BY <2>1, <3>1
    <3>3. QED BY <3>2 DEF AllModifications, L
  <2>2. QED BY <2>1
<1> HIDE DEF r, L, N, D, I
<1>7. /\ v \in Seq(AMove) /\ OneEach(v)
      /\ \A q \in DOMAIN v : \E j \in DOMAIN a.moves :
            /\ v[q].from = a.moves[j].from
            /\ IsJoined(v[q], a.moves[j], a, c, r.modifications) \/ IsCarriedOn(v[q], a.moves[j], c)
  <2>1. DOMAIN a.moves = 1 .. Len(a.moves)
    BY <1>1
  <2>2. v \in Seq(AMove)
    BY <1>2 DEF Following, FollowState
  <2>3. QED BY <1>2, <2>1, <2>2 DEF Following
<1> HIDE DEF v
<1>8. \A k \in DOMAIN L : /\ L[k] \in AMove /\ L[k].from \in Nat \ a.insertions /\ L[k].from \in IndicesOf(m)
                          /\ L[k].to \in I /\ L[k].from \in D
  <2>1. ASSUME NEW k \in DOMAIN L
        PROVE  /\ L[k] \in AMove /\ L[k].from \in Nat \ a.insertions /\ L[k].from \in IndicesOf(m)
               /\ L[k].to \in I /\ L[k].from \in D
    <3>1. PICK l \in DOMAIN c.moves : L[k] = c.moves[l]
      BY <1>3
    <3>2. L[k].from \in IndicesOf(m) /\ L[k].to \in I /\ L[k].from \in D
      BY <1>1, <3>1 DEF MovesAreTold, I, D
    <3>3. L[k] \in AMove /\ IndicesOf(m) \subseteq Nat
      BY <1>3 DEF IndicesOf
    <3>4. QED BY <1>3, <3>2, <3>3
  <2>2. QED BY <2>1
<1>9. DOMAIN w = DOMAIN L
  OBVIOUS
<1>10. \A k \in DOMAIN L : /\ w[k] = SourceOf(a, L[k]) /\ w[k] \in AMove /\ w[k].to = L[k].to
                           /\ w[k].from \notin a.deletions
                           /\ w[k].from = Through(a.insertions, a.deletions, L[k].from)
  <2>1. ASSUME NEW p \in AMove, p.from \in IndicesOf(m), p.from \notin a.insertions
        PROVE  /\ SourceOf(a, p) \in AMove /\ SourceOf(a, p).to = p.to /\ SourceOf(a, p).from \notin a.deletions
               /\ SourceOf(a, p).from = Through(a.insertions, a.deletions, p.from)
    BY <2>1, SourceLaw
  <2>2. \A k \in DOMAIN L : w[k] = SourceOf(a, L[k])
    OBVIOUS
  <2> HIDE DEF w
  <2>3. QED BY <1>8, <2>1, <2>2
<1> HIDE DEF w
<1>11. w \in Seq(AMove)
  <2>1. DOMAIN L = 1 .. Len(L) /\ Len(L) \in Nat
    BY <1>3
  <2>2. w = [k \in DOMAIN L |-> SourceOf(a, L[k])]
    BY DEF w
  <2>3. w \in [1 .. Len(L) -> AMove]
    BY <1>10, <2>1, <2>2
  <2>4. QED BY <2>1, <2>3, FunctionIsASeq
<1>12. OneEach(w)
  <2>1. ASSUME NEW k \in DOMAIN L, NEW l \in DOMAIN L, w[k].from = w[l].from PROVE L[k].from = L[l].from
    <3> DEFINE x == L[k].from
               y == L[l].from
    <3>1. x \in Nat \ a.insertions /\ y \in Nat \ a.insertions
      BY <1>8
    <3>2. Through(a.insertions, a.deletions, x) = Through(a.insertions, a.deletions, y)
      BY <1>10, <2>1
    <3> HIDE DEF x, y
    <3>3. x = y
      BY <1>1, <3>1, <3>2, ThroughLaw
    <3>4. QED BY <3>3 DEF x, y
  <2>2. QED BY <1>3, <1>9, <1>10, <2>1 DEF OneEach
<1>13. \A k \in DOMAIN v, l \in DOMAIN w : v[k].from # w[l].from /\ v[k].to # w[l].to
  <2>1. \A k \in DOMAIN v : v[k].from \in a.deletions
    BY <1>1, <1>7 DEF MovesAreTold
  <2>2. QED BY <1>3, <1>9, <1>10, <2>1
<1>14. /\ v \o w \in Seq(AMove) /\ OneEach(v \o w)
       /\ \A q \in DOMAIN (v \o w) : (\E k \in DOMAIN v : (v \o w)[q] = v[k]) \/ (\E k \in DOMAIN w : (v \o w)[q] = w[k])
  BY <1>7, <1>11, <1>12, <1>13, ConcatOneEach
<1>15. ASSUME NEW k \in DOMAIN v
       PROVE  \/ Carried(a, c.deletions, c.insertions, v[k])
              \/ \E l \in DOMAIN c.moves, j \in DOMAIN a.moves :
                    /\ c.moves[l].from = a.moves[j].to /\ v[k].from = a.moves[j].from /\ v[k].to = c.moves[l].to
                    /\ c.moves[l].from \in a.modifications => v[k].to \in AllModifications(a, c)
  <2>1. PICK j \in DOMAIN a.moves :
            /\ v[k].from = a.moves[j].from
            /\ IsJoined(v[k], a.moves[j], a, c, r.modifications) \/ IsCarriedOn(v[k], a.moves[j], c)
    BY <1>7
  <2>2. CASE IsCarriedOn(v[k], a.moves[j], c)
    BY <2>1, <2>2 DEF IsCarriedOn, Carried
  <2>3. CASE IsJoined(v[k], a.moves[j], a, c, r.modifications)
    BY <1>5, <2>1, <2>3 DEF IsJoined, N
  <2>4. QED BY <2>1, <2>2, <2>3
<1>16. ASSUME NEW k \in DOMAIN w
       PROVE  \E l \in DOMAIN c.moves :
                 /\ c.moves[l].from \notin a.insertions /\ w[k] = SourceOf(a, c.moves[l])
                 /\ c.moves[l].from \in a.modifications => w[k].to \in AllModifications(a, c)
  <2>1. PICK l \in DOMAIN c.moves : L[k] = c.moves[l]
    BY <1>3, <1>9
  <2>2. QED BY <1>6, <1>8, <1>9, <1>10, <2>1 DEF N
<1> DEFINE z == v \o w
           Holds(p) ==
              \/ Carried(a, c.deletions, c.insertions, p)
              \/ \E l \in DOMAIN c.moves, j \in DOMAIN a.moves :
                    /\ c.moves[l].from = a.moves[j].to /\ p.from = a.moves[j].from /\ p.to = c.moves[l].to
                    /\ c.moves[l].from \in a.modifications => p.to \in AllModifications(a, c)
              \/ \E l \in DOMAIN c.moves :
                    /\ c.moves[l].from \notin a.insertions /\ p = SourceOf(a, c.moves[l])
                    /\ c.moves[l].from \in a.modifications => p.to \in AllModifications(a, c)
<1>h. (\A k \in DOMAIN v : Holds(v[k])) /\ (\A k \in DOMAIN w : Holds(w[k]))
  <2>1. \A k \in DOMAIN v : Holds(v[k])
    BY <1>15
  <2>2. \A k \in DOMAIN w : Holds(w[k])
    BY <1>16
  <2>3. QED BY <2>1, <2>2
<1>17. \A q \in DOMAIN z : Holds(z[q])
  <2> HIDE DEF z, Holds
  <2>1. \A q \in DOMAIN z : (\E k \in DOMAIN v : z[q] = v[k]) \/ (\E k \in DOMAIN w : z[q] = w[k])
    BY <1>14 DEF z
  <2>2. QED BY <1>h, <2>1
<1>18. AllMoves(a, c) = z
  BY <1>4
<1>19. z \in Seq(AMove) /\ OneEach(z)
  BY <1>14
<1> HIDE DEF z
<1>20. QED BY <1>17, <1>18, <1>19 DEF AllMovesHold

\* What is marked after a merge: what a marked and c left, what c marked, and
\* what a marked and c moved.
AllModificationsHold(a, c, t) ==
    /\ AllModifications(a, c) \in IndexSet /\ AllModifications(a, c) \subseteq IndicesOf(t)
    /\ c.modifications \subseteq AllModifications(a, c)
    /\ \A i \in IndicesOf(t) \ c.insertions : i \in AllModifications(a, c) <=>
          Through(c.insertions, c.deletions, i) \in a.modifications \/ i \in c.modifications
    /\ \A i \in c.insertions : i \in AllModifications(a, c) =>
          i \in c.modifications \/ (\E l \in DOMAIN c.moves : c.moves[l].to = i /\ c.moves[l].from \in a.modifications)

\* What a merge marks is what either marks, where it has ended up.
LEMMA AllModificationsLaw ==
    ASSUME NEW s \in Seq(Nat), NEW m \in Seq(Nat), NEW t \in Seq(Nat), NEW T, NEW U,
           NEW a, NEW c, Tells(a, s, m, T), Tells(c, m, t, U)
    PROVE  AllModificationsHold(a, c, t)
<1> DEFINE r == FollowMoves(a, c)
           L == LaterOnes(a, c)
           D == c.deletions
           I == c.insertions
           M == a.modifications
           C == c.modifications
           S == ShiftForAll(ErasedAll(M, D), I)
           X == {z.to : z \in {x \in ToSet(L) : x.from \in M}}
           N == AllModifications(a, c)
           ByMove(i) == \E l \in DOMAIN c.moves : c.moves[l].to = i /\ c.moves[l].from \in M
<1>1. /\ a \in ChangeSet /\ c \in ChangeSet /\ MovesAreTold(a, s, m) /\ MovesAreTold(c, m, t)
      /\ D \in IndexSet /\ I \in IndexSet /\ M \in IndexSet /\ C \subseteq IndicesOf(t) /\ M \subseteq IndicesOf(m)
      /\ I \subseteq IndicesOf(t)
  BY DEF Tells, ChangeSet
<1>a. Lined(D, I, m, t)
  BY DEF Tells
<1>2. Following(Len(a.moves), r, a, c)
  BY <1>1, FollowLaw DEF MovesAreTold
<1>3. \A j \in DOMAIN L : \E l \in DOMAIN c.moves : L[j] = c.moves[l]
  <2>1. a \in ChangeSet /\ c \in ChangeSet
    BY <1>1
  <2>2. /\ L \in Seq(AMove) /\ OneEach(L)
        /\ \A j \in DOMAIN L : /\ L[j].from \notin a.insertions
                               /\ \E l \in DOMAIN c.moves : L[j] = c.moves[l]
                               /\ \A q \in DOMAIN r.moves : r.moves[q].to # L[j].to
    BY <1>2, <2>1, LaterOnesLaw
  <2>3. QED BY <2>2
<1>4. N = S \cup (r.modifications \cup X)
  BY Zenon DEF AllModifications
<1>5. C \subseteq r.modifications /\ \A i \in r.modifications \ C : ByMove(i)
  BY <1>2 DEF Following
<1> HIDE DEF r, L
<1>6. \A i \in X : ByMove(i)
  <2>1. ASSUME NEW x \in ToSet(L), x.from \in M PROVE ByMove(x.to)
    <3>1. PICK j \in DOMAIN L : x = L[j]
      BY DEF ToSet
    <3>2. QED BY <1>3, <2>1, <3>1
  <2> HIDE DEF ByMove
  <2>2. QED BY <2>1
<1>7. \A i : ByMove(i) => i \in I
  BY <1>1 DEF MovesAreTold
<1> HIDE DEF ByMove, X, N, D, I, M, C
<1>8. S \in IndexSet /\ S \subseteq IndicesOf(t) /\ \A i \in IndicesOf(t) \ I : i \in S <=> Through(I, D, i) \in M
  BY <1>1, <1>a, MarksStayInside
<1>9. \A i \in I : i \notin S
  <2>1. ErasedAll(M, D) \in IndexSet
    BY <1>1, ErasedAllLaw
  <2>2. QED BY <1>1, <2>1, ShiftForAllLaw
<1> HIDE DEF S
<1>10. \A i : i \in N => i \in S \/ i \in C \/ ByMove(i)
  BY <1>4, <1>5, <1>6
<1>11. S \subseteq N /\ C \subseteq N
  BY <1>4, <1>5
<1>12. N \subseteq IndicesOf(t)
  BY <1>1, <1>7, <1>8, <1>10
<1>13. N \in IndexSet
  <2>1. 0 \in Int /\ Len(t) - 1 \in Int /\ IndicesOf(t) = 0 .. Len(t) - 1 /\ IndicesOf(t) \subseteq Nat
    BY DEF IndicesOf
  <2>2. IsFiniteSet(IndicesOf(t))
    BY <2>1, FS_Interval
  <2>3. IsFiniteSet(N)
    BY <1>12, <2>2, FS_Subset
  <2>4. QED BY <1>12, <2>1, <2>3 DEF IndexSet
<1>14. \A i \in IndicesOf(t) \ I : i \in N <=> Through(I, D, i) \in M \/ i \in C
  BY <1>7, <1>8, <1>10, <1>11
<1>15. \A i \in I : i \in N => i \in C \/ ByMove(i)
  BY <1>9, <1>10
<1>16. QED BY <1>11, <1>12, <1>13, <1>14, <1>15 DEF AllModificationsHold, N, ByMove, D, I, M, C

\* MergeInto.
LEMMA MergeIntoTells ==
    ASSUME NEW s \in Seq(Nat), NEW m \in Seq(Nat), NEW t \in Seq(Nat), NEW T, NEW U,
           NEW a, NEW c, Tells(a, s, m, T), Tells(c, m, t, U)
    PROVE  /\ Tells(MergeInto(a, c), s, t, T \cup U)
           /\ a.deletions \subseteq IndicesOf(s) /\ c.deletions \subseteq IndicesOf(m)
              => MergeInto(a, c).deletions \subseteq IndicesOf(s)
<1> DEFINE D == c.deletions
           I == c.insertions
           DD == AllDeletions(a, c)
           II == AllInsertions(a, c)
           V == AllMoves(a, c)
           N == AllModifications(a, c)
           x == [a EXCEPT !.deletions = DD, !.insertions = II, !.moves = V]
           y == [x EXCEPT !.modifications = N]
           z == CleanUpStaleMoves(x)
           d == MergeInto(a, c)
<1>1. /\ a \in ChangeSet /\ c \in ChangeSet /\ D \in IndexSet /\ I \in IndexSet
      /\ a.insertions \in IndexSet /\ a.deletions \in IndexSet
      /\ Lined(D, I, m, t) /\ I \subseteq IndicesOf(t) /\ MovesAreTold(a, s, m) /\ MovesAreTold(c, m, t)
      /\ Lined(a.deletions, a.insertions, s, m)
  BY DEF Tells, ChangeSet
<1>2. /\ N \in IndexSet /\ N \subseteq IndicesOf(t) /\ c.modifications \subseteq N
      /\ \A i \in IndicesOf(t) \ I : i \in N <=> Through(I, D, i) \in a.modifications \/ i \in c.modifications
      /\ \A i \in I : i \in N =>
            i \in c.modifications \/ (\E l \in DOMAIN c.moves : c.moves[l].to = i /\ c.moves[l].from \in a.modifications)
  <2>1. AllModificationsHold(a, c, t)
    BY AllModificationsLaw
  <2>2. QED BY <2>1, Zenon DEF AllModificationsHold
<1>3. /\ V \in Seq(AMove) /\ OneEach(V)
      /\ \A q \in DOMAIN V :
          LET p == V[q]
          IN  \/ Carried(a, D, I, p)
              \/ \E l \in DOMAIN c.moves, j \in DOMAIN a.moves :
                    /\ c.moves[l].from = a.moves[j].to /\ p.from = a.moves[j].from /\ p.to = c.moves[l].to
                    /\ c.moves[l].from \in a.modifications => p.to \in N
              \/ \E l \in DOMAIN c.moves :
                    /\ c.moves[l].from \notin a.insertions /\ p = SourceOf(a, c.moves[l])
                    /\ c.moves[l].from \in a.modifications => p.to \in N
  <2>1. AllMovesHold(a, c, m)
    BY AllMovesLaw
  <2>2. QED BY <2>1, Zenon DEF AllMovesHold
<1>4. DD = InsertedAll(ErasedAll(D, a.insertions), a.deletions) /\ DD \in IndexSet
  <2>1. DD = InsertedAll(ErasedAll(D, a.insertions), a.deletions)
    BY AddShiftedByLaw, Zenon DEF AllDeletions
  <2> HIDE DEF DD, D
  <2>2. ErasedAll(D, a.insertions) \in IndexSet
    BY <1>1, ErasedAllLaw
  <2>3. QED BY <1>1, <2>1, <2>2, InsertedAllLaw
<1>5. II = InsertedAll(ErasedAll(a.insertions, D), I) /\ II \in IndexSet
  <2>1. II = InsertedAll(ErasedAll(a.insertions, D), I)
    BY Zenon DEF AllInsertions
  <2> HIDE DEF II, D, I
  <2>2. ErasedAll(a.insertions, D) \in IndexSet
    BY <1>1, ErasedAllLaw
  <2>3. QED BY <1>1, <2>1, <2>2, InsertedAllLaw
<1>6. d = [z EXCEPT !.modifications = N]
  BY MergeIntoIs, Zenon
<1> HIDE DEF DD, II, V, N
<1>7. /\ x \in ChangeSet /\ x.deletions = DD /\ x.insertions = II /\ x.moves = V
      /\ y \in ChangeSet /\ y.deletions = DD /\ y.insertions = II /\ y.moves = V /\ y.modifications = N
  BY <1>1, <1>2, <1>3, <1>4, <1>5 DEF ChangeSet
<1> HIDE DEF x, y, z, d
<1>8. ASSUME NEW l \in DOMAIN c.moves
      PROVE  /\ c.moves[l] \in AMove
             /\ c.moves[l].from \in D \cap IndicesOf(m) /\ c.moves[l].to \in I /\ c.moves[l].to \in IndicesOf(t)
             /\ At(m, c.moves[l].from) = At(t, c.moves[l].to)
             /\ c.moves[l].to \in c.modifications <=> At(t, c.moves[l].to) \in U
             /\ c.moves[l].to \in N <=> c.moves[l].to \in c.modifications
                                        \/ (c.moves[l].from \in a.modifications /\ c.moves[l].to \in N)
             /\ c.moves[l].to \in N => c.moves[l].to \in c.modifications \/ c.moves[l].from \in a.modifications
  <2>1. c.moves[l] \in AMove
    BY <1>1 DEF ChangeSet
  <2>2. /\ c.moves[l].from \in D \cap IndicesOf(m) /\ c.moves[l].to \in I /\ c.moves[l].to \in IndicesOf(t)
        /\ At(m, c.moves[l].from) = At(t, c.moves[l].to)
    BY <1>1 DEF MovesAreTold
  <2>3. c.moves[l].to \in c.modifications <=> At(t, c.moves[l].to) \in U
    BY <2>2 DEF Tells, ModificationsAreTold
  <2>4. c.moves[l].to \in N => c.moves[l].to \in c.modifications \/ c.moves[l].from \in a.modifications
    <3>1. ASSUME NEW k \in DOMAIN c.moves, c.moves[k].to = c.moves[l].to PROVE k = l
      BY <1>1, <3>1 DEF MovesAreTold, OneEach
    <3>2. QED BY <1>2, <2>2, <3>1
  <2>5. QED BY <1>2, <2>1, <2>2, <2>3, <2>4
<1>9. ASSUME NEW q \in DOMAIN V
      PROVE  Carried(a, D, I, V[q]) \/ Arrived(y, s, t, I, T \cup U, V[q])
  <2> DEFINE p == V[q]
  <2>1. CASE Carried(a, D, I, p)
    BY <2>1
  <2>2. ASSUME NEW l \in DOMAIN c.moves, NEW j \in DOMAIN a.moves,
               c.moves[l].from = a.moves[j].to, p.from = a.moves[j].from, p.to = c.moves[l].to,
               c.moves[l].from \in a.modifications => p.to \in N
        PROVE  Arrived(y, s, t, I, T \cup U, p)
    <3>1. a.moves[j].from \in a.deletions \cap IndicesOf(s) /\ At(s, a.moves[j].from) = At(m, a.moves[j].to)
      BY <1>1 DEF MovesAreTold
    <3>2. a.deletions \subseteq DD
      <4>1. ErasedAll(D, a.insertions) \in IndexSet
        BY <1>1, ErasedAllLaw
      <4>2. QED BY <1>1, <1>4, <4>1, InsertedAllLaw
    <3>3. a.moves[j].to \in a.modifications <=> At(m, a.moves[j].to) \in T
      BY <1>8, <2>2 DEF Tells, ModificationsAreTold
    <3> HIDE DEF p
    <3>4. p.from \in DD \cap IndicesOf(s) /\ p.to \in I /\ At(s, p.from) = At(t, p.to)
      BY <1>8, <2>2, <3>1, <3>2
    <3>5. p.to \in N <=> At(t, p.to) \in T \cup U
      BY <1>2, <1>8, <2>2, <3>3
    <3>6. QED BY <1>7, <3>4, <3>5 DEF Arrived
  <2>3. ASSUME NEW l \in DOMAIN c.moves, c.moves[l].from \notin a.insertions, p = SourceOf(a, c.moves[l]),
               c.moves[l].from \in a.modifications => p.to \in N
        PROVE  Arrived(y, s, t, I, T \cup U, p)
    <3> DEFINE o == c.moves[l]
    <3> HIDE DEF p
    <3>1. o \in AMove /\ o.from \in IndicesOf(m) /\ o.from \notin a.insertions /\ o.from \in D /\ o.to \in I
      BY <1>8, <2>3
    <3>2. At(m, o.from) = At(t, o.to)
      BY <1>8
    <3>3. o.to \in N => o.to \in c.modifications \/ o.from \in a.modifications
      BY <1>8
    <3>a. p = SourceOf(a, o) /\ (o.from \in a.modifications => p.to \in N)
      BY <2>3
    <3>b. o.to \in c.modifications <=> At(t, o.to) \in U
      BY <1>8
    <3> HIDE DEF o
    <3>4. /\ p.to = o.to /\ p.from \in IndicesOf(s) \ a.deletions /\ At(s, p.from) = At(m, o.from)
          /\ p.from = Shift(a.deletions, Unshift(a.insertions, o.from))
      BY <3>1, <3>a, SourceLaw DEF Through
    <3>5. p.from \in DD
      BY <3>1, <3>4 DEF DD, AllDeletions, AddShiftedBy
    <3>6. o.from \in a.modifications <=> At(m, o.from) \in T
      BY <3>1 DEF Tells, ModificationsAreTold
    <3>7. p.to \in N <=> At(t, p.to) \in T \cup U
      BY <1>2, <3>2, <3>3, <3>4, <3>6, <3>a, <3>b
    <3>8. QED BY <1>7, <3>1, <3>2, <3>4, <3>5, <3>7 DEF Arrived
  <2> HIDE DEF p
  <2>4. \/ Carried(a, D, I, p)
        \/ \E l \in DOMAIN c.moves, j \in DOMAIN a.moves :
              /\ c.moves[l].from = a.moves[j].to /\ p.from = a.moves[j].from /\ p.to = c.moves[l].to
              /\ c.moves[l].from \in a.modifications => p.to \in N
        \/ \E l \in DOMAIN c.moves :
              /\ c.moves[l].from \notin a.insertions /\ p = SourceOf(a, c.moves[l])
              /\ c.moves[l].from \in a.modifications => p.to \in N
    BY <1>3, Zenon DEF p
  <2>5. Carried(a, D, I, p) \/ Arrived(y, s, t, I, T \cup U, p)
    BY <2>1, <2>2, <2>3, <2>4
  <2>6. QED BY <2>5 DEF p
<1>10. \A i \in IndicesOf(t) \ I :
          (Through(I, D, i) \in a.modifications <=> At(t, i) \in T) => (i \in y.modifications <=> At(t, i) \in T \cup U)
  <2>1. \A i \in IndicesOf(t) \ I : i \in c.modifications <=> At(t, i) \in U
    BY DEF Tells, ModificationsAreTold
  <2>2. QED BY <1>2, <1>7, <2>1
<1>11. Tells(y, s, t, T \cup U)
  <2>1. /\ y.deletions = InsertedAll(ErasedAll(D, a.insertions), a.deletions)
        /\ y.insertions = InsertedAll(ErasedAll(a.insertions, D), I)
        /\ y.modifications \subseteq IndicesOf(t) /\ OneEach(y.moves) /\ y \in ChangeSet
    BY <1>2, <1>3, <1>4, <1>5, <1>7
  <2>2. \A k \in DOMAIN y.moves : Carried(a, D, I, y.moves[k]) \/ Arrived(y, s, t, I, T \cup U, y.moves[k])
    BY <1>7, <1>9
  <2>3. D \in IndexSet /\ I \in IndexSet /\ Lined(D, I, m, t) /\ I \subseteq IndicesOf(t)
    BY <1>1
  <2> HIDE DEF D, I
  <2>4. QED BY <1>10, <2>1, <2>2, <2>3, Carry
<1>12. Cleaned(x, z, s, t)
  <2>1. x.insertions \subseteq IndicesOf(t) /\ Lined(x.deletions, x.insertions, s, t)
    BY <1>7, <1>11 DEF Tells
  <2>2. MovesAreTold(x, s, t)
    BY <1>7, <1>11 DEF Tells, MovesAreTold
  <2>3. QED BY <1>7, <2>1, <2>2, CleanUpLaw DEF z
<1>13. /\ d \in ChangeSet /\ d.deletions = z.deletions /\ d.insertions = z.insertions /\ d.moves = z.moves
       /\ d.modifications = N
  <2>1. z \in ChangeSet
    BY <1>12 DEF Cleaned
  <2>2. QED BY <1>2, <1>6, <2>1 DEF ChangeSet
<1>14. Tells(d, s, t, T \cup U)
  <2>1. x \in ChangeSet /\ x.moves = y.moves /\ x.insertions = y.insertions /\ d.modifications = y.modifications
    BY <1>7, <1>13
  <2>2. QED BY <1>11, <1>12, <1>13, <2>1, CleanedTells
<1>15. ASSUME a.deletions \subseteq IndicesOf(s), D \subseteq IndicesOf(m) PROVE d.deletions \subseteq IndicesOf(s)
  <2>1. DD \subseteq IndicesOf(s)
    BY <1>1, <1>4, <1>15, ComposeStaysInside
  <2>2. z.deletions \subseteq x.deletions
    BY <1>12 DEF Cleaned
  <2>3. QED BY <1>7, <1>13, <2>1, <2>2
<1>16. QED BY <1>14, <1>15 DEF d

\* Nothing is told, because nothing has happened.
LEMMA EmptyTells ==
    ASSUME NEW s \in Seq(Nat)
    PROVE  Tells(Empty, s, s, {}) /\ Empty.deletions = {}
<1> DEFINE e == <<>>
<1>1. e \in Seq(AMove) /\ DOMAIN e = {} /\ {} \in IndexSet /\ {} \in SUBSET AMove
  BY NothingShifts
<1>2. Empty = [deletions |-> {}, insertions |-> {}, modifications |-> {}, moves |-> e, mapping |-> {}]
  BY DEF Empty, Deleting
<1> HIDE DEF e
<1>3. Empty \in ChangeSet
  BY <1>1, <1>2, FromFields
<1>4. /\ Empty.deletions = {} /\ Empty.insertions = {} /\ Empty.modifications = {} /\ Empty.moves = e
  BY <1>2
<1>5. \A i \in IndicesOf(s) : i \in Nat /\ Unshift({}, i) = i
  BY NothingShifts DEF IndicesOf
<1>6. Lined({}, {}, s, s)
  BY <1>5 DEF Lined
<1>7. MovesAreTold(Empty, s, s) /\ ModificationsAreTold(Empty, s, {})
  BY <1>1, <1>4 DEF MovesAreTold, OneEach, ModificationsAreTold
<1>8. QED BY <1>3, <1>4, <1>6, <1>7 DEF Tells

\* An empty change set is of a collection that has stayed the same.
LEMMA EmptyIsSame ==
    ASSUME NEW s \in Seq(Nat), NEW t \in Seq(Nat), NEW T, NEW b, Tells(b, s, t, T), IsEmpty(b)
    PROVE  s = t /\ \A i \in IndicesOf(t) : At(t, i) \notin T
<1>1. b.deletions = {} /\ b.insertions = {} /\ b.modifications = {} /\ b.moves = <<>>
  BY DEF IsEmpty
<1>2. Lined({}, {}, s, t)
  BY <1>1 DEF Tells
<1>3. Len(s) \in Nat /\ Len(t) \in Nat
  OBVIOUS
<1>4. Len(s) = Len(t)
  <2>1. Unshift({}, Len(s)) = Len(s) /\ Unshift({}, Len(t)) = Len(t)
    BY <1>3, NothingShifts
  <2>2. QED BY <1>2, <2>1 DEF Lined
<1>5. ASSUME NEW i \in IndicesOf(s) PROVE At(s, i) = At(t, i)
  <2>1. i \in Nat /\ i \in IndicesOf(t)
    BY <1>4 DEF IndicesOf
  <2>2. Unshift({}, i) = Unshift({}, i)
    OBVIOUS
  <2>3. QED BY <1>2, <2>1 DEF Lined
<1>6. \A k \in 1 .. Len(s) : s[k] = t[k]
  <2>1. ASSUME NEW k \in 1 .. Len(s) PROVE s[k] = t[k]
    <3>1. k - 1 \in IndicesOf(s) /\ (k - 1) + 1 = k
      BY <1>3 DEF IndicesOf
    <3>2. s[(k - 1) + 1] = t[(k - 1) + 1]
      BY <1>5, <3>1 DEF At
    <3>3. QED BY <3>1, <3>2
  <2>2. QED BY <2>1
<1>7. s = t
  BY <1>4, <1>6, SeqEqual
<1>8. ASSUME NEW i \in IndicesOf(t) PROVE At(t, i) \notin T
  BY <1>1 DEF Tells, ModificationsAreTold
<1>9. QED BY <1>7, <1>8

\* MergeSets.
LEMMA MergeSetsTells ==
    ASSUME NEW s \in Seq(Nat), NEW m \in Seq(Nat), NEW t \in Seq(Nat), NEW T, NEW U,
           NEW a, NEW c, Tells(a, s, m, T), Tells(c, m, t, U)
    PROVE  /\ Tells(MergeSets(a, c), s, t, T \cup U)
           /\ a.deletions \subseteq IndicesOf(s) /\ c.deletions \subseteq IndicesOf(m)
              => MergeSets(a, c).deletions \subseteq IndicesOf(s)
<1>1. CASE IsEmpty(c)
  <2>1. m = t /\ \A i \in IndicesOf(t) : At(t, i) \notin U
    BY <1>1, EmptyIsSame
  <2>2. MergeSets(a, c) = a
    BY <1>1 DEF MergeSets
  <2>3. ModificationsAreTold(a, t, T \cup U)
    BY <2>1 DEF Tells, ModificationsAreTold
  <2>4. Tells(a, s, t, T \cup U)
    BY <2>1, <2>3 DEF Tells
  <2>5. QED BY <2>2, <2>4
<1>2. CASE ~IsEmpty(c) /\ IsEmpty(a)
  <2>1. s = m /\ \A i \in IndicesOf(m) : At(m, i) \notin T
    BY <1>2, EmptyIsSame
  <2>2. MergeSets(a, c) = c
    BY <1>2 DEF MergeSets
  <2>3. /\ c.deletions \in IndexSet /\ c.insertions \in IndexSet /\ Lined(c.insertions, c.deletions, t, m)
        /\ MovesAreTold(c, m, t)
    BY LinedIsSymmetric DEF Tells, ChangeSet
  <2>4. ASSUME NEW i \in IndicesOf(t), i \notin c.insertions \/ (\E k \in DOMAIN c.moves : c.moves[k].to = i)
        PROVE  At(t, i) \notin T
    <3>1. CASE i \notin c.insertions
      <4> DEFINE D == c.deletions
                 I == c.insertions
                 x == Shift(D, Unshift(I, i))
      <4>1. D \in IndexSet /\ I \in IndexSet /\ Lined(I, D, t, m) /\ i \in IndicesOf(t) \ I
        BY <2>3, <3>1
      <4> HIDE DEF D, I
      <4>2. x \in IndicesOf(m) /\ At(t, i) = At(m, x)
        BY <4>1, Partner
      <4>3. QED BY <2>1, <4>2
    <3>2. CASE \E k \in DOMAIN c.moves : c.moves[k].to = i
      BY <2>1, <2>3, <3>2 DEF MovesAreTold
    <3>3. QED BY <2>4, <3>1, <3>2
  <2>5. ModificationsAreTold(c, t, T \cup U)
    BY <2>4 DEF Tells, ModificationsAreTold
  <2>6. Tells(c, s, t, T \cup U)
    BY <2>1, <2>5 DEF Tells
  <2>7. QED BY <2>1, <2>2, <2>6
<1>3. CASE ~IsEmpty(c) /\ ~IsEmpty(a)
  <2>1. MergeSets(a, c) = MergeInto(a, c)
    BY <1>3 DEF MergeSets
  <2>2. /\ Tells(MergeInto(a, c), s, t, T \cup U)
        /\ a.deletions \subseteq IndicesOf(s) /\ c.deletions \subseteq IndicesOf(m)
              => MergeInto(a, c).deletions \subseteq IndicesOf(s)
    BY MergeIntoTells
  <2>3. QED BY <2>1, <2>2, Zenon
<1>4. QED BY <1>1, <1>2, <1>3

\* The indices from k on, from which Min takes the first.
LEMMA LastIndices ==
    ASSUME NEW n \in Nat, NEW k \in 1 .. n
    PROVE  /\ n + 1 .. n = {}
           /\ k .. n \in SUBSET (1 .. n) /\ k .. n # {} /\ Min(k .. n) = k /\ (k .. n) \ {Min(k .. n)} = k + 1 .. n
<1>1. k \in k .. n /\ \A y \in k .. n : k <= y
  OBVIOUS
<1>2. PICK x \in k .. n : x = Min(k .. n) /\ \A y \in k .. n : x <= y
  BY <1>1, Zenon DEF Min
<1>3. x = k
  BY <1>1, <1>2
<1>4. (k .. n) \ {k} = k + 1 .. n /\ k .. n \in SUBSET (1 .. n) /\ n + 1 .. n = {}
  OBVIOUS
<1>5. QED BY <1>1, <1>2, <1>3, <1>4

\* The change sets are merged from the last one on.
LEMMA MergeSteps ==
    ASSUME NEW n \in Nat, NEW q, DOMAIN q = 1 .. n
    PROVE  \E g : /\ g[n + 1] = Empty
                  /\ \A k \in 1 .. n : g[k] = MergeSets(q[k], g[k + 1])
                  /\ FoldRight(MergeSets, q, Empty) = g[1]
<1> DEFINE F(T, h) == IF T = {} THEN Empty ELSE MergeSets(q[Min(T)], h[T \ {Min(T)}])
           IsFold(h) == h = [T \in SUBSET DOMAIN q |-> F(T, h)]
           H == CHOOSE h : IsFold(h)
           g == [k \in Nat |-> H[k .. n]]
           D(k) == {T \in SUBSET (1 .. n) : Cardinality(T) <= k}
           P == {k \in Nat : \E h : h = [T \in D(k) |-> F(T, h)]}
<1>1. FoldRight(MergeSets, q, Empty) = H[DOMAIN q]
  BY Zenon DEF FoldRight, MapThenFoldSet
<1>2. \A T \in SUBSET (1 .. n) : T \in SUBSET Nat /\ IsFiniteSet(T) /\ Cardinality(T) \in Nat /\ Cardinality(T) <= n
  <2>1. IsFiniteSet(1 .. n) /\ Cardinality(1 .. n) = n
    BY FS_Interval
  <2>2. \A T \in SUBSET (1 .. n) : IsFiniteSet(T) /\ Cardinality(T) <= n
    BY <2>1, FS_Subset
  <2>3. QED BY <2>2, FS_CardinalityType
<1>3. \A T \in SUBSET (1 .. n) : T # {} =>
         /\ Min(T) \in T /\ T \ {Min(T)} \in SUBSET (1 .. n)
         /\ Cardinality(T \ {Min(T)}) = Cardinality(T) - 1
  <2> SUFFICES ASSUME NEW T \in SUBSET (1 .. n), T # {}
               PROVE  /\ Min(T) \in T /\ T \ {Min(T)} \in SUBSET (1 .. n)
                      /\ Cardinality(T \ {Min(T)}) = Cardinality(T) - 1
    OBVIOUS
  <2>1. \E x \in T : \A y \in T : x <= y
    BY <1>2, LeastOf
  <2>2. Min(T) \in T
    BY <2>1, Zenon DEF Min
  <2>3. QED BY <1>2, <2>2, FS_RemoveElement
<1>4. 0 \in P
  <2>1. \A T \in D(0) : T = {}
    <3>1. ASSUME NEW T \in D(0) PROVE T = {}
      <4>1. Cardinality(T) = 0 /\ IsFiniteSet(T)
        BY <1>2
      <4>2. QED BY <4>1, FS_EmptySet
    <3>2. QED BY <3>1
  <2> DEFINE h == [T \in D(0) |-> Empty]
  <2>2. \A T \in D(0) : F(T, h) = Empty
    BY <2>1
  <2>3. h = [T \in D(0) |-> F(T, h)]
    <3> HIDE DEF F
    <3>1. QED BY <2>2
  <2>4. \E f : f = [T \in D(0) |-> F(T, f)]
    BY <2>3
  <2>5. QED BY <2>4
<1>5. ASSUME NEW k \in Nat, k \in P PROVE k + 1 \in P
  <2>1. PICK h : h = [T \in D(k) |-> F(T, h)]
    BY <1>5
  <2> DEFINE f == [T \in D(k + 1) |-> F(T, h)]
  <2>2. \A T \in D(k) : T \in D(k + 1)
    BY <1>2
  <2>3. \A T \in D(k) : f[T] = h[T]
    <3> HIDE DEF F, D
    <3>1. \A T \in D(k) : h[T] = F(T, h)
      BY <2>1
    <3>2. QED BY <2>2, <3>1
  <2>4. ASSUME NEW T \in D(k + 1), T # {} PROVE T \ {Min(T)} \in D(k)
    <3> DEFINE V == T \ {Min(T)}
    <3>1. T \in SUBSET (1 .. n) /\ Cardinality(T) <= k + 1 /\ Cardinality(T) \in Nat
      BY <1>2
    <3>2. V \in SUBSET (1 .. n) /\ Cardinality(V) = Cardinality(T) - 1
      BY <1>3, <2>4, <3>1
    <3> HIDE DEF V
    <3>3. Cardinality(V) <= k
      BY <3>1, <3>2
    <3>4. V \in D(k)
      BY <3>2, <3>3
    <3>5. QED BY <3>4 DEF V
  <2>5. \A T \in D(k + 1) : F(T, f) = F(T, h)
    <3> HIDE DEF f
    <3>1. \A T \in D(k + 1) : T # {} => f[T \ {Min(T)}] = h[T \ {Min(T)}]
      BY <2>3, <2>4
    <3>2. QED BY <3>1
  <2>6. f = [T \in D(k + 1) |-> F(T, f)]
    <3> HIDE DEF F, D
    <3>1. QED BY <2>5
  <2>7. \E z : z = [T \in D(k + 1) |-> F(T, z)]
    BY <2>6
  <2> HIDE DEF F, D
  <2>8. QED BY <2>7
<1>6. n \in P
  <2> HIDE DEF P
  <2>1. Nat \subseteq P
    BY <1>4, <1>5, Induction
  <2>2. QED BY <2>1
<1>7. D(n) = SUBSET DOMAIN q
  BY <1>2
<1>8. \E h : IsFold(h)
  <2>1. \E h : h = [T \in D(n) |-> F(T, h)]
    BY <1>6
  <2> HIDE DEF F, D
  <2>2. QED BY <1>7, <2>1
<1>9. IsFold(H)
  <2> HIDE DEF F
  <2>1. QED BY <1>8, Zenon
<1> HIDE DEF H
<1>10. \A T \in SUBSET (1 .. n) : H[T] = F(T, H)
  <2> HIDE DEF F
  <2>1. QED BY <1>9
<1>11. g[n + 1] = Empty
  <2>1. g[n + 1] = H[{}]
    <3>1. g[n + 1] = H[n + 1 .. n] /\ n + 1 .. n = {}
      OBVIOUS
    <3>2. QED BY <3>1
  <2>2. QED BY <1>10, <2>1
<1>12. ASSUME NEW k \in 1 .. n PROVE g[k] = MergeSets(q[k], g[k + 1])
  <2>1. g[k] = H[k .. n] /\ g[k + 1] = H[k + 1 .. n]
    OBVIOUS
  <2>2. k .. n \in SUBSET (1 .. n) /\ k .. n # {} /\ Min(k .. n) = k /\ (k .. n) \ {k} = k + 1 .. n
    BY LastIndices
  <2> HIDE DEF g
  <2>3. H[k .. n] = MergeSets(q[k], H[k + 1 .. n])
    BY <1>10, <2>2, Zenon
  <2>4. QED BY <2>1, <2>3
<1>13. FoldRight(MergeSets, q, Empty) = g[1]
  BY <1>1
<1> HIDE DEF g
<1>14. QED BY <1>11, <1>12, <1>13

-----------------------------------------------------------------------------
(* The rows of a collection are all different                              *)

\* A collection has finitely many entries.
LEMMA EntriesAreFinite == ASSUME NEW s \in Seq(Nat) PROVE ToSet(s) \in IndexSet
<1>1. DOMAIN s = 1 .. Len(s) /\ Len(s) \in Nat
  OBVIOUS
<1>2. IsFiniteSet(1 .. Len(s))
  BY <1>1, FS_Interval
<1>3. IsFiniteSet({s[i] : i \in 1 .. Len(s)})
  BY <1>2, FiniteImage
<1>4. ToSet(s) = {s[i] : i \in 1 .. Len(s)}
  BY <1>1 DEF ToSet
<1>5. ToSet(s) \in SUBSET Nat
  BY DEF ToSet
<1>6. QED BY <1>3, <1>4, <1>5 DEF IndexSet

\* A new row is not one of those there are.
LEMMA FreshIsFresh ==
    ASSUME old \in Seq(Nat), mid \in Seq(Nat), list \in Seq(Nat), touched \in IndexSet, before \in IndexSet
    PROVE  Fresh \in Nat /\ Fresh \notin ToSet(list) /\ Fresh \notin ToSet(mid)
<1> DEFINE S == ToSet(old) \cup ToSet(mid) \cup ToSet(list) \cup touched \cup before \cup {0}
           A == ToSet(old)
           B == ToSet(mid)
           C == ToSet(list)
<1>1. A \in IndexSet /\ B \in IndexSet /\ C \in IndexSet /\ {0} \in IndexSet
  BY EntriesAreFinite, SingletonLaw
<1>2. \A X, Y \in IndexSet : X \cup Y \in IndexSet
  BY FS_Union DEF IndexSet
<1>3. S = ((((A \cup B) \cup C) \cup touched) \cup before) \cup {0}
  OBVIOUS
<1>4. Fresh = Max(S) + 1
  BY Zenon DEF Fresh
<1>5. C \subseteq S /\ B \subseteq S /\ S # {}
  OBVIOUS
<1> HIDE DEF A, B, S
<1>6. S \in IndexSet
  BY <1>1, <1>2, <1>3
<1>7. Max(S) \in S /\ \A y \in S : y <= Max(S)
  BY <1>5, <1>6, GreatestOf
<1>8. S \subseteq Nat
  BY <1>6 DEF IndexSet
<1> DEFINE x == Max(S)
<1>9. x \in Nat /\ (\A y \in C : y <= x) /\ (\A y \in B : y <= x) /\ Fresh = x + 1
  BY <1>4, <1>5, <1>7, <1>8
<1> HIDE DEF x, C
<1>10. Fresh \in Nat /\ Fresh \notin C /\ Fresh \notin B
  BY <1>9
<1>11. QED BY <1>10 DEF B, C

\* A row that was not there may be put in,
LEMMA DistinctWith ==
    ASSUME NEW s \in Seq(Nat), Distinct(s), NEW i \in 0 .. Len(s), NEW e \in Nat,
           \A j \in IndicesOf(s) : At(s, j) # e
    PROVE  Distinct(InsertAt(s, i + 1, e))
<1> DEFINE t == InsertAt(s, i + 1, e)
<1>1. /\ At(t, i) = e
      /\ \A k \in IndicesOf(t) \ {i} : Unshift({i}, k) \in IndicesOf(s) /\ At(t, k) = At(s, Unshift({i}, k))
  <2>1. WithAt(s, i, e, t)
    BY InsertAtLaw
  <2> HIDE DEF t
  <2>2. QED BY <2>1 DEF WithAt
<1> HIDE DEF t
<1>2. \A k \in IndicesOf(t) : k \in Nat
  BY DEF IndicesOf
<1>3. ASSUME NEW j \in IndicesOf(t), NEW k \in IndicesOf(t), At(t, j) = At(t, k) PROVE j = k
  <2>1. CASE j = i
    BY <1>1, <1>3, <2>1
  <2>2. CASE k = i
    BY <1>1, <1>3, <2>2
  <2>3. CASE j # i /\ k # i
    <3>1. Unshift({i}, j) = Unshift({i}, k)
      BY <1>1, <1>3, <2>3 DEF Distinct
    <3>2. {i} \in SUBSET Nat /\ j \in Nat \ {i} /\ k \in Nat \ {i}
      BY <1>2, <2>3
    <3>3. QED BY <3>1, <3>2, UnshiftIsInjective
  <2>4. QED BY <2>1, <2>2, <2>3
<1>4. QED BY <1>3 DEF Distinct, t

\* one may be taken out, which is then not there,
LEMMA DistinctWithout ==
    ASSUME NEW s \in Seq(Nat), Distinct(s), NEW i \in IndicesOf(s)
    PROVE  LET t == RemoveAt(s, i + 1)
           IN  t \in Seq(Nat) /\ Len(t) = Len(s) - 1 /\ Distinct(t) /\ \A j \in IndicesOf(t) : At(t, j) # At(s, i)
<1> DEFINE t == RemoveAt(s, i + 1)
<1>1. /\ t \in Seq(Nat) /\ Len(t) = Len(s) - 1
      /\ \A j \in IndicesOf(t) : At(t, j) = At(s, Shift({i}, j)) /\ Shift({i}, j) \in IndicesOf(s)
  BY RemoveAtLaw DEF WithoutAt
<1> HIDE DEF t
<1>2. {i} \in IndexSet /\ \A j \in IndicesOf(t) : j \in Nat
  <2>1. i \in Nat /\ \A j \in IndicesOf(t) : j \in Nat
    BY DEF IndicesOf
  <2>2. QED BY <2>1, SingletonLaw
<1>3. \A j \in IndicesOf(t) : Shift({i}, j) # i /\ Unshift({i}, Shift({i}, j)) = j
  BY <1>2, ShiftLaw
<1>4. Distinct(t)
  <2>1. ASSUME NEW j \in IndicesOf(t), NEW k \in IndicesOf(t), At(t, j) = At(t, k) PROVE j = k
    <3>1. Shift({i}, j) = Shift({i}, k)
      BY <1>1, <2>1 DEF Distinct
    <3>2. QED BY <1>3, <3>1
  <2>2. QED BY <2>1 DEF Distinct
<1>5. \A j \in IndicesOf(t) : At(t, j) # At(s, i)
  BY <1>1, <1>3 DEF Distinct
<1>6. QED BY <1>1, <1>4, <1>5 DEF t

\* and one may be moved.
LEMMA DistinctMoved ==
    ASSUME NEW s \in Seq(Nat), Distinct(s), NEW from \in IndicesOf(s), NEW to \in IndicesOf(s)
    PROVE  Distinct(MovedTo(s, from, to))
<1> DEFINE t == RemoveAt(s, from + 1)
<1>1. t \in Seq(Nat) /\ Len(t) = Len(s) - 1 /\ Distinct(t) /\ \A j \in IndicesOf(t) : At(t, j) # At(s, from)
  BY DistinctWithout
<1> HIDE DEF t
<1>2. to \in 0 .. Len(t)
  BY <1>1 DEF IndicesOf
<1>3. At(s, from) \in Nat
  BY DEF At, IndicesOf
<1>4. Distinct(InsertAt(t, to + 1, At(s, from)))
  BY <1>1, <1>2, <1>3, DistinctWith
<1>5. QED BY <1>4 DEF MovedTo, t

-----------------------------------------------------------------------------
(* The change sets of a list                                               *)

ListInv ==
    kind = "list" =>
       /\ old \in Seq(Nat) /\ mid \in Seq(Nat) /\ list \in Seq(Nat)
       /\ touched \in IndexSet /\ before \in IndexSet
       /\ Distinct(list)
       /\ sets = <<>> \/ \E b \in ChangeSet : sets = <<b>>
       /\ Tells(merged, old, mid, before) /\ merged.deletions \subseteq IndicesOf(old)
       /\ Tells(builder, mid, list, touched) /\ builder.deletions \subseteq IndicesOf(mid)
       /\ stage = "merged" => mid = list

\* With none or one before this transaction, merged is what there was.
LEMMA MergedIs ==
    ASSUME NEW q
    PROVE  /\ q = <<>> => FoldRight(MergeSets, q, Empty) = Empty
           /\ \A b : q = <<b>> => FoldRight(MergeSets, q, Empty) = b
<1>1. ASSUME q = <<>> PROVE FoldRight(MergeSets, q, Empty) = Empty
  <2> DEFINE n == 0
  <2>1. DOMAIN q = 1 .. n /\ n \in Nat
    BY <1>1
  <2>a. n + 1 = 1
    OBVIOUS
  <2> HIDE DEF n
  <2>3. PICK g : /\ g[n + 1] = Empty
                 /\ \A k \in 1 .. n : g[k] = MergeSets(q[k], g[k + 1])
                 /\ FoldRight(MergeSets, q, Empty) = g[1]
    BY <2>1, MergeSteps
  <2>4. QED BY <2>3, <2>a
<1>2. ASSUME NEW b, q = <<b>> PROVE FoldRight(MergeSets, q, Empty) = b
  <2> DEFINE n == 1
  <2>1. DOMAIN q = 1 .. n /\ n \in Nat
    BY <1>2
  <2>a. q[1] = b
    BY <1>2
  <2>b. 1 \in 1 .. n
    OBVIOUS
  <2>c. n + 1 = 2 /\ 1 + 1 = 2
    OBVIOUS
  <2> HIDE DEF n
  <2>3. PICK g : /\ g[n + 1] = Empty
                 /\ \A k \in 1 .. n : g[k] = MergeSets(q[k], g[k + 1])
                 /\ FoldRight(MergeSets, q, Empty) = g[1]
    BY <2>1, MergeSteps
  <2>4. g[1] = MergeSets(b, Empty)
    <3>1. g[1] = MergeSets(q[1], g[1 + 1])
      BY <2>3, <2>b, Zenon
    <3>2. g[1 + 1] = Empty
      BY <2>3, <2>c
    <3>3. QED BY <2>a, <3>1, <3>2
  <2>5. MergeSets(b, Empty) = b
    <3>1. IsEmpty(Empty)
      BY DEF IsEmpty, Empty, Deleting
    <3>2. QED BY <3>1 DEF MergeSets
  <2>6. QED BY <2>3, <2>4, <2>5
<1>3. QED BY <1>1, <1>2

\* The rows that were modified are finitely many.
LEMMA TouchedMore ==
    ASSUME NEW T \in IndexSet, NEW s \in Seq(Nat), NEW i \in IndicesOf(s)
    PROVE  T \cup {At(s, i)} \in IndexSet
<1>1. At(s, i) \in Nat
  BY DEF At, IndicesOf
<1>2. {At(s, i)} \in IndexSet
  BY <1>1, SingletonLaw
<1>3. QED BY <1>2, FS_Union DEF IndexSet

\* A transaction starts with a change set that tells of nothing.
LEMMA ListInit == Init => ListInv
<1> SUFFICES ASSUME Init, kind = "list" PROVE ListInv
  BY DEF ListInv
<1>1. InitialSize \in Nat
  BY ChangeSetsAssumption
<1>2. old = [i \in 1 .. InitialSize |-> i] /\ mid = old /\ list = old
  BY DEF Init
<1>3. builder = Empty /\ sets = <<>> /\ stage = "parsing" /\ touched = {} /\ before = {}
  BY DEF Init
<1>4. old \in Seq(Nat) /\ Len(old) = InitialSize /\ \A i \in 1 .. InitialSize : old[i] = i
  BY <1>1, <1>2
<1>5. Distinct(old)
  BY <1>1, <1>4 DEF Distinct, IndicesOf, At
<1>6. {} \in IndexSet
  BY NothingShifts
<1>7. Tells(Empty, old, old, {}) /\ Empty.deletions = {}
  BY <1>4, EmptyTells
<1>8. merged = Empty
  <2>1. merged = FoldRight(MergeSets, sets, Empty)
    BY Zenon DEF merged
  <2>2. QED BY <1>3, <2>1, MergedIs
<1>9. stage # "merged"
  BY <1>3
<1>10. QED BY <1>2, <1>3, <1>4, <1>5, <1>6, <1>7, <1>8, <1>9, Zenon DEF ListInv

\* What an instruction of a list leaves of the invariant when the change set
\* of its transaction goes on telling of it.
LEMMA InstructionStep ==
    ASSUME ListInv, kind = "list", NEW s, NEW b, Instruction(s, b), stage = "parsing",
           s \in Seq(Nat), Distinct(s), touched' \in IndexSet,
           Tells(b, mid, s, touched'), b.deletions \subseteq IndicesOf(mid)
    PROVE  ListInv'
<1>1. /\ list' = s /\ builder' = b
      /\ old' = old /\ mid' = mid /\ sets' = sets /\ stage' = stage /\ before' = before
  BY DEF Instruction
<1>2. merged' = merged
  BY <1>1, Zenon DEF merged
<1>3. /\ old \in Seq(Nat) /\ mid \in Seq(Nat) /\ before \in IndexSet
      /\ sets = <<>> \/ \E d \in ChangeSet : sets = <<d>>
      /\ Tells(merged, old, mid, before) /\ merged.deletions \subseteq IndicesOf(old)
  BY Zenon DEF ListInv
<1>4. stage' # "merged"
  BY <1>1
<1>5. kind' = kind
  BY DEF Instruction
<1>6. QED BY <1>1, <1>2, <1>3, <1>4, <1>5, Zenon DEF ListInv

\* The instructions of a list, one by one.
LEMMA LinkListSetStep == ASSUME ListInv, NEW i, LinkListSet(i) PROVE ListInv'
<1>1. kind = "list" /\ stage = "parsing" /\ i \in IndicesOf(list)
  BY DEF LinkListSet, Parse, Indices, Size, IndicesOf
<1>2. /\ mid \in Seq(Nat) /\ list \in Seq(Nat) /\ Distinct(list) /\ touched \in IndexSet
      /\ Tells(builder, mid, list, touched) /\ builder.deletions \subseteq IndicesOf(mid)
  BY <1>1, Zenon DEF ListInv
<1>3. touched' = touched \cup {At(list, i)} /\ Instruction(list, Modify(builder, i))
  BY DEF LinkListSet
<1>4. touched' \in IndexSet
  BY <1>1, <1>2, <1>3, TouchedMore
<1>5. Tells(Modify(builder, i), mid, list, touched') /\ Modify(builder, i).deletions = builder.deletions
  BY <1>1, <1>2, <1>3, ModifyTells
<1>6. QED BY <1>1, <1>2, <1>3, <1>4, <1>5, InstructionStep

\* The code tells of a swap as of two modifications.
LEMMA LinkListSwapStep == ASSUME ListInv, NEW i, NEW j, LinkListSwap(i, j) PROVE ListInv'
<1> DEFINE b == Modify(builder, i)
           T == touched \cup {At(list, i)}
<1>1. kind = "list" /\ stage = "parsing" /\ i \in IndicesOf(list) /\ j \in IndicesOf(list)
  BY DEF LinkListSwap, Parse, Indices, Size, IndicesOf
<1>2. /\ mid \in Seq(Nat) /\ list \in Seq(Nat) /\ Distinct(list) /\ touched \in IndexSet
      /\ Tells(builder, mid, list, touched) /\ builder.deletions \subseteq IndicesOf(mid)
  BY <1>1, Zenon DEF ListInv
<1>3. touched' = T \cup {At(list, j)} /\ Instruction(list, Modify(b, j))
  BY DEF LinkListSwap
<1>4. T \in IndexSet
  BY <1>1, <1>2, TouchedMore
<1>5. Tells(b, mid, list, T) /\ b.deletions = builder.deletions
  BY <1>1, <1>2, ModifyTells
<1> HIDE DEF b, T
<1>6. touched' \in IndexSet
  BY <1>1, <1>2, <1>3, <1>4, TouchedMore
<1>7. Tells(Modify(b, j), mid, list, touched') /\ Modify(b, j).deletions = b.deletions
  BY <1>1, <1>2, <1>3, <1>5, ModifyTells
<1>8. QED BY <1>1, <1>2, <1>3, <1>5, <1>6, <1>7, InstructionStep

\* A new row, at any place.
LEMMA LinkListInsertStep == ASSUME ListInv, NEW i, LinkListInsert(i) PROVE ListInv'
<1> DEFINE e == Fresh
           s == InsertAt(list, i + 1, e)
<1>1. kind = "list" /\ stage = "parsing" /\ i \in 0 .. Len(list)
  BY DEF LinkListInsert, Parse, Size
<1>2. /\ old \in Seq(Nat) /\ mid \in Seq(Nat) /\ list \in Seq(Nat) /\ Distinct(list)
      /\ touched \in IndexSet /\ before \in IndexSet
      /\ Tells(builder, mid, list, touched) /\ builder.deletions \subseteq IndicesOf(mid)
  BY <1>1, Zenon DEF ListInv
<1>3. touched' = touched /\ Instruction(s, Insert(builder, i))
  BY DEF LinkListInsert
<1>4. e \in Nat /\ e \notin ToSet(list)
  BY <1>2, FreshIsFresh
<1> HIDE DEF e
<1>5. \A j \in IndicesOf(list) : At(list, j) # e
  <2>1. \A j \in IndicesOf(list) : At(list, j) \in ToSet(list)
    BY <1>2 DEF IndicesOf, At, ToSet
  <2>2. QED BY <1>4, <2>1
<1>6. s \in Seq(Nat)
  <2>1. WithAt(list, i, e, InsertAt(list, i + 1, e))
    BY <1>1, <1>2, <1>4, InsertAtLaw
  <2>2. QED BY <2>1 DEF WithAt
<1>7. Distinct(s)
  BY <1>1, <1>2, <1>4, <1>5, DistinctWith
<1>8. Tells(Insert(builder, i), mid, s, touched') /\ Insert(builder, i).deletions = builder.deletions
  BY <1>1, <1>2, <1>3, <1>4, InsertTells
<1> HIDE DEF s
<1>9. QED BY <1>1, <1>2, <1>3, <1>6, <1>7, <1>8, InstructionStep

\* A row is taken out.
LEMMA LinkListEraseStep == ASSUME ListInv, NEW i, LinkListErase(i) PROVE ListInv'
<1> DEFINE s == RemoveAt(list, i + 1)
<1>1. kind = "list" /\ stage = "parsing" /\ i \in IndicesOf(list)
  BY DEF LinkListErase, Parse, Indices, Size, IndicesOf
<1>2. /\ mid \in Seq(Nat) /\ list \in Seq(Nat) /\ Distinct(list) /\ touched \in IndexSet
      /\ Tells(builder, mid, list, touched) /\ builder.deletions \subseteq IndicesOf(mid)
  BY <1>1, Zenon DEF ListInv
<1>3. touched' = touched /\ Instruction(s, Erase(builder, i))
  BY DEF LinkListErase
<1>4. s \in Seq(Nat) /\ Distinct(s)
  BY <1>1, <1>2, DistinctWithout
<1>5. Tells(Erase(builder, i), mid, s, touched') /\ Erase(builder, i).deletions \subseteq IndicesOf(mid)
  BY <1>1, <1>2, <1>3, EraseTells
<1> HIDE DEF s
<1>6. QED BY <1>1, <1>2, <1>3, <1>4, <1>5, InstructionStep

\* A row is moved.
LEMMA LinkListMoveStep == ASSUME ListInv, NEW from, NEW to, LinkListMove(from, to) PROVE ListInv'
<1> DEFINE s == MovedTo(list, from, to)
<1>1. kind = "list" /\ stage = "parsing" /\ from \in IndicesOf(list) /\ to \in IndicesOf(list)
  BY DEF LinkListMove, Parse, Indices, Size, IndicesOf
<1>2. /\ mid \in Seq(Nat) /\ list \in Seq(Nat) /\ Distinct(list) /\ touched \in IndexSet
      /\ Tells(builder, mid, list, touched) /\ builder.deletions \subseteq IndicesOf(mid)
  BY <1>1, Zenon DEF ListInv
<1>3. touched' = touched /\ Instruction(s, Move(builder, from, to))
  BY DEF LinkListMove, MovedTo
<1>4. s \in Seq(Nat) /\ Distinct(s)
  BY <1>1, <1>2, MoveIsLined, DistinctMoved
<1>5. Tells(Move(builder, from, to), mid, s, touched') /\ Move(builder, from, to).deletions \subseteq IndicesOf(mid)
  BY <1>1, <1>2, <1>3, MoveTells
<1> HIDE DEF s
<1>6. QED BY <1>1, <1>2, <1>3, <1>4, <1>5, InstructionStep

\* All rows are taken out.
LEMMA LinkListClearStep == ASSUME ListInv, LinkListClear PROVE ListInv'
<1>1. kind = "list" /\ stage = "parsing"
  BY DEF LinkListClear, Parse
<1>2. /\ mid \in Seq(Nat) /\ list \in Seq(Nat) /\ touched \in IndexSet
      /\ Tells(builder, mid, list, touched) /\ builder.deletions \subseteq IndicesOf(mid)
  BY <1>1, Zenon DEF ListInv
<1>3. touched' = touched /\ Instruction(<<>>, Clear(builder, Len(list)))
  BY DEF LinkListClear, Size
<1>4. <<>> \in Seq(Nat) /\ Distinct(<<>>)
  BY DEF Distinct, IndicesOf
<1>5. Tells(Clear(builder, Len(list)), mid, <<>>, touched') /\ Clear(builder, Len(list)).deletions \subseteq IndicesOf(mid)
  BY <1>1, <1>2, <1>3, ClearTells
<1>6. QED BY <1>1, <1>2, <1>3, <1>4, <1>5, InstructionStep

\* The end of a transaction takes out the moves that are none.
LEMMA CompleteParseStep == ASSUME ListInv, CompleteParse PROVE ListInv'
<1> SUFFICES ASSUME kind = "list" PROVE ListInv'
  BY DEF ListInv, CompleteParse
<1> DEFINE b == CleanUpStaleMoves(builder)
<1>1. /\ old' = old /\ mid' = mid /\ list' = list /\ sets' = sets /\ touched' = touched /\ before' = before
      /\ stage' # "merged" /\ builder' = b
  BY DEF CompleteParse
<1>2. /\ old \in Seq(Nat) /\ mid \in Seq(Nat) /\ list \in Seq(Nat) /\ touched \in IndexSet /\ before \in IndexSet
      /\ Distinct(list)
      /\ sets = <<>> \/ \E d \in ChangeSet : sets = <<d>>
      /\ Tells(merged, old, mid, before) /\ merged.deletions \subseteq IndicesOf(old)
  BY Zenon DEF ListInv
<1>3. Tells(builder, mid, list, touched) /\ builder.deletions \subseteq IndicesOf(mid)
  BY Zenon DEF ListInv
<1>4. Tells(b, mid, list, touched) /\ b.deletions \subseteq builder.deletions
  BY <1>2, <1>3, CleanUpTells
<1>5. merged' = merged
  BY <1>1, Zenon DEF merged
<1> HIDE DEF b
<1>6. b.deletions \subseteq IndicesOf(mid)
  BY <1>3, <1>4
<1>7. QED BY <1>1, <1>2, <1>4, <1>5, <1>6, Zenon DEF ListInv

\* Then its change set is merged into the one of the transactions before.
LEMMA MergeStep == ASSUME ListInv, Merge PROVE ListInv'
<1> SUFFICES ASSUME kind = "list" PROVE ListInv'
  BY DEF ListInv, Merge
<1> DEFINE b == MergeSets(merged, builder)
           T == before \cup touched
<1>1. /\ old' = old /\ mid' = list /\ list' = list /\ sets' = <<b>> /\ touched' = {} /\ before' = T
      /\ builder' = Empty
  BY DEF Merge
<1>2. /\ old \in Seq(Nat) /\ mid \in Seq(Nat) /\ list \in Seq(Nat) /\ touched \in IndexSet /\ before \in IndexSet
      /\ Distinct(list)
  BY Zenon DEF ListInv
<1>3. /\ Tells(merged, old, mid, before) /\ merged.deletions \subseteq IndicesOf(old)
      /\ Tells(builder, mid, list, touched) /\ builder.deletions \subseteq IndicesOf(mid)
  BY Zenon DEF ListInv
<1>4. T \in IndexSet /\ {} \in IndexSet
  BY <1>2, NothingShifts, FS_Union DEF IndexSet
<1>5. Tells(b, old, list, T) /\ b.deletions \subseteq IndicesOf(old)
  BY <1>2, <1>3, MergeSetsTells
<1>6. Tells(Empty, list, list, {}) /\ Empty.deletions = {}
  BY <1>2, EmptyTells
<1>7. b \in ChangeSet
  BY <1>5 DEF Tells
<1>8. merged' = b
  <2>1. merged' = FoldRight(MergeSets, sets', Empty)
    BY Zenon DEF merged
  <2>2. QED BY <1>1, <2>1, MergedIs
<1> HIDE DEF b, T
<1>9. Empty.deletions \subseteq IndicesOf(list)
  BY <1>6
<1>10. QED BY <1>1, <1>2, <1>4, <1>5, <1>6, <1>7, <1>8, <1>9, Zenon DEF ListInv

\* What the change sets of a list tell is true after every step.
LEMMA ListStep == ListInv /\ [Next]_vars => ListInv'
<1> SUFFICES ASSUME ListInv, [Next]_vars PROVE ListInv'
  OBVIOUS
<1>1. ASSUME NEW i, LinkListSet(i) PROVE ListInv'
  BY <1>1, LinkListSetStep
<1>2. ASSUME NEW i, LinkListInsert(i) PROVE ListInv'
  BY <1>2, LinkListInsertStep
<1>3. ASSUME NEW i, LinkListErase(i) PROVE ListInv'
  BY <1>3, LinkListEraseStep
<1>4. ASSUME NEW i, NEW j, LinkListSwap(i, j) PROVE ListInv'
  BY <1>4, LinkListSwapStep
<1>5. ASSUME NEW i, NEW j, LinkListMove(i, j) PROVE ListInv'
  BY <1>5, LinkListMoveStep
<1>6. CASE LinkListClear
  BY <1>6, LinkListClearStep
<1>7. ASSUME kind # "list", kind' = kind PROVE ListInv'
  BY <1>7, Zenon DEF ListInv
<1>8. ASSUME NEW i, NEW j, MarkDirty(i) \/ EraseRows(i) \/ MergeRows(i) \/ SwapRows(i, j) PROVE ListInv'
  <2>1. kind = "table" /\ kind' = kind
    BY <1>8 DEF MarkDirty, EraseRows, MergeRows, SwapRows, Parse, Instruction
  <2>2. QED BY <1>7, <2>1
<1>9. CASE InsertEmptyRows \/ ClearTable
  <2>1. kind = "table" /\ kind' = kind
    BY <1>9 DEF InsertEmptyRows, ClearTable, Parse, Instruction
  <2>2. QED BY <1>7, <2>1
<1>10. CASE CompleteParse
  BY <1>10, CompleteParseStep
<1>11. CASE Merge
  BY <1>11, MergeStep
<1>12. CASE NextTransaction
  <2>1. /\ UNCHANGED <<kind, old, mid, list, builder, sets, touched, before>>
        /\ stage' # "merged"
    BY <1>12 DEF NextTransaction
  <2>2. merged' = merged
    BY <2>1, Zenon DEF merged
  <2>3. QED BY <2>1, <2>2 DEF ListInv
<1>13. CASE UNCHANGED vars
  <2>1. UNCHANGED <<kind, old, mid, list, builder, sets, touched, before, stage>>
    BY <1>13 DEF vars
  <2>2. merged' = merged
    BY <2>1, Zenon DEF merged
  <2>3. QED BY <2>1, <2>2 DEF ListInv
<1>14. QED BY <1>1, <1>2, <1>3, <1>4, <1>5, <1>6, <1>8, <1>9, <1>10, <1>11, <1>12, <1>13, Zenon DEF Next

\* So it is of each transaction, and of any number of them merged.
LEMMA ListIsRight ==
    ListInv => (kind = "list" => DescribesTheChange /\ ModificationsAreExact /\ MovesAreMoves)
<1> SUFFICES ASSUME ListInv, kind = "list" PROVE DescribesTheChange /\ ModificationsAreExact /\ MovesAreMoves
  OBVIOUS
<1>1. old \in Seq(Nat) /\ mid \in Seq(Nat) /\ list \in Seq(Nat)
  BY Zenon DEF ListInv
<1>2. Describes(builder, mid, list) /\ Marks(builder, mid, list, touched) /\ MovesHold(builder, mid, list)
  <2>1. Tells(builder, mid, list, touched) /\ builder.deletions \subseteq IndicesOf(mid)
    BY Zenon DEF ListInv
  <2>2. QED BY <1>1, <2>1, ToldIsRight
<1>3. Describes(merged, old, mid) /\ Marks(merged, old, mid, before) /\ MovesHold(merged, old, mid)
  <2>1. Tells(merged, old, mid, before) /\ merged.deletions \subseteq IndicesOf(old)
    BY Zenon DEF ListInv
  <2> DEFINE m == merged
  <2> HIDE DEF m
  <2>2. Tells(m, old, mid, before) /\ m.deletions \subseteq IndicesOf(old)
    BY <2>1, Zenon DEF m
  <2>3. Describes(m, old, mid) /\ Marks(m, old, mid, before) /\ MovesHold(m, old, mid)
    BY <1>1, <2>2, ToldIsRight
  <2>4. QED BY <2>3, Zenon DEF m
<1>4. stage = "merged" => mid = list
  BY Zenon DEF ListInv
<1>5. DescribesTheChange
  BY <1>2, <1>3, <1>4, Zenon DEF DescribesTheChange
<1>6. ModificationsAreExact
  BY <1>2, <1>3, <1>4, Zenon DEF ModificationsAreExact
<1>7. MovesAreMoves
  BY <1>2, <1>3, <1>4, Zenon DEF MovesAreMoves
<1>8. QED BY <1>5, <1>6, <1>7

-----------------------------------------------------------------------------
(* The rows of a table                                                     *)

\* Rows of a table that are told neither as deleted nor as inserted are where
\* they were.  Until the end of the transaction its moves are in the mapping.
TableTells(b, s, t, T) ==
    /\ b \in ChangeSet /\ b.moves = <<>>
    /\ b.insertions \subseteq IndicesOf(t) /\ b.modifications \subseteq IndicesOf(t)
    /\ IndicesOf(s) \ b.deletions = IndicesOf(t) \ b.insertions
    /\ \A i \in IndicesOf(t) \ b.insertions : At(s, i) = At(t, i)
    /\ \A m \in b.mapping :
          /\ m.from \in b.deletions \cap IndicesOf(s) /\ m.to \in b.insertions
          /\ At(s, m.from) = At(t, m.to)
    /\ \A i \in IndicesOf(t) :
          i \notin b.insertions \/ (\E m \in b.mapping : m.to = i) => (i \in b.modifications <=> At(t, i) \in T)

\* What is known of a change set of a table by its fields: it has at most the
\* moves of G.
Made(b, D, I, M, G) ==
    /\ b \in ChangeSet /\ b.moves = <<>>
    /\ b.deletions = D /\ b.insertions = I /\ b.modifications = M /\ b.mapping \subseteq G

\* The row of t at k is at m.to after an instruction: it was at m.from.
RowFrom(b, c, t, u, m) ==
    \E k \in IndicesOf(t) :
       /\ At(t, k) = At(u, m.to) /\ (m.to \in c.modifications <=> k \in b.modifications)
       /\ (k \notin b.insertions /\ m.from = k) \/ Pair(m.from, k) \in b.mapping

\* If b tells of what became of s in t, and c leaves the rows of t where they
\* are, or has the moves they have made in u, it tells of what became of s in u.
LEMMA CarryRows ==
    ASSUME NEW s \in Seq(Nat), NEW t \in Seq(Nat), NEW u \in Seq(Nat), NEW T,
           NEW b, TableTells(b, s, t, T), NEW c \in ChangeSet, c.moves = <<>>,
           c.insertions \subseteq IndicesOf(u), c.modifications \subseteq IndicesOf(u),
           IndicesOf(s) \ c.deletions = IndicesOf(u) \ c.insertions,
           \A i \in IndicesOf(u) \ c.insertions :
              /\ i \in IndicesOf(t) \ b.insertions /\ At(u, i) = At(t, i)
              /\ i \in c.modifications <=> i \in b.modifications,
           \A m \in c.mapping :
              m.to \in c.insertions /\ m.from \in c.deletions /\ RowFrom(b, c, t, u, m)
    PROVE  TableTells(c, s, u, T)
<1>1. ASSUME NEW i \in IndicesOf(u) \ c.insertions PROVE At(s, i) = At(u, i) /\ (i \in c.modifications <=> At(u, i) \in T)
  <2>1. At(s, i) = At(t, i) /\ (i \in b.modifications <=> At(t, i) \in T)
    BY DEF TableTells
  <2>2. QED BY <2>1
<1>2. ASSUME NEW m \in c.mapping
      PROVE  /\ m.from \in IndicesOf(s) /\ At(s, m.from) = At(u, m.to)
             /\ m.to \in c.modifications <=> At(u, m.to) \in T
  <2>1. PICK k \in IndicesOf(t) :
           /\ At(t, k) = At(u, m.to) /\ (m.to \in c.modifications <=> k \in b.modifications)
           /\ (k \notin b.insertions /\ m.from = k) \/ Pair(m.from, k) \in b.mapping
    BY DEF RowFrom
  <2>2. CASE k \notin b.insertions /\ m.from = k
    <3>1. k \in IndicesOf(s) /\ At(s, k) = At(t, k) /\ (k \in b.modifications <=> At(t, k) \in T)
      BY <2>2 DEF TableTells
    <3>2. QED BY <2>1, <2>2, <3>1
  <2>3. CASE Pair(m.from, k) \in b.mapping
    <3> DEFINE p == Pair(m.from, k)
    <3>1. p \in b.mapping /\ p.from = m.from /\ p.to = k
      BY <2>3 DEF Pair
    <3> HIDE DEF p
    <3>2. p.from \in IndicesOf(s) /\ At(s, p.from) = At(t, p.to) /\ (p.to \in b.modifications <=> At(t, p.to) \in T)
      BY <3>1 DEF TableTells
    <3>3. QED BY <2>1, <3>1, <3>2
  <2>4. QED BY <2>1, <2>2, <2>3
<1>3. \A m \in c.mapping : m.from \in c.deletions \cap IndicesOf(s) /\ m.to \in c.insertions /\ At(s, m.from) = At(u, m.to)
  BY <1>2
<1>4. ASSUME NEW i \in IndicesOf(u), i \notin c.insertions \/ (\E m \in c.mapping : m.to = i)
      PROVE  i \in c.modifications <=> At(u, i) \in T
  BY <1>1, <1>2, <1>4
<1>5. QED BY <1>1, <1>3, <1>4 DEF TableTells

\* Where deletions and insertions agree below an index of neither, the index
\* in the old rows is the index.
LEMMA SameBelow ==
    ASSUME NEW D \in IndexSet, NEW I \in IndexSet, NEW i \in Nat, i \notin D,
           \A j \in Nat : j < i => (j \in D <=> j \in I)
    PROVE  Shift(D, Unshift(I, i)) = i /\ AddShifted(D, Unshift(I, i)) = D \cup {i}
<1>1. D \in SUBSET Nat /\ I \in SUBSET Nat
  BY DEF IndexSet
<1>2. Unshift(I, i) = Unshift(D, i)
  BY <1>1, UnshiftAgrees
<1>3. Shift(D, Unshift(D, i)) = i
  BY ShiftUnshift
<1>4. QED BY <1>2, <1>3 DEF AddShifted

\* So it is of a row that has stayed.
LEMMA StayedBelow ==
    ASSUME NEW s \in Seq(Nat), NEW t \in Seq(Nat), NEW T, NEW b, TableTells(b, s, t, T),
           NEW i \in IndicesOf(t) \ b.insertions
    PROVE  i \in Nat /\ i \in IndicesOf(s) \ b.deletions /\ \A j \in Nat : j < i => (j \in b.deletions <=> j \in b.insertions)
<1>0. IndicesOf(s) \ b.deletions = IndicesOf(t) \ b.insertions
  BY DEF TableTells
<1>1. i \in IndicesOf(s) \ b.deletions /\ i \in Nat
  <2>1. i \in IndicesOf(s) \ b.deletions
    BY <1>0
  <2>2. QED BY <2>1 DEF IndicesOf
<1>2. ASSUME NEW j \in Nat, j < i PROVE j \in IndicesOf(s) /\ j \in IndicesOf(t)
  BY <1>1, <1>2 DEF IndicesOf
<1>3. \A j \in Nat : j < i => (j \in b.deletions <=> j \in b.insertions)
  BY <1>0, <1>2
<1>4. QED BY <1>1, <1>3

\* The rows that stay are those of the old ones in their order.
LEMMA TableIsLined ==
    ASSUME NEW s \in Seq(Nat), NEW t \in Seq(Nat), NEW T, NEW b, TableTells(b, s, t, T)
    PROVE  Lined(b.deletions, b.insertions, s, t)
<1> DEFINE D == b.deletions
           I == b.insertions
<1>0. /\ D \in IndexSet /\ I \in IndexSet /\ D \in SUBSET Nat /\ I \in SUBSET Nat
      /\ Len(s) \in Nat /\ Len(t) \in Nat
  BY DEF TableTells, ChangeSet, IndexSet
<1>1. \A i \in Nat : i \in IndicesOf(s) \ D <=> i \in IndicesOf(t) \ I
  BY DEF TableTells
<1>2. \A i \in IndicesOf(t) \ I :
         /\ i \in Nat /\ i \in IndicesOf(s) \ D
         /\ \A j \in Nat : j < i => (j \in D <=> j \in I)
         /\ At(s, i) = At(t, i)
  BY StayedBelow DEF TableTells
<1> HIDE DEF D, I
<1>3. Unshift(D, Len(s)) = Unshift(I, Len(t))
  <2> DEFINE K == {i \in 1 .. Len(s) : i - 1 \notin D}
             L == {i \in 1 .. Len(t) : i - 1 \notin I}
  <2>1. Cardinality(K) = Unshift(D, Len(s)) /\ Cardinality(L) = Unshift(I, Len(t))
    BY <1>0, KeptCount
  <2>2. \A i \in Nat \ {0} : i \in 1 .. Len(s) /\ i - 1 \notin D <=> i - 1 \in IndicesOf(s) \ D
    BY <1>0 DEF IndicesOf
  <2>3. \A i \in Nat \ {0} : i \in 1 .. Len(t) /\ i - 1 \notin I <=> i - 1 \in IndicesOf(t) \ I
    BY <1>0 DEF IndicesOf
  <2>4. \A i \in Nat \ {0} : i - 1 \in Nat
    OBVIOUS
  <2>5. \A i \in Nat \ {0} : i \in K <=> i \in L
    BY <1>1, <2>2, <2>3, <2>4
  <2>6. K \subseteq Nat \ {0} /\ L \subseteq Nat \ {0}
    OBVIOUS
  <2> HIDE DEF K, L
  <2>7. K = L
    BY <2>5, <2>6
  <2>8. QED BY <2>1, <2>7
<1>4. ASSUME NEW i \in IndicesOf(s) \ D, NEW j \in IndicesOf(t) \ I, Unshift(D, i) = Unshift(I, j)
      PROVE  At(s, i) = At(t, j)
  <2>1. i \in Nat
    BY DEF IndicesOf
  <2>2. i \in IndicesOf(t) \ I
    BY <1>1, <2>1
  <2>3. Unshift(D, i) = Unshift(I, i)
    BY <1>0, <1>2, <2>2, UnshiftAgrees
  <2>4. i = j
    <3>1. Unshift(I, i) = Unshift(I, j) /\ i \in Nat \ I /\ j \in Nat \ I
      BY <1>2, <1>4, <2>2, <2>3
    <3>2. QED BY <1>0, <3>1, UnshiftIsInjective
  <2>5. QED BY <1>2, <2>2, <2>4
<1>5. QED BY <1>3, <1>4 DEF Lined, D, I

-----------------------------------------------------------------------------
(* The instructions on a table                                             *)

\* Less of the mapping.
LEMMA MadeUnmap ==
    ASSUME NEW b, NEW D, NEW I, NEW M, NEW G, Made(b, D, I, M, G), NEW X
    PROVE  Made(Unmap(b, X), D, I, M, {m \in G : m.to \notin X})
<1> DEFINE g == {m \in b.mapping : m.to \notin X}
           c == Unmap(b, X)
<1>1. c = [b EXCEPT !.mapping = g]
  BY Zenon DEF Unmap
<1>2. b \in ChangeSet /\ b.mapping \subseteq G /\ b.mapping \subseteq AMove
  BY DEF Made, ChangeSet
<1>3. g \subseteq {m \in G : m.to \notin X} /\ g \in SUBSET AMove
  BY <1>2
<1> HIDE DEF c, g
<1>4. /\ c \in ChangeSet /\ c.mapping = g /\ c.moves = b.moves
      /\ c.deletions = b.deletions /\ c.insertions = b.insertions /\ c.modifications = b.modifications
  BY <1>1, <1>2, <1>3 DEF ChangeSet
<1>5. Made(c, D, I, M, {m \in G : m.to \notin X})
  BY <1>3, <1>4 DEF Made
<1>6. QED BY <1>5 DEF c

\* Another move in it.
LEMMA MadeMapTo ==
    ASSUME NEW b, NEW D, NEW I, NEW M, NEW G, Made(b, D, I, M, G), NEW i \in Nat, NEW f \in Nat
    PROVE  Made(MapTo(b, i, f), D, I, M, {m \in G : m.to # i} \cup {Pair(f, i)})
<1> DEFINE a == Unmap(b, {i})
           c == MapTo(b, i, f)
           g == a.mapping \cup {Pair(f, i)}
<1>1. c = [a EXCEPT !.mapping = g]
  BY Zenon DEF MapTo
<1>2. Made(a, D, I, M, {m \in G : m.to \notin {i}})
  BY MadeUnmap
<1> HIDE DEF a
<1>3. a \in ChangeSet /\ a.mapping \subseteq {m \in G : m.to \notin {i}} /\ a.mapping \subseteq AMove
  BY <1>2 DEF Made, ChangeSet
<1>4. Pair(f, i) \in AMove
  BY DEF Pair, AMove
<1>5. g \in SUBSET AMove /\ g \subseteq {m \in G : m.to # i} \cup {Pair(f, i)}
  BY <1>3, <1>4
<1> HIDE DEF c, g
<1>6. /\ c \in ChangeSet /\ c.mapping = g /\ c.moves = a.moves
      /\ c.deletions = a.deletions /\ c.insertions = a.insertions /\ c.modifications = a.modifications
  BY <1>1, <1>3, <1>5 DEF ChangeSet
<1>7. Made(c, D, I, M, {m \in G : m.to # i} \cup {Pair(f, i)})
  BY <1>2, <1>5, <1>6 DEF Made
<1>8. QED BY <1>7 DEF c

\* The deletion of a row that was there.
LEMMA MadeDelete ==
    ASSUME NEW b, NEW D, NEW I, NEW M, NEW G, Made(b, D, I, M, G), NEW i \in Nat, i \notin D,
           \A j \in Nat : j < i => (j \in D <=> j \in I)
    PROVE  Made(DeleteShifted(b, i), D \cup {i}, I, M, G) /\ ShiftedSource(b, i) = i
<1> DEFINE c == DeleteShifted(b, i)
           E == AddShifted(b.deletions, Unshift(b.insertions, i))
<1>0. b \in ChangeSet /\ b.deletions = D /\ b.insertions = I /\ D \in IndexSet /\ I \in IndexSet
  BY DEF Made, ChangeSet
<1>1. c = [b EXCEPT !.deletions = E]
  BY Zenon DEF DeleteShifted
<1>2. Shift(D, Unshift(I, i)) = i /\ AddShifted(D, Unshift(I, i)) = D \cup {i}
  BY <1>0, SameBelow
<1>3. E = D \cup {i} /\ ShiftedSource(b, i) = i
  BY <1>0, <1>2 DEF ShiftedSource
<1>4. D \cup {i} \in IndexSet
  BY <1>0, FS_AddElement DEF IndexSet
<1> HIDE DEF c, E
<1>5. /\ c \in ChangeSet /\ c.deletions = D \cup {i} /\ c.moves = b.moves
      /\ c.mapping = b.mapping /\ c.insertions = b.insertions /\ c.modifications = b.modifications
  BY <1>0, <1>1, <1>3, <1>4 DEF ChangeSet
<1>6. Made(c, D \cup {i}, I, M, G)
  BY <1>5 DEF Made
<1>7. QED BY <1>3, <1>6 DEF c

\* Other insertions, other modifications.
LEMMA MadeOthers ==
    ASSUME NEW b, NEW D, NEW I, NEW M, NEW G, Made(b, D, I, M, G), NEW J \in IndexSet
    PROVE  Made([b EXCEPT !.insertions = J], D, J, M, G) /\ Made([b EXCEPT !.modifications = J], D, I, J, G)
<1> DEFINE c == [b EXCEPT !.insertions = J]
           d == [b EXCEPT !.modifications = J]
<1>0. b \in ChangeSet
  BY DEF Made
<1>1. /\ c \in ChangeSet /\ c.insertions = J /\ c.moves = b.moves
      /\ c.mapping = b.mapping /\ c.deletions = b.deletions /\ c.modifications = b.modifications
  BY <1>0 DEF ChangeSet
<1>2. /\ d \in ChangeSet /\ d.modifications = J /\ d.moves = b.moves
      /\ d.mapping = b.mapping /\ d.deletions = b.deletions /\ d.insertions = b.insertions
  BY <1>0 DEF ChangeSet
<1> HIDE DEF c, d
<1>3. Made(c, D, J, M, G) /\ Made(d, D, I, J, G)
  BY <1>1, <1>2 DEF Made
<1>4. QED BY <1>3 DEF c, d

\* Fewer moves are among those of more.
LEMMA MadeMore ==
    ASSUME NEW b, NEW D, NEW I, NEW M, NEW G, NEW H, Made(b, D, I, M, G), G \subseteq H
    PROVE  Made(b, D, I, M, H)
BY DEF Made

\* What is told of b.
LEMMA TableMade ==
    ASSUME NEW s, NEW t, NEW T, NEW b, TableTells(b, s, t, T)
    PROVE  Made(b, b.deletions, b.insertions, b.modifications, b.mapping)
BY DEF Made, TableTells

\* The moves of G that do not end in X.
Others(G, X) == {m \in G : m.to \notin X}

\* The moves when the row at i goes to k: those that ended at i end there, and
\* if the row has stayed so far there is one from i.
Onward(G, I, i, k) == {Pair(m.from, k) : m \in {n \in G : n.to = i}} \cup (IF i \in I THEN {} ELSE {Pair(i, k)})

\* The row at i is new, or where it has been.
Settled(D, I, i) == i \in Nat /\ (i \notin I => i \notin D /\ \A j \in Nat : j < i => (j \in D <=> j \in I))

\* The modified rows when the last one goes over the one at row.
Over(M, row, last) == IF last \in M THEN (M \ {last}) \cup {row} ELSE M \ {row}

\* Adding or leaving out an index leaves an index set.
LEMMA IndexSetWith == ASSUME NEW S \in IndexSet, NEW i \in Nat, NEW x PROVE S \cup {i} \in IndexSet /\ S \ {x} \in IndexSet
BY FS_AddElement, FS_RemoveElement DEF IndexSet

\* A move of what was mapped to i goes onward from there.
LEMMA OriginLaw ==
    ASSUME NEW b \in ChangeSet, NEW G, b.mapping \subseteq G, NEW i, Mapped(b, i), NEW k \in Nat, NEW I
    PROVE  Origin(b, i) \in Nat /\ Pair(Origin(b, i), k) \in Onward(G, I, i, k)
<1> DEFINE m == CHOOSE m \in b.mapping : m.to = i
<1>1. m \in b.mapping /\ m.to = i
  BY Zenon DEF Mapped
<1>2. Origin(b, i) = m.from
  BY Zenon DEF Origin
<1> HIDE DEF m
<1>3. m \in AMove
  BY <1>1 DEF ChangeSet
<1>4. m.from \in Nat
  BY <1>3 DEF AMove
<1>5. Pair(m.from, k) \in {Pair(n.from, k) : n \in {n \in G : n.to = i}}
  BY <1>1, Zenon
<1>6. QED BY <1>2, <1>4, <1>5, Zenon DEF Onward

\* More moves to go onward are more that have.
LEMMA OnwardMore ==
    ASSUME NEW g, NEW G, g \subseteq G, NEW X, NEW I, NEW i, NEW k
    PROVE  Others(g, X) \subseteq Others(G, X) /\ Onward(g, I, i, k) \subseteq Onward(G, I, i, k)
<1>1. Others(g, X) \subseteq Others(G, X)
  BY DEF Others
<1>2. {n \in g : n.to = i} \subseteq {n \in G : n.to = i}
  OBVIOUS
<1>3. {Pair(m.from, k) : m \in {n \in g : n.to = i}} \subseteq {Pair(m.from, k) : m \in {n \in G : n.to = i}}
  BY <1>2, Zenon
<1>4. Onward(g, I, i, k) \subseteq Onward(G, I, i, k)
  BY <1>3, Zenon DEF Onward
<1>5. QED BY <1>1, <1>4

\* move_over, with a row that is not the last one.
LEMMA MoveLastOverIs ==
    ASSUME NEW b, NEW D, NEW I, NEW M, NEW G, Made(b, D, I, M, G), \A m \in G : m.to \in I,
           NEW row, NEW last, Settled(D, I, row), Settled(D, I, last), row < last
    PROVE  Made(MoveLastOver(b, row, last), D \cup ({row, last} \ I), (I \ {last}) \cup {row}, Over(M, row, last),
                Others(G, {row, last}) \cup Onward(G, I, last, row))
<1> DEFINE b1 == [b EXCEPT !.modifications =
                        IF row # last /\ last \in @ THEN (@ \ {last}) \cup {row} ELSE @ \ {row}]
           new == row \in b.insertions
           lastNew == last \in b.insertions
           again == lastNew /\ Mapped(b, last)
           b2 == IF again THEN Unmap(MapTo(b1, row, Origin(b, last)), {last})
                 ELSE IF new THEN Unmap(b1, {row}) ELSE b1
           b3 == IF lastNew THEN [b2 EXCEPT !.insertions = @ \ {last}]
                 ELSE MapTo(DeleteShifted(b2, last), row, ShiftedSource(b2, last))
           c == [DeleteShifted(b3, row) EXCEPT !.insertions = @ \cup {row}]
           g == b.mapping
           H == Others(g, {row, last}) \cup Onward(g, I, last, row)
           N == Over(M, row, last)
           E == D \cup ({last} \ I)
           J == I \ {last}
<1>0. /\ row \in Nat /\ last \in Nat /\ row # last
      /\ b \in ChangeSet /\ b.deletions = D /\ b.insertions = I /\ b.modifications = M /\ b.mapping \subseteq G
      /\ D \in IndexSet /\ I \in IndexSet /\ M \in IndexSet
  BY DEF Made, Settled, ChangeSet
<1>1. MoveLastOver(b, row, last) = IF new THEN b3 ELSE c
  BY <1>0, Zenon DEF MoveLastOver
<1>2. N \in IndexSet
  <2>1. M \ {last} \in IndexSet /\ M \ {row} \in IndexSet
    BY <1>0, IndexSetWith
  <2>2. (M \ {last}) \cup {row} \in IndexSet
    BY <1>0, <2>1, IndexSetWith
  <2>3. QED BY <2>1, <2>2 DEF Over
<1>3. Made(b1, D, I, N, g)
  <2>1. Made(b, D, I, M, g)
    BY DEF Made
  <2>2. b1 = [b EXCEPT !.modifications = N]
    BY <1>0 DEF Over
  <2> HIDE DEF b1, N
  <2>3. QED BY <1>2, <2>1, <2>2, MadeOthers
<1>4. (\A m \in g : m.to \in I) /\ (~again => \A m \in g : m.to # last)
  BY <1>0 DEF Mapped
<1> HIDE DEF b1, N
<1>5. Made(b2, D, I, N, H)
  <2>1. ASSUME again PROVE Made(b2, D, I, N, H)
    <3> DEFINE f == Origin(b, last)
               x == MapTo(b1, row, f)
               y == Unmap(x, {last})
               G1 == {m \in g : m.to # row} \cup {Pair(f, row)}
    <3>1. f \in Nat /\ Pair(f, row) \in Onward(g, I, last, row)
      <4>1. b.mapping \subseteq g /\ Mapped(b, last)
        BY <2>1
      <4> HIDE DEF g
      <4>2. QED BY <1>0, <4>1, OriginLaw
    <3> HIDE DEF f, g
    <3>2. Made(x, D, I, N, G1)
      BY <1>0, <1>3, <3>1, MadeMapTo
    <3> HIDE DEF x
    <3>a. \A m \in G1 : m.to # last => m \in Others(g, {row, last}) \/ m = Pair(f, row)
      BY DEF Others
    <3> HIDE DEF G1
    <3>3. Made(y, D, I, N, {m \in G1 : m.to \notin {last}})
      BY <3>2, MadeUnmap
    <3>4. {m \in G1 : m.to \notin {last}} \subseteq H
      BY <3>1, <3>a
    <3>5. b2 = y
      BY <2>1, Zenon DEF x, f
    <3> HIDE DEF y, H, b2
    <3>6. QED BY <3>3, <3>4, <3>5, MadeMore
  <2>2. ASSUME ~again, new PROVE Made(b2, D, I, N, H)
    <3> DEFINE y == Unmap(b1, {row})
    <3> HIDE DEF g
    <3>1. Made(y, D, I, N, {m \in g : m.to \notin {row}})
      BY <1>3, MadeUnmap
    <3>2. {m \in g : m.to \notin {row}} \subseteq H
      BY <1>4, <2>2 DEF Others
    <3>3. b2 = y
      BY <2>2, Zenon
    <3> HIDE DEF y, H, b2
    <3>4. QED BY <3>1, <3>2, <3>3, MadeMore
  <2>3. ASSUME ~again, ~new PROVE Made(b2, D, I, N, H)
    <3>1. row \notin I
      BY <1>0, <2>3
    <3> HIDE DEF g
    <3>2. g \subseteq H
      BY <1>4, <2>3, <3>1 DEF Others
    <3>3. b2 = b1
      BY <2>3, Zenon
    <3> HIDE DEF H, b2
    <3>4. QED BY <1>3, <3>2, <3>3, MadeMore
  <2>4. QED BY <2>1, <2>2, <2>3
<1> HIDE DEF b2
<1>6. Made(b3, E, J, N, H)
  <2>1. ASSUME lastNew PROVE Made(b3, E, J, N, H)
    <3>1. J \in IndexSet
      BY <1>0, IndexSetWith
    <3>2. b2.insertions = I
      BY <1>5 DEF Made
    <3>3. b3 = [b2 EXCEPT !.insertions = J]
      BY <2>1, <3>2
    <3>4. E = D
      BY <1>0, <2>1
    <3> HIDE DEF b3, E, J, H
    <3>5. QED BY <1>5, <3>1, <3>3, <3>4, MadeOthers
  <2>2. ASSUME ~lastNew PROVE Made(b3, E, J, N, H)
    <3> DEFINE x == DeleteShifted(b2, last)
               h == {m \in H : m.to # row} \cup {Pair(last, row)}
    <3>1. last \notin I /\ last \notin D /\ (\A j \in Nat : j < last => (j \in D <=> j \in I))
      BY <1>0, <2>2 DEF Settled
    <3>2. E = D \cup {last} /\ J = I
      BY <3>1
    <3>3. Pair(last, row) \in H
      BY <3>1, Zenon DEF Onward
    <3>4. h \subseteq H
      BY <3>3, Zenon
    <3> HIDE DEF E, J, H
    <3>5. Made(x, D \cup {last}, I, N, H) /\ ShiftedSource(b2, last) = last
      BY <1>0, <1>5, <3>1, MadeDelete
    <3>6. b3 = MapTo(x, row, last)
      BY <2>2, <3>5, Zenon
    <3> HIDE DEF x, b3
    <3>7. Made(MapTo(x, row, last), D \cup {last}, I, N, h)
      BY <1>0, <3>5, MadeMapTo
    <3> HIDE DEF h
    <3>8. QED BY <3>2, <3>4, <3>6, <3>7, MadeMore
  <2>3. QED BY <2>1, <2>2
<1> HIDE DEF b3
<1> DEFINE D1 == D \cup ({row, last} \ I)
           I1 == (I \ {last}) \cup {row}
           G1 == Others(G, {row, last}) \cup Onward(G, I, last, row)
<1>7. H \subseteq G1
  BY <1>0, OnwardMore
<1>8. CASE new
  <2>1. E = D1 /\ J = I1
    BY <1>0, <1>8
  <2> HIDE DEF E, J, D1, I1, H, G1
  <2>2. Made(b3, D1, I1, N, G1)
    BY <1>6, <1>7, <2>1, MadeMore
  <2>3. MoveLastOver(b, row, last) = b3
    BY <1>1, <1>8
  <2>4. QED BY <2>2, <2>3 DEF D1, I1, G1, N
<1>9. CASE ~new
  <2> DEFINE x == DeleteShifted(b3, row)
  <2>1. row \notin I /\ row \notin D /\ (\A j \in Nat : j < row => (j \in D <=> j \in I))
    BY <1>0, <1>9 DEF Settled
  <2>2. row \notin E /\ (\A j \in Nat : j < row => (j \in E <=> j \in J)) /\ E \cup {row} = D1 /\ J \cup {row} = I1
    BY <1>0, <2>1
  <2> HIDE DEF E, J, D1, H, G1, I1
  <2>3. Made(x, E \cup {row}, J, N, H)
    BY <1>0, <1>6, <2>2, MadeDelete
  <2> HIDE DEF x
  <2>4. Made(x, D1, J, N, G1)
    BY <1>7, <2>2, <2>3, MadeMore
  <2>5. J \in IndexSet /\ I1 \in IndexSet
    <3>1. J \in IndexSet
      BY <1>0, IndexSetWith DEF J
    <3>2. QED BY <1>0, <2>2, <3>1, IndexSetWith
  <2>6. c = [x EXCEPT !.insertions = I1]
    <3>1. x.insertions = J
      BY <2>4 DEF Made
    <3>2. c = [x EXCEPT !.insertions = @ \cup {row}]
      BY Zenon DEF x
    <3> HIDE DEF c
    <3>3. QED BY <2>2, <3>1, <3>2
  <2> HIDE DEF c
  <2>7. Made(c, D1, I1, N, G1)
    BY <2>4, <2>5, <2>6, MadeOthers
  <2>8. MoveLastOver(b, row, last) = c
    BY <1>1, <1>9
  <2>9. QED BY <2>7, <2>8 DEF D1, I1, G1, N
<1>10. QED BY <1>8, <1>9

\* move_over, with the last row.
LEMMA MoveLastIs ==
    ASSUME NEW b, NEW D, NEW I, NEW M, NEW G, Made(b, D, I, M, G),
           NEW last, Settled(D, I, last), \A j \in I : j <= last
    PROVE  Made(MoveLastOver(b, last, last), D \cup ({last} \ I), I \ {last}, M \ {last}, Others(G, {last}))
<1> DEFINE b1 == [b EXCEPT !.modifications =
                        IF last # last /\ last \in @ THEN (@ \ {last}) \cup {last} ELSE @ \ {last}]
           new == last \in b.insertions
           b2 == IF new THEN b1 ELSE DeleteShifted(b1, last)
           b3 == [b2 EXCEPT !.insertions = ErasedAt(@, last)]
           N == M \ {last}
           E == D \cup ({last} \ I)
           J == I \ {last}
<1>0. /\ last \in Nat
      /\ b \in ChangeSet /\ b.deletions = D /\ b.insertions = I /\ b.modifications = M
      /\ D \in IndexSet /\ I \in IndexSet /\ M \in IndexSet
  BY DEF Made, Settled, ChangeSet
<1>1. MoveLastOver(b, last, last) = Unmap(b3, {last})
  BY Zenon DEF MoveLastOver
<1>2. N \in IndexSet /\ J \in IndexSet
  BY <1>0, IndexSetWith
<1>3. Made(b1, D, I, N, G)
  <2>1. b1 = [b EXCEPT !.modifications = N]
    BY <1>0
  <2> HIDE DEF b1, N
  <2>2. QED BY <1>2, <2>1, MadeOthers
<1> HIDE DEF b1, N
<1>4. Made(b2, E, I, N, G)
  <2>1. ASSUME new PROVE Made(b2, E, I, N, G)
    <3>1. E = D /\ b2 = b1
      BY <1>0, <2>1
    <3> HIDE DEF E, b2
    <3>2. QED BY <1>3, <3>1
  <2>2. ASSUME ~new PROVE Made(b2, E, I, N, G)
    <3>1. last \notin I /\ last \notin D /\ (\A j \in Nat : j < last => (j \in D <=> j \in I))
      BY <1>0, <2>2 DEF Settled
    <3>2. E = D \cup {last} /\ b2 = DeleteShifted(b1, last)
      BY <2>2, <3>1
    <3> HIDE DEF E, b2
    <3>3. QED BY <1>0, <1>3, <3>1, <3>2, MadeDelete
  <2>3. QED BY <2>1, <2>2
<1> HIDE DEF b2, E
<1>5. ErasedAt(I, last) = J
  <2> DEFINE R == ErasedAll(I, {last})
  <2>1. ErasedAt(I, last) = R
    BY <1>0, OneIndex
  <2>2. /\ {last} \in IndexSet
        /\ \A j \in Nat : Unshift({last}, j) = IF j <= last THEN j ELSE j - 1
    BY <1>0, SingletonLaw
  <2>3. R \in IndexSet /\ \A i \in Nat \ {last} : i \in I <=> Unshift({last}, i) \in R
    BY <1>0, <2>2, ErasedAllLaw
  <2> HIDE DEF R
  <2>4. \A i \in Nat : i < last => (i \in I <=> i \in R)
    BY <1>0, <2>2, <2>3
  <2>5. \A i \in Nat : i >= last => i \notin R
    <3>1. SUFFICES ASSUME NEW i \in Nat, i >= last PROVE i \notin R
      OBVIOUS
    <3>2. i + 1 \in Nat \ {last} /\ ~(i + 1 <= last) /\ (i + 1) - 1 = i
      BY <1>0, <3>1
    <3>3. i + 1 \notin I
      BY <3>2
    <3>4. Unshift({last}, i + 1) = i
      BY <2>2, <3>2
    <3>5. QED BY <2>3, <3>2, <3>3, <3>4
  <2>6. \A i \in Nat : i \in R <=> i \in J
    BY <1>0, <2>4, <2>5
  <2>7. R \subseteq Nat /\ J \subseteq Nat
    BY <1>0, <2>3 DEF IndexSet
  <2>8. QED BY <2>1, <2>6, <2>7
<1> HIDE DEF J
<1>6. Made(b3, E, J, N, G)
  <2>1. b2.insertions = I
    BY <1>4 DEF Made
  <2>2. b3 = [b2 EXCEPT !.insertions = J]
    BY <1>5, <2>1
  <2> HIDE DEF b3
  <2>3. QED BY <1>2, <1>4, <2>2, MadeOthers
<1> HIDE DEF b3
<1>7. Made(Unmap(b3, {last}), E, J, N, {m \in G : m.to \notin {last}})
  BY <1>6, MadeUnmap
<1>8. {m \in G : m.to \notin {last}} = Others(G, {last})
  BY Zenon DEF Others
<1>9. QED BY <1>1, <1>7, <1>8 DEF E, J, N

-----------------------------------------------------------------------------
(* What they do to the rows                                                *)

\* The rows of a table are settled.
LEMMA RowsAreSettled ==
    ASSUME NEW s \in Seq(Nat), NEW t \in Seq(Nat), NEW T, NEW b, TableTells(b, s, t, T), NEW i \in IndicesOf(t)
    PROVE  Settled(b.deletions, b.insertions, i)
<1>1. i \in Nat
  BY DEF IndicesOf
<1>2. i \notin b.insertions =>
         i \notin b.deletions /\ \A j \in Nat : j < i => (j \in b.deletions <=> j \in b.insertions)
  BY StayedBelow
<1>3. QED BY <1>1, <1>2 DEF Settled

\* The moves of other rows are as they were.
LEMMA OthersLaw ==
    ASSUME NEW s, NEW t, NEW T, NEW b, TableTells(b, s, t, T),
           NEW X, NEW m \in Others(b.mapping, X)
    PROVE  /\ m.to \notin X /\ m.to \in b.insertions /\ m.from \in b.deletions
           /\ Pair(m.from, m.to) \in b.mapping
<1>1. m \in b.mapping /\ m.to \notin X
  BY DEF Others
<1>2. m.to \in b.insertions /\ m.from \in b.deletions
  BY <1>1 DEF TableTells
<1>3. m \in AMove
  BY <1>1 DEF TableTells, ChangeSet
<1>4. m = Pair(m.from, m.to)
  BY <1>3 DEF AMove, Pair
<1>5. QED BY <1>1, <1>2, <1>4

\* Those of the row that was at i are now at k.
LEMMA OnwardLaw ==
    ASSUME NEW s, NEW t, NEW T, NEW b, TableTells(b, s, t, T),
           NEW i, NEW k, NEW m \in Onward(b.mapping, b.insertions, i, k)
    PROVE  /\ m.to = k
           /\ \/ i \notin b.insertions /\ m.from = i
              \/ i \in b.insertions /\ m.from \in b.deletions /\ Pair(m.from, i) \in b.mapping
<1>1. CASE m \in {Pair(n.from, k) : n \in {n \in b.mapping : n.to = i}}
  <2>1. PICK n \in b.mapping : n.to = i /\ m = Pair(n.from, k)
    BY <1>1
  <2>2. m.to = k /\ m.from = n.from
    BY <2>1 DEF Pair
  <2>3. n.to \in b.insertions /\ n.from \in b.deletions
    BY <2>1 DEF TableTells
  <2>4. n \in AMove
    BY <2>1 DEF TableTells, ChangeSet
  <2>5. n = Pair(n.from, n.to)
    BY <2>4 DEF AMove, Pair
  <2>6. QED BY <2>1, <2>2, <2>3, <2>5
<1>2. CASE i \notin b.insertions /\ m = Pair(i, k)
  BY <1>2 DEF Pair
<1>3. QED BY <1>1, <1>2, Zenon DEF Onward

\* OverWithLast: the last row is at i, the others where they were.
LEMMA OverLaw ==
    ASSUME NEW s \in Seq(Nat), NEW i \in IndicesOf(s)
    PROVE  LET u == OverWithLast(s, i)
           IN  /\ u \in Seq(Nat) /\ Len(u) = Len(s) - 1
               /\ \A k \in IndicesOf(u) : At(u, k) = IF k = i THEN At(s, Len(s) - 1) ELSE At(s, k)
<1> DEFINE r == [s EXCEPT ![i + 1] = Last(s)]
           n == Len(s) - 1
           u == SubSeq(r, 1, n)
<1>0. Len(s) \in Nat /\ i \in Nat /\ i < Len(s) /\ n \in Nat /\ n + 1 = Len(s)
  BY DEF IndicesOf
<1>1. Last(s) = At(s, n) /\ Last(s) \in Nat
  <2>1. Last(s) = s[Len(s)]
    BY DEF Last
  <2>2. QED BY <1>0, <2>1 DEF At
<1>2. r \in Seq(Nat) /\ Len(r) = Len(s)
  BY <1>0, <1>1
<1>3. \A k \in 1 .. Len(s) : r[k] = IF k = i + 1 THEN At(s, n) ELSE s[k]
  BY <1>0, <1>1
<1> HIDE DEF r
<1>4. OverWithLast(s, i) = u
  <2>1. OverWithLast(s, i) = SubSeq(r, 1, Len(r) - 1)
    BY Zenon DEF OverWithLast, Front, r
  <2>2. QED BY <1>2, <2>1
<1> HIDE DEF n
<1>5. /\ SubSeq(r, 1, n) \in Seq(Nat) /\ Len(SubSeq(r, 1, n)) = n
      /\ \A j \in 1 .. n : SubSeq(r, 1, n)[j] = r[j]
  <2>1. n <= Len(r)
    BY <1>0, <1>2
  <2>2. QED BY <1>0, <1>2, <2>1, PartLaw
<1>6. u \in Seq(Nat) /\ Len(u) = n /\ \A j \in 1 .. n : u[j] = r[j]
  BY <1>5
<1> HIDE DEF u
<1>7. ASSUME NEW k \in IndicesOf(u) PROVE At(u, k) = IF k = i THEN At(s, n) ELSE At(s, k)
  <2>1. k \in Nat /\ k < n
    BY <1>0, <1>6 DEF IndicesOf
  <2>2. k + 1 \in 1 .. n /\ k + 1 \in 1 .. Len(s) /\ (k + 1 = i + 1 <=> k = i)
    BY <1>0, <2>1
  <2>3. u[k + 1] = IF k + 1 = i + 1 THEN At(s, n) ELSE s[k + 1]
    BY <1>3, <1>6, <2>2
  <2>4. QED BY <2>2, <2>3 DEF At
<1>8. n = Len(s) - 1
  BY DEF n
<1>9. QED BY <1>4, <1>6, <1>7, <1>8

\* EraseRows.
LEMMA EraseRowsTells ==
    ASSUME NEW s \in Seq(Nat), NEW t \in Seq(Nat), NEW T, NEW b, TableTells(b, s, t, T), NEW i \in IndicesOf(t)
    PROVE  TableTells(MoveLastOver(b, i, Len(t) - 1), s, OverWithLast(t, i), T)
<1> DEFINE last == Len(t) - 1
           u == OverWithLast(t, i)
           c == MoveLastOver(b, i, last)
           D == b.deletions
           I == b.insertions
           M == b.modifications
           g == b.mapping
<1>0. Len(t) \in Nat /\ i \in Nat /\ i <= last /\ last \in Nat /\ last \in IndicesOf(t)
  BY DEF IndicesOf
<1>1. u \in Seq(Nat) /\ Len(u) = last /\ \A k \in IndicesOf(u) : At(u, k) = IF k = i THEN At(t, last) ELSE At(t, k)
  BY OverLaw
<1> HIDE DEF u
<1>2. IndicesOf(u) = IndicesOf(t) \ {last}
  <2>1. Len(t) = last + 1
    BY <1>0
  <2> HIDE DEF last
  <2>2. 0 .. last - 1 = (0 .. (last + 1) - 1) \ {last}
    BY <1>0
  <2>3. QED BY <1>1, <2>1, <2>2 DEF IndicesOf
<1>3. I \subseteq IndicesOf(t) /\ M \subseteq IndicesOf(t) /\ IndicesOf(s) \ D = IndicesOf(t) \ I
  BY DEF TableTells
<1>4. Made(b, D, I, M, g) /\ Settled(D, I, i) /\ Settled(D, I, last)
  BY <1>0, TableMade, RowsAreSettled
<1>5. \A m \in g : m.to \in I
  BY DEF TableTells
<1>6. CASE i = last
  <2>1. \A j \in I : j <= last
    BY <1>0, <1>3 DEF IndicesOf
  <2> HIDE DEF D, I, M, g, last
  <2>2. Made(MoveLastOver(b, last, last), D \cup ({last} \ I), I \ {last}, M \ {last}, Others(g, {last}))
    BY <1>4, <2>1, MoveLastIs
  <2> HIDE DEF c
  <2>a. c = MoveLastOver(b, last, last)
    BY <1>6 DEF c
  <2>3. /\ c \in ChangeSet /\ c.moves = <<>> /\ c.deletions = D \cup ({last} \ I) /\ c.insertions = I \ {last}
        /\ c.modifications = M \ {last} /\ c.mapping \subseteq Others(g, {last})
    BY <2>2, <2>a DEF Made
  <2>4. c.insertions \subseteq IndicesOf(u) /\ c.modifications \subseteq IndicesOf(u)
    BY <1>2, <1>3, <2>3
  <2>5. IndicesOf(s) \ c.deletions = IndicesOf(u) \ c.insertions
    BY <1>2, <1>3, <2>3
  <2>6. \A k \in IndicesOf(u) \ c.insertions :
           k \in IndicesOf(t) \ I /\ At(u, k) = At(t, k) /\ (k \in c.modifications <=> k \in M)
    BY <1>1, <1>2, <1>6, <2>3
  <2>7. ASSUME NEW m \in c.mapping PROVE m.to \in c.insertions /\ m.from \in c.deletions /\ RowFrom(b, c, t, u, m)
    <3>1. m.to # last /\ m.to \in I /\ m.from \in D /\ Pair(m.from, m.to) \in b.mapping
      BY <2>3, OthersLaw DEF g, I, D
    <3>2. m.to \in IndicesOf(t) /\ m.to \in IndicesOf(u) /\ At(t, m.to) = At(u, m.to) /\ (m.to \in c.modifications <=> m.to \in M)
      BY <1>1, <1>2, <1>3, <1>6, <2>3, <3>1
    <3>3. RowFrom(b, c, t, u, m)
      BY <3>1, <3>2 DEF RowFrom, M
    <3>4. QED BY <2>3, <3>1, <3>3
  <2>8. TableTells(c, s, u, T)
    BY <1>1, <2>3, <2>4, <2>5, <2>6, <2>7, CarryRows DEF I, M
  <2>9. QED BY <2>8 DEF c, last, u
<1>7. CASE i # last
  <2>0. i < last
    BY <1>0, <1>7
  <2> HIDE DEF D, I, M, g, last
  <2>1. Made(MoveLastOver(b, i, last), D \cup ({i, last} \ I), (I \ {last}) \cup {i}, Over(M, i, last),
             Others(g, {i, last}) \cup Onward(g, I, last, i))
    BY <1>4, <1>5, <2>0, MoveLastOverIs
  <2> HIDE DEF c
  <2>a. c = MoveLastOver(b, i, last)
    BY DEF c
  <2>2. /\ c \in ChangeSet /\ c.moves = <<>> /\ c.deletions = D \cup ({i, last} \ I)
        /\ c.insertions = (I \ {last}) \cup {i} /\ c.modifications = Over(M, i, last)
        /\ c.mapping \subseteq Others(g, {i, last}) \cup Onward(g, I, last, i)
    BY <2>1, <2>a DEF Made
  <2>3. /\ i \in c.modifications <=> last \in M
        /\ \A k \in IndicesOf(t) \ {i, last} : k \in c.modifications <=> k \in M
        /\ last \notin c.modifications
    BY <1>7, <2>2 DEF Over
  <2>4. c.insertions \subseteq IndicesOf(u) /\ c.modifications \subseteq IndicesOf(u)
    <3>1. i \in IndicesOf(u)
      BY <1>2, <1>7
    <3>2. Over(M, i, last) \subseteq M \cup {i}
      BY DEF Over
    <3>3. QED BY <1>2, <1>3, <2>2, <2>3, <3>1, <3>2
  <2>5. IndicesOf(s) \ c.deletions = IndicesOf(u) \ c.insertions
    BY <1>2, <1>3, <2>2
  <2>6. \A k \in IndicesOf(u) \ c.insertions :
           k \in IndicesOf(t) \ I /\ At(u, k) = At(t, k) /\ (k \in c.modifications <=> k \in M)
    BY <1>1, <1>2, <2>2, <2>3
  <2>7. ASSUME NEW m \in Others(g, {i, last}) PROVE m.to \in c.insertions /\ m.from \in c.deletions /\ RowFrom(b, c, t, u, m)
    <3>1. m.to \notin {i, last} /\ m.to \in I /\ m.from \in D /\ Pair(m.from, m.to) \in b.mapping
      BY OthersLaw DEF g, I, D
    <3>2. m.to \in IndicesOf(t) /\ m.to \in IndicesOf(u) /\ At(t, m.to) = At(u, m.to) /\ (m.to \in c.modifications <=> m.to \in M)
      BY <1>1, <1>2, <1>3, <2>3, <3>1
    <3>3. RowFrom(b, c, t, u, m)
      BY <3>1, <3>2 DEF RowFrom, M
    <3>4. QED BY <2>2, <3>1, <3>3
  <2>8. ASSUME NEW m \in Onward(g, I, last, i) PROVE m.to \in c.insertions /\ m.from \in c.deletions /\ RowFrom(b, c, t, u, m)
    <3>1. /\ m.to = i
          /\ \/ last \notin I /\ m.from = last
             \/ last \in I /\ m.from \in D /\ Pair(m.from, last) \in b.mapping
      BY OnwardLaw DEF g, I, D
    <3>2. m.to \in c.insertions /\ m.from \in c.deletions
      BY <2>2, <3>1
    <3>3. At(t, last) = At(u, m.to) /\ (m.to \in c.modifications <=> last \in M)
      BY <1>1, <1>2, <1>7, <2>3, <3>1
    <3>4. RowFrom(b, c, t, u, m)
      BY <1>0, <3>1, <3>3 DEF RowFrom, M, I
    <3>5. QED BY <3>2, <3>4
  <2>9. \A m \in c.mapping : m.to \in c.insertions /\ m.from \in c.deletions /\ RowFrom(b, c, t, u, m)
    BY <2>2, <2>7, <2>8
  <2>10. TableTells(c, s, u, T)
    BY <1>1, <2>2, <2>4, <2>5, <2>6, <2>9, CarryRows DEF I, M
  <2>11. QED BY <2>10 DEF c, last, u
<1>8. QED BY <1>6, <1>7

\* insert_empty_rows: one more row, the last.
LEMMA InsertLastIs ==
    ASSUME NEW b, NEW D, NEW I, NEW M, NEW G, Made(b, D, I, M, G),
           NEW n \in Nat, \A j \in I \cup M : j < n, \A m \in G : m.to < n
    PROVE  Made(Insert(b, n), D, I \cup {n}, M, G)
<1> DEFINE Moved(m) == IF m.to >= n THEN Pair(m.from, m.to + 1) ELSE m
           c == Insert(b, n)
           g == b.mapping
           h == {Moved(m) : m \in g}
           v == MapMoves(b.moves, Moved)
           J == InsertedAt(I, n, 1)
           N == ShiftForInsertAt(M, n, 1)
<1>0. /\ b \in ChangeSet /\ b.deletions = D /\ b.insertions = I /\ b.modifications = M /\ b.moves = <<>>
      /\ g \subseteq G /\ g \in SUBSET AMove
      /\ D \in IndexSet /\ I \in IndexSet /\ M \in IndexSet
  BY DEF Made, ChangeSet
<1>1. c = [b EXCEPT !.modifications = N, !.insertions = J, !.moves = v, !.mapping = h]
  <2>1. c = [b EXCEPT !.modifications = ShiftForInsertAt(@, n, 1), !.insertions = InsertedAt(@, n, 1),
                      !.moves = MapMoves(@, Moved), !.mapping = {Moved(m) : m \in @}]
    BY Zenon DEF Insert
  <2> HIDE DEF c, Moved
  <2>2. QED BY <1>0, <2>1
<1>2. v = <<>>
  BY <1>0 DEF MapMoves
<1>3. h = g
  <2>1. \A m \in g : m \in AMove /\ m.to < n
    BY <1>0
  <2>2. \A m \in g : Moved(m) = m
    BY <2>1 DEF AMove
  <2> HIDE DEF Moved
  <2>3. QED BY <2>2
<1>4. /\ {n} \in IndexSet
      /\ \A j \in Nat : Unshift({n}, j) = IF j <= n THEN j ELSE j - 1
  BY SingletonLaw
<1>5. J = I \cup {n}
  <2>1. J = InsertedAll(I, {n})
    BY <1>0, OneIndex
  <2>2. J \in IndexSet /\ n \in J /\ \A i \in Nat \ {n} : i \in J <=> Unshift({n}, i) \in I
    BY <1>0, <1>4, <2>1, InsertedAllLaw
  <2> HIDE DEF J
  <2>3. ASSUME NEW i \in Nat, i < n PROVE i \in J <=> i \in I
    <3>1. Unshift({n}, i) = i /\ i # n
      BY <1>4, <2>3
    <3>2. QED BY <2>2, <3>1
  <2>4. ASSUME NEW i \in Nat, i > n PROVE i \notin J
    <3>1. Unshift({n}, i) = i - 1 /\ ~(i - 1 < n)
      BY <1>4, <2>4
    <3>2. QED BY <2>2, <2>4, <3>1
  <2>5. \A i \in Nat : i \in J <=> i \in I \cup {n}
    BY <2>2, <2>3, <2>4
  <2>6. J \subseteq Nat /\ I \cup {n} \subseteq Nat
    BY <1>0, <2>2 DEF IndexSet
  <2>7. QED BY <2>5, <2>6
<1>6. N = M
  <2>1. N = ShiftForAll(M, {n})
    BY <1>0, OneIndex
  <2>2. N \in IndexSet /\ n \notin N /\ \A i \in Nat \ {n} : i \in N <=> Unshift({n}, i) \in M
    BY <1>0, <1>4, <2>1, ShiftForAllLaw
  <2> HIDE DEF N
  <2>3. ASSUME NEW i \in Nat, i < n PROVE i \in N <=> i \in M
    <3>1. Unshift({n}, i) = i /\ i # n
      BY <1>4, <2>3
    <3>2. QED BY <2>2, <3>1
  <2>4. ASSUME NEW i \in Nat, i > n PROVE i \notin N
    <3>1. Unshift({n}, i) = i - 1 /\ ~(i - 1 < n)
      BY <1>4, <2>4
    <3>2. QED BY <2>2, <2>4, <3>1
  <2>5. \A i \in Nat : i \in N <=> i \in M
    BY <2>2, <2>3, <2>4
  <2>6. N \subseteq Nat /\ M \subseteq Nat
    BY <1>0, <2>2 DEF IndexSet
  <2>7. QED BY <2>5, <2>6
<1> HIDE DEF c, h, v, J, N
<1>7. I \cup {n} \in IndexSet
  BY <1>0, IndexSetWith
<1> DEFINE K == I \cup {n}
<1> HIDE DEF K
<1>8. K \in IndexSet /\ J = K
  BY <1>5, <1>7 DEF K
<1>9. /\ c \in ChangeSet /\ c.modifications = M /\ c.insertions = K /\ c.moves = <<>> /\ c.mapping = g /\ c.deletions = D
  BY <1>0, <1>1, <1>2, <1>3, <1>6, <1>8 DEF ChangeSet
<1>10. Made(c, D, K, M, G)
  BY <1>0, <1>9 DEF Made
<1>11. QED BY <1>10 DEF c, K

\* InsertEmptyRows.
LEMMA InsertEmptyRowsTells ==
    ASSUME NEW s \in Seq(Nat), NEW t \in Seq(Nat), NEW T, NEW b, TableTells(b, s, t, T), NEW e \in Nat
    PROVE  TableTells(Insert(b, Len(t)), s, Append(t, e), T)
<1> DEFINE n == Len(t)
           u == Append(t, e)
           c == Insert(b, n)
           D == b.deletions
           I == b.insertions
           M == b.modifications
           g == b.mapping
<1>0. n \in Nat
  OBVIOUS
<1>1. u \in Seq(Nat) /\ Len(u) = n + 1 /\ \A k \in 1 .. n : u[k] = t[k]
  OBVIOUS
<1> HIDE DEF u
<1>2. IndicesOf(u) = IndicesOf(t) \cup {n} /\ n \notin IndicesOf(t)
  <2>1. 0 .. (n + 1) - 1 = (0 .. n - 1) \cup {n} /\ n \notin 0 .. n - 1
    BY <1>0
  <2>2. QED BY <1>1, <2>1 DEF IndicesOf
<1>3. \A k \in IndicesOf(t) : At(u, k) = At(t, k) /\ k \in Nat /\ k < n
  <2>1. \A k \in 0 .. n - 1 : k + 1 \in 1 .. n /\ k \in Nat /\ k < n
    BY <1>0
  <2>2. QED BY <1>1, <2>1 DEF IndicesOf, At
<1>4. I \subseteq IndicesOf(t) /\ M \subseteq IndicesOf(t) /\ IndicesOf(s) \ D = IndicesOf(t) \ I
  BY DEF TableTells
<1>5. Made(b, D, I, M, g)
  BY TableMade
<1>6. \A m \in g : m.to \in I /\ m.from \in D /\ m = Pair(m.from, m.to)
  <2>1. \A m \in g : m.to \in I /\ m.from \in D /\ m \in AMove
    BY DEF TableTells, ChangeSet
  <2>2. QED BY <2>1 DEF AMove, Pair
<1>7. Made(c, D, I \cup {n}, M, g)
  <2>1. (\A j \in I \cup M : j < n) /\ (\A m \in g : m.to < n)
    BY <1>3, <1>4, <1>6
  <2> HIDE DEF D, I, M, g, n
  <2>2. QED BY <1>0, <1>5, <2>1, InsertLastIs
<1> HIDE DEF c
<1>8. /\ c \in ChangeSet /\ c.moves = <<>> /\ c.deletions = D /\ c.insertions = I \cup {n} /\ c.modifications = M
      /\ c.mapping \subseteq g
  BY <1>7 DEF Made
<1> HIDE DEF n, D, I, M, g
<1>9. c.insertions \subseteq IndicesOf(u) /\ c.modifications \subseteq IndicesOf(u)
  BY <1>2, <1>4, <1>8
<1>10. IndicesOf(s) \ c.deletions = IndicesOf(u) \ c.insertions
  BY <1>2, <1>4, <1>8
<1>11. \A k \in IndicesOf(u) \ c.insertions :
          k \in IndicesOf(t) \ I /\ At(u, k) = At(t, k) /\ (k \in c.modifications <=> k \in M)
  BY <1>2, <1>3, <1>8
<1>12. ASSUME NEW m \in c.mapping PROVE m.to \in c.insertions /\ m.from \in c.deletions /\ RowFrom(b, c, t, u, m)
  <2>1. m \in g /\ m.to \in I /\ m.from \in D /\ m = Pair(m.from, m.to)
    BY <1>6, <1>8
  <2>2. m.to \in IndicesOf(t) /\ At(t, m.to) = At(u, m.to) /\ (m.to \in c.modifications <=> m.to \in M)
    BY <1>3, <1>4, <1>8, <2>1
  <2>3. RowFrom(b, c, t, u, m)
    BY <2>1, <2>2 DEF RowFrom, M, g
  <2>4. QED BY <1>8, <2>1, <2>3
<1>13. TableTells(c, s, u, T)
  BY <1>1, <1>8, <1>9, <1>10, <1>11, <1>12, CarryRows DEF I, M
<1>14. QED BY <1>13 DEF c, u, n

\* MarkDirty.
LEMMA MarkDirtyTells ==
    ASSUME NEW s \in Seq(Nat), NEW t \in Seq(Nat), NEW T, NEW b, TableTells(b, s, t, T),
           Distinct(t), NEW i \in IndicesOf(t)
    PROVE  TableTells(Modify(b, i), s, t, T \cup {At(t, i)})
<1> DEFINE c == Modify(b, i)
           N == b.modifications \cup {i}
<1>1. c = [b EXCEPT !.modifications = N]
  BY Zenon DEF Modify
<1>2. b \in ChangeSet /\ i \in Nat
  BY DEF TableTells, IndicesOf
<1>3. N \in IndexSet
  BY <1>2, IndexSetWith DEF ChangeSet
<1>4. N \subseteq IndicesOf(t)
  BY DEF TableTells
<1>5. \A k \in IndicesOf(t) : (k \in N <=> k \in b.modifications \/ k = i) /\ (At(t, k) \in T \cup {At(t, i)} <=> At(t, k) \in T \/ k = i)
  BY DEF Distinct
<1> HIDE DEF c, N
<1>6. /\ c \in ChangeSet /\ c.modifications = N /\ c.insertions = b.insertions /\ c.deletions = b.deletions
      /\ c.moves = b.moves /\ c.mapping = b.mapping
  BY <1>1, <1>2, <1>3 DEF ChangeSet
<1>7. \A k \in IndicesOf(t) : k \notin b.insertions \/ (\E m \in b.mapping : m.to = k) => (k \in N <=> At(t, k) \in T \cup {At(t, i)})
  BY <1>5 DEF TableTells
<1>8. TableTells(c, s, t, T \cup {At(t, i)})
  <2>1. /\ b.moves = <<>> /\ b.insertions \subseteq IndicesOf(t)
        /\ IndicesOf(s) \ b.deletions = IndicesOf(t) \ b.insertions
        /\ \A k \in IndicesOf(t) \ b.insertions : At(s, k) = At(t, k)
        /\ \A m \in b.mapping :
              /\ m.from \in b.deletions \cap IndicesOf(s) /\ m.to \in b.insertions
              /\ At(s, m.from) = At(t, m.to)
    BY DEF TableTells
  <2>2. QED BY <1>4, <1>6, <1>7, <2>1 DEF TableTells
<1>9. QED BY <1>8 DEF c

\* ClearTable.
LEMMA ClearTableTells ==
    ASSUME NEW s \in Seq(Nat), NEW n \in Nat, Len(s) <= n, NEW T, NEW b, b = Deleting(0 .. n - 1)
    PROVE  TableTells(b, s, <<>>, T)
<1>1. 0 .. n - 1 \in IndexSet /\ {} \in IndexSet /\ <<>> \in Seq(AMove)
  BY FS_Interval, NothingShifts DEF IndexSet
<1>2. b = [deletions |-> 0 .. n - 1, insertions |-> {}, modifications |-> {}, moves |-> <<>>, mapping |-> {}]
  BY DEF Deleting
<1>3. b \in ChangeSet
  BY <1>1, <1>2, FromFields
<1>4. IndicesOf(<<>>) = {} /\ IndicesOf(s) \subseteq 0 .. n - 1
  BY DEF IndicesOf
<1>5. b.deletions = 0 .. n - 1 /\ b.insertions = {} /\ b.modifications = {} /\ b.moves = <<>> /\ b.mapping = {}
  BY <1>2
<1>6. IndicesOf(s) \ b.deletions = {}
  BY <1>4, <1>5
<1>7. QED BY <1>3, <1>4, <1>5, <1>6 DEF TableTells

\* The beginning of a transaction.
LEMMA NothingTells ==
    ASSUME NEW s \in Seq(Nat)
    PROVE  TableTells(Empty, s, s, {})
<1>1. Empty = [deletions |-> {}, insertions |-> {}, modifications |-> {}, moves |-> <<>>, mapping |-> {}]
  BY DEF Empty, Deleting
<1>2. Empty \in ChangeSet
  <2>1. {} \in IndexSet /\ <<>> \in Seq(AMove) /\ {} \in SUBSET AMove
    BY NothingShifts
  <2>2. QED BY <1>1, <2>1, FromFields, Zenon
<1>3. QED BY <1>1, <1>2 DEF TableTells

\* A row goes out of i, to j.
LEMMA SwapOutIs ==
    ASSUME NEW b, NEW D, NEW I, NEW M, NEW G, Made(b, D, I, M, G), NEW i, NEW j \in Nat, Settled(D, I, i)
    PROVE  Made(SwapOut(b, i, j), D \cup ({i} \ I), I \cup {i}, M,
                IF i \in I THEN G ELSE {m \in G : m.to # j} \cup {Pair(i, j)})
<1>0. b.insertions = I /\ I \in IndexSet /\ i \in Nat
  BY DEF Made, Settled, ChangeSet
<1>1. CASE i \in I
  <2>1. SwapOut(b, i, j) = b
    BY <1>0, <1>1 DEF SwapOut
  <2>2. D \cup ({i} \ I) = D /\ I \cup {i} = I
    BY <1>1
  <2>3. QED BY <1>1, <2>1, <2>2
<1>2. CASE i \notin I
  <2> DEFINE x == DeleteShifted(b, i)
             y == MapTo(x, j, i)
             H == {m \in G : m.to # j} \cup {Pair(i, j)}
             c == SwapOut(b, i, j)
  <2>1. i \notin D /\ \A k \in Nat : k < i => (k \in D <=> k \in I)
    BY <1>2 DEF Settled
  <2>2. Made(x, D \cup {i}, I, M, G) /\ ShiftedSource(b, i) = i
    BY <1>0, <2>1, MadeDelete
  <2>3. c = [y EXCEPT !.insertions = @ \cup {i}]
    BY <1>0, <1>2, <2>2, Zenon DEF SwapOut
  <2> HIDE DEF x, c
  <2>4. Made(y, D \cup {i}, I, M, H)
    BY <1>0, <2>2, MadeMapTo
  <2> HIDE DEF y, H
  <2> DEFINE J == I \cup {i}
             E == D \cup {i}
  <2>5. J \in IndexSet /\ y.insertions = I
    BY <1>0, <2>4, IndexSetWith DEF Made
  <2>6. c = [y EXCEPT !.insertions = J]
    BY <2>3, <2>5
  <2> HIDE DEF J, E
  <2>7. Made(y, E, I, M, H)
    BY <2>4 DEF E
  <2>8. Made(c, E, J, M, H)
    BY <2>5, <2>6, <2>7, MadeOthers
  <2>9. D \cup ({i} \ I) = E
    BY <1>2 DEF E
  <2>10. (IF i \in I THEN G ELSE {m \in G : m.to # j} \cup {Pair(i, j)}) = H
    BY <1>2 DEF H
  <2>11. QED BY <2>8, <2>9, <2>10 DEF c, J
<1>3. QED BY <1>1, <1>2

\* What swap makes of the modified rows, and of the moves.
Swapped(M, i, j) == (M \ {i, j}) \cup (IF i \in M THEN {j} ELSE {}) \cup (IF j \in M THEN {i} ELSE {})
SwappedMoves(G, I, i, j) == Others(G, {i, j}) \cup Onward(G, I, i, j) \cup Onward(G, I, j, i)

\* Where the row at i has moved before, and the one at j has not.
LEMMA SwapHalf ==
    ASSUME NEW b \in ChangeSet, NEW D, NEW I, NEW M, NEW N, Made(b, D, I, M, b.mapping), NEW b1,
           Made(b1, D, I, N, b.mapping), NEW i \in Nat, NEW j \in Nat, i # j, Mapped(b, i), i \in I, Settled(D, I, j)
    PROVE  Made(SwapOut(MapTo(Unmap(b1, {i}), j, Origin(b, i)), j, i), D \cup ({i, j} \ I), I \cup {i, j}, N,
                SwappedMoves(b.mapping, I, i, j))
<1> DEFINE g == b.mapping
           x == Unmap(b1, {i})
           f == Origin(b, i)
           y == MapTo(x, j, f)
           G1 == {m \in g : m.to \notin {i}}
           G2 == {m \in G1 : m.to # j} \cup {Pair(f, j)}
           G3 == IF j \in I THEN G2 ELSE {m \in G2 : m.to # i} \cup {Pair(j, i)}
           c == SwapOut(y, j, i)
           H == SwappedMoves(g, I, i, j)
<1>1. f \in Nat /\ Pair(f, j) \in Onward(g, I, i, j)
  <2>1. b.mapping \subseteq g
    OBVIOUS
  <2> HIDE DEF g
  <2>2. QED BY <2>1, OriginLaw
<1> HIDE DEF f
<1>2. Made(x, D, I, N, G1)
  <2>1. Made(b1, D, I, N, g)
    OBVIOUS
  <2> HIDE DEF g
  <2>2. QED BY <2>1, MadeUnmap
<1> HIDE DEF x, g
<1>3. Made(y, D, I, N, G2)
  <2> HIDE DEF G1
  <2>1. QED BY <1>1, <1>2, MadeMapTo
<1>a. G2 \subseteq Others(g, {i, j}) \cup Onward(g, I, i, j)
  BY <1>1 DEF Others
<1> HIDE DEF y, G2
<1>4. Made(c, D \cup ({j} \ I), I \cup {j}, N, G3)
  BY <1>3, SwapOutIs
<1>5. G3 \subseteq H
  <2>1. j \notin I => Pair(j, i) \in Onward(g, I, j, i)
    BY Zenon DEF Onward
  <2>2. QED BY <1>a, <2>1, Zenon DEF SwappedMoves
<1>6. D \cup ({j} \ I) = D \cup ({i, j} \ I) /\ I \cup {j} = I \cup {i, j}
  OBVIOUS
<1> HIDE DEF c, G3, H
<1>7. Made(c, D \cup ({i, j} \ I), I \cup {i, j}, N, H)
  BY <1>4, <1>5, <1>6, MadeMore
<1>8. QED BY <1>7 DEF c, H, y, x, f, g

\* swap.
LEMMA SwapIs ==
    ASSUME NEW b, NEW D, NEW I, NEW M, Made(b, D, I, M, b.mapping), \A m \in b.mapping : m.to \in I,
           NEW i, NEW j, i # j, Settled(D, I, i), Settled(D, I, j)
    PROVE  Made(Swap(b, i, j), D \cup ({i, j} \ I), I \cup {i, j}, Swapped(M, i, j), SwappedMoves(b.mapping, I, i, j))
<1> DEFINE g == b.mapping
           N == Swapped(M, i, j)
           H == SwappedMoves(g, I, i, j)
           E == D \cup ({i, j} \ I)
           J == I \cup {i, j}
           b1 == [b EXCEPT !.modifications =
                     (@ \ {i, j}) \cup (IF i \in @ THEN {j} ELSE {}) \cup (IF j \in @ THEN {i} ELSE {})]
           y1 == MapTo(MapTo(b1, i, Origin(b, j)), j, Origin(b, i))
           y2 == SwapOut(MapTo(Unmap(b1, {i}), j, Origin(b, i)), j, i)
           y3 == SwapOut(MapTo(Unmap(b1, {j}), i, Origin(b, j)), i, j)
           y4 == SwapOut(SwapOut(b1, j, i), i, j)
<1>0. /\ i \in Nat /\ j \in Nat
      /\ b \in ChangeSet /\ b.deletions = D /\ b.insertions = I /\ b.modifications = M
      /\ D \in IndexSet /\ I \in IndexSet /\ M \in IndexSet
  BY DEF Made, Settled, ChangeSet
<1>1. /\ Mapped(b, i) /\ Mapped(b, j) => Swap(b, i, j) = y1
      /\ Mapped(b, i) /\ ~Mapped(b, j) => Swap(b, i, j) = y2
      /\ ~Mapped(b, i) /\ Mapped(b, j) => Swap(b, i, j) = y3
      /\ ~Mapped(b, i) /\ ~Mapped(b, j) => Swap(b, i, j) = y4
  BY Zenon DEF Swap
<1>2. N \in IndexSet
  <2>1. M \ {i, j} \in IndexSet
    <3>1. M \ {i} \in IndexSet /\ M \ {i, j} = (M \ {i}) \ {j}
      BY <1>0, IndexSetWith
    <3>2. QED BY <1>0, <3>1, IndexSetWith
  <2>2. (M \ {i, j}) \cup (IF i \in M THEN {j} ELSE {}) \in IndexSet
    BY <1>0, <2>1, IndexSetWith
  <2>3. N \in IndexSet
    BY <1>0, <2>2, IndexSetWith DEF Swapped
  <2>4. QED BY <2>3
<1>3. Made(b1, D, I, N, g)
  <2>1. b1 = [b EXCEPT !.modifications = N]
    BY <1>0 DEF Swapped
  <2>2. Made(b, D, I, M, g)
    OBVIOUS
  <2> HIDE DEF b1, N, g
  <2>3. QED BY <1>2, <2>1, <2>2, MadeOthers
<1>4. /\ Mapped(b, i) => i \in I
      /\ Mapped(b, j) => j \in I
      /\ ~Mapped(b, i) => \A m \in g : m.to # i
      /\ ~Mapped(b, j) => \A m \in g : m.to # j
  BY DEF Mapped
<1>s. H = SwappedMoves(g, I, j, i) /\ E = D \cup ({j, i} \ I) /\ J = I \cup {j, i}
  <2>1. {i, j} = {j, i}
    OBVIOUS
  <2>2. QED BY <2>1, Zenon DEF SwappedMoves
<1> HIDE DEF b1, N
<1>5. ASSUME Mapped(b, i), Mapped(b, j) PROVE Made(y1, E, J, N, H)
  <2> DEFINE x == MapTo(b1, i, Origin(b, j))
             f == Origin(b, j)
             h == Origin(b, i)
             G1 == {m \in g : m.to # i} \cup {Pair(f, i)}
             G2 == {m \in G1 : m.to # j} \cup {Pair(h, j)}
  <2>1. f \in Nat /\ Pair(f, i) \in Onward(g, I, j, i) /\ h \in Nat /\ Pair(h, j) \in Onward(g, I, i, j)
    <3>1. b.mapping \subseteq g
      OBVIOUS
    <3> HIDE DEF g
    <3>2. QED BY <1>0, <1>5, <3>1, OriginLaw
  <2>2. Made(x, D, I, N, G1)
    <3> HIDE DEF g
    <3>1. QED BY <1>0, <1>3, <2>1, MadeMapTo
  <2> HIDE DEF g, f, h
  <2>3. G2 \subseteq H
    BY <2>1 DEF SwappedMoves, Others
  <2>4. E = D /\ J = I
    BY <1>4, <1>5
  <2> HIDE DEF x, G1
  <2>5. Made(MapTo(x, j, h), D, I, N, G2)
    BY <1>0, <2>1, <2>2, MadeMapTo
  <2>6. y1 = MapTo(x, j, h)
    BY DEF x, h
  <2> HIDE DEF y1, G2, E, J, H
  <2>7. QED BY <2>3, <2>4, <2>5, <2>6, MadeMore
<1>6. ASSUME Mapped(b, i), ~Mapped(b, j) PROVE Made(y2, E, J, N, H)
  <2>1. i \in I
    BY <1>4, <1>6
  <2>2. Made(b1, D, I, N, b.mapping)
    BY <1>3
  <2>3. QED BY <1>0, <1>6, <2>1, <2>2, SwapHalf
<1>7. ASSUME ~Mapped(b, i), Mapped(b, j) PROVE Made(y3, E, J, N, H)
  <2>1. j \in I
    BY <1>4, <1>7
  <2>2. Made(b1, D, I, N, b.mapping)
    BY <1>3
  <2>3. Made(y3, D \cup ({j, i} \ I), I \cup {j, i}, N, SwappedMoves(b.mapping, I, j, i))
    BY <1>0, <1>7, <2>1, <2>2, SwapHalf
  <2> HIDE DEF y3, H, E, J
  <2>4. QED BY <1>s, <2>3
<1>8. ASSUME ~Mapped(b, i), ~Mapped(b, j) PROVE Made(y4, E, J, N, H)
  <2> DEFINE x == SwapOut(b1, j, i)
             E1 == D \cup ({j} \ I)
             J1 == I \cup {j}
             G1 == IF j \in I THEN g ELSE {m \in g : m.to # i} \cup {Pair(j, i)}
             G2 == IF i \in J1 THEN G1 ELSE {m \in G1 : m.to # j} \cup {Pair(i, j)}
  <2>1. Made(x, E1, J1, N, G1)
    <3> HIDE DEF g
    <3>1. QED BY <1>0, <1>3, SwapOutIs
  <2>2. Settled(E1, J1, i)
    BY <1>0 DEF Settled
  <2>3. E1 \cup ({i} \ J1) = E /\ J1 \cup {i} = J
    BY <1>0
  <2>4. \A m \in g : m \in Others(g, {i, j})
    BY <1>4, <1>8 DEF Others
  <2>5. /\ j \notin I => Pair(j, i) \in Onward(g, I, j, i)
        /\ i \notin J1 => Pair(i, j) \in Onward(g, I, i, j)
    BY Zenon DEF Onward
  <2> HIDE DEF g
  <2>6. G1 \subseteq H
    BY <2>4, <2>5, Zenon DEF SwappedMoves
  <2>7. G2 \subseteq H
    <3> HIDE DEF G1, J1
    <3>1. Onward(g, I, i, j) \subseteq H
      BY DEF SwappedMoves
    <3> HIDE DEF H
    <3>2. QED BY <2>5, <2>6, <3>1, Zenon
  <2> HIDE DEF x, E1, J1, G1, E, J, H
  <2>8. Made(SwapOut(x, i, j), E1 \cup ({i} \ J1), J1 \cup {i}, N, G2)
    BY <1>0, <2>1, <2>2, SwapOutIs
  <2>9. y4 = SwapOut(x, i, j)
    BY DEF x
  <2> HIDE DEF y4, G2
  <2>10. QED BY <2>3, <2>7, <2>8, <2>9, MadeMore
<1> HIDE DEF y1, y2, y3, y4
<1>9. Made(Swap(b, i, j), E, J, N, H)
  <2> HIDE DEF E, J, H
  <2>1. QED BY <1>1, <1>5, <1>6, <1>7, <1>8
<1>10. QED BY <1>9 DEF N

SwappedRows(t, i, j) == [t EXCEPT ![i + 1] = At(t, j), ![j + 1] = At(t, i)]

\* SwapRows: each of the two rows is where the other was.
LEMMA SwapLaw ==
    ASSUME NEW t \in Seq(Nat), NEW i \in IndicesOf(t), NEW j \in IndicesOf(t), i # j,
           NEW u, u = SwappedRows(t, i, j)
    PROVE  /\ u \in Seq(Nat) /\ Len(u) = Len(t) /\ IndicesOf(u) = IndicesOf(t)
           /\ At(u, i) = At(t, j) /\ At(u, j) = At(t, i)
           /\ \A k \in IndicesOf(t) \ {i, j} : At(u, k) = At(t, k)
<1>0. Len(t) \in Nat /\ i \in Nat /\ i < Len(t) /\ j \in Nat /\ j < Len(t)
  BY DEF IndicesOf
<1>e. u = [t EXCEPT ![i + 1] = At(t, j), ![j + 1] = At(t, i)]
  BY DEF SwappedRows
<1>1. i + 1 \in 1 .. Len(t) /\ j + 1 \in 1 .. Len(t) /\ i + 1 # j + 1
  BY <1>0
<1>2. At(t, i) \in Nat /\ At(t, j) \in Nat
  BY <1>1 DEF At
<1>3. u \in Seq(Nat) /\ Len(u) = Len(t)
  BY <1>1, <1>2, <1>e
<1>4. u[i + 1] = At(t, j) /\ u[j + 1] = At(t, i)
  BY <1>1, <1>e
<1>5. \A q \in 1 .. Len(t) : q # i + 1 /\ q # j + 1 => u[q] = t[q]
  BY <1>1, <1>e
<1>6. ASSUME NEW k \in IndicesOf(t) \ {i, j} PROVE At(u, k) = At(t, k)
  <2>1. k + 1 \in 1 .. Len(t) /\ k + 1 # i + 1 /\ k + 1 # j + 1
    BY <1>0 DEF IndicesOf
  <2>2. QED BY <1>5, <2>1 DEF At
<1>7. QED BY <1>3, <1>4, <1>6 DEF At, IndicesOf

\* SwapRows.
LEMMA SwapRowsTells ==
    ASSUME NEW s \in Seq(Nat), NEW t \in Seq(Nat), NEW T, NEW b, TableTells(b, s, t, T),
           NEW i \in IndicesOf(t), NEW j \in IndicesOf(t), i # j,
           NEW u, u = SwappedRows(t, i, j)
    PROVE  TableTells(Swap(b, i, j), s, u, T)
<1> DEFINE c == Swap(b, i, j)
           D == b.deletions
           I == b.insertions
           M == b.modifications
           g == b.mapping
<1>1. /\ u \in Seq(Nat) /\ IndicesOf(u) = IndicesOf(t) /\ At(u, i) = At(t, j) /\ At(u, j) = At(t, i)
      /\ \A k \in IndicesOf(t) \ {i, j} : At(u, k) = At(t, k)
  BY SwapLaw
<1>2. I \subseteq IndicesOf(t) /\ M \subseteq IndicesOf(t) /\ IndicesOf(s) \ D = IndicesOf(t) \ I
  BY DEF TableTells
<1>3. Made(c, D \cup ({i, j} \ I), I \cup {i, j}, Swapped(M, i, j), SwappedMoves(g, I, i, j))
  <2>1. Made(b, D, I, M, b.mapping) /\ Settled(D, I, i) /\ Settled(D, I, j)
    BY TableMade, RowsAreSettled
  <2>2. \A m \in b.mapping : m.to \in I
    BY DEF TableTells
  <2> HIDE DEF D, I, M
  <2>3. QED BY <2>1, <2>2, SwapIs
<1> HIDE DEF c, D, I, M, g
<1>4. /\ c \in ChangeSet /\ c.moves = <<>> /\ c.deletions = D \cup ({i, j} \ I) /\ c.insertions = I \cup {i, j}
      /\ c.modifications = Swapped(M, i, j)
      /\ c.mapping \subseteq Others(g, {i, j}) \cup Onward(g, I, i, j) \cup Onward(g, I, j, i)
  BY <1>3 DEF Made, SwappedMoves
<1>5. /\ i \in c.modifications <=> j \in M
      /\ j \in c.modifications <=> i \in M
      /\ \A k \in IndicesOf(t) \ {i, j} : k \in c.modifications <=> k \in M
  BY <1>4 DEF Swapped
<1>6. c.insertions \subseteq IndicesOf(u) /\ c.modifications \subseteq IndicesOf(u)
  <2>1. Swapped(M, i, j) \subseteq M \cup {i, j}
    BY DEF Swapped
  <2>2. QED BY <1>1, <1>2, <1>4, <2>1
<1>7. IndicesOf(s) \ c.deletions = IndicesOf(u) \ c.insertions
  BY <1>1, <1>2, <1>4
<1>8. \A k \in IndicesOf(u) \ c.insertions :
         k \in IndicesOf(t) \ I /\ At(u, k) = At(t, k) /\ (k \in c.modifications <=> k \in M)
  BY <1>1, <1>4, <1>5
<1>9. ASSUME NEW m \in Others(g, {i, j}) PROVE m.to \in c.insertions /\ m.from \in c.deletions /\ RowFrom(b, c, t, u, m)
  <2>1. m.to \notin {i, j} /\ m.to \in I /\ m.from \in D /\ Pair(m.from, m.to) \in b.mapping
    BY OthersLaw DEF g, I, D
  <2>2. m.to \in IndicesOf(t) /\ At(t, m.to) = At(u, m.to) /\ (m.to \in c.modifications <=> m.to \in M)
    BY <1>1, <1>2, <1>5, <2>1
  <2>3. RowFrom(b, c, t, u, m)
    BY <2>1, <2>2 DEF RowFrom, M
  <2>4. QED BY <1>4, <2>1, <2>3
<1>10. ASSUME NEW p \in {i, j}, NEW q \in {i, j}, p # q, NEW m \in Onward(g, I, p, q)
       PROVE  m.to \in c.insertions /\ m.from \in c.deletions /\ RowFrom(b, c, t, u, m)
  <2>1. /\ m.to = q
        /\ \/ p \notin I /\ m.from = p
           \/ p \in I /\ m.from \in D /\ Pair(m.from, p) \in b.mapping
    BY <1>10, OnwardLaw DEF g, I, D
  <2>2. m.to \in c.insertions /\ m.from \in c.deletions
    BY <1>4, <2>1
  <2>3. p \in IndicesOf(t) /\ At(t, p) = At(u, m.to) /\ (m.to \in c.modifications <=> p \in M)
    BY <1>1, <1>5, <1>10, <2>1
  <2>4. RowFrom(b, c, t, u, m)
    BY <2>1, <2>3 DEF RowFrom, M, I
  <2>5. QED BY <2>2, <2>4
<1>11. \A m \in c.mapping : m.to \in c.insertions /\ m.from \in c.deletions /\ RowFrom(b, c, t, u, m)
  BY <1>4, <1>9, <1>10
<1>12. TableTells(c, s, u, T)
  BY <1>1, <1>4, <1>6, <1>7, <1>8, <1>11, CarryRows DEF I, M
<1>13. QED BY <1>12 DEF c


\* subsume_identity, into the new row at n.
LEMMA SubsumeIs ==
    ASSUME NEW n \in Nat, NEW b, NEW D, NEW I \in IndexSet, NEW M, Made(b, D, I \cup {n}, M, b.mapping),
           n \notin I, \A m \in b.mapping : m.to \in I,
           NEW i, i < n, Settled(D, I, i)
    PROVE  Made(Subsume(b, i, n), D, I \cup {n}, M \cup (IF i \in M THEN {n} ELSE {}),
                Others(b.mapping, {i, n}) \cup Onward(b.mapping, I, i, n))
<1> DEFINE g == b.mapping
           J == I \cup {n}
           N == M \cup (IF i \in M THEN {n} ELSE {})
           H == Others(g, {i, n}) \cup Onward(g, I, i, n)
           x == IF i \in b.modifications THEN Modify(b, n) ELSE b
           f == Origin(b, i)
           y1 == Unmap(MapTo(x, n, f), {i})
           y3 == MapTo(x, n, ShiftedSource(b, i))
           c == Subsume(b, i, n)
<1>0. /\ i \in Nat /\ i # n
      /\ b \in ChangeSet /\ b.deletions = D /\ b.insertions = J /\ b.modifications = M
      /\ D \in IndexSet /\ M \in IndexSet
  BY DEF Made, Settled, ChangeSet
<1>1. /\ Mapped(b, i) => c = y1
      /\ ~Mapped(b, i) /\ i \in b.insertions => c = x
      /\ ~Mapped(b, i) /\ i \notin b.insertions => c = y3
  BY Zenon DEF Subsume
<1>2. Made(x, D, J, N, g)
  <2>1. ASSUME i \in M PROVE Made(x, D, J, N, g)
    <3>1. N \in IndexSet
      BY <1>0, <2>1, IndexSetWith
    <3>2. x = [b EXCEPT !.modifications = N]
      BY <1>0, <2>1 DEF Modify
    <3> HIDE DEF x, J, N
    <3>3. Made(b, D, J, M, g)
      BY DEF J
    <3> HIDE DEF g
    <3>4. QED BY <3>1, <3>2, <3>3, MadeOthers
  <2>2. ASSUME i \notin M PROVE Made(x, D, J, N, g)
    <3>1. N = M /\ x = b
      BY <1>0, <2>2
    <3> HIDE DEF x, N
    <3>2. QED BY <3>1
  <2>3. QED BY <2>1, <2>2
<1>3. \A m \in g : m.to # n /\ (~Mapped(b, i) => m.to # i)
  BY DEF Mapped
<1> HIDE DEF x, N
<1>4. ASSUME Mapped(b, i) PROVE Made(y1, D, J, N, H)
  <2> DEFINE G1 == {m \in g : m.to # n} \cup {Pair(f, n)}
             G2 == {m \in G1 : m.to \notin {i}}
  <2>1. f \in Nat /\ Pair(f, n) \in Onward(g, I, i, n)
    <3>1. b.mapping \subseteq g
      OBVIOUS
    <3> HIDE DEF g
    <3>2. QED BY <1>0, <1>4, <3>1, OriginLaw
  <2> HIDE DEF f, g
  <2>2. Made(MapTo(x, n, f), D, J, N, G1)
    <3> HIDE DEF J
    <3>1. QED BY <1>2, <2>1, MadeMapTo
  <2>3. G2 \subseteq H
    BY <2>1 DEF Others
  <2>4. Made(y1, D, J, N, G2)
    <3> HIDE DEF J, G1
    <3>1. QED BY <2>2, MadeUnmap
  <2> HIDE DEF y1, G2, H, J
  <2>5. QED BY <2>3, <2>4, MadeMore
<1>5. ASSUME ~Mapped(b, i) PROVE g \subseteq H
  BY <1>3, <1>5 DEF Others
<1>6. ASSUME ~Mapped(b, i), i \notin b.insertions PROVE Made(y3, D, J, N, H)
  <2> DEFINE G1 == {m \in g : m.to # n} \cup {Pair(i, n)}
  <2>1. i \notin I /\ i \notin D /\ \A k \in Nat : k < i => (k \in D <=> k \in J)
    BY <1>0, <1>6 DEF Settled
  <2>2. J \in IndexSet
    BY IndexSetWith
  <2>3. ShiftedSource(b, i) = i
    <3> HIDE DEF J
    <3>1. Shift(D, Unshift(J, i)) = i
      BY <1>0, <2>1, <2>2, SameBelow
    <3>2. QED BY <1>0, <3>1 DEF ShiftedSource
  <2>4. Pair(i, n) \in H
    BY <2>1, Zenon DEF Onward
  <2>5. G1 \subseteq H
    <3>1. g \subseteq H
      BY <1>5, <1>6
    <3> HIDE DEF g, H
    <3>2. QED BY <2>4, <3>1, Zenon
  <2> HIDE DEF J, g, H
  <2>6. Made(MapTo(x, n, i), D, J, N, G1)
    BY <1>0, <1>2, MadeMapTo
  <2> HIDE DEF G1
  <2>7. Made(y3, D, J, N, G1)
    BY <2>3, <2>6
  <2> HIDE DEF y3
  <2>8. QED BY <2>5, <2>7, MadeMore
<1>7. ASSUME ~Mapped(b, i) PROVE Made(x, D, J, N, H)
  <2>1. g \subseteq H
    BY <1>5, <1>7
  <2> HIDE DEF g, H, J
  <2>2. QED BY <1>2, <2>1, MadeMore
<1> HIDE DEF y1, y3, c
<1>8. Made(c, D, J, N, H)
  <2> HIDE DEF J, H
  <2>1. QED BY <1>1, <1>4, <1>6, <1>7
<1>9. QED BY <1>8 DEF c, J, N, H, g

\* What has gone to n, and from there to i.
LEMMA OnwardAndBack ==
    ASSUME NEW g, NEW I, NEW i, NEW n, NEW H, H = Others(g, {i, n}) \cup Onward(g, I, i, n)
    PROVE  Onward(H, I \cup {n}, n, i) \subseteq Onward(g, I, i, i)
<1> SUFFICES ASSUME NEW p \in Onward(H, I \cup {n}, n, i) PROVE p \in Onward(g, I, i, i)
  OBVIOUS
<1>1. p \in {Pair(m.from, i) : m \in {m \in H : m.to = n}}
  <2>1. (IF n \in I \cup {n} THEN {} ELSE {Pair(n, i)}) = {}
    OBVIOUS
  <2>2. QED BY <2>1, Zenon DEF Onward
<1>2. PICK m \in H : m.to = n /\ p = Pair(m.from, i)
  BY <1>1
<1>3. m \in Onward(g, I, i, n)
  BY <1>2 DEF Others
<1>4. CASE m \in {Pair(q.from, n) : q \in {q \in g : q.to = i}}
  <2>1. PICK q \in g : q.to = i /\ m = Pair(q.from, n)
    BY <1>4
  <2>2. m.from = q.from
    BY <2>1 DEF Pair
  <2>3. p = Pair(q.from, i)
    BY <1>2, <2>2
  <2>4. p \in {Pair(r.from, i) : r \in {r \in g : r.to = i}}
    BY <2>1, <2>3, Zenon
  <2>5. QED BY <2>4, Zenon DEF Onward
<1>5. CASE i \notin I /\ m = Pair(i, n)
  <2>1. m.from = i
    BY <1>5 DEF Pair
  <2>2. QED BY <1>2, <1>5, <2>1, Zenon DEF Onward
<1>6. QED BY <1>3, <1>4, <1>5, Zenon DEF Onward

\* MergeRows: the row at i is a new one, and the others are as they were.
LEMMA MergeRowsTells ==
    ASSUME NEW s \in Seq(Nat), NEW t \in Seq(Nat), NEW T, NEW b, TableTells(b, s, t, T), NEW i \in IndicesOf(t)
    PROVE  TableTells(MoveLastOver(Subsume(Insert(b, Len(t)), i, Len(t)), i, Len(t)), s, t, T)
<1> DEFINE n == Len(t)
           x == Insert(b, n)
           y == Subsume(x, i, n)
           c == MoveLastOver(y, i, n)
           D == b.deletions
           I == b.insertions
           M == b.modifications
           g == b.mapping
           J == I \cup {n}
           N == M \cup (IF i \in M THEN {n} ELSE {})
           h == x.mapping
           H == Others(h, {i, n}) \cup Onward(h, I, i, n)
<1>0. n \in Nat /\ i \in Nat /\ i < n /\ n \notin IndicesOf(t) /\ \A k \in IndicesOf(t) : k \in Nat /\ k < n
  BY DEF IndicesOf
<1>1. I \subseteq IndicesOf(t) /\ M \subseteq IndicesOf(t) /\ IndicesOf(s) \ D = IndicesOf(t) \ I /\ I \in IndexSet
  BY DEF TableTells, ChangeSet
<1>2. Made(b, D, I, M, g) /\ Settled(D, I, i) /\ \A m \in g : m.to \in I
  BY TableMade, RowsAreSettled DEF TableTells
<1>3. n \notin I /\ n \notin M /\ (\A j \in I \cup M : j < n) /\ \A m \in g : m.to < n
  BY <1>0, <1>1, <1>2
<1>e. ASSUME NEW k, NEW m \in Onward(g, I, i, k) PROVE m.to = k
  <2>1. /\ m.to = k
        /\ \/ i \notin b.insertions /\ m.from = i
           \/ i \in b.insertions /\ m.from \in b.deletions /\ Pair(m.from, i) \in b.mapping
    BY <1>e, OnwardLaw
  <2>2. QED BY <2>1
<1> HIDE DEF n, D, I, M, g
<1>4. Made(x, D, J, M, g)
  BY <1>0, <1>2, <1>3, InsertLastIs
<1>5. h \subseteq g /\ Made(x, D, J, M, h)
  BY <1>4 DEF Made
<1> HIDE DEF x
<1>6. Made(y, D, J, N, H)
  <2>1. \A m \in h : m.to \in I
    BY <1>2, <1>5
  <2>2. QED BY <1>0, <1>1, <1>2, <1>3, <1>5, <2>1, SubsumeIs
<1> HIDE DEF y, h
<1>7. H \subseteq Others(g, {i, n}) \cup Onward(g, I, i, n)
  <2>1. Others(h, {i, n}) \subseteq Others(g, {i, n}) /\ Onward(h, I, i, n) \subseteq Onward(g, I, i, n)
    BY <1>5, OnwardMore
  <2>2. QED BY <2>1
<1> DEFINE K == Others(g, {i, n}) \cup Onward(g, I, i, n)
<1>8. \A m \in K : m.to \in J
  <2>1. ASSUME NEW m \in Others(g, {i, n}) PROVE m.to \in J
    BY <1>2 DEF Others
  <2>2. ASSUME NEW m \in Onward(g, I, i, n) PROVE m.to \in J
    <3>1. QED BY <1>e
  <2>3. QED BY <2>1, <2>2
<1>9. Made(y, D, J, N, K)
  <2> HIDE DEF H, K, J, N
  <2>1. H \subseteq K
    BY <1>7 DEF K
  <2>2. QED BY <1>6, <2>1, MadeMore
<1>10. Settled(D, J, i) /\ Settled(D, J, n)
  BY <1>0, <1>2 DEF Settled
<1> DEFINE L == Others(K, {i, n}) \cup Onward(K, J, n, i)
<1>11. Made(c, D \cup ({i, n} \ J), (J \ {n}) \cup {i}, Over(N, i, n), L)
  <2> HIDE DEF J, N, K
  <2>1. QED BY <1>0, <1>8, <1>9, <1>10, MoveLastOverIs
<1>12. D \cup ({i, n} \ J) = D \cup ({i} \ I) /\ (J \ {n}) \cup {i} = I \cup {i} /\ Over(N, i, n) = M
  <2>1. D \cup ({i, n} \ J) = D \cup ({i} \ I) /\ (J \ {n}) \cup {i} = I \cup {i}
    BY <1>0, <1>3
  <2>2. CASE i \in M
    <3>1. n \in N /\ (N \ {n}) \cup {i} = M
      BY <1>3, <2>2
    <3>2. QED BY <2>1, <3>1 DEF Over
  <2>3. CASE i \notin M
    <3>1. n \notin N /\ N \ {i} = M
      BY <1>3, <2>3
    <3>2. QED BY <2>1, <3>1 DEF Over
  <2>4. QED BY <2>2, <2>3
<1>13. L \subseteq Others(g, {i}) \cup Onward(g, I, i, i)
  <2>1. Others(K, {i, n}) \subseteq Others(g, {i})
    <3>1. \A m \in Onward(g, I, i, n) : m.to = n
      BY <1>e
    <3>2. QED BY <3>1 DEF Others
  <2>2. Onward(K, J, n, i) \subseteq Onward(g, I, i, i)
    <3> HIDE DEF K
    <3>1. K = Others(g, {i, n}) \cup Onward(g, I, i, n)
      BY DEF K
    <3>2. QED BY <3>1, OnwardAndBack
  <2>3. QED BY <2>1, <2>2
<1> HIDE DEF c, L, K, J, N, H
<1>14. /\ c \in ChangeSet /\ c.moves = <<>> /\ c.deletions = D \cup ({i} \ I) /\ c.insertions = I \cup {i}
       /\ c.modifications = M /\ c.mapping \subseteq Others(g, {i}) \cup Onward(g, I, i, i)
  BY <1>11, <1>12, <1>13 DEF Made
<1>15. c.insertions \subseteq IndicesOf(t) /\ c.modifications \subseteq IndicesOf(t)
  BY <1>1, <1>14
<1>16. IndicesOf(s) \ c.deletions = IndicesOf(t) \ c.insertions
  BY <1>1, <1>14
<1>17. ASSUME NEW m \in Others(g, {i}) PROVE m.to \in c.insertions /\ m.from \in c.deletions /\ RowFrom(b, c, t, t, m)
  <2>1. m.to \in I /\ m.from \in D /\ Pair(m.from, m.to) \in b.mapping
    BY OthersLaw DEF g, I, D
  <2>2. m.to \in IndicesOf(t) /\ (m.to \in c.modifications <=> m.to \in M)
    BY <1>1, <1>14, <2>1
  <2>3. RowFrom(b, c, t, t, m)
    BY <2>1, <2>2 DEF RowFrom, M
  <2>4. QED BY <1>14, <2>1, <2>3
<1>18. ASSUME NEW m \in Onward(g, I, i, i) PROVE m.to \in c.insertions /\ m.from \in c.deletions /\ RowFrom(b, c, t, t, m)
  <2>1. /\ m.to = i
        /\ \/ i \notin I /\ m.from = i
           \/ i \in I /\ m.from \in D /\ Pair(m.from, i) \in b.mapping
    BY OnwardLaw DEF g, I, D
  <2>2. m.to \in c.insertions /\ m.from \in c.deletions
    BY <1>14, <2>1
  <2>3. i \in IndicesOf(t) /\ (m.to \in c.modifications <=> i \in M)
    BY <1>14, <2>1
  <2>4. RowFrom(b, c, t, t, m)
    BY <2>1, <2>3 DEF RowFrom, M, I
  <2>5. QED BY <2>2, <2>4
<1>19. \A m \in c.mapping : m.to \in c.insertions /\ m.from \in c.deletions /\ RowFrom(b, c, t, t, m)
  BY <1>14, <1>17, <1>18
<1>20. \A k \in IndicesOf(t) \ c.insertions : k \in IndicesOf(t) \ I /\ (k \in c.modifications <=> k \in M)
  BY <1>14
<1>21. TableTells(c, s, t, T)
  BY <1>14, <1>15, <1>16, <1>19, <1>20, CarryRows DEF I, M
<1>22. QED BY <1>21 DEF c, y, x, n

-----------------------------------------------------------------------------
(* The rows of a table are all different                                   *)

\* A new one may come last,
LEMMA DistinctAppend ==
    ASSUME NEW t \in Seq(Nat), Distinct(t), NEW e \in Nat, \A j \in IndicesOf(t) : At(t, j) # e
    PROVE  Append(t, e) \in Seq(Nat) /\ Distinct(Append(t, e)) /\ Len(Append(t, e)) = Len(t) + 1
<1> DEFINE u == Append(t, e)
           n == Len(t)
<1>1. n \in Nat /\ u \in Seq(Nat) /\ Len(u) = n + 1 /\ u[n + 1] = e /\ \A k \in 1 .. n : u[k] = t[k]
  OBVIOUS
<1> HIDE DEF u
<1>2. \A k \in IndicesOf(u) : k \in Nat /\ (k = n \/ k \in IndicesOf(t))
  BY <1>1 DEF IndicesOf
<1>3. \A k \in IndicesOf(t) : k + 1 \in 1 .. n
  BY <1>1 DEF IndicesOf
<1>4. At(u, n) = e /\ \A k \in IndicesOf(t) : At(u, k) = At(t, k)
  BY <1>1, <1>3 DEF At
<1>5. \A k, l \in IndicesOf(u) : At(u, k) = At(u, l) => k = l
  <2>1. \A k, l \in IndicesOf(t) : At(t, k) = At(t, l) => k = l
    BY DEF Distinct
  <2>2. QED BY <1>2, <1>4, <2>1
<1>6. Distinct(u)
  BY <1>5, Zenon DEF Distinct
<1>7. QED BY <1>1, <1>6 DEF u

\* the last one may be put over another,
LEMMA DistinctOver ==
    ASSUME NEW t \in Seq(Nat), Distinct(t), NEW i \in IndicesOf(t)
    PROVE  OverWithLast(t, i) \in Seq(Nat) /\ Distinct(OverWithLast(t, i)) /\ Len(OverWithLast(t, i)) = Len(t) - 1
<1> DEFINE u == OverWithLast(t, i)
           last == Len(t) - 1
<1>1. u \in Seq(Nat) /\ Len(u) = last /\ \A k \in IndicesOf(u) : At(u, k) = IF k = i THEN At(t, last) ELSE At(t, k)
  BY OverLaw
<1> HIDE DEF u
<1>2. last \in IndicesOf(t) /\ \A k \in IndicesOf(u) : k \in IndicesOf(t) /\ k # last
  <2>1. Len(t) \in Nat /\ Len(t) # 0
    BY DEF IndicesOf
  <2>2. QED BY <1>1, <2>1 DEF IndicesOf
<1> HIDE DEF last
<1>3. \A k, l \in IndicesOf(t) : At(t, k) = At(t, l) => k = l
  BY DEF Distinct
<1>4. \A k, l \in IndicesOf(u) : At(u, k) = At(u, l) => k = l
  BY <1>1, <1>2, <1>3
<1>5. Distinct(u)
  BY <1>4, Zenon DEF Distinct
<1>6. QED BY <1>1, <1>5 DEF u, last

\* and two may change places.
LEMMA DistinctSwapped ==
    ASSUME NEW t \in Seq(Nat), Distinct(t), NEW i \in IndicesOf(t), NEW j \in IndicesOf(t), i # j,
           NEW u, u = SwappedRows(t, i, j)
    PROVE  u \in Seq(Nat) /\ Distinct(u) /\ Len(u) = Len(t)
<1>1. /\ u \in Seq(Nat) /\ Len(u) = Len(t) /\ IndicesOf(u) = IndicesOf(t)
      /\ At(u, i) = At(t, j) /\ At(u, j) = At(t, i)
      /\ \A k \in IndicesOf(t) \ {i, j} : At(u, k) = At(t, k)
  BY SwapLaw
<1>2. \A k, l \in IndicesOf(t) : At(t, k) = At(t, l) => k = l
  BY DEF Distinct
<1>3. ASSUME NEW k \in IndicesOf(u), NEW l \in IndicesOf(u), At(u, k) = At(u, l) PROVE k = l
  <2>1. k \in IndicesOf(t) /\ l \in IndicesOf(t)
    BY <1>1
  <2> DEFINE P(q) == IF q = i THEN j ELSE IF q = j THEN i ELSE q
  <2>2. At(u, k) = At(t, P(k)) /\ At(u, l) = At(t, P(l))
    BY <1>1, <2>1
  <2>3. P(k) \in IndicesOf(t) /\ P(l) \in IndicesOf(t)
    BY <2>1
  <2>4. P(k) = P(l) => k = l
    OBVIOUS
  <2> HIDE DEF P
  <2>5. QED BY <1>2, <1>3, <2>2, <2>3, <2>4
<1>4. Distinct(u)
  BY <1>3 DEF Distinct
<1>5. QED BY <1>1, <1>4

-----------------------------------------------------------------------------
(* The end of a transaction on a table                                     *)

\* No two moves of K are from one row.
FromEach(K) == \A m, n \in K : m.from = n.from => m = n

\* Each of them is at its place in ByFrom: the moves are ranked by how many of
\* them are from rows before, which are different numbers below that of all.
LEMMA ByFromLaw ==
    ASSUME NEW K \in SUBSET AMove, IsFiniteSet(K), FromEach(K)
    PROVE  /\ ByFrom(K) \in Seq(AMove)
           /\ \A k \in DOMAIN ByFrom(K) : ByFrom(K)[k] \in K
           /\ \A k, l \in DOMAIN ByFrom(K) : ByFrom(K)[k] = ByFrom(K)[l] => k = l
<1> DEFINE n == Cardinality(K)
           Below(m) == {x \in K : x.from < m.from}
           R(m) == Cardinality(Below(m))
           f == [m \in K |-> R(m) + 1]
           v == ByFrom(K)
<1>1. n \in Nat
  BY FS_CardinalityType
<1>2. \A m \in K : m.from \in Nat
  BY DEF AMove
<1>3. ASSUME NEW m \in K PROVE Below(m) \in SUBSET K /\ IsFiniteSet(Below(m)) /\ R(m) \in Nat /\ R(m) <= n
  <2>1. Below(m) \in SUBSET K
    OBVIOUS
  <2> HIDE DEF Below
  <2>2. IsFiniteSet(Below(m)) /\ R(m) <= n
    BY <2>1, FS_Subset
  <2>3. QED BY <2>1, <2>2, FS_CardinalityType
<1>4. ASSUME NEW m \in K PROVE R(m) < n
  <2>1. Below(m) # K
    <3>1. m \notin Below(m)
      BY <1>2
    <3> HIDE DEF Below
    <3>2. QED BY <3>1
  <2> HIDE DEF Below
  <2>2. R(m) # n
    BY <1>3, <2>1, FS_Subset
  <2>3. QED BY <1>1, <1>3, <2>2
<1>5. ASSUME NEW m \in K, NEW x \in K, m.from < x.from PROVE R(m) < R(x)
  <2>1. Below(m) \subseteq Below(x) /\ m \in Below(x) /\ m \notin Below(m)
    BY <1>2, <1>5
  <2> HIDE DEF Below
  <2>2. Below(m) \in SUBSET Below(x) /\ Below(m) # Below(x)
    BY <2>1
  <2>3. R(m) <= R(x) /\ R(m) # R(x)
    BY <1>3, <2>2, FS_Subset
  <2>4. QED BY <1>3, <2>3
<1> HIDE DEF R
<1>6. \A m, x \in K : R(m) = R(x) => m = x
  <2>1. SUFFICES ASSUME NEW m \in K, NEW x \in K, m # x PROVE R(m) # R(x)
    OBVIOUS
  <2>2. m.from < x.from \/ x.from < m.from
    BY <1>2, <2>1 DEF FromEach
  <2>3. R(m) \in Nat /\ R(x) \in Nat
    BY <1>3
  <2>4. CASE m.from < x.from
    <3>1. R(m) < R(x)
      BY <1>5, <2>4
    <3>2. QED BY <2>3, <3>1
  <2>5. CASE x.from < m.from
    <3>1. R(x) < R(m)
      BY <1>5, <2>5
    <3>2. QED BY <2>3, <3>1
  <2>6. QED BY <2>2, <2>4, <2>5
<1> HIDE DEF n
<1>7. f \in Injection(K, 1 .. n)
  <2>1. ASSUME NEW m \in K PROVE R(m) + 1 \in 1 .. n
    <3>1. R(m) \in Nat /\ R(m) < n
      BY <1>3, <1>4
    <3>2. QED BY <1>1, <3>1
  <2>2. ASSUME NEW m \in K, NEW x \in K, f[m] = f[x] PROVE m = x
    <3>1. R(m) \in Nat /\ R(x) \in Nat /\ R(m) + 1 = R(x) + 1
      BY <1>3, <2>2
    <3>2. R(m) = R(x)
      BY <3>1
    <3>3. QED BY <1>6, <3>2
  <2>3. f \in [K -> 1 .. n]
    BY <2>1
  <2> HIDE DEF f
  <2>4. QED BY <2>2, <2>3 DEF Injection, IsInjective
<1>8. IsFiniteSet(1 .. n) /\ Cardinality(1 .. n) = n
  BY <1>1, FS_Interval
<1>9. f \in Surjection(K, 1 .. n)
  <2> HIDE DEF f
  <2>1. QED BY <1>7, <1>8, FS_Injection DEF n
<1>10. ASSUME NEW k \in 1 .. n PROVE \E m \in K : R(m) = k - 1
  <2>1. PICK m \in K : f[m] = k
    BY <1>9, <1>10, Zenon DEF Surjection
  <2>2. R(m) + 1 = k /\ R(m) \in Nat
    BY <1>3, <2>1
  <2>3. QED BY <1>1, <2>2
<1>11. v = [k \in 1 .. n |-> CHOOSE m \in K : R(m) = k - 1]
  BY Zenon DEF ByFrom, R, n
<1> HIDE DEF v
<1>12. ASSUME NEW k \in 1 .. n PROVE v[k] \in K /\ R(v[k]) = k - 1
  <2>1. v[k] = CHOOSE m \in K : R(m) = k - 1
    BY <1>11
  <2>2. QED BY <1>10, <2>1, Zenon
<1>13. DOMAIN v = 1 .. n
  BY <1>11
<1>14. v \in Seq(AMove)
  <2>1. v \in [1 .. n -> AMove]
    BY <1>11, <1>12
  <2>2. QED BY <1>1, <2>1, FunctionIsASeq
<1>15. \A k, l \in DOMAIN v : v[k] = v[l] => k = l
  <2>1. SUFFICES ASSUME NEW k \in 1 .. n, NEW l \in 1 .. n, v[k] = v[l] PROVE k = l
    BY <1>13
  <2>2. R(v[k]) = k - 1 /\ R(v[l]) = l - 1
    BY <1>12
  <2>3. k - 1 = l - 1
    BY <2>1, <2>2
  <2>4. QED BY <1>1, <2>3
<1>16. QED BY <1>12, <1>13, <1>14, <1>15 DEF v

\* Of the moves of a table none is from the row of another, and none to it, so
\* that there are finitely many.
LEMMA MappingLaw ==
    ASSUME NEW s \in Seq(Nat), NEW t \in Seq(Nat), Distinct(s), Distinct(t), NEW T, NEW b, TableTells(b, s, t, T)
    PROVE  /\ b.mapping \in SUBSET AMove /\ IsFiniteSet(b.mapping)
           /\ \A m, n \in b.mapping : m.from = n.from \/ m.to = n.to => m = n
<1> DEFINE g == b.mapping
           f == [m \in g |-> m.to]
<1>1. g \in SUBSET AMove /\ IsFiniteSet(b.insertions)
  BY DEF TableTells, ChangeSet, IndexSet
<1>2. \A m \in g : /\ m.from \in IndicesOf(s) /\ m.to \in IndicesOf(t) /\ m.to \in b.insertions
                   /\ At(s, m.from) = At(t, m.to)
  BY DEF TableTells
<1> HIDE DEF g
<1>3. ASSUME NEW m \in g, NEW n \in g, m.from = n.from \/ m.to = n.to PROVE m = n
  <2>1. At(s, m.from) = At(s, n.from) /\ At(t, m.to) = At(t, n.to)
    BY <1>2, <1>3
  <2>2. m.from = n.from /\ m.to = n.to
    BY <1>2, <2>1 DEF Distinct
  <2>3. m \in AMove /\ n \in AMove
    BY <1>1
  <2>4. QED BY <2>2, <2>3 DEF AMove
<1>4. f \in Injection(g, b.insertions)
  <2>1. f \in [g -> b.insertions]
    BY <1>2
  <2>2. ASSUME NEW m \in g, NEW n \in g, f[m] = f[n] PROVE m = n
    <3>1. m.to = n.to
      BY <2>2
    <3>2. QED BY <1>3, <3>1
  <2> HIDE DEF f
  <2>3. QED BY <2>1, <2>2 DEF Injection, IsInjective
<1>5. IsFiniteSet(g)
  <2> HIDE DEF f
  <2>1. QED BY <1>1, <1>4, FS_Injection
<1>6. QED BY <1>1, <1>3, <1>5 DEF g

\* ParseComplete.
LEMMA ParseCompleteTells ==
    ASSUME NEW s \in Seq(Nat), NEW t \in Seq(Nat), Distinct(s), Distinct(t), NEW T, NEW b, TableTells(b, s, t, T)
    PROVE  Tells(ParseComplete(b), s, t, T)
<1> DEFINE c == ParseComplete(b)
           g == b.mapping
           stays == {m \in g : m.from = m.to}
           F == {m.from : m \in stays}
           E == {m.to : m \in stays}
           K == g \ stays
           v == ByFrom(K)
           D == b.deletions \ F
           I == b.insertions \ E
           d == [b EXCEPT !.deletions = D, !.insertions = I, !.mapping = K]
<1>1. c = [b EXCEPT !.deletions = D, !.insertions = I, !.moves = v, !.mapping = {}]
  BY Zenon DEF ParseComplete
<1>2. g \in SUBSET AMove /\ IsFiniteSet(g) /\ \A m, n \in g : m.from = n.from \/ m.to = n.to => m = n
  BY MappingLaw
<1>3. /\ b \in ChangeSet /\ b.moves = <<>>
      /\ b.insertions \subseteq IndicesOf(t) /\ b.modifications \subseteq IndicesOf(t)
      /\ IndicesOf(s) \ b.deletions = IndicesOf(t) \ b.insertions
      /\ \A i \in IndicesOf(t) \ b.insertions : At(s, i) = At(t, i)
      /\ \A m \in g : m.from \in b.deletions \cap IndicesOf(s) /\ m.to \in b.insertions /\ At(s, m.from) = At(t, m.to)
      /\ \A i \in IndicesOf(t) :
            i \notin b.insertions \/ (\E m \in g : m.to = i) => (i \in b.modifications <=> At(t, i) \in T)
  BY DEF TableTells
<1> HIDE DEF g
<1>4. E = F
  BY DEF stays
<1>5. \A i : i \in F <=> \E m \in g : m.from = i /\ m.to = i
  BY DEF stays
<1>6. \A m \in K : m \in g /\ m.from \notin F /\ m.to \notin F
  BY <1>2, <1>5 DEF stays
<1>7. K \in SUBSET AMove /\ IsFiniteSet(K) /\ FromEach(K)
  <2>1. K \in SUBSET g
    OBVIOUS
  <2> HIDE DEF K
  <2>2. IsFiniteSet(K)
    BY <1>2, <2>1, FS_Subset
  <2>3. QED BY <1>2, <2>1, <2>2 DEF FromEach
<1>8. D \in IndexSet /\ I \in IndexSet
  <2>1. \A S \in IndexSet : \A X : S \ X \in IndexSet
    <3>1. SUFFICES ASSUME NEW S \in IndexSet, NEW X PROVE S \ X \in IndexSet
      OBVIOUS
    <3>2. S \ X \in SUBSET S
      OBVIOUS
    <3>3. QED BY <3>2, FS_Subset DEF IndexSet
  <2>2. b.deletions \in IndexSet /\ b.insertions \in IndexSet
    BY <1>3 DEF ChangeSet
  <2>3. QED BY <2>1, <2>2
<1>9. /\ v \in Seq(AMove)
      /\ \A k \in DOMAIN v : v[k] \in K
      /\ \A k, l \in DOMAIN v : v[k] = v[l] => k = l
  BY <1>7, ByFromLaw
<1>10. /\ c \in ChangeSet /\ c.deletions = D /\ c.insertions = I /\ c.moves = v
       /\ c.modifications = b.modifications
  <2>1. {} \in SUBSET AMove /\ IsFiniteSet({})
    BY FS_EmptySet
  <2> HIDE DEF D, I, v
  <2>2. QED BY <1>1, <1>3, <1>8, <1>9, <2>1 DEF ChangeSet
<1>11. /\ d \in ChangeSet /\ d.deletions = D /\ d.insertions = I /\ d.moves = <<>>
       /\ d.modifications = b.modifications /\ d.mapping = K
  <2> HIDE DEF D, I, K
  <2>1. QED BY <1>3, <1>7, <1>8 DEF ChangeSet
<1> HIDE DEF c, d, v, K
<1>12. /\ F \subseteq b.deletions \cap IndicesOf(s) /\ F \subseteq b.insertions
       /\ I \subseteq IndicesOf(t) /\ IndicesOf(s) \ D = IndicesOf(t) \ I
  <2>1. \A i \in F : i \in b.deletions /\ i \in IndicesOf(s) /\ i \in b.insertions
    BY <1>3, <1>5
  <2> HIDE DEF F
  <2>2. QED BY <1>3, <1>4, <2>1
<1>13. ASSUME NEW i \in IndicesOf(t) \ I PROVE At(s, i) = At(t, i) /\ (i \in b.modifications <=> At(t, i) \in T)
  <2>1. CASE i \notin b.insertions
    BY <1>3, <2>1
  <2>2. CASE i \in b.insertions
    <3>1. i \in F
      BY <1>4, <2>2
    <3>2. PICK m \in g : m.from = i /\ m.to = i
      BY <1>5, <3>1
    <3>3. QED BY <1>3, <3>2
  <2>3. QED BY <2>1, <2>2
<1>14. ASSUME NEW m \in K
       PROVE  /\ m.from \in D \cap IndicesOf(s) /\ m.to \in I /\ At(s, m.from) = At(t, m.to)
              /\ m.to \in b.modifications <=> At(t, m.to) \in T
  <2>1. m \in g /\ m.from \notin F /\ m.to \notin F
    BY <1>6
  <2> HIDE DEF F
  <2>2. m.from \in b.deletions \cap IndicesOf(s) /\ m.to \in b.insertions /\ At(s, m.from) = At(t, m.to)
    BY <1>3, <2>1
  <2>3. m.to \in IndicesOf(t)
    BY <1>3, <2>2
  <2>4. m.to \in b.modifications <=> At(t, m.to) \in T
    BY <1>3, <2>1, <2>3
  <2>5. QED BY <1>4, <2>1, <2>2, <2>4
<1> HIDE DEF F, E, D, I
<1>15. TableTells(d, s, t, T)
  <2>1. \A i \in IndicesOf(t) \ I : At(s, i) = At(t, i)
    BY <1>13
  <2>2. \A m \in K : /\ m.from \in D \cap IndicesOf(s) /\ m.to \in I
                     /\ At(s, m.from) = At(t, m.to)
    BY <1>14
  <2>3. \A i \in IndicesOf(t) : i \notin I \/ (\E m \in K : m.to = i) => (i \in b.modifications <=> At(t, i) \in T)
    BY <1>13, <1>14
  <2>4. I \subseteq IndicesOf(t) /\ b.modifications \subseteq IndicesOf(t) /\ IndicesOf(s) \ D = IndicesOf(t) \ I
    BY <1>3, <1>12
  <2>5. QED BY <1>11, <2>1, <2>2, <2>3, <2>4 DEF TableTells
<1>16. Lined(D, I, s, t)
  BY <1>11, <1>15, TableIsLined
<1>17. OneEach(v)
  <2>1. SUFFICES ASSUME NEW k \in DOMAIN v, NEW l \in DOMAIN v, v[k].from = v[l].from \/ v[k].to = v[l].to PROVE k = l
    BY DEF OneEach
  <2>2. v[k] \in K /\ v[l] \in K
    BY <1>9
  <2>3. v[k] \in g /\ v[l] \in g
    BY <1>6, <2>2
  <2>4. v[k] = v[l]
    BY <1>2, <2>1, <2>3
  <2>5. QED BY <1>9, <2>4
<1>18. MovesAreTold(c, s, t)
  <2>1. ASSUME NEW k \in DOMAIN v
        PROVE  v[k].from \in D \cap IndicesOf(s) /\ v[k].to \in I /\ At(s, v[k].from) = At(t, v[k].to)
    <3>1. v[k] \in K
      BY <1>9
    <3>2. QED BY <1>14, <3>1
  <2>2. QED BY <1>10, <1>17, <2>1 DEF MovesAreTold
<1>19. ModificationsAreTold(c, t, T)
  <2>1. SUFFICES ASSUME NEW i \in IndicesOf(t), i \notin I \/ (\E k \in DOMAIN v : v[k].to = i)
                 PROVE  i \in b.modifications <=> At(t, i) \in T
    BY <1>10 DEF ModificationsAreTold
  <2>2. CASE i \notin I
    BY <1>13, <2>2
  <2>3. ASSUME NEW k \in DOMAIN v, v[k].to = i PROVE i \in b.modifications <=> At(t, i) \in T
    <3>1. v[k] \in K
      BY <1>9
    <3>2. QED BY <1>14, <2>3, <3>1
  <2>4. QED BY <2>1, <2>2, <2>3
<1>20. Tells(c, s, t, T)
  <2>1. I \subseteq IndicesOf(t) /\ b.modifications \subseteq IndicesOf(t)
    BY <1>3, <1>12
  <2>2. QED BY <1>10, <1>16, <1>18, <1>19, <2>1 DEF Tells
<1>21. QED BY <1>20 DEF c

-----------------------------------------------------------------------------
(* The transactions on a table, one after the other                        *)

\* The change sets of q are those of transactions that have made ms[k + 1] of
\* ms[k], in which the rows of Ts[k] were modified.
Chain(q, ms, Ts) ==
    /\ \A k \in 1 .. Len(q) + 1 : ms[k] \in Seq(Nat)
    /\ \A k \in 1 .. Len(q) : Tells(q[k], ms[k], ms[k + 1], Ts[k])

\* The rows that were modified in any of n of them.
AllOf(Ts, n) == UNION {Ts[k] : k \in 1 .. n}

\* There are such transactions, from s to t, and the rows of T were modified.
Chained(q, s, t, T) ==
    /\ q \in Seq(ChangeSet)
    /\ \E ms, Ts : /\ Chain(q, ms, Ts)
                   /\ ms[1] = s /\ ms[Len(q) + 1] = t
                   /\ T = AllOf(Ts, Len(q))

\* Before the first transaction.
LEMMA ChainedNone == ASSUME NEW s \in Seq(Nat) PROVE Chained(<<>>, s, s, {})
<1> DEFINE q == <<>>
           ms == [k \in {1} |-> s]
           Ts == [k \in {} |-> {}]
<1>1. q \in Seq(ChangeSet) /\ Len(q) = 0 /\ 1 .. Len(q) = {} /\ 1 .. Len(q) + 1 = {1}
  OBVIOUS
<1>2. ms[1] = s /\ \A k \in {1} : ms[k] \in Seq(Nat)
  OBVIOUS
<1>3. {} = AllOf(Ts, 0)
  BY <1>1 DEF AllOf
<1> HIDE DEF q, ms, Ts
<1>4. Chain(q, ms, Ts)
  BY <1>1, <1>2 DEF Chain
<1>5. ms[Len(q) + 1] = s
  BY <1>1, <1>2
<1>6. {} = AllOf(Ts, Len(q))
  BY <1>1, <1>3
<1>7. Chained(q, s, s, {})
  BY <1>1, <1>2, <1>4, <1>5, <1>6 DEF Chained
<1>8. QED BY <1>7 DEF q

\* One more transaction.
LEMMA ChainedMore ==
    ASSUME NEW q, NEW s, NEW m, NEW T, Chained(q, s, m, T),
           NEW t \in Seq(Nat), NEW U, NEW b, Tells(b, m, t, U)
    PROVE  Chained(Append(q, b), s, t, T \cup U)
<1> DEFINE n == Len(q)
           r == Append(q, b)
<1>1. PICK ms, Ts : /\ Chain(q, ms, Ts)
                    /\ ms[1] = s /\ ms[n + 1] = m
                    /\ T = AllOf(Ts, n)
  BY DEF Chained
<1>2. q \in Seq(ChangeSet) /\ b \in ChangeSet
  BY DEF Chained, Tells
<1>3. /\ n \in Nat /\ r \in Seq(ChangeSet) /\ Len(r) = n + 1 /\ r[n + 1] = b
      /\ \A k \in 1 .. n : r[k] = q[k]
  BY <1>2
<1> DEFINE ns == [k \in 1 .. n + 2 |-> IF k = n + 2 THEN t ELSE ms[k]]
           Us == [k \in 1 .. n + 1 |-> IF k = n + 1 THEN U ELSE Ts[k]]
<1> HIDE DEF r, n
<1>4. \A k \in 1 .. n + 1 : ns[k] = ms[k] /\ k \in 1 .. n + 2
  BY <1>3
<1>5. ns[n + 2] = t /\ Us[n + 1] = U
  BY <1>3
<1>6. \A k \in 1 .. n : Us[k] = Ts[k]
  BY <1>3
<1> HIDE DEF ns, Us
<1>7. /\ \A k \in 1 .. n + 1 : ms[k] \in Seq(Nat)
      /\ \A k \in 1 .. n : Tells(q[k], ms[k], ms[k + 1], Ts[k])
  BY <1>1 DEF Chain, n
<1>8. Chain(r, ns, Us)
  <2>1. \A k \in 1 .. n + 2 : k \in 1 .. n + 1 \/ k = n + 2
    BY <1>3
  <2>2. \A k \in 1 .. n + 2 : ns[k] \in Seq(Nat)
    BY <1>4, <1>5, <1>7, <2>1
  <2>3. ASSUME NEW k \in 1 .. n PROVE Tells(r[k], ns[k], ns[k + 1], Us[k])
    <3>1. k \in 1 .. n + 1 /\ k + 1 \in 1 .. n + 1
      BY <1>3
    <3>2. r[k] = q[k] /\ ns[k] = ms[k] /\ ns[k + 1] = ms[k + 1] /\ Us[k] = Ts[k]
      BY <1>3, <1>4, <1>6, <3>1
    <3>3. QED BY <1>7, <3>2
  <2>4. Tells(r[n + 1], ns[n + 1], ns[n + 1 + 1], Us[n + 1])
    <3>1. n + 1 \in 1 .. n + 1 /\ n + 1 + 1 = n + 2
      BY <1>3
    <3>2. r[n + 1] = b /\ ns[n + 1] = m /\ ns[n + 1 + 1] = t /\ Us[n + 1] = U
      BY <1>1, <1>3, <1>4, <1>5, <3>1 DEF n
    <3>3. QED BY <3>2
  <2>5. \A k \in 1 .. n + 1 : k \in 1 .. n \/ k = n + 1
    BY <1>3
  <2>6. \A k \in 1 .. n + 1 : Tells(r[k], ns[k], ns[k + 1], Us[k])
    BY <2>3, <2>4, <2>5
  <2>7. Len(r) = n + 1 /\ Len(r) + 1 = n + 2
    BY <1>3
  <2>8. QED BY <2>2, <2>6, <2>7 DEF Chain
<1>9. ns[1] = s /\ ns[Len(r) + 1] = t
  <2>1. 1 \in 1 .. n + 1 /\ Len(r) + 1 = n + 2
    BY <1>3
  <2>2. QED BY <1>1, <1>4, <1>5, <2>1
<1>10. T \cup U = AllOf(Us, Len(r))
  <2>1. \A k \in 1 .. n + 1 : k \in 1 .. n \/ k = n + 1
    BY <1>3
  <2>2. n + 1 \in 1 .. n + 1 /\ \A k \in 1 .. n : k \in 1 .. n + 1
    BY <1>3
  <2>3. \A x : x \in AllOf(Us, n + 1) <=> x \in U \/ \E k \in 1 .. n : x \in Ts[k]
    BY <1>5, <1>6, <2>1, <2>2, Zenon DEF AllOf
  <2>4. \A x : x \in T <=> \E k \in 1 .. n : x \in Ts[k]
    BY <1>1, Zenon DEF n, AllOf
  <2>5. \A x : x \in T \cup U <=> x \in AllOf(Us, n + 1)
    BY <2>3, <2>4, Zenon
  <2>6. Len(r) = n + 1
    BY <1>3
  <2>7. T \cup U = AllOf(Us, n + 1)
    BY <2>5, Zenon
  <2>8. QED BY <2>6, <2>7
<1>11. Chained(r, s, t, T \cup U)
  BY <1>3, <1>8, <1>9, <1>10 DEF Chained
<1>12. QED BY <1>11 DEF r

\* Merging the change sets, from the last one on, tells of all of them.
LEMMA ChainedTells ==
    ASSUME NEW q, NEW s, NEW t, NEW T, Chained(q, s, t, T)
    PROVE  Tells(FoldRight(MergeSets, q, Empty), s, t, T)
<1> DEFINE n == Len(q)
<1>1. PICK ms, Ts : /\ Chain(q, ms, Ts)
                    /\ ms[1] = s /\ ms[n + 1] = t
                    /\ T = AllOf(Ts, n)
  BY DEF Chained
<1>2. n \in Nat /\ DOMAIN q = 1 .. n
  BY DEF Chained
<1>3. PICK g : /\ g[n + 1] = Empty
               /\ \A k \in 1 .. n : g[k] = MergeSets(q[k], g[k + 1])
               /\ FoldRight(MergeSets, q, Empty) = g[1]
  BY <1>2, MergeSteps
<1>4. /\ \A k \in 1 .. n + 1 : ms[k] \in Seq(Nat)
      /\ \A k \in 1 .. n : Tells(q[k], ms[k], ms[k + 1], Ts[k])
  BY <1>1 DEF Chain
<1> DEFINE Rest(k) == UNION {Ts[j] : j \in k .. n}
           P == {k \in Nat : k <= n => Tells(g[n + 1 - k], ms[n + 1 - k], t, Rest(n + 1 - k))}
<1> HIDE DEF n
<1>5. 0 \in P
  <2>1. n + 1 - 0 = n + 1 /\ n + 1 .. n = {} /\ n + 1 \in 1 .. n + 1
    BY <1>2
  <2>2. Rest(n + 1) = {}
    BY <2>1
  <2>3. t \in Seq(Nat)
    BY <1>1, <1>4, <2>1 DEF n
  <2>4. Tells(Empty, t, t, {})
    BY <2>3, EmptyTells
  <2> HIDE DEF Rest
  <2>5. g[n + 1] = Empty /\ ms[n + 1] = t
    BY <1>1, <1>3 DEF n
  <2>6. Tells(g[n + 1 - 0], ms[n + 1 - 0], t, Rest(n + 1 - 0))
    BY <2>1, <2>2, <2>4, <2>5
  <2>7. QED BY <2>6
<1>6. ASSUME NEW k \in Nat, k \in P PROVE k + 1 \in P
  <2> DEFINE i == n - k
  <2>1. SUFFICES ASSUME k + 1 <= n PROVE Tells(g[n + 1 - (k + 1)], ms[n + 1 - (k + 1)], t, Rest(n + 1 - (k + 1)))
    OBVIOUS
  <2>2. n + 1 - (k + 1) = i /\ n + 1 - k = i + 1 /\ i \in 1 .. n /\ i \in 1 .. n + 1 /\ i + 1 \in 1 .. n + 1 /\ k <= n
    BY <1>2, <2>1
  <2>3. Tells(g[i + 1], ms[i + 1], t, Rest(i + 1))
    <3>1. Tells(g[n + 1 - k], ms[n + 1 - k], t, Rest(n + 1 - k))
      BY <1>6, <2>2
    <3> HIDE DEF i, P, Rest
    <3>2. QED BY <2>2, <3>1
  <2>4. Rest(i) = Ts[i] \cup Rest(i + 1)
    <3> HIDE DEF i
    <3>1. i \in i .. n /\ \A j \in i .. n : j = i \/ j \in i + 1 .. n
      BY <1>2, <2>2
    <3>2. \A j \in i + 1 .. n : j \in i .. n
      BY <1>2, <2>2
    <3>3. \A x : x \in Rest(i) <=> x \in Ts[i] \/ x \in Rest(i + 1)
      BY <3>1, <3>2, Zenon
    <3> HIDE DEF Rest
    <3>4. QED BY <3>3, Zenon
  <2> HIDE DEF i, P, Rest
  <2>5. g[i] = MergeSets(q[i], g[i + 1]) /\ Tells(q[i], ms[i], ms[i + 1], Ts[i])
    BY <1>3, <1>4, <2>2 DEF n
  <2>6. ms[i] \in Seq(Nat) /\ ms[i + 1] \in Seq(Nat) /\ t \in Seq(Nat)
    <3>1. n + 1 \in 1 .. n + 1
      BY <1>2
    <3>2. QED BY <1>1, <1>4, <2>2, <3>1 DEF n
  <2>7. Tells(MergeSets(q[i], g[i + 1]), ms[i], t, Ts[i] \cup Rest(i + 1))
    BY <2>3, <2>5, <2>6, MergeSetsTells
  <2>8. Tells(g[i], ms[i], t, Rest(i))
    BY <2>4, <2>5, <2>7
  <2>9. QED BY <2>2, <2>8
<1>7. Nat \subseteq P
  <2> HIDE DEF P
  <2>1. QED BY <1>5, <1>6, Induction
<1>8. Tells(g[n + 1 - n], ms[n + 1 - n], t, Rest(n + 1 - n))
  <2>1. n \in P
    <3> HIDE DEF P
    <3>1. QED BY <1>2, <1>7
  <2>2. n <= n
    BY <1>2
  <2>3. QED BY <2>1, <2>2, Zenon
<1>9. n + 1 - n = 1
  BY <1>2
<1>10. Rest(1) = T
  BY <1>1 DEF n, AllOf
<1> HIDE DEF Rest, P
<1>11. Tells(g[1], ms[1], t, T)
  BY <1>8, <1>9, <1>10
<1>12. QED BY <1>1, <1>3, <1>11

-----------------------------------------------------------------------------
(* The table                                                               *)

\* What the change sets of a table say is true: that of this transaction while
\* it is parsed and after, and those of the transactions before one by one.
TableInv ==
    kind = "table" =>
       /\ old \in Seq(Nat) /\ mid \in Seq(Nat) /\ list \in Seq(Nat)
       /\ touched \in IndexSet /\ before \in IndexSet
       /\ Distinct(mid) /\ Distinct(list)
       /\ Len(mid) <= MaxSize /\ Len(list) <= MaxSize
       /\ Chained(sets, old, mid, before)
       /\ stage = "parsing" => TableTells(builder, mid, list, touched)
       /\ stage = "parsed" => Tells(builder, mid, list, touched)
       /\ stage = "merged" => mid = list /\ builder = Empty /\ touched = {}

\* A transaction starts with a change set that tells of nothing.
LEMMA TableInit == Init => TableInv
<1> SUFFICES ASSUME Init, kind = "table" PROVE TableInv
  BY DEF TableInv
<1>1. InitialSize \in Nat /\ InitialSize <= MaxSize
  BY ChangeSetsAssumption
<1>2. old = [i \in 1 .. InitialSize |-> i] /\ mid = old /\ list = old
  BY DEF Init
<1>3. builder = Empty /\ sets = <<>> /\ stage = "parsing" /\ touched = {} /\ before = {}
  BY DEF Init
<1>4. old \in Seq(Nat) /\ Len(old) = InitialSize /\ \A i \in 1 .. InitialSize : old[i] = i
  BY <1>1, <1>2
<1>5. Distinct(old)
  BY <1>1, <1>4 DEF Distinct, IndicesOf, At
<1>6. {} \in IndexSet
  BY NothingShifts
<1>7. TableTells(Empty, old, old, {}) /\ Chained(<<>>, old, old, {})
  BY <1>4, NothingTells, ChainedNone
<1>8. stage # "parsed" /\ stage # "merged" /\ Len(old) <= MaxSize
  BY <1>1, <1>3, <1>4
<1>9. QED BY <1>2, <1>3, <1>4, <1>5, <1>6, <1>7, <1>8, Zenon DEF TableInv

\* What holds while an instruction of a table is parsed.
ParsingTable ==
    /\ kind = "table" /\ stage = "parsing"
    /\ old \in Seq(Nat) /\ mid \in Seq(Nat) /\ list \in Seq(Nat)
    /\ touched \in IndexSet /\ before \in IndexSet
    /\ Distinct(list) /\ Len(mid) <= MaxSize /\ Len(list) <= MaxSize
    /\ TableTells(builder, mid, list, touched)

LEMMA ParsingTableLaw == ASSUME TableInv, Parse("table") PROVE ParsingTable
BY Zenon DEF TableInv, Parse, ParsingTable

\* What an instruction of a table leaves of the invariant when the change set
\* of its transaction goes on telling of it.
LEMMA TableInstructionStep ==
    ASSUME TableInv, kind = "table", stage = "parsing", NEW s, NEW b, Instruction(s, b),
           s \in Seq(Nat), Distinct(s), Len(s) <= MaxSize, touched' \in IndexSet,
           TableTells(b, mid, s, touched')
    PROVE  TableInv'
<1>1. /\ list' = s /\ builder' = b
      /\ old' = old /\ mid' = mid /\ sets' = sets /\ stage' = stage /\ before' = before /\ kind' = kind
  BY DEF Instruction
<1>2. /\ old \in Seq(Nat) /\ mid \in Seq(Nat) /\ before \in IndexSet
      /\ Distinct(mid) /\ Len(mid) <= MaxSize /\ Chained(sets, old, mid, before)
  BY Zenon DEF TableInv
<1>3. stage' # "parsed" /\ stage' # "merged"
  BY <1>1
<1>4. QED BY <1>1, <1>2, <1>3, Zenon DEF TableInv

\* The instructions of a table, one by one.
LEMMA MarkDirtyStep == ASSUME TableInv, NEW i, MarkDirty(i) PROVE TableInv'
<1>1. ParsingTable
  BY ParsingTableLaw DEF MarkDirty
<1>2. i \in IndicesOf(list) /\ touched' = touched \cup {At(list, i)} /\ Instruction(list, Modify(builder, i))
  BY DEF MarkDirty, Indices, Size, IndicesOf
<1>3. touched' \in IndexSet
  BY <1>1, <1>2, TouchedMore DEF ParsingTable
<1>4. TableTells(Modify(builder, i), mid, list, touched')
  BY <1>1, <1>2, MarkDirtyTells DEF ParsingTable
<1>5. QED BY <1>1, <1>2, <1>3, <1>4, TableInstructionStep DEF ParsingTable

\* New rows are the last.
LEMMA InsertEmptyRowsStep == ASSUME TableInv, InsertEmptyRows PROVE TableInv'
<1> DEFINE e == Fresh
           s == Append(list, e)
<1>1. ParsingTable
  BY ParsingTableLaw DEF InsertEmptyRows
<1>2. touched' = touched /\ Instruction(s, Insert(builder, Len(list))) /\ Len(list) < MaxSize
  BY DEF InsertEmptyRows, Size
<1>3. e \in Nat /\ e \notin ToSet(list)
  BY <1>1, FreshIsFresh DEF ParsingTable
<1> HIDE DEF e
<1>4. \A j \in IndicesOf(list) : At(list, j) # e
  <2>1. \A j \in IndicesOf(list) : At(list, j) \in ToSet(list)
    BY <1>1 DEF ParsingTable, IndicesOf, At, ToSet
  <2>2. QED BY <1>3, <2>1
<1>5. s \in Seq(Nat) /\ Distinct(s) /\ Len(s) = Len(list) + 1
  BY <1>1, <1>3, <1>4, DistinctAppend DEF ParsingTable
<1>6. TableTells(Insert(builder, Len(list)), mid, s, touched')
  BY <1>1, <1>2, <1>3, InsertEmptyRowsTells DEF ParsingTable
<1>7. Len(s) <= MaxSize
  BY <1>1, <1>2, <1>5, ChangeSetsAssumption DEF ParsingTable
<1> HIDE DEF s
<1>8. QED BY <1>1, <1>2, <1>5, <1>6, <1>7, TableInstructionStep DEF ParsingTable

\* The last row is moved over the one that is erased.
LEMMA EraseRowsStep == ASSUME TableInv, NEW i, EraseRows(i) PROVE TableInv'
<1> DEFINE s == OverWithLast(list, i)
           b == MoveLastOver(builder, i, Len(list) - 1)
<1>1. ParsingTable
  BY ParsingTableLaw DEF EraseRows
<1>2. i \in IndicesOf(list) /\ touched' = touched /\ Instruction(s, b)
  BY DEF EraseRows, Indices, Size, IndicesOf
<1>3. s \in Seq(Nat) /\ Distinct(s) /\ Len(s) = Len(list) - 1
  BY <1>1, <1>2, DistinctOver DEF ParsingTable
<1>4. TableTells(b, mid, s, touched')
  BY <1>1, <1>2, EraseRowsTells DEF ParsingTable
<1>5. Len(s) <= MaxSize
  BY <1>1, <1>3, ChangeSetsAssumption DEF ParsingTable
<1> HIDE DEF s, b
<1>6. QED BY <1>1, <1>2, <1>3, <1>4, <1>5, TableInstructionStep DEF ParsingTable

\* Two rows change places.
LEMMA SwapRowsStep == ASSUME TableInv, NEW i, NEW j, SwapRows(i, j) PROVE TableInv'
<1> DEFINE s == SwappedRows(list, i, j)
           b == Swap(builder, i, j)
<1>1. ParsingTable
  BY ParsingTableLaw DEF SwapRows
<1>2. i \in IndicesOf(list) /\ j \in IndicesOf(list) /\ i # j /\ touched' = touched
  BY DEF SwapRows, Indices, Size, IndicesOf
<1>3. Instruction(s, b)
  BY DEF SwapRows, SwappedRows
<1>4. s \in Seq(Nat) /\ Distinct(s) /\ Len(s) = Len(list)
  BY <1>1, <1>2, DistinctSwapped DEF ParsingTable
<1>5. TableTells(b, mid, s, touched')
  BY <1>1, <1>2, SwapRowsTells DEF ParsingTable
<1>6. Len(s) <= MaxSize
  BY <1>1, <1>4 DEF ParsingTable
<1> HIDE DEF s, b
<1>7. QED BY <1>1, <1>2, <1>3, <1>4, <1>5, <1>6, TableInstructionStep DEF ParsingTable

\* A row goes on as a new one, which is then moved over it: the rows are the
\* same.
LEMMA MergeRowsStep == ASSUME TableInv, NEW i, MergeRows(i) PROVE TableInv'
<1> DEFINE b == MoveLastOver(Subsume(Insert(builder, Len(list)), i, Len(list)), i, Len(list))
<1>1. ParsingTable
  BY ParsingTableLaw DEF MergeRows
<1>2. i \in IndicesOf(list) /\ touched' = touched
  BY DEF MergeRows, Indices, Size, IndicesOf
<1>3. Instruction(list, b)
  BY DEF MergeRows, Size
<1>4. TableTells(b, mid, list, touched')
  BY <1>1, <1>2, MergeRowsTells DEF ParsingTable
<1> HIDE DEF b
<1>5. QED BY <1>1, <1>2, <1>3, <1>4, TableInstructionStep DEF ParsingTable

\* All rows are taken out, however many there were.
LEMMA ClearTableStep == ASSUME TableInv, ClearTable PROVE TableInv'
<1> DEFINE b == Deleting(0 .. MaxSize - 1)
<1>1. ParsingTable
  BY ParsingTableLaw DEF ClearTable
<1>2. touched' = touched /\ Instruction(<<>>, b)
  BY DEF ClearTable
<1>3. <<>> \in Seq(Nat) /\ Distinct(<<>>)
  BY DEF Distinct, IndicesOf
<1>4. MaxSize \in Nat /\ Len(<<>>) <= MaxSize
  BY ChangeSetsAssumption
<1>5. TableTells(b, mid, <<>>, touched')
  BY <1>1, <1>2, <1>4, ClearTableTells DEF ParsingTable
<1> HIDE DEF b
<1>6. QED BY <1>1, <1>2, <1>3, <1>4, <1>5, TableInstructionStep DEF ParsingTable

\* At the end of a transaction the mapping becomes the moves.
LEMMA TableCompleteStep == ASSUME TableInv, CompleteParse PROVE TableInv'
<1> SUFFICES ASSUME kind = "table" PROVE TableInv'
  BY DEF TableInv, CompleteParse
<1> DEFINE b == ParseComplete(builder)
<1>1. /\ old' = old /\ mid' = mid /\ list' = list /\ sets' = sets /\ touched' = touched /\ before' = before
      /\ stage' # "merged" /\ stage' # "parsing" /\ builder' = b
  BY DEF CompleteParse
<1>2. /\ old \in Seq(Nat) /\ mid \in Seq(Nat) /\ list \in Seq(Nat) /\ touched \in IndexSet /\ before \in IndexSet
      /\ Distinct(mid) /\ Distinct(list) /\ Len(mid) <= MaxSize /\ Len(list) <= MaxSize
      /\ Chained(sets, old, mid, before)
  BY Zenon DEF TableInv
<1>3. TableTells(builder, mid, list, touched)
  BY Zenon DEF TableInv, CompleteParse
<1>4. Tells(b, mid, list, touched)
  BY <1>2, <1>3, ParseCompleteTells
<1> HIDE DEF b
<1>5. QED BY <1>1, <1>2, <1>4, Zenon DEF TableInv

\* Then its change set is one more of those of the transactions.
LEMMA TableMergeStep == ASSUME TableInv, Merge PROVE TableInv'
<1> SUFFICES ASSUME kind = "table" PROVE TableInv'
  BY DEF TableInv, Merge
<1> DEFINE q == Append(sets, builder)
           T == before \cup touched
<1>1. /\ old' = old /\ mid' = list /\ list' = list /\ sets' = q /\ touched' = {} /\ before' = T
      /\ builder' = Empty /\ stage' # "parsing" /\ stage' # "parsed"
  BY DEF Merge
<1>2. /\ old \in Seq(Nat) /\ list \in Seq(Nat) /\ touched \in IndexSet /\ before \in IndexSet
      /\ Distinct(list) /\ Len(list) <= MaxSize
      /\ Chained(sets, old, mid, before)
  BY Zenon DEF TableInv
<1>3. Tells(builder, mid, list, touched)
  BY Zenon DEF TableInv, Merge
<1>4. T \in IndexSet /\ {} \in IndexSet
  BY <1>2, NothingShifts, FS_Union DEF IndexSet
<1>5. Chained(q, old, list, T)
  BY <1>2, <1>3, ChainedMore
<1> HIDE DEF q, T
<1>6. QED BY <1>1, <1>2, <1>4, <1>5, Zenon DEF TableInv

\* The next one starts where this one has ended.
LEMMA TableNextStep == ASSUME TableInv, NextTransaction PROVE TableInv'
<1> SUFFICES ASSUME kind = "table" PROVE TableInv'
  BY DEF TableInv, NextTransaction
<1>1. /\ old' = old /\ mid' = mid /\ list' = list /\ sets' = sets /\ touched' = touched /\ before' = before
      /\ builder' = builder /\ stage' # "parsed" /\ stage' # "merged" /\ stage = "merged"
  BY DEF NextTransaction
<1>2. /\ old \in Seq(Nat) /\ mid \in Seq(Nat) /\ list \in Seq(Nat) /\ touched \in IndexSet /\ before \in IndexSet
      /\ Distinct(mid) /\ Distinct(list) /\ Len(mid) <= MaxSize /\ Len(list) <= MaxSize
      /\ Chained(sets, old, mid, before)
  BY Zenon DEF TableInv
<1>3. mid = list /\ builder = Empty /\ touched = {}
  BY <1>1, Zenon DEF TableInv
<1>4. TableTells(builder, mid, list, touched)
  BY <1>2, <1>3, NothingTells
<1>5. QED BY <1>1, <1>2, <1>4, Zenon DEF TableInv

\* What the change sets of a table tell is true after every step.
LEMMA TableStep == TableInv /\ [Next]_vars => TableInv'
<1> SUFFICES ASSUME TableInv, [Next]_vars PROVE TableInv'
  OBVIOUS
<1>1. ASSUME NEW i, MarkDirty(i) PROVE TableInv'
  BY <1>1, MarkDirtyStep
<1>2. ASSUME NEW i, EraseRows(i) PROVE TableInv'
  BY <1>2, EraseRowsStep
<1>3. ASSUME NEW i, MergeRows(i) PROVE TableInv'
  BY <1>3, MergeRowsStep
<1>4. ASSUME NEW i, NEW j, SwapRows(i, j) PROVE TableInv'
  BY <1>4, SwapRowsStep
<1>5. CASE InsertEmptyRows
  BY <1>5, InsertEmptyRowsStep
<1>6. CASE ClearTable
  BY <1>6, ClearTableStep
<1>7. ASSUME kind # "table", kind' = kind PROVE TableInv'
  BY <1>7, Zenon DEF TableInv
<1>8. ASSUME NEW i, NEW j, \/ LinkListSet(i) \/ LinkListInsert(i) \/ LinkListErase(i)
                           \/ LinkListSwap(i, j) \/ LinkListMove(i, j) \/ LinkListClear
      PROVE TableInv'
  <2>1. kind = "list" /\ kind' = kind
    BY <1>8 DEF LinkListSet, LinkListInsert, LinkListErase, LinkListSwap, LinkListMove, LinkListClear, Parse, Instruction
  <2>2. QED BY <1>7, <2>1
<1>9. CASE CompleteParse
  BY <1>9, TableCompleteStep
<1>10. CASE Merge
  BY <1>10, TableMergeStep
<1>11. CASE NextTransaction
  BY <1>11, TableNextStep
<1>12. CASE UNCHANGED vars
  <2>1. UNCHANGED <<kind, old, mid, list, builder, sets, touched, before, stage>>
    BY <1>12 DEF vars
  <2>2. QED BY <2>1 DEF TableInv
<1>13. QED BY <1>1, <1>2, <1>3, <1>4, <1>5, <1>6, <1>8, <1>9, <1>10, <1>11, <1>12, Zenon DEF Next

\* So it is of each transaction, and of any number of them merged.
LEMMA TableIsRight ==
    TableInv => (kind = "table" => DescribesTheChange /\ ModificationsAreExact /\ MovesAreMoves)
<1> SUFFICES ASSUME TableInv, kind = "table" PROVE DescribesTheChange /\ ModificationsAreExact /\ MovesAreMoves
  OBVIOUS
<1>1. old \in Seq(Nat) /\ mid \in Seq(Nat) /\ list \in Seq(Nat) /\ Chained(sets, old, mid, before)
  BY Zenon DEF TableInv
<1>2. ASSUME stage = "parsed"
      PROVE  Describes(builder, mid, list) /\ Marks(builder, mid, list, touched) /\ MovesHold(builder, mid, list)
  <2>1. Tells(builder, mid, list, touched)
    BY <1>2, Zenon DEF TableInv
  <2>2. QED BY <1>1, <2>1, ToldIsRight
<1>3. Describes(merged, old, mid) /\ Marks(merged, old, mid, before) /\ MovesHold(merged, old, mid)
  <2> DEFINE m == merged
  <2>1. m = FoldRight(MergeSets, sets, Empty)
    BY Zenon DEF merged
  <2>2. Tells(FoldRight(MergeSets, sets, Empty), old, mid, before)
    BY <1>1, ChainedTells
  <2> HIDE DEF m
  <2>3. Tells(m, old, mid, before)
    BY <2>1, <2>2
  <2>4. Describes(m, old, mid) /\ Marks(m, old, mid, before) /\ MovesHold(m, old, mid)
    BY <1>1, <2>3, ToldIsRight
  <2>5. QED BY <2>4, Zenon DEF m
<1>4. stage = "merged" => mid = list
  BY Zenon DEF TableInv
<1>5. DescribesTheChange
  BY <1>2, <1>3, <1>4, Zenon DEF DescribesTheChange
<1>6. ModificationsAreExact
  BY <1>2, <1>3, <1>4, Zenon DEF ModificationsAreExact
<1>7. MovesAreMoves
  BY <1>2, <1>3, <1>4, Zenon DEF MovesAreMoves
<1>8. QED BY <1>5, <1>6, <1>7

-----------------------------------------------------------------------------
(* The collection, of either kind                                          *)

CollectionInv == kind \in {"list", "table"} /\ ListInv /\ TableInv

\* The change sets of a collection tell truly of it in every state.
THEOREM CollectionInvariance == Spec => []CollectionInv
<1>1. Init => CollectionInv
  BY ListInit, TableInit DEF CollectionInv, Init
<1>2. CollectionInv /\ [Next]_vars => CollectionInv'
  <2>1. [Next]_vars => kind' = kind
    BY DEF Next, vars, LinkListSet, LinkListInsert, LinkListErase, LinkListSwap, LinkListMove, LinkListClear,
           MarkDirty, EraseRows, MergeRows, SwapRows, InsertEmptyRows, ClearTable, Instruction,
           CompleteParse, Merge, NextTransaction
  <2>2. QED BY <2>1, ListStep, TableStep DEF CollectionInv
<1>3. QED BY <1>1, <1>2, PTL DEF Spec

LEMMA CollectionIsRight == CollectionInv => DescribesTheChange /\ ModificationsAreExact /\ MovesAreMoves
BY ListIsRight, TableIsRight DEF CollectionInv

\* What observers of a list or a table are told of a transaction, and of any
\* number of them merged, makes the rows they show the rows of now.
THEOREM ChangesAreDescribed == Spec => []DescribesTheChange
BY CollectionInvariance, CollectionIsRight, PTL

\* The rows that have stayed are marked as modified exactly if they were.
THEOREM ModificationsAreAlwaysExact == Spec => []ModificationsAreExact
BY CollectionInvariance, CollectionIsRight, PTL

\* What is told as a move is the move of one row.
THEOREM MovesAreAlwaysMoves == Spec => []MovesAreMoves
BY CollectionInvariance, CollectionIsRight, PTL
=============================================================================
