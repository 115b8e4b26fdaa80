--------------------------- MODULE QueryChangesProofs ---------------------------
(***************************************************************************)
(* What the results of a query are told is right (QueryChanges), whatever  *)
(* rows match it.  That the change set of the table Tells is that of       *)
(* ChangeSetsProofs.  From it, each row of before is found where it is now *)
(* (NowAtLaw); what calculate keeps is Matched, row for row and in order;  *)
(* and TellsWhen leads back from the indices of the rows to the rows.      *)
(***************************************************************************)
EXTENDS QueryChanges, ChangeSetsProofs

-----------------------------------------------------------------------------
(* Folds of which only one thing is to be known                            *)

\* The last of some of the first indices.
LEMMA LastOfSome == ASSUME NEW n \in Nat, NEW T \in SUBSET (1 .. n), T # {} PROVE Max(T) \in 1 .. n
<1>1. IsFiniteSet(1 .. n)
  BY FS_Interval
<1>2. T \in IndexSet
  <2>1. IsFiniteSet(T)
    BY <1>1, FS_Subset
  <2>2. QED BY <2>1 DEF IndexSet
<1>3. Max(T) \in T
  BY <1>2, GreatestOf
<1>4. QED BY <1>3

\* What every step keeps within R ends in R.
LEMMA FoldStays ==
    ASSUME NEW n \in Nat, NEW R, NEW H, H[{}] \in R,
           \A T \in SUBSET (1 .. n) : T # {} /\ H[T \ {Max(T)}] \in R => H[T] \in R
    PROVE  H[1 .. n] \in R
<1> DEFINE P == {k \in Nat : k <= n => H[1 .. k] \in R}
<1>1. 0 \in P
  BY FirstIndices
<1>2. ASSUME NEW k \in Nat, k \in P PROVE k + 1 \in P
  <2>1. 1 .. k + 1 # {} /\ (1 .. k + 1) \ {Max(1 .. k + 1)} = 1 .. k
    BY FirstIndices
  <2>2. k + 1 <= n => k <= n /\ 1 .. k + 1 \in SUBSET (1 .. n)
    OBVIOUS
  <2>3. k + 1 <= n => H[1 .. k] \in R
    BY <1>2, <2>2
  <2>4. k + 1 <= n => H[1 .. k + 1] \in R
    BY <2>1, <2>2, <2>3
  <2>5. QED BY <2>4
<1> HIDE DEF P
<1>3. n \in P
  BY <1>1, <1>2, Induction
<1>4. QED BY <1>3 DEF P

-----------------------------------------------------------------------------
(* Where rows of a table are after a transaction                           *)

\* The fold of LowerBound is on a place and a number of moves.
LEMMA LowerBoundType == ASSUME NEW moves \in Seq(AMove), NEW row \in Nat PROVE LowerBound(moves, row) \in Nat
<1> DEFINE n == Len(moves)
           R == [lo : Nat, n : Nat]
           base == [lo |-> 0, n |-> n]
           Halve(r) == LET half == r.n \div 2
                       IN  IF r.n = 0 THEN r
                           ELSE IF moves[r.lo + half + 1].from < row
                           THEN [lo |-> r.lo + half + 1, n |-> r.n - half - 1]
                           ELSE [lo |-> r.lo, n |-> half]
           F == [k \in 1 .. n |-> [r \in R |-> Halve(r)]]
           IsFold(h) == h = [T \in SUBSET DOMAIN moves |->
                               IF T = {} THEN base ELSE Halve(h[T \ {Max(T)}])]
           H == CHOOSE h : IsFold(h)
<1>1. n \in Nat /\ DOMAIN moves = 1 .. n /\ base \in R
  OBVIOUS
<1>2. LowerBound(moves, row) = H[DOMAIN moves].lo
  BY Zenon DEF LowerBound, FoldLeft, MapThenFoldSet
<1>3. ASSUME NEW r \in R PROVE Halve(r) \in R
  <2> DEFINE half == r.n \div 2
  <2>1. r.lo \in Nat /\ r.n \in Nat /\ half \in Nat /\ half <= r.n /\ (r.n # 0 => half < r.n)
    OBVIOUS
  <2> HIDE DEF half
  <2>2. r.n # 0 => [lo |-> r.lo + half + 1, n |-> r.n - half - 1] \in R /\ [lo |-> r.lo, n |-> half] \in R
    BY <2>1
  <2>3. QED BY <2>2 DEF half
<1> HIDE DEF R, Halve, base, n
<1>4. PICK h \in [SUBSET (1 .. n) -> R] :
         \A T \in SUBSET (1 .. n) : h[T] = IF T = {} THEN base ELSE F[Max(T)][h[T \ {Max(T)}]]
  <2>1. F \in [1 .. n -> [R -> R]]
    BY <1>3
  <2> HIDE DEF F
  <2>2. HasFold(n, R, base, F)
    BY <1>1, <2>1, FoldExists
  <2>3. QED BY <2>2 DEF HasFold
<1>5. IsFold(h)
  <2>1. ASSUME NEW T \in SUBSET (1 .. n), T # {} PROVE F[Max(T)][h[T \ {Max(T)}]] = Halve(h[T \ {Max(T)}])
    <3>1. Max(T) \in 1 .. n
      BY <1>1, <2>1, LastOfSome
    <3>2. h[T \ {Max(T)}] \in R
      OBVIOUS
    <3>3. QED BY <3>1, <3>2
  <2>2. h = [T \in SUBSET (1 .. n) |-> h[T]]
    OBVIOUS
  <2>3. QED BY <1>1, <1>4, <2>1, <2>2, Zenon
<1>6. IsFold(H)
  BY <1>5, Zenon
<1> HIDE DEF H, F
<1>7. H[{}] = base
  BY <1>6, Zenon
<1>8. ASSUME NEW T \in SUBSET (1 .. n), T # {}, H[T \ {Max(T)}] \in R PROVE H[T] \in R
  <2>1. H[T] = Halve(H[T \ {Max(T)}])
    BY <1>1, <1>6, <1>8, Zenon
  <2>2. QED BY <1>3, <1>8, <2>1
<1>9. H[1 .. n] \in R
  BY <1>1, <1>7, <1>8, FoldStays
<1>10. QED BY <1>1, <1>2, <1>9 DEF R

\* Where NowAt finds a row it is, and then it has stayed or has a move.
LEMMA NowAtLaw ==
    ASSUME NEW s \in Seq(Nat), NEW t \in Seq(Nat), NEW T, NEW b, Tells(b, s, t, T), NEW i \in IndicesOf(s)
    PROVE  \/ NowAt(b, i) = NPos
           \/ /\ NowAt(b, i) \in IndicesOf(t) /\ At(t, NowAt(b, i)) = At(s, i)
              /\ NowAt(b, i) \notin b.insertions \/ \E k \in DOMAIN b.moves : b.moves[k].to = NowAt(b, i)
<1> DEFINE k == LowerBound(b.moves, i) + 1
<1>0. /\ b.deletions \in IndexSet /\ b.insertions \in IndexSet /\ b.moves \in Seq(AMove)
      /\ Lined(b.deletions, b.insertions, s, t) /\ i \in Nat /\ b.insertions \subseteq IndicesOf(t)
  BY DEF Tells, ChangeSet, IndicesOf
<1>1. k \in Nat \ {0}
  <2>1. LowerBound(b.moves, i) \in Nat
    BY <1>0, LowerBoundType
  <2>2. QED BY <2>1
<1>2. NowAt(b, i) = IF i \notin b.deletions THEN Shift(b.insertions, Unshift(b.deletions, i))
                    ELSE IF k <= Len(b.moves) /\ b.moves[k].from = i THEN b.moves[k].to
                    ELSE NPos
  BY Zenon DEF NowAt, k
<1> HIDE DEF k
<1>3. CASE i \notin b.deletions
  <2> DEFINE x == Shift(b.insertions, Unshift(b.deletions, i))
  <2>1. x \in IndicesOf(t) \ b.insertions /\ At(s, i) = At(t, x)
    BY <1>0, <1>3, Partner
  <2>2. NowAt(b, i) = x
    BY <1>2, <1>3
  <2> HIDE DEF x
  <2>3. QED BY <2>1, <2>2
<1>4. CASE i \in b.deletions /\ k <= Len(b.moves) /\ b.moves[k].from = i
  <2>1. NowAt(b, i) = b.moves[k].to
    BY <1>2, <1>4
  <2>2. k \in DOMAIN b.moves
    BY <1>0, <1>1, <1>4
  <2>3. b.moves[k].to \in b.insertions /\ At(s, b.moves[k].from) = At(t, b.moves[k].to)
    BY <2>2 DEF Tells, MovesAreTold
  <2>4. QED BY <1>0, <1>4, <2>1, <2>2, <2>3
<1>5. CASE i \in b.deletions /\ ~(k <= Len(b.moves) /\ b.moves[k].from = i)
  BY <1>2, <1>5
<1>6. QED BY <1>3, <1>4, <1>5

-----------------------------------------------------------------------------
(* The order of the rows of a table                                        *)

\* What is not told as inserted is where it was.
InPlace(b, s, t) == \A i \in IndicesOf(t) \ b.insertions : i \in IndicesOf(s) /\ At(s, i) = At(t, i)

\* Rows go nowhere but to places before theirs.
Sinks(s, t) == \A i \in IndicesOf(s), j \in IndicesOf(t) : At(s, i) = At(t, j) => j <= i

\* What is told at the end of a transaction leaves out the rows that are back
\* where they were: these are in place, too.
LEMMA ParseCompleteInPlace ==
    ASSUME NEW s, NEW t, NEW T, NEW b, TableTells(b, s, t, T)
    PROVE  InPlace(ParseComplete(b), s, t)
<1> DEFINE stays == {m \in b.mapping : m.from = m.to}
           I == b.insertions \ {m.to : m \in stays}
<1>1. ParseComplete(b).insertions = I
  <2>1. ParseComplete(b) = [b EXCEPT !.deletions = @ \ {m.from : m \in stays},
                                     !.insertions = I,
                                     !.moves = ByFrom(b.mapping \ stays),
                                     !.mapping = {}]
    BY Zenon DEF ParseComplete
  <2>2. b \in [deletions : IndexSet, insertions : IndexSet, modifications : IndexSet,
               moves : Seq(AMove), mapping : SUBSET AMove]
    BY DEF TableTells, ChangeSet
  <2> HIDE DEF stays, I
  <2>3. QED BY <2>1, <2>2
<1>2. ASSUME NEW i \in IndicesOf(t) \ I PROVE i \in IndicesOf(s) /\ At(s, i) = At(t, i)
  <2>1. CASE i \notin b.insertions
    BY <2>1 DEF TableTells
  <2>2. ASSUME NEW m \in stays, i = m.to PROVE i \in IndicesOf(s) /\ At(s, i) = At(t, i)
    <3>1. m \in b.mapping /\ m.from = i
      BY <2>2
    <3>2. QED BY <2>2, <3>1 DEF TableTells
  <2>3. QED BY <2>1, <2>2
<1> HIDE DEF I
<1>3. QED BY <1>1, <1>2 DEF InPlace

\* Nothing sinks by nothing.
LEMMA NothingSinks == ASSUME NEW s \in Seq(Nat), Distinct(s) PROVE Sinks(s, s)
BY DEF Sinks, Distinct, IndicesOf

\* A new row, put after the others, was not there.
LEMMA AppendSinks ==
    ASSUME NEW s \in Seq(Nat), NEW t \in Seq(Nat), Sinks(s, t), NEW e \in Nat, e \notin ToSet(s)
    PROVE  Sinks(s, Append(t, e))
<1> DEFINE u == Append(t, e)
<1>1. Len(t) \in Nat /\ u \in Seq(Nat) /\ Len(u) = Len(t) + 1 /\ u[Len(t) + 1] = e
      /\ \A k \in 1 .. Len(t) : u[k] = t[k]
  BY AppendProperties
<1> HIDE DEF u
<1>2. SUFFICES ASSUME NEW i \in IndicesOf(s), NEW j \in IndicesOf(u), At(s, i) = At(u, j) PROVE j <= i
  BY DEF Sinks, u
<1>3. At(s, i) \in ToSet(s)
  BY DEF At, IndicesOf, ToSet
<1>4. j + 1 \in 1 .. Len(t) + 1 /\ j \in Nat
  BY <1>1 DEF IndicesOf
<1>5. j # Len(t)
  BY <1>1, <1>2, <1>3 DEF At
<1>6. j \in IndicesOf(t) /\ At(u, j) = At(t, j)
  BY <1>1, <1>4, <1>5, SMTT(30) DEF IndicesOf, At
<1>7. QED BY <1>2, <1>6 DEF Sinks

\* The last row goes to the place of the one that is erased.
LEMMA OverSinks ==
    ASSUME NEW s \in Seq(Nat), NEW t \in Seq(Nat), Sinks(s, t), NEW i \in IndicesOf(t)
    PROVE  Sinks(s, OverWithLast(t, i))
<1> DEFINE u == OverWithLast(t, i)
<1>1. /\ u \in Seq(Nat) /\ Len(u) = Len(t) - 1
      /\ \A k \in IndicesOf(u) : At(u, k) = IF k = i THEN At(t, Len(t) - 1) ELSE At(t, k)
  BY OverLaw
<1> HIDE DEF u
<1>2. SUFFICES ASSUME NEW x \in IndicesOf(s), NEW k \in IndicesOf(u), At(s, x) = At(u, k) PROVE k <= x
  BY DEF Sinks, u
<1>3. /\ k \in IndicesOf(t) /\ Len(t) - 1 \in IndicesOf(t) /\ k \in Nat /\ k <= Len(t) - 1
      /\ Len(t) \in Nat /\ x \in Nat
  BY <1>1, SMTT(30) DEF IndicesOf
<1>4. CASE k = i
  <2>1. At(s, x) = At(t, Len(t) - 1)
    BY <1>1, <1>2, <1>4
  <2>2. Len(t) - 1 <= x
    BY <1>3, <2>1 DEF Sinks
  <2>3. QED BY <1>3, <2>2
<1>5. CASE k # i
  <2>1. At(s, x) = At(t, k)
    BY <1>1, <1>2, <1>5
  <2>2. QED BY <1>3, <2>1 DEF Sinks
<1>6. QED BY <1>4, <1>5

\* What calculate_moves_unsorted takes for granted of the table.
QueryInv ==
    kind = "table" =>
       /\ stage = "parsed" => InPlace(builder, mid, list)
       /\ ~swapped => Sinks(mid, list)

\* At first no row has gone anywhere.
LEMMA QueryInit == Init => QueryInv
<1> SUFFICES ASSUME Init, kind = "table" PROVE stage # "parsed" /\ Sinks(mid, list)
  BY DEF QueryInv
<1>1. mid = list /\ stage = "parsing"
  BY DEF Init
<1>2. list \in Seq(Nat) /\ Distinct(list)
  BY TableInit DEF TableInv
<1>3. QED BY <1>1, <1>2, NothingSinks

\* An instruction leaves a parsed transaction to parse.
LEMMA QueryInstructionStep ==
    ASSUME NEW s, NEW b, Instruction(s, b), stage = "parsing", ~swapped' => Sinks(mid, s)
    PROVE  QueryInv'
BY DEF QueryInv, Instruction

\* All instructions but a swap leave rows where they are or take them to the front.
LEMMA SinkingStep ==
    ASSUME TableInv, QueryInv, NEW i, \/ MarkDirty(i) \/ MergeRows(i) \/ EraseRows(i) \/ InsertEmptyRows \/ ClearTable
    PROVE  QueryInv'
<1>1. Parse("table") /\ swapped' = swapped
  BY DEF MarkDirty, MergeRows, EraseRows, InsertEmptyRows, ClearTable
<1>2. ParsingTable /\ stage = "parsing" /\ kind = "table"
  BY <1>1, ParsingTableLaw DEF Parse
<1>3. ~swapped => Sinks(mid, list)
  BY <1>2 DEF QueryInv
<1>4. ASSUME NEW b, Instruction(list, b) PROVE QueryInv'
  BY <1>1, <1>2, <1>3, <1>4, QueryInstructionStep
<1>5. CASE MarkDirty(i)
  <2>1. Instruction(list, Modify(builder, i))
    BY <1>5 DEF MarkDirty
  <2>2. QED BY <1>4, <2>1
<1>6. CASE MergeRows(i)
  <2>1. Instruction(list, MoveLastOver(Subsume(Insert(builder, Size), i, Size), i, Size))
    BY <1>6 DEF MergeRows
  <2>2. QED BY <1>4, <2>1
<1>7. CASE EraseRows(i)
  <2>1. i \in IndicesOf(list) /\ Instruction(OverWithLast(list, i), MoveLastOver(builder, i, Size - 1))
    BY <1>7 DEF EraseRows, Indices, IndicesOf, Size
  <2>2. ~swapped => Sinks(mid, OverWithLast(list, i))
    BY <1>2, <1>3, <2>1, OverSinks DEF ParsingTable
  <2>3. QED BY <1>1, <1>2, <2>1, <2>2, QueryInstructionStep
<1>8. CASE InsertEmptyRows
  <2> DEFINE e == Fresh
  <2>1. Instruction(Append(list, e), Insert(builder, Size))
    BY <1>8 DEF InsertEmptyRows
  <2>2. e \in Nat /\ e \notin ToSet(mid)
    BY <1>2, FreshIsFresh DEF ParsingTable
  <2> HIDE DEF e
  <2>3. ~swapped => Sinks(mid, Append(list, e))
    BY <1>2, <1>3, <2>2, AppendSinks DEF ParsingTable
  <2>4. QED BY <1>1, <1>2, <2>1, <2>3, QueryInstructionStep
<1>9. CASE ClearTable
  <2>1. Instruction(<<>>, Deleting(0 .. (MaxSize - 1)))
    BY <1>9 DEF ClearTable
  <2>2. Sinks(mid, <<>>)
    BY DEF Sinks, IndicesOf
  <2>3. QED BY <1>1, <1>2, <2>1, <2>2, QueryInstructionStep
<1>10. QED BY <1>5, <1>6, <1>7, <1>8, <1>9

\* The end of a transaction leaves those that have stayed in place.
LEMMA QueryStep == TableInv /\ QueryInv /\ [Next]_vars => QueryInv'
<1> SUFFICES ASSUME TableInv, QueryInv, [Next]_vars PROVE QueryInv'
  OBVIOUS
<1>1. ASSUME NEW i, \/ MarkDirty(i) \/ MergeRows(i) \/ EraseRows(i) \/ InsertEmptyRows \/ ClearTable PROVE QueryInv'
  BY <1>1, SinkingStep
<1>2. ASSUME NEW i, NEW j, SwapRows(i, j) PROVE QueryInv'
  <2>1. swapped' = TRUE /\ stage' = "parsing"
    BY <1>2 DEF SwapRows, Parse, Instruction
  <2>2. QED BY <2>1 DEF QueryInv
<1>3. ASSUME kind # "table", kind' = kind PROVE QueryInv'
  BY <1>3 DEF QueryInv
<1>4. ASSUME NEW i, NEW j, \/ LinkListSet(i) \/ LinkListInsert(i) \/ LinkListErase(i)
                           \/ LinkListSwap(i, j) \/ LinkListMove(i, j) \/ LinkListClear
      PROVE QueryInv'
  <2>1. kind = "list" /\ kind' = kind
    BY <1>4 DEF LinkListSet, LinkListInsert, LinkListErase, LinkListSwap, LinkListMove, LinkListClear, Parse, Instruction
  <2>2. QED BY <1>3, <2>1
<1>5. CASE CompleteParse
  <2> SUFFICES ASSUME kind = "table" PROVE QueryInv'
    BY <1>3, <1>5 DEF CompleteParse
  <2>1. mid' = mid /\ list' = list /\ swapped' = swapped /\ builder' = ParseComplete(builder)
    BY <1>5 DEF CompleteParse
  <2>2. InPlace(ParseComplete(builder), mid, list)
    <3>1. TableTells(builder, mid, list, touched)
      BY <1>5, Zenon DEF TableInv, CompleteParse
    <3>2. QED BY <3>1, ParseCompleteInPlace
  <2>3. ~swapped => Sinks(mid, list)
    BY DEF QueryInv
  <2>4. QED BY <2>1, <2>2, <2>3, Zenon DEF QueryInv
<1>6. CASE Merge
  <2> SUFFICES ASSUME kind = "table" PROVE QueryInv'
    BY <1>3, <1>6 DEF Merge
  <2>1. stage' = "merged" /\ mid' = list /\ list' = list
    BY <1>6 DEF Merge
  <2>2. Sinks(list, list)
    <3>1. list \in Seq(Nat) /\ Distinct(list)
      BY Zenon DEF TableInv
    <3>2. QED BY <3>1, NothingSinks
  <2>3. QED BY <2>1, <2>2 DEF QueryInv
<1>7. CASE NextTransaction
  <2>1. stage' = "parsing" /\ mid' = mid /\ list' = list /\ kind' = kind /\ swapped' = swapped
    BY <1>7 DEF NextTransaction
  <2>2. QED BY <2>1 DEF QueryInv
<1>8. CASE UNCHANGED vars
  BY <1>8 DEF vars, QueryInv
<1>9. QED BY <1>1, <1>2, <1>4, <1>5, <1>6, <1>7, <1>8, Zenon DEF Next

-----------------------------------------------------------------------------
(* The rows that two results have in common                                *)

\* What calculate compares: the rows of now are all different, and so are those
\* of before that are still there.
Comparable(prev, next) ==
    /\ prev \in Seq(Nat) /\ next \in Seq(Nat) /\ Distinct(next) /\ NPos \notin ToSet(next)
    /\ \A i, j \in IndicesOf(prev) : At(prev, i) = At(prev, j) => i = j \/ At(prev, i) = NPos

\* Every entry of p before n is one of q before m, apart from those at D and I.
Found(D, I, p, n, q, m) == \A i \in 0 .. n - 1 : i \notin D => \E j \in 0 .. m - 1 : j \notin I /\ At(p, i) = At(q, j)

\* Then there are as many before n as before m.
LEMMA SameCount ==
    ASSUME NEW prev, NEW next, Comparable(prev, next), NEW D \in IndexSet, NEW I \in IndexSet,
           NEW n \in Nat, NEW m \in Nat, n <= Len(prev), m <= Len(next),
           Found(D, I, prev, n, next, m), Found(I, D, next, m, prev, n)
    PROVE  Unshift(D, n) = Unshift(I, m)
<1> DEFINE K == {i \in 1 .. n : i - 1 \notin D}
           L == {j \in 1 .. m : j - 1 \notin I}
           f == [i \in K |-> CHOOSE j \in L : prev[i] = next[j]]
<1>0. prev \in Seq(Nat) /\ next \in Seq(Nat) /\ Len(prev) \in Nat /\ Len(next) \in Nat
  BY DEF Comparable
<1>1. Cardinality(K) = Unshift(D, n) /\ Cardinality(L) = Unshift(I, m)
  BY KeptCount
<1>2. ASSUME NEW i \in K PROVE \E j \in L : prev[i] = next[j]
  <2>1. i - 1 \in 0 .. n - 1 /\ i - 1 \notin D
    OBVIOUS
  <2>2. PICK j \in 0 .. m - 1 : j \notin I /\ At(prev, i - 1) = At(next, j)
    BY <2>1 DEF Found
  <2>3. j + 1 \in 1 .. m /\ (j + 1) - 1 = j /\ (i - 1) + 1 = i
    OBVIOUS
  <2>4. prev[i] = next[j + 1]
    BY <2>2, <2>3 DEF At
  <2>5. j + 1 \in L
    BY <2>2, <2>3
  <2>6. QED BY <2>4, <2>5
<1>3. ASSUME NEW j \in L PROVE \E i \in K : prev[i] = next[j]
  <2>1. j - 1 \in 0 .. m - 1 /\ j - 1 \notin I
    OBVIOUS
  <2>2. PICK i \in 0 .. n - 1 : i \notin D /\ At(next, j - 1) = At(prev, i)
    BY <2>1 DEF Found
  <2>3. i + 1 \in 1 .. n /\ (i + 1) - 1 = i /\ (j - 1) + 1 = j
    OBVIOUS
  <2>4. prev[i + 1] = next[j]
    BY <2>2, <2>3 DEF At
  <2>5. i + 1 \in K
    BY <2>2, <2>3
  <2>6. QED BY <2>4, <2>5
<1>4. \A i \in K : i \in 1 .. Len(prev)
  BY <1>0
<1>5. \A j \in L : j \in 1 .. Len(next)
  BY <1>0
<1>6. IsFiniteSet(K)
  <2>1. K \in SUBSET (1 .. n) /\ IsFiniteSet(1 .. n)
    BY FS_Interval
  <2>2. QED BY <2>1, FS_Subset
<1> HIDE DEF K, L
<1>7. \A i \in K : f[i] \in L /\ prev[i] = next[f[i]]
  <2>1. ASSUME NEW i \in K PROVE f[i] \in L /\ prev[i] = next[f[i]]
    <3>1. f[i] = CHOOSE j \in L : prev[i] = next[j]
      OBVIOUS
    <3>2. QED BY <1>2, <3>1, Zenon
  <2>2. QED BY <2>1
<1>8. f \in [K -> L]
  BY <1>7
<1> HIDE DEF f
<1>9. ASSUME NEW i \in K, NEW j \in K, prev[i] = prev[j] PROVE i = j
  <2>1. i - 1 \in IndicesOf(prev) /\ j - 1 \in IndicesOf(prev) /\ (i - 1) + 1 = i /\ (j - 1) + 1 = j
    BY <1>0, <1>4 DEF IndicesOf
  <2>2. prev[i] \in ToSet(next)
    <3>1. DOMAIN next = 1 .. Len(next)
      BY <1>0
    <3>2. QED BY <1>5, <1>7, <3>1 DEF ToSet
  <2>3. prev[i] # NPos
    BY <2>2 DEF Comparable
  <2>4. i - 1 = j - 1
    BY <1>9, <2>1, <2>3 DEF Comparable, At
  <2>5. QED BY <2>1, <2>4
<1>10. ASSUME NEW i \in L, NEW j \in L, next[i] = next[j] PROVE i = j
  <2>1. i - 1 \in IndicesOf(next) /\ j - 1 \in IndicesOf(next) /\ (i - 1) + 1 = i /\ (j - 1) + 1 = j
    BY <1>0, <1>5 DEF IndicesOf
  <2>2. i - 1 = j - 1
    BY <1>10, <2>1 DEF Comparable, Distinct, At
  <2>3. QED BY <2>1, <2>2
<1>11. \A i, j \in K : f[i] = f[j] => i = j
  BY <1>7, <1>9
<1>12. \A j \in L : \E i \in K : f[i] = j
  BY <1>3, <1>7, <1>10
<1>13. f \in Bijection(K, L)
  BY <1>8, <1>11, <1>12 DEF Bijection, Injection, Surjection, IsInjective
<1>14. Cardinality(K) = Cardinality(L)
  <2>1. ExistsBijection(K, L)
    BY <1>13 DEF ExistsBijection
  <2>2. QED BY <1>6, <2>1, FS_Bijection
<1>15. QED BY <1>1, <1>14

\* What is kept of the rows of before is what is kept of those of now, in the
\* same order.
Matched(D, I, prev, next) ==
    /\ \A i \in IndicesOf(prev) \ D : \E j \in IndicesOf(next) \ I : At(prev, i) = At(next, j)
    /\ \A j \in IndicesOf(next) \ I : \E i \in IndicesOf(prev) \ D : At(prev, i) = At(next, j)
    /\ \A i, k \in IndicesOf(prev) \ D, j, l \in IndicesOf(next) \ I :
          At(prev, i) = At(next, j) /\ At(prev, k) = At(next, l) /\ i < k => j < l

\* As the rows are told apart, what is kept is then lined up.
LEMMA MatchedIsLined ==
    ASSUME NEW prev, NEW next, Comparable(prev, next), NEW D \in IndexSet, NEW I \in IndexSet,
           Matched(D, I, prev, next)
    PROVE  Lined(D, I, prev, next)
<1>0. /\ prev \in Seq(Nat) /\ next \in Seq(Nat) /\ Len(prev) \in Nat /\ Len(next) \in Nat
      /\ D \in SUBSET Nat /\ I \in SUBSET Nat
  BY DEF Comparable, IndexSet
<1>1. Unshift(D, Len(prev)) = Unshift(I, Len(next))
  <2>1. Found(D, I, prev, Len(prev), next, Len(next))
    BY DEF Found, Matched, IndicesOf
  <2>2. Found(I, D, next, Len(next), prev, Len(prev))
    BY DEF Found, Matched, IndicesOf
  <2>3. QED BY <1>0, <2>1, <2>2, SameCount
<1>2. \A j, l \in IndicesOf(next) : At(next, j) = At(next, l) => j = l
  BY DEF Comparable, Distinct
<1>3. ASSUME NEW i \in IndicesOf(prev) \ D, NEW j \in IndicesOf(next) \ I, At(prev, i) = At(next, j)
      PROVE  Unshift(D, i) = Unshift(I, j)
  <2>0. i \in Nat /\ j \in Nat /\ i < Len(prev) /\ j < Len(next)
    BY <1>0 DEF IndicesOf
  <2>1. ASSUME NEW x \in 0 .. i - 1, x \notin D PROVE \E y \in 0 .. j - 1 : y \notin I /\ At(prev, x) = At(next, y)
    <3>1. x \in IndicesOf(prev) \ D /\ x < i
      BY <1>0, <2>0, <2>1 DEF IndicesOf
    <3>2. PICK y \in IndicesOf(next) \ I : At(prev, x) = At(next, y)
      BY <3>1 DEF Matched
    <3>3. y < j
      BY <1>3, <3>1, <3>2 DEF Matched
    <3>4. QED BY <2>0, <3>2, <3>3 DEF IndicesOf
  <2>2. ASSUME NEW y \in 0 .. j - 1, y \notin I PROVE \E x \in 0 .. i - 1 : x \notin D /\ At(next, y) = At(prev, x)
    <3>1. y \in IndicesOf(next) \ I /\ y < j
      BY <1>0, <2>0, <2>2 DEF IndicesOf
    <3>2. PICK x \in IndicesOf(prev) \ D : At(prev, x) = At(next, y)
      BY <3>1 DEF Matched
    <3>3. ~(i < x)
      <4>1. i < x => j < y
        BY <1>3, <3>1, <3>2 DEF Matched
      <4>2. QED BY <2>0, <3>1, <4>1
    <3>4. x # i
      BY <1>2, <1>3, <2>0, <3>1, <3>2
    <3>5. x \in Nat
      BY DEF IndicesOf
    <3>6. QED BY <2>0, <3>2, <3>3, <3>4, <3>5
  <2>3. Found(D, I, prev, i, next, j) /\ Found(I, D, next, j, prev, i)
    BY <2>1, <2>2 DEF Found
  <2>4. QED BY <2>0, <2>3, SameCount
<1>4. ASSUME NEW i \in IndicesOf(prev) \ D, NEW j \in IndicesOf(next) \ I, Unshift(D, i) = Unshift(I, j)
      PROVE  At(prev, i) = At(next, j)
  <2>1. PICK l \in IndicesOf(next) \ I : At(prev, i) = At(next, l)
    BY DEF Matched
  <2>2. Unshift(I, l) = Unshift(I, j)
    BY <1>3, <1>4, <2>1
  <2>3. l \in Nat \ I /\ j \in Nat \ I
    BY DEF IndicesOf
  <2>4. l = j
    BY <1>0, <2>2, <2>3, UnshiftIsInjective
  <2>5. QED BY <2>1, <2>4
<1>5. QED BY <1>1, <1>4 DEF Lined

\* What is put in order has its place by how many are before it, which are
\* different numbers below that of all.
LEMMA OrderedLaw ==
    ASSUME NEW S, IsFiniteSet(S), NEW key \in [S -> Int], \A d, e \in S : key[d] = key[e] => d = e
    PROVE  /\ Ordered(S, key) \in Seq(S)
           /\ \A k, l \in DOMAIN Ordered(S, key) : k < l => key[Ordered(S, key)[k]] < key[Ordered(S, key)[l]]
<1> DEFINE n == Cardinality(S)
           Below(e) == {d \in S : key[d] < key[e]}
           R(e) == Cardinality(Below(e))
           f == [e \in S |-> R(e) + 1]
           v == Ordered(S, key)
<1>1. n \in Nat
  BY FS_CardinalityType
<1>2. \A e \in S : key[e] \in Int
  OBVIOUS
<1>3. ASSUME NEW e \in S PROVE Below(e) \in SUBSET S /\ IsFiniteSet(Below(e)) /\ R(e) \in Nat /\ R(e) <= n
  <2>1. Below(e) \in SUBSET S
    OBVIOUS
  <2> HIDE DEF Below
  <2>2. IsFiniteSet(Below(e)) /\ R(e) <= n
    BY <2>1, FS_Subset
  <2>3. QED BY <2>1, <2>2, FS_CardinalityType
<1>4. ASSUME NEW e \in S PROVE R(e) < n
  <2>1. Below(e) # S
    <3>1. e \notin Below(e)
      BY <1>2
    <3> HIDE DEF Below
    <3>2. QED BY <3>1
  <2> HIDE DEF Below
  <2>2. R(e) # n
    BY <1>3, <2>1, FS_Subset
  <2>3. QED BY <1>1, <1>3, <2>2
<1>5. ASSUME NEW d \in S, NEW e \in S, key[d] < key[e] PROVE R(d) < R(e)
  <2>1. Below(d) \subseteq Below(e) /\ d \in Below(e) /\ d \notin Below(d)
    BY <1>2, <1>5
  <2> HIDE DEF Below
  <2>2. Below(d) \in SUBSET Below(e) /\ Below(d) # Below(e)
    BY <2>1
  <2>3. R(d) <= R(e) /\ R(d) # R(e)
    BY <1>3, <2>2, FS_Subset
  <2>4. QED BY <1>3, <2>3
<1> HIDE DEF R
<1>6. \A d, e \in S : R(d) <= R(e) /\ d # e => key[d] < key[e]
  <2>1. SUFFICES ASSUME NEW d \in S, NEW e \in S, R(d) <= R(e), d # e PROVE key[d] < key[e]
    OBVIOUS
  <2>2. key[d] # key[e] /\ key[d] \in Int /\ key[e] \in Int
    BY <1>2, <2>1
  <2>3. key[e] < key[d] => R(e) < R(d)
    BY <1>5
  <2>4. R(d) \in Nat /\ R(e) \in Nat
    BY <1>3
  <2>5. QED BY <2>1, <2>2, <2>3, <2>4
<1> HIDE DEF n
<1>7. f \in Injection(S, 1 .. n)
  <2>1. ASSUME NEW e \in S PROVE R(e) + 1 \in 1 .. n
    <3>1. R(e) \in Nat /\ R(e) < n
      BY <1>3, <1>4
    <3>2. QED BY <1>1, <3>1
  <2>2. ASSUME NEW d \in S, NEW e \in S, f[d] = f[e] PROVE d = e
    <3>1. R(d) \in Nat /\ R(e) \in Nat /\ R(d) + 1 = R(e) + 1
      BY <1>3, <2>2
    <3>2. R(d) <= R(e) /\ R(e) <= R(d)
      BY <3>1
    <3>3. d # e => key[d] < key[e] /\ key[e] < key[d]
      BY <1>6, <3>2
    <3>4. QED BY <1>2, <3>3
  <2>3. f \in [S -> 1 .. n]
    BY <2>1
  <2> HIDE DEF f
  <2>4. QED BY <2>2, <2>3 DEF Injection, IsInjective
<1>8. IsFiniteSet(1 .. n) /\ Cardinality(1 .. n) = n
  BY <1>1, FS_Interval
<1>9. f \in Surjection(S, 1 .. n)
  <2> HIDE DEF f
  <2>1. QED BY <1>7, <1>8, FS_Injection DEF n
<1>10. ASSUME NEW k \in 1 .. n PROVE \E e \in S : R(e) = k - 1
  <2>1. PICK e \in S : f[e] = k
    BY <1>9, <1>10, Zenon DEF Surjection
  <2>2. R(e) + 1 = k /\ R(e) \in Nat
    BY <1>3, <2>1
  <2>3. QED BY <1>1, <2>2
<1>11. v = [k \in 1 .. n |-> CHOOSE e \in S : R(e) = k - 1]
  BY Zenon DEF Ordered, R, n
<1> HIDE DEF v
<1>12. ASSUME NEW k \in 1 .. n PROVE v[k] \in S /\ R(v[k]) = k - 1
  <2>1. v[k] = CHOOSE e \in S : R(e) = k - 1
    BY <1>11
  <2>2. QED BY <1>10, <2>1, Zenon
<1>13. DOMAIN v = 1 .. n
  BY <1>11
<1>14. v \in Seq(S)
  <2>1. v \in [1 .. n -> S]
    BY <1>11, <1>12
  <2>2. QED BY <1>1, <2>1, FunctionIsASeq
<1>15. ASSUME NEW k \in 1 .. n, NEW l \in 1 .. n, k < l PROVE key[v[k]] < key[v[l]]
  <2>1. R(v[k]) = k - 1 /\ R(v[l]) = l - 1 /\ v[k] \in S /\ v[l] \in S
    BY <1>12
  <2>2. k - 1 < l - 1 /\ k - 1 # l - 1 /\ k - 1 <= l - 1
    BY <1>1, <1>15
  <2>3. QED BY <1>6, <2>1, <2>2
<1>16. QED BY <1>13, <1>14, <1>15 DEF v

\* The place of a row is where it is.
LEMMA PlaceLaw ==
    ASSUME NEW s \in Seq(Nat), NEW e \in ToSet(s)
    PROVE  Place(s, e) \in IndicesOf(s) /\ At(s, Place(s, e)) = e
<1>1. PICK k \in DOMAIN s : s[k] = e
  BY DEF ToSet
<1>2. k - 1 \in IndicesOf(s) /\ At(s, k - 1) = e
  BY <1>1 DEF IndicesOf, At
<1>3. QED BY <1>2, Zenon DEF Place

\* Some of the rows of a collection, in its order.
LEMMA InOrderLaw ==
    ASSUME NEW m \in Seq(Nat), Distinct(m), NEW S \in SUBSET ToSet(m)
    PROVE  /\ InOrder(S, m) \in Seq(Nat)
           /\ \A k \in DOMAIN InOrder(S, m) : InOrder(S, m)[k] \in S
           /\ \A k, l \in DOMAIN InOrder(S, m) : k < l => Place(m, InOrder(S, m)[k]) < Place(m, InOrder(S, m)[l])
<1> DEFINE key == [e \in S |-> Place(m, e)]
           v == Ordered(S, key)
<1>1. S \in SUBSET Nat /\ IsFiniteSet(S)
  <2>1. ToSet(m) \in IndexSet
    BY EntriesAreFinite
  <2>2. QED BY <2>1, FS_Subset DEF IndexSet
<1>2. \A e \in S : Place(m, e) \in IndicesOf(m) /\ At(m, Place(m, e)) = e
  BY PlaceLaw
<1>3. key \in [S -> Int] /\ \A d, e \in S : key[d] = key[e] => d = e
  BY <1>2 DEF IndicesOf
<1> HIDE DEF key
<1>4. v \in Seq(S) /\ \A k, l \in DOMAIN v : k < l => key[v[k]] < key[v[l]]
  BY <1>1, <1>3, OrderedLaw
<1>5. InOrder(S, m) = v
  BY Zenon DEF InOrder, key
<1> HIDE DEF v
<1>6. \A k \in DOMAIN v : v[k] \in S
  BY <1>4
<1>7. v \in Seq(Nat)
  BY <1>1, <1>4
<1>8. \A k \in DOMAIN v : key[v[k]] = Place(m, v[k])
  BY <1>6 DEF key
<1>9. QED BY <1>4, <1>5, <1>6, <1>7, <1>8

\* Some of them in the order of a key that those in T have changed.
LEMMA ByKeyLaw ==
    ASSUME NEW S \in IndexSet, NEW T
    PROVE  /\ ByKey(S, T) \in Seq(Nat)
           /\ \A k \in DOMAIN ByKey(S, T) : ByKey(S, T)[k] \in S
           /\ \A k, l \in DOMAIN ByKey(S, T) : k # l => ByKey(S, T)[k] # ByKey(S, T)[l]
<1> DEFINE key == [e \in S |-> IF e \in T THEN -e ELSE e]
           v == Ordered(S, key)
<1>1. S \in SUBSET Nat /\ IsFiniteSet(S)
  BY DEF IndexSet
<1>2. key \in [S -> Int] /\ \A d, e \in S : key[d] = key[e] => d = e
  <2>1. \A d, e \in S : d \in Nat /\ e \in Nat /\ (-d = e => d = e) /\ (-d = -e => d = e)
    BY <1>1
  <2>2. QED BY <2>1
<1> HIDE DEF key
<1>3. v \in Seq(S) /\ \A k, l \in DOMAIN v : k < l => key[v[k]] < key[v[l]]
  BY <1>1, <1>2, OrderedLaw
<1>4. ByKey(S, T) = v
  BY Zenon DEF ByKey, key
<1> HIDE DEF v
<1>5. \A k \in DOMAIN v : v[k] \in S /\ key[v[k]] \in Int
  BY <1>2, <1>3
<1>6. v \in Seq(Nat) /\ DOMAIN v \subseteq Nat
  <2>1. v \in Seq(S) /\ S \subseteq Nat
    BY <1>1, <1>3
  <2>2. Len(v) \in Nat /\ DOMAIN v = 1 .. Len(v) /\ \A k \in 1 .. Len(v) : v[k] \in S
    BY <2>1
  <2>3. v = [k \in 1 .. Len(v) |-> v[k]]
    BY <2>1
  <2>4. v \in [1 .. Len(v) -> Nat]
    BY <2>1, <2>2, <2>3
  <2>5. QED BY <2>2, <2>4, FunctionIsASeq
<1>7. ASSUME NEW k \in DOMAIN v, NEW l \in DOMAIN v, k # l PROVE v[k] # v[l]
  <2>1. k < l \/ l < k
    BY <1>6, <1>7
  <2>2. key[v[k]] < key[v[l]] \/ key[v[l]] < key[v[k]]
    BY <1>3, <2>1
  <2>3. key[v[k]] \in Int /\ key[v[l]] \in Int
    BY <1>5
  <2>4. QED BY <2>2, <2>3
<1>8. QED BY <1>4, <1>5, <1>6, <1>7

-----------------------------------------------------------------------------
(* Results in the order of the table                                       *)

\* The rows of now that were not there before.
NewIn(prev, next) == {j \in IndicesOf(next) : At(next, j) \notin ToSet(prev)}

\* Where a row of now was.
WasAt(prev, next, j) == Place(prev, At(next, j))

\* Some indices of a collection are an index set.
LEMMA SomeIndices == ASSUME NEW s \in Seq(Nat), NEW S \in SUBSET IndicesOf(s) PROVE S \in IndexSet
<1>1. Len(s) - 1 \in Int /\ IndicesOf(s) \subseteq Nat
  BY DEF IndicesOf
<1>2. IsFiniteSet(IndicesOf(s))
  BY <1>1, FS_Interval DEF IndicesOf
<1>3. IsFiniteSet(S)
  BY <1>2, FS_Subset
<1>4. QED BY <1>1, <1>3 DEF IndexSet

\* What s and t have both, in the order of s.
LEMMA StayingLaw ==
    ASSUME NEW s \in Seq(Nat), NEW t \in Seq(Nat)
    PROVE  LET D == NewIn(t, s)
               w == Staying(s, t)
           IN  /\ D \in IndexSet /\ w \in Seq(Nat) /\ Len(w) = Unshift(D, Len(s))
               /\ \A k \in 1 .. Len(w) :
                     Shift(D, k - 1) \in IndicesOf(s) \ D /\ Unshift(D, Shift(D, k - 1)) = k - 1 /\ w[k] = At(s, Shift(D, k - 1))
<1> DEFINE D == NewIn(t, s)
           w == Staying(s, t)
           n == Unshift(D, Len(s))
<1>1. D \in SUBSET IndicesOf(s)
  BY DEF NewIn
<1>2. w = Without(s, D)
  BY Zenon DEF Staying, NewIn
<1> HIDE DEF D, w
<1>3. D \in IndexSet /\ D \in SUBSET Nat /\ Len(s) \in Nat
  <2>1. D \in IndexSet
    BY <1>1, SomeIndices
  <2>2. QED BY <2>1 DEF IndexSet
<1>4. n \in Nat
  BY <1>3, UnshiftType
<1>5. w = [k \in 1 .. n |-> At(s, Shift(D, k - 1))]
  BY <1>2, <1>3, WithoutLaw
<1>6. \A k \in 1 .. n : Shift(D, k - 1) \in IndicesOf(s) \ D /\ Unshift(D, Shift(D, k - 1)) = k - 1
  BY <1>3, WithoutLaw
<1> HIDE DEF n
<1>7. w \in [1 .. n -> Nat]
  <2>1. ASSUME NEW k \in 1 .. n PROVE At(s, Shift(D, k - 1)) \in Nat
    <3>1. Shift(D, k - 1) \in IndicesOf(s)
      BY <1>6
    <3>2. QED BY <3>1 DEF IndicesOf, At
  <2>2. QED BY <1>5, <2>1
<1>8. w \in Seq(Nat) /\ Len(w) = n
  BY <1>4, <1>7, FunctionIsASeq
<1>9. QED BY <1>3, <1>5, <1>6, <1>8 DEF D, w, n

\* The rows that stay are all at different places, of which none was deleted.
LEMMA WasAtLaw ==
    ASSUME NEW prev, NEW next, Comparable(prev, next)
    PROVE  /\ \A j \in IndicesOf(next) \ NewIn(prev, next) :
                 /\ WasAt(prev, next, j) \in IndicesOf(prev) /\ At(prev, WasAt(prev, next, j)) = At(next, j)
                 /\ WasAt(prev, next, j) \notin Gone(prev) /\ WasAt(prev, next, j) \notin Removed(prev, next)
           /\ \A j, u \in IndicesOf(next) \ NewIn(prev, next) : WasAt(prev, next, j) = WasAt(prev, next, u) => j = u
           /\ \A i \in IndicesOf(prev) : i \notin Gone(prev) /\ i \notin Removed(prev, next) =>
                 \E j \in IndicesOf(next) \ NewIn(prev, next) : WasAt(prev, next, j) = i
           /\ \A j \in IndicesOf(next) : Place(next, At(next, j)) = j
<1>0. prev \in Seq(Nat) /\ next \in Seq(Nat) /\ NPos \notin ToSet(next)
  BY DEF Comparable
<1>1. ASSUME NEW j \in IndicesOf(next) PROVE At(next, j) \in ToSet(next) /\ At(next, j) # NPos
  <2>1. At(next, j) \in ToSet(next)
    BY <1>0 DEF IndicesOf, At, ToSet
  <2>2. QED BY <1>0, <2>1
<1>2. ASSUME NEW j \in IndicesOf(next) \ NewIn(prev, next)
      PROVE  /\ WasAt(prev, next, j) \in IndicesOf(prev) /\ At(prev, WasAt(prev, next, j)) = At(next, j)
             /\ WasAt(prev, next, j) \notin Gone(prev) /\ WasAt(prev, next, j) \notin Removed(prev, next)
  <2>1. At(next, j) \in ToSet(prev)
    BY DEF NewIn
  <2>2. WasAt(prev, next, j) \in IndicesOf(prev) /\ At(prev, WasAt(prev, next, j)) = At(next, j)
    BY <1>0, <2>1, PlaceLaw DEF WasAt
  <2>3. QED BY <1>1, <2>2 DEF Gone, Removed
<1>3. \A j, u \in IndicesOf(next) : At(next, j) = At(next, u) => j = u
  BY DEF Comparable, Distinct
<1>4. ASSUME NEW i \in IndicesOf(prev), i \notin Gone(prev), i \notin Removed(prev, next)
      PROVE  \E j \in IndicesOf(next) \ NewIn(prev, next) : WasAt(prev, next, j) = i
  <2>1. At(prev, i) \in ToSet(next) /\ At(prev, i) # NPos
    BY <1>4 DEF Gone, Removed
  <2>2. PICK k \in DOMAIN next : next[k] = At(prev, i)
    BY <2>1 DEF ToSet
  <2> DEFINE j == k - 1
  <2>3. j \in IndicesOf(next) /\ At(next, j) = At(prev, i)
    BY <1>0, <2>2 DEF IndicesOf, At
  <2> HIDE DEF j
  <2>4. At(prev, i) \in ToSet(prev)
    BY <1>0 DEF IndicesOf, At, ToSet
  <2>5. j \in IndicesOf(next) \ NewIn(prev, next)
    BY <2>3, <2>4 DEF NewIn
  <2>6. WasAt(prev, next, j) = i
    BY <1>2, <2>1, <2>3, <2>5 DEF Comparable
  <2>7. QED BY <2>5, <2>6
<1>5. ASSUME NEW j \in IndicesOf(next) PROVE Place(next, At(next, j)) = j
  <2>1. Place(next, At(next, j)) \in IndicesOf(next) /\ At(next, Place(next, At(next, j))) = At(next, j)
    BY <1>0, <1>1, PlaceLaw
  <2>2. QED BY <1>3, <2>1
<1>6. QED BY <1>2, <1>3, <1>4, <1>5

\* calculate_moves_unsorted after the first k of the rows that stay: a row that
\* does not count as moved was before all those that come after it, and
\* the next expected place is behind that of such a row.
Sources(moves) == {moves[q].from : q \in DOMAIN moves}
Ends(moves) == {moves[q].to : q \in DOMAIN moves}
UnsortedState == [expected : Nat, moves : Seq(AMove), insertions : IndexSet, removed : IndexSet]
Done(prev, next, k) == {j \in IndicesOf(next) \ NewIn(prev, next) : Unshift(NewIn(prev, next), j) < k}
Unsorted(k, r, prev, next) ==
    /\ r \in UnsortedState /\ OneEach(r.moves)
    /\ r.insertions = NewIn(prev, next) \cup Ends(r.moves)
    /\ r.removed = Removed(prev, next) \cup Sources(r.moves)
    /\ \A q \in DOMAIN r.moves :
          r.moves[q].to \in Done(prev, next, k) /\ r.moves[q].from = WasAt(prev, next, r.moves[q].to)
    /\ \A j \in Done(prev, next, k) \ r.insertions, u \in IndicesOf(next) \ NewIn(prev, next) :
          j < u => WasAt(prev, next, j) < WasAt(prev, next, u)
    /\ r.expected = 0 \/ \E j \in Done(prev, next, k) \ r.insertions :
                            r.expected = Unshift(Gone(prev), WasAt(prev, next, j)) + 1

\* The next of them is behind those.
LEMMA DoneLaw ==
    ASSUME NEW prev, NEW next, Comparable(prev, next), NEW k \in Nat,
           NEW J \in IndicesOf(next) \ NewIn(prev, next), Unshift(NewIn(prev, next), J) = k
    PROVE  /\ \A j \in IndicesOf(next) \ NewIn(prev, next) : j \in Done(prev, next, k) <=> j < J
           /\ Done(prev, next, k + 1) = Done(prev, next, k) \cup {J}
<1> DEFINE N == NewIn(prev, next)
           Stay == IndicesOf(next) \ N
<1>0. N \in SUBSET Nat /\ Stay \subseteq Nat
  BY DEF NewIn, IndicesOf
<1> HIDE DEF N
<1>1. \A j \in Stay : j \in Nat /\ j \notin N /\ Unshift(N, j) \in Nat
  BY <1>0, UnshiftType
<1>2. \A j, u \in Stay : j < u => Unshift(N, j) < Unshift(N, u)
  BY <1>0, <1>1, UnshiftIsMonotonic
<1>3. J \in Stay /\ Unshift(N, J) = k
  BY DEF N
<1> HIDE DEF Stay
<1>4. \A j \in Stay : Unshift(N, j) < k <=> j < J
  <2>1. SUFFICES ASSUME NEW j \in Stay PROVE Unshift(N, j) < k <=> j < J
    OBVIOUS
  <2>2. (j < J => Unshift(N, j) < k) /\ (J < j => k < Unshift(N, j)) /\ (j = J => Unshift(N, j) = k)
    BY <1>2, <1>3
  <2>3. j \in Nat /\ J \in Nat /\ Unshift(N, j) \in Nat
    BY <1>1, <1>3
  <2>4. QED BY <2>2, <2>3
<1>5. \A j \in Stay : Unshift(N, j) < k + 1 <=> j < J \/ j = J
  <2>1. SUFFICES ASSUME NEW j \in Stay PROVE Unshift(N, j) < k + 1 <=> j < J \/ j = J
    OBVIOUS
  <2>2. (j < J => Unshift(N, j) < k) /\ (J < j => k < Unshift(N, j)) /\ (j = J => Unshift(N, j) = k)
    BY <1>2, <1>3
  <2>3. j \in Nat /\ J \in Nat /\ Unshift(N, j) \in Nat
    BY <1>1, <1>3
  <2>4. QED BY <2>2, <2>3
<1>6. \A n : Done(prev, next, n) = {j \in Stay : Unshift(N, j) < n}
  BY DEF Done, Stay, N
<1>7. Done(prev, next, k + 1) = Done(prev, next, k) \cup {J}
  BY <1>3, <1>4, <1>5, <1>6
<1>8. \A j \in Stay : j \in Done(prev, next, k) <=> j < J
  BY <1>4, <1>6
<1>9. QED BY <1>7, <1>8 DEF Stay, N

\* Below an index there are as many of two sets as of each.
LEMMA CountOfBoth ==
    ASSUME NEW S \in SUBSET Nat, NEW E \in SUBSET Nat, S \cap E = {}, NEW i \in Nat
    PROVE  Unshift(S \cup E, i) = Unshift(S, i) - CountBelow(E, i)
<1> DEFINE A == {x \in S : x < i}
           B == {x \in E : x < i}
           C == {x \in S \cup E : x < i}
<1>1. IsFiniteSet(A) /\ IsFiniteSet(B)
  BY BelowIsFinite
<1>2. A \cup B = C /\ A \cap B = {}
  OBVIOUS
<1>3. CountBelow(S, i) = Cardinality(A) /\ CountBelow(E, i) = Cardinality(B) /\ CountBelow(S \cup E, i) = Cardinality(C)
  BY Zenon DEF CountBelow
<1> HIDE DEF A, B, C
<1>4. Cardinality(C) = Cardinality(A) + Cardinality(B) - Cardinality({})
  BY <1>1, <1>2, FS_Union
<1>5. Cardinality({}) = 0 /\ Cardinality(A) \in Nat /\ Cardinality(B) \in Nat
  BY <1>1, FS_EmptySet, FS_CardinalityType
<1>6. QED BY <1>3, <1>4, <1>5 DEF Unshift

\* A row that is at the expected place, the next of those that are still there,
\* is before all that come after it.
LEMMA ExpectedIsBefore ==
    ASSUME NEW prev, NEW next, Comparable(prev, next), NEW k \in Nat, NEW r, Unsorted(k, r, prev, next),
           NEW J \in IndicesOf(next) \ NewIn(prev, next), Unshift(NewIn(prev, next), J) = k,
           Unshift(Gone(prev), WasAt(prev, next, J)) = r.expected,
           NEW u \in IndicesOf(next) \ NewIn(prev, next), J < u
    PROVE  WasAt(prev, next, J) < WasAt(prev, next, u)
<1> DEFINE G == Gone(prev)
           W(j) == WasAt(prev, next, j)
           Stay == IndicesOf(next) \ NewIn(prev, next)
<1>0. G \in SUBSET Nat /\ Stay \subseteq Nat
  BY DEF Gone, IndicesOf
<1>1. \A j \in Stay : W(j) \in Nat \ G
  BY WasAtLaw DEF IndicesOf
<1>2. \A j, v \in Stay : W(j) = W(v) => j = v
  BY WasAtLaw
<1>3. J \in Stay /\ u \in Stay /\ Unshift(G, W(J)) = r.expected
  OBVIOUS
<1>4. r.expected = 0 \/ \E j \in Stay : j < J /\ r.expected = Unshift(G, W(j)) + 1 /\ \A v \in Stay : j < v => W(j) < W(v)
  <2>1. \A j \in Done(prev, next, k) : j \in Stay /\ j < J
    BY DoneLaw DEF Done
  <2>2. QED BY <2>1 DEF Unsorted
<1> HIDE DEF G, W, Stay
<1> DEFINE x == W(J)
           y == W(u)
<1>5. x \in Nat \ G /\ y \in Nat \ G /\ x # y /\ J \in Nat /\ u \in Nat
  BY <1>0, <1>1, <1>2, <1>3
<1>6. Unshift(G, x) \in Nat /\ Unshift(G, y) \in Nat /\ Unshift(G, x) = r.expected
  BY <1>0, <1>3, <1>5, UnshiftType
<1> HIDE DEF x, y
<1>7. y < x => Unshift(G, y) < Unshift(G, x)
  BY <1>0, <1>5, UnshiftIsMonotonic
<1>8. CASE r.expected = 0
  <2>1. x < y
    BY <1>5, <1>6, <1>7, <1>8
  <2>2. QED BY <2>1 DEF x, y, W
<1>9. ASSUME NEW j \in Stay, j < J, r.expected = Unshift(G, W(j)) + 1, \A v \in Stay : j < v => W(j) < W(v)
      PROVE  x < y
  <2>1. j \in Nat /\ j < u
    BY <1>0, <1>5, <1>9
  <2>2. W(j) \in Nat \ G /\ W(j) < y
    BY <1>1, <1>3, <1>9, <2>1 DEF y
  <2>3. Unshift(G, W(j)) < Unshift(G, y) /\ Unshift(G, W(j)) \in Nat
    BY <1>0, <1>5, <2>2, UnshiftIsMonotonic, UnshiftType
  <2>4. QED BY <1>5, <1>6, <1>7, <1>9, <2>3
<1>10. x < y
  BY <1>4, <1>8, <1>9 DEF x, y, W
<1>11. QED BY <1>10 DEF x, y, W

\* So is one before which there are as many rows as were before it, of those that do
\* not count as moved.
LEMMA UnmovedIsBefore ==
    ASSUME NEW prev, NEW next, Comparable(prev, next), NEW k \in Nat, NEW r, Unsorted(k, r, prev, next),
           NEW J \in IndicesOf(next) \ NewIn(prev, next), Unshift(NewIn(prev, next), J) = k,
           Unshift(Gone(prev) \cup r.removed, WasAt(prev, next, J)) = Unshift(r.insertions, J),
           \A j \in Done(prev, next, k) \ r.insertions : WasAt(prev, next, j) < WasAt(prev, next, J),
           NEW u \in IndicesOf(next) \ NewIn(prev, next), J < u
    PROVE  WasAt(prev, next, J) < WasAt(prev, next, u)
<1> DEFINE G == Gone(prev) \cup r.removed
           I == r.insertions
           W(j) == WasAt(prev, next, j)
           Stay == IndicesOf(next) \ NewIn(prev, next)
           x == W(J)
           A == {i \in 1 .. x : i - 1 \notin G}
           B == {j \in 1 .. J : j - 1 \notin I}
           f == [j \in B |-> W(j - 1) + 1]
<1>0. prev \in Seq(Nat) /\ next \in Seq(Nat) /\ r \in UnsortedState /\ Stay \subseteq Nat
  BY DEF Comparable, Unsorted, IndicesOf
<1>1. G \in IndexSet /\ I \in IndexSet
  <2>1. Gone(prev) \in IndexSet
    BY <1>0, SomeIndices DEF Gone
  <2>2. r.removed \in IndexSet /\ I \in IndexSet
    BY <1>0 DEF UnsortedState
  <2>3. QED BY <2>1, <2>2, FS_Union DEF IndexSet
<1>2. \A j \in Stay : W(j) \in Nat /\ W(j) \notin Gone(prev) /\ W(j) \notin Removed(prev, next)
  BY WasAtLaw DEF IndicesOf
<1>3. \A j, v \in Stay : W(j) = W(v) => j = v
  BY WasAtLaw
<1>4. \A j \in Stay : j \in Done(prev, next, k) <=> j < J
  BY DoneLaw
<1>5. \A j \in IndicesOf(next) : j \notin I => j \in Stay
  BY DEF Unsorted
<1>6. \A j \in Stay : W(j) \in r.removed => j \in I /\ j < J
  <2>1. SUFFICES ASSUME NEW j \in Stay, W(j) \in r.removed PROVE j \in I /\ j < J
    OBVIOUS
  <2>2. PICK q \in DOMAIN r.moves : r.moves[q].from = W(j)
    BY <1>2, <2>1 DEF Unsorted, Sources
  <2>3. r.moves[q].to \in Done(prev, next, k) /\ r.moves[q].from = W(r.moves[q].to) /\ r.moves[q].to \in I
    BY DEF Unsorted, Ends
  <2>4. r.moves[q].to \in Stay
    BY <2>3 DEF Done
  <2>5. r.moves[q].to = j
    BY <1>3, <2>2, <2>3, <2>4
  <2>6. QED BY <1>4, <2>3, <2>5
<1>7. J \in Stay /\ J \in Nat /\ x \in Nat /\ J < Len(next) /\ Len(next) \in Nat
  BY <1>0, <1>2 DEF IndicesOf
<1>8. \A j \in Stay : j < J /\ j \notin I => W(j) < x
  BY <1>4
<1>9. Cardinality(A) = Unshift(G, x) /\ Cardinality(B) = Unshift(I, J)
  BY <1>1, <1>7, KeptCount
<1>10. Cardinality(B) = Cardinality(A)
  BY <1>9
<1>11. ASSUME NEW j \in B PROVE j - 1 \in Stay /\ j - 1 < J /\ f[j] = W(j - 1) + 1 /\ f[j] \in A
  <2>1. j - 1 \in IndicesOf(next) /\ j - 1 \notin I /\ j - 1 < J
    BY <1>7 DEF IndicesOf
  <2>2. j - 1 \in Stay
    BY <1>5, <2>1
  <2> DEFINE y == W(j - 1)
  <2>3. y \in Nat /\ y < x /\ y \notin G
    BY <1>2, <1>6, <1>8, <2>1, <2>2
  <2>4. f[j] = y + 1
    OBVIOUS
  <2> HIDE DEF y, G, x
  <2>5. y + 1 \in 1 .. x /\ (y + 1) - 1 = y
    BY <1>7, <2>3
  <2>6. f[j] \in A
    BY <2>3, <2>4, <2>5
  <2>7. QED BY <2>1, <2>2, <2>4, <2>6 DEF y
<1>12. \A j \in B : j \in Nat
  BY <1>7
<1>13. IsFiniteSet(A)
  <2>1. A \in SUBSET (1 .. x) /\ IsFiniteSet(1 .. x)
    BY <1>7, FS_Interval
  <2>2. QED BY <2>1, FS_Subset
<1>14. \A i \in Nat : i < x /\ i \notin G => i + 1 \in A
  <2> HIDE DEF G, x
  <2>1. QED BY <1>7
<1> HIDE DEF A, B, f, W, x, Stay, G, I
<1>15. \A i, j \in B : f[i] = f[j] => i = j
  <2>1. SUFFICES ASSUME NEW i \in B, NEW j \in B, f[i] = f[j] PROVE i = j
    OBVIOUS
  <2>2. W(i - 1) = W(j - 1)
    BY <1>2, <1>11, <2>1
  <2>3. i - 1 = j - 1
    BY <1>3, <1>11, <2>2
  <2>4. QED BY <1>12, <2>3
<1>16. f \in Injection(B, A)
  <2>1. f \in [B -> A]
    BY <1>11 DEF f
  <2>2. QED BY <1>15, <2>1 DEF Injection, IsInjective
<1>17. f \in Surjection(B, A)
  BY <1>10, <1>13, <1>16, FS_Injection
<1>18. u \in Stay /\ J < u /\ u \in Nat
  BY <1>0 DEF Stay
<1>19. ASSUME W(u) < x PROVE FALSE
  <2>1. W(u) \in Nat /\ W(u) \notin G
    BY <1>2, <1>6, <1>7, <1>18 DEF G
  <2>2. W(u) + 1 \in A
    BY <1>14, <1>19, <2>1
  <2>3. PICK j \in B : f[j] = W(u) + 1
    BY <1>17, <2>2, Zenon DEF Surjection
  <2>4. W(j - 1) = W(u)
    BY <1>2, <1>11, <2>1, <2>3
  <2>5. j - 1 = u
    BY <1>3, <1>11, <1>18, <2>4
  <2>6. QED BY <1>7, <1>11, <1>18, <2>5
<1>20. W(u) # x
  BY <1>3, <1>7, <1>18 DEF x
<1>21. x < W(u)
  BY <1>2, <1>7, <1>18, <1>19, <1>20
<1>22. QED BY <1>21 DEF x, W

\* A row that is no candidate was before all that come after it.
SettledOrder(prev, next, candidates) ==
    \A j, u \in IndicesOf(next) \ NewIn(prev, next) :
        At(next, j) \notin candidates /\ j < u => WasAt(prev, next, j) < WasAt(prev, next, u)

\* One more move has one more source and one more end.
LEMMA AppendedEnds ==
    ASSUME NEW v \in Seq(AMove), NEW p \in AMove, NEW u, u = Append(v, p)
    PROVE  /\ Sources(u) = Sources(v) \cup {p.from}
           /\ Ends(u) = Ends(v) \cup {p.to}
<1>1. u \in Seq(AMove) /\ Len(u) = Len(v) + 1 /\ (\A q \in 1 .. Len(v) : u[q] = v[q]) /\ u[Len(v) + 1] = p
  BY AppendProperties
<1>2. Len(v) \in Nat /\ DOMAIN v = 1 .. Len(v) /\ DOMAIN u = 1 .. Len(v) + 1
  BY <1>1
<1>3. \A q \in DOMAIN u : (q \in DOMAIN v /\ u[q] = v[q]) \/ u[q] = p
  BY <1>1, <1>2
<1>4. (\A q \in DOMAIN v : q \in DOMAIN u /\ u[q] = v[q]) /\ \E q \in DOMAIN u : u[q] = p
  BY <1>1, <1>2
<1>5. QED BY <1>3, <1>4 DEF Sources, Ends

\* It is a number, how many of a set are below an index.
LEMMA CountBelowType == ASSUME NEW S \in SUBSET Nat, NEW i \in Nat PROVE CountBelow(S, i) \in Nat
BY BelowIsFinite, FS_CardinalityType DEF CountBelow

\* Unsorted, of the rows K that are done.
LEMMA UnsortedIs ==
    ASSUME NEW prev, NEW next, NEW k, NEW r \in UnsortedState, NEW K, Done(prev, next, k) = K, OneEach(r.moves),
           r.insertions = NewIn(prev, next) \cup Ends(r.moves),
           r.removed = Removed(prev, next) \cup Sources(r.moves),
           \A q \in DOMAIN r.moves : r.moves[q].to \in K /\ r.moves[q].from = WasAt(prev, next, r.moves[q].to),
           \A j \in K \ r.insertions, u \in IndicesOf(next) \ NewIn(prev, next) :
              j < u => WasAt(prev, next, j) < WasAt(prev, next, u),
           r.expected = 0 \/ \E j \in K \ r.insertions : r.expected = Unshift(Gone(prev), WasAt(prev, next, j)) + 1
    PROVE  Unsorted(k, r, prev, next)
BY Zenon DEF Unsorted

\* Each step of calculate_moves_unsorted keeps it so.
LEMMA MoveStepLaw ==
    ASSUME NEW prev, NEW next, Comparable(prev, next), NEW candidates, SettledOrder(prev, next, candidates),
           NEW k \in Nat, NEW r, Unsorted(k, r, prev, next),
           NEW J \in IndicesOf(next) \ NewIn(prev, next), Unshift(NewIn(prev, next), J) = k
    PROVE  Unsorted(k + 1, MoveStep(r, At(next, J), prev, next, candidates), prev, next)
<1> DEFINE G == Gone(prev)
           W(j) == WasAt(prev, next, j)
           Stay == IndicesOf(next) \ NewIn(prev, next)
           K == Done(prev, next, k)
           x == W(J)
           row == At(next, J)
           shifted == Unshift(G, x)
           expected == J - CountBelow(r.insertions, J) + CountBelow(r.removed, x)
           n == MoveStep(r, row, prev, next, candidates)
<1>0. prev \in Seq(Nat) /\ next \in Seq(Nat) /\ r \in UnsortedState /\ Stay \subseteq Nat /\ G \in SUBSET Nat
  BY DEF Comparable, Unsorted, IndicesOf, Gone
<1>1. /\ r.expected \in Nat /\ r.moves \in Seq(AMove) /\ r.insertions \in IndexSet /\ r.removed \in IndexSet
      /\ r.removed \in SUBSET Nat
  BY <1>0 DEF UnsortedState, IndexSet
<1>2. Place(prev, row) = x /\ Place(next, row) = J
  BY WasAtLaw DEF WasAt
<1>3. n = IF shifted = r.expected \/ row \notin candidates \/ shifted = expected
          THEN [r EXCEPT !.expected = shifted + 1]
          ELSE [r EXCEPT !.moves = Append(@, Pair(x, J)),
                         !.insertions = @ \cup {J}, !.removed = @ \cup {x}]
  <2> DEFINE from == Place(prev, row)
             to == Place(next, row)
             sh == from - CountBelow(Gone(prev), from)
             ex == to - CountBelow(r.insertions, to) + CountBelow(r.removed, from)
  <2>1. n = IF sh = r.expected \/ row \notin candidates \/ sh = ex
            THEN [r EXCEPT !.expected = sh + 1]
            ELSE [r EXCEPT !.moves = Append(@, Pair(from, to)),
                           !.insertions = @ \cup {to}, !.removed = @ \cup {from}]
    BY Zenon DEF MoveStep
  <2>2. from = x /\ to = J
    BY <1>2
  <2>3. sh = shifted
    BY <2>2 DEF Unshift
  <2>4. ex = expected
    BY <2>2
  <2> HIDE DEF from, to, sh, ex, shifted, expected, x, n
  <2>5. QED BY <2>1, <2>2, <2>3, <2>4
<1>4. \A j \in Stay : W(j) \in Nat /\ W(j) \notin G
  BY WasAtLaw DEF IndicesOf
<1>5. \A j, v \in Stay : W(j) = W(v) => j = v
  BY WasAtLaw
<1>6. (\A j \in Stay : j \in K <=> j < J) /\ Done(prev, next, k + 1) = K \cup {J} /\ K \subseteq Stay
  BY DoneLaw DEF Done
<1>7. /\ OneEach(r.moves)
      /\ r.insertions = NewIn(prev, next) \cup Ends(r.moves)
      /\ r.removed = Removed(prev, next) \cup Sources(r.moves)
      /\ \A q \in DOMAIN r.moves : r.moves[q].to \in K /\ r.moves[q].from = W(r.moves[q].to)
      /\ \A j \in K \ r.insertions, u \in Stay : j < u => W(j) < W(u)
      /\ r.expected = 0 \/ \E j \in K \ r.insertions : r.expected = Unshift(G, W(j)) + 1
  BY Zenon DEF Unsorted
<1>8. J \in Stay /\ J \in Nat /\ x \in Nat /\ J \notin NewIn(prev, next) /\ J \notin K
  BY <1>0, <1>4, <1>6
<1>9. shifted \in Nat
  BY <1>0, <1>8, UnshiftType
<1>10. J \notin r.insertions
  <2>1. \A q \in DOMAIN r.moves : r.moves[q].to # J
    BY <1>7, <1>8
  <2>2. QED BY <1>7, <1>8, <2>1 DEF Ends
<1>11. G \cap r.removed = {}
  <2>1. G \cap Removed(prev, next) = {}
    BY DEF Removed
  <2>2. \A q \in DOMAIN r.moves : r.moves[q].from \notin G
    BY <1>4, <1>6, <1>7
  <2>3. QED BY <1>7, <2>1, <2>2 DEF Sources
<1> HIDE DEF n, W, K, x, G, Stay, row, shifted
<1>12. CASE shifted = r.expected \/ row \notin candidates \/ shifted = expected
  <2> DEFINE e == shifted + 1
  <2>1. n = [r EXCEPT !.expected = e] /\ e \in Nat
    BY <1>3, <1>9, <1>12
  <2> HIDE DEF e
  <2>2. /\ n \in UnsortedState /\ n.moves = r.moves /\ n.insertions = r.insertions /\ n.removed = r.removed
        /\ n.expected = e
    BY <1>0, <2>1 DEF UnsortedState
  <2>3. ASSUME NEW u \in Stay, J < u PROVE x < W(u)
    <3>1. CASE shifted = r.expected
      <4>1. Unshift(Gone(prev), WasAt(prev, next, J)) = r.expected
        BY <3>1 DEF shifted, G, x, W
      <4>2. WasAt(prev, next, J) < WasAt(prev, next, u)
        BY <2>3, <4>1, ExpectedIsBefore DEF Stay
      <4>3. QED BY <4>2 DEF x, W
    <3>2. CASE row \notin candidates
      BY <1>8, <2>3, <3>2 DEF SettledOrder, row, x, W, Stay
    <3>3. CASE shifted = expected
      <4>1. Unshift(G \cup r.removed, x) = shifted - CountBelow(r.removed, x)
        BY <1>0, <1>1, <1>8, <1>11, CountOfBoth DEF shifted
      <4>2. CountBelow(r.removed, x) \in Nat /\ CountBelow(r.insertions, J) \in Nat
        BY <1>1, <1>8, CountBelowType DEF IndexSet
      <4>3. Unshift(G \cup r.removed, x) = Unshift(r.insertions, J)
        BY <1>8, <1>9, <3>3, <4>1, <4>2 DEF Unshift
      <4>4. \A j \in K \ r.insertions : W(j) < W(J)
        BY <1>6, <1>7, <1>8
      <4>5. WasAt(prev, next, J) < WasAt(prev, next, u)
        BY <2>3, <4>3, <4>4, UnmovedIsBefore DEF Stay, G, K, W, x
      <4>6. QED BY <4>5 DEF x, W
    <3>4. QED BY <1>12, <3>1, <3>2, <3>3
  <2>4. ASSUME NEW j \in (K \cup {J}) \ r.insertions, NEW u \in Stay, j < u PROVE W(j) < W(u)
    <3>1. CASE j \in K
      BY <1>7, <2>4, <3>1
    <3>2. CASE j = J
      BY <2>3, <2>4, <3>2 DEF x
    <3>3. QED BY <3>1, <3>2
  <2>5. \E j \in (K \cup {J}) \ r.insertions : n.expected = Unshift(G, W(j)) + 1
    BY <1>10, <2>2 DEF e, shifted, x
  <2>6. \A q \in DOMAIN r.moves : r.moves[q].to \in K \cup {J} /\ r.moves[q].from = W(r.moves[q].to)
    BY <1>7
  <2>7. Unsorted(k + 1, n, prev, next)
    <3>1. n.expected = 0 \/ \E j \in (K \cup {J}) \ n.insertions : n.expected = Unshift(G, W(j)) + 1
      BY <2>2, <2>5
    <3>2. \A j \in (K \cup {J}) \ n.insertions, u \in Stay : j < u => W(j) < W(u)
      BY <2>2, <2>4
    <3>3. /\ n.insertions = NewIn(prev, next) \cup Ends(n.moves)
          /\ n.removed = Removed(prev, next) \cup Sources(n.moves)
          /\ OneEach(n.moves)
      BY <1>7, <2>2
    <3>4. \A q \in DOMAIN n.moves : n.moves[q].to \in K \cup {J} /\ n.moves[q].from = W(n.moves[q].to)
      BY <2>2, <2>6
    <3>5. QED BY <1>6, <2>2, <3>1, <3>2, <3>3, <3>4, UnsortedIs DEF K, Stay, W, G
  <2>8. QED BY <2>7 DEF n, row
<1>13. CASE ~(shifted = r.expected \/ row \notin candidates \/ shifted = expected)
  <2> DEFINE p == Pair(x, J)
             v == Append(r.moves, p)
  <2>1. n = [r EXCEPT !.moves = v, !.insertions = r.insertions \cup {J}, !.removed = r.removed \cup {x}]
    BY <1>3, <1>13
  <2>2. p \in AMove /\ p.from = x /\ p.to = J
    BY <1>8 DEF AMove, Pair
  <2> HIDE DEF p
  <2>3. v \in Seq(AMove) /\ (\A q \in DOMAIN v : (q \in DOMAIN r.moves /\ v[q] = r.moves[q]) \/ v[q] = p)
    BY <1>1, <2>2, AppendOne
  <2>4. OneEach(v)
    <3>1. \A q \in DOMAIN r.moves : r.moves[q].from # p.from /\ r.moves[q].to # p.to
      <4>1. SUFFICES ASSUME NEW q \in DOMAIN r.moves PROVE r.moves[q].from # x /\ r.moves[q].to # J
        BY <2>2
      <4>2. r.moves[q].to \in Stay /\ r.moves[q].to # J /\ r.moves[q].from = W(r.moves[q].to)
        BY <1>6, <1>7, <1>8
      <4>3. W(r.moves[q].to) # W(J)
        BY <1>5, <1>8, <4>2
      <4>4. QED BY <4>2, <4>3 DEF x
    <3>2. QED BY <1>1, <1>7, <2>2, <3>1, AppendOne
  <2>5. /\ Sources(v) = Sources(r.moves) \cup {x}
        /\ Ends(v) = Ends(r.moves) \cup {J}
    <3>1. /\ Sources(v) = Sources(r.moves) \cup {p.from}
          /\ Ends(v) = Ends(r.moves) \cup {p.to}
      <4>1. v = Append(r.moves, p)
        BY DEF v
      <4>2. r.moves \in Seq(AMove) /\ p \in AMove
        BY <1>1, <2>2
      <4>3. QED BY <4>1, <4>2, AppendedEnds
    <3>2. QED BY <2>2, <3>1
  <2>6. \A q \in DOMAIN v : v[q].to \in K \cup {J} /\ v[q].from = W(v[q].to)
    <3>1. SUFFICES ASSUME NEW q \in DOMAIN v PROVE v[q].to \in K \cup {J} /\ v[q].from = W(v[q].to)
      OBVIOUS
    <3>2. CASE q \in DOMAIN r.moves /\ v[q] = r.moves[q]
      BY <1>7, <3>2
    <3>3. CASE v[q] = p
      BY <2>2, <3>3 DEF x
    <3>4. QED BY <2>3, <3>2, <3>3
  <2> HIDE DEF v
  <2>7. r.insertions \cup {J} \in IndexSet /\ r.removed \cup {x} \in IndexSet
    BY <1>1, <1>8, IndexSetWith
  <2>8. /\ n \in UnsortedState /\ n.moves = v /\ n.insertions = r.insertions \cup {J} /\ n.removed = r.removed \cup {x}
        /\ n.expected = r.expected
    BY <1>0, <2>1, <2>3, <2>7 DEF UnsortedState
  <2>9. (K \cup {J}) \ n.insertions = K \ r.insertions
    BY <1>8, <2>8
  <2>10. Unsorted(k + 1, n, prev, next)
    <3>1. n.insertions = NewIn(prev, next) \cup Ends(n.moves)
      BY <1>7, <2>5, <2>8
    <3>2. n.removed = Removed(prev, next) \cup Sources(n.moves)
      BY <1>7, <2>5, <2>8
    <3>3. \A j \in (K \cup {J}) \ n.insertions, u \in Stay : j < u => W(j) < W(u)
      BY <1>7, <2>9
    <3>4. n.expected = 0 \/ \E j \in (K \cup {J}) \ n.insertions : n.expected = Unshift(G, W(j)) + 1
      BY <1>7, <2>8, <2>9
    <3>5. OneEach(n.moves) /\ \A q \in DOMAIN n.moves : n.moves[q].to \in K \cup {J} /\ n.moves[q].from = W(n.moves[q].to)
      BY <2>4, <2>6, <2>8
    <3>6. QED BY <1>6, <2>8, <3>1, <3>2, <3>3, <3>4, <3>5, UnsortedIs DEF K, Stay, W, G
  <2>11. QED BY <2>10 DEF n, row
<1>14. QED BY <1>12, <1>13

\* A step of calculate_moves_unsorted from any state.
LEMMA MoveStepType ==
    ASSUME NEW prev, NEW next, Comparable(prev, next), NEW candidates, NEW r \in UnsortedState,
           NEW J \in IndicesOf(next) \ NewIn(prev, next)
    PROVE  MoveStep(r, At(next, J), prev, next, candidates) \in UnsortedState
<1> DEFINE G == Gone(prev)
           from == Place(prev, At(next, J))
           to == Place(next, At(next, J))
           shifted == from - CountBelow(Gone(prev), from)
           expected == to - CountBelow(r.insertions, to) + CountBelow(r.removed, from)
           kept == [r EXCEPT !.expected = shifted + 1]
           moved == [r EXCEPT !.moves = Append(@, Pair(from, to)),
                              !.insertions = @ \cup {to}, !.removed = @ \cup {from}]
<1>1. MoveStep(r, At(next, J), prev, next, candidates)
         = IF shifted = r.expected \/ At(next, J) \notin candidates \/ shifted = expected THEN kept ELSE moved
  BY Zenon DEF MoveStep
<1>2. from \in Nat /\ to \in Nat /\ G \in SUBSET Nat
  BY WasAtLaw DEF WasAt, IndicesOf, Gone
<1>3. shifted \in Nat
  <2>1. shifted = Unshift(G, from)
    BY DEF Unshift
  <2> HIDE DEF shifted, from, G
  <2>2. QED BY <1>2, <2>1, UnshiftType
<1> HIDE DEF from, to, shifted, expected
<1>4. /\ r.expected \in Nat /\ r.moves \in Seq(AMove) /\ r.insertions \in IndexSet /\ r.removed \in IndexSet
      /\ shifted + 1 \in Nat
  BY <1>3 DEF UnsortedState
<1>5. Append(r.moves, Pair(from, to)) \in Seq(AMove)
  <2>1. Pair(from, to) \in AMove
    BY <1>2 DEF Pair, AMove
  <2>2. QED BY <1>4, <2>1, AppendOne
<1>6. r.insertions \cup {to} \in IndexSet /\ r.removed \cup {from} \in IndexSet
  BY <1>2, <1>4, IndexSetWith
<1>7. kept \in UnsortedState
  <2> DEFINE e == shifted + 1
  <2>1. e \in Nat /\ kept = [r EXCEPT !.expected = e]
    BY <1>4
  <2> HIDE DEF e, kept
  <2>2. QED BY <2>1 DEF UnsortedState
<1>8. moved \in UnsortedState
  <2> DEFINE v == Append(r.moves, Pair(from, to))
             A == r.insertions \cup {to}
             B == r.removed \cup {from}
  <2>1. moved = [r EXCEPT !.moves = v, !.insertions = A, !.removed = B] /\ v \in Seq(AMove) /\ A \in IndexSet /\ B \in IndexSet
    BY <1>5, <1>6
  <2> HIDE DEF v, A, B, moved
  <2>2. QED BY <2>1 DEF UnsortedState
<1>9. QED BY <1>1, <1>7, <1>8

\* calculate_moves_unsorted takes the rows that stay one by one.
LEMMA UnsortedSteps ==
    ASSUME NEW prev, NEW next, Comparable(prev, next), NEW candidates
    PROVE  \E g : /\ g[0] = [expected |-> 0, moves |-> <<>>, insertions |-> NewIn(prev, next), removed |-> Removed(prev, next)]
                  /\ \A k \in Nat : k < Len(Staying(next, prev)) =>
                        g[k + 1] = MoveStep(g[k], Staying(next, prev)[k + 1], prev, next, candidates)
                  /\ UnsortedMoves(prev, next, candidates, NewIn(prev, next)) = g[Len(Staying(next, prev))]
                  /\ g[0] \in UnsortedState
<1> DEFINE w == Staying(next, prev)
           n == Len(w)
           R == UnsortedState
           base == [expected |-> 0, moves |-> <<>>, insertions |-> NewIn(prev, next), removed |-> Removed(prev, next)]
           Step(r, row) == MoveStep(r, row, prev, next, candidates)
           IsFold(h) == h = [T \in SUBSET DOMAIN w |-> IF T = {} THEN base ELSE Step(h[T \ {Max(T)}], w[Max(T)])]
           H == CHOOSE h : IsFold(h)
           F == [k \in 1 .. n |-> [r \in R |-> Step(r, w[k])]]
           g == [k \in Nat |-> H[1 .. k]]
<1>0. prev \in Seq(Nat) /\ next \in Seq(Nat)
  BY DEF Comparable
<1>1. w \in Seq(Nat) /\ n \in Nat /\ DOMAIN w = 1 .. n
  BY <1>0, StayingLaw
<1>2. UnsortedMoves(prev, next, candidates, NewIn(prev, next)) = H[DOMAIN w]
  BY Zenon DEF UnsortedMoves, FoldLeft, MapThenFoldSet
<1>3. base \in R
  <2>1. NewIn(prev, next) \in IndexSet /\ Removed(prev, next) \in IndexSet
    <3>1. NewIn(prev, next) \in SUBSET IndicesOf(next) /\ Removed(prev, next) \in SUBSET IndicesOf(prev)
      BY DEF NewIn, Removed
    <3>2. QED BY <1>0, <3>1, SomeIndices
  <2>2. <<>> \in Seq(AMove)
    OBVIOUS
  <2>3. QED BY <2>1, <2>2 DEF UnsortedState
<1>4. ASSUME NEW k \in 1 .. n, NEW r \in R PROVE Step(r, w[k]) \in R
  <2> DEFINE J == Shift(NewIn(prev, next), k - 1)
  <2>1. J \in IndicesOf(next) \ NewIn(prev, next) /\ w[k] = At(next, J)
    BY <1>0, StayingLaw
  <2> HIDE DEF J, w
  <2>2. QED BY <2>1, MoveStepType
<1> HIDE DEF R, Step, base, n, w
<1>5. PICK h \in [SUBSET (1 .. n) -> R] :
         \A T \in SUBSET (1 .. n) : h[T] = IF T = {} THEN base ELSE F[Max(T)][h[T \ {Max(T)}]]
  <2>1. F \in [1 .. n -> [R -> R]]
    BY <1>4
  <2> HIDE DEF F
  <2>2. HasFold(n, R, base, F)
    BY <1>1, <1>3, <2>1, FoldExists
  <2>3. QED BY <2>2 DEF HasFold
<1>6. IsFold(h)
  <2>1. ASSUME NEW T \in SUBSET (1 .. n), T # {} PROVE F[Max(T)][h[T \ {Max(T)}]] = Step(h[T \ {Max(T)}], w[Max(T)])
    <3>1. Max(T) \in 1 .. n
      BY <1>1, <2>1, LastOfSome
    <3>2. h[T \ {Max(T)}] \in R
      OBVIOUS
    <3>3. QED BY <3>1, <3>2
  <2>2. h = [T \in SUBSET (1 .. n) |-> h[T]]
    OBVIOUS
  <2>3. QED BY <1>1, <1>5, <2>1, <2>2, Zenon
<1>7. IsFold(H)
  BY <1>6, Zenon
<1> HIDE DEF H, F
<1>8. g[0] = base
  <2>1. H[{}] = base
    BY <1>7, Zenon
  <2>2. g[0] = H[1 .. 0] /\ 1 .. 0 = {}
    BY FirstIndices
  <2>3. QED BY <2>1, <2>2
<1>9. ASSUME NEW k \in Nat, k < n PROVE g[k + 1] = Step(g[k], w[k + 1])
  <2>1. 1 .. k + 1 \in SUBSET DOMAIN w /\ 1 .. k + 1 # {} /\ Max(1 .. k + 1) = k + 1 /\ (1 .. k + 1) \ {k + 1} = 1 .. k
    <3>1. 1 .. k + 1 \in SUBSET DOMAIN w
      BY <1>1, <1>9
    <3>2. QED BY <3>1, FirstIndices, Zenon
  <2>2. H[1 .. k + 1] = Step(H[1 .. k], w[k + 1])
    BY <1>7, <2>1, Zenon
  <2>3. g[k] = H[1 .. k] /\ g[k + 1] = H[1 .. k + 1]
    OBVIOUS
  <2>4. QED BY <2>2, <2>3
<1>10. UnsortedMoves(prev, next, candidates, NewIn(prev, next)) = g[n]
  BY <1>1, <1>2
<1> HIDE DEF g
<1>11. QED BY <1>3, <1>8, <1>9, <1>10 DEF base, Step, n, w, R

\* So it is when all of them were taken.
LEMMA UnsortedLaw ==
    ASSUME NEW prev, NEW next, Comparable(prev, next), NEW candidates, SettledOrder(prev, next, candidates)
    PROVE  LET u == UnsortedMoves(prev, next, candidates, NewIn(prev, next))
           IN  /\ Unsorted(Len(Staying(next, prev)), u, prev, next)
               /\ Done(prev, next, Len(Staying(next, prev))) = IndicesOf(next) \ NewIn(prev, next)
<1> DEFINE w == Staying(next, prev)
           n == Len(w)
           N == NewIn(prev, next)
           Stay == IndicesOf(next) \ N
<1>0. prev \in Seq(Nat) /\ next \in Seq(Nat)
  BY DEF Comparable
<1>1. /\ N \in IndexSet /\ n \in Nat /\ n = Unshift(N, Len(next))
      /\ \A k \in 1 .. n : Shift(N, k - 1) \in Stay /\ Unshift(N, Shift(N, k - 1)) = k - 1 /\ w[k] = At(next, Shift(N, k - 1))
  BY <1>0, StayingLaw
<1>2. PICK g : /\ g[0] = [expected |-> 0, moves |-> <<>>, insertions |-> N, removed |-> Removed(prev, next)]
               /\ \A k \in Nat : k < n => g[k + 1] = MoveStep(g[k], w[k + 1], prev, next, candidates)
               /\ UnsortedMoves(prev, next, candidates, N) = g[n]
               /\ g[0] \in UnsortedState
  BY UnsortedSteps
<1> HIDE DEF w, n
<1> DEFINE P == {k \in Nat : k <= n => Unsorted(k, g[k], prev, next)}
<1>3. 0 \in P
  <2>1. Done(prev, next, 0) = {}
    <3>1. SUFFICES ASSUME NEW j \in Stay PROVE ~(Unshift(N, j) < 0)
      BY DEF Done
    <3>2. Unshift(N, j) \in Nat
      BY <1>1, UnshiftType DEF IndexSet, IndicesOf
    <3>3. QED BY <3>2
  <2>2. Ends(<<>>) = {} /\ Sources(<<>>) = {} /\ OneEach(<<>>)
    BY DEF Ends, Sources, OneEach
  <2>3. g[0].moves = <<>> /\ g[0].insertions = N /\ g[0].removed = Removed(prev, next) /\ g[0].expected = 0
    BY <1>2
  <2>4. Unsorted(0, g[0], prev, next)
    <3>1. DOMAIN <<>> = {}
      OBVIOUS
    <3>2. \A q \in DOMAIN g[0].moves : FALSE
      BY <2>3, <3>1
    <3>3. g[0].insertions = NewIn(prev, next) \cup Ends(g[0].moves) /\ g[0].removed = Removed(prev, next) \cup Sources(g[0].moves)
      BY <2>2, <2>3
    <3>4. OneEach(g[0].moves) /\ g[0].expected = 0
      BY <2>2, <2>3
    <3> HIDE DEF N
    <3>5. QED BY <1>2, <2>1, <3>2, <3>3, <3>4, UnsortedIs
  <2>5. QED BY <2>4
<1>4. ASSUME NEW k \in Nat, k \in P PROVE k + 1 \in P
  <2>1. SUFFICES ASSUME k + 1 <= n PROVE Unsorted(k + 1, g[k + 1], prev, next)
    OBVIOUS
  <2>2. k < n /\ k <= n /\ k + 1 \in 1 .. n /\ (k + 1) - 1 = k
    BY <1>1, <2>1
  <2> DEFINE J == Shift(N, k)
  <2>3. J \in Stay /\ Unshift(N, J) = k /\ w[k + 1] = At(next, J)
    BY <1>1, <2>2
  <2>4. g[k + 1] = MoveStep(g[k], At(next, J), prev, next, candidates)
    BY <1>2, <2>2, <2>3
  <2>5. Unsorted(k, g[k], prev, next)
    BY <1>4, <2>2
  <2> HIDE DEF J, P
  <2>6. Unsorted(k + 1, MoveStep(g[k], At(next, J), prev, next, candidates), prev, next)
    BY <2>3, <2>5, MoveStepLaw
  <2>7. QED BY <2>4, <2>6
<1> HIDE DEF P
<1>5. n \in P
  BY <1>1, <1>3, <1>4, Induction
<1>6. Unsorted(n, g[n], prev, next)
  BY <1>1, <1>5 DEF P
<1>7. ASSUME NEW j \in Stay PROVE Unshift(N, j) < n
  <2>1. N \in SUBSET Nat /\ j \in Nat /\ j < Len(next) /\ Len(next) \in Nat /\ j \notin N
    BY <1>0, <1>1 DEF IndexSet, IndicesOf
  <2>2. QED BY <1>1, <2>1, UnshiftIsMonotonic
<1>8. Done(prev, next, n) = Stay
  BY <1>7 DEF Done
<1>9. QED BY <1>2, <1>6, <1>8 DEF n, w

\* What it leaves where it is, is matched.
LEMMA UnsortedMatched ==
    ASSUME NEW prev, NEW next, Comparable(prev, next), NEW candidates, SettledOrder(prev, next, candidates)
    PROVE  LET u == UnsortedMoves(prev, next, candidates, NewIn(prev, next))
           IN  /\ u \in UnsortedState /\ OneEach(u.moves)
               /\ \A q \in DOMAIN u.moves :
                     /\ u.moves[q].to \in u.insertions /\ u.moves[q].to \in IndicesOf(next) \ NewIn(prev, next)
                     /\ u.moves[q].from \in u.removed /\ u.moves[q].from \in IndicesOf(prev)
                     /\ At(prev, u.moves[q].from) = At(next, u.moves[q].to)
               /\ \A j \in IndicesOf(next) : j \notin u.insertions => j \notin NewIn(prev, next)
               /\ u.insertions \subseteq IndicesOf(next)
               /\ Gone(prev) \cup u.removed \in IndexSet
               /\ Matched(Gone(prev) \cup u.removed, u.insertions, prev, next)
<1> DEFINE u == UnsortedMoves(prev, next, candidates, NewIn(prev, next))
           N == NewIn(prev, next)
           G == Gone(prev)
           W(j) == WasAt(prev, next, j)
           Stay == IndicesOf(next) \ N
<1>1. Unsorted(Len(Staying(next, prev)), u, prev, next) /\ Done(prev, next, Len(Staying(next, prev))) = Stay
  BY UnsortedLaw
<1> HIDE DEF u
<1>2. /\ u \in UnsortedState /\ OneEach(u.moves)
      /\ u.insertions = N \cup Ends(u.moves)
      /\ u.removed = Removed(prev, next) \cup Sources(u.moves)
      /\ \A q \in DOMAIN u.moves : u.moves[q].to \in Stay /\ u.moves[q].from = W(u.moves[q].to)
      /\ \A j \in Stay \ u.insertions, v \in Stay : j < v => W(j) < W(v)
  BY <1>1, Zenon DEF Unsorted
<1>3. \A j \in Stay : /\ W(j) \in IndicesOf(prev) /\ At(prev, W(j)) = At(next, j)
                      /\ W(j) \notin G /\ W(j) \notin Removed(prev, next)
  BY WasAtLaw
<1>4. \A j, v \in Stay : W(j) = W(v) => j = v
  BY WasAtLaw
<1>5. \A i \in IndicesOf(prev) : i \notin G /\ i \notin Removed(prev, next) => \E j \in Stay : W(j) = i
  BY WasAtLaw
<1>6. prev \in Seq(Nat) /\ next \in Seq(Nat) /\ G \in IndexSet /\ u.removed \in IndexSet
  <2>1. prev \in Seq(Nat) /\ next \in Seq(Nat)
    BY DEF Comparable
  <2>2. G \in SUBSET IndicesOf(prev)
    BY DEF Gone
  <2>3. G \in IndexSet
    BY <2>1, <2>2, SomeIndices
  <2>4. QED BY <1>2, <2>1, <2>3 DEF UnsortedState
<1>7. G \cup u.removed \in IndexSet
  BY <1>6, FS_Union DEF IndexSet
<1>8. N \subseteq IndicesOf(next) /\ Stay \subseteq IndicesOf(next)
  BY DEF NewIn
<1>9. Stay \subseteq Nat
  BY DEF IndicesOf
<1>10. \A j \in Stay : j \in IndicesOf(next) /\ j \notin N
  OBVIOUS
<1>11. \A j \in IndicesOf(next) : j \notin u.insertions => j \in Stay
  BY <1>2
<1>12. \A j, l \in IndicesOf(next) : At(next, j) = At(next, l) => j = l
  BY DEF Comparable, Distinct
<1> HIDE DEF N, G, W, Stay
<1>13. ASSUME NEW q \in DOMAIN u.moves
       PROVE  /\ u.moves[q].to \in u.insertions /\ u.moves[q].to \in Stay
              /\ u.moves[q].from \in u.removed /\ u.moves[q].from \in IndicesOf(prev)
              /\ At(prev, u.moves[q].from) = At(next, u.moves[q].to)
  BY <1>2, <1>3 DEF Ends, Sources
<1>14. u.insertions \subseteq IndicesOf(next)
  BY <1>2, <1>8 DEF Ends
<1> DEFINE D == G \cup u.removed
           I == u.insertions
<1>15. ASSUME NEW j \in IndicesOf(next) \ I PROVE j \in Stay /\ W(j) \in IndicesOf(prev) \ D /\ At(prev, W(j)) = At(next, j)
  <2>1. j \in Stay
    BY <1>11
  <2>2. W(j) \notin Sources(u.moves)
    <3>1. SUFFICES ASSUME NEW q \in DOMAIN u.moves, u.moves[q].from = W(j) PROVE FALSE
      BY DEF Sources
    <3>2. u.moves[q].to = j
      BY <1>2, <1>4, <2>1, <3>1
    <3>3. QED BY <1>13, <3>2
  <2>3. QED BY <1>2, <1>3, <2>1, <2>2
<1>16. ASSUME NEW i \in IndicesOf(prev) \ D PROVE \E j \in IndicesOf(next) \ I : W(j) = i
  <2>1. PICK j \in Stay : W(j) = i
    BY <1>2, <1>5
  <2>2. j \notin I
    <3>1. SUFFICES ASSUME j \in I PROVE FALSE
      OBVIOUS
    <3>2. j \in Ends(u.moves)
      BY <1>2, <1>10, <3>1
    <3>3. PICK q \in DOMAIN u.moves : u.moves[q].to = j
      BY <3>2 DEF Ends
    <3>4. QED BY <1>2, <1>13, <2>1, <3>3
  <2>3. QED BY <1>10, <2>1, <2>2
<1>17. ASSUME NEW i \in IndicesOf(prev) \ D, NEW j \in IndicesOf(next) \ I, At(prev, i) = At(next, j) PROVE W(j) = i
  <2>1. PICK l \in IndicesOf(next) \ I : W(l) = i
    BY <1>16
  <2>2. At(next, l) = At(next, j)
    BY <1>15, <1>17, <2>1
  <2>3. QED BY <1>12, <2>1, <2>2
<1>18. ASSUME NEW i \in IndicesOf(prev) \ D, NEW k \in IndicesOf(prev) \ D,
              NEW j \in IndicesOf(next) \ I, NEW l \in IndicesOf(next) \ I,
              At(prev, i) = At(next, j), At(prev, k) = At(next, l), i < k
       PROVE  j < l
  <2>1. W(j) = i /\ W(l) = k /\ j \in Stay /\ l \in Stay
    BY <1>15, <1>17, <1>18
  <2>2. j \in Nat /\ l \in Nat /\ i \in Nat /\ k \in Nat
    BY <1>9, <2>1 DEF IndicesOf
  <2>3. l < j => k < i
    BY <1>2, <2>1
  <2>4. j # l
    BY <1>18, <2>1, <2>2
  <2>5. QED BY <1>18, <2>2, <2>3, <2>4
<1>19. Matched(D, I, prev, next)
  <2>1. \A i \in IndicesOf(prev) \ D : \E j \in IndicesOf(next) \ I : At(prev, i) = At(next, j)
    BY <1>15, <1>16
  <2>2. \A j \in IndicesOf(next) \ I : \E i \in IndicesOf(prev) \ D : At(prev, i) = At(next, j)
    BY <1>15
  <2> HIDE DEF D, I
  <2>3. QED BY <1>18, <2>1, <2>2 DEF Matched
<1>20. QED BY <1>2, <1>7, <1>10, <1>11, <1>13, <1>14, <1>19 DEF u, N, G, Stay

-----------------------------------------------------------------------------
(* Results in any other order                                              *)

Match == [i : Nat, j : Nat, size : Nat, modified : Nat]
IsBox(a, b, box) == box \in [i0 : 0 .. Len(a), i1 : 0 .. Len(a), j0 : 0 .. Len(b), j1 : 0 .. Len(b)]

\* A match is a block that both have, in a box if it is one of rows at all.
Common(m, a, b) == \A k \in 0 .. m.size - 1 : At(a, m.i + k) = At(b, m.j + k)
IsIn(m, box) == box.i0 <= m.i /\ m.i + m.size <= box.i1 /\ box.j0 <= m.j /\ m.j + m.size <= box.j1
IsMatch(m, a, b, box) == m \in Match /\ Common(m, a, b) /\ (m.size # 0 => IsIn(m, box))

\* The lesser of two.
LEMMA LesserOf == ASSUME NEW x \in Nat, NEW y \in Nat PROVE Min({x, y}) \in Nat /\ Min({x, y}) <= x /\ Min({x, y}) <= y
<1>1. \E z \in {x, y} : \A w \in {x, y} : z <= w
  OBVIOUS
<1>2. Min({x, y}) \in {x, y} /\ \A w \in {x, y} : Min({x, y}) <= w
  BY <1>1, Zenon DEF Min
<1>3. QED BY <1>2

\* A block of n rows that ends at i in a and at j in b.
IsBlock(n, a, b, i, j, i0, j0) ==
    /\ n \in Nat \ {0} /\ n <= i - i0 + 1 /\ n <= j - j0 + 1
    /\ \A k \in 0 .. n - 1 : At(a, i - k) = At(b, j - k)

\* The block that ends at two places with the same row.
LEMMA EndingAtLaw ==
    ASSUME NEW a, NEW b, NEW i \in Nat, NEW j \in Nat, NEW i0 \in Nat, NEW j0 \in Nat, i0 <= i, j0 <= j,
           At(a, i) = At(b, j)
    PROVE  IsBlock(EndingAt(a, b, i, j, i0, j0), a, b, i, j, i0, j0)
<1> DEFINE m == Min({i - i0, j - j0})
           S == {n \in 1 .. m + 1 : \A k \in 0 .. n - 1 : At(a, i - k) = At(b, j - k)}
           n == EndingAt(a, b, i, j, i0, j0)
<1>1. m \in Nat /\ m <= i - i0 /\ m <= j - j0
  <2> DEFINE x == i - i0
             y == j - j0
  <2>1. x \in Nat /\ y \in Nat
    OBVIOUS
  <2>2. m = Min({x, y})
    OBVIOUS
  <2> HIDE DEF x, y, m
  <2>3. m \in Nat /\ m <= x /\ m <= y
    BY <2>1, <2>2, LesserOf
  <2>4. QED BY <2>3 DEF x, y
<1>2. n = Max(S)
  BY Zenon DEF EndingAt
<1> HIDE DEF m, n
<1>3. S \in IndexSet
  <2>1. S \in SUBSET (1 .. m + 1) /\ IsFiniteSet(1 .. m + 1) /\ 1 .. m + 1 \subseteq Nat
    <3>1. S \in SUBSET (1 .. m + 1)
      OBVIOUS
    <3>2. 1 \in Int /\ m + 1 \in Int
      BY <1>1
    <3> HIDE DEF S
    <3>3. IsFiniteSet(1 .. m + 1)
      BY <3>2, FS_Interval
    <3>4. QED BY <3>1, <3>3
  <2> HIDE DEF S
  <2>2. IsFiniteSet(S)
    BY <2>1, FS_Subset
  <2>3. S \in SUBSET Nat
    BY <2>1, Zenon
  <2>4. QED BY <2>2, <2>3 DEF IndexSet
<1>4. 1 \in S
  <2>1. 1 \in 1 .. m + 1
    BY <1>1
  <2>2. ASSUME NEW k \in 0 .. 1 - 1 PROVE At(a, i - k) = At(b, j - k)
    <3>1. i - k = i /\ j - k = j
      OBVIOUS
    <3>2. QED BY <3>1
  <2>3. QED BY <2>1, <2>2
<1>5. n \in S
  <2> HIDE DEF S
  <2>1. Max(S) \in S
    BY <1>3, <1>4, GreatestOf
  <2>2. QED BY <1>2, <2>1
<1>6. n \in 1 .. m + 1 /\ \A k \in 0 .. n - 1 : At(a, i - k) = At(b, j - k)
  BY <1>5
<1>7. n \in Nat \ {0} /\ n <= i - i0 + 1 /\ n <= j - j0 + 1
  BY <1>1, <1>6
<1>8. QED BY <1>6, <1>7 DEF n, IsBlock

\* How many there are of a set is a number.
LEMMA CountInType == ASSUME NEW S \in IndexSet, NEW x, NEW y PROVE CountIn(S, x, y) \in Nat
<1> DEFINE T == {s \in S : x <= s /\ s < y}
<1>1. T \in SUBSET S /\ IsFiniteSet(S)
  BY DEF IndexSet
<1>2. CountIn(S, x, y) = Cardinality(T)
  BY Zenon DEF CountIn
<1> HIDE DEF T
<1>3. QED BY <1>1, <1>2, FS_Subset, FS_CardinalityType

\* Whichever is better, it is a match.
LEMMA BetterMatchLaw ==
    ASSUME NEW a, NEW b, NEW box, IsBox(a, b, box), NEW modified \in IndexSet, NEW best, IsMatch(best, a, b, box),
           NEW i \in Nat, NEW j \in Nat, NEW size \in Nat \ {0}, i < box.i1, j < box.j1,
           size <= i - box.i0 + 1, size <= j - box.j0 + 1,
           \A k \in 0 .. size - 1 : At(a, i - k) = At(b, j - k)
    PROVE  IsMatch(BetterMatch(best, i, j, size, modified), a, b, box)
<1> DEFINE Count(x) == IF x - size + 1 < 0 THEN 0 ELSE CountIn(modified, x - size + 1, x + 1)
           known == IF best.modified = NPos THEN Count(best.j) ELSE best.modified
           this == [i |-> i - size + 1, j |-> j - size + 1, size |-> size, modified |-> NPos]
<1>1. BetterMatch(best, i, j, size, modified)
        = IF size > best.size THEN this
          ELSE IF size < best.size THEN best
          ELSE IF Count(j) < known THEN [this EXCEPT !.modified = Count(j)]
          ELSE [best EXCEPT !.modified = known]
  BY Zenon DEF BetterMatch
<1>2. \A x : Count(x) \in Nat
  BY CountInType
<1>3. best \in Match /\ Common(best, a, b) /\ (best.size # 0 => IsIn(best, box))
  BY DEF IsMatch
<1>4. /\ box.i0 \in Nat /\ box.i1 \in Nat /\ box.j0 \in Nat /\ box.j1 \in Nat
  BY DEF IsBox
<1>5. NPos \in Nat
  BY ChangeSetsAssumption DEF NPos
<1> HIDE DEF Count
<1>6. known \in Nat
  BY <1>2, <1>3 DEF Match
<1> HIDE DEF known
<1>7. ASSUME NEW c \in Nat PROVE IsMatch([best EXCEPT !.modified = c], a, b, box)
  <2> DEFINE m == [best EXCEPT !.modified = c]
  <2>1. m \in Match /\ m.i = best.i /\ m.j = best.j /\ m.size = best.size
    BY <1>3 DEF Match
  <2> HIDE DEF m
  <2>2. Common(m, a, b) /\ (m.size # 0 => IsIn(m, box))
    BY <1>3, <2>1 DEF Common, IsIn
  <2>3. QED BY <2>1, <2>2 DEF IsMatch, m
<1>8. ASSUME NEW c \in Nat, NEW m, m = [i |-> i - size + 1, j |-> j - size + 1, size |-> size, modified |-> c]
      PROVE IsMatch(m, a, b, box)
  <2> DEFINE x == i - size + 1
             y == j - size + 1
  <2>1. x \in Nat /\ y \in Nat /\ box.i0 <= x /\ box.j0 <= y /\ x + size <= box.i1 /\ y + size <= box.j1
    BY <1>4
  <2>2. ASSUME NEW k \in 0 .. size - 1 PROVE At(a, x + k) = At(b, y + k)
    <3>1. size - 1 - k \in 0 .. size - 1 /\ i - (size - 1 - k) = x + k /\ j - (size - 1 - k) = y + k
      OBVIOUS
    <3>2. At(a, i - (size - 1 - k)) = At(b, j - (size - 1 - k))
      BY <3>1
    <3>3. QED BY <3>1, <3>2
  <2> HIDE DEF x, y
  <2>3. m = [i |-> x, j |-> y, size |-> size, modified |-> c]
    BY <1>8 DEF x, y
  <2>4. m \in Match /\ m.i = x /\ m.j = y /\ m.size = size
    BY <2>1, <2>3 DEF Match
  <2>5. Common(m, a, b) /\ IsIn(m, box)
    BY <2>1, <2>2, <2>4 DEF Common, IsIn
  <2>6. QED BY <2>4, <2>5 DEF IsMatch
<1>9. [this EXCEPT !.modified = Count(j)] = [i |-> i - size + 1, j |-> j - size + 1, size |-> size, modified |-> Count(j)]
  OBVIOUS
<1>10. IsMatch(this, a, b, box) /\ IsMatch([this EXCEPT !.modified = Count(j)], a, b, box)
  BY <1>2, <1>5, <1>8, <1>9
<1>11. IsMatch([best EXCEPT !.modified = known], a, b, box)
  BY <1>6, <1>7
<1> HIDE DEF this
<1>12. QED BY <1>1, <1>10, <1>11, Zenon

\* What calculate compares in any order: the same rows, all different.
SameRows(a, b) ==
    a \in Seq(Nat) /\ b \in Seq(Nat) /\ Len(a) = Len(b) /\ \A i \in IndicesOf(a) : At(a, i) \in ToSet(b)

\* find_longest_match.
LEMMA LongestMatchLaw ==
    ASSUME NEW a, NEW b, SameRows(a, b), NEW box, IsBox(a, b, box), NEW modified \in IndexSet
    PROVE  IsMatch(LongestMatch(a, b, box, modified), a, b, box)
<1> DEFINE w == [k \in 1 .. (box.i1 - box.i0) |-> box.i0 + k - 1]
           n == IF box.i0 <= box.i1 THEN box.i1 - box.i0 ELSE 0
           R == {m \in Match : IsMatch(m, a, b, box)}
           base == [i |-> box.i0, j |-> box.j0, size |-> 0, modified |-> 0]
           Step(best, i) == LET j == Place(b, At(a, i))
                            IN  IF box.j0 <= j /\ j < box.j1
                                THEN BetterMatch(best, i, j, EndingAt(a, b, i, j, box.i0, box.j0), modified)
                                ELSE best
           IsFold(h) == h = [T \in SUBSET DOMAIN w |-> IF T = {} THEN base ELSE Step(h[T \ {Max(T)}], w[Max(T)])]
           H == CHOOSE h : IsFold(h)
           F == [k \in 1 .. n |-> [r \in R |-> Step(r, w[k])]]
<1>0. /\ a \in Seq(Nat) /\ b \in Seq(Nat) /\ \A i \in IndicesOf(a) : At(a, i) \in ToSet(b)
      /\ box.i0 \in Nat /\ box.i1 \in Nat /\ box.j0 \in Nat /\ box.j1 \in Nat /\ box.i1 <= Len(a)
  BY DEF SameRows, IsBox
<1>1. n \in Nat /\ DOMAIN w = 1 .. n
  <2>1. n \in Nat
    BY <1>0
  <2>2. 1 .. (box.i1 - box.i0) = 1 .. n
    BY <1>0
  <2> HIDE DEF n
  <2>3. QED BY <2>1, <2>2
<1>2. LongestMatch(a, b, box, modified) = H[DOMAIN w]
  BY Zenon DEF LongestMatch, FoldLeft, MapThenFoldSet
<1>3. base \in R
  <2>1. base \in Match /\ base.size = 0
    BY <1>0 DEF Match
  <2> HIDE DEF base
  <2>2. IsMatch(base, a, b, box)
    BY <2>1 DEF IsMatch, Common
  <2>3. QED BY <2>1, <2>2
<1>4. ASSUME NEW k \in 1 .. n, NEW best \in R PROVE Step(best, w[k]) \in R
  <2> DEFINE i == w[k]
             j == Place(b, At(a, i))
             size == EndingAt(a, b, i, j, box.i0, box.j0)
  <2>1. i \in Nat /\ box.i0 <= i /\ i < box.i1 /\ i \in IndicesOf(a)
    <3>1. k \in 1 .. (box.i1 - box.i0) /\ box.i0 <= box.i1 /\ k \in Nat /\ k <= box.i1 - box.i0
      BY <1>0
    <3>2. i = box.i0 + k - 1
      BY <3>1, Zenon
    <3> HIDE DEF i
    <3>3. i \in Nat /\ box.i0 <= i /\ i < box.i1
      BY <1>0, <3>1, <3>2
    <3>4. QED BY <1>0, <3>3 DEF IndicesOf
  <2> HIDE DEF i
  <2>2. j \in IndicesOf(b) /\ At(b, j) = At(a, i) /\ j \in Nat
    <3>1. j \in IndicesOf(b) /\ At(b, j) = At(a, i)
      BY <1>0, <2>1, PlaceLaw
    <3> HIDE DEF j
    <3>2. QED BY <3>1 DEF IndicesOf
  <2>3. Step(best, i) = IF box.j0 <= j /\ j < box.j1 THEN BetterMatch(best, i, j, size, modified) ELSE best
    OBVIOUS
  <2> HIDE DEF j, Step
  <2>4. CASE box.j0 <= j /\ j < box.j1
    <3>1. /\ size \in Nat \ {0} /\ size <= i - box.i0 + 1 /\ size <= j - box.j0 + 1
          /\ \A x \in 0 .. size - 1 : At(a, i - x) = At(b, j - x)
      <4>1. IsBlock(size, a, b, i, j, box.i0, box.j0)
        BY <1>0, <2>1, <2>2, <2>4, EndingAtLaw
      <4> HIDE DEF size
      <4>2. QED BY <4>1 DEF IsBlock
    <3> HIDE DEF size
    <3>2. IsMatch(BetterMatch(best, i, j, size, modified), a, b, box)
      BY <2>1, <2>2, <2>4, <3>1, BetterMatchLaw
    <3>3. BetterMatch(best, i, j, size, modified) \in R
      BY <3>2 DEF IsMatch
    <3>4. QED BY <2>3, <2>4, <3>3 DEF i
  <2>5. CASE ~(box.j0 <= j /\ j < box.j1)
    BY <2>3, <2>5 DEF i
  <2>6. QED BY <2>4, <2>5
<1> HIDE DEF R, Step, base, n, w
<1>5. PICK h \in [SUBSET (1 .. n) -> R] :
         \A T \in SUBSET (1 .. n) : h[T] = IF T = {} THEN base ELSE F[Max(T)][h[T \ {Max(T)}]]
  <2>1. F \in [1 .. n -> [R -> R]]
    BY <1>4
  <2> HIDE DEF F
  <2>2. HasFold(n, R, base, F)
    BY <1>1, <1>3, <2>1, FoldExists
  <2>3. QED BY <2>2 DEF HasFold
<1>6. IsFold(h)
  <2>1. ASSUME NEW T \in SUBSET (1 .. n), T # {} PROVE F[Max(T)][h[T \ {Max(T)}]] = Step(h[T \ {Max(T)}], w[Max(T)])
    <3>1. Max(T) \in 1 .. n
      BY <1>1, <2>1, LastOfSome
    <3>2. h[T \ {Max(T)}] \in R
      OBVIOUS
    <3>3. QED BY <3>1, <3>2
  <2>2. h = [T \in SUBSET (1 .. n) |-> h[T]]
    OBVIOUS
  <2>3. QED BY <1>1, <1>5, <2>1, <2>2, Zenon
<1>7. IsFold(H)
  BY <1>6, Zenon
<1> HIDE DEF H, F
<1>8. H[{}] = base
  BY <1>7, Zenon
<1>9. ASSUME NEW T \in SUBSET (1 .. n), T # {}, H[T \ {Max(T)}] \in R PROVE H[T] \in R
  <2>1. H[T] = Step(H[T \ {Max(T)}], w[Max(T)])
    BY <1>1, <1>7, <1>9, Zenon
  <2>2. Max(T) \in 1 .. n
    BY <1>1, <1>9, LastOfSome
  <2>3. QED BY <1>4, <1>9, <2>1, <2>2
<1>10. H[1 .. n] \in R
  BY <1>1, <1>3, <1>8, <1>9, FoldStays
<1>11. QED BY <1>1, <1>2, <1>10 DEF R

\* The first block is in both collections before the other.
Precedes(m, n) == m.i + m.size <= n.i /\ m.j + m.size <= n.j

\* Blocks of some rows, one after the other in both.
InLine(M, a, b, box) ==
    /\ \A m \in M : m.size # 0 /\ IsMatch(m, a, b, box)
    /\ \A m, n \in M : m = n \/ Precedes(m, n) \/ Precedes(n, m)

\* Bounds of bounds.
LEMMA AtMost == ASSUME NEW x \in Nat, NEW y \in Nat, NEW z \in Nat, x <= y, y <= z PROVE x <= z
  OBVIOUS

\* find_longest_matches: a longest one, those before it and those behind it.
LEMMA MatchesInLaw ==
    ASSUME NEW a, NEW b, SameRows(a, b), NEW box, IsBox(a, b, box), NEW modified \in IndexSet,
           NEW inner, \A x : IsBox(a, b, x) => InLine(inner[x], a, b, x)
    PROVE  InLine(MatchesIn(a, b, box, modified, inner), a, b, box)
<1> DEFINE m == LongestMatch(a, b, box, modified)
           left == Box(box.i0, m.i, box.j0, m.j)
           right == Box(m.i + m.size, box.i1, m.j + m.size, box.j1)
           L == IF m.i > box.i0 /\ m.j > box.j0 THEN inner[left] ELSE {}
           R == IF m.i + m.size < box.j1 /\ m.j + m.size < box.j1 THEN inner[right] ELSE {}
           M == MatchesIn(a, b, box, modified, inner)
<1>1. M = IF m.size = 0 THEN {} ELSE {m} \cup L \cup R
  BY Zenon DEF MatchesIn
<1>2. IsMatch(m, a, b, box)
  BY LongestMatchLaw
<1> HIDE DEF m, M
<1>3. CASE m.size = 0
  <2>1. M = {}
    BY <1>1, <1>3
  <2>2. InLine({}, a, b, box)
    BY DEF InLine
  <2>3. QED BY <2>1, <2>2 DEF M
<1>4. CASE m.size # 0
  <2>1. m \in Match /\ IsIn(m, box)
    BY <1>2, <1>4 DEF IsMatch
  <2>2. /\ box.i0 \in Nat /\ box.i1 \in Nat /\ box.j0 \in Nat /\ box.j1 \in Nat /\ Len(a) \in Nat /\ Len(b) \in Nat
        /\ box.i1 <= Len(a) /\ box.j1 <= Len(b) /\ box.i0 <= Len(a) /\ box.j0 <= Len(b)
    <3>1. Len(a) \in Nat /\ Len(b) \in Nat
      BY DEF SameRows
    <3>2. box.i0 \in 0 .. Len(a) /\ box.i1 \in 0 .. Len(a)
      BY DEF IsBox
    <3>3. box.j0 \in 0 .. Len(b) /\ box.j1 \in 0 .. Len(b)
      BY DEF IsBox
    <3>4. box.i0 \in Nat /\ box.i1 \in Nat /\ box.i1 <= Len(a) /\ box.i0 <= Len(a)
      BY <3>1, <3>2
    <3>5. box.j0 \in Nat /\ box.j1 \in Nat /\ box.j1 <= Len(b) /\ box.j0 <= Len(b)
      BY <3>1, <3>3
    <3>6. QED BY <3>1, <3>4, <3>5
  <2>3. /\ m.i \in Nat /\ m.j \in Nat /\ m.size \in Nat
        /\ box.i0 <= m.i /\ m.i + m.size <= box.i1 /\ box.j0 <= m.j /\ m.j + m.size <= box.j1
    BY <2>1 DEF Match, IsIn
  <2>4. IsBox(a, b, left) /\ left.i0 = box.i0 /\ left.i1 = m.i /\ left.j0 = box.j0 /\ left.j1 = m.j
    BY <2>2, <2>3 DEF Box, IsBox
  <2>5. /\ IsBox(a, b, right) /\ right.i0 = m.i + m.size /\ right.i1 = box.i1
        /\ right.j0 = m.j + m.size /\ right.j1 = box.j1
    BY <2>2, <2>3 DEF Box, IsBox
  <2> HIDE DEF left, right
  <2>6. InLine(inner[left], a, b, left) /\ InLine(inner[right], a, b, right)
    BY <2>4, <2>5
  <2>7. /\ \A x, y \in L : x = y \/ Precedes(x, y) \/ Precedes(y, x)
        /\ \A x, y \in R : x = y \/ Precedes(x, y) \/ Precedes(y, x)
    BY <2>6 DEF InLine
  <2>8. /\ \A x \in L : x.size # 0 /\ IsMatch(x, a, b, left)
        /\ \A x \in R : x.size # 0 /\ IsMatch(x, a, b, right)
    BY <2>6 DEF InLine
  <2> HIDE DEF L, R
  <2>9. ASSUME NEW x \in L PROVE Precedes(x, m) /\ x.size # 0 /\ x \in Match /\ IsMatch(x, a, b, box)
    <3>1. x \in Match /\ x.size # 0 /\ Common(x, a, b) /\ IsIn(x, left)
      BY <2>8 DEF IsMatch
    <3>2. x.i \in Nat /\ x.j \in Nat /\ x.size \in Nat
      BY <3>1 DEF Match
    <3>3. box.i0 <= x.i /\ x.i + x.size <= m.i /\ box.j0 <= x.j /\ x.j + x.size <= m.j
      BY <2>4, <3>1 DEF IsIn
    <3>4. IsIn(x, box)
      <4>1. /\ m.i \in Nat /\ m.size \in Nat /\ m.j \in Nat /\ m.i + m.size \in Nat /\ m.j + m.size \in Nat
            /\ x.i + x.size \in Nat /\ x.j + x.size \in Nat /\ m.i <= m.i + m.size /\ m.j <= m.j + m.size
        BY <2>3, <3>2
      <4>2. box.i0 <= m.i /\ m.i + m.size <= box.i1 /\ box.j0 <= m.j /\ m.j + m.size <= box.j1
        BY <2>3
      <4>3. box.i0 <= x.i
        BY <2>2, <3>2, <3>3, <4>1, <4>2, AtMost, SMTT(30)
      <4>4. box.j0 <= x.j
        BY <2>2, <3>2, <3>3, <4>1, <4>2, AtMost, SMTT(30)
      <4>5. x.i + x.size <= box.i1
        BY <2>2, <3>2, <3>3, <4>1, <4>2, AtMost, SMTT(30)
      <4>6. x.j + x.size <= box.j1
        BY <2>2, <3>2, <3>3, <4>1, <4>2, AtMost, SMTT(30)
      <4>7. QED BY <4>3, <4>4, <4>5, <4>6 DEF IsIn
    <3>5. QED BY <3>1, <3>3, <3>4 DEF IsMatch, Precedes
  <2>10. ASSUME NEW x \in R PROVE Precedes(m, x) /\ x.size # 0 /\ x \in Match /\ IsMatch(x, a, b, box)
    <3>1. x \in Match /\ x.size # 0 /\ Common(x, a, b) /\ IsIn(x, right)
      BY <2>8 DEF IsMatch
    <3>2. x.i \in Nat /\ x.j \in Nat /\ x.size \in Nat
      BY <3>1 DEF Match
    <3>3. m.i + m.size <= x.i /\ x.i + x.size <= box.i1 /\ m.j + m.size <= x.j /\ x.j + x.size <= box.j1
      BY <2>5, <3>1 DEF IsIn
    <3>4. IsIn(x, box)
      <4>1. /\ m.i \in Nat /\ m.size \in Nat /\ m.j \in Nat /\ m.i + m.size \in Nat /\ m.j + m.size \in Nat
            /\ x.i + x.size \in Nat /\ x.j + x.size \in Nat /\ m.i <= m.i + m.size /\ m.j <= m.j + m.size
        BY <2>3, <3>2
      <4>2. box.i0 <= m.i /\ m.i + m.size <= box.i1 /\ box.j0 <= m.j /\ m.j + m.size <= box.j1
        BY <2>3
      <4>3. box.i0 <= x.i
        BY <2>2, <3>2, <3>3, <4>1, <4>2, AtMost
      <4>4. box.j0 <= x.j
        BY <2>2, <3>2, <3>3, <4>1, <4>2, AtMost
      <4>5. x.i + x.size <= box.i1
        BY <2>2, <3>2, <3>3, <4>1, <4>2, AtMost
      <4>6. x.j + x.size <= box.j1
        BY <2>2, <3>2, <3>3, <4>1, <4>2, AtMost
      <4>7. QED BY <4>3, <4>4, <4>5, <4>6 DEF IsIn
    <3>5. QED BY <3>1, <3>3, <3>4 DEF IsMatch, Precedes
  <2>11. ASSUME NEW x \in L, NEW y \in R PROVE Precedes(x, y)
    <3>1. Precedes(x, m) /\ Precedes(m, y) /\ x \in Match /\ y \in Match
      BY <2>9, <2>10
    <3>2. x.i \in Nat /\ x.j \in Nat /\ x.size \in Nat /\ y.i \in Nat /\ y.j \in Nat
      BY <3>1 DEF Match
    <3>3. QED BY <2>3, <3>1, <3>2 DEF Precedes
  <2>12. M = {m} \cup L \cup R
    BY <1>1, <1>4
  <2>13. ASSUME NEW x \in M PROVE x.size # 0 /\ IsMatch(x, a, b, box)
    BY <1>2, <1>4, <2>9, <2>10, <2>12
  <2>14. ASSUME NEW x \in M, NEW y \in M PROVE x = y \/ Precedes(x, y) \/ Precedes(y, x)
    <3>1. (x = m \/ x \in L \/ x \in R) /\ (y = m \/ y \in L \/ y \in R)
      BY <2>12
    <3>2. CASE x = m
      BY <2>9, <2>10, <3>1, <3>2
    <3>3. CASE x \in L
      BY <2>7, <2>9, <2>11, <3>1, <3>3
    <3>4. CASE x \in R
      BY <2>7, <2>10, <2>11, <3>1, <3>4
    <3>5. QED BY <3>1, <3>2, <3>3, <3>4
  <2>15. QED BY <2>13, <2>14 DEF InLine, M
<1>5. QED BY <1>3, <1>4

\* However deep it goes, the blocks that it finds are one after the other.
LEMMA MatchesLaw ==
    ASSUME NEW a, NEW b, SameRows(a, b), NEW box, IsBox(a, b, box), NEW modified \in IndexSet
    PROVE  InLine(Matches(a, b, box, modified), a, b, box)
<1> DEFINE boxes == [i0 : 0 .. Len(a), i1 : 0 .. Len(a), j0 : 0 .. Len(b), j1 : 0 .. Len(b)]
           n == Len(a)
           base == [x \in boxes |-> {}]
           Step(inner) == [x \in boxes |-> MatchesIn(a, b, x, modified, inner)]
           R == {f \in [boxes -> SUBSET Match] : \A x \in boxes : InLine(f[x], a, b, x)}
           F == [k \in 1 .. n |-> [r \in R |-> Step(r)]]
           IsFold(h) == h = [T \in SUBSET DOMAIN a |-> IF T = {} THEN base ELSE Step(h[T \ {Max(T)}])]
           H == CHOOSE h : IsFold(h)
<1>1. n \in Nat /\ DOMAIN a = 1 .. n
  BY DEF SameRows
<1>2. Matches(a, b, box, modified) = H[DOMAIN a][box]
  BY Zenon DEF Matches, FoldLeft, MapThenFoldSet
<1>3. \A x : IsBox(a, b, x) <=> x \in boxes
  BY DEF IsBox
<1> HIDE DEF n, boxes
<1>4. base \in R
  <2>1. \A x \in boxes : InLine(base[x], a, b, x)
    BY DEF InLine
  <2>2. QED BY <2>1
<1>5. ASSUME NEW r \in R PROVE Step(r) \in R
  <2>1. \A x : IsBox(a, b, x) => InLine(r[x], a, b, x)
    BY <1>3
  <2>2. ASSUME NEW x \in boxes PROVE InLine(MatchesIn(a, b, x, modified, r), a, b, x)
    BY <1>3, <2>1, MatchesInLaw
  <2>3. ASSUME NEW x \in boxes PROVE MatchesIn(a, b, x, modified, r) \in SUBSET Match
    BY <2>2 DEF InLine, IsMatch
  <2>4. Step(r) \in [boxes -> SUBSET Match] /\ \A x \in boxes : InLine(Step(r)[x], a, b, x)
    BY <2>2, <2>3
  <2> HIDE DEF Step
  <2>5. QED BY <2>4
<1> HIDE DEF R, Step, base
<1>6. PICK h \in [SUBSET (1 .. n) -> R] :
         \A T \in SUBSET (1 .. n) : h[T] = IF T = {} THEN base ELSE F[Max(T)][h[T \ {Max(T)}]]
  <2>1. F \in [1 .. n -> [R -> R]]
    BY <1>5
  <2> HIDE DEF F
  <2>2. HasFold(n, R, base, F)
    BY <1>1, <1>4, <2>1, FoldExists
  <2>3. QED BY <2>2 DEF HasFold
<1>7. IsFold(h)
  <2>1. ASSUME NEW T \in SUBSET (1 .. n), T # {} PROVE F[Max(T)][h[T \ {Max(T)}]] = Step(h[T \ {Max(T)}])
    <3>1. Max(T) \in 1 .. n
      BY <1>1, <2>1, LastOfSome
    <3>2. h[T \ {Max(T)}] \in R
      OBVIOUS
    <3>3. QED BY <3>1, <3>2
  <2>2. h = [T \in SUBSET (1 .. n) |-> h[T]]
    OBVIOUS
  <2>3. QED BY <1>1, <1>6, <2>1, <2>2, Zenon
<1>8. IsFold(H)
  BY <1>7, Zenon
<1> HIDE DEF H, F
<1>9. H[{}] = base
  BY <1>8, Zenon
<1>10. ASSUME NEW T \in SUBSET (1 .. n), T # {}, H[T \ {Max(T)}] \in R PROVE H[T] \in R
  <2>1. H[T] = Step(H[T \ {Max(T)}])
    BY <1>1, <1>8, <1>10, Zenon
  <2>2. QED BY <1>5, <1>10, <2>1
<1>11. H[1 .. n] \in R
  BY <1>1, <1>4, <1>9, <1>10, FoldStays
<1>12. box \in boxes
  BY <1>3
<1>13. InLine(H[1 .. n][box], a, b, box)
  BY <1>11, <1>12 DEF R
<1>14. QED BY <1>1, <1>2, <1>13

\* Blocks that both collections have, one after the other.
Lining(M, a, b) ==
    /\ \A m \in M : m \in Match /\ Common(m, a, b) /\ m.i + m.size <= Len(a) /\ m.j + m.size <= Len(b)
    /\ \A m, n \in M : m = n \/ Precedes(m, n) \/ Precedes(n, m)

\* Some indices are of rows of a block.
KeptInA(M) == UNION {m.i .. (m.i + m.size - 1) : m \in M}
KeptInB(M) == UNION {m.j .. (m.j + m.size - 1) : m \in M}

\* The least of some indices.
LEMMA LeastIs == ASSUME NEW S \in SUBSET Nat, S # {} PROVE Min(S) \in S /\ \A y \in S : Min(S) <= y
<1>1. \E x \in S : \A y \in S : x <= y
  BY LeastOf
<1>2. QED BY <1>1, Zenon DEF Min

\* The blocks that calculate_moves_sorted keeps, with the rows before the first that differs.
LEMMA SortedMatchesLaw ==
    ASSUME NEW a, NEW b, SameRows(a, b), a # b, NEW modified \in IndexSet
    PROVE  Lining(SortedMatches(a, b, modified), a, b)
<1> DEFINE S == {i \in IndicesOf(a) : At(a, i) # At(b, i)}
           start == Min(S)
           box == Box(start, Len(a), start, Len(b))
           head == [i |-> 0, j |-> 0, size |-> start, modified |-> 0]
           M == Matches(a, b, box, modified)
<1>1. a \in Seq(Nat) /\ b \in Seq(Nat) /\ Len(a) = Len(b) /\ Len(a) \in Nat
  BY DEF SameRows
<1>2. S \in SUBSET Nat /\ S # {}
  <2>1. S \in SUBSET Nat
    BY DEF IndicesOf
  <2>2. ASSUME S = {} PROVE a = b
    <3>1. ASSUME NEW k \in 1 .. Len(a) PROVE a[k] = b[k]
      <4>1. k - 1 \in IndicesOf(a) /\ (k - 1) + 1 = k
        BY <1>1 DEF IndicesOf
      <4>2. At(a, k - 1) = At(b, k - 1)
        BY <2>2, <4>1
      <4>3. QED BY <4>1, <4>2 DEF At
    <3>2. a = [k \in 1 .. Len(a) |-> a[k]] /\ b = [k \in 1 .. Len(b) |-> b[k]]
      BY <1>1
    <3>3. [k \in 1 .. Len(a) |-> a[k]] = [k \in 1 .. Len(b) |-> b[k]]
      BY <1>1, <3>1
    <3>4. QED BY <3>2, <3>3
  <2>3. QED BY <2>1, <2>2
<1>3. start \in S /\ \A y \in S : start <= y
  <2> HIDE DEF S
  <2>1. QED BY <1>2, LeastIs
<1>4. start \in IndicesOf(a) /\ \A k \in IndicesOf(a) : k < start => At(a, k) = At(b, k)
  <2>1. start \in IndicesOf(a)
    BY <1>3
  <2>2. ASSUME NEW k \in IndicesOf(a), k < start PROVE At(a, k) = At(b, k)
    <3>1. k \in S => start <= k
      BY <1>3
    <3> HIDE DEF start
    <3>2. k \notin S
      BY <2>1, <2>2, <3>1 DEF IndicesOf
    <3>3. QED BY <3>2
  <2>3. QED BY <2>1, <2>2
<1>5. SortedMatches(a, b, modified) = {head} \cup M
  BY Zenon DEF SortedMatches
<1> HIDE DEF S, start
<1>6. start \in Nat /\ start < Len(a)
  BY <1>1, <1>4 DEF IndicesOf
<1>7. IsBox(a, b, box) /\ box.i0 = start /\ box.j0 = start /\ box.i1 = Len(a) /\ box.j1 = Len(b)
  BY <1>1, <1>6 DEF Box, IsBox
<1> HIDE DEF box
<1>8. InLine(M, a, b, box)
  BY <1>7, MatchesLaw
<1> HIDE DEF M
<1>9. head \in Match /\ head.i = 0 /\ head.j = 0 /\ head.size = start
  BY <1>6 DEF Match
<1> HIDE DEF head
<1>10. Common(head, a, b)
  <2>1. ASSUME NEW k \in 0 .. start - 1 PROVE At(a, 0 + k) = At(b, 0 + k)
    <3>1. k \in IndicesOf(a) /\ k < start /\ 0 + k = k
      BY <1>1, <1>6 DEF IndicesOf
    <3>2. QED BY <1>4, <3>1
  <2>2. QED BY <1>9, <2>1 DEF Common
<1>11. ASSUME NEW m \in M
       PROVE  m \in Match /\ Common(m, a, b) /\ m.i + m.size <= Len(a) /\ m.j + m.size <= Len(b) /\ Precedes(head, m)
  <2>1. m \in Match /\ Common(m, a, b) /\ IsIn(m, box)
    BY <1>8 DEF InLine, IsMatch
  <2>2. start <= m.i /\ m.i + m.size <= Len(a) /\ start <= m.j /\ m.j + m.size <= Len(b)
    BY <1>7, <2>1 DEF IsIn
  <2>3. 0 + start = start
    BY <1>6
  <2>4. Precedes(head, m)
    BY <1>9, <2>2, <2>3 DEF Precedes
  <2>5. QED BY <2>1, <2>2, <2>4
<1>12. \A m, n \in M : m = n \/ Precedes(m, n) \/ Precedes(n, m)
  BY <1>8 DEF InLine
<1>13. head.i + head.size <= Len(a) /\ head.j + head.size <= Len(b)
  BY <1>1, <1>6, <1>9
<1>14. Lining({head} \cup M, a, b)
  <2>1. ASSUME NEW m \in {head} \cup M
        PROVE  m \in Match /\ Common(m, a, b) /\ m.i + m.size <= Len(a) /\ m.j + m.size <= Len(b)
    BY <1>9, <1>10, <1>11, <1>13
  <2>2. ASSUME NEW m \in {head} \cup M, NEW n \in {head} \cup M PROVE m = n \/ Precedes(m, n) \/ Precedes(n, m)
    BY <1>11, <1>12
  <2>3. QED BY <2>1, <2>2 DEF Lining
<1>15. QED BY <1>5, <1>14

\* When nothing has moved, all rows are one block.
LEMMA OneBlock ==
    ASSUME NEW a \in Seq(Nat)
    PROVE  Lining({[i |-> 0, j |-> 0, size |-> Len(a), modified |-> 0]}, a, a)
<1> DEFINE m == [i |-> 0, j |-> 0, size |-> Len(a), modified |-> 0]
<1>1. m \in Match /\ m.i = 0 /\ m.j = 0 /\ m.size = Len(a) /\ 0 + Len(a) = Len(a) /\ Len(a) \in Nat
  BY DEF Match
<1> HIDE DEF m
<1>2. Common(m, a, a)
  BY <1>1 DEF Common
<1>3. m.i + m.size <= Len(a) /\ m.j + m.size <= Len(a)
  BY <1>1
<1>4. Lining({m}, a, a)
  BY <1>1, <1>2, <1>3 DEF Lining
<1>5. QED BY <1>4 DEF m

\* The rows of such blocks are kept in order.
LEMMA LiningIsMatched ==
    ASSUME NEW a, NEW b, SameRows(a, b), \A y, v \in IndicesOf(b) : At(b, y) = At(b, v) => y = v,
           NEW M, Lining(M, a, b)
    PROVE  /\ KeptInA(M) \in SUBSET IndicesOf(a) /\ KeptInB(M) \in SUBSET IndicesOf(b)
           /\ \A x \in KeptInA(M) : \E y \in KeptInB(M) : At(a, x) = At(b, y)
           /\ \A y \in KeptInB(M) : \E x \in KeptInA(M) : At(a, x) = At(b, y)
           /\ \A x, u \in KeptInA(M), y, v \in KeptInB(M) :
                 At(a, x) = At(b, y) /\ At(a, u) = At(b, v) /\ x < u => y < v
<1> DEFINE KA == KeptInA(M)
           KB == KeptInB(M)
<1>0. Len(a) \in Nat /\ Len(b) \in Nat /\ Len(a) = Len(b)
  BY DEF SameRows
<1>1. ASSUME NEW m \in M
      PROVE  /\ m.i \in Nat /\ m.j \in Nat /\ m.size \in Nat /\ m.i + m.size <= Len(a) /\ m.j + m.size <= Len(b)
             /\ Common(m, a, b)
  <2>1. m \in Match /\ Common(m, a, b) /\ m.i + m.size <= Len(a) /\ m.j + m.size <= Len(b)
    BY DEF Lining
  <2>2. QED BY <2>1 DEF Match
<1>2. ASSUME NEW x, NEW m \in M, x \in m.i .. (m.i + m.size - 1)
      PROVE  /\ x \in IndicesOf(a) /\ m.j + (x - m.i) \in IndicesOf(b) /\ At(a, x) = At(b, m.j + (x - m.i))
             /\ m.j + (x - m.i) \in m.j .. (m.j + m.size - 1)
  <2>1. m.i \in Nat /\ m.j \in Nat /\ m.size \in Nat /\ m.i + m.size <= Len(a) /\ m.j + m.size <= Len(b)
    BY <1>1
  <2>2. x \in Nat /\ m.i <= x /\ x < m.i + m.size
    BY <1>2, <2>1
  <2> DEFINE k == x - m.i
  <2>3. k \in 0 .. m.size - 1 /\ m.i + k = x
    BY <2>1, <2>2
  <2>4. At(a, m.i + k) = At(b, m.j + k)
    BY <1>1, <2>3 DEF Common
  <2> HIDE DEF k
  <2>5. x \in IndicesOf(a)
    BY <1>0, <2>1, <2>2 DEF IndicesOf
  <2>6. k \in Nat /\ k < m.size
    BY <2>1, <2>3
  <2>7. m.j + k \in Nat /\ m.j + k < m.j + m.size /\ m.j <= m.j + k
    BY <2>1, <2>6
  <2>8. m.j + k \in IndicesOf(b) /\ m.j + k \in m.j .. (m.j + m.size - 1)
    BY <1>0, <2>1, <2>7 DEF IndicesOf
  <2>9. QED BY <2>3, <2>4, <2>5, <2>8 DEF k
<1>3. ASSUME NEW y, NEW m \in M, y \in m.j .. (m.j + m.size - 1)
      PROVE  /\ y \in IndicesOf(b) /\ m.i + (y - m.j) \in m.i .. (m.i + m.size - 1) /\ At(a, m.i + (y - m.j)) = At(b, y)
  <2>1. m.i \in Nat /\ m.j \in Nat /\ m.size \in Nat /\ m.i + m.size <= Len(a) /\ m.j + m.size <= Len(b)
    BY <1>1
  <2>2. y \in Nat /\ m.j <= y /\ y < m.j + m.size
    BY <1>3, <2>1
  <2> DEFINE x == m.i + (y - m.j)
  <2>3. x \in Nat /\ m.i <= x /\ x < m.i + m.size /\ m.j + (x - m.i) = y
    BY <2>1, <2>2
  <2> HIDE DEF x
  <2>4. x \in m.i .. (m.i + m.size - 1)
    BY <2>1, <2>3
  <2>5. QED BY <1>2, <2>3, <2>4 DEF x
<1>4. \A x : x \in KA <=> \E m \in M : x \in m.i .. (m.i + m.size - 1)
  BY DEF KeptInA
<1>5. \A y : y \in KB <=> \E m \in M : y \in m.j .. (m.j + m.size - 1)
  BY DEF KeptInB
<1> HIDE DEF KA, KB
<1>6. KA \in SUBSET IndicesOf(a) /\ KB \in SUBSET IndicesOf(b)
  BY <1>2, <1>3, <1>4, <1>5
<1>7. ASSUME NEW x \in KA PROVE \E y \in KB : At(a, x) = At(b, y)
  BY <1>2, <1>4, <1>5
<1>8. ASSUME NEW y \in KB PROVE \E x \in KA : At(a, x) = At(b, y)
  BY <1>3, <1>4, <1>5
<1>9. ASSUME NEW x \in KA, NEW u \in KA, NEW y \in KB, NEW v \in KB, At(a, x) = At(b, y), At(a, u) = At(b, v), x < u
      PROVE  y < v
  <2>1. PICK m \in M : x \in m.i .. (m.i + m.size - 1)
    BY <1>4
  <2>2. PICK n \in M : u \in n.i .. (n.i + n.size - 1)
    BY <1>4
  <2>3. y = m.j + (x - m.i)
    BY <1>2, <1>6, <1>9, <2>1
  <2>4. v = n.j + (u - n.i)
    BY <1>2, <1>6, <1>9, <2>2
  <2>5. /\ m.i \in Nat /\ m.j \in Nat /\ m.size \in Nat /\ n.i \in Nat /\ n.j \in Nat /\ n.size \in Nat
    BY <1>1
  <2>6. /\ x \in Nat /\ u \in Nat /\ m.i <= x /\ x < m.i + m.size /\ n.i <= u /\ u < n.i + n.size
    BY <2>1, <2>2, <2>5
  <2>7. CASE m = n
    BY <1>9, <2>3, <2>4, <2>5, <2>6, <2>7
  <2>8. CASE Precedes(m, n)
    <3>1. m.j + m.size <= n.j
      BY <2>8 DEF Precedes
    <3>2. QED BY <2>3, <2>4, <2>5, <2>6, <3>1
  <2>9. CASE Precedes(n, m)
    <3>1. n.i + n.size <= m.i
      BY <2>9 DEF Precedes
    <3>2. QED BY <1>9, <2>5, <2>6, <3>1
  <2>10. m = n \/ Precedes(m, n) \/ Precedes(n, m)
    BY DEF Lining
  <2>11. QED BY <2>7, <2>8, <2>9, <2>10
<1>10. QED BY <1>6, <1>7, <1>8, <1>9 DEF KA, KB

\* Two of the rows that stay have the order that they had.
LEMMA StayInOrder ==
    ASSUME NEW D \in IndexSet, NEW i \in Nat \ D, NEW k \in Nat \ D
    PROVE  i < k <=> Unshift(D, i) < Unshift(D, k)
<1>1. D \in SUBSET Nat
  BY DEF IndexSet
<1>2. ASSUME NEW x \in Nat \ D, NEW y \in Nat \ D, x < y PROVE Unshift(D, x) < Unshift(D, y)
  <2>1. Unshift(D, x) <= Unshift(D, y)
    BY <1>1, <1>2, UnshiftIsMonotonic
  <2>2. Unshift(D, x) # Unshift(D, y)
    BY <1>1, <1>2, UnshiftIsInjective
  <2>3. Unshift(D, x) \in Nat /\ Unshift(D, y) \in Nat
    BY <1>1, UnshiftType
  <2>4. QED BY <2>1, <2>2, <2>3
<1>3. Unshift(D, i) \in Nat /\ Unshift(D, k) \in Nat
  BY <1>1, UnshiftType
<1>4. i < k => Unshift(D, i) < Unshift(D, k)
  BY <1>2
<1>5. k < i => Unshift(D, k) < Unshift(D, i)
  BY <1>2
<1>6. i < k \/ k < i \/ i = k
  OBVIOUS
<1>7. QED BY <1>3, <1>4, <1>5, <1>6

\* D leaves of s, as D0 leaves w of it, those that are at K in w.
Leaves(D, s, w, D0, K) ==
    /\ D \in IndexSet
    /\ \A i \in IndicesOf(s) \ D : i \notin D0 /\ Unshift(D0, i) \in K /\ At(w, Unshift(D0, i)) = At(s, i)
    /\ \A x \in K : \E i \in IndicesOf(s) \ D : Unshift(D0, i) = x /\ At(s, i) = At(w, x)

\* Those at K of what s and t have both are left of s when the others are deleted.
LEMMA KeptLaw ==
    ASSUME NEW s \in Seq(Nat), NEW t \in Seq(Nat),
           \A i, k \in IndicesOf(s) \ NewIn(t, s) : At(s, i) = At(s, k) => i = k,
           NEW K \in SUBSET IndicesOf(Staying(s, t))
    PROVE  Leaves(NewIn(t, s) \cup {Place(s, At(Staying(s, t), x)) : x \in IndicesOf(Staying(s, t)) \ K},
                  s, Staying(s, t), NewIn(t, s), K)
<1> DEFINE D0 == NewIn(t, s)
           w == Staying(s, t)
           P == {Place(s, At(w, x)) : x \in IndicesOf(w) \ K}
           D == D0 \cup P
<1>1. /\ D0 \in IndexSet /\ w \in Seq(Nat) /\ Len(w) = Unshift(D0, Len(s))
      /\ \A k \in 1 .. Len(w) :
            Shift(D0, k - 1) \in IndicesOf(s) \ D0 /\ Unshift(D0, Shift(D0, k - 1)) = k - 1 /\ w[k] = At(s, Shift(D0, k - 1))
  BY StayingLaw
<1>2. D0 \in SUBSET IndicesOf(s)
  BY DEF NewIn
<1>3. \A i, k \in IndicesOf(s) \ D0 : At(s, i) = At(s, k) => i = k
  OBVIOUS
<1>4. K \in SUBSET IndicesOf(w)
  OBVIOUS
<1> HIDE DEF D0, w
<1>5. D0 \in SUBSET Nat /\ Len(w) \in Nat /\ Len(s) \in Nat
  BY <1>1 DEF IndexSet
<1>6. ASSUME NEW x \in IndicesOf(w)
      PROVE  /\ Shift(D0, x) \in IndicesOf(s) \ D0 /\ Unshift(D0, Shift(D0, x)) = x /\ At(w, x) = At(s, Shift(D0, x))
  <2>1. x + 1 \in 1 .. Len(w) /\ (x + 1) - 1 = x
    BY <1>5 DEF IndicesOf
  <2>2. /\ Shift(D0, x) \in IndicesOf(s) \ D0 /\ Unshift(D0, Shift(D0, x)) = x /\ w[x + 1] = At(s, Shift(D0, x))
    BY <1>1, <2>1
  <2>3. QED BY <2>2 DEF At
<1>7. ASSUME NEW i \in IndicesOf(s) \ D0
      PROVE  Unshift(D0, i) \in IndicesOf(w) /\ Shift(D0, Unshift(D0, i)) = i
  <2>1. i \in Nat /\ i < Len(s)
    BY <1>5 DEF IndicesOf
  <2>2. Unshift(D0, i) \in Nat /\ Unshift(D0, i) < Unshift(D0, Len(s))
    <3>1. Unshift(D0, i) \in Nat /\ Unshift(D0, i + 1) = Unshift(D0, i) + 1
      BY <1>5, <2>1, UnshiftStep, UnshiftType
    <3>2. Unshift(D0, i + 1) <= Unshift(D0, Len(s))
      BY <1>5, <2>1, UnshiftIsMonotonic
    <3>3. Unshift(D0, Len(s)) \in Nat
      BY <1>5, UnshiftType
    <3>4. QED BY <3>1, <3>2, <3>3
  <2>3. Unshift(D0, i) \in IndicesOf(w)
    BY <1>1, <1>5, <2>2 DEF IndicesOf
  <2>4. Shift(D0, Unshift(D0, i)) = i
    BY <1>1, <2>1, ShiftUnshift
  <2>5. QED BY <2>3, <2>4
<1>8. ASSUME NEW x \in IndicesOf(w) PROVE Place(s, At(w, x)) = Shift(D0, x)
  <2>1. At(w, x) \in ToSet(s) /\ Shift(D0, x) \in IndicesOf(s) \ D0
    <3>1. Shift(D0, x) \in IndicesOf(s) \ D0 /\ At(w, x) = At(s, Shift(D0, x))
      BY <1>6
    <3>2. At(s, Shift(D0, x)) \in ToSet(s)
      BY <3>1 DEF IndicesOf, At, ToSet
    <3>3. QED BY <3>1, <3>2
  <2>2. Place(s, At(w, x)) \in IndicesOf(s) /\ At(s, Place(s, At(w, x))) = At(s, Shift(D0, x))
    BY <1>6, <2>1, PlaceLaw
  <2>3. Place(s, At(w, x)) \notin D0
    <3>1. At(s, Shift(D0, x)) \in ToSet(t)
      BY <2>1 DEF D0, NewIn
    <3>2. QED BY <2>2, <3>1 DEF D0, NewIn
  <2>4. QED BY <1>3, <2>1, <2>2, <2>3
<1>9. P \in SUBSET IndicesOf(s) /\ \A i : i \in P <=> \E x \in IndicesOf(w) \ K : i = Shift(D0, x)
  <2>1. \A i : i \in P <=> \E x \in IndicesOf(w) \ K : i = Shift(D0, x)
    BY <1>8
  <2> HIDE DEF P
  <2>2. QED BY <1>6, <2>1
<1> HIDE DEF P
<1>10. D \in IndexSet
  BY <1>2, <1>9, SomeIndices
<1>11. ASSUME NEW i \in IndicesOf(s) \ D
       PROVE  i \notin D0 /\ Unshift(D0, i) \in K /\ At(w, Unshift(D0, i)) = At(s, i)
  <2>1. i \in IndicesOf(s) \ D0 /\ i \notin P
    OBVIOUS
  <2>2. Unshift(D0, i) \in IndicesOf(w) /\ Shift(D0, Unshift(D0, i)) = i
    BY <1>7, <2>1
  <2>3. Unshift(D0, i) \in K
    BY <1>9, <2>1, <2>2
  <2>4. QED BY <1>6, <2>1, <2>2, <2>3
<1>12. ASSUME NEW x \in K PROVE \E i \in IndicesOf(s) \ D : Unshift(D0, i) = x /\ At(s, i) = At(w, x)
  <2>1. /\ Shift(D0, x) \in IndicesOf(s) \ D0 /\ Unshift(D0, Shift(D0, x)) = x /\ At(w, x) = At(s, Shift(D0, x))
    BY <1>4, <1>6
  <2>2. Shift(D0, x) \notin P
    <3>1. ASSUME NEW y \in IndicesOf(w) \ K, Shift(D0, x) = Shift(D0, y) PROVE FALSE
      <4>1. Unshift(D0, Shift(D0, y)) = y
        BY <1>6
      <4>2. QED BY <2>1, <3>1, <4>1
    <3>2. QED BY <1>9, <3>1
  <2>3. QED BY <2>1, <2>2
<1>13. Leaves(D, s, w, D0, K)
  BY <1>10, <1>11, <1>12 DEF Leaves
<1>14. QED BY <1>13 DEF P, D0, w

\* What stays of the two has the same rows.
LEMMA StayingIsSame ==
    ASSUME NEW prev, NEW next, Comparable(prev, next)
    PROVE  /\ SameRows(Staying(prev, next), Staying(next, prev))
           /\ \A y, v \in IndicesOf(Staying(next, prev)) :
                 At(Staying(next, prev), y) = At(Staying(next, prev), v) => y = v
<1> DEFINE a == Staying(prev, next)
           b == Staying(next, prev)
           D == NewIn(next, prev)
           I == NewIn(prev, next)
<1>0. prev \in Seq(Nat) /\ next \in Seq(Nat) /\ Len(prev) \in Nat /\ Len(next) \in Nat
  BY DEF Comparable
<1>1. /\ D \in IndexSet /\ a \in Seq(Nat) /\ Len(a) = Unshift(D, Len(prev))
      /\ \A k \in 1 .. Len(a) :
            Shift(D, k - 1) \in IndicesOf(prev) \ D /\ Unshift(D, Shift(D, k - 1)) = k - 1 /\ a[k] = At(prev, Shift(D, k - 1))
  BY <1>0, StayingLaw
<1>2. /\ I \in IndexSet /\ b \in Seq(Nat) /\ Len(b) = Unshift(I, Len(next))
      /\ \A k \in 1 .. Len(b) :
            Shift(I, k - 1) \in IndicesOf(next) \ I /\ Unshift(I, Shift(I, k - 1)) = k - 1 /\ b[k] = At(next, Shift(I, k - 1))
  BY <1>0, StayingLaw
<1>3. \A i \in IndicesOf(prev) : At(prev, i) \in ToSet(prev)
  BY <1>0 DEF IndicesOf, At, ToSet
<1>4. \A j \in IndicesOf(next) : At(next, j) \in ToSet(next)
  BY <1>0 DEF IndicesOf, At, ToSet
<1>5. ASSUME NEW i \in IndicesOf(prev) \ D PROVE \E j \in IndicesOf(next) \ I : At(prev, i) = At(next, j)
  <2>1. At(prev, i) \in ToSet(next)
    BY DEF NewIn
  <2> DEFINE j == Place(next, At(prev, i))
  <2>2. j \in IndicesOf(next) /\ At(next, j) = At(prev, i)
    BY <1>0, <2>1, PlaceLaw
  <2> HIDE DEF j
  <2>3. j \notin I
    BY <1>3, <2>2 DEF NewIn
  <2>4. QED BY <2>2, <2>3
<1>6. ASSUME NEW j \in IndicesOf(next) \ I PROVE \E i \in IndicesOf(prev) \ D : At(next, j) = At(prev, i)
  <2>1. At(next, j) \in ToSet(prev)
    BY DEF NewIn
  <2> DEFINE i == Place(prev, At(next, j))
  <2>2. i \in IndicesOf(prev) /\ At(prev, i) = At(next, j)
    BY <1>0, <2>1, PlaceLaw
  <2> HIDE DEF i
  <2>3. i \notin D
    BY <1>4, <2>2 DEF NewIn
  <2>4. QED BY <2>2, <2>3
<1> HIDE DEF a, b, D, I
<1>7. Len(a) = Len(b)
  <2>1. Found(D, I, prev, Len(prev), next, Len(next))
    BY <1>5 DEF Found, IndicesOf
  <2>2. Found(I, D, next, Len(next), prev, Len(prev))
    BY <1>6 DEF Found, IndicesOf
  <2>3. Unshift(D, Len(prev)) = Unshift(I, Len(next))
    BY <1>0, <1>1, <1>2, <2>1, <2>2, SameCount
  <2>4. QED BY <1>1, <1>2, <2>3
<1>8. Len(a) \in Nat /\ Len(b) \in Nat
  BY <1>1, <1>2
<1>9. I \in SUBSET Nat
  BY <1>2 DEF IndexSet
<1>10. ASSUME NEW j \in IndicesOf(next) \ I PROVE At(next, j) \in ToSet(b)
  <2>1. j \in Nat /\ j < Len(next)
    BY <1>0 DEF IndicesOf
  <2> DEFINE y == Unshift(I, j)
  <2>2. y \in Nat /\ Unshift(I, j + 1) = y + 1
    BY <1>9, <2>1, UnshiftStep, UnshiftType
  <2>3. Unshift(I, j + 1) <= Unshift(I, Len(next))
    BY <1>0, <1>9, <2>1, UnshiftIsMonotonic
  <2>4. Shift(I, y) = j
    BY <1>2, <2>1, ShiftUnshift
  <2> HIDE DEF y
  <2>5. y + 1 \in 1 .. Len(b) /\ (y + 1) - 1 = y
    BY <1>2, <1>8, <2>2, <2>3
  <2>6. b[y + 1] = At(next, j)
    BY <1>2, <2>4, <2>5
  <2>7. y + 1 \in DOMAIN b
    BY <1>2, <2>5
  <2>8. QED BY <2>6, <2>7 DEF ToSet
<1>11. ASSUME NEW x \in IndicesOf(a) PROVE At(a, x) \in ToSet(b)
  <2>1. x + 1 \in 1 .. Len(a) /\ (x + 1) - 1 = x
    BY <1>8 DEF IndicesOf
  <2>2. Shift(D, x) \in IndicesOf(prev) \ D /\ a[x + 1] = At(prev, Shift(D, x))
    BY <1>1, <2>1
  <2>3. PICK j \in IndicesOf(next) \ I : At(prev, Shift(D, x)) = At(next, j)
    BY <1>5, <2>2
  <2>4. At(a, x) = At(next, j)
    BY <2>2, <2>3 DEF At
  <2>5. QED BY <1>10, <2>4
<1>12. ASSUME NEW y \in IndicesOf(b), NEW v \in IndicesOf(b), At(b, y) = At(b, v) PROVE y = v
  <2>1. y + 1 \in 1 .. Len(b) /\ (y + 1) - 1 = y /\ v + 1 \in 1 .. Len(b) /\ (v + 1) - 1 = v
    BY <1>8 DEF IndicesOf
  <2>2. /\ Shift(I, y) \in IndicesOf(next) \ I /\ Unshift(I, Shift(I, y)) = y /\ b[y + 1] = At(next, Shift(I, y))
        /\ Shift(I, v) \in IndicesOf(next) \ I /\ Unshift(I, Shift(I, v)) = v /\ b[v + 1] = At(next, Shift(I, v))
    BY <1>2, <2>1
  <2>3. At(next, Shift(I, y)) = At(next, Shift(I, v))
    BY <1>12, <2>2 DEF At
  <2>4. Shift(I, y) = Shift(I, v)
    BY <2>2, <2>3 DEF Comparable, Distinct
  <2>5. QED BY <2>2, <2>4
<1>13. SameRows(a, b)
  BY <1>1, <1>2, <1>7, <1>11 DEF SameRows
<1>14. QED BY <1>12, <1>13 DEF a, b

\* What calculate keeps in any other order than that of the table.
SortedBlocks(a, b, modified) ==
    IF a = b THEN {[i |-> 0, j |-> 0, size |-> Len(a), modified |-> 0]} ELSE SortedMatches(a, b, modified)

SortedGone(prev, next, M) ==
    NewIn(next, prev) \cup {Place(prev, At(Staying(prev, next), i)) : i \in IndicesOf(Staying(prev, next)) \ KeptInA(M)}
SortedNew(prev, next, M) ==
    NewIn(prev, next) \cup {Place(next, At(Staying(next, prev), j)) : j \in IndicesOf(Staying(next, prev)) \ KeptInB(M)}

\* Deleting and inserting the rest is a change from the one to the other.
LEMMA SortedMatched ==
    ASSUME NEW prev, NEW next, Comparable(prev, next), NEW modified \in IndexSet
    PROVE  LET M == SortedBlocks(Staying(prev, next), Staying(next, prev), modified)
               D == SortedGone(prev, next, M)
               I == SortedNew(prev, next, M)
           IN  D \in IndexSet /\ I \in IndexSet /\ I \subseteq IndicesOf(next) /\ Matched(D, I, prev, next)
<1> DEFINE a == Staying(prev, next)
           b == Staying(next, prev)
           M == SortedBlocks(a, b, modified)
           KA == KeptInA(M)
           KB == KeptInB(M)
           D0 == NewIn(next, prev)
           I0 == NewIn(prev, next)
           D == SortedGone(prev, next, M)
           I == SortedNew(prev, next, M)
<1>0. prev \in Seq(Nat) /\ next \in Seq(Nat) /\ NPos \notin ToSet(next)
  BY DEF Comparable
<1>1. SameRows(a, b) /\ \A y, v \in IndicesOf(b) : At(b, y) = At(b, v) => y = v
  BY StayingIsSame
<1>2. \A i, k \in IndicesOf(prev) \ D0 : At(prev, i) = At(prev, k) => i = k
  <2>1. \A i \in IndicesOf(prev) \ D0 : At(prev, i) # NPos
    BY <1>0 DEF NewIn
  <2>2. QED BY <2>1 DEF Comparable
<1>3. \A j, l \in IndicesOf(next) \ I0 : At(next, j) = At(next, l) => j = l
  BY DEF Comparable, Distinct
<1>4. D0 \in IndexSet /\ I0 \in IndexSet /\ a \in Seq(Nat) /\ b \in Seq(Nat)
  BY <1>0, StayingLaw
<1>5. I \subseteq IndicesOf(next)
  <2>1. ASSUME NEW y \in IndicesOf(b) PROVE Place(next, At(b, y)) \in IndicesOf(next)
    <3>1. /\ Len(b) \in Nat
          /\ \A k \in 1 .. Len(b) : Shift(I0, k - 1) \in IndicesOf(next) \ I0 /\ b[k] = At(next, Shift(I0, k - 1))
      BY <1>0, <1>4, StayingLaw
    <3>2. y + 1 \in 1 .. Len(b)
      BY <3>1 DEF IndicesOf
    <3>3. Shift(I0, (y + 1) - 1) \in IndicesOf(next) /\ At(b, y) = At(next, Shift(I0, (y + 1) - 1))
      BY <3>1, <3>2 DEF At
    <3>4. At(b, y) \in ToSet(next)
      BY <1>0, <3>3 DEF IndicesOf, At, ToSet
    <3>5. QED BY <1>0, <3>4, PlaceLaw
  <2>2. I0 \subseteq IndicesOf(next)
    BY DEF NewIn
  <2>3. I = I0 \cup {Place(next, At(b, j)) : j \in IndicesOf(b) \ KB}
    BY DEF SortedNew
  <2> HIDE DEF I, I0, b, KB
  <2>4. QED BY <2>1, <2>2, <2>3
<1> HIDE DEF a, b
<1>6. Lining(M, a, b)
  <2>1. CASE a = b
    <3>1. M = {[i |-> 0, j |-> 0, size |-> Len(a), modified |-> 0]}
      BY <2>1 DEF SortedBlocks
    <3> HIDE DEF M
    <3>2. QED BY <1>4, <2>1, <3>1, OneBlock
  <2>2. CASE a # b
    <3>1. M = SortedMatches(a, b, modified)
      BY <2>2 DEF SortedBlocks
    <3> HIDE DEF M
    <3>2. QED BY <1>1, <2>2, <3>1, SortedMatchesLaw
  <2>3. QED BY <2>1, <2>2
<1> HIDE DEF M
<1>7. /\ KA \in SUBSET IndicesOf(a) /\ KB \in SUBSET IndicesOf(b)
      /\ \A x \in KA : \E y \in KB : At(a, x) = At(b, y)
      /\ \A y \in KB : \E x \in KA : At(a, x) = At(b, y)
      /\ \A x, u \in KA, y, v \in KB : At(a, x) = At(b, y) /\ At(a, u) = At(b, v) /\ x < u => y < v
  BY <1>1, <1>6, LiningIsMatched
<1> HIDE DEF KA, KB
<1>8. Leaves(D, prev, a, D0, KA)
  <2>1. KA \in SUBSET IndicesOf(Staying(prev, next))
    BY <1>7 DEF a
  <2>2. QED BY <1>0, <1>2, <2>1, KeptLaw DEF SortedGone, a, KA
<1>9. Leaves(I, next, b, I0, KB)
  <2>1. KB \in SUBSET IndicesOf(Staying(next, prev))
    BY <1>7 DEF b
  <2>2. QED BY <1>0, <1>3, <2>1, KeptLaw DEF SortedNew, b, KB
<1> HIDE DEF D, I, D0, I0
<1>10. /\ D \in IndexSet
       /\ \A i \in IndicesOf(prev) \ D : i \notin D0 /\ Unshift(D0, i) \in KA /\ At(a, Unshift(D0, i)) = At(prev, i)
       /\ \A x \in KA : \E i \in IndicesOf(prev) \ D : Unshift(D0, i) = x /\ At(prev, i) = At(a, x)
  BY <1>8 DEF Leaves
<1>11. /\ I \in IndexSet
       /\ \A j \in IndicesOf(next) \ I : j \notin I0 /\ Unshift(I0, j) \in KB /\ At(b, Unshift(I0, j)) = At(next, j)
       /\ \A y \in KB : \E j \in IndicesOf(next) \ I : Unshift(I0, j) = y /\ At(next, j) = At(b, y)
  BY <1>9 DEF Leaves
<1>12. ASSUME NEW i \in IndicesOf(prev) \ D PROVE \E j \in IndicesOf(next) \ I : At(prev, i) = At(next, j)
  <2>1. PICK y \in KB : At(prev, i) = At(b, y)
    BY <1>7, <1>10
  <2>2. QED BY <1>11, <2>1
<1>13. ASSUME NEW j \in IndicesOf(next) \ I PROVE \E i \in IndicesOf(prev) \ D : At(prev, i) = At(next, j)
  <2>1. PICK x \in KA : At(a, x) = At(next, j)
    BY <1>7, <1>11
  <2>2. QED BY <1>10, <2>1
<1>14. ASSUME NEW i \in IndicesOf(prev) \ D, NEW k \in IndicesOf(prev) \ D,
              NEW j \in IndicesOf(next) \ I, NEW l \in IndicesOf(next) \ I,
              At(prev, i) = At(next, j), At(prev, k) = At(next, l), i < k
       PROVE  j < l
  <2>1. i \in Nat \ D0 /\ k \in Nat \ D0 /\ j \in Nat \ I0 /\ l \in Nat \ I0
    BY <1>10, <1>11 DEF IndicesOf
  <2>2. Unshift(D0, i) < Unshift(D0, k)
    BY <1>4, <1>14, <2>1, StayInOrder
  <2>3. /\ Unshift(D0, i) \in KA /\ Unshift(D0, k) \in KA /\ Unshift(I0, j) \in KB /\ Unshift(I0, l) \in KB
        /\ At(a, Unshift(D0, i)) = At(b, Unshift(I0, j)) /\ At(a, Unshift(D0, k)) = At(b, Unshift(I0, l))
    BY <1>10, <1>11, <1>14
  <2>4. Unshift(I0, j) < Unshift(I0, l)
    BY <1>7, <2>2, <2>3
  <2>5. QED BY <1>4, <2>1, <2>4, StayInOrder
<1>15. Matched(D, I, prev, next)
  BY <1>12, <1>13, <1>14 DEF Matched
<1>16. D \in IndexSet /\ I \in IndexSet /\ I \subseteq IndicesOf(next) /\ Matched(D, I, prev, next)
  BY <1>5, <1>10, <1>11, <1>15
<1>17. QED BY <1>16 DEF D, I, M, a, b

-----------------------------------------------------------------------------
(* From the rows' indices in the table back to the rows                    *)

\* Where the indices of rows before and now agree the rows are the same, and
\* of those the changed ones are the rows in T.
Translates(s, t, prev, next, changed, T) ==
    /\ Len(prev) = Len(s) /\ Len(next) = Len(t)
    /\ \A i \in IndicesOf(s), j \in IndicesOf(t) : At(prev, i) = At(next, j) => At(s, i) = At(t, j)
    /\ \A j \in IndicesOf(t) \ NewIn(prev, next) : At(next, j) \in changed <=> At(t, j) \in T

Marked(prev, next, changed) == {j \in IndicesOf(next) \ NewIn(prev, next) : At(next, j) \in changed}

\* The moves of a change are of rows that it takes out and puts in again.
MovesBetween(moves, D, I, prev, next) ==
    /\ moves \in Seq(AMove) /\ OneEach(moves)
    /\ \A q \in DOMAIN moves :
          /\ moves[q].to \in I /\ moves[q].to \in IndicesOf(next) \ NewIn(prev, next)
          /\ moves[q].from \in D /\ moves[q].from \in IndicesOf(prev)
          /\ At(prev, moves[q].from) = At(next, moves[q].to)

ChangeOf(D, I, modified, moves) ==
    [Empty EXCEPT !.deletions = D, !.insertions = I, !.modifications = modified, !.moves = moves]

\* Its parts, one by one.
LEMMA ChangeOfLaw ==
    ASSUME NEW D, NEW I, NEW modified, NEW moves
    PROVE  ChangeOf(D, I, modified, moves)
             = [deletions |-> D, insertions |-> I, modifications |-> modified, moves |-> moves, mapping |-> {}]
<1> DEFINE E == [Empty EXCEPT !.deletions = D, !.insertions = I, !.modifications = modified]
           e == <<>>
<1>1. Empty = [deletions |-> {}, insertions |-> {}, modifications |-> {}, moves |-> e, mapping |-> {}]
  BY DEF Empty, Deleting
<1>2. E = [Empty EXCEPT !.deletions = D, !.insertions = I, !.modifications = modified]
  OBVIOUS
<1>3. ChangeOf(D, I, modified, moves) = [E EXCEPT !.moves = moves]
  BY Zenon DEF ChangeOf
<1> HIDE DEF e, E
<1>4. E = [deletions |-> D, insertions |-> I, modifications |-> modified, moves |-> e, mapping |-> {}]
  BY <1>1, <1>2
<1>5. QED BY <1>3, <1>4

\* Then a change from the indices of before to those of now tells of the rows.
LEMMA TellsWhen ==
    ASSUME NEW s \in Seq(Nat), NEW t \in Seq(Nat), NEW prev, NEW next, NEW changed, NEW T,
           Comparable(prev, next), Translates(s, t, prev, next, changed, T),
           NEW D \in IndexSet, NEW I \in IndexSet, I \subseteq IndicesOf(next),
           \A j \in IndicesOf(next) : j \notin I => j \notin NewIn(prev, next),
           Matched(D, I, prev, next), NEW moves, MovesBetween(moves, D, I, prev, next)
    PROVE  Tells(ChangeOf(D, I, Marked(prev, next, changed), moves), s, t, T)
<1> DEFINE N == NewIn(prev, next)
           Mo == Marked(prev, next, changed)
           c == ChangeOf(D, I, Mo, moves)
<1>0. /\ prev \in Seq(Nat) /\ next \in Seq(Nat) /\ moves \in Seq(AMove)
      /\ Len(prev) = Len(s) /\ Len(next) = Len(t)
      /\ IndicesOf(prev) = IndicesOf(s) /\ IndicesOf(next) = IndicesOf(t)
  BY DEF Comparable, Translates, IndicesOf, MovesBetween
<1>1. Mo \in IndexSet /\ Mo \subseteq IndicesOf(next)
  <2>1. Mo \in SUBSET IndicesOf(next)
    BY DEF Marked
  <2> HIDE DEF Mo
  <2>2. QED BY <1>0, <2>1, SomeIndices
<1>2. \A j \in IndicesOf(t) : j \notin N => (j \in Mo <=> At(t, j) \in T)
  BY <1>0 DEF Marked, Translates
<1> HIDE DEF N, Mo
<1>3. /\ c.deletions = D /\ c.insertions = I /\ c.modifications = Mo /\ c.moves = moves /\ c.mapping = {}
      /\ c \in ChangeSet
  <2>1. c = [deletions |-> D, insertions |-> I, modifications |-> Mo, moves |-> moves, mapping |-> {}]
    BY ChangeOfLaw
  <2> HIDE DEF c
  <2>2. {} \in SUBSET AMove
    OBVIOUS
  <2>3. [deletions |-> D, insertions |-> I, modifications |-> Mo, moves |-> moves, mapping |-> {}] \in ChangeSet
    BY <1>0, <1>1, <2>2, FromFields
  <2>4. c \in ChangeSet
    BY <2>1, <2>3, Zenon
  <2>5. c.deletions = D /\ c.insertions = I /\ c.modifications = Mo /\ c.moves = moves /\ c.mapping = {}
    BY <2>1
  <2>6. QED BY <2>4, <2>5
<1> HIDE DEF c
<1>4. Lined(D, I, s, t)
  <2>1. Lined(D, I, prev, next)
    BY MatchedIsLined
  <2>2. QED BY <1>0, <2>1 DEF Lined, Translates
<1>5. MovesAreTold(c, s, t)
  <2>1. ASSUME NEW q \in DOMAIN moves
        PROVE  moves[q].from \in D \cap IndicesOf(s) /\ moves[q].to \in I /\ At(s, moves[q].from) = At(t, moves[q].to)
    <3>1. /\ moves[q].to \in I /\ moves[q].to \in IndicesOf(t) /\ moves[q].from \in D /\ moves[q].from \in IndicesOf(s)
          /\ At(prev, moves[q].from) = At(next, moves[q].to)
      BY <1>0 DEF MovesBetween
    <3>2. QED BY <3>1 DEF Translates
  <2>2. OneEach(moves)
    BY DEF MovesBetween
  <2>3. QED BY <1>3, <2>1, <2>2 DEF MovesAreTold
<1>6. ModificationsAreTold(c, t, T)
  <2>1. ASSUME NEW j \in IndicesOf(t), j \notin I \/ \E q \in DOMAIN moves : moves[q].to = j PROVE j \notin N
    BY <1>0, <2>1 DEF MovesBetween, N
  <2>2. QED BY <1>2, <1>3, <2>1 DEF ModificationsAreTold
<1>7. QED BY <1>0, <1>1, <1>3, <1>4, <1>5, <1>6 DEF Tells, c, Mo

\* Some rows of a collection, each once.
SomeOf(s, m) == /\ s \in Seq(Nat) /\ \A k \in DOMAIN s : s[k] \in ToSet(m)
                /\ \A k, l \in DOMAIN s : k # l => s[k] # s[l]

BeforeIn(b, s, m) == [k \in DOMAIN s |-> NowAt(b, Place(m, s[k]))]

\* What calculate is given of results of before and of now.
LEMMA LocatedLaw ==
    ASSUME NEW m \in Seq(Nat), NEW n \in Seq(Nat), NEW b, NEW T, Tells(b, m, n, T), Len(n) <= MaxSize,
           NEW s, SomeOf(s, m), NEW t, SomeOf(t, n)
    PROVE  /\ Comparable(BeforeIn(b, s, m), Rows(t, n))
           /\ Translates(s, t, BeforeIn(b, s, m), Rows(t, n), b.modifications, T)
<1> DEFINE prev == BeforeIn(b, s, m)
           next == Rows(t, n)
<1>0. /\ s \in Seq(Nat) /\ t \in Seq(Nat) /\ Len(s) \in Nat /\ Len(t) \in Nat /\ Len(n) \in Nat
      /\ DOMAIN s = 1 .. Len(s) /\ DOMAIN t = 1 .. Len(t)
  BY DEF SomeOf
<1>1. MaxSize \in Nat /\ NPos \in Nat /\ MaxSize < NPos
  BY ChangeSetsAssumption DEF NPos
<1>2. \A p \in IndicesOf(n) : p \in Nat /\ p # NPos
  BY <1>0, <1>1 DEF IndicesOf
<1>3. prev = [k \in 1 .. Len(s) |-> NowAt(b, Place(m, s[k]))] /\ next = [k \in 1 .. Len(t) |-> Place(n, t[k])]
  BY <1>0 DEF BeforeIn, Rows
<1> HIDE DEF prev, next
<1>4. ASSUME NEW k \in 1 .. Len(s)
      PROVE  \/ prev[k] = NPos
             \/ /\ prev[k] \in IndicesOf(n) /\ At(n, prev[k]) = s[k]
                /\ prev[k] \notin b.insertions \/ \E q \in DOMAIN b.moves : b.moves[q].to = prev[k]
  <2> DEFINE i == Place(m, s[k])
  <2>1. s[k] \in ToSet(m)
    BY <1>0 DEF SomeOf
  <2>2. i \in IndicesOf(m) /\ At(m, i) = s[k]
    BY <2>1, PlaceLaw
  <2>3. prev[k] = NowAt(b, i)
    BY <1>3
  <2> HIDE DEF i
  <2>4. QED BY <2>2, <2>3, NowAtLaw
<1>5. ASSUME NEW k \in 1 .. Len(t) PROVE next[k] \in IndicesOf(n) /\ At(n, next[k]) = t[k]
  <2>1. t[k] \in ToSet(n)
    BY <1>0 DEF SomeOf
  <2>2. next[k] = Place(n, t[k])
    BY <1>3
  <2>3. QED BY <2>1, <2>2, PlaceLaw
<1>6. prev \in Seq(Nat) /\ Len(prev) = Len(s)
  <2>1. \A k \in 1 .. Len(s) : prev[k] \in Nat
    BY <1>1, <1>2, <1>4
  <2>2. prev \in [1 .. Len(s) -> Nat]
    BY <1>3, <2>1
  <2>3. QED BY <1>0, <2>2, FunctionIsASeq
<1>7. next \in Seq(Nat) /\ Len(next) = Len(t)
  <2>1. \A k \in 1 .. Len(t) : next[k] \in Nat
    BY <1>2, <1>5
  <2>2. next \in [1 .. Len(t) -> Nat]
    BY <1>3, <2>1
  <2>3. QED BY <1>0, <2>2, FunctionIsASeq
<1>8. ASSUME NEW i \in IndicesOf(s) PROVE i + 1 \in 1 .. Len(s) /\ i \in Nat
  BY <1>0 DEF IndicesOf
<1>9. ASSUME NEW j \in IndicesOf(t) PROVE j + 1 \in 1 .. Len(t) /\ j \in Nat
  BY <1>0 DEF IndicesOf
<1>10. IndicesOf(prev) = IndicesOf(s) /\ IndicesOf(next) = IndicesOf(t)
  BY <1>6, <1>7 DEF IndicesOf
<1>11. ASSUME NEW i \in IndicesOf(s)
       PROVE  \/ At(prev, i) = NPos
              \/ /\ At(prev, i) \in IndicesOf(n) /\ At(n, At(prev, i)) = At(s, i)
                 /\ At(prev, i) \notin b.insertions \/ \E q \in DOMAIN b.moves : b.moves[q].to = At(prev, i)
  <2>1. At(prev, i) = prev[i + 1] /\ At(s, i) = s[i + 1]
    BY DEF At
  <2>2. QED BY <1>4, <1>8, <2>1
<1>12. ASSUME NEW j \in IndicesOf(t)
       PROVE  At(next, j) \in IndicesOf(n) /\ At(n, At(next, j)) = At(t, j) /\ At(next, j) # NPos
  <2>1. At(next, j) = next[j + 1] /\ At(t, j) = t[j + 1]
    BY DEF At
  <2>2. QED BY <1>2, <1>5, <1>9, <2>1
<1>13. ASSUME NEW i \in IndicesOf(s), NEW k \in IndicesOf(s), At(s, i) = At(s, k) PROVE i = k
  <2>1. s[i + 1] = s[k + 1]
    BY <1>13 DEF At
  <2>2. i + 1 = k + 1
    BY <1>0, <1>8, <2>1 DEF SomeOf
  <2>3. QED BY <1>8, <2>2
<1>14. ASSUME NEW j \in IndicesOf(t), NEW l \in IndicesOf(t), At(t, j) = At(t, l) PROVE j = l
  <2>1. t[j + 1] = t[l + 1]
    BY <1>14 DEF At
  <2>2. j + 1 = l + 1
    BY <1>0, <1>9, <2>1 DEF SomeOf
  <2>3. QED BY <1>9, <2>2
<1>15. Comparable(prev, next)
  <2>1. NPos \notin ToSet(next)
    <3>1. \A k \in 1 .. Len(t) : next[k] # NPos
      BY <1>2, <1>5
    <3>2. QED BY <1>3, <3>1 DEF ToSet
  <2>2. Distinct(next)
    BY <1>10, <1>12, <1>14 DEF Distinct
  <2>3. ASSUME NEW i \in IndicesOf(prev), NEW k \in IndicesOf(prev), At(prev, i) = At(prev, k)
        PROVE  i = k \/ At(prev, i) = NPos
    BY <1>10, <1>11, <1>13, <2>3
  <2>4. QED BY <1>6, <1>7, <2>1, <2>2, <2>3 DEF Comparable
<1>16. ASSUME NEW i \in IndicesOf(s), NEW j \in IndicesOf(t), At(prev, i) = At(next, j) PROVE At(s, i) = At(t, j)
  BY <1>11, <1>12, <1>16
<1>17. ASSUME NEW j \in IndicesOf(t) \ NewIn(prev, next) PROVE At(next, j) \in b.modifications <=> At(t, j) \in T
  <2>1. At(next, j) \in ToSet(prev)
    BY <1>10 DEF NewIn
  <2> DEFINE i == Place(prev, At(next, j))
  <2>2. i \in IndicesOf(s) /\ At(prev, i) = At(next, j)
    BY <1>6, <1>10, <2>1, PlaceLaw
  <2> HIDE DEF i
  <2>3. /\ At(next, j) \in IndicesOf(n) /\ At(n, At(next, j)) = At(t, j)
        /\ At(next, j) \notin b.insertions \/ \E q \in DOMAIN b.moves : b.moves[q].to = At(next, j)
    BY <1>11, <1>12, <2>2
  <2>4. QED BY <2>3 DEF Tells, ModificationsAreTold
<1>18. Translates(s, t, prev, next, b.modifications, T)
  BY <1>6, <1>7, <1>16, <1>17 DEF Translates
<1>19. QED BY <1>15, <1>18 DEF prev, next

-----------------------------------------------------------------------------
(* What results are told                                                   *)

\* What is told of results in any other order than that of the table.
LEMMA SortedTells ==
    ASSUME NEW s \in Seq(Nat), NEW t \in Seq(Nat), NEW prev, NEW next, NEW changed, NEW T, NEW candidates,
           Comparable(prev, next), Translates(s, t, prev, next, changed, T)
    PROVE  Tells(Calculate(prev, next, changed, TRUE, candidates), s, t, T)
<1> DEFINE Mo == Marked(prev, next, changed)
           M == SortedBlocks(Staying(prev, next), Staying(next, prev), Mo)
           D == SortedGone(prev, next, M)
           I == SortedNew(prev, next, M)
           c == Calculate(prev, next, changed, TRUE, candidates)
           e == <<>>
<1>0. prev \in Seq(Nat) /\ next \in Seq(Nat) /\ NPos \notin ToSet(next)
  BY DEF Comparable
<1>1. Mo \in IndexSet
  <2>1. Mo \in SUBSET IndicesOf(next)
    BY DEF Marked
  <2> HIDE DEF Mo
  <2>2. QED BY <1>0, <2>1, SomeIndices
<1>2. D \in IndexSet /\ I \in IndexSet /\ I \subseteq IndicesOf(next) /\ Matched(D, I, prev, next)
  BY <1>1, SortedMatched
<1>3. Gone(prev) \cup Removed(prev, next) = NewIn(next, prev)
  BY <1>0 DEF Gone, Removed, NewIn
<1>4. c = [Empty EXCEPT
             !.deletions = Gone(prev) \cup Removed(prev, next)
                           \cup {Place(prev, At(Staying(prev, next), i)) : i \in IndicesOf(Staying(prev, next)) \ KeptInA(M)},
             !.insertions = NewIn(prev, next)
                           \cup {Place(next, At(Staying(next, prev), j)) : j \in IndicesOf(Staying(next, prev)) \ KeptInB(M)},
             !.modifications = Mo]
  BY Zenon DEF Calculate, Marked, NewIn, KeptInA, KeptInB, SortedBlocks
<1>5. c = [Empty EXCEPT !.deletions = D, !.insertions = I, !.modifications = Mo]
  BY <1>3, <1>4, Zenon DEF SortedGone, SortedNew
<1>6. \A j \in IndicesOf(next) : j \notin I => j \notin NewIn(prev, next)
  BY DEF SortedNew
<1> HIDE DEF c, D, I, Mo, M
<1>7. MovesBetween(e, D, I, prev, next)
  <2>1. e \in Seq(AMove) /\ DOMAIN e = {}
    OBVIOUS
  <2> HIDE DEF e
  <2>2. OneEach(e)
    BY <2>1 DEF OneEach
  <2>3. QED BY <2>1, <2>2 DEF MovesBetween
<1>8. c = ChangeOf(D, I, Mo, e)
  <2>1. Empty = [deletions |-> {}, insertions |-> {}, modifications |-> {}, moves |-> e, mapping |-> {}]
    BY DEF Empty, Deleting
  <2> HIDE DEF e
  <2>2. c = [deletions |-> D, insertions |-> I, modifications |-> Mo, moves |-> e, mapping |-> {}]
    BY <1>5, <2>1
  <2>3. QED BY <2>2, ChangeOfLaw
<1> HIDE DEF e
<1>9. Tells(ChangeOf(D, I, Marked(prev, next, changed), e), s, t, T)
  BY <1>2, <1>6, <1>7, TellsWhen
<1>10. QED BY <1>8, <1>9 DEF c, Mo

\* What is told of results in the order of the table, in which no row has moved but
\* those at the candidates.
LEMMA UnsortedTells ==
    ASSUME NEW s \in Seq(Nat), NEW t \in Seq(Nat), NEW prev, NEW next, NEW changed, NEW T, NEW candidates,
           Comparable(prev, next), Translates(s, t, prev, next, changed, T), SettledOrder(prev, next, candidates)
    PROVE  Tells(Calculate(prev, next, changed, FALSE, candidates), s, t, T)
<1> DEFINE Mo == Marked(prev, next, changed)
           u == UnsortedMoves(prev, next, candidates, NewIn(prev, next))
           D == Gone(prev) \cup u.removed
           c == Calculate(prev, next, changed, FALSE, candidates)
<1>1. /\ u \in UnsortedState /\ OneEach(u.moves)
      /\ \A q \in DOMAIN u.moves :
            /\ u.moves[q].to \in u.insertions /\ u.moves[q].to \in IndicesOf(next) \ NewIn(prev, next)
            /\ u.moves[q].from \in u.removed /\ u.moves[q].from \in IndicesOf(prev)
            /\ At(prev, u.moves[q].from) = At(next, u.moves[q].to)
      /\ \A j \in IndicesOf(next) : j \notin u.insertions => j \notin NewIn(prev, next)
      /\ u.insertions \subseteq IndicesOf(next)
      /\ D \in IndexSet
      /\ Matched(D, u.insertions, prev, next)
  BY UnsortedMatched
<1>2. c = ChangeOf(D, u.insertions, Mo, u.moves)
  BY Zenon DEF Calculate, Marked, NewIn, ChangeOf
<1> HIDE DEF c, u
<1>3. u.insertions \in IndexSet /\ u.moves \in Seq(AMove)
  BY <1>1 DEF UnsortedState
<1>4. MovesBetween(u.moves, D, u.insertions, prev, next)
  <2>1. \A x : x \in u.removed => x \in D
    OBVIOUS
  <2> HIDE DEF D
  <2>2. QED BY <1>1, <1>3, <2>1 DEF MovesBetween
<1> HIDE DEF D
<1>5. Tells(ChangeOf(D, u.insertions, Marked(prev, next, changed), u.moves), s, t, T)
  BY <1>1, <1>3, <1>4, TellsWhen
<1>6. QED BY <1>2, <1>5 DEF c

\* Rows in the order of their places are each there once.
LEMMA OrderedIsSome ==
    ASSUME NEW m \in Seq(Nat), NEW S \in SUBSET ToSet(m), NEW s \in Seq(Nat), \A k \in DOMAIN s : s[k] \in S,
           \A k, l \in DOMAIN s : k < l => Place(m, s[k]) < Place(m, s[l])
    PROVE  SomeOf(s, m)
<1>1. \A k \in DOMAIN s : s[k] \in ToSet(m) /\ Place(m, s[k]) \in Nat
  <2>1. \A k \in DOMAIN s : s[k] \in ToSet(m)
    OBVIOUS
  <2>2. \A e \in ToSet(m) : Place(m, e) \in Nat
    BY PlaceLaw DEF IndicesOf
  <2>3. QED BY <2>1, <2>2
<1>2. ASSUME NEW k \in DOMAIN s, NEW l \in DOMAIN s, k # l PROVE s[k] # s[l]
  <2>1. k \in Nat /\ l \in Nat
    OBVIOUS
  <2>2. k < l \/ l < k
    BY <1>2, <2>1
  <2>3. Place(m, s[k]) < Place(m, s[l]) \/ Place(m, s[l]) < Place(m, s[k])
    BY <2>2
  <2>4. QED BY <1>1, <2>3
<1>3. QED BY <1>1, <1>2 DEF SomeOf

\* In the order of the table rows that are not told as inserted are still behind
\* the rows that they were behind.
LEMMA SettledLaw ==
    ASSUME NEW m \in Seq(Nat), NEW n \in Seq(Nat), Distinct(m), Distinct(n), NEW b, NEW T, Tells(b, m, n, T),
           Len(n) <= MaxSize, InPlace(b, m, n), Sinks(m, n), NEW S \in SUBSET ToSet(m), NEW U \in SUBSET ToSet(n)
    PROVE  SettledOrder(BeforeIn(b, InOrder(S, m), m), Rows(InOrder(U, n), n), b.insertions)
<1> DEFINE s == InOrder(S, m)
           t == InOrder(U, n)
           prev == BeforeIn(b, s, m)
           next == Rows(t, n)
<1>1. /\ s \in Seq(Nat) /\ \A k \in DOMAIN s : s[k] \in S
      /\ \A k, l \in DOMAIN s : k < l => Place(m, s[k]) < Place(m, s[l])
  BY InOrderLaw
<1>2. /\ t \in Seq(Nat) /\ \A k \in DOMAIN t : t[k] \in U
      /\ \A k, l \in DOMAIN t : k < l => Place(n, t[k]) < Place(n, t[l])
  BY InOrderLaw
<1> HIDE DEF s, t
<1>3. SomeOf(s, m) /\ SomeOf(t, n)
  BY <1>1, <1>2, OrderedIsSome
<1>4. Comparable(prev, next) /\ Translates(s, t, prev, next, b.modifications, T)
  BY <1>3, LocatedLaw
<1>5. /\ Len(s) \in Nat /\ DOMAIN s = 1 .. Len(s) /\ Len(t) \in Nat /\ DOMAIN t = 1 .. Len(t)
      /\ IndicesOf(prev) = IndicesOf(s) /\ IndicesOf(next) = IndicesOf(t)
  BY <1>1, <1>2, <1>4 DEF Translates, IndicesOf
<1>6. next = [k \in DOMAIN t |-> Place(n, t[k])]
  BY DEF Rows
<1> HIDE DEF prev, next
\* A row of now: its place in the table, and where it was.
<1>7. ASSUME NEW j \in IndicesOf(next)
      PROVE  /\ j \in Nat /\ j + 1 \in DOMAIN t /\ At(next, j) = Place(n, t[j + 1])
             /\ At(next, j) \in IndicesOf(n) /\ At(n, At(next, j)) = At(t, j)
  <2>1. j \in Nat /\ j + 1 \in DOMAIN t
    BY <1>5 DEF IndicesOf
  <2>2. At(next, j) = Place(n, t[j + 1]) /\ At(t, j) = t[j + 1]
    BY <1>6, <2>1 DEF At
  <2>3. t[j + 1] \in ToSet(n)
    BY <1>2, <2>1
  <2>4. QED BY <2>1, <2>2, <2>3, PlaceLaw
<1>8. ASSUME NEW i \in IndicesOf(prev)
      PROVE  /\ i \in Nat /\ i + 1 \in DOMAIN s /\ Place(m, s[i + 1]) \in IndicesOf(m)
             /\ At(m, Place(m, s[i + 1])) = At(s, i)
  <2>1. i \in Nat /\ i + 1 \in DOMAIN s
    BY <1>5 DEF IndicesOf
  <2>2. s[i + 1] \in ToSet(m)
    BY <1>1, <2>1
  <2>3. QED BY <2>1, <2>2, PlaceLaw DEF At
<1>9. ASSUME NEW j \in IndicesOf(next) \ NewIn(prev, next)
      PROVE  WasAt(prev, next, j) \in IndicesOf(prev) /\ At(s, WasAt(prev, next, j)) = At(t, j)
  <2>1. WasAt(prev, next, j) \in IndicesOf(prev) /\ At(prev, WasAt(prev, next, j)) = At(next, j)
    BY <1>4, WasAtLaw
  <2>2. QED BY <1>4, <1>5, <2>1 DEF Translates
<1>10. ASSUME NEW j \in IndicesOf(next) \ NewIn(prev, next), NEW u \in IndicesOf(next) \ NewIn(prev, next),
              At(next, j) \notin b.insertions, j < u
       PROVE  WasAt(prev, next, j) < WasAt(prev, next, u)
  <2> DEFINE p == At(next, j)
             q == At(next, u)
             x == WasAt(prev, next, j)
             y == WasAt(prev, next, u)
             P == Place(m, s[x + 1])
             Q == Place(m, s[y + 1])
  <2>1. p < q
    <3>1. j + 1 < u + 1
      BY <1>7, <1>10
    <3>2. QED BY <1>2, <1>7, <3>1
  <2>2. p \in IndicesOf(n) /\ q \in IndicesOf(n) /\ At(n, p) = At(t, j) /\ At(n, q) = At(t, u)
    BY <1>7
  <2>3. x \in IndicesOf(prev) /\ At(s, x) = At(t, j) /\ y \in IndicesOf(prev) /\ At(s, y) = At(t, u)
    BY <1>9
  <2>4. p \notin b.insertions
    BY <1>10
  <2> HIDE DEF p, q, x, y
  <2>5. /\ x \in Nat /\ y \in Nat /\ x + 1 \in DOMAIN s /\ y + 1 \in DOMAIN s
        /\ P \in IndicesOf(m) /\ At(m, P) = At(t, j) /\ Q \in IndicesOf(m) /\ At(m, Q) = At(t, u)
    BY <1>8, <2>3
  <2>6. p \in IndicesOf(m) /\ At(m, p) = At(t, j)
    BY <2>2, <2>4 DEF InPlace
  <2>7. P = p
    BY <2>5, <2>6 DEF Distinct
  <2>8. q <= Q
    BY <2>2, <2>5 DEF Sinks
  <2>9. P \in Nat /\ Q \in Nat /\ q \in Nat
    BY <2>2, <2>5 DEF IndicesOf
  <2>10. P < Q
    BY <2>1, <2>7, <2>8, <2>9
  <2>11. y + 1 < x + 1 => Q < P
    BY <1>1, <2>5
  <2>12. x # y
    BY <2>9, <2>10
  <2> HIDE DEF P, Q
  <2>13. x < y
    BY <2>5, <2>9, <2>10, <2>11, <2>12
  <2>14. QED BY <2>13 DEF x, y
<1>11. SettledOrder(prev, next, b.insertions)
  BY <1>10 DEF SettledOrder
<1>12. QED BY <1>11 DEF prev, next, s, t

\* Some rows in the order of a key are each there once.
LEMMA KeyedIsSome == ASSUME NEW m \in Seq(Nat), NEW S \in SUBSET ToSet(m), NEW T PROVE SomeOf(ByKey(S, T), m)
<1> DEFINE s == ByKey(S, T)
<1>1. S \in IndexSet
  <2>1. ToSet(m) \in IndexSet
    BY EntriesAreFinite
  <2>2. QED BY <2>1, FS_Subset DEF IndexSet
<1>2. s \in Seq(Nat) /\ (\A k \in DOMAIN s : s[k] \in S) /\ \A k, l \in DOMAIN s : k # l => s[k] # s[l]
  BY <1>1, ByKeyLaw
<1> HIDE DEF s
<1>3. SomeOf(s, m)
  BY <1>2 DEF SomeOf
<1>4. QED BY <1>3 DEF s

\* What is told of any results, whatever query they are of and however they are sorted.
LEMMA ToldOfResults ==
    ASSUME TableInv, kind = "table", stage = "parsed", NEW s, NEW t, SomeOf(s, mid), SomeOf(t, list), NEW sorted \in BOOLEAN,
           sorted \/ SettledOrder(BeforeIn(builder, s, mid), Rows(t, list), builder.insertions)
    PROVE  IsTold(Told(builder, s, t, sorted), s, t)
<1> DEFINE prev == BeforeIn(builder, s, mid)
           next == Rows(t, list)
           c == Told(builder, s, t, sorted)
<1>1. mid \in Seq(Nat) /\ list \in Seq(Nat) /\ Len(list) <= MaxSize /\ Tells(builder, mid, list, touched)
  BY Zenon DEF TableInv
<1>2. s \in Seq(Nat) /\ t \in Seq(Nat)
  BY DEF SomeOf
<1>3. c = Calculate(prev, next, builder.modifications, sorted, builder.insertions)
  BY Zenon DEF Told, BeforeIn
<1>4. Comparable(prev, next) /\ Translates(s, t, prev, next, builder.modifications, touched)
  BY <1>1, LocatedLaw
<1> HIDE DEF prev, next, c
<1>5. sorted => Tells(Calculate(prev, next, builder.modifications, TRUE, builder.insertions), s, t, touched)
  BY <1>2, <1>4, SortedTells
<1>6. ~sorted => Tells(Calculate(prev, next, builder.modifications, FALSE, builder.insertions), s, t, touched)
  <2>1. ~sorted => SettledOrder(prev, next, builder.insertions)
    BY DEF prev, next
  <2>2. QED BY <1>2, <1>4, <2>1, UnsortedTells
<1>7. sorted = TRUE \/ sorted = FALSE
  OBVIOUS
<1>8. Tells(c, s, t, touched)
  BY <1>3, <1>5, <1>6, <1>7, Zenon
<1>9. Describes(c, s, t) /\ Marks(c, s, t, touched) /\ MovesHold(c, s, t)
  BY <1>2, <1>8, ToldIsRight
<1>10. QED BY <1>9 DEF IsTold, c

\* So what is told of results in the order of the table and in that of a key is right.
LEMMA ResultsAreRight == TableInv /\ QueryInv => ResultsAreDescribed
<1> SUFFICES ASSUME TableInv, QueryInv, kind = "table", stage = "parsed", NEW S \in SUBSET ToSet(mid), NEW T \in NowMatching(S)
             PROVE  /\ ~swapped => IsTold(Told(builder, InOrder(S, mid), InOrder(T, list), FALSE), InOrder(S, mid), InOrder(T, list))
                    /\ IsTold(Told(builder, ByKey(S, {}), ByKey(T, touched), TRUE), ByKey(S, {}), ByKey(T, touched))
  BY Zenon DEF ResultsAreDescribed
<1>1. /\ mid \in Seq(Nat) /\ list \in Seq(Nat) /\ Distinct(mid) /\ Distinct(list) /\ Len(list) <= MaxSize
      /\ Tells(builder, mid, list, touched)
  BY Zenon DEF TableInv
<1>2. T \in SUBSET ToSet(list)
  <2>1. PICK F \in SUBSET {e \in ToSet(list) : e \in touched \/ e \notin ToSet(mid)} :
          T = ((S \cap ToSet(list)) \ {e \in ToSet(list) : e \in touched \/ e \notin ToSet(mid)}) \cup F
    BY Zenon DEF NowMatching
  <2>2. QED BY <2>1
<1>3. ASSUME ~swapped PROVE IsTold(Told(builder, InOrder(S, mid), InOrder(T, list), FALSE), InOrder(S, mid), InOrder(T, list))
  <2> DEFINE s == InOrder(S, mid)
             t == InOrder(T, list)
  <2>1. InPlace(builder, mid, list) /\ Sinks(mid, list)
    BY <1>3 DEF QueryInv
  <2>2. SettledOrder(BeforeIn(builder, s, mid), Rows(t, list), builder.insertions)
    BY <1>1, <1>2, <2>1, SettledLaw
  <2>3. SomeOf(s, mid)
    <3>1. /\ s \in Seq(Nat) /\ \A k \in DOMAIN s : s[k] \in S
          /\ \A k, l \in DOMAIN s : k < l => Place(mid, s[k]) < Place(mid, s[l])
      BY <1>1, InOrderLaw
    <3> HIDE DEF s
    <3>2. QED BY <1>1, <3>1, OrderedIsSome
  <2>4. SomeOf(t, list)
    <3>1. /\ t \in Seq(Nat) /\ \A k \in DOMAIN t : t[k] \in T
          /\ \A k, l \in DOMAIN t : k < l => Place(list, t[k]) < Place(list, t[l])
      BY <1>1, <1>2, InOrderLaw
    <3> HIDE DEF t
    <3>2. QED BY <1>1, <1>2, <3>1, OrderedIsSome
  <2> HIDE DEF s, t
  <2>5. IsTold(Told(builder, s, t, FALSE), s, t)
    BY <2>2, <2>3, <2>4, ToldOfResults
  <2>6. QED BY <2>5 DEF s, t
<1>4. IsTold(Told(builder, ByKey(S, {}), ByKey(T, touched), TRUE), ByKey(S, {}), ByKey(T, touched))
  <2>1. SomeOf(ByKey(S, {}), mid) /\ SomeOf(ByKey(T, touched), list)
    BY <1>1, <1>2, KeyedIsSome
  <2>2. QED BY <2>1, ToldOfResults
<1>5. QED BY <1>3, <1>4

\* What the observers of any query's results are told of a transaction makes the
\* results of now of those of before, whichever rows match and in which order.
THEOREM ResultsAreAlwaysDescribed == Spec => []ResultsAreDescribed
<1>1. Init => CollectionInv /\ QueryInv
  BY ListInit, TableInit, QueryInit DEF CollectionInv, Init
<1>2. CollectionInv /\ QueryInv /\ [Next]_vars => QueryInv'
  BY QueryStep DEF CollectionInv
<1>3. CollectionInv /\ QueryInv => ResultsAreDescribed
  BY ResultsAreRight DEF CollectionInv
<1>4. QED BY <1>1, <1>2, <1>3, CollectionInvariance, PTL DEF Spec

\* And not only in the order of one key: results may be sorted in any way, before and now.
SortedIsDescribed ==
    kind = "table" /\ stage = "parsed" =>
        \A s, t : SomeOf(s, mid) /\ SomeOf(t, list) => IsTold(Told(builder, s, t, TRUE), s, t)

\* What observers of sorted results are told is right, whatever they are sorted by.
THEOREM SortedIsAlwaysDescribed == Spec => []SortedIsDescribed
<1>1. CollectionInv => SortedIsDescribed
  BY ToldOfResults DEF CollectionInv, SortedIsDescribed
<1>2. QED BY <1>1, CollectionInvariance, PTL

=============================================================================
