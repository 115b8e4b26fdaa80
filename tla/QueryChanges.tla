---------------------------- MODULE QueryChanges -----------------------------
(***************************************************************************)
(* The change set of query results: ResultsNotifier::calculate_changes and *)
(* CollectionChangeBuilder::calculate.  Nothing records how results come   *)
(* to differ from those of the last run, so the two are compared; rows are *)
(* known by their indices in the table, which the change set of the table  *)
(* (of ChangeSets) translates.  The rows of results are distinct.          *)
(***************************************************************************)
EXTENDS ChangeSets

(* npos is the greatest size_t: no index, and no number of rows.          *)
NPos == MaxSize + 1

(* std::lower_bound for a move from row: of the n moves after the first lo  *)
(* those before the middle or those behind it are left, until there are    *)
(* none.                                                                   *)
LowerBound(moves, row) ==
    LET Halve(r) ==
            LET half == r.n \div 2
            IN  IF r.n = 0 THEN r
                ELSE IF moves[r.lo + half + 1].from < row THEN [lo |-> r.lo + half + 1, n |-> r.n - half - 1]
                ELSE [lo |-> r.lo, n |-> half]
    IN  FoldLeft(LAMBDA r, m : Halve(r), [lo |-> 0, n |-> Len(moves)], moves).lo

(* Where a row is now that was at index row.                               *)
NowAt(b, row) ==
    LET k == LowerBound(b.moves, row) + 1
    IN  IF row \notin b.deletions THEN Shift(b.insertions, Unshift(b.deletions, row))
        ELSE IF k <= Len(b.moves) /\ b.moves[k].from = row THEN b.moves[k].to
        ELSE NPos

-----------------------------------------------------------------------------
(* calculate.  prev has the rows of before as they are numbered now, NPos  *)
(* for those deleted from the table; next has the rows of now.             *)

Place(s, row) == CHOOSE i \in IndicesOf(s) : At(s, i) = row
Gone(prev) == {i \in IndicesOf(prev) : At(prev, i) = NPos}
Removed(prev, next) == {i \in IndicesOf(prev) \ Gone(prev) : At(prev, i) \notin ToSet(next)}
Staying(s, t) == Without(s, {i \in IndicesOf(s) : At(s, i) \notin ToSet(t)})

(* Mutant: a row that has moved still counts where it was.                 *)
MoveStepLeavesBehind(r, row, prev, next, candidates) ==
    LET from == Place(prev, row)
        to == Place(next, row)
        shifted == from - CountBelow(Gone(prev), from)
        expected == to - CountBelow(r.insertions, to) + CountBelow(r.removed, from)
    IN  IF shifted = r.expected \/ row \notin candidates \/ shifted = expected
        THEN [r EXCEPT !.expected = shifted + 1]
        ELSE [r EXCEPT !.moves = Append(@, Pair(from, to)), !.insertions = @ \cup {to}]

(* In table order a row can only have moved if it is one of the candidates *)
(* that the table's change set has as insertions.                          *)
MoveStep(r, row, prev, next, candidates) ==
    LET from == Place(prev, row)
        to == Place(next, row)
        shifted == from - CountBelow(Gone(prev), from)
        expected == to - CountBelow(r.insertions, to) + CountBelow(r.removed, from)
    IN  IF shifted = r.expected \/ row \notin candidates \/ shifted = expected
        THEN [r EXCEPT !.expected = shifted + 1]
        ELSE [r EXCEPT !.moves = Append(@, Pair(from, to)),
                       !.insertions = @ \cup {to}, !.removed = @ \cup {from}]

UnsortedMoves(prev, next, candidates, insertions) ==
    FoldLeft(LAMBDA r, row : MoveStep(r, row, prev, next, candidates),
             [expected |-> 0, moves |-> <<>>, insertions |-> insertions, removed |-> Removed(prev, next)],
             Staying(next, prev))

(* In any other order what stays where it is are the longest blocks that   *)
(* a and b have in common.  A match [i, j, size] is one in a from i and in *)
(* b from j; among matches of one size that with fewer modified rows wins, *)
(* as the code counts them.                                                *)
EndingAt(a, b, i, j, i0, j0) ==
    Max({n \in 1 .. Min({i - i0, j - j0}) + 1 : \A k \in 0 .. n - 1 : At(a, i - k) = At(b, j - k)})

BetterMatch(best, i, j, size, modified) ==
    LET Count(x) == IF x - size + 1 < 0 THEN 0 ELSE CountIn(modified, x - size + 1, x + 1)
        known == IF best.modified = NPos THEN Count(best.j) ELSE best.modified
        this == [i |-> i - size + 1, j |-> j - size + 1, size |-> size, modified |-> NPos]
    IN  IF size > best.size THEN this
        ELSE IF size < best.size THEN best
        ELSE IF Count(j) < known THEN [this EXCEPT !.modified = Count(j)]
        ELSE [best EXCEPT !.modified = known]

LongestMatch(a, b, box, modified) ==
    FoldLeft(LAMBDA best, i :
                LET j == Place(b, At(a, i))
                IN  IF box.j0 <= j /\ j < box.j1
                    THEN BetterMatch(best, i, j, EndingAt(a, b, i, j, box.i0, box.j0), modified)
                    ELSE best,
             [i |-> box.i0, j |-> box.j0, size |-> 0, modified |-> 0],
             [k \in 1 .. (box.i1 - box.i0) |-> box.i0 + k - 1])

(* A box has the rows of a from i0 on to before i1 and those of b from j0  *)
(* on to before j1.  After its longest match come those in the boxes       *)
(* before and behind it, unless that is too near the end of b.             *)
Box(i0, i1, j0, j1) == [i0 |-> i0, i1 |-> i1, j0 |-> j0, j1 |-> j1]

MatchesIn(a, b, box, modified, inner) ==
    LET m == LongestMatch(a, b, box, modified)
        iEnd == m.i + m.size
        jEnd == m.j + m.size
    IN  IF m.size = 0 THEN {}
        ELSE {m}
             \cup (IF m.i > box.i0 /\ m.j > box.j0 THEN inner[Box(box.i0, m.i, box.j0, m.j)] ELSE {})
             \cup (IF iEnd < box.j1 /\ jEnd < box.j1 THEN inner[Box(iEnd, box.i1, jEnd, box.j1)] ELSE {})

(* find_longest_matches: with each row of a it may go a level deeper.      *)
Matches(a, b, box, modified) ==
    LET boxes == [i0 : 0 .. Len(a), i1 : 0 .. Len(a), j0 : 0 .. Len(b), j1 : 0 .. Len(b)]
    IN  FoldLeft(LAMBDA inner, row : [x \in boxes |-> MatchesIn(a, b, x, modified, inner)],
                 [x \in boxes |-> {}], a)[box]

SortedMatches(a, b, modified) ==
    LET start == Min({i \in IndicesOf(a) : At(a, i) # At(b, i)})
    IN  {[i |-> 0, j |-> 0, size |-> start, modified |-> 0]} 
            \cup Matches(a, b, Box(start, Len(a), start, Len(b)), modified)

Calculate(prev, next, changed, sorted, candidates) ==
    LET insertions == {j \in IndicesOf(next) : At(next, j) \notin ToSet(prev)}
        modified == {j \in IndicesOf(next) \ insertions : At(next, j) \in changed}
        a == Staying(prev, next)
        b == Staying(next, prev)
        matches == IF a = b THEN {[i |-> 0, j |-> 0, size |-> Len(a), modified |-> 0]} ELSE SortedMatches(a, b, modified)
        keptInA == UNION {m.i .. (m.i + m.size - 1) : m \in matches}
        keptInB == UNION {m.j .. (m.j + m.size - 1) : m \in matches}
        u == UnsortedMoves(prev, next, candidates, insertions)
    IN  IF sorted
        THEN [Empty EXCEPT
                !.deletions = Gone(prev) \cup Removed(prev, next)
                              \cup {Place(prev, At(a, i)) : i \in IndicesOf(a) \ keptInA},
                !.insertions = insertions \cup {Place(next, At(b, j)) : j \in IndicesOf(b) \ keptInB},
                !.modifications = modified]
        ELSE [Empty EXCEPT
                !.deletions = Gone(prev) \cup u.removed, !.insertions = u.insertions,
                !.modifications = modified, !.moves = u.moves]

-----------------------------------------------------------------------------
(* Results are some of the entries, in the order of the table or in that   *)
(* of a key: an entry that was modified has another key.                   *)
Ordered(S, key) ==
    [k \in 1 .. Cardinality(S) |-> CHOOSE e \in S : Cardinality({d \in S : key[d] < key[e]}) = k - 1]
InOrder(S, s) == Ordered(S, [e \in S |-> Place(s, e)])
ByKey(S, T) == Ordered(S, [e \in S |-> IF e \in T THEN -e ELSE e])
Rows(s, t) == [k \in DOMAIN s |-> Place(t, s[k])]

(* What matches the query now, of what is new or was modified; the rest    *)
(* matches if it did.                                                      *)
NowMatching(S) ==
    LET free == {e \in ToSet(list) : e \in touched \/ e \notin ToSet(mid)}
    IN  {((S \cap ToSet(list)) \ free) \cup F : F \in SUBSET free}

Told(b, s, t, sorted) ==
    Calculate([k \in DOMAIN s |-> NowAt(b, Place(mid, s[k]))], Rows(t, list),
              b.modifications, sorted, b.insertions)

(* Whatever the query, deleting and inserting at the indices that are told *)
(* makes the results of now of those of before, what stayed is marked as   *)
(* modified if it was, and moves are moves: calculate's own check, that of *)
(* debug builds, in which it lays the change on prev_rows.  In table order *)
(* that is so as long as no rows were swapped, which                       *)
(* calculate_moves_unsorted leaves out of account.  It is about what one   *)
(* pass over the log says of the table: the worker takes the notifiers of  *)
(* results that have run on in one, and merges nothing for them.           *)
IsTold(b, s, t) == Describes(b, s, t) /\ Marks(b, s, t, touched) /\ MovesHold(b, s, t)

ResultsAreDescribed ==
    kind = "table" /\ stage = "parsed" =>
        \A S \in SUBSET ToSet(mid) : \A T \in NowMatching(S) :
            /\ LET s == InOrder(S, mid) t == InOrder(T, list)
               IN  ~swapped => IsTold(Told(builder, s, t, FALSE), s, t)
            /\ LET s == ByKey(S, {}) t == ByKey(T, touched)
               IN  IsTold(Told(builder, s, t, TRUE), s, t)
=============================================================================
