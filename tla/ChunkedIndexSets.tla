-------------------------- MODULE ChunkedIndexSets ---------------------------
(***************************************************************************)
(* How an IndexSet is kept and worked on (index_set.cpp): as ranges, in    *)
(* chunks of at most ChunkSize, each of which knows where it begins and    *)
(* ends and how many indices it has.  Operations look at those first and   *)
(* go into one chunk only, and so depend on every other operation having   *)
(* kept them right.  IndexSets says what they are to compute.              *)
(*                                                                         *)
(* A set is a sequence of chunks.  An iterator is a pair: which chunk, and *)
(* which of its ranges; an operation that returns one has [set, pos].      *)
(***************************************************************************)
EXTENDS IndexSets, Sequences, SequencesExt

CONSTANTS
    ChunkSize,  \* max_size: 4 in debug builds, 256 else
    MaxIndex,   \* bound: indices that are tried
    MaxShifted  \* bound: those of the arguments of add_shifted_by

(* ensure_space splits a chunk in halves.                                  *)
ASSUME ChunkedIndexSetsAssumption ==
    /\ ChunkSize \in Nat \ {0} /\ ChunkSize % 2 = 0
    /\ MaxIndex \in Nat /\ MaxShifted \in 0 .. MaxIndex

FromTo(f, s) == [first |-> f, second |-> s]
Width(r) == r.second - r.first
WidthOf(data) == FoldLeft(LAMBDA n, r : n + Width(r), 0, data)
ChunkOf(data) == [data |-> data, begin |-> data[1].first, end |-> Last(data).second, count |-> WidthOf(data)]

-----------------------------------------------------------------------------
(* The iterator.                                                           *)

BeginOf == <<1, 1>>
EndOf(set) == <<Len(set) + 1, 1>>
RangeAt(set, p) == set[p[1]].data[p[2]]
NextChunk(p) == <<p[1] + 1, 1>>
Succ(set, p) == IF p[2] < Len(set[p[1]].data) THEN <<p[1], p[2] + 1>> ELSE NextChunk(p)
Pred(set, p) == IF p[2] > 1 THEN <<p[1], p[2] - 1>> ELSE <<p[1] - 1, Len(set[p[1] - 1].data)>>

PutRange(set, p, r, begin, end) ==
    LET c == set[p[1]]
    IN  [set EXCEPT ![p[1]] =
            [data |-> [c.data EXCEPT ![p[2]] = r],
             begin |-> IF p[2] = 1 THEN begin ELSE c.begin,
             end |-> IF p[2] = Len(c.data) THEN end ELSE c.end,
             count |-> c.count - Width(c.data[p[2]]) + Width(r)]]

SetRange(set, p, front, back) == PutRange(set, p, FromTo(front, back), front, back)
Adjust(set, p, front, back) ==
    LET c == set[p[1]]
        r == RangeAt(set, p)
    IN  PutRange(set, p, FromTo(r.first + front, r.second + back), c.begin + front, c.end + back)

RECURSIVE ShiftFrom(_, _, _)
ShiftFrom(set, p, n) ==
    IF p = EndOf(set) THEN set ELSE ShiftFrom(Adjust(set, p, n, n), Succ(set, p), n)

-----------------------------------------------------------------------------
(* ChunkedRangeVector.                                                     *)

PushBack(set, r) ==
    IF set # <<>> /\ Len(Last(set).data) < ChunkSize
    THEN [set EXCEPT ![Len(set)] =
            [@ EXCEPT !.data = Append(@, r), !.count = @ + Width(r), !.end = r.second]]
    ELSE Append(set, ChunkOf(<<r>>))

(* A full chunk gives its second half to a new one after it.               *)
EnsureSpace(set, p) ==
    LET c == set[p[1]]
        half == ChunkSize \div 2
        kept == SubSeq(c.data, 1, Len(c.data) - half)
        moved == SubSeq(c.data, Len(c.data) - half + 1, Len(c.data))
    IN  IF Len(c.data) + 1 <= ChunkSize THEN [set |-> set, pos |-> p]
        ELSE [set |-> InsertAt([set EXCEPT ![p[1]] =
                          [@ EXCEPT !.data = kept, !.end = Last(kept).second, !.count = @ - WidthOf(moved)]],
                          p[1] + 1, ChunkOf(moved)),
              pos |-> IF p[2] > half THEN <<p[1] + 1, p[2] - half>> ELSE p]

InsertRange(set, p, r) ==
    LET e == EnsureSpace(set, p)
        end == PushBack(set, r)
    IN  IF p = EndOf(set) THEN [set |-> end, pos |-> Pred(end, EndOf(end))]
        ELSE [set |-> [e.set EXCEPT ![e.pos[1]] =
                 [@ EXCEPT !.data = InsertAt(@, e.pos[2], r), !.count = @ + Width(r),
                           !.begin = Min({@, r.first}), !.end = Max({@, r.second})]],
              pos |-> e.pos]

EraseRange(set, p) ==
    LET c == set[p[1]]
        data == RemoveAt(c.data, p[2])
    IN  IF data = <<>> THEN [set |-> RemoveAt(set, p[1]), pos |-> p]
        ELSE [set |-> [set EXCEPT ![p[1]] =
                 [data |-> data, begin |-> data[1].first, end |-> Last(data).second,
                  count |-> c.count - Width(c.data[p[2]])]],
              pos |-> IF p[2] <= Len(data) THEN p ELSE NextChunk(p)]

(* ChunkedRangeVectorBuilder: as many chunks as the set needed before are  *)
(* there to begin with.  Those added later are taken to begin with 1 index.*)
Builder(set) ==
    [chunks |-> <<[data |-> <<>>, begin |-> 0, end |-> 0, count |-> 0]>>,
     there |-> FoldLeft(LAMBDA n, c : n + Len(c.data), 0, set) \div ChunkSize + 1]

PushRange(b, r) ==
    LET n == Len(b.chunks)
        c == b.chunks[n]
        joined == [c.data EXCEPT ![Len(c.data)].second = r.second]
        more == [c EXCEPT !.count = @ + Width(r),
                          !.data = IF r.first = Last(c.data).second THEN joined ELSE Append(@, r)]
    IN  IF c.data = <<>> THEN [b EXCEPT !.chunks[n] = [data |-> <<r>>, begin |-> r.first, end |-> 0, count |-> Width(r)]]
        ELSE IF r.first = Last(c.data).second \/ Len(c.data) < ChunkSize THEN [b EXCEPT !.chunks[n] = more]
        ELSE [b EXCEPT !.chunks = Append([@ EXCEPT ![n].end = Last(c.data).second],
                [data |-> <<r>>, begin |-> r.first, end |-> 0, count |-> IF n >= b.there THEN 1 ELSE Width(r)])]

PushIndex(b, i) == PushRange(b, FromTo(i, i + 1))

Finalize(b) ==
    LET last == Last(b.chunks)
    IN  IF last.data = <<>> THEN Front(b.chunks)
        ELSE [b.chunks EXCEPT ![Len(b.chunks)].end = Last(last.data).second]

-----------------------------------------------------------------------------
(* IndexSet.                                                               *)

Ranges(set) == FlattenSeq([k \in DOMAIN set |-> set[k].data])
Numbered(r) == [k \in 1 .. Width(r) |-> r.first + k - 1]
AsIndexes(set) == FlattenSeq([k \in DOMAIN Ranges(set) |-> Numbered(Ranges(set)[k])])
IndicesIn(set) == ToSet(AsIndexes(set))
Sorted(I) == SetToSortSeq(I, <)
RangesOf(I) ==
    LET firsts == {i \in I : i - 1 \notin I}
        End(i) == CHOOSE j \in i + 1 .. MaxIndex + 1 : j \notin I /\ (i .. j - 1) \subseteq I
    IN  [k \in DOMAIN Sorted(firsts) |-> FromTo(Sorted(firsts)[k], End(Sorted(firsts)[k]))]

(* The range that has index, or the first one after it, looked for from p  *)
(* on.                                                                     *)
FindFrom(set, index, p) ==
    LET C == {c \in p[1] .. Len(set) : set[c].end > index}
        c == Min(C)
        K == {k \in 1 .. Len(set[c].data) : set[c].data[k].second > index /\ (c = p[1] => k >= p[2])}
    IN  IF C = {} THEN EndOf(set) ELSE IF index < set[c].begin THEN <<c, 1>> ELSE <<c, Min(K)>>

Find(set, index) == FindFrom(set, index, BeginOf)

Has(set, index) ==
    LET p == Find(set, index) IN p # EndOf(set) /\ RangeAt(set, p).first <= index

(* count from index i on and below j.  rest counts what is in the chunk of *)
(* i, and below counts from p on, first by whole chunks.                   *)
RECURSIVE CountRest(_, _, _)
CountRest(set, a, j) ==
    IF a.pos # EndOf(set) /\ RangeAt(set, a.pos).second < j /\ a.pos[2] # 1
    THEN CountRest(set, [pos |-> Succ(set, a.pos), n |-> a.n + Width(RangeAt(set, a.pos))], j) ELSE a

RECURSIVE CountWhole(_, _, _, _)
CountWhole(set, p, j, n) ==
    IF p = EndOf(set) THEN n
    ELSE IF p[2] = 1 /\ set[p[1]].end <= j THEN CountWhole(set, NextChunk(p), j, n + set[p[1]].count)
    ELSE IF RangeAt(set, p).second <= j THEN CountWhole(set, Succ(set, p), j, n + Width(RangeAt(set, p)))
    ELSE n + Max({0, j - RangeAt(set, p).first})

CountBetween(set, i, j) ==
    LET p == Find(set, i)
        r == RangeAt(set, p)
        a == CountRest(set, [pos |-> Succ(set, p), n |-> r.second - Max({r.first, i})], j)
        s == RangeAt(set, a.pos)
    IN  IF p = EndOf(set) \/ r.first >= j THEN 0
        ELSE IF r.second >= j THEN Min({r.second, j}) - Max({r.first, i})
        ELSE IF i <= r.first /\ p[2] = 1 THEN CountWhole(set, p, j, 0)
        ELSE IF a.pos # EndOf(set) /\ a.pos[2] # 1 /\ s.first < j THEN a.n + j - s.first
        ELSE IF a.pos = EndOf(set) \/ s.second >= j THEN a.n
        ELSE CountWhole(set, a.pos, j, a.n)

DoAdd(set, p, index) ==
    LET valid == p # EndOf(set)
        r == RangeAt(set, p)
        q == Pred(set, p)
        longer == Adjust(set, q, 0, 1)
        joined == EraseRange(Adjust(longer, q, 0, Width(r)), p)
    IN  IF valid /\ r.first <= index /\ r.second > index THEN [set |-> set, pos |-> p]
        ELSE IF p # BeginOf /\ RangeAt(set, q).second = index
             THEN IF valid /\ index + 1 = r.first
                  THEN [set |-> joined.set, pos |-> Pred(joined.set, joined.pos)]
                  ELSE [set |-> longer, pos |-> q]
        ELSE IF valid /\ r.first = index + 1 THEN [set |-> Adjust(set, p, -1, 0), pos |-> p]
        ELSE InsertRange(set, p, FromTo(index, index + 1))

AddIndex(set, index) == DoAdd(set, Find(set, index), index).set

AddIndices(set, I) ==
    FoldLeft(LAMBDA a, i : DoAdd(a.set, FindFrom(a.set, i, a.pos), i),
             [set |-> set, pos |-> BeginOf], Sorted(I)).set

(* The chunks and then the ranges that are below an index, which grows by  *)
(* as many as they have.                                                   *)
RECURSIVE PastChunks(_, _, _)
PastChunks(set, p, index) ==
    IF p # EndOf(set) /\ set[p[1]].end <= index
    THEN PastChunks(set, NextChunk(p), index + set[p[1]].count) ELSE [pos |-> p, index |-> index]

RECURSIVE PastRanges(_, _, _)
PastRanges(set, p, index) ==
    IF p # EndOf(set) /\ RangeAt(set, p).first <= index
    THEN PastRanges(set, Succ(set, p), index + Width(RangeAt(set, p))) ELSE [pos |-> p, index |-> index]

AddShiftedIndex(set, index) ==
    LET c == PastChunks(set, BeginOf, index)
        r == PastRanges(set, c.pos, c.index)
    IN  [set |-> DoAdd(set, r.pos, r.index).set, index |-> r.index]

(* rest are the old ranges to come; those before have been pushed, old     *)
(* indices of them.                                                        *)
RECURSIVE PushOld(_, _)
PushOld(w, index) ==
    IF w.rest # <<>> /\ Head(w.rest).first <= index + w.old
    THEN PushOld([b |-> FoldLeft(PushIndex, w.b, Numbered(Head(w.rest))),
                  rest |-> Tail(w.rest), old |-> w.old + Width(Head(w.rest))], index)
    ELSE w

AddShiftedIndicesBy(set, I, V) ==
    LET Step(w, v) ==
            LET index == v - CountBelow(I, v)
                x == PushOld(w, index)
            IN  IF v \in I THEN w ELSE [x EXCEPT !.b = PushIndex(@, index + x.old)]
        w == FoldLeft(Step, [b |-> Builder(set), rest |-> Ranges(set), old |-> 0], Sorted(V))
    IN  IF V = {} THEN set ELSE Finalize(FoldLeft(PushRange, w.b, w.rest))

SetTo(len) == IF len = 0 THEN <<>> ELSE PushBack(<<>>, FromTo(0, len))

InsertIndexAt(set, index, n) ==
    LET p == Find(set, index)
        in == p # EndOf(set) /\ RangeAt(set, p).first <= index
        Step(a, i) == LET d == DoAdd(a.set, a.pos, i) IN [set |-> d.set, pos |-> Succ(d.set, d.pos)]
    IN  IF in THEN ShiftFrom(Adjust(set, p, 0, n), Succ(set, p), n)
        ELSE FoldLeft(Step, [set |-> ShiftFrom(set, p, n), pos |-> p], Numbered(FromTo(index, index + n))).set

ShiftIndicesForInsertAt(set, index, n) ==
    LET p == Find(set, index)
        moved == ShiftFrom(set, p, n)
        r == RangeAt(moved, p)
    IN  IF p = EndOf(set) \/ r.first >= index + n THEN moved
        ELSE InsertRange(SetRange(moved, p, r.first - n, index), Succ(moved, p), FromTo(index + n, r.second)).set

(* xs are the indices of the set, ys those put in, which are pushed too or *)
(* not.                                                                    *)
RECURSIVE PutIn(_, _, _, _, _)
PutIn(b, xs, ys, shift, push) ==
    IF xs = <<>> THEN (IF push THEN FoldLeft(PushIndex, b, ys) ELSE b)
    ELSE IF ys = <<>> \/ Head(xs) + shift < Head(ys)
         THEN PutIn(PushIndex(b, Head(xs) + shift), Tail(xs), ys, shift, push)
    ELSE PutIn(IF push THEN PushIndex(b, Head(ys)) ELSE b, xs, Tail(ys), shift + 1, push)

InsertIndicesAt(set, I) ==
    IF I = {} THEN set ELSE IF set = <<>> THEN AddIndices(<<>>, I)
    ELSE Finalize(PutIn(Builder(set), AsIndexes(set), Sorted(I), 0, TRUE))

ShiftIndicesForAll(set, I) ==
    IF set = <<>> \/ I = {} \/ Min(I) >= Last(set).end THEN set
    ELSE Finalize(PutIn(Builder(set), AsIndexes(set), Sorted(I), 0, FALSE))

RECURSIVE TakeOut(_, _, _, _)
TakeOut(b, xs, ys, shift) ==
    IF xs = <<>> THEN b
    ELSE IF ys = <<>> \/ Head(xs) < Head(ys)
         THEN TakeOut(PushIndex(b, Head(xs) - shift), Tail(xs), ys, shift)
    ELSE TakeOut(b, IF Head(xs) = Head(ys) THEN Tail(xs) ELSE xs, Tail(ys), shift + 1)

EraseIndicesAt(set, I) ==
    IF set = <<>> \/ I = {} THEN set ELSE Finalize(TakeOut(Builder(set), AsIndexes(set), Sorted(I), 0))

(* Mutant: two ranges that meet when index goes stay two.                  *)
DoEraseUnjoined(set, p, index) ==
    LET r == RangeAt(set, p)
        e == IF r.first > index THEN [set |-> set, pos |-> p]
             ELSE IF Width(r) = 1 THEN EraseRange(set, p)
             ELSE [set |-> Adjust(set, p, 0, -1), pos |-> Succ(set, p)]
    IN  ShiftFrom(e.set, e.pos, -1)

(* Two ranges that meet when index goes are joined.                        *)
DoErase(set, p, index) ==
    LET r == RangeAt(set, p)
        q == Pred(set, p)
        e == IF r.first <= index
             THEN IF Width(r) = 1 THEN EraseRange(set, p)
                  ELSE [set |-> Adjust(set, p, 0, -1), pos |-> Succ(set, p)]
             ELSE IF p # BeginOf /\ RangeAt(set, q).second + 1 = r.first
                  THEN EraseRange(Adjust(set, q, 0, Width(r)), p)
                  ELSE [set |-> set, pos |-> p]
    IN  ShiftFrom(e.set, e.pos, -1)

EraseIndexAt(set, index) ==
    LET p == Find(set, index) IN IF p = EndOf(set) THEN set ELSE DoErase(set, p, index)

NPosition == -1

RECURSIVE BelowRanges(_, _, _)
BelowRanges(set, p, index) ==
    IF p # EndOf(set) /\ RangeAt(set, p).second <= index THEN BelowRanges(set, Succ(set, p), index) ELSE p

EraseOrUnshift(set, index) ==
    LET below == Cardinality({c \in DOMAIN set : set[c].end <= index})
        chunks == SubSeq(set, 1, below)
        p == BelowRanges(set, <<below + 1, 1>>, index)
        shifted == index - FoldLeft(LAMBDA n, c : n + c.count, 0, chunks)
                   - (IF p = EndOf(set) THEN 0 ELSE WidthOf(SubSeq(set[p[1]].data, 1, p[2] - 1)))
    IN  IF p = EndOf(set) THEN [set |-> set, index |-> shifted]
        ELSE [set |-> DoErase(set, p, index),
              index |-> IF RangeAt(set, p).first <= index THEN NPosition ELSE shifted]

RECURSIVE DoRemove(_, _, _, _)
DoRemove(set, it, first, end) ==
    LET p == FindFrom(set, first, it)
        r == RangeAt(set, p)
        begin == Max({r.first, first})
        split == InsertRange(SetRange(set, p, r.first, begin), Succ(set, p), FromTo(end, r.second))
        erased == EraseRange(set, p)
    IN  IF p = EndOf(set) \/ r.first >= end THEN [set |-> set, pos |-> p]
        ELSE IF r.first < begin /\ r.second > end THEN DoRemove(split.set, Pred(split.set, split.pos), begin, end)
        ELSE IF begin = r.first /\ end >= r.second THEN DoRemove(erased.set, erased.pos, begin, end)
        ELSE IF begin = r.first THEN DoRemove(SetRange(set, p, end, r.second), p, begin, end)
        ELSE DoRemove(SetRange(set, p, r.first, begin), p, begin, end)

RemoveIndices(set, index, n) == DoRemove(set, Find(set, index), index, index + n).set

RemoveIndicesOf(set, I) ==
    FoldLeft(LAMBDA a, r : IF a.pos = EndOf(a.set) THEN a ELSE DoRemove(a.set, a.pos, r.first, r.second),
             [set |-> set, pos |-> BeginOf], RangesOf(I)).set

ShiftIndex(set, index) ==
    FoldLeft(LAMBDA i, r : IF r.first > i THEN i ELSE i + Width(r), index, Ranges(set))

UnshiftIndex(set, index) == index - CountBetween(set, 0, index)

-----------------------------------------------------------------------------
(* What verify() asserts in debug builds, apart from the counts.           *)
RangesHold(set) ==
    LET R == Ranges(set)
    IN  /\ \A k \in DOMAIN R : R[k].first < R[k].second
        /\ \A k \in 2 .. Len(R) : R[k - 1].second < R[k].first
        /\ \A k \in DOMAIN set :
              LET c == set[k]
              IN  /\ Len(c.data) \in 1 .. ChunkSize
                  /\ c.begin = c.data[1].first /\ c.end = Last(c.data).second
CountsHold(set) == \A k \in DOMAIN set : set[k].count = WidthOf(set[k].data)

Is(set, I) == RangesHold(set) /\ CountsHold(set) /\ IndicesIn(set) = I

(* Every way in which a set of indices can be kept.                        *)
RECURSIVE Chunkings(_)
Chunkings(R) ==
    IF R = <<>> THEN {<<>>}
    ELSE UNION {{<<ChunkOf(SubSeq(R, 1, n))>> \o c : c \in Chunkings(SubSeq(R, n + 1, Len(R)))} :
                n \in 1 .. Min({ChunkSize, Len(R)})}

Subsets(max) == SUBSET (0 .. max)

(* count is wrong, and known to be, where it begins inside of a chunk and  *)
(* ends in the first range of the one after: that range it leaves out.     *)
CountLeavesOut(set, i, j) ==
    LET p == Find(set, i)
        q == NextChunk(p)
    IN  /\ p # EndOf(set) /\ q # EndOf(set)
        /\ RangeAt(set, p).first < i \/ p[2] # 1
        /\ RangeAt(set, q).first < j /\ j <= RangeAt(set, q).second

QueriesAgree(set, I) ==
    /\ \A i \in 0 .. MaxIndex + 1 :
          /\ Has(set, i) <=> i \in I
          /\ ShiftIndex(set, i) = Shift(I, i)
          /\ i \notin I => UnshiftIndex(set, i) = Unshift(I, i)
    /\ \A i, j \in 0 .. MaxIndex + 1 :
          i <= j /\ ~CountLeavesOut(set, i, j) => CountBetween(set, i, j) = CountIn(I, i, j)

IndexOperationsAgree(set, I) ==
    \A i \in 0 .. MaxIndex + 1 :
        /\ Is(AddIndex(set, i), I \cup {i})
        /\ LET a == AddShiftedIndex(set, i) IN Is(a.set, AddShifted(I, i)) /\ a.index = Shift(I, i)
        /\ Is(EraseIndexAt(set, i), ErasedAt(I, i))
        /\ LET e == EraseOrUnshift(set, i)
           IN  Is(e.set, ErasedAt(I, i)) /\ e.index = (IF i \in I THEN NPosition ELSE Unshift(I, i))
        /\ \A n \in 1 .. 2 :
              /\ Is(InsertIndexAt(set, i, n), InsertedAt(I, i, n))
              /\ Is(ShiftIndicesForInsertAt(set, i, n), ShiftForInsertAt(I, i, n))
              /\ Is(RemoveIndices(set, i, n), I \ (i .. i + n - 1))

SetOperationsAgree(set, I) ==
    /\ \A T \in Subsets(MaxIndex) :
          /\ Is(AddIndices(set, T), I \cup T)
          /\ Is(InsertIndicesAt(set, T), InsertedAll(I, T))
          /\ Is(ShiftIndicesForAll(set, T), ShiftForAll(I, T))
          /\ Is(EraseIndicesAt(set, T), ErasedAll(I, T))
          /\ Is(RemoveIndicesOf(set, T), I \ T)
    /\ \A T, V \in Subsets(MaxShifted) :
          LET a == AddShiftedIndicesBy(set, T, V)
          IN  /\ RangesHold(a) /\ IndicesIn(a) = AddShiftedBy(I, T, V)
              /\ Len(a) <= Builder(set).there => CountsHold(a)

(* Whatever chunks a set is kept in, each operation computes what          *)
(* IndexSets says and leaves chunks that are right again, so that any      *)
(* sequence of operations does.  Two places where the code is wrong are    *)
(* left out and named: CountLeavesOut, and the counts of chunks that       *)
(* add_shifted_by has to add.                                              *)
OperationsAgree ==
    /\ \A n \in 0 .. MaxIndex : Is(SetTo(n), 0 .. n - 1)
    /\ \A I \in Subsets(MaxIndex) : \A set \in Chunkings(RangesOf(I)) :
          QueriesAgree(set, I) /\ IndexOperationsAgree(set, I) /\ SetOperationsAgree(set, I)
=============================================================================
