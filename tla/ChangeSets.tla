----------------------------- MODULE ChangeSets ------------------------------
(***************************************************************************)
(* What a notifier tells of a collection: impl/collection_change_builder,  *)
(* with the instructions of impl/transact_log_handler.cpp that lead to it  *)
(* and what impl/results_notifier.cpp makes of it.  A list of links or a   *)
(* table is changed by transactions; each of them has its change set, and  *)
(* those of several transactions are merged.  A callback uses the result   *)
(* to bring the rows it shows up to date, so it has to be exactly right.   *)
(*                                                                         *)
(* An entry of `list` is a row with its identity, which the code does not  *)
(* have: indices are all it sees.  The change sets per column are computed *)
(* as the modifications are, and left out.                                 *)
(***************************************************************************)
EXTENDS IndexSets, Sequences, SequencesExt

CONSTANTS
    InitialSize, \* the size of the collection to begin with
    MaxSize,     \* bound: rows of a collection
    MaxSteps     \* bound: instructions of all the transactions

ASSUME ChangeSetsAssumption ==
    /\ {InitialSize, MaxSize, MaxSteps} \subseteq Nat /\ InitialSize <= MaxSize

VARIABLES
    kind,    \* of the collection: "list" or "table"
    old,     \* the collection as it was told of
    mid,     \* as it was before this transaction
    list,    \* as it is
    builder, \* the change set of this transaction
    sets,    \* those of the transactions before, merged for a list
    stage,   \* where this transaction is
    \* history
    touched, \* the entries whose rows were modified in this transaction
    before,  \* those that were modified in the ones before
    swapped, \* whether rows of a table were swapped in this transaction
    steps    \* how many instructions there were

vars == <<kind, old, mid, list, builder, sets, stage, touched, before, swapped, steps>>

Pair(f, t) == [from |-> f, to |-> t]
Deleting(D) == [deletions |-> D, insertions |-> {}, modifications |-> {}, moves |-> <<>>, mapping |-> {}]
Empty == Deleting({})
IsEmpty(b) == b.deletions = {} /\ b.insertions = {} /\ b.modifications = {} /\ b.moves = <<>>
MapMoves(moves, F(_)) == [k \in DOMAIN moves |-> F(moves[k])]
(* Those of the moves that are in K, in their order.                       *)
MovesIn(moves, K) == FoldLeft(LAMBDA r, m : IF m \in K THEN Append(r, m) ELSE r, <<>>, moves)

-----------------------------------------------------------------------------
(* CollectionChangeBuilder, on a list.                                     *)

Modify(b, i) == [b EXCEPT !.modifications = @ \cup {i}]

Insert(b, i) ==
    LET Moved(m) == IF m.to >= i THEN Pair(m.from, m.to + 1) ELSE m
    IN  [b EXCEPT !.modifications = ShiftForInsertAt(@, i, 1),
                  !.insertions = InsertedAt(@, i, 1),
                  !.moves = MapMoves(@, Moved),
                  !.mapping = {Moved(m) : m \in @}]

Erase(b, i) ==
    LET Moved(m) == IF m.to > i THEN Pair(m.from, m.to - 1) ELSE m
    IN  [b EXCEPT !.modifications = ErasedAt(@, i),
                  !.insertions = ErasedAt(@, i),
                  !.deletions = IF i \in b.insertions THEN @ ELSE AddShifted(@, Unshift(b.insertions, i)),
                  !.moves = MapMoves(MovesIn(@, {m \in ToSet(@) : m.to # i}), Moved)]

(* The size is that of the list as it was before the transaction.          *)
Clear(b, size) ==
    Deleting(0 .. (size + Cardinality(b.deletions) - Cardinality(b.insertions) - 1))

(* Another move of what was moved is one move, of a new row none.          *)
Move(b, from, to) ==
    LET Moved(m) ==
            CASE m.to = from                -> Pair(m.from, to)
              [] m.to >= to /\ m.to < from  -> Pair(m.from, m.to + 1)
              [] m.to <= to /\ m.to > from  -> Pair(m.from, m.to - 1)
              [] OTHER                      -> m
        again == \E k \in DOMAIN b.moves : b.moves[k].to = from
        fresh == ~again /\ from \notin b.insertions
        source == Unshift(b.insertions, from)
        moves == MapMoves(b.moves, Moved)
    IN  [b EXCEPT
            !.insertions = InsertedAt(ErasedAt(@, from), to, 1),
            !.deletions = IF fresh THEN AddShifted(@, source) ELSE @,
            !.moves = IF fresh THEN Append(moves, Pair(Shift(b.deletions, source), to)) ELSE moves,
            !.modifications = IF from \in @ THEN InsertedAt(ErasedAt(@, from), to, 1)
                              ELSE ShiftForInsertAt(ErasedAt(@, from), to, 1)]

(* Moves that end where they began are left out, with what they brought;   *)
(* each of them is judged by what those before it have left.               *)
CleanUpStaleMoves(b) ==
    FoldLeft(LAMBDA r, m :
                IF m.from - CountBelow(r.deletions, m.from) # m.to - CountBelow(r.insertions, m.to)
                THEN [r EXCEPT !.moves = Append(@, m)]
                ELSE [r EXCEPT !.deletions = @ \ {m.from}, !.insertions = @ \ {m.to}],
             [b EXCEPT !.moves = <<>>], b.moves)

-----------------------------------------------------------------------------
(* CollectionChangeBuilder, on the rows of a table: these are not ordered, *)
(* and where a row has come from is kept in `mapping` until the end.       *)

Mapped(b, i) == \E m \in b.mapping : m.to = i
Origin(b, i) == (CHOOSE m \in b.mapping : m.to = i).from
Unmap(b, I) == [b EXCEPT !.mapping = {m \in @ : m.to \notin I}]
MapTo(b, i, from) == [Unmap(b, {i}) EXCEPT !.mapping = @ \cup {Pair(from, i)}]

DeleteShifted(b, i) == [b EXCEPT !.deletions = AddShifted(@, Unshift(b.insertions, i))]
ShiftedSource(b, i) == Shift(b.deletions, Unshift(b.insertions, i))

MoveLastOver(b, row, last) ==
    LET b1 == [b EXCEPT !.modifications =
                  IF row # last /\ last \in @ THEN (@ \ {last}) \cup {row} ELSE @ \ {row}]
        new == row \in b.insertions
        lastNew == last \in b.insertions
        again == lastNew /\ Mapped(b, last)
        b2 == IF again THEN Unmap(MapTo(b1, row, Origin(b, last)), {last})
              ELSE IF new THEN Unmap(b1, {row}) ELSE b1
        b3 == IF lastNew THEN [b2 EXCEPT !.insertions = @ \ {last}]
              ELSE MapTo(DeleteShifted(b2, last), row, ShiftedSource(b2, last))
    IN  IF row = last
        THEN Unmap([(IF new THEN b1 ELSE DeleteShifted(b1, row)) EXCEPT !.insertions = ErasedAt(@, row)], {row})
        ELSE IF new THEN b3
        ELSE [DeleteShifted(b3, row) EXCEPT !.insertions = @ \cup {row}]

(* A row that is not new goes from i to j and leaves a new one behind.     *)
SwapOut(b, i, j) ==
    IF i \in b.insertions THEN b
    ELSE [MapTo(DeleteShifted(b, i), j, ShiftedSource(b, i)) EXCEPT !.insertions = @ \cup {i}]

Swap(b, i, j) ==
    LET b1 == [b EXCEPT !.modifications =
                  (@ \ {i, j}) \cup (IF i \in @ THEN {j} ELSE {}) \cup (IF j \in @ THEN {i} ELSE {})]
    IN  CASE Mapped(b, i) /\ Mapped(b, j)   -> MapTo(MapTo(b1, i, Origin(b, j)), j, Origin(b, i))
          [] Mapped(b, i) /\ ~Mapped(b, j)  -> SwapOut(MapTo(Unmap(b1, {i}), j, Origin(b, i)), j, i)
          [] ~Mapped(b, i) /\ Mapped(b, j)  -> SwapOut(MapTo(Unmap(b1, {j}), i, Origin(b, j)), i, j)
          [] ~Mapped(b, i) /\ ~Mapped(b, j) -> SwapOut(SwapOut(b1, j, i), i, j)

(* Mutant: what was modified is forgotten of a row that is merged.         *)
SubsumeForgetsModified(b, i, j) ==
    IF Mapped(b, i) THEN Unmap(MapTo(b, j, Origin(b, i)), {i})
    ELSE IF i \in b.insertions THEN b
    ELSE MapTo(b, j, ShiftedSource(b, i))

(* The row at i goes on as the new one at j; i is then moved over.         *)
Subsume(b, i, j) ==
    LET b1 == IF i \in b.modifications THEN Modify(b, j) ELSE b
    IN  IF Mapped(b, i) THEN Unmap(MapTo(b1, j, Origin(b, i)), {i})
        ELSE IF i \in b.insertions THEN b1
        ELSE MapTo(b1, j, ShiftedSource(b, i))

(* The moves of K, none of them from where another is, from the first row  *)
(* on: before each of them are those from rows before it.                  *)
ByFrom(K) ==
    [k \in 1 .. Cardinality(K) |-> CHOOSE m \in K : Cardinality({n \in K : n.from < m.from}) = k - 1]

(* Mutant: rows that are back where they were are still moves.             *)
ParseCompleteKeepsStays(b) ==
    LET stays == {m \in b.mapping : m.from = m.to}
    IN  [b EXCEPT !.deletions = @ \ {m.from : m \in stays},
                  !.insertions = @ \ {m.to : m \in stays},
                  !.moves = ByFrom(b.mapping),
                  !.mapping = {}]

ParseComplete(b) ==
    LET stays == {m \in b.mapping : m.from = m.to}
    IN  [b EXCEPT !.deletions = @ \ {m.from : m \in stays},
                  !.insertions = @ \ {m.to : m \in stays},
                  !.moves = ByFrom(b.mapping \ stays),
                  !.mapping = {}]

-----------------------------------------------------------------------------
(* CollectionChangeBuilder::merge.                                         *)

(* What becomes of the moves of a: a row that c moves again has one move,  *)
(* one that c deletes has none.  r is [moves, later, modifications].       *)
FollowMove(r, m, a, c) ==
    LET K == {k \in DOMAIN r.later : r.later[k].from = m.to}
    IN  IF K # {}
        THEN LET k == CHOOSE k \in K : TRUE
                 n == r.later[k]
             IN  [moves |-> Append(r.moves, Pair(m.from, n.to)),
                  later |-> Front([r.later EXCEPT ![k] = Last(r.later)]),
                  modifications |-> r.modifications \cup (IF n.from \in a.modifications THEN {n.to} ELSE {})]
        ELSE IF m.to \in c.deletions THEN r
        ELSE [r EXCEPT !.moves = Append(@, Pair(m.from, Shift(c.insertions, Unshift(c.deletions, m.to))))]

FollowMoves(a, c) ==
    FoldLeft(LAMBDA r, m : FollowMove(r, m, a, c),
             [moves |-> <<>>, later |-> c.moves, modifications |-> c.modifications], a.moves)

(* Mutant: the later deletions are taken to be of the old collection.      *)
MergeIntoUnshifted(a, c) ==
    LET r == FollowMoves(a, c)
        later == MovesIn(r.later, {m \in ToSet(r.later) : m.from \notin a.insertions})
        Source(m) == Pair(Shift(a.deletions, Unshift(a.insertions, m.from)), m.to)
        modified == r.modifications \cup {m.to : m \in {x \in ToSet(later) : x.from \in a.modifications}}
    IN  [CleanUpStaleMoves(
            [a EXCEPT !.deletions = @ \cup (c.deletions \ a.insertions),
                      !.insertions = InsertedAll(ErasedAll(@, c.deletions), c.insertions),
                      !.moves = r.moves \o MapMoves(later, Source)])
         EXCEPT !.modifications = ShiftForAll(ErasedAll(a.modifications, c.deletions), c.insertions) \cup modified]

MergeInto(a, c) ==
    LET r == FollowMoves(a, c)
        later == MovesIn(r.later, {m \in ToSet(r.later) : m.from \notin a.insertions})
        Source(m) == Pair(Shift(a.deletions, Unshift(a.insertions, m.from)), m.to)
        modified == r.modifications \cup {m.to : m \in {x \in ToSet(later) : x.from \in a.modifications}}
    IN  [CleanUpStaleMoves(
            [a EXCEPT !.deletions = AddShiftedBy(@, a.insertions, c.deletions),
                      !.insertions = InsertedAll(ErasedAll(@, c.deletions), c.insertions),
                      !.moves = r.moves \o MapMoves(later, Source)])
         EXCEPT !.modifications = ShiftForAll(ErasedAll(a.modifications, c.deletions), c.insertions) \cup modified]

MergeSets(a, c) == IF IsEmpty(c) THEN a ELSE IF IsEmpty(a) THEN c ELSE MergeInto(a, c)

(* finalize: the modified indices in the old collection and in the new.    *)
ModifiedInOld(b) == ShiftForAll(ErasedAll(b.modifications, b.insertions), b.deletions)
ModifiedInNew(b) == b.modifications \ b.insertions

-----------------------------------------------------------------------------
Size == Len(list)
At(s, i) == s[i + 1]
Indices == 0 .. (Size - 1)
Fresh == Max(ToSet(old) \cup ToSet(mid) \cup ToSet(list) \cup touched \cup before \cup {0}) + 1

(* add_changes merges a change set into those before as it comes;          *)
(* advance_to_final has those of a table together and merges from the last *)
(* one on.                                                                 *)
merged == FoldRight(MergeSets, sets, Empty)

Init ==
    /\ kind \in {"list", "table"}
    /\ old = [i \in 1 .. InitialSize |-> i] /\ mid = old /\ list = old
    /\ builder = Empty /\ sets = <<>>
    /\ stage = "parsing"
    /\ touched = {} /\ before = {} /\ swapped = FALSE
    /\ steps = 0

(* An instruction of the transaction log.                                  *)
Parse(k) == stage = "parsing" /\ kind = k /\ steps < MaxSteps /\ steps' = steps + 1
Instruction(s, b) ==
    /\ list' = s /\ builder' = b
    /\ UNCHANGED <<kind, old, mid, sets, stage, before>>

LinkListSet(i) ==
    /\ Parse("list") /\ i \in Indices
    /\ Instruction(list, Modify(builder, i))
    /\ touched' = touched \cup {At(list, i)}
    /\ UNCHANGED swapped

LinkListSwap(i, j) ==
    /\ Parse("list") /\ i \in Indices /\ j \in Indices /\ i < j
    /\ Instruction(list, Modify(Modify(builder, i), j))
    /\ touched' = touched \cup {At(list, i), At(list, j)}
    /\ UNCHANGED swapped

LinkListInsert(i) ==
    /\ Parse("list") /\ i \in 0 .. Size /\ Size < MaxSize
    /\ Instruction(InsertAt(list, i + 1, Fresh), Insert(builder, i))
    /\ UNCHANGED <<touched, swapped>>

LinkListErase(i) ==
    /\ Parse("list") /\ i \in Indices
    /\ Instruction(RemoveAt(list, i + 1), Erase(builder, i))
    /\ UNCHANGED <<touched, swapped>>

LinkListMove(from, to) ==
    /\ Parse("list") /\ from \in Indices /\ to \in Indices /\ from # to
    /\ Instruction(InsertAt(RemoveAt(list, from + 1), to + 1, At(list, from)), Move(builder, from, to))
    /\ UNCHANGED <<touched, swapped>>

LinkListClear ==
    /\ Parse("list")
    /\ Instruction(<<>>, Clear(builder, Size))
    /\ UNCHANGED <<touched, swapped>>

MarkDirty(i) ==
    /\ Parse("table") /\ i \in Indices
    /\ Instruction(list, Modify(builder, i))
    /\ touched' = touched \cup {At(list, i)}
    /\ UNCHANGED swapped

InsertEmptyRows ==
    /\ Parse("table") /\ Size < MaxSize
    /\ Instruction(Append(list, Fresh), Insert(builder, Size))
    /\ UNCHANGED <<touched, swapped>>

OverWithLast(s, i) == Front([s EXCEPT ![i + 1] = Last(s)])

EraseRows(i) ==
    /\ Parse("table") /\ i \in Indices
    /\ Instruction(OverWithLast(list, i), MoveLastOver(builder, i, Size - 1))
    /\ UNCHANGED <<touched, swapped>>

SwapRows(i, j) ==
    /\ Parse("table") /\ i \in Indices /\ j \in Indices /\ i < j
    /\ Instruction([list EXCEPT ![i + 1] = At(list, j), ![j + 1] = At(list, i)], Swap(builder, i, j))
    /\ swapped' = TRUE
    /\ UNCHANGED touched

(* merge_rows into a row that was just inserted, with the erase_rows that  *)
(* always follows.                                                         *)
MergeRows(i) ==
    /\ Parse("table") /\ i \in Indices /\ Size < MaxSize
    /\ LET b == Subsume(Insert(builder, Size), i, Size)
       IN  Instruction(list, MoveLastOver(b, i, Size))
    /\ UNCHANGED <<touched, swapped>>

(* The change set says nothing of how many rows there were: all that there *)
(* can be.                                                                 *)
ClearTable ==
    /\ Parse("table")
    /\ Instruction(<<>>, Deleting(0 .. (MaxSize - 1)))
    /\ UNCHANGED <<touched, swapped>>

(* The end of the transaction log.                                         *)
CompleteParse ==
    /\ stage = "parsing" /\ builder # Empty
    /\ stage' = "parsed"
    /\ builder' = IF kind = "list" THEN CleanUpStaleMoves(builder) ELSE ParseComplete(builder)
    /\ UNCHANGED <<kind, old, mid, list, sets, touched, before, swapped, steps>>

Merge ==
    /\ stage = "parsed"
    /\ stage' = "merged"
    /\ sets' = IF kind = "list" THEN <<MergeSets(merged, builder)>> ELSE Append(sets, builder)
    /\ builder' = Empty
    /\ before' = before \cup touched /\ touched' = {} /\ swapped' = FALSE
    /\ mid' = list
    /\ UNCHANGED <<kind, old, list, steps>>

NextTransaction ==
    /\ stage = "merged" /\ steps < MaxSteps
    /\ stage' = "parsing"
    /\ UNCHANGED <<kind, old, mid, list, builder, sets, touched, before, swapped, steps>>

Next ==
    \/ \E i \in 0 .. MaxSize :
          \/ LinkListSet(i) \/ LinkListInsert(i) \/ LinkListErase(i)
          \/ MarkDirty(i) \/ EraseRows(i) \/ MergeRows(i)
          \/ \E j \in 0 .. MaxSize : LinkListSwap(i, j) \/ LinkListMove(i, j) \/ SwapRows(i, j)
    \/ LinkListClear \/ InsertEmptyRows \/ ClearTable
    \/ CompleteParse \/ Merge \/ NextTransaction

Spec == Init /\ [][Next]_vars

-----------------------------------------------------------------------------
(* Leaving out: entries of s at indices that are not in D.                 *)
Without(s, D) == [k \in 1 .. Cardinality({i \in 1 .. Len(s) : i - 1 \notin D}) |->
                     s[Shift(D, k - 1) + 1]]
IndicesOf(s) == 0 .. (Len(s) - 1)

Describes(b, s, t) ==
    /\ b.insertions \subseteq IndicesOf(t)
    /\ kind = "list" => b.deletions \subseteq IndicesOf(s)
    /\ Without(s, b.deletions) = Without(t, b.insertions)

(* Deleting from the rows of before at the deletions, from the last to the *)
(* first, and putting in those of now at the insertions, from the first to *)
(* the last, which is what an application does to its table view, makes    *)
(* the rows of now: after a transaction and after any number of them were  *)
(* merged.                                                                 *)
DescribesTheChange ==
    /\ stage = "parsed" => Describes(builder, mid, list)
    /\ stage = "merged" => Describes(merged, old, list)

Marks(b, s, t, T) ==
    LET stayed == ToSet(Without(t, b.insertions))
    IN  /\ {At(t, i) : i \in ModifiedInNew(b)} = T \cap stayed
        /\ {At(s, i) : i \in ModifiedInOld(b)} = T \cap stayed
        /\ Cardinality(ModifiedInOld(b)) = Cardinality(ModifiedInNew(b))

(* Rows that have stayed are marked as modified exactly if they were, in   *)
(* finalize's indices of the old collection and of the new one, however    *)
(* often they were moved on and merged since.                              *)
ModificationsAreExact ==
    /\ stage = "parsed" => Marks(builder, mid, list, touched)
    /\ stage = "merged" => Marks(merged, old, list, before)

MovesHold(b, s, t) ==
    \A m \in ToSet(b.moves) :
        /\ m.from \in b.deletions /\ m.to \in b.insertions
        /\ At(s, m.from) = At(t, m.to)

(* What is told as a move is the move of one row, which is told as deleted *)
(* at one place and as inserted at the other (verify), even where a merge  *)
(* joins two moves or one of them is called off.                           *)
MovesAreMoves ==
    /\ stage = "parsed" => MovesHold(builder, mid, list)
    /\ stage = "merged" => MovesHold(merged, old, list)
=============================================================================
