----------------------------- MODULE IndexSets ------------------------------
(***************************************************************************)
(* What the operations of an IndexSet compute (index_set.hpp), with the    *)
(* set as a set of numbers.  How they compute it, on ranges in chunks, is  *)
(* in ChunkedIndexSets; ChangeSets uses them.                              *)
(***************************************************************************)
EXTENDS Integers, FiniteSets

(* count(0, i) and count(i, j).                                            *)
CountBelow(S, i) == Cardinality({s \in S : s < i})
CountIn(S, i, j) == Cardinality({s \in S : i <= s /\ s < j})

(* unshift: where i is when the indices of S are taken away.               *)
Unshift(S, i) == i - CountBelow(S, i)

(* shift: where i is when the indices of S are put in.                     *)
Shift(S, i) == CHOOSE j \in i .. (i + Cardinality(S)) : j \notin S /\ Unshift(S, j) = i

(* shift_for_insert_at and insert_at for n indices from i on, erase_at.    *)
ShiftForInsertAt(S, i, n) == {IF s < i THEN s ELSE s + n : s \in S}
InsertedAt(S, i, n) == ShiftForInsertAt(S, i, n) \cup (i .. i + n - 1)
ErasedAt(S, i) == {IF s < i THEN s ELSE s - 1 : s \in S \ {i}}

(* The same for all the indices of T, which are those of the new numbering *)
(* when they are put in and of the old one when they are taken away.       *)
ShiftForAll(S, T) == {Shift(T, s) : s \in S}
InsertedAll(S, T) == ShiftForAll(S, T) \cup T
ErasedAll(S, T) == {Unshift(T, s) : s \in S \ T}

(* add_shifted returns what it adds; add_shifted_by leaves out what T has. *)
AddShifted(S, i) == S \cup {Shift(S, i)}
AddShiftedBy(S, T, V) == S \cup {Shift(S, Unshift(T, v)) : v \in V \ T}
=============================================================================
