----------------------------- MODULE MCChangeSets -----------------------------
EXTENDS QueryChanges, ChunkedIndexSets, DeepChanges

(* The index sets of ChangeSets are kept as ChunkedIndexSets has it, and    *)
(* however they are chunked, its operations compute what ChangeSets takes   *)
(* from IndexSets.  This is the same in every state, so it is looked at     *)
(* before the first instruction.                                            *)
IndexSetsAreKept == steps = 0 /\ kind = "table" => OperationsAgree

(* The checker that follows links is right, whatever it was asked before,   *)
(* which no instruction has to do with either.                              *)
DeepChangesAreFound == steps = 0 /\ kind = "table" => CheckersAgree

LinkTo(t) == [target |-> t, list |-> FALSE]
ListOf(t) == [target |-> t, list |-> TRUE]

(* Two tables that link to each other and one to itself, one that has      *)
(* lists of the other's rows, and tables without links.                    *)
MCSchemas == {<< <<LinkTo(2), LinkTo(1)>>, <<LinkTo(1)>> >>, << <<ListOf(2)>>, <<>> >>, << <<>>, <<>> >>}
MCTableOf == <<1, 1, 2, 2>>
================================================================================
