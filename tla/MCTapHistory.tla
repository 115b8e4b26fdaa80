---------------------------- MODULE MCTapHistory ----------------------------
(* The instance of TapHistory that TLC checks.                             *)
EXTENDS TapHistory, TLC

Symmetry == Permutations(Place) \cup Permutations(Title)

=============================================================================
