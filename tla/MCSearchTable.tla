--------------------------- MODULE MCSearchTable ---------------------------
(* The instance of SearchTable that TLC checks.                            *)
EXTENDS SearchTable, TLC

\* No definition tells two pins apart, or two texts that are not empty.
Symmetry == Permutations(Pin) \cup Permutations(Text \ {NoText})

=============================================================================
