--------------------------- MODULE MCReviewService ---------------------------
(* ReviewService for TLC. *)
EXTENDS ReviewService, TLC

Verdicts == SUBSET Item

Symmetry == Permutations(Session) \cup Permutations(Item) \cup Permutations(Reviewer)
                \cup Permutations(Process) \cup Permutations(Key)
===============================================================================
