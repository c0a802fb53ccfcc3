----------------------------- MODULE MCCaseStore -----------------------------
(* CaseStore for TLC. *)
EXTENDS CaseStore, TLC

\* Sessions, reviewers and verdicts are told apart only by equality.
Symmetry == Permutations(Session) \cup Permutations(Reviewer) \cup Permutations(Verdict)
===============================================================================
