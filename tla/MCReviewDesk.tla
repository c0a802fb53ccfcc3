----------------------------- MODULE MCReviewDesk -----------------------------
(* Two tabs that start under the same name, and one ring of merchants. *)
EXTENDS ReviewDesk, TLC

CONSTANTS c1, v1, v2, alice, bob, t1, t2

LinkedByAccount == [c \in CaseId |-> { "bank_account", "ip_address", "email_domain" }]

DeskSymmetry == Permutations({ v1, v2 }) \cup Permutations({ t1, t2 })
===============================================================================
