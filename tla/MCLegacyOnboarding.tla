-------------------------- MODULE MCLegacyOnboarding --------------------------
(* LegacyOnboarding for TLC: a chain that shares an address block and then a *)
(* bank account, and forms and documents at the edges of the rules.          *)
EXTENDS LegacyOnboarding

Form(bank, pan, addr, traits, docs) ==
    [keys |-> [bank_account |-> bank, owner_pan |-> pan, address_hash |-> addr],
     traits |-> traits, documents |-> docs]

Clean == [skipped |-> FALSE, tampering |-> None, forgery |-> None, mismatches |-> 0, overall |-> 0]
Doubtful == [Clean EXCEPT !.mismatches = 2, !.overall = 3000]

Applications ==
    {Form("b1", "p1", "a1", {"missing_pincode"}, [pan |-> Skipped]),
     Form("b2", "p2", "a1", {"sequential_numeric_email"}, [pan |-> Skipped, gst |-> Clean]),
     Form("b1", "p3", "a3", {}, [pan |-> Doubtful, gst |-> Skipped])}

Symmetry == Permutations(Merchant) \cup Permutations(Reviewer)
===============================================================================
