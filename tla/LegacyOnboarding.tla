--------------------------- MODULE LegacyOnboarding ---------------------------
(***************************************************************************)
(* The legacy onboarding gate: api/routes.py, pipeline.py and the inverted  *)
(* index of analysis/application_clustering.py.  An application is analysed *)
(* against the index, one unlocked SELECT after the other, then waits for   *)
(* its documents, and is written with its decision and indexed in one       *)
(* transaction.  Manual decisions come in between, from threads, and all    *)
(* the rest from other workers.  Files of uploads, reviewer notes and the   *)
(* copy of the decision that the assessment keeps are left out.             *)
(***************************************************************************)
EXTENDS OnboardingRisk

CONSTANTS
    Merchant,      \* application ids; every submission has a fresh one, so finitely many
    Application,   \* what may be submitted: index keys, traits of the form, documents
    Reviewer       \* manual decisions under way, at most one by each

ASSUME MerchantAssumption == IsFiniteSet(Merchant)

ASSUME ApplicationAssumption ==
    \A a \in Application :
        /\ DOMAIN a.keys \subseteq Attribute
        /\ {"bank_account", "owner_pan", "address_hash"} \subseteq DOMAIN a.keys
        /\ a.traits \subseteq Trait
        /\ IsForm(a.traits)
        /\ a.documents \in [DOMAIN a.documents -> Measured \cup {Skipped}]

VARIABLES
    merchants,    \* committed merchants with the assessment of each
    clusters,     \* committed rows of application_clusters: members by key
    aged,         \* merchants older than the lookback window
    pc,           \* where each submission is
    application,  \* what was submitted
    pending,      \* the attributes its clustering analysis has still to look up
    beyond,       \* the merchants that were too old when that analysis began
    matches,      \* what it has found, by attribute
    rejected,     \* those of them it found rejected
    rows,         \* the index rows read inside its transaction
    writer,       \* the submission that holds the write lock, or None
    review,       \* the application each reviewer is deciding on
    earlier       \* history: the merchants on record, and not aged, when it was analysed

local == << application, pending, beyond, matches, rejected, rows, earlier >>
vars == << merchants, clusters, aged, pc, local, writer, review >>

Decision == {"approved", "under_review", "rejected"}
Manual == {"approved", "rejected"}

\* The rows of application_clusters there may be.
AllKeys == UNION {KeyOf(a) : a \in Application}
NoMatch == [t \in {} |-> {}]

\* The score on the row is the one its decision was made from (see Assessed).
Row == [application : Application, status : Decision,
        first : Decision,  \* history: what the machine decided
        related : SUBSET Merchant]

ASSUME NoneIsNoRow == None \notin Row \cup Application \cup Merchant

TypeOK ==
    /\ merchants \in [Merchant -> Row \cup {None}]
    /\ clusters \in [AllKeys -> SUBSET Merchant]
    /\ aged \subseteq Merchant
    /\ pc \in [Merchant -> {"new", "looking", "analysed", "indexed", "done", "failed"}]
    /\ application \in [Merchant -> Application \cup {None}]
    /\ pending \in [Merchant -> SUBSET Attribute]
    /\ beyond \in [Merchant -> SUBSET Merchant]
    /\ DOMAIN matches = Merchant /\ DOMAIN rows = Merchant
    /\ \A m \in Merchant : /\ DOMAIN matches[m] \subseteq Attribute
                           /\ Related(matches[m]) \subseteq Merchant
    /\ rejected \in [Merchant -> SUBSET Merchant]
    /\ \A m \in Merchant : rows[m] \in [DOMAIN rows[m] -> SUBSET Merchant]
    /\ writer \in Merchant \cup {None}
    /\ review \in [Reviewer -> Merchant \cup {None}]
    /\ earlier \in [Merchant -> SUBSET Merchant]

Init ==
    /\ merchants = [m \in Merchant |-> None]
    /\ clusters = [k \in AllKeys |-> {}]
    /\ aged = {}
    /\ pc = [m \in Merchant |-> "new"]
    /\ application = [m \in Merchant |-> None]
    /\ pending = [m \in Merchant |-> {}]
    /\ beyond = [m \in Merchant |-> {}]
    /\ matches = [m \in Merchant |-> NoMatch]
    /\ rejected = [m \in Merchant |-> {}]
    /\ rows = [m \in Merchant |-> NoMatch]
    /\ writer = None
    /\ review = [r \in Reviewer |-> None]
    /\ earlier = [m \in Merchant |-> {}]

OnRecord == {m \in Merchant : merchants[m] # None}
Goto(m, l) == pc' = [pc EXCEPT ![m] = l]

-------------------------------------------------------------------------------
(* A submission.  Invalid forms are refused before anything happens.        *)

\* Mutant: the lookback window is the wrong way round.
LookupAged(m, k) == clusters[k] \cap beyond[m]

\* ApplicationClusterer._lookup: the members of the row within the window, whose
\* end was fixed when the analysis began.
Lookup(m, k) == clusters[k] \ ({m} \cup beyond[m])

\* A valid form whose uploads have been read and saved.
Submit(m) ==
    /\ pc[m] = "new"
    /\ \E a \in Application :
        /\ application' = [application EXCEPT ![m] = a]
        /\ pending' = [pending EXCEPT ![m] = DOMAIN a.keys]
    /\ beyond' = [beyond EXCEPT ![m] = aged]
    /\ earlier' = [earlier EXCEPT ![m] = OnRecord \ aged]
    /\ Goto(m, "looking")
    /\ UNCHANGED << merchants, clusters, aged, matches, rejected, rows, writer, review >>

\* The matches f with those of attribute t, if there are any.
With(f, t, found) ==
    IF found = {} THEN f
    ELSE [u \in DOMAIN f \cup {t} |-> IF u = t THEN found ELSE f[u]]

\* The order of extract_keys.
Place == [bank_account |-> 1, owner_pan |-> 2, address_hash |-> 3, device_fingerprint |-> 4,
          ip_address |-> 5, phone_series |-> 6, email_domain |-> 7]

\* The next attribute is looked up.  (Who is too old among the members of its row is
\* asked in a second SELECT, but does not change any more.)
LookUp(m, t) ==
    /\ t \in pending[m]
    /\ \A u \in pending[m] : Place[t] <= Place[u]
    /\ matches' = [matches EXCEPT ![m] =
                      With(@, t, Lookup(m, << t, application[m].keys[t] >>))]
    /\ pending' = [pending EXCEPT ![m] = @ \ {t}]
    /\ UNCHANGED << merchants, clusters, aged, pc, application, beyond, rejected, rows,
                    writer, review, earlier >>

\* The last question of the analysis: which of those it found stand rejected now.
AskRejected(m) ==
    /\ pc[m] = "looking"
    /\ pending[m] = {}
    /\ rejected' = [rejected EXCEPT ![m] =
                      {n \in Related(matches[m]) : merchants[n].status = "rejected"}]
    /\ beyond' = [beyond EXCEPT ![m] = {}]
    /\ Goto(m, "analysed")
    /\ UNCHANGED << merchants, clusters, aged, application, pending, matches, rows, writer,
                    review, earlier >>

RowsOf(m) == [k \in KeyOf(application[m]) |-> clusters[k]]

\* Mutant: the new row is not flushed, so the index is read without the lock.
InsertUnflushed(m) ==
    /\ pc[m] = "analysed"
    /\ rows' = [rows EXCEPT ![m] = RowsOf(m)]
    /\ Goto(m, "indexed")
    /\ UNCHANGED << merchants, clusters, aged, application, pending, beyond, matches, rejected,
                    writer, review, earlier >>

\* The documents and the explanation have arrived.  The flush of the new
\* merchant takes the write lock, and under it index_application reads its rows.
Insert(m) ==
    /\ pc[m] = "analysed"
    /\ writer = None
    /\ writer' = m
    /\ rows' = [rows EXCEPT ![m] = RowsOf(m)]
    /\ Goto(m, "indexed")
    /\ UNCHANGED << merchants, clusters, aged, application, pending, beyond, matches, rejected,
                    review, earlier >>

\* Everything the transaction writes appears with its commit.
Commit(m) ==
    LET a == application[m]
        decision == Assessed(a.documents, a.traits, matches[m], rejected[m]).decision
    IN
    /\ pc[m] = "indexed"
    /\ merchants' = [merchants EXCEPT ![m] =
           [application |-> a, status |-> decision, first |-> decision,
            related |-> Related(matches[m])]]
    /\ clusters' = [k \in AllKeys |->
           IF k \in KeyOf(a) THEN rows[m][k] \cup {m} ELSE clusters[k]]
    /\ writer' = IF writer = m THEN None ELSE writer
    /\ rows' = [rows EXCEPT ![m] = NoMatch]
    /\ Goto(m, "done")
    /\ UNCHANGED << aged, application, pending, beyond, matches, rejected, earlier, review >>

\* Any exception is rolled back and answered with a 500; a crash rolls back too.
Fail(m) ==
    /\ pc[m] \in {"looking", "analysed", "indexed"}
    /\ writer' = IF writer = m THEN None ELSE writer
    /\ application' = [application EXCEPT ![m] = None]
    /\ pending' = [pending EXCEPT ![m] = {}]
    /\ beyond' = [beyond EXCEPT ![m] = {}]
    /\ matches' = [matches EXCEPT ![m] = NoMatch]
    /\ rejected' = [rejected EXCEPT ![m] = {}]
    /\ rows' = [rows EXCEPT ![m] = NoMatch]
    /\ earlier' = [earlier EXCEPT ![m] = {}]
    /\ Goto(m, "failed")
    /\ UNCHANGED << merchants, clusters, aged, review >>

\* 90 days pass.  (It makes a difference to submissions still to come only.)
Age(m) ==
    /\ m \in OnRecord \ aged
    /\ \E n \in Merchant : pc[n] = "new"
    /\ aged' = aged \cup {m}
    /\ UNCHANGED << merchants, clusters, pc, local, writer, review >>

-------------------------------------------------------------------------------
(* Manual decisions.                                                        *)

\* Mutant: the status is not looked at.
AnyStatus(m) == TRUE

\* submit_review answers 409 unless the application is under review.
AwaitsReview(m) == merchants[m].status = "under_review"

\* The row is read before the write lock is taken.
CheckReview(r) ==
    /\ review[r] = None
    /\ \E m \in OnRecord :
        /\ AwaitsReview(m)
        /\ review' = [review EXCEPT ![r] = m]
    /\ UNCHANGED << merchants, clusters, aged, pc, local, writer >>

\* The UPDATE has no guard.  (Which decision the request carries matters here only.)
CommitReview(r) ==
    /\ review[r] # None
    /\ writer = None
    /\ \E d \in Manual : merchants' = [merchants EXCEPT ![review[r]].status = d]
    /\ review' = [review EXCEPT ![r] = None]
    /\ UNCHANGED << clusters, aged, pc, local, writer >>

Next == \/ \E m \in Merchant : \/ Submit(m) \/ AskRejected(m) \/ Insert(m) \/ Commit(m)
                               \/ Fail(m) \/ Age(m)
                               \/ \E t \in Attribute : LookUp(m, t)
        \/ \E r \in Reviewer : CheckReview(r) \/ CommitReview(r)

Spec == Init /\ [][Next]_vars
-------------------------------------------------------------------------------
(* Properties. *)

\* No submission is ever lost from the index and none is in it that failed,
\* however many share a key and overlap (application_clustering.py
\* index_application, pipeline.py _persist).
IndexIsExact ==
    \A k \in AllKeys : clusters[k] = {m \in OnRecord : k \in KeyOf(merchants[m].application)}

Sharing(m, n, t) ==
    /\ t \in DOMAIN merchants[m].application.keys \cap DOMAIN merchants[n].application.keys
    /\ merchants[m].application.keys[t] = merchants[n].application.keys[t]

\* Whoever settles to the account of an application that was on record before,
\* and is not too old, is rejected, and stays so after every manual decision:
\* only submissions that overlap can miss each other
\* (application_clustering.py ATTRIBUTE_SEVERITY, risk_scorer.py _decide).
SharedAccountIsSeen ==
    \A m, n \in OnRecord :
        (m # n /\ n \in earlier[m] /\ Sharing(m, n, "bank_account"))
            => merchants[m].status = "rejected"

\* A manual decision, even one that races another, only ever lands on an
\* application the machine referred to a person (routes.py submit_review).
MachineDecisionStands ==
    \A m \in OnRecord : merchants[m].first # "under_review" =>
        merchants[m].status = merchants[m].first

Severity == [approved |-> 0, under_review |-> 1, rejected |-> 2]

\* A document nobody could measure counts for as little as one never sent, and
\* is never better news than the same document measured and found clean
\* (risk_scorer.py:4-7).
MissingIsNotClean ==
    \A m \in OnRecord :
        LET a == merchants[m].application
            clean == [skipped |-> FALSE, tampering |-> None, forgery |-> None,
                      mismatches |-> 0, overall |-> 0]
            measured == {t \in DOMAIN a.documents : IsMeasured(a.documents[t])}
            unsent == [t \in measured |-> a.documents[t]]
            cleaned == [t \in DOMAIN a.documents |->
                          IF t \in measured THEN a.documents[t] ELSE clean]
            Using(docs) == Assessed(docs, a.traits, matches[m], rejected[m])
            score == Using(a.documents).score
        IN  /\ score = Using(unsent).score
            /\ merchants[m].first = Using(unsent).decision
            /\ score >= Using(cleaned).score
            /\ Severity[merchants[m].first] >= Severity[Using(cleaned).decision]

\* One module at 0.45 denies the automatic approval, however silent the others
\* are (risk_scorer.py:37-40).
OneLoudModuleIsHeard ==
    \A m \in OnRecord :
        LET a == merchants[m].application
            cluster == ClusterSignals(matches[m], rejected[m])
        IN  (\/ DocumentScore(a.documents) >= 4500
             \/ IdentityScore(IdentitySignals(a.traits)) >= 4500
             \/ ClusterScore(matches[m], cluster) >= 4500)
            => merchants[m].first # "approved"
===============================================================================
