------------------------ MODULE LegacyOnboardingProofs ------------------------
(***************************************************************************)
(* What holds of the legacy onboarding gate for any number of overlapping   *)
(* submissions and reviewers, whatever applications arrive and whatever the *)
(* cluster sizes that alarm it: first of the transactions, then of the      *)
(* scores that decide.                                                      *)
(***************************************************************************)
EXTENDS LegacyOnboarding, FiniteSetTheorems, TLAPS

Account(a) == << "bank_account", a.keys["bank_account"] >>

\* A merchant is on record exactly when its submission is through; until it has
\* been given up, what was submitted is known.
SubmissionsAreKept ==
    \A m \in Merchant :
        /\ merchants[m] # None <=> pc[m] = "done"
        /\ pc[m] \in {"looking", "analysed", "indexed", "done"} => application[m] \in Application
        /\ pc[m] = "done" => merchants[m].application = application[m]

\* Who has read index rows to rewrite them holds the lock, and they are the
\* committed ones still.
RowsAreCurrent ==
    \A m \in Merchant : pc[m] = "indexed" => writer = m /\ rows[m] = RowsOf(m)

\* A manual decision under way is about an application that was referred.
ReviewsWereReferred ==
    \A r \in Reviewer : review[r] # None =>
        /\ review[r] \in OnRecord
        /\ merchants[review[r]].first = "under_review"

\* Only an analysis under way has anything to look up, and what counts as early
\* enough for it is not too old.
LookupsAreFramed ==
    \A m \in Merchant :
        /\ pending[m] # {} => pc[m] = "looking" /\ pending[m] \subseteq DOMAIN application[m].keys
        /\ pc[m] = "looking" => earlier[m] \cap beyond[m] = {}

\* What an analysis that has looked up the account missed was not on record when
\* it began, or too old.
AccountsWereSeen ==
    \A m \in Merchant : pc[m] \in {"looking", "analysed", "indexed", "done"} =>
        \A n \in earlier[m] :
            /\ n \in OnRecord
            /\ (/\ Account(merchants[n].application) = Account(application[m])
                /\ "bank_account" \notin pending[m])
                  => "bank_account" \in DOMAIN matches[m] /\ n \in matches[m]["bank_account"]

\* What it saw was decisive.
SeenIsRejected ==
    \A m \in OnRecord : \A n \in earlier[m] :
        Account(merchants[n].application) = Account(application[m])
            => merchants[m].first = "rejected"

OnboardingInv ==
    /\ TypeOK /\ SubmissionsAreKept /\ RowsAreCurrent /\ IndexIsExact
    /\ ReviewsWereReferred /\ MachineDecisionStands /\ LookupsAreFramed /\ AccountsWereSeen
    /\ SeenIsRejected

-------------------------------------------------------------------------------
(* The scores.                                                              *)

\* Every assessment decides.
LEMMA AlwaysDecides ==
    ASSUME NEW docs, NEW traits, NEW found, NEW turned
    PROVE  Assessed(docs, traits, found, turned).decision \in Decision
  <1>1. \A s, S, n : Decide(s, S, n) \in Decision
    BY DEF Decide, Decision
  <1> QED BY <1>1 DEF Assessed

\* An account shared with anybody at all is a decisive signal.
LEMMA AccountIsDecisive ==
    ASSUME NEW n \in Nat, n >= 1
    PROVE  SharedSignal("bank_account", n).value >= DecisiveSignal
  <1>1. AttributeSeverity["bank_account"] = 8800
    BY DEF AttributeSeverity
  <1>2. 8800 * (100 + 12 * (n - 1)) = 774400 + 105600 * n
    OBVIOUS
  <1>3. Rounded(774400 + 105600 * n, 100) >= 8800
    BY DEF Rounded
  <1>4. SharedSignal("bank_account", n).value = Least(One, Rounded(774400 + 105600 * n, 100))
    BY <1>1, <1>2 DEF SharedSignal, Signal
  <1> QED BY <1>3, <1>4 DEF Least, One, DecisiveSignal

\* Whoever is seen to share an account is rejected.
LEMMA SharedAccountDecides ==
    ASSUME NEW docs, NEW traits, NEW turned, NEW found,
           "bank_account" \in DOMAIN found, IsFiniteSet(found["bank_account"]),
           NEW n \in found["bank_account"]
    PROVE  Assessed(docs, traits, found, turned).decision = "rejected"
  <1> DEFINE s == SharedSignal("bank_account", Cardinality(found["bank_account"]))
  <1>1. Cardinality(found["bank_account"]) \in Nat /\ Cardinality(found["bank_account"]) >= 1
    BY FS_CardinalityType, FS_EmptySet
  <1>2. s.value >= DecisiveSignal
    BY <1>1, AccountIsDecisive
  <1>3. s \in ClusterSignals(found, turned)
    <2>1. Related(found) # {}
      BY DEF Related
    <2> QED BY <2>1 DEF ClusterSignals
  <1> HIDE DEF s
  <1>4. \A score, S, size : s \in S => Decide(score, S, size) = "rejected"
    BY <1>2 DEF Decide
  <1> QED BY <1>3, <1>4 DEF Assessed

-------------------------------------------------------------------------------
(* The steps.                                                               *)

\* The account of an application is one of its index keys.
LEMMA AccountIsKey ==
    ASSUME NEW a \in Application
    PROVE  /\ Account(a) \in KeyOf(a) /\ KeyOf(a) \subseteq AllKeys
           /\ DOMAIN a.keys \subseteq Attribute
           /\ \A t \in DOMAIN a.keys : << t, a.keys[t] >> \in KeyOf(a)
  BY ApplicationAssumption DEF Account, KeyOf, AllKeys

\* Only merchants are found under a key.
LEMMA LookupIsTyped ==
    ASSUME TypeOK, NEW m \in Merchant, NEW a \in Application, NEW t \in DOMAIN a.keys
    PROVE  t \in Attribute /\ Lookup(m, << t, a.keys[t] >>) \subseteq Merchant
  <1>1. clusters[<< t, a.keys[t] >>] \subseteq Merchant
    BY AccountIsKey DEF TypeOK
  <1> QED BY <1>1, AccountIsKey DEF Lookup

\* The matches of the other attributes stay as they were.
LEMMA WithKeeps ==
    ASSUME NEW f, NEW t, NEW found, NEW u \in DOMAIN f, u # t
    PROVE  u \in DOMAIN With(f, t, found) /\ With(f, t, found)[u] = f[u]
  <1>1. CASE found = {}
    BY <1>1 DEF With
  <1>2. CASE found # {}
    BY <1>2 DEF With
  <1> QED BY <1>1, <1>2

\* Nothing appears that was not found.
LEMMA WithFrames ==
    ASSUME NEW f, NEW t, NEW found
    PROVE  /\ DOMAIN With(f, t, found) \subseteq DOMAIN f \cup {t}
           /\ Related(With(f, t, found)) \subseteq Related(f) \cup found
  <1>1. CASE found = {}
    BY <1>1 DEF With
  <1>2. CASE found # {}
    <2> DEFINE g == With(f, t, found)
    <2>1. DOMAIN g = DOMAIN f \cup {t} /\ g[t] = found /\ \A u \in DOMAIN f \ {t} : g[u] = f[u]
      BY <1>2 DEF With
    <2> HIDE DEF g
    <2>2. Related(g) \subseteq Related(f) \cup found
      <3> SUFFICES ASSUME NEW u \in DOMAIN g, NEW n \in g[u] PROVE n \in Related(f) \cup found
        BY DEF Related
      <3>1. CASE u = t
        BY <2>1, <3>1
      <3>2. CASE u # t
        BY <2>1, <3>2 DEF Related
      <3> QED BY <3>1, <3>2
    <2> QED BY <2>1, <2>2 DEF g
  <1> QED BY <1>1, <1>2

\* The lookup of the account finds everybody on record, and not too old, who has it.
LEMMA LookupSees ==
    ASSUME TypeOK, IndexIsExact,
           NEW m \in Merchant, NEW a \in Application, NEW n \in OnRecord \ beyond[m], n # m,
           Account(merchants[n].application) = Account(a)
    PROVE  n \in Lookup(m, << "bank_account", a.keys["bank_account"] >>)
  <1> DEFINE k == << "bank_account", a.keys["bank_account"] >>
  <1>1. k = Account(a) /\ k \in AllKeys
    BY AccountIsKey DEF Account
  <1>2. merchants[n].application \in Application
    BY DEF TypeOK, OnRecord, Row
  <1>3. n \in clusters[k]
    BY <1>1, <1>2, AccountIsKey DEF IndexIsExact
  <1> QED BY <1>3 DEF Lookup

LEMMA SubmitKeeps ==
    ASSUME OnboardingInv, NEW m \in Merchant, Submit(m)
    PROVE  OnboardingInv'
  <1>1. PICK a \in Application :
          /\ application' = [application EXCEPT ![m] = a]
          /\ pending' = [pending EXCEPT ![m] = DOMAIN a.keys]
    BY DEF Submit
  <1>2. /\ pc[m] = "new" /\ pc' = [pc EXCEPT ![m] = "looking"]
        /\ beyond' = [beyond EXCEPT ![m] = aged]
        /\ earlier' = [earlier EXCEPT ![m] = OnRecord \ aged]
        /\ UNCHANGED << merchants, clusters, aged, matches, rejected, rows, writer, review >>
    BY DEF Submit, Goto
  <1>3. m \notin OnRecord
    BY <1>2 DEF OnboardingInv, SubmissionsAreKept, OnRecord
  <1>4. "bank_account" \in DOMAIN a.keys /\ DOMAIN a.keys \subseteq Attribute
    BY ApplicationAssumption
  <1>5. TypeOK'
    BY <1>1, <1>2, <1>4 DEF OnboardingInv, TypeOK, OnRecord
  <1>6. OnRecord' = OnRecord
    BY <1>2 DEF OnRecord
  <1>7. SubmissionsAreKept' /\ RowsAreCurrent'
    BY <1>1, <1>2 DEF OnboardingInv, TypeOK, SubmissionsAreKept, RowsAreCurrent, RowsOf
  <1>8. IndexIsExact' /\ ReviewsWereReferred' /\ MachineDecisionStands'
    BY <1>2, <1>6 DEF OnboardingInv, IndexIsExact, ReviewsWereReferred, MachineDecisionStands
  <1>9. LookupsAreFramed'
    BY <1>1, <1>2 DEF OnboardingInv, TypeOK, LookupsAreFramed
  <1>10. AccountsWereSeen'
    BY <1>1, <1>2, <1>4, <1>6 DEF OnboardingInv, TypeOK, AccountsWereSeen
  <1>11. SeenIsRejected'
    BY <1>1, <1>2, <1>3, <1>6 DEF OnboardingInv, TypeOK, SeenIsRejected, OnRecord
  <1> QED BY <1>5, <1>7, <1>8, <1>9, <1>10, <1>11 DEF OnboardingInv

LEMMA LookUpKeeps ==
    ASSUME OnboardingInv, NEW m \in Merchant, NEW t \in Attribute, LookUp(m, t)
    PROVE  OnboardingInv'
  <1> DEFINE a == application[m]
             found == Lookup(m, << t, a.keys[t] >>)
  <1>1. /\ t \in pending[m]
        /\ matches' = [matches EXCEPT ![m] = With(matches[m], t, found)]
        /\ pending' = [pending EXCEPT ![m] = pending[m] \ {t}]
        /\ UNCHANGED << merchants, clusters, aged, pc, application, beyond, rejected, rows,
                        writer, review, earlier >>
    BY DEF LookUp, OnboardingInv, TypeOK
  <1>2. /\ pc[m] = "looking" /\ a \in Application /\ t \in DOMAIN a.keys
        /\ earlier[m] \cap beyond[m] = {}
    BY <1>1 DEF OnboardingInv, LookupsAreFramed, SubmissionsAreKept
  <1>3. found \subseteq Merchant
    BY <1>2, LookupIsTyped DEF OnboardingInv
  <1>4. OnRecord' = OnRecord /\ m \notin OnRecord
    BY <1>1, <1>2 DEF OnboardingInv, SubmissionsAreKept, OnRecord
  <1>5. t = "bank_account" => \A n \in earlier[m] :
            Account(merchants[n].application) = Account(a) => n \in found
    <2> SUFFICES ASSUME t = "bank_account", NEW n \in earlier[m],
                        Account(merchants[n].application) = Account(a)
                 PROVE  n \in found
      OBVIOUS
    <2>1. n \in OnRecord \ beyond[m] /\ n # m
      BY <1>2, <1>4 DEF OnboardingInv, AccountsWereSeen
    <2> QED BY <1>2, <2>1, LookupSees DEF OnboardingInv
  <1> HIDE DEF found
  <1>6. TypeOK'
    <2>1. DOMAIN matches' = Merchant /\ matches'[m] = With(matches[m], t, found)
          /\ \A n \in Merchant \ {m} : matches'[n] = matches[n]
      BY <1>1 DEF OnboardingInv, TypeOK
    <2>2. DOMAIN With(matches[m], t, found) \subseteq Attribute
      <3>1. DOMAIN With(matches[m], t, found) \subseteq DOMAIN matches[m] \cup {t}
        BY WithFrames
      <3> QED BY <3>1 DEF OnboardingInv, TypeOK
    <2>3. Related(With(matches[m], t, found)) \subseteq Merchant
      <3>1. Related(With(matches[m], t, found)) \subseteq Related(matches[m]) \cup found
        BY WithFrames
      <3> QED BY <1>3, <3>1 DEF OnboardingInv, TypeOK
    <2>4. \A n \in Merchant : DOMAIN matches'[n] \subseteq Attribute /\ Related(matches'[n]) \subseteq Merchant
      BY <2>1, <2>2, <2>3 DEF OnboardingInv, TypeOK
    <2>5. pending' \in [Merchant -> SUBSET Attribute]
      BY <1>1 DEF OnboardingInv, TypeOK
    <2> QED BY <1>1, <2>1, <2>4, <2>5 DEF OnboardingInv, TypeOK
  <1>7. SubmissionsAreKept' /\ RowsAreCurrent'
    BY <1>1 DEF OnboardingInv, SubmissionsAreKept, RowsAreCurrent, RowsOf
  <1>8. IndexIsExact' /\ ReviewsWereReferred' /\ MachineDecisionStands' /\ SeenIsRejected'
    BY <1>1, <1>4 DEF OnboardingInv, IndexIsExact, ReviewsWereReferred, MachineDecisionStands,
                      SeenIsRejected
  <1>9. LookupsAreFramed'
    BY <1>1 DEF OnboardingInv, TypeOK, LookupsAreFramed
  <1>10. AccountsWereSeen'
    <2> SUFFICES ASSUME NEW o \in Merchant, pc[o] \in {"looking", "analysed", "indexed", "done"},
                        NEW n \in earlier[o]
                 PROVE  /\ n \in OnRecord
                        /\ (/\ Account(merchants[n].application) = Account(application[o])
                            /\ "bank_account" \notin pending'[o])
                              => "bank_account" \in DOMAIN matches'[o] /\ n \in matches'[o]["bank_account"]
      BY <1>1, <1>4 DEF AccountsWereSeen
    <2>1. n \in OnRecord
      BY DEF OnboardingInv, AccountsWereSeen
    <2>2. CASE o # m
      BY <1>1, <2>1, <2>2 DEF OnboardingInv, TypeOK, AccountsWereSeen
    <2>3. CASE o = m
      <3> SUFFICES ASSUME Account(merchants[n].application) = Account(a),
                          "bank_account" \notin pending'[m]
                   PROVE  "bank_account" \in DOMAIN matches'[m] /\ n \in matches'[m]["bank_account"]
        BY <2>1, <2>3
      <3>1. matches'[m] = With(matches[m], t, found) /\ pending'[m] = pending[m] \ {t}
        BY <1>1 DEF OnboardingInv, TypeOK
      <3>2. CASE t = "bank_account"
        <4>1. n \in found
          BY <1>5, <2>3, <3>2
        <4> QED BY <3>1, <3>2, <4>1 DEF With
      <3>3. CASE t # "bank_account"
        <4>1. "bank_account" \in DOMAIN matches[m] /\ n \in matches[m]["bank_account"]
          BY <1>2, <2>3, <3>1, <3>3 DEF OnboardingInv, AccountsWereSeen
        <4> QED BY <3>1, <3>3, <4>1, WithKeeps
      <3> QED BY <3>2, <3>3
    <2> QED BY <2>2, <2>3
  <1> QED BY <1>6, <1>7, <1>8, <1>9, <1>10 DEF OnboardingInv

LEMMA AskRejectedKeeps ==
    ASSUME OnboardingInv, NEW m \in Merchant, AskRejected(m)
    PROVE  OnboardingInv'
  <1> DEFINE turned == {n \in Related(matches[m]) : merchants[n].status = "rejected"}
  <1>1. /\ pc[m] = "looking" /\ pending[m] = {} /\ pc' = [pc EXCEPT ![m] = "analysed"]
        /\ rejected' = [rejected EXCEPT ![m] = turned]
        /\ beyond' = [beyond EXCEPT ![m] = {}]
        /\ UNCHANGED << merchants, clusters, aged, application, pending, matches, rows, writer,
                        review, earlier >>
    BY DEF AskRejected, Goto
  <1>2. turned \subseteq Merchant
    BY DEF OnboardingInv, TypeOK
  <1> HIDE DEF turned
  <1>3. TypeOK'
    BY <1>1, <1>2 DEF OnboardingInv, TypeOK
  <1>4. OnRecord' = OnRecord
    BY <1>1 DEF OnRecord
  <1>5. SubmissionsAreKept' /\ RowsAreCurrent'
    BY <1>1 DEF OnboardingInv, TypeOK, SubmissionsAreKept, RowsAreCurrent, RowsOf
  <1>6. IndexIsExact' /\ ReviewsWereReferred' /\ MachineDecisionStands' /\ SeenIsRejected'
    BY <1>1, <1>4 DEF OnboardingInv, IndexIsExact, ReviewsWereReferred, MachineDecisionStands,
                      SeenIsRejected
  <1>7. LookupsAreFramed' /\ AccountsWereSeen'
    BY <1>1, <1>4 DEF OnboardingInv, TypeOK, LookupsAreFramed, AccountsWereSeen
  <1> QED BY <1>3, <1>5, <1>6, <1>7 DEF OnboardingInv

LEMMA InsertKeeps ==
    ASSUME OnboardingInv, NEW m \in Merchant, Insert(m)
    PROVE  OnboardingInv'
  <1>1. /\ pc[m] = "analysed" /\ pc' = [pc EXCEPT ![m] = "indexed"]
        /\ writer = None /\ writer' = m
        /\ rows' = [rows EXCEPT ![m] = RowsOf(m)]
        /\ UNCHANGED << merchants, clusters, aged, application, pending, beyond, matches, rejected,
                        review, earlier >>
    BY DEF Insert, Goto
  <1>2. application[m] \in Application
    BY <1>1 DEF OnboardingInv, SubmissionsAreKept
  <1>3. RowsOf(m) \in [KeyOf(application[m]) -> SUBSET Merchant]
    BY <1>2, AccountIsKey DEF OnboardingInv, TypeOK, RowsOf
  <1>4. TypeOK'
    <2>1. \A n \in Merchant : rows'[n] \in [DOMAIN rows'[n] -> SUBSET Merchant]
      BY <1>1, <1>3 DEF OnboardingInv, TypeOK
    <2> QED BY <1>1, <2>1 DEF OnboardingInv, TypeOK
  <1>5. RowsAreCurrent'
    BY <1>1, NoneIsNoRow DEF OnboardingInv, TypeOK, RowsAreCurrent, RowsOf
  <1>6. OnRecord' = OnRecord
    BY <1>1 DEF OnRecord
  <1>7. SubmissionsAreKept' /\ LookupsAreFramed' /\ AccountsWereSeen'
    BY <1>1, <1>6 DEF OnboardingInv, TypeOK, SubmissionsAreKept, LookupsAreFramed, AccountsWereSeen
  <1>8. IndexIsExact' /\ ReviewsWereReferred' /\ MachineDecisionStands' /\ SeenIsRejected'
    BY <1>1, <1>6 DEF OnboardingInv, IndexIsExact, ReviewsWereReferred, MachineDecisionStands,
                      SeenIsRejected
  <1> QED BY <1>4, <1>5, <1>7, <1>8 DEF OnboardingInv

LEMMA CommitKeeps ==
    ASSUME OnboardingInv, NEW m \in Merchant, Commit(m)
    PROVE  OnboardingInv'
  <1> DEFINE a == application[m]
             d == Assessed(a.documents, a.traits, matches[m], rejected[m]).decision
             r == [application |-> a, status |-> d, first |-> d, related |-> Related(matches[m])]
  <1>1. /\ pc[m] = "indexed" /\ pc' = [pc EXCEPT ![m] = "done"]
        /\ merchants' = [merchants EXCEPT ![m] = r]
        /\ clusters' = [k \in AllKeys |->
               IF k \in KeyOf(a) THEN rows[m][k] \cup {m} ELSE clusters[k]]
        /\ writer' = IF writer = m THEN None ELSE writer
        /\ rows' = [rows EXCEPT ![m] = NoMatch]
        /\ UNCHANGED << aged, application, pending, beyond, matches, rejected, earlier, review >>
    BY DEF Commit, Goto
  <1>2. /\ a \in Application /\ merchants[m] = None /\ writer = m /\ rows[m] = RowsOf(m)
        /\ pending[m] = {}
    BY <1>1 DEF OnboardingInv, SubmissionsAreKept, RowsAreCurrent, LookupsAreFramed
  <1>3. r \in Row /\ r # None /\ r.application = a /\ r.first = d /\ r.status = d
    <2>1. d \in Decision
      BY AlwaysDecides
    <2>2. Related(matches[m]) \subseteq Merchant
      BY DEF OnboardingInv, TypeOK
    <2>3. r \in Row
      BY <1>2, <2>1, <2>2 DEF Row
    <2> QED BY <2>3, NoneIsNoRow
  <1>4. clusters' = [k \in AllKeys |-> IF k \in KeyOf(a) THEN clusters[k] \cup {m} ELSE clusters[k]]
    <2>1. \A k \in KeyOf(a) : rows[m][k] = clusters[k]
      BY <1>2 DEF RowsOf
    <2> QED BY <1>1, <2>1
  <1>5. (\E n \in earlier[m] : Account(merchants[n].application) = Account(a)) => d = "rejected"
    <2> SUFFICES ASSUME NEW n \in earlier[m], Account(merchants[n].application) = Account(a)
                 PROVE  d = "rejected"
      OBVIOUS
    <2>1. "bank_account" \in DOMAIN matches[m] /\ n \in matches[m]["bank_account"]
      BY <1>1, <1>2 DEF OnboardingInv, AccountsWereSeen
    <2>2. matches[m]["bank_account"] \subseteq Merchant
      BY <2>1 DEF OnboardingInv, TypeOK, Related
    <2>3. IsFiniteSet(matches[m]["bank_account"])
      BY <2>2, MerchantAssumption, FS_Subset
    <2> QED BY <2>1, <2>3, SharedAccountDecides
  <1>6. earlier[m] \subseteq OnRecord /\ m \notin OnRecord
    BY <1>1, <1>2 DEF OnboardingInv, AccountsWereSeen, OnRecord
  <1> HIDE DEF d, r
  <1>7. OnRecord' = OnRecord \cup {m} /\ merchants'[m] = r
    BY <1>1, <1>3 DEF OnboardingInv, TypeOK, OnRecord
  <1>8. \A n \in OnRecord : merchants'[n] = merchants[n]
    BY <1>1, <1>6 DEF OnRecord
  <1>9. TypeOK'
    <2>1. clusters' \in [AllKeys -> SUBSET Merchant]
      BY <1>4 DEF OnboardingInv, TypeOK
    <2>2. \A n \in Merchant : rows'[n] \in [DOMAIN rows'[n] -> SUBSET Merchant]
      BY <1>1 DEF OnboardingInv, TypeOK, NoMatch
    <2>3. merchants' \in [Merchant -> Row \cup {None}]
      BY <1>1, <1>3 DEF OnboardingInv, TypeOK
    <2> QED BY <1>1, <2>1, <2>2, <2>3 DEF OnboardingInv, TypeOK
  <1>10. SubmissionsAreKept'
    BY <1>1, <1>2, <1>3 DEF OnboardingInv, TypeOK, SubmissionsAreKept
  <1>11. RowsAreCurrent'
    <2>1. \A n \in Merchant \ {m} : pc'[n] # "indexed"
      BY <1>1, <1>2 DEF OnboardingInv, TypeOK, RowsAreCurrent
    <2> QED BY <1>1, <2>1 DEF OnboardingInv, TypeOK, RowsAreCurrent
  <1>12. IndexIsExact'
    <2> SUFFICES ASSUME NEW k \in AllKeys
                 PROVE  clusters'[k] = {n \in OnRecord' : k \in KeyOf(merchants'[n].application)}
      BY DEF IndexIsExact
    <2>1. clusters[k] = {n \in OnRecord : k \in KeyOf(merchants[n].application)}
      BY DEF OnboardingInv, IndexIsExact
    <2>2. {n \in OnRecord' : k \in KeyOf(merchants'[n].application)} =
              clusters[k] \cup {n \in {m} : k \in KeyOf(a)}
      BY <1>3, <1>6, <1>7, <1>8, <2>1
    <2> QED BY <1>4, <2>2
  <1>13. ReviewsWereReferred' /\ MachineDecisionStands'
    BY <1>1, <1>3, <1>7, <1>8 DEF OnboardingInv, ReviewsWereReferred, MachineDecisionStands
  <1>14. LookupsAreFramed' /\ AccountsWereSeen'
    BY <1>1, <1>7, <1>8 DEF OnboardingInv, TypeOK, LookupsAreFramed, AccountsWereSeen
  <1>15. SeenIsRejected'
    <2> SUFFICES ASSUME NEW o \in OnRecord', NEW n \in earlier'[o],
                        Account(merchants'[n].application) = Account(application'[o])
                 PROVE  merchants'[o].first = "rejected"
      BY DEF SeenIsRejected
    <2>1. CASE o = m
      <3>1. n \in earlier[m] /\ merchants'[n] = merchants[n]
        BY <1>1, <1>6, <1>8, <2>1
      <3> QED BY <1>1, <1>3, <1>5, <1>7, <2>1, <3>1
    <2>2. CASE o # m
      <3>1. o \in OnRecord /\ n \in earlier[o] /\ n \in OnRecord
        BY <1>1, <1>7, <2>2 DEF OnboardingInv, AccountsWereSeen, SubmissionsAreKept, OnRecord
      <3> QED BY <1>1, <1>8, <3>1 DEF OnboardingInv, SeenIsRejected
    <2> QED BY <2>1, <2>2
  <1> QED BY <1>9, <1>10, <1>11, <1>12, <1>13, <1>14, <1>15 DEF OnboardingInv

LEMMA FailKeeps ==
    ASSUME OnboardingInv, NEW m \in Merchant, Fail(m)
    PROVE  OnboardingInv'
  <1>1. /\ pc[m] \in {"looking", "analysed", "indexed"} /\ pc' = [pc EXCEPT ![m] = "failed"]
        /\ writer' = IF writer = m THEN None ELSE writer
        /\ application' = [application EXCEPT ![m] = None]
        /\ pending' = [pending EXCEPT ![m] = {}]
        /\ beyond' = [beyond EXCEPT ![m] = {}]
        /\ matches' = [matches EXCEPT ![m] = NoMatch]
        /\ rejected' = [rejected EXCEPT ![m] = {}]
        /\ rows' = [rows EXCEPT ![m] = NoMatch]
        /\ earlier' = [earlier EXCEPT ![m] = {}]
        /\ UNCHANGED << merchants, clusters, aged, review >>
    BY DEF Fail, Goto
  <1>2. OnRecord' = OnRecord /\ m \notin OnRecord
    BY <1>1 DEF OnboardingInv, SubmissionsAreKept, OnRecord
  <1>3. TypeOK'
    <2>1. \A n \in Merchant : /\ DOMAIN matches'[n] \subseteq Attribute
                              /\ Related(matches'[n]) \subseteq Merchant
      BY <1>1 DEF OnboardingInv, TypeOK, NoMatch, Related
    <2>2. \A n \in Merchant : rows'[n] \in [DOMAIN rows'[n] -> SUBSET Merchant]
      BY <1>1 DEF OnboardingInv, TypeOK, NoMatch
    <2> QED BY <1>1, <2>1, <2>2 DEF OnboardingInv, TypeOK
  <1>4. SubmissionsAreKept'
    BY <1>1 DEF OnboardingInv, TypeOK, SubmissionsAreKept
  <1>5. RowsAreCurrent'
    BY <1>1 DEF OnboardingInv, TypeOK, RowsAreCurrent, RowsOf
  <1>6. IndexIsExact' /\ ReviewsWereReferred' /\ MachineDecisionStands'
    BY <1>1, <1>2 DEF OnboardingInv, IndexIsExact, ReviewsWereReferred, MachineDecisionStands
  <1>7. LookupsAreFramed' /\ AccountsWereSeen'
    BY <1>1, <1>2 DEF OnboardingInv, TypeOK, LookupsAreFramed, AccountsWereSeen
  <1>8. SeenIsRejected'
    BY <1>1, <1>2 DEF OnboardingInv, TypeOK, SeenIsRejected, OnRecord
  <1> QED BY <1>3, <1>4, <1>5, <1>6, <1>7, <1>8 DEF OnboardingInv

\* Time passes, or a reviewer is shown an application under review.
LEMMA LookingKeeps ==
    ASSUME OnboardingInv,
           \/ \E m \in Merchant : Age(m)
           \/ \E r \in Reviewer : CheckReview(r)
    PROVE  OnboardingInv'
  <1>1. UNCHANGED << merchants, clusters, pc, application, pending, beyond, matches, rejected, rows,
                     earlier, writer >>
    BY DEF Age, CheckReview, local
  <1>2. OnRecord' = OnRecord
    BY <1>1 DEF OnRecord
  <1>3. TypeOK' /\ ReviewsWereReferred'
    <2>1. CASE \E m \in Merchant : Age(m)
      BY <1>1, <1>2, <2>1 DEF Age, OnRecord, OnboardingInv, TypeOK, ReviewsWereReferred
    <2>2. ASSUME NEW r \in Reviewer, CheckReview(r) PROVE TypeOK' /\ ReviewsWereReferred'
      <3>1. PICK m \in OnRecord :
              /\ merchants[m].status = "under_review"
              /\ review' = [review EXCEPT ![r] = m]
              /\ UNCHANGED aged
        BY <2>2 DEF CheckReview, AwaitsReview
      <3>2. m \in Merchant /\ m # None
        BY NoneIsNoRow DEF OnRecord
      <3>3. merchants[m].first = "under_review"
        BY <3>1 DEF OnboardingInv, MachineDecisionStands
      <3>4. TypeOK'
        BY <1>1, <3>1, <3>2 DEF OnboardingInv, TypeOK
      <3> QED BY <1>1, <1>2, <3>1, <3>3, <3>4 DEF OnboardingInv, TypeOK, ReviewsWereReferred
    <2> QED BY <2>1, <2>2
  <1>4. SubmissionsAreKept' /\ RowsAreCurrent' /\ LookupsAreFramed' /\ AccountsWereSeen'
    BY <1>1, <1>2 DEF OnboardingInv, SubmissionsAreKept, RowsAreCurrent, RowsOf, LookupsAreFramed,
                      AccountsWereSeen
  <1>5. IndexIsExact' /\ MachineDecisionStands' /\ SeenIsRejected'
    BY <1>1, <1>2 DEF OnboardingInv, IndexIsExact, MachineDecisionStands, SeenIsRejected
  <1> QED BY <1>3, <1>4, <1>5 DEF OnboardingInv

LEMMA CommitReviewKeeps ==
    ASSUME OnboardingInv, NEW r \in Reviewer, CommitReview(r)
    PROVE  OnboardingInv'
  <1> DEFINE m == review[r]
  <1>1. PICK d \in Manual :
          /\ review[r] # None
          /\ merchants' = [merchants EXCEPT ![m].status = d]
          /\ review' = [review EXCEPT ![r] = None]
          /\ UNCHANGED << clusters, aged, pc, application, pending, beyond, matches, rejected, rows,
                          earlier, writer >>
    BY DEF CommitReview, local
  <1>2. m \in OnRecord /\ merchants[m].first = "under_review" /\ d \in Decision
    BY <1>1 DEF OnboardingInv, ReviewsWereReferred, Manual, Decision
  <1>3. merchants[m] \in Row
    BY <1>2 DEF OnboardingInv, TypeOK, OnRecord
  <1>4. /\ merchants'[m] \in Row /\ merchants'[m] # None
        /\ merchants'[m].application = merchants[m].application
        /\ merchants'[m].first = merchants[m].first
    <2>1. merchants'[m] = [merchants[m] EXCEPT !.status = d]
      BY <1>1, <1>2 DEF OnboardingInv, TypeOK, OnRecord
    <2>2. merchants'[m] \in Row
      BY <1>2, <1>3, <2>1 DEF Row
    <2> QED BY <1>3, <2>1, <2>2, NoneIsNoRow DEF Row
  <1>5. \A n \in Merchant \ {m} : merchants'[n] = merchants[n]
    BY <1>1 DEF OnboardingInv, TypeOK
  <1>6. OnRecord' = OnRecord
    BY <1>2, <1>4, <1>5 DEF OnRecord
  <1>7. \A n \in OnRecord : /\ merchants'[n].application = merchants[n].application
                            /\ merchants'[n].first = merchants[n].first
    BY <1>4, <1>5 DEF OnRecord
  <1> HIDE DEF m
  <1>8. TypeOK'
    <2>1. merchants' \in [Merchant -> Row \cup {None}]
      BY <1>1, <1>2, <1>4, <1>5 DEF OnboardingInv, TypeOK
    <2> QED BY <1>1, <2>1 DEF OnboardingInv, TypeOK
  <1>9. SubmissionsAreKept' /\ RowsAreCurrent'
    BY <1>1, <1>6, <1>7 DEF OnboardingInv, SubmissionsAreKept, RowsAreCurrent, RowsOf, OnRecord
  <1>10. ReviewsWereReferred'
    BY <1>1, <1>6, <1>7 DEF OnboardingInv, TypeOK, ReviewsWereReferred
  <1>11. MachineDecisionStands'
    BY <1>2, <1>4, <1>5, <1>6 DEF OnboardingInv, MachineDecisionStands, OnRecord
  <1>12. IndexIsExact'
    BY <1>1, <1>6, <1>7 DEF OnboardingInv, IndexIsExact
  <1>13. LookupsAreFramed' /\ AccountsWereSeen'
    BY <1>1, <1>6, <1>7 DEF OnboardingInv, LookupsAreFramed, AccountsWereSeen
  <1>14. SeenIsRejected'
    <2>1. \A o \in OnRecord : earlier[o] \subseteq OnRecord
      BY DEF OnboardingInv, AccountsWereSeen, SubmissionsAreKept, OnRecord
    <2> QED BY <1>1, <1>6, <1>7, <2>1 DEF OnboardingInv, SeenIsRejected
  <1> QED BY <1>8, <1>9, <1>10, <1>11, <1>12, <1>13, <1>14 DEF OnboardingInv

-------------------------------------------------------------------------------
(* The theorems.                                                            *)

LEMMA OnboardingBegins == Init => OnboardingInv
  <1> SUFFICES ASSUME Init PROVE OnboardingInv
    OBVIOUS
  <1>1. OnRecord = {}
    BY DEF Init, OnRecord
  <1>2. TypeOK
    BY DEF Init, TypeOK, NoMatch, Related
  <1>3. IndexIsExact
    BY <1>1 DEF Init, IndexIsExact
  <1> QED BY <1>1, <1>2, <1>3
          DEF Init, OnboardingInv, SubmissionsAreKept, RowsAreCurrent, ReviewsWereReferred,
              MachineDecisionStands, LookupsAreFramed, AccountsWereSeen, SeenIsRejected

LEMMA OnboardingKeeps == OnboardingInv /\ [Next]_vars => OnboardingInv'
  <1> SUFFICES ASSUME OnboardingInv, [Next]_vars PROVE OnboardingInv'
    OBVIOUS
  <1>1. CASE UNCHANGED vars
    <2>1. UNCHANGED << merchants, clusters, aged, pc, application, pending, beyond, matches, rejected,
                       rows, writer, review, earlier >> /\ OnRecord' = OnRecord
      BY <1>1 DEF vars, local, OnRecord
    <2>2. TypeOK' /\ SubmissionsAreKept' /\ RowsAreCurrent' /\ IndexIsExact'
      BY <2>1 DEF OnboardingInv, TypeOK, SubmissionsAreKept, RowsAreCurrent, RowsOf, IndexIsExact
    <2>3. ReviewsWereReferred' /\ MachineDecisionStands' /\ LookupsAreFramed' /\ AccountsWereSeen'
          /\ SeenIsRejected'
      BY <2>1 DEF OnboardingInv, ReviewsWereReferred, MachineDecisionStands, LookupsAreFramed,
                  AccountsWereSeen, SeenIsRejected
    <2> QED BY <2>2, <2>3 DEF OnboardingInv
  <1> QED BY <1>1, SubmitKeeps, LookUpKeeps, AskRejectedKeeps, InsertKeeps, CommitKeeps, FailKeeps,
             LookingKeeps, CommitReviewKeeps DEF Next

\* The inductive invariant of the gate: what its submissions and its manual
\* decisions may rely on while they overlap (api/routes.py, pipeline.py).
THEOREM OnboardingInvariant == Spec => []OnboardingInv
  BY OnboardingBegins, OnboardingKeeps, PTL DEF Spec

\* The state of the gate is well typed, so every application on record has a
\* decision (risk_scorer.py _decide).
THEOREM OnboardingTypeCorrect == Spec => []TypeOK
  BY OnboardingInvariant, PTL DEF OnboardingInv

\* However many submissions overlap on however many keys, the index holds every
\* one of them and nobody else (application_clustering.py index_application).
THEOREM IndexStaysExact == Spec => []IndexIsExact
  BY OnboardingInvariant, PTL DEF OnboardingInv

\* No race of manual decisions overturns what the machine decided by itself
\* (routes.py submit_review).
THEOREM ReviewsStayInBounds == Spec => []MachineDecisionStands
  BY OnboardingInvariant, PTL DEF OnboardingInv

\* Whatever else the two applications show, the later user of a settlement
\* account is turned down (application_clustering.py, risk_scorer.py _decide).
THEOREM SharedAccountsAreRejected == Spec => []SharedAccountIsSeen
  <1>1. OnboardingInv => SharedAccountIsSeen
    <2> SUFFICES ASSUME OnboardingInv, NEW m \in OnRecord, NEW n \in OnRecord,
                        n \in earlier[m], Sharing(m, n, "bank_account")
                 PROVE  merchants[m].status = "rejected"
      BY DEF SharedAccountIsSeen
    <2>1. merchants[m].application = application[m]
      BY DEF OnboardingInv, SubmissionsAreKept, OnRecord
    <2>2. Account(merchants[n].application) = Account(application[m])
      BY <2>1 DEF Sharing, Account
    <2>3. merchants[m].first = "rejected"
      BY <2>2 DEF OnboardingInv, SeenIsRejected
    <2> QED BY <2>3 DEF OnboardingInv, MachineDecisionStands
  <1> QED BY <1>1, OnboardingInvariant, PTL

-------------------------------------------------------------------------------
(* Folds.  What a fold returns is a matter of induction over the set it folds. *)
(* The library's induction theorems take a predicate; that every nonempty set  *)
(* of numbers has a least element, which is what lies behind them, does not.   *)
(* CaseWorkflowProofs folds the evidence graph in the same way.                *)

\* Every set of numbers has a least one.
LEMMA LeastNumber ==
    ASSUME NEW N, N \subseteq Nat, N # {}
    PROVE  \E n \in N : \A k \in N : n <= k
  <1>1. PICK n \in N : \A k \in N : << k, n >> \notin OpToRel(<, Nat)
    BY WFMin, NatLessThanWellFounded, Zenon
  <1>2. \A k \in N : ~(k < n)
    BY <1>1, Zenon DEF OpToRel
  <1>3. QED
    BY <1>2

\* What holds of {}, and of a set when it holds of it less any one element, holds
\* of every part of a finite set.
LEMMA SubsetInduction ==
    ASSUME NEW S, IsFiniteSet(S), NEW G,
           {} \in G,
           \A T \in SUBSET S : T # {} /\ (\A x \in T : T \ {x} \in G) => T \in G
    PROVE  \A T \in SUBSET S : T \in G
  <1> DEFINE Bad == { T \in SUBSET S : T \notin G }
             Sizes == { Cardinality(T) : T \in Bad }
  <1> SUFFICES ASSUME Bad # {} PROVE FALSE
    OBVIOUS
  <1>1. \A T \in SUBSET S : IsFiniteSet(T) /\ Cardinality(T) \in Nat
    BY FS_Subset, FS_CardinalityType
  <1>2. Sizes \subseteq Nat /\ Sizes # {}
    BY <1>1
  <1>3. PICK n \in Sizes : \A k \in Sizes : n <= k
    BY <1>2, LeastNumber
  <1>4. PICK T \in Bad : Cardinality(T) = n
    OBVIOUS
  <1>5. SUFFICES ASSUME NEW x \in T PROVE T \ {x} \in G
    BY <1>4
  <1>6. Cardinality(T \ {x}) = Cardinality(T) - 1
    BY <1>1, <1>5, FS_RemoveElement
  <1>7. T \ {x} \in SUBSET S
    BY <1>4
  <1>8. Cardinality(T \ {x}) \in Nat /\ Cardinality(T) \in Nat
    BY <1>1, <1>4, <1>7
  <1>9. ~(n <= Cardinality(T \ {x}))
    BY <1>4, <1>6, <1>8
  <1>10. T \ {x} \notin Bad
    <2>1. \A U \in Bad : Cardinality(U) \in Sizes
      OBVIOUS
    <2> HIDE DEF Bad, Sizes
    <2>2. QED
      BY <1>3, <1>9, <2>1
  <1>11. QED
    BY <1>7, <1>10

Chosen(s) == CHOOSE x \in s : TRUE

\* g folds every subset of S with the steps h, from base.
IsFold(g, S, base, h) ==
    \A s \in SUBSET S :
        g[s] = IF s = {} THEN base ELSE h[<< Chosen(s), g[s \ {Chosen(s)}] >>]

\* There is such a g: one layer of subsets after the other has its values.
LEMMA FoldExists ==
    ASSUME NEW S, IsFiniteSet(S), NEW V, NEW base \in V, NEW h \in [S \X V -> V]
    PROVE  \E g \in [SUBSET S -> V] : IsFold(g, S, base, h)
  <1> DEFINE Up(n) == { s \in SUBSET S : Cardinality(s) <= n }
             Solves(g, n) == /\ g \in [SUBSET S -> V]
                             /\ \A s \in Up(n) :
                                   g[s] = IF s = {} THEN base
                                          ELSE h[<< Chosen(s), g[s \ {Chosen(s)}] >>]
             Bad == { n \in Nat : \A g : ~Solves(g, n) }
  <1>1. \A s \in SUBSET S : IsFiniteSet(s) /\ Cardinality(s) \in Nat
    BY FS_Subset, FS_CardinalityType
  <1>2. \A s \in SUBSET S : s # {} =>
           /\ Chosen(s) \in s
           /\ s \ {Chosen(s)} \in SUBSET S
           /\ Cardinality(s \ {Chosen(s)}) = Cardinality(s) - 1
    <2>1. ASSUME NEW s \in SUBSET S, s # {} PROVE Chosen(s) \in s
      BY <2>1 DEF Chosen
    <2>2. QED
      BY <1>1, <2>1, FS_RemoveElement
  <1>3. Bad = {}
    <2> SUFFICES ASSUME Bad # {} PROVE FALSE
      OBVIOUS
    <2>1. PICK n \in Bad : \A k \in Bad : n <= k
      BY LeastNumber
    <2>2. n # 0
      <3> DEFINE g == [s \in SUBSET S |-> base]
      <3>1. \A s \in Up(0) : s = {}
        BY <1>1, FS_EmptySet
      <3>2. Solves(g, 0)
        BY <3>1
      <3> HIDE DEF g, Solves
      <3>3. 0 \notin Bad
        BY <3>2
      <3>4. QED
        BY <2>1, <3>3
    <2>3. n - 1 \in Nat /\ n - 1 \notin Bad
      <3>1. n \in Nat
        BY <2>1
      <3>2. n - 1 \in Nat /\ ~(n <= n - 1)
        BY <2>2, <3>1
      <3>3. QED
        BY <2>1, <3>2, Zenon
    <2>4. PICK f : Solves(f, n - 1)
      BY <2>3
    <2> DEFINE g == [s \in SUBSET S |->
                       IF s = {} THEN base ELSE h[<< Chosen(s), f[s \ {Chosen(s)}] >>]]
    <2>5. g \in [SUBSET S -> V]
      BY <1>2, <2>4
    <2>6. \A t \in Up(n - 1) : g[t] = f[t]
      BY <2>4
    <2>7. ASSUME NEW s \in Up(n), s # {}
          PROVE  g[s] = h[<< Chosen(s), g[s \ {Chosen(s)}] >>]
      <3>1. s \ {Chosen(s)} \in Up(n - 1)
        BY <1>1, <1>2, <2>3, <2>7
      <3>2. g[s] = h[<< Chosen(s), f[s \ {Chosen(s)}] >>]
        BY <2>7
      <3>3. QED
        BY <2>6, <3>1, <3>2
    <2>8. g[{}] = base
      OBVIOUS
    <2> HIDE DEF g
    <2>9. Solves(g, n)
      BY <2>5, <2>7, <2>8
    <2>10. QED
      BY <2>9
  <1>4. Cardinality(S) \in Nat
    BY FS_CardinalityType
  <1>5. PICK g : Solves(g, Cardinality(S))
    BY <1>3, <1>4
  <1>6. \A s \in SUBSET S : s \in Up(Cardinality(S))
    BY FS_Subset
  <1>7. QED
    BY <1>5, <1>6 DEF IsFold

-------------------------------------------------------------------------------
(* Sums. *)

\* g has the sums of v over the parts of S.
FindsSum(g, S, v) ==
    /\ g[{}] = 0
    /\ \A s \in SUBSET S : s # {} => g[s] = v[Chosen(s)] + g[s \ {Chosen(s)}]

\* A sum over a set is a fold that exists.
LEMMA SumExists ==
    ASSUME NEW S, IsFiniteSet(S), NEW v \in [S -> Nat]
    PROVE  \E g \in [SUBSET S -> Nat] : FindsSum(g, S, v)
  <1> DEFINE h == [p \in S \X Nat |-> v[p[1]] + p[2]]
  <1>1. h \in [S \X Nat -> Nat]
    OBVIOUS
  <1>2. PICK g \in [SUBSET S -> Nat] : IsFold(g, S, 0, h)
    <2>1. 0 \in Nat
      OBVIOUS
    <2> HIDE DEF h
    <2>2. QED
      BY <1>1, <2>1, FoldExists
  <1>3. ASSUME NEW s \in SUBSET S, s # {}
        PROVE  g[s] = v[Chosen(s)] + g[s \ {Chosen(s)}]
    <2>1. Chosen(s) \in S /\ g[s \ {Chosen(s)}] \in Nat
      BY <1>2, <1>3 DEF Chosen
    <2>2. g[s] = h[<< Chosen(s), g[s \ {Chosen(s)}] >>]
      BY <1>2, <1>3 DEF IsFold
    <2>3. QED
      BY <2>1, <2>2
  <1>4. g[{}] = 0
    BY <1>2 DEF IsFold
  <1>5. QED
    BY <1>3, <1>4 DEF FindsSum

\* A sum of numbers is one, and not 0 when none of them is.
LEMMA SumIsNatural ==
    ASSUME NEW S, IsFiniteSet(S), NEW v \in [S -> Nat], NEW g, FindsSum(g, S, v)
    PROVE  /\ g[S] \in Nat
           /\ S # {} /\ (\A s \in S : v[s] # 0) => g[S] # 0
  <1> DEFINE G == { s \in SUBSET S : g[s] \in Nat }
  <1>1. {} \in G
    BY DEF FindsSum
  <1>2. ASSUME NEW T \in SUBSET S, T # {}, \A x \in T : T \ {x} \in G
        PROVE  T \in G
    <2>1. Chosen(T) \in T
      BY <1>2 DEF Chosen
    <2>2. PICK r \in Nat : r = g[T \ {Chosen(T)}]
      BY <1>2, <2>1
    <2>3. PICK w \in Nat : w = v[Chosen(T)]
      BY <2>1
    <2>4. g[T] = w + r
      BY <1>2, <2>2, <2>3 DEF FindsSum
    <2>5. QED
      BY <2>4
  <1>3. \A T \in SUBSET S : T \in G
    <2> HIDE DEF G
    <2>1. QED
      BY <1>1, <1>2, SubsetInduction
  <1>4. ASSUME S # {}, \A s \in S : v[s] # 0
        PROVE  g[S] # 0
    <2>1. Chosen(S) \in S
      BY <1>4 DEF Chosen
    <2>2. PICK r \in Nat : r = g[S \ {Chosen(S)}]
      BY <1>3
    <2>3. PICK w \in Nat : w = v[Chosen(S)] /\ w # 0
      BY <1>4, <2>1
    <2>4. g[S] = w + r
      BY <1>4, <2>2, <2>3 DEF FindsSum
    <2>5. QED
      BY <2>3, <2>4
  <1>5. QED
    BY <1>3, <1>4

TotalWeight(S) == MapThenSumSet(LAMBDA s : s.weight, S)
TotalRisk(S) == MapThenSumSet(LAMBDA s : s.value * s.weight, S)

\* Finitely many signals that weigh something.
Weighed(S) ==
    IsFiniteSet(S) /\ \A s \in S : s.value \in Nat /\ s.weight \in Nat \ {0}

\* What signals weigh together, and what they are worth weighed, are numbers.
LEMMA WeightIsSum ==
    ASSUME NEW S, Weighed(S)
    PROVE  TotalWeight(S) \in Nat /\ (S # {} => TotalWeight(S) # 0)
  <1> DEFINE v == [s \in S |-> s.weight]
             Solves(g) == g = [s \in SUBSET S |->
                                 IF s = {} THEN 0
                                 ELSE Chosen(s).weight + g[s \ {Chosen(s)}]]
             g == CHOOSE e : Solves(e)
  <1>1. v \in [S -> Nat] /\ \A s \in S : v[s] # 0
    BY DEF Weighed
  <1>2. PICK f \in [SUBSET S -> Nat] : FindsSum(f, S, v)
    BY <1>1, SumExists DEF Weighed
  <1>3. \A s \in SUBSET S : s # {} => Chosen(s) \in S
    BY DEF Chosen
  <1>4. Solves(f)
    BY <1>2, <1>3 DEF FindsSum
  <1>5. TotalWeight(S) = g[S]
    BY DEF TotalWeight, MapThenSumSet, MapThenFoldSet, Chosen
  <1>6. Solves(g)
    <2> HIDE DEF Solves
    <2>1. QED
      BY <1>4
  <1> HIDE DEF g
  <1>7. FindsSum(g, S, v)
    BY <1>3, <1>6 DEF FindsSum
  <1> HIDE DEF v, Solves
  <1>8. QED
    BY <1>1, <1>5, <1>7, SumIsNatural DEF Weighed

LEMMA RiskIsSum ==
    ASSUME NEW S, Weighed(S)
    PROVE  TotalRisk(S) \in Nat
  <1> DEFINE v == [s \in S |-> s.value * s.weight]
             Solves(g) == g = [s \in SUBSET S |->
                                 IF s = {} THEN 0
                                 ELSE Chosen(s).value * Chosen(s).weight + g[s \ {Chosen(s)}]]
             g == CHOOSE e : Solves(e)
  <1>1. v \in [S -> Nat]
    BY DEF Weighed
  <1>2. PICK f \in [SUBSET S -> Nat] : FindsSum(f, S, v)
    BY <1>1, SumExists DEF Weighed
  <1>3. \A s \in SUBSET S : s # {} => Chosen(s) \in S
    BY DEF Chosen
  <1>4. Solves(f)
    BY <1>2, <1>3 DEF FindsSum
  <1>5. TotalRisk(S) = g[S]
    BY DEF TotalRisk, MapThenSumSet, MapThenFoldSet, Chosen
  <1>6. Solves(g)
    <2> HIDE DEF Solves
    <2>1. QED
      BY <1>4
  <1> HIDE DEF g
  <1>7. FindsSum(g, S, v)
    BY <1>3, <1>6 DEF FindsSum
  <1> HIDE DEF v, Solves
  <1>8. QED
    BY <1>1, <1>5, <1>7, SumIsNatural DEF Weighed

-------------------------------------------------------------------------------
(* Scores are scores. *)

\* Rounding and capping leave a score of a number.
LEMMA QuotientIsNatural ==
    ASSUME NEW x \in Nat, NEW y \in Nat, y > 0
    PROVE  x \div y \in Nat
  <1>1. x \div y \in Int
    OBVIOUS
  <1>2. x \div y >= 0
    OBVIOUS
  <1>3. QED
    BY <1>1, <1>2

LEMMA RoundedIsNatural ==
    ASSUME NEW n \in Nat, NEW d \in Nat, d # 0
    PROVE  Rounded(n, d) \in Nat
  <1>1. 2 * n + d \in Nat /\ 2 * d \in Nat /\ 2 * d > 0
    OBVIOUS
  <1>2. QED
    BY <1>1, QuotientIsNatural DEF Rounded

LEMMA CappedIsScore ==
    ASSUME NEW n \in Nat
    PROVE  Least(One, n) \in Unit
  BY DEF Least, One, Unit

\* The fusion of signals is a score.
LEMMA FusedIsScore ==
    ASSUME NEW S, Weighed(S), NEW c, S # {} => c \in Nat
    PROVE  Fused(S, c) \in Unit
  <1>1. CASE S = {}
    <2>1. Fused(S, c) = 0
      BY <1>1, Zenon DEF Fused
    <2>2. QED
      BY <2>1 DEF Unit, One
  <1>2. CASE S # {}
    <2>1. PICK w \in Nat : w = TotalWeight(S) /\ w # 0
      BY <1>2, WeightIsSum
    <2>2. PICK r \in Nat : r = TotalRisk(S)
      BY RiskIsSum
    <2>3. Fused(S, c) = Least(One, Rounded(TotalRisk(S) + c * TotalWeight(S), TotalWeight(S)))
      BY <1>2 DEF Fused, TotalRisk, TotalWeight
    <2>4. r + c * w \in Nat
      BY <1>2
    <2>5. Rounded(r + c * w, w) \in Nat
      BY <2>1, <2>4, RoundedIsNatural
    <2>6. QED
      BY <2>1, <2>2, <2>3, <2>5, CappedIsScore
  <1>3. QED
    BY <1>1, <1>2

\* The sets of traits and attributes are finite.
LEMMA FourAreFew ==
    ASSUME NEW a, NEW b, NEW c, NEW d
    PROVE  IsFiniteSet({a, b, c, d})
  <1>1. IsFiniteSet({a})
    BY FS_Singleton
  <1>2. IsFiniteSet({a} \cup {b})
    BY <1>1, FS_AddElement
  <1>3. IsFiniteSet(({a} \cup {b}) \cup {c})
    BY <1>2, FS_AddElement
  <1>4. IsFiniteSet((({a} \cup {b}) \cup {c}) \cup {d})
    BY <1>3, FS_AddElement
  <1>5. {a, b, c, d} = (({a} \cup {b}) \cup {c}) \cup {d}
    OBVIOUS
  <1>6. QED
    BY <1>4, <1>5

LEMMA TraitsAreFew == IsFiniteSet(Trait)
  <1>1. DOMAIN ContactSignal =
          {"disposable_email_domain", "sequential_numeric_email", "placeholder_email",
           "unaffiliated_free_email", "invalid_mobile_series", "repeated_digit_phone",
           "digit_run_phone", "sequential_phone", "invalid_pan_holder_type",
           "pan_surname_mismatch", "keyboard_pattern_pan"}
    BY DEF ContactSignal
  <1>2. DOMAIN BusinessSignal =
          {"placeholder_address", "missing_pincode", "incomplete_address",
           "unrecognised_locality", "placeholder_business_name", "generic_business_name",
           "high_risk_category", "repeated_digit_account", "sequential_account",
           "gst_pan_mismatch"}
    BY DEF BusinessSignal
  <1>3. IsFiniteSet(DOMAIN ContactSignal)
    <2> DEFINE A == {"disposable_email_domain", "sequential_numeric_email", "placeholder_email", "unaffiliated_free_email"}
               B == {"invalid_mobile_series", "repeated_digit_phone", "digit_run_phone", "sequential_phone"}
               C == {"invalid_pan_holder_type", "pan_surname_mismatch", "keyboard_pattern_pan", "keyboard_pattern_pan"}
    <2>1. IsFiniteSet(A) /\ IsFiniteSet(B) /\ IsFiniteSet(C)
      BY FourAreFew
    <2>2. DOMAIN ContactSignal = (A \cup B) \cup C
      BY <1>1
    <2> HIDE DEF A, B, C
    <2>3. IsFiniteSet(A \cup B)
      BY <2>1, FS_Union
    <2>4. QED
      BY <2>1, <2>2, <2>3, FS_Union
  <1>4. IsFiniteSet(DOMAIN BusinessSignal)
    <2> DEFINE A == {"placeholder_address", "missing_pincode", "incomplete_address", "unrecognised_locality"}
               B == {"placeholder_business_name", "generic_business_name", "high_risk_category", "repeated_digit_account"}
               C == {"sequential_account", "gst_pan_mismatch", "gst_pan_mismatch", "gst_pan_mismatch"}
    <2>1. IsFiniteSet(A) /\ IsFiniteSet(B) /\ IsFiniteSet(C)
      BY FourAreFew
    <2>2. DOMAIN BusinessSignal = (A \cup B) \cup C
      BY <1>2
    <2> HIDE DEF A, B, C
    <2>3. IsFiniteSet(A \cup B)
      BY <2>1, FS_Union
    <2>4. QED
      BY <2>1, <2>2, <2>3, FS_Union
  <1>5. Trait = DOMAIN ContactSignal \cup DOMAIN BusinessSignal
    BY DEF Trait, TraitSignal
  <1>6. QED
    BY <1>3, <1>4, <1>5, FS_Union

\* Every trait is a signal with a weight.
LEMMA TraitsWeigh ==
    ASSUME NEW t \in Trait
    PROVE  TraitSignal[t].value \in Nat /\ TraitSignal[t].weight \in Nat \ {0}
  <1>1. \A u \in DOMAIN ContactSignal :
           ContactSignal[u].value \in Nat /\ ContactSignal[u].weight \in Nat \ {0}
    BY DEF ContactSignal, Severe
  <1>2. \A u \in DOMAIN BusinessSignal :
           BusinessSignal[u].value \in Nat /\ BusinessSignal[u].weight \in Nat \ {0}
    BY DEF BusinessSignal, Severe
  <1>3. /\ t \in DOMAIN ContactSignal \cup DOMAIN BusinessSignal
        /\ TraitSignal[t] = IF t \in DOMAIN ContactSignal THEN ContactSignal[t] ELSE BusinessSignal[t]
    BY DEF Trait, TraitSignal
  <1>4. QED
    BY <1>1, <1>2, <1>3

\* Whatever traits a form shows, the identity module has a score for it,
LEMMA IdentityIsScored ==
    ASSUME NEW traits \in SUBSET Trait
    PROVE  IdentityScore(IdentitySignals(traits)) \in Unit
  <1> DEFINE S == IdentitySignals(traits)
             Of(t) == Signal(<< "identity", t >>, TraitSignal[t].value, TraitSignal[t].weight)
  <1>1. S = {Of(t) : t \in traits}
    BY DEF IdentitySignals
  <1>2. IsFiniteSet(S)
    <2> DEFINE f == [t \in traits |-> Of(t)]
    <2>1. f \in Surjection(traits, {Of(t) : t \in traits})
      BY DEF Surjection
    <2>2. IsFiniteSet(traits)
      BY TraitsAreFew, FS_Subset
    <2>3. QED
      BY <1>1, <2>1, <2>2, FS_Surjection
  <1>3. \A s \in S : s.value \in Nat /\ s.weight \in Nat \ {0}
    BY <1>1, TraitsWeigh DEF Signal
  <1> HIDE DEF S
  <1>4. Cardinality(S) \in Nat /\ (S # {} => Cardinality(S) # 0)
    BY <1>2, FS_CardinalityType, FS_EmptySet
  <1>5. S # {} => Least(1800, 450 * (Cardinality(S) - 1)) \in Nat
    BY <1>4 DEF Least
  <1>6. QED
    BY <1>2, <1>3, <1>5, FusedIsScore DEF IdentityScore, Weighed, S

\* What an analysis may find: few attributes, and few who share them.
Found(found, turned) ==
    /\ DOMAIN found \subseteq Attribute
    /\ IsFiniteSet(Related(found))
    /\ IsFiniteSet(turned)

LEMMA AttributesAreFew == IsFiniteSet(Attribute)
  <1> DEFINE A == {"bank_account", "device_fingerprint", "address_hash", "owner_pan"}
             B == {"ip_address", "phone_series", "email_domain", "email_domain"}
  <1>1. IsFiniteSet(A) /\ IsFiniteSet(B)
    BY FourAreFew
  <1>2. Attribute = A \cup B
    BY DEF Attribute, AttributeSeverity
  <1> HIDE DEF A, B
  <1>3. QED
    BY <1>1, <1>2, FS_Union

\* The signals of the clustering module, each and together, weigh something.
LEMMA SharedIsWeighed ==
    ASSUME NEW a \in Attribute, NEW n \in Nat
    PROVE  SharedSignal(a, n).value \in Nat /\ SharedSignal(a, n).weight \in Nat \ {0}
  <1>1. PICK v \in Nat : v = AttributeSeverity[a]
    BY DEF Attribute, AttributeSeverity
  <1>2. v * (100 + 12 * (n - 1)) \in Nat
    <2>1. PICK k \in Nat : k = 100 + 12 * (n - 1)
      OBVIOUS
    <2>2. v * k \in Nat
      OBVIOUS
    <2>3. QED
      BY <2>1, <2>2
  <1>3. 100 \in Nat /\ 100 # 0
    OBVIOUS
  <1>4. Rounded(v * (100 + 12 * (n - 1)), 100) \in Nat
    BY <1>2, <1>3, RoundedIsNatural
  <1>5. Least(One, Rounded(v * (100 + 12 * (n - 1)), 100)) \in Nat
    BY <1>4 DEF Least, One
  <1>6. QED
    BY <1>1, <1>5 DEF SharedSignal, Signal

LEMMA OneIsWeighed ==
    ASSUME NEW n, NEW v \in Nat, NEW w \in Nat \ {0}
    PROVE  Weighed({Signal(n, v, w)})
  <1>1. Signal(n, v, w).value = v /\ Signal(n, v, w).weight = w
    BY DEF Signal
  <1>2. IsFiniteSet({Signal(n, v, w)})
    BY FS_Singleton
  <1>3. QED
    BY <1>1, <1>2 DEF Weighed

LEMMA NoneIsWeighed == Weighed({})
  BY FS_EmptySet DEF Weighed

LEMMA BothAreWeighed ==
    ASSUME NEW S, NEW T, Weighed(S), Weighed(T)
    PROVE  Weighed(S \cup T)
  <1>1. IsFiniteSet(S \cup T)
    BY FS_Union DEF Weighed
  <1>2. QED
    BY <1>1 DEF Weighed

LEMMA SizeIsWeighed == \A n : Weighed(SizeSignals(n))
  <1> DEFINE A == {Signal(<< "cluster_size" >>, 9200, 16)}
             B == {Signal(<< "cluster_size" >>, 7400, 13)}
             C == {Signal(<< "cluster_size" >>, 5200, 11)}
  <1>1. Weighed(A) /\ Weighed(B) /\ Weighed(C)
    BY OneIsWeighed
  <1>2. \A n : SizeSignals(n) \in {A, B, C, {}}
    BY DEF SizeSignals
  <1> HIDE DEF A, B, C
  <1>3. QED
    BY <1>1, <1>2, NoneIsWeighed

\* and so has the clustering module, whatever was found.
LEMMA ClusterIsScored ==
    ASSUME NEW found, NEW turned, Found(found, turned)
    PROVE  ClusterScore(found, ClusterSignals(found, turned)) \in Unit
  <1> DEFINE related == Related(found)
             S == ClusterSignals(found, turned)
             Of(a) == SharedSignal(a, Cardinality(found[a]))
             shared == {Of(a) : a \in DOMAIN found}
             size == SizeSignals(Cardinality(related) + 1)
             bad == IF turned = {} THEN {}
                    ELSE {Signal(<< "contains_rejected" >>,
                                 Least(One, 8000 + 500 * Cardinality(turned)), 17)}
  <1>1. IsFiniteSet(DOMAIN found) /\ Cardinality(DOMAIN found) \in Nat
    BY AttributesAreFew, FS_Subset, FS_CardinalityType DEF Found
  <1>2. IsFiniteSet(shared)
    <2> DEFINE f == [a \in DOMAIN found |-> Of(a)]
    <2>1. f \in Surjection(DOMAIN found, shared)
      BY DEF Surjection
    <2>2. QED
      BY <1>1, <2>1, FS_Surjection
  <1>3. \A s \in shared : s.value \in Nat /\ s.weight \in Nat \ {0}
    <2>1. ASSUME NEW a \in DOMAIN found PROVE Cardinality(found[a]) \in Nat
      <3>1. found[a] \in SUBSET related
        BY DEF Related
      <3>2. QED
        BY <3>1, FS_Subset, FS_CardinalityType DEF Found
    <2> HIDE DEF related
    <2>2. QED
      BY <2>1, SharedIsWeighed DEF Found
  <1>4. Weighed(shared)
    BY <1>2, <1>3 DEF Weighed
  <1>5. Weighed(size)
    BY SizeIsWeighed, Zenon
  <1>6. Weighed(bad)
    <2>1. PICK n \in Nat : n = Cardinality(turned)
      BY FS_CardinalityType DEF Found
    <2>2. PICK v \in Nat : v = Least(One, 8000 + 500 * n)
      BY DEF Least, One
    <2>3. 17 \in Nat \ {0}
      OBVIOUS
    <2>4. Weighed({Signal(<< "contains_rejected" >>, v, 17)})
      BY <2>3, OneIsWeighed
    <2>5. bad = IF turned = {} THEN {} ELSE {Signal(<< "contains_rejected" >>, v, 17)}
      BY <2>1, <2>2
    <2> HIDE DEF bad
    <2>6. QED
      BY <2>4, <2>5, NoneIsWeighed, Zenon
  <1>7. S = {} \/ S = (shared \cup size) \cup bad
    <2>1. CASE related = {}
      BY <2>1 DEF ClusterSignals
    <2>2. CASE related # {}
      BY <2>2 DEF ClusterSignals
    <2>3. QED
      BY <2>1, <2>2
  <1> HIDE DEF shared, size, bad, S
  <1>8. Weighed(S)
    BY <1>4, <1>5, <1>6, <1>7, BothAreWeighed, NoneIsWeighed
  <1>9. Least(1500, 500 * Greatest(0, Cardinality(DOMAIN found) - 1)) \in Nat
    BY <1>1 DEF Least, Greatest
  <1>10. QED
    BY <1>8, <1>9, FusedIsScore DEF ClusterScore, S

-------------------------------------------------------------------------------
(* Documents. *)

Documents(docs) == docs \in [DOMAIN docs -> Measured \cup {Skipped}]

\* The documents that were measured, and what each of them says.
MeasuredOf(docs) == {t \in DOMAIN docs : IsMeasured(docs[t])}
SignalsOf(d, t) ==
    (IF d.tampering = None THEN {} ELSE {Signal(<< "tampering", t >>, Claimed(d.tampering), 15)})
    \cup (IF d.forgery = None THEN {} ELSE {Signal(<< "forgery", t >>, Claimed(d.forgery), 14)})
    \cup {Signal(<< "mismatch", t, i >>, 5500, 12) : i \in 1..Least(3, d.mismatches)}
Risks(docs) == {0} \cup {DocumentRisk(docs[t]) : t \in MeasuredOf(docs)}

\* What the document module makes of them rests on the measured ones alone.
LEMMA DocumentsSay ==
    ASSUME NEW docs
    PROVE  /\ DocumentSignals(docs) = UNION {SignalsOf(docs[t], t) : t \in MeasuredOf(docs)}
           /\ DocumentScore(docs) = Max(Risks(docs))
           /\ HasMeasurement(docs) <=> MeasuredOf(docs) # {}
  <1>1. DocumentSignals(docs) = UNION {SignalsOf(docs[t], t) : t \in MeasuredOf(docs)}
    BY DEF DocumentSignals, SignalsOf, MeasuredOf
  <1>2. DocumentScore(docs) = Max(Risks(docs))
    BY DEF DocumentScore, Risks, MeasuredOf
  <1>3. HasMeasurement(docs) <=> MeasuredOf(docs) # {}
    BY DEF HasMeasurement, MeasuredOf
  <1>4. QED
    BY <1>1, <1>2, <1>3

BoundsOf(S) == {n \in Nat : \A s \in S : s <= n}

\* A bounded set of numbers has a least bound.
LEMMA LeastBound ==
    ASSUME NEW S, \A s \in S : s \in Nat /\ s <= 10000
    PROVE  \E n \in BoundsOf(S) : \A k \in BoundsOf(S) : n <= k
  <1>1. 10000 \in BoundsOf(S)
    BY DEF BoundsOf
  <1>2. BoundsOf(S) \subseteq Nat
    BY DEF BoundsOf
  <1>3. BoundsOf(S) # {}
    BY <1>1
  <1>4. QED
    BY <1>2, <1>3, LeastNumber

\* So such a set has a highest number.
LEMMA MaxIsMember ==
    ASSUME NEW S, S # {}, \A s \in S : s \in Nat /\ s <= 10000
    PROVE  Max(S) \in S
  <1>1. PICK n \in BoundsOf(S) : \A k \in BoundsOf(S) : n <= k
    BY LeastBound
  <1>3. n \in Nat /\ \A s \in S : s <= n
    BY DEF BoundsOf
  <1>4. n \in S
    <2> SUFFICES ASSUME n \notin S PROVE FALSE
      OBVIOUS
    <2>1. PICK s : s \in S
      OBVIOUS
    <2>2. s \in Nat /\ s <= n /\ s # n
      BY <1>3, <2>1
    <2>3. n - 1 \in Nat /\ ~(n <= n - 1)
      BY <1>3, <2>2
    <2>4. ASSUME NEW t \in S PROVE t <= n - 1
      <3>1. t \in Nat /\ t <= n /\ t # n
        BY <1>3
      <3>2. QED
        BY <1>3, <3>1
    <2>5. n - 1 \in BoundsOf(S)
      BY <2>3, <2>4 DEF BoundsOf
    <2>6. QED
      BY <1>1, <2>3, <2>5
  <1>5. \A y \in S : n >= y
    BY <1>3
  <1>6. \E x \in S : \A y \in S : x >= y
    BY <1>4, <1>5
  <1>7. QED
    BY <1>6 DEF Max

LEMMA MaxIsScore ==
    ASSUME NEW S, S \subseteq Unit, S # {}
    PROVE  Max(S) \in S
  <1>1. \A s \in Unit : s \in Nat /\ s <= 10000
    BY DEF Unit, One
  <1>2. \A s \in S : s \in Nat /\ s <= 10000
    BY <1>1
  <1>3. QED
    BY <1>2, MaxIsMember

\* The document module has a score too, whatever was sent.
LEMMA DocumentIsScored ==
    ASSUME NEW docs, Documents(docs)
    PROVE  DocumentScore(docs) \in Unit
  <1>1. ASSUME NEW v \in Unit \cup {None} PROVE Claimed(v) \in Nat
    BY <1>1 DEF Claimed, Greatest, Unit, One
  <1>2. ASSUME NEW d \in Measured PROVE DocumentRisk(d) \in Unit
    <2>1. PICK a \in Nat, b \in Nat : a = Claimed(d.tampering) /\ b = Claimed(d.forgery)
      BY <1>1 DEF Measured
    <2>2. PICK m \in Nat : m = Least(2000, 1000 * d.mismatches)
      <3>1. PICK n \in Nat : n = d.mismatches
        BY DEF Measured
      <3>2. QED
        BY <3>1 DEF Least
    <2>3. PICK o \in Nat : o = d.overall
      BY DEF Measured
    <2>4. PICK r \in Nat : r = Rounded(42 * Claimed(d.tampering) + 33 * Claimed(d.forgery), 100)
      <3>1. 42 * a + 33 * b \in Nat /\ 100 \in Nat /\ 100 # 0
        OBVIOUS
      <3>2. QED
        BY <2>1, <3>1, RoundedIsNatural
    <2>5. r + m + o \in Nat
      OBVIOUS
    <2>6. DocumentRisk(d) = Least(One, r + m + o)
      BY <2>2, <2>3, <2>4 DEF DocumentRisk
    <2>7. QED
      BY <2>5, <2>6, CappedIsScore
  <1>3. \A t \in MeasuredOf(docs) : docs[t] \in Measured
    BY DEF MeasuredOf, Documents, IsMeasured, Skipped
  <1>4. Risks(docs) \subseteq Unit
    BY <1>2, <1>3 DEF Risks, Unit, One
  <1>5. Risks(docs) # {}
    BY DEF Risks
  <1>6. QED
    BY <1>4, <1>5, MaxIsScore, DocumentsSay

\* Nothing measured, nothing scored.
LEMMA UnmeasuredIsSilent ==
    ASSUME NEW docs, ~HasMeasurement(docs)
    PROVE  DocumentScore(docs) = 0
  <1>1. Risks(docs) = {0}
    BY DocumentsSay DEF Risks
  <1>2. Max({0}) = 0
    BY MaxIsScore DEF Unit, One
  <1>3. QED
    BY <1>1, <1>2, DocumentsSay

Clean == [skipped |-> FALSE, tampering |-> None, forgery |-> None,
          mismatches |-> 0, overall |-> 0]
Unsent(docs) == [t \in MeasuredOf(docs) |-> docs[t]]
Cleaned(docs) == [t \in DOMAIN docs |-> IF t \in MeasuredOf(docs) THEN docs[t] ELSE Clean]

\* A document that was not measured is worth one that was not sent.
LEMMA UnsentIsUnmeasured ==
    ASSUME NEW docs
    PROVE  /\ DocumentSignals(Unsent(docs)) = DocumentSignals(docs)
           /\ DocumentScore(Unsent(docs)) = DocumentScore(docs)
           /\ HasMeasurement(Unsent(docs)) = HasMeasurement(docs)
  <1>1. MeasuredOf(Unsent(docs)) = MeasuredOf(docs)
    BY DEF MeasuredOf, Unsent
  <1>2. \A t \in MeasuredOf(docs) : Unsent(docs)[t] = docs[t]
    BY DEF Unsent
  <1>3. Risks(Unsent(docs)) = Risks(docs)
    BY <1>1, <1>2 DEF Risks
  <1>4. {SignalsOf(Unsent(docs)[t], t) : t \in MeasuredOf(docs)}
          = {SignalsOf(docs[t], t) : t \in MeasuredOf(docs)}
    BY <1>2
  <1>5. HasMeasurement(Unsent(docs)) <=> HasMeasurement(docs)
    BY <1>1, DocumentsSay
  <1>6. HasMeasurement(Unsent(docs)) \in BOOLEAN /\ HasMeasurement(docs) \in BOOLEAN
    BY DEF HasMeasurement
  <1>7. QED
    BY <1>1, <1>3, <1>4, <1>5, <1>6, DocumentsSay

\* A clean one says nothing either.
LEMMA CleanSaysNothing ==
    /\ IsMeasured(Clean)
    /\ DocumentRisk(Clean) = 0
    /\ \A t : SignalsOf(Clean, t) = {}
  <1>1. IsMeasured(Clean)
    BY DEF IsMeasured, Clean
  <1>2. Claimed(None) = 0
    BY DEF Claimed
  <1>3. Rounded(0, 100) = 0
    BY DEF Rounded
  <1>4. /\ Clean.tampering = None /\ Clean.forgery = None
        /\ Clean.mismatches = 0 /\ Clean.overall = 0
    BY DEF Clean
  <1>5. DocumentRisk(Clean) = 0
    BY <1>2, <1>3, <1>4 DEF DocumentRisk, Least, One
  <1>6. \A t : SignalsOf(Clean, t) = {}
    BY <1>4 DEF SignalsOf, Least
  <1>7. QED
    BY <1>1, <1>5, <1>6

\* So nothing changes in what the documents say when those that were not measured
\* are taken for clean ones.
LEMMA CleanedSaysTheSame ==
    ASSUME NEW docs
    PROVE  /\ DocumentSignals(Cleaned(docs)) = DocumentSignals(docs)
           /\ DocumentScore(Cleaned(docs)) = DocumentScore(docs)
  <1>1. MeasuredOf(Cleaned(docs)) = DOMAIN docs
    BY CleanSaysNothing DEF MeasuredOf, Cleaned
  <1>2. \A t \in DOMAIN docs : Cleaned(docs)[t] = IF t \in MeasuredOf(docs) THEN docs[t] ELSE Clean
    BY DEF Cleaned
  <1>3. MeasuredOf(docs) \subseteq DOMAIN docs
    BY DEF MeasuredOf
  <1>4. Risks(Cleaned(docs)) = Risks(docs)
    BY <1>1, <1>2, <1>3, CleanSaysNothing DEF Risks
  <1>5. UNION {SignalsOf(Cleaned(docs)[t], t) : t \in DOMAIN docs}
          = UNION {SignalsOf(docs[t], t) : t \in MeasuredOf(docs)}
    BY <1>2, <1>3, CleanSaysNothing
  <1>6. QED
    BY <1>1, <1>4, <1>5, DocumentsSay

-------------------------------------------------------------------------------
(* The fusion. *)

Factors == {50, 54, 59}

\* What Compounded makes of a blend.
Factor(S) ==
    LET severe == Cardinality({s \in S : s.value >= 7000})
    IN  IF severe >= 3 THEN 59 ELSE IF severe = 2 THEN 54 ELSE 50

\* The severe signals raise every blend by the same factor.
LEMMA CompoundedIs ==
    ASSUME NEW S, NEW blend
    PROVE  /\ Factor(S) \in Factors
           /\ Compounded(S, blend) = Least(One, Rounded(Factor(S) * blend.total, 50 * blend.over))
  BY DEF Factor, Factors, Compounded

\* The blend over three modules, and over the two that need no document.
LEMMA BlendIs ==
    ASSUME NEW docs, NEW i \in Nat, NEW c \in Nat, NEW d \in Nat, d = DocumentScore(docs),
           NEW g \in Nat, g = Greatest(d, Greatest(i, c))
    PROVE  /\ HasMeasurement(docs) =>
                Blend(docs, i, c) = [over |-> 400, total |-> 11 * (6 * i + 7 * c + 7 * d) + 180 * g]
           /\ ~HasMeasurement(docs) =>
                Blend(docs, i, c) = [over |-> 260, total |-> 11 * (6 * i + 7 * c) + 117 * g]
  <1>3. CASE HasMeasurement(docs)
    <2>1. IdentityWeight + ClusterWeight + DocumentWeight = 20
      BY DEF IdentityWeight, ClusterWeight, DocumentWeight
    <2>2. Blend(docs, i, c) = [over |-> 400, total |-> 11 * (6 * i + 7 * c + 7 * d) + 180 * g]
      BY <1>3, <2>1 DEF Blend, IdentityWeight, ClusterWeight, DocumentWeight
    <2>3. QED
      BY <1>3, <2>2
  <1>4. CASE ~HasMeasurement(docs)
    <2>1. d = 0
      BY <1>4, UnmeasuredIsSilent
    <2>2. Blend(docs, i, c) = [over |-> 260, total |-> 11 * (6 * i + 7 * c) + 117 * g]
      BY <1>4, <2>1 DEF Blend, IdentityWeight, ClusterWeight, DocumentWeight
    <2>3. QED
      BY <1>4, <2>2
  <1>5. QED
    BY <1>3, <1>4

\* With fewer modules, each counts for more.
LEMMA FewerIsMore ==
    ASSUME NEW f \in Factors, NEW k \in Nat, NEW g \in Nat,
           NEW m \in Nat, m = k + 180 * g, NEW n \in Nat, n = k + 117 * g
    PROVE  Least(One, Rounded(f * m, 20000)) <= Least(One, Rounded(f * n, 13000))
  <1>1. PICK p \in Nat, q \in Nat : p = f * k /\ q = f * g
    BY DEF Factors
  <1>2. f * m = p + 180 * q /\ f * n = p + 117 * q
    BY <1>1 DEF Factors
  <1>3. Rounded(p + 180 * q, 20000) <= Rounded(p + 117 * q, 13000)
    BY DEF Rounded
  <1>4. Rounded(p + 180 * q, 20000) \in Nat /\ Rounded(p + 117 * q, 13000) \in Nat
    BY DEF Rounded
  <1>5. QED
    BY <1>2, <1>3, <1>4 DEF Least, One

\* Any factor leaves these totals above the threshold of approval.
LEMMA LoudIsHeard ==
    ASSUME NEW f \in Factors, NEW t \in Nat
    PROVE  /\ t >= 1107000 => Least(One, Rounded(f * t, 20000)) > 2500
           /\ t >= 823500 => Least(One, Rounded(f * t, 13000)) > 2500
  <1>1. PICK p \in Nat : p = f * t /\ p >= 50 * t
    BY DEF Factors
  <1>2. t >= 1107000 => Rounded(p, 20000) \in Nat /\ Rounded(p, 20000) > 2500
    BY <1>1 DEF Rounded
  <1>3. t >= 823500 => Rounded(p, 13000) \in Nat /\ Rounded(p, 13000) > 2500
    BY <1>1 DEF Rounded
  <1>4. QED
    BY <1>1, <1>2, <1>3 DEF Least, One

-------------------------------------------------------------------------------
(* The decisions. *)

SignalsIn(docs, traits, found, turned) ==
    DocumentSignals(docs) \cup IdentitySignals(traits) \cup ClusterSignals(found, turned)
BlendOf(docs, traits, found, turned) ==
    Blend(docs, IdentityScore(IdentitySignals(traits)),
          ClusterScore(found, ClusterSignals(found, turned)))
ScoreOf(docs, traits, found, turned) ==
    Compounded(SignalsIn(docs, traits, found, turned), BlendOf(docs, traits, found, turned))

LEMMA ScoresAreNumbers == \A s \in Unit : s \in Nat
  BY DEF Unit, One

\* An assessment is the decision on that score.
LEMMA AssessedIs ==
    ASSUME NEW docs, NEW traits, NEW found, NEW turned
    PROVE  /\ Assessed(docs, traits, found, turned).score = ScoreOf(docs, traits, found, turned)
           /\ Assessed(docs, traits, found, turned).decision
                = Decide(ScoreOf(docs, traits, found, turned),
                         SignalsIn(docs, traits, found, turned), Cardinality(Related(found)) + 1)
  BY DEF Assessed, ScoreOf, SignalsIn, BlendOf

\* A document that was not measured is assessed as if it had not been sent.
LEMMA UnsentIsAssessedTheSame ==
    ASSUME NEW docs, NEW traits, NEW found, NEW turned
    PROVE  /\ ScoreOf(Unsent(docs), traits, found, turned) = ScoreOf(docs, traits, found, turned)
           /\ SignalsIn(Unsent(docs), traits, found, turned) = SignalsIn(docs, traits, found, turned)
  <1>1. SignalsIn(Unsent(docs), traits, found, turned) = SignalsIn(docs, traits, found, turned)
    BY UnsentIsUnmeasured DEF SignalsIn
  <1>2. \A i, c : Blend(Unsent(docs), i, c) = Blend(docs, i, c)
    <2>1. DocumentScore(Unsent(docs)) = DocumentScore(docs)
          /\ HasMeasurement(Unsent(docs)) = HasMeasurement(docs)
      BY UnsentIsUnmeasured
    <2>2. QED
      BY <2>1 DEF Blend
  <1>3. QED
    BY <1>1, <1>2 DEF ScoreOf, BlendOf

\* A higher score is never decided more leniently.
LEMMA HigherIsStricter ==
    ASSUME NEW a \in Nat, NEW b \in Nat, a >= b, NEW S, NEW n
    PROVE  Severity[Decide(a, S, n)] >= Severity[Decide(b, S, n)]
  <1>1. /\ Severity["approved"] = 0 /\ Severity["under_review"] = 1 /\ Severity["rejected"] = 2
    BY DEF Severity
  <1>2. CASE (\E s \in S : s.value >= DecisiveSignal) \/ n >= CriticalSize
    BY <1>1, <1>2 DEF Decide
  <1>3. CASE ~((\E s \in S : s.value >= DecisiveSignal) \/ n >= CriticalSize)
    <2>1. \A x : Decide(x, S, n) = IF x >= AutoRejectThreshold THEN "rejected"
                                   ELSE IF x <= AutoApproveThreshold THEN "approved" ELSE "under_review"
      BY <1>3 DEF Decide
    <2>2. QED
      BY <1>1, <2>1 DEF AutoRejectThreshold, AutoApproveThreshold
  <1>4. QED
    BY <1>2, <1>3

\* Taking the documents that were not measured for clean ones never raises the
\* score: with them the document module counts, and says nothing.
LEMMA CleanedIsNoWorse ==
    ASSUME NEW docs, NEW traits \in SUBSET Trait, NEW found, NEW turned,
           Documents(docs), Found(found, turned)
    PROVE  /\ ScoreOf(docs, traits, found, turned) \in Nat
           /\ ScoreOf(Cleaned(docs), traits, found, turned) \in Nat
           /\ ScoreOf(docs, traits, found, turned) >= ScoreOf(Cleaned(docs), traits, found, turned)
           /\ SignalsIn(Cleaned(docs), traits, found, turned) = SignalsIn(docs, traits, found, turned)
  <1>1. PICK i \in Nat, c \in Nat : /\ i = IdentityScore(IdentitySignals(traits))
                                    /\ c = ClusterScore(found, ClusterSignals(found, turned))
    <2>1. IdentityScore(IdentitySignals(traits)) \in Nat
      BY IdentityIsScored, ScoresAreNumbers
    <2>2. ClusterScore(found, ClusterSignals(found, turned)) \in Nat
      BY ClusterIsScored, ScoresAreNumbers
    <2>3. QED
      BY <2>1, <2>2
  <1>2. PICK d \in Nat : d = DocumentScore(docs)
    BY DocumentIsScored, ScoresAreNumbers
  <1>3. DocumentScore(Cleaned(docs)) = d
    BY <1>2, CleanedSaysTheSame
  <1>4. SignalsIn(Cleaned(docs), traits, found, turned) = SignalsIn(docs, traits, found, turned)
    BY CleanedSaysTheSame DEF SignalsIn
  <1> DEFINE S == SignalsIn(docs, traits, found, turned)
  <1>5. PICK f \in Factors : f = Factor(S)
    BY CompoundedIs
  <1>6. /\ ScoreOf(docs, traits, found, turned) = Compounded(S, Blend(docs, i, c))
        /\ ScoreOf(Cleaned(docs), traits, found, turned) = Compounded(S, Blend(Cleaned(docs), i, c))
    BY <1>1, <1>4 DEF ScoreOf, BlendOf
  <1>7. \A blend : Compounded(S, blend) = Least(One, Rounded(f * blend.total, 50 * blend.over))
    BY <1>5, CompoundedIs
  <1>8. PICK g \in Nat : g = Greatest(d, Greatest(i, c))
    BY DEF Greatest
  <1> HIDE DEF S
  <1>9. \A k \in Nat : /\ Least(One, Rounded(f * k, 20000)) \in Nat
                       /\ Least(One, Rounded(f * k, 13000)) \in Nat
    <2> SUFFICES ASSUME NEW k \in Nat
                 PROVE  /\ Least(One, Rounded(f * k, 20000)) \in Nat
                        /\ Least(One, Rounded(f * k, 13000)) \in Nat
      OBVIOUS
    <2>1. f * k \in Nat
      BY DEF Factors
    <2>2. Rounded(f * k, 20000) \in Nat /\ Rounded(f * k, 13000) \in Nat
      BY <2>1, RoundedIsNatural
    <2>3. QED
      BY <2>2 DEF Least, One
  <1>10. CASE HasMeasurement(docs)
    <2>1. HasMeasurement(Cleaned(docs))
      <3>1. DOMAIN docs # {}
        BY <1>10 DEF HasMeasurement
      <3>2. QED
        BY <3>1, <1>10, CleanSaysNothing DEF HasMeasurement, Cleaned, MeasuredOf
    <2>2. /\ Blend(docs, i, c) = [over |-> 400, total |-> 11 * (6 * i + 7 * c + 7 * d) + 180 * g]
          /\ Blend(Cleaned(docs), i, c) = [over |-> 400, total |-> 11 * (6 * i + 7 * c + 7 * d) + 180 * g]
      BY <1>2, <1>3, <1>10, <2>1, <1>8, BlendIs
    <2>3. PICK k \in Nat : k = 11 * (6 * i + 7 * c + 7 * d) + 180 * g
      BY <1>8
    <2>4. Compounded(S, Blend(docs, i, c)) = Least(One, Rounded(f * k, 20000))
          /\ Compounded(S, Blend(Cleaned(docs), i, c)) = Least(One, Rounded(f * k, 20000))
      BY <1>7, <2>2, <2>3
    <2>5. QED
      BY <1>4, <1>6, <1>9, <2>4
  <1>11. CASE ~HasMeasurement(docs)
    <2>1. d = 0
      BY <1>2, <1>11, UnmeasuredIsSilent
    <2>2. PICK k \in Nat : k = 11 * (6 * i + 7 * c)
      OBVIOUS
    <2>3. PICK n \in Nat : n = k + 117 * g
      BY <1>8
    <2>4. /\ Blend(docs, i, c) = [over |-> 260, total |-> n]
          /\ Compounded(S, Blend(docs, i, c)) = Least(One, Rounded(f * n, 13000))
      <3>1. Blend(docs, i, c) = [over |-> 260, total |-> n]
        BY <1>2, <1>11, <2>2, <2>3, <1>8, BlendIs
      <3>2. QED
        BY <1>7, <3>1
    <2>5. CASE HasMeasurement(Cleaned(docs))
      <3>1. PICK m \in Nat : m = k + 180 * g
        BY <1>8
      <3>2. Blend(Cleaned(docs), i, c) = [over |-> 400, total |-> m]
        BY <1>3, <1>8, <2>1, <2>2, <2>5, <3>1, BlendIs
      <3>3. Compounded(S, Blend(Cleaned(docs), i, c)) = Least(One, Rounded(f * m, 20000))
        BY <1>7, <3>2
      <3>4. Least(One, Rounded(f * m, 20000)) <= Least(One, Rounded(f * n, 13000))
        BY <1>8, <2>3, <3>1, FewerIsMore
      <3>5. QED
        BY <1>4, <1>6, <1>9, <2>4, <3>3, <3>4
    <2>6. CASE ~HasMeasurement(Cleaned(docs))
      <3>1. Blend(Cleaned(docs), i, c) = Blend(docs, i, c)
        BY <1>3, <1>8, <2>2, <2>3, <2>4, <2>6, BlendIs
      <3>2. QED
        BY <1>4, <1>6, <1>9, <2>4, <3>1
    <2>7. QED
      BY <2>5, <2>6
  <1>12. QED
    BY <1>10, <1>11

\* One score of 0.45 lifts the whole above the threshold of approval.
LEMMA LoudIsNotApproved ==
    ASSUME NEW docs, NEW traits \in SUBSET Trait, NEW found, NEW turned,
           Documents(docs), Found(found, turned),
           \/ DocumentScore(docs) >= 4500
           \/ IdentityScore(IdentitySignals(traits)) >= 4500
           \/ ClusterScore(found, ClusterSignals(found, turned)) >= 4500
    PROVE  Assessed(docs, traits, found, turned).decision # "approved"
  <1>1. PICK i \in Nat, c \in Nat : /\ i = IdentityScore(IdentitySignals(traits))
                                    /\ c = ClusterScore(found, ClusterSignals(found, turned))
    <2>1. IdentityScore(IdentitySignals(traits)) \in Nat
      BY IdentityIsScored, ScoresAreNumbers
    <2>2. ClusterScore(found, ClusterSignals(found, turned)) \in Nat
      BY ClusterIsScored, ScoresAreNumbers
    <2>3. QED
      BY <2>1, <2>2
  <1>2. PICK d \in Nat : d = DocumentScore(docs)
    BY DocumentIsScored, ScoresAreNumbers
  <1>3. d >= 4500 \/ i >= 4500 \/ c >= 4500
    BY <1>1, <1>2
  <1> DEFINE S == SignalsIn(docs, traits, found, turned)
  <1>4. PICK f \in Factors : f = Factor(S)
    BY CompoundedIs
  <1>5. ScoreOf(docs, traits, found, turned) = Compounded(S, Blend(docs, i, c))
    BY <1>1 DEF ScoreOf, BlendOf
  <1>6. \A blend : Compounded(S, blend) = Least(One, Rounded(f * blend.total, 50 * blend.over))
    BY <1>4, CompoundedIs
  <1>7. PICK g \in Nat : /\ g = Greatest(d, Greatest(i, c))
                         /\ g >= d /\ g >= i /\ g >= c
    BY DEF Greatest
  <1> HIDE DEF S
  <1>8. ScoreOf(docs, traits, found, turned) > 2500
    <2>1. CASE HasMeasurement(docs)
      <3>1. PICK t \in Nat : t = 11 * (6 * i + 7 * c + 7 * d) + 180 * g
        OBVIOUS
      <3>2. t >= 1107000
        BY <1>3, <1>7, <3>1
      <3>3. Blend(docs, i, c) = [over |-> 400, total |-> t]
        BY <1>2, <1>7, <2>1, <3>1, BlendIs
      <3>4. Compounded(S, Blend(docs, i, c)) = Least(One, Rounded(f * t, 20000))
        BY <1>6, <3>3
      <3>5. QED
        BY <1>5, <3>2, <3>4, LoudIsHeard
    <2>2. CASE ~HasMeasurement(docs)
      <3>1. PICK t \in Nat : t = 11 * (6 * i + 7 * c) + 117 * g
        OBVIOUS
      <3>2. d = 0
        BY <1>2, <2>2, UnmeasuredIsSilent
      <3>3. t >= 823500
        BY <1>3, <1>7, <3>1, <3>2
      <3>4. Blend(docs, i, c) = [over |-> 260, total |-> t]
        BY <1>2, <1>7, <2>2, <3>1, BlendIs
      <3>5. Compounded(S, Blend(docs, i, c)) = Least(One, Rounded(f * t, 13000))
        BY <1>6, <3>4
      <3>6. QED
        BY <1>5, <3>3, <3>5, LoudIsHeard
    <2>3. QED
      BY <2>1, <2>2
  <1>9. ScoreOf(docs, traits, found, turned) \in Nat
    BY CleanedIsNoWorse
  <1>10. \A T, n : \A x \in Nat : x > 2500 => Decide(x, T, n) # "approved"
    BY DEF Decide, AutoApproveThreshold
  <1>11. QED
    BY <1>8, <1>9, <1>10, AssessedIs

-------------------------------------------------------------------------------
(* What the gate decided is what the scores say. *)

\* What the machine decided is what the scores of the application still say.
DecisionsAreAssessed ==
    \A m \in OnRecord :
        merchants[m].first = Assessed(merchants[m].application.documents,
                                      merchants[m].application.traits,
                                      matches[m], rejected[m]).decision

\* Only the commit of a submission decides, and what it decided from is not
\* touched again.
LEMMA DecisionsStayAssessed ==
    OnboardingInv /\ DecisionsAreAssessed /\ [Next]_vars => DecisionsAreAssessed'
  <1> SUFFICES ASSUME OnboardingInv, DecisionsAreAssessed, [Next]_vars PROVE DecisionsAreAssessed'
    OBVIOUS
  <1>1. ASSUME OnRecord' = OnRecord, UNCHANGED merchants,
               \A n \in OnRecord : matches'[n] = matches[n] /\ rejected'[n] = rejected[n]
        PROVE  DecisionsAreAssessed'
    BY <1>1 DEF DecisionsAreAssessed
  <1>2. \A n \in OnRecord : n \in Merchant /\ pc[n] = "done"
    BY DEF OnboardingInv, SubmissionsAreKept, OnRecord
  <1>3. UNCHANGED merchants => OnRecord' = OnRecord
    BY DEF OnRecord
  <1>4. CASE UNCHANGED vars
    BY <1>1, <1>3, <1>4 DEF vars, local
  <1>5. ASSUME NEW m \in Merchant,
               (\E t \in Attribute : LookUp(m, t)) \/ AskRejected(m) \/ Fail(m)
        PROVE  DecisionsAreAssessed'
    <2>1. pc[m] # "done" /\ UNCHANGED merchants
      BY <1>5 DEF LookUp, AskRejected, Fail, OnboardingInv, LookupsAreFramed
    <2>2. \A n \in Merchant \ {m} : matches'[n] = matches[n] /\ rejected'[n] = rejected[n]
      BY <1>5 DEF LookUp, AskRejected, Fail, OnboardingInv, TypeOK
    <2>3. QED
      BY <1>1, <1>2, <1>3, <2>1, <2>2
  <1>6. ASSUME NEW m \in Merchant, Submit(m) \/ Insert(m) \/ Age(m) PROVE DecisionsAreAssessed'
    BY <1>1, <1>3, <1>6 DEF Submit, Insert, Age, local
  <1>7. ASSUME NEW r \in Reviewer, CheckReview(r) PROVE DecisionsAreAssessed'
    BY <1>1, <1>3, <1>7 DEF CheckReview, local
  <1>8. ASSUME NEW m \in Merchant, Commit(m) PROVE DecisionsAreAssessed'
    <2> DEFINE a == application[m]
               d == Assessed(a.documents, a.traits, matches[m], rejected[m]).decision
               r == [application |-> a, status |-> d, first |-> d, related |-> Related(matches[m])]
    <2>1. merchants' = [merchants EXCEPT ![m] = r] /\ UNCHANGED << matches, rejected >>
      BY <1>8 DEF Commit
    <2>2. merchants'[m] = r /\ \A n \in Merchant \ {m} : merchants'[n] = merchants[n]
      BY <2>1 DEF OnboardingInv, TypeOK
    <2>3. r.first = Assessed(r.application.documents, r.application.traits, matches[m], rejected[m]).decision
      OBVIOUS
    <2> HIDE DEF r
    <2>4. \A n \in OnRecord' : n \in Merchant /\ (n # m => n \in OnRecord)
      BY <2>2 DEF OnRecord
    <2>5. SUFFICES ASSUME NEW n \in OnRecord'
                   PROVE  merchants'[n].first = Assessed(merchants'[n].application.documents,
                                                         merchants'[n].application.traits,
                                                         matches[n], rejected[n]).decision
      BY <2>1 DEF DecisionsAreAssessed
    <2>6. CASE n = m
      BY <2>2, <2>3, <2>6
    <2>7. CASE n # m
      BY <2>2, <2>4, <2>7 DEF DecisionsAreAssessed
    <2>8. QED
      BY <2>6, <2>7
  <1>9. ASSUME NEW r \in Reviewer, CommitReview(r) PROVE DecisionsAreAssessed'
    <2> DEFINE m == review[r]
    <2>1. PICK d \in Manual :
            /\ merchants' = [merchants EXCEPT ![m].status = d]
            /\ UNCHANGED << matches, rejected >>
      BY <1>9 DEF CommitReview, local
    <2>2. m \in OnRecord
      BY <1>9 DEF CommitReview, OnboardingInv, ReviewsWereReferred
    <2>3. merchants[m] \in Row
      BY <2>2 DEF OnboardingInv, TypeOK, OnRecord
    <2>4. merchants'[m] = [merchants[m] EXCEPT !.status = d]
          /\ \A n \in Merchant \ {m} : merchants'[n] = merchants[n]
      BY <1>2, <2>1, <2>2 DEF OnboardingInv, TypeOK
    <2>5. /\ merchants'[m].application = merchants[m].application
          /\ merchants'[m].first = merchants[m].first
      BY <2>3, <2>4 DEF Row
    <2> HIDE DEF m
    <2>6. \A n \in OnRecord' : /\ n \in OnRecord
                               /\ merchants'[n].application = merchants[n].application
                               /\ merchants'[n].first = merchants[n].first
      BY <2>2, <2>4, <2>5 DEF OnRecord
    <2>7. QED
      BY <2>1, <2>6 DEF DecisionsAreAssessed
  <1>10. QED
    BY <1>4, <1>5, <1>6, <1>7, <1>8, <1>9 DEF Next

\* Every first decision on record is the one its scores make (pipeline.py
\* _persist, risk_scorer.py score).
THEOREM DecisionsFollowScores == Spec => []DecisionsAreAssessed
  <1>1. Init => DecisionsAreAssessed
    BY DEF Init, DecisionsAreAssessed, OnRecord
  <1>2. QED
    BY <1>1, OnboardingInvariant, DecisionsStayAssessed, PTL DEF Spec

\* An application on record can be scored, with what its analysis found.
LEMMA RecordsAreScored ==
    ASSUME OnboardingInv, NEW m \in OnRecord
    PROVE  /\ merchants[m].application.traits \in SUBSET Trait
           /\ Documents(merchants[m].application.documents)
           /\ Found(matches[m], rejected[m])
  <1>1. merchants[m].application = application[m] /\ application[m] \in Application /\ m \in Merchant
    BY DEF OnboardingInv, SubmissionsAreKept, OnRecord
  <1>2. /\ merchants[m].application.traits \in SUBSET Trait
        /\ Documents(merchants[m].application.documents)
    BY <1>1, ApplicationAssumption DEF Documents
  <1>3. /\ DOMAIN matches[m] \subseteq Attribute
        /\ Related(matches[m]) \subseteq Merchant
        /\ rejected[m] \subseteq Merchant
    BY <1>1 DEF OnboardingInv, TypeOK
  <1>4. Found(matches[m], rejected[m])
    BY <1>3, MerchantAssumption, FS_Subset DEF Found
  <1>5. QED
    BY <1>2, <1>4

\* For every application and every cluster: a document nobody could measure is
\* worth as much as one never sent, and is never better news than the same
\* document measured and found clean (risk_scorer.py, its module comment and
\* score).
THEOREM MissingCountsAgainst == Spec => []MissingIsNotClean
  <1>1. OnboardingInv /\ DecisionsAreAssessed => MissingIsNotClean
    <2> SUFFICES ASSUME OnboardingInv, DecisionsAreAssessed PROVE MissingIsNotClean
      OBVIOUS
    <2>1. ASSUME NEW m \in OnRecord
          PROVE  LET a == merchants[m].application
                     Using(docs) == Assessed(docs, a.traits, matches[m], rejected[m])
                 IN  /\ Using(a.documents).score = Using(Unsent(a.documents)).score
                     /\ merchants[m].first = Using(Unsent(a.documents)).decision
                     /\ Using(a.documents).score >= Using(Cleaned(a.documents)).score
                     /\ Severity[merchants[m].first] >= Severity[Using(Cleaned(a.documents)).decision]
      <3> DEFINE docs == merchants[m].application.documents
                 traits == merchants[m].application.traits
                 Scored(x) == ScoreOf(x, traits, matches[m], rejected[m])
                 Decided(x) == Assessed(x, traits, matches[m], rejected[m]).decision
                 S == SignalsIn(docs, traits, matches[m], rejected[m])
                 n == Cardinality(Related(matches[m])) + 1
      <3>1. merchants[m].first = Decided(docs)
        BY DEF DecisionsAreAssessed
      <3>2. /\ Scored(Unsent(docs)) = Scored(docs)
            /\ SignalsIn(Unsent(docs), traits, matches[m], rejected[m]) = S
        BY UnsentIsAssessedTheSame
      <3>3. /\ Scored(docs) \in Nat /\ Scored(Cleaned(docs)) \in Nat
            /\ Scored(docs) >= Scored(Cleaned(docs))
            /\ SignalsIn(Cleaned(docs), traits, matches[m], rejected[m]) = S
        BY RecordsAreScored, CleanedIsNoWorse
      <3>4. /\ Decided(docs) = Decide(Scored(docs), S, n)
            /\ Decided(Unsent(docs)) = Decide(Scored(docs), S, n)
            /\ Decided(Cleaned(docs)) = Decide(Scored(Cleaned(docs)), S, n)
        BY <3>2, <3>3, AssessedIs
      <3>5. Severity[Decided(docs)] >= Severity[Decided(Cleaned(docs))]
        BY <3>3, <3>4, HigherIsStricter
      <3>6. QED
        BY <3>1, <3>2, <3>3, <3>4, <3>5, AssessedIs
    <2>2. QED
      BY <2>1 DEF MissingIsNotClean, Unsent, Cleaned, Clean, MeasuredOf
  <1>2. QED
    BY <1>1, OnboardingInvariant, DecisionsFollowScores, PTL

\* Whatever the other modules say, one of them at 0.45 denies the automatic
\* approval (risk_scorer.py MEAN_WEIGHT and MAX_WEIGHT, _decide).
THEOREM LoudModulesAreHeard == Spec => []OneLoudModuleIsHeard
  <1>1. OnboardingInv /\ DecisionsAreAssessed => OneLoudModuleIsHeard
    BY RecordsAreScored, LoudIsNotApproved DEF DecisionsAreAssessed, OneLoudModuleIsHeard
  <1>2. QED
    BY <1>1, OnboardingInvariant, DecisionsFollowScores, PTL
===============================================================================
