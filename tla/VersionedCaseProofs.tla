-------------------------- MODULE VersionedCaseProofs --------------------------
(***************************************************************************)
(* Proofs that the abstract store keeps its promises, for any number of      *)
(* cases, reviewers, verdicts and items.                                     *)
(***************************************************************************)
EXTENDS VersionedCase, CaseRecordProofs, TLAPS
-------------------------------------------------------------------------------
(* The invariant of one case: a decision has been taken where and by whom it  *)
(* may be, and the trail says no more than the row does.                      *)

Settled(r) ==
    r.human # None => /\ r.status = "resolved"
                      /\ r.claimedBy \in {None, r.human.by}

Witnessed(r, l) ==
    \A i \in 1..Len(l) :
        /\ l[i].type = "case_opened" => i = 1 /\ l[i].key = r.key
        /\ l[i].type = "human_decision_recorded" =>
               r.human # None /\ l[i].verdict = r.verdict
        /\ l[i].type = "onboarding_handoff_recorded" => r.handedOff /\ IsApproved(r)

OneHandoff(l) ==
    \A i, j \in 1..Len(l) :
        /\ l[i].type = "onboarding_handoff_recorded"
        /\ l[j].type = "onboarding_handoff_recorded"
        => i = j

Consistent(r, l) == Settled(r) /\ Witnessed(r, l) /\ OneHandoff(l)

KeysDiffer ==
    \A c, d \in CaseId :
        cases[c] # None /\ cases[d] # None /\ cases[c].key = cases[d].key => c = d

Inv == /\ TypeOK
       /\ KeysDiffer
       /\ \A c \in CaseId : \/ cases[c] = None /\ log[c] = << >>
                            \/ cases[c] # None /\ Consistent(cases[c], log[c])

\* A case starts consistent.
LEMMA OpeningIsConsistent ==
  ASSUME NEW k \in Key, NEW st \in OpeningStatus, NEW v \in Verdict
  PROVE  Consistent(NewRow(k, st, v), OpeningEvents(k, st, v))
<1> DEFINE p == ProgressEvents(st, v)
           r == NewRow(k, st, v)
           l == OpeningEvents(k, st, v)
<1>1. Settled(r)
  BY DEF Settled, NewRow
<1>2. p \in Seq(Event) /\ Len(p) = 1 /\ p[1] \in {Requested, Decided(st, v)}
  <2>1. p \in {<< Requested >>, << Decided(st, v) >>}
    BY DEF ProgressEvents
  <2>2. QED
    BY <2>1, ProgressEventsType
<1>3. << Opened(k) >> \in Seq(Event) /\ Len(<< Opened(k) >>) = 1 /\ << Opened(k) >>[1] = Opened(k)
  <2>1. Opened(k) \in Event
    BY DEF Opened, Event
  <2>2. QED
    BY <2>1, SingleEvent
<1> HIDE DEF p
<1>4. l = << Opened(k) >> \o p
  BY DEF OpeningEvents, p
<1>5. /\ Len(l) = 2
      /\ \A i \in 1..1 : l[i] = << Opened(k) >>[i]
      /\ \A i \in 2..2 : l[i] = p[i - 1]
  BY <1>2, <1>3, <1>4, Joined
<1>6. l[1] = Opened(k) /\ l[2] \in {Requested, Decided(st, v)}
  BY <1>2, <1>3, <1>5
<1>7. /\ l[1].type = "case_opened" /\ l[1].key = r.key
      /\ l[2].type \in {"information_requested", "automated_decision_recorded"}
  BY <1>6 DEF Opened, Requested, Decided, NewRow
<1>8. \A i \in 1..2 : i = 1 \/ i = 2
  OBVIOUS
<1> HIDE DEF r, l
<1>9. Witnessed(r, l) /\ OneHandoff(l)
  BY <1>5, <1>7, <1>8 DEF Witnessed, OneHandoff
<1>10. QED
  BY <1>1, <1>9 DEF Consistent, r, l

\* Events that belong to the change extend the trail of the row consistently.
LEMMA TrailExtends ==
  ASSUME NEW r \in Row, NEW q \in Row, NEW ch \in Change, NEW l \in Seq(Event),
         Witnessed(r, l), OneHandoff(l),
         q.key = r.key,
         r.human # None => q.human = r.human /\ q.verdict = r.verdict,
         r.handedOff => q.handedOff,
         ch \in ResolveChange => q.human # None /\ q.verdict = r.verdict,
         ch \in HandoffChange => ~r.handedOff /\ q.handedOff /\ IsApproved(q)
  PROVE  Witnessed(q, l \o Events(r, ch)) /\ OneHandoff(l \o Events(r, ch))
<1> DEFINE b == Events(r, ch)
           m == l \o b
<1>1. /\ b \in Seq(Event)
      /\ \A i \in 1..Len(b) : Fits(r, ch, b[i])
      /\ ch \in HandoffChange => Len(b) = 1
  BY EventsFit
<1> HIDE DEF b
<1>2. /\ Len(m) = Len(l) + Len(b)
      /\ \A i \in 1..Len(l) : m[i] = l[i]
      /\ \A i \in (Len(l) + 1)..(Len(l) + Len(b)) :
            i - Len(l) \in 1..Len(b) /\ m[i] = b[i - Len(l)]
  BY <1>1, Joined
<1> HIDE DEF m
<1>3. Len(l) \in Nat /\ Len(b) \in Nat
  BY <1>1
<1>4. ASSUME NEW i \in 1..Len(m), i \notin 1..Len(l)
      PROVE  i \in (Len(l) + 1)..(Len(l) + Len(b)) /\ Fits(r, ch, m[i])
  BY <1>1, <1>2, <1>3, <1>4
<1>5. ASSUME IsApproved(r) PROVE IsApproved(q)
  BY <1>5 DEF IsApproved
<1>6. Witnessed(q, m)
  <2> SUFFICES ASSUME NEW i \in 1..Len(m)
               PROVE  /\ m[i].type = "case_opened" => i = 1 /\ m[i].key = q.key
                      /\ m[i].type = "human_decision_recorded" =>
                             q.human # None /\ m[i].verdict = q.verdict
                      /\ m[i].type = "onboarding_handoff_recorded" =>
                             q.handedOff /\ IsApproved(q)
    BY DEF Witnessed
  <2>1. CASE i \in 1..Len(l)
    BY <1>2, <1>5, <2>1 DEF Witnessed
  <2>2. CASE i \notin 1..Len(l)
    BY <1>4, <2>2 DEF Fits
  <2>3. QED
    BY <2>1, <2>2
<1>7. OneHandoff(m)
  <2> SUFFICES ASSUME NEW i \in 1..Len(m), NEW j \in 1..Len(m),
                      m[i].type = "onboarding_handoff_recorded",
                      m[j].type = "onboarding_handoff_recorded"
               PROVE  i = j
    BY DEF OneHandoff
  <2>1. CASE i \in 1..Len(l) /\ j \in 1..Len(l)
    BY <1>2, <2>1 DEF OneHandoff
  <2>2. CASE i \notin 1..Len(l) \/ j \notin 1..Len(l)
    <3>1. ch \in HandoffChange
      BY <1>4, <2>2 DEF Fits
    <3>2. i \notin 1..Len(l) /\ j \notin 1..Len(l)
      BY <1>2, <3>1 DEF Witnessed
    <3>3. Len(b) = 1
      BY <1>1, <3>1
    <3>4. /\ i \in (Len(l) + 1)..(Len(l) + Len(b))
          /\ j \in (Len(l) + 1)..(Len(l) + Len(b))
      BY <1>4, <3>2
    <3>5. QED
      BY <1>3, <3>3, <3>4
  <2>3. QED
    BY <2>1, <2>2
<1>8. QED
  BY <1>6, <1>7 DEF m, b

\* A committed change leaves the case consistent.
LEMMA CommitIsConsistent ==
  ASSUME NEW r \in Row, NEW ch \in RowChange, NEW l \in Seq(Event),
         Legal(r, ch), Invited(r, ch), Consistent(r, l)
  PROVE  Consistent(Bumped(r, ch), l \o Events(r, ch))
<1> DEFINE q == Bumped(r, ch)
<1>1. q \in Row /\ q.key = r.key
  BY BumpedIs, KeyIsKept
<1>2. ASSUME r.human # None
      PROVE  q.status = "resolved" /\ q.human = r.human /\ q.verdict = r.verdict
                /\ q.claimedBy \in {None, r.claimedBy}
  BY <1>2, DecisionIsKept DEF Consistent, Settled
<1>3. Settled(q)
  <2>1. CASE r.human # None
    BY <1>2, <2>1 DEF Consistent, Settled
  <2>2. CASE r.human = None
    BY <2>2, DecisionIsMade DEF Settled
  <2>3. QED
    BY <2>1, <2>2
<1>4. r.handedOff => q.handedOff
  <2>1. \A c \in RowChange :
           /\ Progressed(r, c).handedOff = r.handedOff
           /\ Claimed(r, c).handedOff = r.handedOff
           /\ Resolved(r, c).handedOff = r.handedOff
    BY DEF Row, Progressed, Claimed, Resolved
  <2>2. Released(r).handedOff = r.handedOff /\ HandedOff(r).handedOff = TRUE
    BY DEF Row, Released, HandedOff
  <2>3. Assigned(r, ch).handedOff = r.handedOff \/ Assigned(r, ch).handedOff = TRUE
    BY <2>1, <2>2, AssignedIs, Zenon
  <2>4. q.handedOff = Assigned(r, ch).handedOff
    BY BumpedIs
  <2>5. QED
    BY <2>3, <2>4, Zenon
<1>5. ASSUME ch \in ResolveChange
      PROVE  q.human # None /\ q.verdict = r.verdict
  <2>1. Assigned(r, ch) = Resolved(r, ch)
    BY <1>5 DEF Assigned, ResolveChange
  <2>2. Resolved(r, ch).human \in Human /\ Resolved(r, ch).verdict = r.verdict
    BY <1>5 DEF Row, Resolved, Human, ResolveChange
  <2>3. QED
    BY <2>1, <2>2, BumpedIs, NoneAssumption
<1>6. ASSUME ch \in HandoffChange
      PROVE  ~r.handedOff /\ q.handedOff /\ IsApproved(q)
  <2>1. Assigned(r, ch) = HandedOff(r)
    BY <1>6 DEF Assigned, HandoffChange
  <2>2. ~r.handedOff /\ IsApproved(r)
    BY <1>6 DEF Invited, HandoffChange
  <2>3. HandedOff(r).handedOff = TRUE /\ HandedOff(r).human = r.human
    BY DEF Row, HandedOff
  <2>4. QED
    BY <2>1, <2>2, <2>3, BumpedIs DEF IsApproved
<1> HIDE DEF q
<1>7. Witnessed(q, l \o Events(r, ch)) /\ OneHandoff(l \o Events(r, ch))
  BY <1>1, <1>2, <1>4, <1>5, <1>6, TrailExtends DEF Consistent, Change
<1>8. QED
  BY <1>3, <1>7 DEF Consistent, q

\* A note leaves it consistent, too.
LEMMA NoteIsConsistent ==
  ASSUME NEW r \in Row, NEW ch \in NoteChange, NEW l \in Seq(Event), Consistent(r, l)
  PROVE  Consistent(r, l \o Events(r, ch))
<1>1. ch \notin ResolveChange /\ ch \notin HandoffChange
  BY DEF NoteChange, ResolveChange, HandoffChange
<1>2. QED
  BY <1>1, TrailExtends DEF Consistent, Change

\* The invariant is inductive.
LEMMA Invariance == Inv /\ [Next]_vars => Inv'
<1> SUFFICES ASSUME Inv, [Next]_vars PROVE Inv'
  OBVIOUS
<1> DEFINE Whole(c) == \/ cases[c] = None /\ log[c] = << >>
                       \/ cases[c] # None /\ Consistent(cases[c], log[c])
<1>1. TypeOK /\ KeysDiffer /\ \A c \in CaseId : Whole(c)
  BY DEF Inv
<1>2. ASSUME NEW c \in CaseId, NEW k \in Key, NEW st \in OpeningStatus, NEW v \in Verdict,
             Open(c, k, st, v)
      PROVE  Inv'
  <2>1. NewRow(k, st, v) \in Row /\ OpeningEvents(k, st, v) \in Seq(Event)
    BY OpeningType
  <2>2. TypeOK'
    BY <1>1, <1>2, <2>1 DEF TypeOK, Open
  <2>3. NewRow(k, st, v).key = k
    BY DEF NewRow
  <2>4. KeysDiffer'
    BY <1>1, <1>2, <2>3 DEF KeysDiffer, TypeOK, Open
  <2>5. ASSUME NEW d \in CaseId PROVE Whole(d)'
    <3>1. CASE d = c
      BY <1>1, <1>2, <2>1, <3>1, OpeningIsConsistent, NoneAssumption DEF TypeOK, Open
    <3>2. CASE d # c
      BY <1>1, <1>2, <3>2 DEF TypeOK, Open
    <3>3. QED
      BY <3>1, <3>2
  <2>6. QED
    BY <2>2, <2>4, <2>5 DEF Inv
<1>3. ASSUME NEW c \in CaseId, NEW ch \in RowChange, Commit(c, ch)
      PROVE  Inv'
  <2>1. cases[c] \in Row /\ log[c] \in Seq(Event) /\ Consistent(cases[c], log[c])
    BY <1>1, <1>3 DEF TypeOK, Commit
  <2>2. /\ Bumped(cases[c], ch) \in Row
        /\ Bumped(cases[c], ch).key = cases[c].key
        /\ Events(cases[c], ch) \in Seq(Event)
    BY <2>1, BumpedIs, KeyIsKept, EventsFit DEF Change
  <2>3. log[c] \o Events(cases[c], ch) \in Seq(Event)
    BY <2>1, <2>2, Joined
  <2>4. TypeOK'
    BY <1>1, <1>3, <2>2, <2>3 DEF TypeOK, Commit
  <2>5. KeysDiffer'
    BY <1>1, <1>3, <2>2 DEF KeysDiffer, TypeOK, Commit
  <2>6. ASSUME NEW d \in CaseId PROVE Whole(d)'
    <3>1. CASE d = c
      <4>1. Consistent(Bumped(cases[c], ch), log[c] \o Events(cases[c], ch))
        BY <1>3, <2>1, CommitIsConsistent DEF Commit
      <4>2. QED
        BY <1>1, <1>3, <2>2, <3>1, <4>1, NoneAssumption DEF TypeOK, Commit
    <3>2. CASE d # c
      BY <1>1, <1>3, <3>2 DEF TypeOK, Commit
    <3>3. QED
      BY <3>1, <3>2
  <2>7. QED
    BY <2>4, <2>5, <2>6 DEF Inv
<1>4. ASSUME NEW c \in CaseId, NEW ch \in NoteChange, Note(c, ch)
      PROVE  Inv'
  <2>1. cases[c] \in Row /\ log[c] \in Seq(Event) /\ Consistent(cases[c], log[c])
    BY <1>1, <1>4 DEF TypeOK, Note
  <2>2. Events(cases[c], ch) \in Seq(Event)
    BY <2>1, EventsFit DEF Change
  <2>3. log[c] \o Events(cases[c], ch) \in Seq(Event)
    BY <2>1, <2>2, Joined
  <2>4. TypeOK' /\ KeysDiffer'
    BY <1>1, <1>4, <2>3 DEF TypeOK, KeysDiffer, Note
  <2>5. ASSUME NEW d \in CaseId PROVE Whole(d)'
    <3>1. CASE d = c
      <4>1. Consistent(cases[c], log[c] \o Events(cases[c], ch))
        BY <2>1, NoteIsConsistent
      <4>2. QED
        BY <1>1, <1>4, <3>1, <4>1 DEF TypeOK, Note
    <3>2. CASE d # c
      BY <1>1, <1>4, <3>2 DEF TypeOK, Note
    <3>3. QED
      BY <3>1, <3>2
  <2>6. QED
    BY <2>4, <2>5 DEF Inv
<1>5. CASE UNCHANGED vars
  BY <1>1, <1>5 DEF Inv, TypeOK, KeysDiffer, vars
<1>6. QED
  BY <1>2, <1>3, <1>4, <1>5 DEF Next

\* The invariant holds throughout.
THEOREM Invariant == Spec => []Inv
<1>1. Init => Inv
  <2> SUFFICES ASSUME Init PROVE Inv
    OBVIOUS
  <2>1. TypeOK
    BY DEF Init, TypeOK
  <2>2. QED
    BY <2>1 DEF Init, Inv, KeysDiffer
<1>2. QED
  BY <1>1, Invariance, PTL DEF Spec

-------------------------------------------------------------------------------
(* The promises. *)

\* No recorded decision lies on a case that another reviewer holds.
THEOREM ClaimsAreRespected == Spec => []ClaimIsRespected
<1>1. Inv => ClaimIsRespected
  BY DEF Inv, Consistent, Settled, ClaimIsRespected
<1>2. QED
  BY <1>1, Invariant, PTL

\* A decision event names the verdict the row still shows.
THEOREM OverridesNameVerdicts == Spec => []OverrideNamesVerdict
<1>1. Inv => OverrideNamesVerdict
  <2> SUFFICES ASSUME Inv, NEW c \in CaseId, NEW i \in DOMAIN log[c],
                      log[c][i].type = "human_decision_recorded"
               PROVE  log[c][i].verdict = cases[c].verdict
    BY DEF OverrideNamesVerdict
  <2>1. log[c] \in Seq(Event) /\ i \in 1..Len(log[c])
    BY DEF Inv, TypeOK
  <2>2. QED
    BY <2>1 DEF Inv, Consistent, Witnessed
<1>2. QED
  BY <1>1, Invariant, PTL

\* At most one hand-off is recorded, of an approved case.
THEOREM HandoffsAreUnique == Spec => []HandedOffOnce
<1>1. Inv => HandedOffOnce
  <2> SUFFICES ASSUME Inv, NEW c \in CaseId, NEW i \in DOMAIN log[c], NEW j \in DOMAIN log[c],
                      log[c][i].type = "onboarding_handoff_recorded",
                      log[c][j].type = "onboarding_handoff_recorded"
               PROVE  i = j /\ IsApproved(cases[c])
    BY DEF HandedOffOnce
  <2>1. log[c] \in Seq(Event) /\ i \in 1..Len(log[c]) /\ j \in 1..Len(log[c])
    BY DEF Inv, TypeOK
  <2>2. Consistent(cases[c], log[c])
    BY <2>1 DEF Inv
  <2>3. QED
    BY <2>1, <2>2 DEF Consistent, Witnessed, OneHandoff
<1>2. QED
  BY <1>1, Invariant, PTL

\* Keys and cases are one to one, and a case is opened once.
THEOREM KeysOpenOneCase == Spec => []KeyOpensOneCase
<1>1. Inv => KeyOpensOneCase
  <2> SUFFICES ASSUME Inv, NEW c \in CaseId, NEW i \in DOMAIN log[c],
                      log[c][i].type = "case_opened"
               PROVE  i = 1 /\ log[c][i].key = cases[c].key
    BY DEF KeyOpensOneCase, Inv, KeysDiffer
  <2>1. log[c] \in Seq(Event) /\ i \in 1..Len(log[c])
    BY DEF Inv, TypeOK
  <2>2. QED
    BY <2>1 DEF Inv, Consistent, Witnessed
<1>2. QED
  BY <1>1, Invariant, PTL

\* No step rewrites a recorded decision or the verdict it overrode.
THEOREM DecisionsAreFinal == Spec => DecisionIsFinal
<1> DEFINE Kept(c) == /\ cases'[c] # None
                      /\ cases'[c].status = cases[c].status
                      /\ cases'[c].human = cases[c].human
                      /\ cases'[c].verdict = cases[c].verdict
<1>1. Inv /\ [Next]_vars => [\A c \in CaseId : IsResolved(c) => Kept(c)]_vars
  <2> SUFFICES ASSUME Inv, Next, NEW d \in CaseId, IsResolved(d) PROVE Kept(d)
    OBVIOUS
  <2>1. ASSUME NEW c \in CaseId, NEW k \in Key, NEW st \in OpeningStatus, NEW v \in Verdict,
               Open(c, k, st, v)
        PROVE  Kept(d)
    BY <2>1 DEF Inv, TypeOK, IsResolved, Open
  <2>2. ASSUME NEW c \in CaseId, NEW ch \in RowChange, Commit(c, ch)
        PROVE  Kept(d)
    <3>1. CASE d = c
      <4>1. /\ cases[c] \in Row /\ Legal(cases[c], ch) /\ Invited(cases[c], ch)
            /\ cases[c].status = "resolved"
        BY <2>2, <3>1 DEF Inv, TypeOK, IsResolved, Commit, Consistent, Settled
      <4>2. /\ Bumped(cases[c], ch) \in Row
            /\ Bumped(cases[c], ch).status = cases[c].status
            /\ Bumped(cases[c], ch).human = cases[c].human
            /\ Bumped(cases[c], ch).verdict = cases[c].verdict
        BY <4>1, BumpedIs, DecisionIsKept
      <4>3. cases'[c] = Bumped(cases[c], ch)
        BY <2>2 DEF Inv, TypeOK, Commit
      <4>4. QED
        BY <3>1, <4>2, <4>3, NoneAssumption
    <3>2. CASE d # c
      BY <2>2, <3>2 DEF Inv, TypeOK, IsResolved, Commit
    <3>3. QED
      BY <3>1, <3>2
  <2>3. ASSUME NEW c \in CaseId, NEW ch \in NoteChange, Note(c, ch)
        PROVE  Kept(d)
    BY <2>3 DEF IsResolved, Note
  <2>4. QED
    BY <2>1, <2>2, <2>3 DEF Next
<1>2. QED
  BY <1>1, Invariant, PTL DEF Spec, DecisionIsFinal

\* A trail is only ever extended.
THEOREM TrailsOnlyGrow == Spec => LogIsAppendOnly
<1> DEFINE Extended(c) == /\ Len(log[c]) <= Len(log'[c])
                          /\ \A i \in 1..Len(log[c]) : log'[c][i] = log[c][i]
<1>1. Inv /\ [Next]_vars => [\A c \in CaseId : Extended(c)]_vars
  <2> SUFFICES ASSUME Inv, Next, NEW d \in CaseId PROVE Extended(d)
    OBVIOUS
  <2>1. log[d] \in Seq(Event) /\ log \in [CaseId -> Seq(Event)] /\ cases \in [CaseId -> Row \cup {None}]
    BY DEF Inv, TypeOK
  <2>2. CASE log'[d] = log[d]
    BY <2>1, <2>2
  <2>3. ASSUME NEW c \in CaseId, NEW k \in Key, NEW st \in OpeningStatus, NEW v \in Verdict,
               Open(c, k, st, v), c = d
        PROVE  Extended(d)
    <3>1. log[d] = << >>
      BY <2>3, NoneAssumption DEF Inv, Open
    <3>2. log'[d] \in Seq(Event)
      BY <2>1, <2>3, OpeningType DEF Open
    <3>3. QED
      BY <3>1, <3>2
  <2>4. ASSUME NEW ch \in Change, cases[d] \in Row,
               log' = [log EXCEPT ![d] = @ \o Events(cases[d], ch)]
        PROVE  Extended(d)
    <3>1. Events(cases[d], ch) \in Seq(Event) /\ log'[d] = log[d] \o Events(cases[d], ch)
      BY <2>1, <2>4, EventsFit
    <3>2. QED
      BY <2>1, <3>1, Joined
  <2>5. QED
    BY <2>1, <2>2, <2>3, <2>4 DEF Next, Open, Commit, Note, Change
<1>2. QED
  BY <1>1, Invariant, PTL DEF Spec, LogIsAppendOnly
-------------------------------------------------------------------------------
(* The trail explains the row: that it does is inductive in the behaviour.     *)

\* The trail of every opened case shows its row.
Explained == \A c \in CaseId : cases[c] # None => Explains(log[c], Shown(cases[c]))

LEMMA ExplainedInvariance == Inv /\ Explained /\ [Next]_vars => Explained'
<1> SUFFICES ASSUME Inv, Explained, [Next]_vars, NEW d \in CaseId, cases'[d] # None
             PROVE  Explains(log'[d], Shown(cases'[d]))
  BY DEF Explained
<1>1. TypeOK
  BY DEF Inv
<1>2. ASSUME cases'[d] = cases[d], log'[d] = log[d]
      PROVE  Explains(log'[d], Shown(cases'[d]))
  BY <1>2 DEF Explained
<1>3. ASSUME NEW c \in CaseId, NEW k \in Key, NEW st \in OpeningStatus, NEW v \in Verdict,
             Open(c, k, st, v)
      PROVE  Explains(log'[d], Shown(cases'[d]))
  <2>1. CASE d = c
    <3>1. cases'[d] = NewRow(k, st, v) /\ log'[d] = OpeningEvents(k, st, v)
      BY <1>1, <1>3, <2>1 DEF TypeOK, Open
    <3>2. QED
      BY <3>1, OpeningIsExplained
  <2>2. CASE d # c
    BY <1>1, <1>2, <1>3, <2>2 DEF TypeOK, Open
  <2>3. QED
    BY <2>1, <2>2
<1>4. ASSUME NEW c \in CaseId, NEW ch \in RowChange, Commit(c, ch)
      PROVE  Explains(log'[d], Shown(cases'[d]))
  <2>1. CASE d = c
    <3>1. /\ cases[d] \in Row /\ log[d] \in Seq(Event)
          /\ Explains(log[d], Shown(cases[d]))
      BY <1>1, <1>4, <2>1 DEF TypeOK, Commit, Explained
    <3>2. cases'[d] = Bumped(cases[d], ch) /\ log'[d] = log[d] \o Events(cases[d], ch)
      BY <1>1, <1>4, <2>1 DEF TypeOK, Commit
    <3>3. QED
      BY <3>1, <3>2, ChangeIsExplained
  <2>2. CASE d # c
    BY <1>1, <1>2, <1>4, <2>2 DEF TypeOK, Commit
  <2>3. QED
    BY <2>1, <2>2
<1>5. ASSUME NEW c \in CaseId, NEW ch \in NoteChange, Note(c, ch)
      PROVE  Explains(log'[d], Shown(cases'[d]))
  <2>1. CASE d = c
    <3>1. /\ cases[d] \in Row /\ log[d] \in Seq(Event)
          /\ Explains(log[d], Shown(cases[d]))
      BY <1>1, <1>5, <2>1 DEF TypeOK, Note, Explained
    <3>2. cases'[d] = cases[d] /\ log'[d] = log[d] \o Events(cases[d], ch)
      BY <1>1, <1>5, <2>1 DEF TypeOK, Note
    <3>3. QED
      BY <3>1, <3>2, NoteExplainsNothing
  <2>2. CASE d # c
    BY <1>1, <1>2, <1>5, <2>2 DEF TypeOK, Note
  <2>3. QED
    BY <2>1, <2>2
<1>6. CASE UNCHANGED vars
  BY <1>2, <1>6 DEF vars
<1>7. QED
  BY <1>3, <1>4, <1>5, <1>6 DEF Next

\* Replaying the audit trail of a case gives its status, claim, decision and
\* hand-off.
THEOREM TrailsExplainRows == Spec => []AuditExplainsRow
<1>1. Init => Explained
  BY DEF Init, Explained
<1>2. Explained => AuditExplainsRow
  BY ReplayArrives DEF Explained, Shown, AuditExplainsRow
<1>3. QED
  BY <1>1, <1>2, Invariant, ExplainedInvariance, PTL DEF Spec
===============================================================================
