--------------------------- MODULE CaseRecordProofs ---------------------------
(***************************************************************************)
(* Facts about the rows, changes and events of CaseRecord: what a change      *)
(* leaves a row with, and which events it may append.                         *)
(***************************************************************************)
EXTENDS CaseRecord, TLAPS

\* Each change assigns the columns of its own operation.
LEMMA AssignedIs ==
  ASSUME NEW r, NEW ch \in RowChange
  PROVE  \/ ch \in ProgressChange /\ Assigned(r, ch) = Progressed(r, ch)
         \/ ch \in ClaimChange /\ Assigned(r, ch) = Claimed(r, ch)
         \/ ch \in ReleaseChange /\ Assigned(r, ch) = Released(r)
         \/ ch \in ResolveChange /\ Assigned(r, ch) = Resolved(r, ch)
         \/ ch \in HandoffChange /\ Assigned(r, ch) = HandedOff(r)
<1>1. ASSUME ch \in ProgressChange PROVE Assigned(r, ch) = Progressed(r, ch)
  BY <1>1 DEF Assigned, ProgressChange
<1>2. ASSUME ch \in ClaimChange PROVE Assigned(r, ch) = Claimed(r, ch)
  BY <1>2 DEF Assigned, ClaimChange
<1>3. ASSUME ch \in ReleaseChange PROVE Assigned(r, ch) = Released(r)
  BY <1>3 DEF Assigned, ReleaseChange
<1>4. ASSUME ch \in ResolveChange PROVE Assigned(r, ch) = Resolved(r, ch)
  BY <1>4 DEF Assigned, ResolveChange
<1>5. ASSUME ch \in HandoffChange PROVE Assigned(r, ch) = HandedOff(r)
  BY <1>5 DEF Assigned, HandoffChange
<1>6. QED
  BY <1>1, <1>2, <1>3, <1>4, <1>5 DEF RowChange

\* The columns an operation assigns leave a row.
LEMMA AssignedType ==
  ASSUME NEW r \in Row, NEW ch \in RowChange
  PROVE  Assigned(r, ch) \in Row
<1>1. ASSUME ch \in ProgressChange PROVE Progressed(r, ch) \in Row
  BY <1>1 DEF ProgressChange, Progressed, Row, CaseStatus, OpeningStatus
<1>2. ASSUME ch \in ClaimChange PROVE Claimed(r, ch) \in Row
  BY <1>2 DEF ClaimChange, Claimed, Row, CaseStatus, OpeningStatus
<1>3. ASSUME ch \in ReleaseChange PROVE Released(r) \in Row
  BY <1>3 DEF ReleaseChange, Released, Row, CaseStatus, OpeningStatus
<1>4. ASSUME ch \in ResolveChange PROVE Resolved(r, ch) \in Row
  BY <1>4 DEF ResolveChange, Resolved, Row, Human, CaseStatus, OpeningStatus
<1>5. ASSUME ch \in HandoffChange PROVE HandedOff(r) \in Row
  BY <1>5 DEF HandoffChange, HandedOff, Row, CaseStatus, OpeningStatus
<1>6. QED
  BY <1>1, <1>2, <1>3, <1>4, <1>5, AssignedIs

\* Counting the change alters nothing but the version.
LEMMA BumpedIs ==
  ASSUME NEW r \in Row, NEW ch \in RowChange
  PROVE  /\ Bumped(r, ch) \in Row
         /\ Bumped(r, ch).version = r.version + 1
         /\ Bumped(r, ch).key = Assigned(r, ch).key
         /\ Bumped(r, ch).status = Assigned(r, ch).status
         /\ Bumped(r, ch).claimedBy = Assigned(r, ch).claimedBy
         /\ Bumped(r, ch).verdict = Assigned(r, ch).verdict
         /\ Bumped(r, ch).human = Assigned(r, ch).human
         /\ Bumped(r, ch).handedOff = Assigned(r, ch).handedOff
<1>1. Assigned(r, ch) \in Row
  BY AssignedType
<1>2. r.version + 1 \in Nat \ {0}
  BY DEF Row
<1>3. QED
  BY <1>1, <1>2 DEF Bumped, Row

\* A change keeps the idempotency key.
LEMMA KeyIsKept ==
  ASSUME NEW r \in Row, NEW ch \in RowChange
  PROVE  Bumped(r, ch).key = r.key
<1>1. \A c \in RowChange :
         /\ Progressed(r, c).key = r.key
         /\ Claimed(r, c).key = r.key
         /\ Resolved(r, c).key = r.key
  BY DEF Row, Progressed, Claimed, Resolved
<1>2. Released(r).key = r.key /\ HandedOff(r).key = r.key
  BY DEF Row, Released, HandedOff
<1>3. Assigned(r, ch).key = r.key
  BY <1>1, <1>2, AssignedIs
<1>4. QED
  BY <1>3, BumpedIs

\* A change the store accepts on a decided row keeps the decision, what it
\* overrode, and the claim or none.
LEMMA DecisionIsKept ==
  ASSUME NEW r \in Row, NEW ch \in RowChange, Legal(r, ch), Invited(r, ch),
         r.status = "resolved"
  PROVE  /\ Bumped(r, ch).status = r.status
         /\ Bumped(r, ch).human = r.human
         /\ Bumped(r, ch).verdict = r.verdict
         /\ Bumped(r, ch).claimedBy \in {None, r.claimedBy}
<1>1. ch \notin ProgressChange
  BY DEF ProgressChange, Invited, AwaitsInformation
<1>2. ch \notin ClaimChange
  BY DEF ClaimChange, Legal, MayClaim, Terminal
<1>3. ch \notin ResolveChange
  BY DEF ResolveChange, Legal, MayResolve
<1>4. Assigned(r, ch) \in {Released(r), HandedOff(r)}
  BY <1>1, <1>2, <1>3, AssignedIs
<1>5. /\ Assigned(r, ch).status = r.status
      /\ Assigned(r, ch).human = r.human
      /\ Assigned(r, ch).verdict = r.verdict
      /\ Assigned(r, ch).claimedBy \in {None, r.claimedBy}
  BY <1>4 DEF Row, Released, HandedOff
<1>6. QED
  BY <1>5, BumpedIs

\* A change that leaves a decision on an undecided row is the reviewer's who
\* holds the case, or of one who found it unclaimed.
LEMMA DecisionIsMade ==
  ASSUME NEW r \in Row, NEW ch \in RowChange, Legal(r, ch),
         r.human = None, Bumped(r, ch).human # None
  PROVE  /\ Bumped(r, ch).status = "resolved"
         /\ Bumped(r, ch).claimedBy \in {None, Bumped(r, ch).human.by}
<1>1. Assigned(r, ch).human # None
  BY BumpedIs
<1>2. ch \in ResolveChange /\ Assigned(r, ch) = Resolved(r, ch)
  <2>1. Progressed(r, ch).human = r.human /\ Claimed(r, ch).human = r.human
    BY DEF Row, Progressed, Claimed
  <2>2. Released(r).human = r.human /\ HandedOff(r).human = r.human
    BY DEF Row, Released, HandedOff
  <2>3. QED
    BY <1>1, <2>1, <2>2, AssignedIs
<1>3. r.claimedBy \in {None, ch.by}
  BY <1>2 DEF Legal, MayResolve, ResolveChange
<1>4. /\ Assigned(r, ch).status = "resolved"
      /\ Assigned(r, ch).claimedBy = r.claimedBy
      /\ Assigned(r, ch).human.by = ch.by
  BY <1>2 DEF Row, Resolved
<1>5. QED
  BY <1>3, <1>4, BumpedIs

\* One event is a sequence of events.
LEMMA SingleEvent ==
  ASSUME NEW e \in Event
  PROVE  << e >> \in Seq(Event)
OBVIOUS

\* An event of a longer trail is one of the old ones or one of the new ones.
LEMMA Joined ==
  ASSUME NEW l \in Seq(Event), NEW b \in Seq(Event)
  PROVE  /\ l \o b \in Seq(Event)
         /\ Len(l \o b) = Len(l) + Len(b)
         /\ Len(l \o b) >= Len(l)
         /\ \A i \in 1..Len(l) : (l \o b)[i] = l[i]
         /\ \A i \in 1..Len(b) : (l \o b)[Len(l) + i] = b[i]
         /\ \A i \in (Len(l) + 1)..(Len(l) + Len(b)) :
               i - Len(l) \in 1..Len(b) /\ (l \o b)[i] = b[i - Len(l)]
OBVIOUS

\* What a run ends with is a sequence of events.
LEMMA ProgressEventsType ==
  ASSUME NEW st \in OpeningStatus, NEW v \in Verdict
  PROVE  ProgressEvents(st, v) \in Seq(Event)
<1>1. Requested \in Event
  BY DEF Requested, Event
<1>2. Decided(st, v) \in Event
  BY DEF Decided, Event, CaseStatus
<1>3. QED
  BY <1>1, <1>2, SingleEvent DEF ProgressEvents

\* Event e may stand in the trail for change ch of row r.
Fits(r, ch, e) ==
    /\ e.type # "case_opened"
    /\ e.type = "human_decision_recorded" => ch \in ResolveChange /\ e.verdict = r.verdict
    /\ e.type = "onboarding_handoff_recorded" => ch \in HandoffChange

\* The events of a change are events, of the kinds that belong to it.
LEMMA EventsFit ==
  ASSUME NEW r \in Row, NEW ch \in Change
  PROVE  /\ Events(r, ch) \in Seq(Event)
         /\ \A i \in 1..Len(Events(r, ch)) : Fits(r, ch, Events(r, ch)[i])
         /\ ch \in HandoffChange => Len(Events(r, ch)) = 1
<1>1. CASE ch \in ProgressChange
  <2> DEFINE e == Supplied(ch.item)
             p == ProgressEvents(ch.status, ch.verdict)
  <2>1. Events(r, ch) = << e >> \o p
    BY <1>1 DEF Events, ProgressChange
  <2>2. e \in Event /\ Fits(r, ch, e)
    BY <1>1 DEF ProgressChange, Supplied, Event, Fits
  <2>3. p \in Seq(Event) /\ Len(p) = 1 /\ Fits(r, ch, p[1])
    <3>1. p \in {<< Requested >>, << Decided(ch.status, ch.verdict) >>}
      BY DEF ProgressEvents
    <3>2. Fits(r, ch, Requested) /\ Fits(r, ch, Decided(ch.status, ch.verdict))
      BY DEF Fits, Requested, Decided
    <3>3. p \in Seq(Event)
      BY <1>1, ProgressEventsType DEF ProgressChange
    <3>4. QED
      BY <3>1, <3>2, <3>3
  <2>4. ch \notin HandoffChange
    BY <1>1 DEF ProgressChange, HandoffChange
  <2> HIDE DEF e, p
  <2>5. << e >> \in Seq(Event) /\ Len(<< e >>) = 1 /\ << e >>[1] = e
    BY <2>2, SingleEvent
  <2>6. /\ Events(r, ch) \in Seq(Event)
        /\ Len(Events(r, ch)) = 2
        /\ \A i \in 1..1 : Events(r, ch)[i] = << e >>[i]
        /\ \A i \in 2..2 : Events(r, ch)[i] = p[i - 1]
    BY <2>1, <2>3, <2>5, Joined
  <2>7. Events(r, ch)[1] = e /\ Events(r, ch)[2] = p[1]
    BY <2>5, <2>6
  <2>8. \A i \in 1..2 : i = 1 \/ i = 2
    OBVIOUS
  <2>9. QED
    BY <2>2, <2>3, <2>4, <2>6, <2>7, <2>8
<1>2. CASE ch \in ClaimChange
  <2> DEFINE e == [type |-> "case_claimed", actor |-> ch.by, previous |-> r.status]
  <2>1. Events(r, ch) = << e >>
    BY <1>2 DEF Events, ClaimChange
  <2>2. e \in Event
    BY <1>2 DEF ClaimChange, Event, Row
  <2>3. Fits(r, ch, e)
    BY <1>2 DEF Fits
  <2> HIDE DEF e
  <2>4. QED
    BY <2>1, <2>2, <2>3, SingleEvent
<1>3. CASE ch \in ReleaseChange
  <2> DEFINE e == [type |-> "case_released", actor |-> ch.by]
  <2>1. Events(r, ch) = << e >>
    BY <1>3 DEF Events, ReleaseChange
  <2>2. e \in Event
    BY <1>3 DEF ReleaseChange, Event
  <2>3. Fits(r, ch, e)
    BY <1>3 DEF Fits
  <2> HIDE DEF e
  <2>4. QED
    BY <2>1, <2>2, <2>3, SingleEvent
<1>4. CASE ch \in ResolveChange
  <2> DEFINE e == [type |-> "human_decision_recorded", actor |-> ch.by,
                decision |-> ch.decision, verdict |-> r.verdict]
  <2>1. Events(r, ch) = << e >>
    BY <1>4 DEF Events, ResolveChange
  <2>2. e \in Event
    BY <1>4 DEF ResolveChange, Event, Row
  <2>3. Fits(r, ch, e)
    BY <1>4 DEF Fits
  <2> HIDE DEF e
  <2>4. QED
    BY <2>1, <2>2, <2>3, SingleEvent
<1>5. CASE ch \in HandoffChange
  <2> DEFINE e == [type |-> "onboarding_handoff_recorded"]
  <2>1. Events(r, ch) = << e >>
    BY <1>5 DEF Events, HandoffChange
  <2>2. e \in Event
    BY <1>5 DEF HandoffChange, Event
  <2>3. Fits(r, ch, e)
    BY <1>5 DEF Fits
  <2> HIDE DEF e
  <2>4. QED
    BY <2>1, <2>2, <2>3, SingleEvent
<1>6. CASE ch \in NoteChange
  <2> DEFINE e == Supplied(ch.item)
  <2>1. Events(r, ch) = << e >>
    BY <1>6 DEF Events, NoteChange
  <2>2. e \in Event
    BY <1>6 DEF NoteChange, Event, Supplied
  <2>3. Fits(r, ch, e)
    BY <1>6 DEF Fits, Supplied
  <2> HIDE DEF e
  <2>4. QED
    BY <2>1, <2>2, <2>3, SingleEvent
<1>7. QED
  BY <1>1, <1>2, <1>3, <1>4, <1>5, <1>6 DEF Change, RowChange

\* A new row is a row and its opening events are events.
LEMMA OpeningType ==
  ASSUME NEW k \in Key, NEW st \in OpeningStatus, NEW v \in Verdict
  PROVE  NewRow(k, st, v) \in Row /\ OpeningEvents(k, st, v) \in Seq(Event)
<1>1. NewRow(k, st, v) \in Row
  BY DEF NewRow, Row, CaseStatus
<1>2. Opened(k) \in Event
  BY DEF Opened, Event
<1>3. << Opened(k) >> \in Seq(Event) /\ ProgressEvents(st, v) \in Seq(Event)
  BY <1>2, SingleEvent, ProgressEventsType
<1>4. QED
  BY <1>1, <1>3 DEF OpeningEvents
-------------------------------------------------------------------------------
(* What replaying a trail shows.  A function that solves the recursion of       *)
(* Replay along l gives one along l \o << e >> by one more value, so what the   *)
(* longer trail shows follows from what l shows, without induction over trails. *)

\* What a trail has to say of a row.
Shown(r) == [status |-> r.status, claimedBy |-> r.claimedBy, human |-> r.human,
             handedOff |-> r.handedOff]

View == [status    : CaseStatus,
         claimedBy : Reviewer \cup {None},
         human     : Human \cup {None},
         handedOff : BOOLEAN]

\* f goes along the trail l as Replay does.
Follows(f, l) ==
    f = [i \in 0..Len(l) |-> IF i = 0 THEN Blank ELSE After(f[i - 1], l[i])]

\* Whoever goes along l arrives at x, and it can be done.
Explains(l, x) ==
    /\ \E f : Follows(f, l)
    /\ \A f : Follows(f, l) => f[Len(l)] = x

LEMMA ReplayArrives ==
  ASSUME NEW l, NEW x, Explains(l, x)
  PROVE  Replay(l) = x
<1> DEFINE g == CHOOSE f : Follows(f, l)
<1>1. Follows(g, l)
  BY DEF Explains
<1>2. g[Len(l)] = x
  BY <1>1 DEF Explains
<1>3. Replay(l) = g[Len(l)]
  BY DEF Replay, Follows
<1>4. QED
  BY <1>2, <1>3

LEMMA NothingExplainsBlank == Explains(<< >>, Blank)
<1>1. Follows([i \in 0..0 |-> Blank], << >>)
  BY DEF Follows
<1>2. \A f : Follows(f, << >>) => f[0] = Blank
  BY DEF Follows
<1>3. QED
  BY <1>1, <1>2 DEF Explains

LEMMA OneMoreEvent ==
  ASSUME NEW l \in Seq(Event), NEW e \in Event, NEW x, Explains(l, x)
  PROVE  Explains(l \o << e >>, After(x, e))
<1> DEFINE m == l \o << e >>
           n == Len(l)
<1>1. /\ m \in Seq(Event) /\ n \in Nat /\ Len(m) = n + 1
      /\ m[n + 1] = e
      /\ \A i \in 1..n : m[i] = l[i]
  OBVIOUS
<1> HIDE DEF m
<1>2. \E f : Follows(f, m)
  <2>1. PICK f : Follows(f, l)
    BY DEF Explains
  <2> DEFINE g == [i \in 0..(n + 1) |-> IF i = n + 1 THEN After(f[n], e) ELSE f[i]]
  <2>2. ASSUME NEW i \in 0..(n + 1)
        PROVE  g[i] = IF i = 0 THEN Blank ELSE After(g[i - 1], m[i])
    <3>1. CASE i = 0
      BY <1>1, <2>1, <3>1 DEF Follows
    <3>2. CASE i \in 1..n
      <4>1. f[i] = After(f[i - 1], l[i]) /\ i # 0
        BY <1>1, <2>1, <3>2 DEF Follows
      <4>2. g[i] = f[i] /\ g[i - 1] = f[i - 1] /\ m[i] = l[i]
        BY <1>1, <3>2
      <4>3. QED
        BY <4>1, <4>2
    <3>3. CASE i = n + 1
      <4>1. g[i] = After(f[n], e) /\ g[i - 1] = f[n] /\ m[i] = e /\ i # 0
        BY <1>1, <3>3
      <4>2. QED
        BY <4>1
    <3>4. QED
      BY <1>1, <3>1, <3>2, <3>3
  <2>3. g = [i \in 0..(n + 1) |-> g[i]]
    OBVIOUS
  <2> HIDE DEF g
  <2>4. g = [i \in 0..Len(m) |-> IF i = 0 THEN Blank ELSE After(g[i - 1], m[i])]
    BY <1>1, <2>2, <2>3
  <2>5. QED
    BY <2>4 DEF Follows
<1>3. ASSUME NEW f, Follows(f, m) PROVE f[n + 1] = After(x, e)
  <2> DEFINE g == [i \in 0..n |-> f[i]]
  <2>1. \A i \in 0..(n + 1) : f[i] = IF i = 0 THEN Blank ELSE After(f[i - 1], m[i])
    BY <1>1, <1>3 DEF Follows
  <2>2. ASSUME NEW i \in 0..n
        PROVE  g[i] = IF i = 0 THEN Blank ELSE After(g[i - 1], l[i])
    <3>1. CASE i = 0
      BY <1>1, <2>1, <3>1
    <3>2. CASE i \in 1..n
      <4>1. f[i] = After(f[i - 1], m[i]) /\ i # 0
        BY <1>1, <2>1, <3>2
      <4>2. g[i] = f[i] /\ g[i - 1] = f[i - 1] /\ m[i] = l[i]
        BY <1>1, <3>2
      <4>3. QED
        BY <4>1, <4>2
    <3>3. QED
      BY <1>1, <3>1, <3>2
  <2>3. g = [i \in 0..n |-> g[i]] /\ g[n] = f[n]
    BY <1>1
  <2> HIDE DEF g
  <2>4. Follows(g, l)
    BY <2>2, <2>3 DEF Follows
  <2>5. f[n] = x
    BY <2>3, <2>4 DEF Explains
  <2>6. f[n + 1] = After(f[n], e)
    BY <1>1, <2>1
  <2>7. QED
    BY <2>5, <2>6
<1>4. QED
  BY <1>1, <1>2, <1>3 DEF Explains, m


\* Two accounts of a case that agree column by column are the same.
LEMMA SameView ==
  ASSUME NEW x \in View, NEW y \in View,
         x.status = y.status, x.claimedBy = y.claimedBy, x.human = y.human,
         x.handedOff = y.handedOff
  PROVE  x = y
BY DEF View

\* What is shown of a row are its own columns.
LEMMA ShownIs ==
  ASSUME NEW r \in Row
  PROVE  /\ Shown(r) \in View
         /\ Shown(r).status = r.status
         /\ Shown(r).claimedBy = r.claimedBy
         /\ Shown(r).human = r.human
         /\ Shown(r).handedOff = r.handedOff
BY DEF Shown, View, Row

\* A run that gives row r the status st does the same to what is shown.
LEMMA StatusIsShown ==
  ASSUME NEW r \in Row, NEW q \in Row,
         q.claimedBy = r.claimedBy, q.human = r.human, q.handedOff = r.handedOff
  PROVE  [Shown(r) EXCEPT !.status = q.status] = Shown(q)
<1> DEFINE x == Shown(r)
           y == [x EXCEPT !.status = q.status]
<1>1. /\ x \in View /\ x.claimedBy = r.claimedBy
      /\ x.human = r.human /\ x.handedOff = r.handedOff
  BY ShownIs
<1> HIDE DEF x
<1>2. /\ y \in View /\ y.status = q.status /\ y.claimedBy = x.claimedBy
      /\ y.human = x.human /\ y.handedOff = x.handedOff
  BY <1>1 DEF View, Row
<1> HIDE DEF y
<1>3. y = Shown(q)
  BY <1>1, <1>2, ShownIs, SameView
<1>4. QED
  BY <1>3 DEF x, y

\* So does a claim.
LEMMA ClaimIsShown ==
  ASSUME NEW r \in Row, NEW ch \in ClaimChange
  PROVE  Claimed(Shown(r), [by |-> ch.by]) = Shown(Claimed(r, ch))
<1> DEFINE x == Shown(r)
           y == Claimed(x, [by |-> ch.by])
           q == Claimed(r, ch)
<1>1. /\ x \in View /\ x.status = r.status
      /\ x.human = r.human /\ x.handedOff = r.handedOff
  BY ShownIs
<1>2. ch.by \in Reviewer
  BY DEF ClaimChange
<1> HIDE DEF x
<1>3. /\ y \in View /\ y.claimedBy = ch.by
      /\ y.human = x.human /\ y.handedOff = x.handedOff
      /\ y.status = IF x.status = "pending_review" THEN "claimed" ELSE x.status
  BY <1>1, <1>2 DEF View, Claimed, CaseStatus, OpeningStatus
<1>4. /\ q \in Row /\ q.claimedBy = ch.by
      /\ q.human = r.human /\ q.handedOff = r.handedOff
      /\ q.status = IF r.status = "pending_review" THEN "claimed" ELSE r.status
  BY <1>2 DEF Row, Claimed, CaseStatus, OpeningStatus
<1> HIDE DEF y, q
<1>5. y = Shown(q)
  BY <1>1, <1>3, <1>4, ShownIs, SameView
<1>6. QED
  BY <1>5 DEF x, y, q

\* A release.
LEMMA ReleaseIsShown ==
  ASSUME NEW r \in Row
  PROVE  Released(Shown(r)) = Shown(Released(r))
<1> DEFINE x == Shown(r)
           y == Released(x)
           q == Released(r)
<1>1. /\ x \in View /\ x.status = r.status
      /\ x.human = r.human /\ x.handedOff = r.handedOff
  BY ShownIs
<1> HIDE DEF x
<1>2. /\ y \in View /\ y.claimedBy = None
      /\ y.human = x.human /\ y.handedOff = x.handedOff
      /\ y.status = IF x.status = "claimed" THEN "pending_review" ELSE x.status
  BY <1>1 DEF View, Released, CaseStatus, OpeningStatus
<1>3. /\ q \in Row /\ q.claimedBy = None
      /\ q.human = r.human /\ q.handedOff = r.handedOff
      /\ q.status = IF r.status = "claimed" THEN "pending_review" ELSE r.status
  BY DEF Row, Released, CaseStatus, OpeningStatus
<1> HIDE DEF y, q
<1>4. y = Shown(q)
  BY <1>1, <1>2, <1>3, ShownIs, SameView
<1>5. QED
  BY <1>4 DEF x, y, q

\* A decision.
LEMMA DecisionIsShown ==
  ASSUME NEW r \in Row, NEW ch \in ResolveChange
  PROVE  Resolved(Shown(r), [by |-> ch.by, decision |-> ch.decision]) = Shown(Resolved(r, ch))
<1> DEFINE x == Shown(r)
           h == [by |-> ch.by, decision |-> ch.decision]
           y == Resolved(x, h)
           q == Resolved(r, ch)
<1>1. /\ x \in View /\ x.claimedBy = r.claimedBy /\ x.handedOff = r.handedOff
  BY ShownIs
<1>2. h \in Human /\ h = [by |-> h.by, decision |-> h.decision]
  BY DEF ResolveChange, Human
<1> HIDE DEF x
<1>3. /\ y \in View /\ y.status = "resolved" /\ y.human = h
      /\ y.claimedBy = x.claimedBy /\ y.handedOff = x.handedOff
  BY <1>1, <1>2 DEF View, Resolved, CaseStatus, OpeningStatus
<1>4. /\ q \in Row /\ q.status = "resolved" /\ q.human = h
      /\ q.claimedBy = r.claimedBy /\ q.handedOff = r.handedOff
  BY <1>2 DEF Row, Resolved, CaseStatus, OpeningStatus
<1> HIDE DEF y, q, h
<1>5. y = Shown(q)
  BY <1>1, <1>3, <1>4, ShownIs, SameView
<1>6. QED
  BY <1>5 DEF x, y, q, h

\* And a hand-off.
LEMMA HandoffIsShown ==
  ASSUME NEW r \in Row
  PROVE  HandedOff(Shown(r)) = Shown(HandedOff(r))
<1> DEFINE x == Shown(r)
           y == HandedOff(x)
           q == HandedOff(r)
<1>1. /\ x \in View /\ x.status = r.status
      /\ x.claimedBy = r.claimedBy /\ x.human = r.human
  BY ShownIs
<1> HIDE DEF x
<1>2. /\ y \in View /\ y.handedOff = TRUE
      /\ y.status = x.status /\ y.claimedBy = x.claimedBy /\ y.human = x.human
  BY <1>1 DEF View, HandedOff
<1>3. /\ q \in Row /\ q.handedOff = TRUE
      /\ q.status = r.status /\ q.claimedBy = r.claimedBy /\ q.human = r.human
  BY DEF Row, HandedOff
<1> HIDE DEF y, q
<1>4. y = Shown(q)
  <2>1. /\ Shown(q) \in View /\ Shown(q).handedOff = TRUE /\ Shown(q).status = r.status
        /\ Shown(q).claimedBy = r.claimedBy /\ Shown(q).human = r.human
    BY <1>3, ShownIs
  <2>2. y.status = r.status /\ y.claimedBy = r.claimedBy /\ y.human = r.human
    BY <1>1, <1>2
  <2>3. y \in View /\ y.handedOff = TRUE
    BY <1>2
  <2>4. QED
    BY <2>1, <2>2, <2>3, SameView
<1>5. QED
  BY <1>4 DEF x, y, q

\* After its opening events the trail shows the new row.
LEMMA OpeningIsExplained ==
  ASSUME NEW k \in Key, NEW st \in OpeningStatus, NEW v \in Verdict
  PROVE  Explains(OpeningEvents(k, st, v), Shown(NewRow(k, st, v)))
<1> DEFINE e == IF st = "awaiting_information" THEN Requested ELSE Decided(st, v)
           r == NewRow(k, "pending_review", v)
           q == NewRow(k, st, v)
<1>1. Opened(k) \in Event /\ e \in Event
  BY DEF Opened, Requested, Decided, Event, CaseStatus
<1>2. << >> \o << Opened(k) >> = << Opened(k) >> /\ << Opened(k) >> \in Seq(Event)
  BY <1>1
<1>3. Explains(<< Opened(k) >>, After(Blank, Opened(k)))
  <2>1. << >> \in Seq(Event)
    OBVIOUS
  <2>2. Explains(<< >> \o << Opened(k) >>, After(Blank, Opened(k)))
    BY <1>1, <2>1, NothingExplainsBlank, OneMoreEvent
  <2>3. QED
    BY <1>2, <2>2
<1>4. Explains(<< Opened(k) >> \o << e >>, After(After(Blank, Opened(k)), e))
  BY <1>1, <1>2, <1>3, OneMoreEvent
<1>5. OpeningEvents(k, st, v) = << Opened(k) >> \o << e >>
  BY DEF OpeningEvents, ProgressEvents
<1>6. After(Blank, Opened(k)) = Blank
  BY DEF After, Opened
<1>7. After(Blank, e) = [Blank EXCEPT !.status = st]
  BY DEF After, Requested, Decided
<1>8. [Blank EXCEPT !.status = st] = Shown(q)
  <2>1. r \in Row /\ q \in Row
    BY OpeningType DEF OpeningStatus
  <2>2. /\ q.status = st /\ q.claimedBy = r.claimedBy
        /\ q.human = r.human /\ q.handedOff = r.handedOff
    BY DEF NewRow
  <2>3. Blank = Shown(r)
    BY DEF Blank, Shown, NewRow
  <2> HIDE DEF r, q
  <2>4. QED
    BY <2>1, <2>2, <2>3, StatusIsShown
<1>9. QED
  BY <1>4, <1>5, <1>6, <1>7, <1>8

\* A trail that shows the row shows, with the events of a change, what the
\* change has made of it.
LEMMA ChangeIsExplained ==
  ASSUME NEW r \in Row, NEW ch \in RowChange, NEW l \in Seq(Event),
         Explains(l, Shown(r))
  PROVE  Explains(l \o Events(r, ch), Shown(Bumped(r, ch)))
<1> DEFINE q == Assigned(r, ch)
           x == Shown(r)
<1>1. Shown(Bumped(r, ch)) = Shown(q)
  BY BumpedIs DEF Shown
<1>2. ASSUME NEW e \in Event, Events(r, ch) = << e >>, After(x, e) = Shown(q)
      PROVE  Explains(l \o Events(r, ch), Shown(q))
  BY <1>2, OneMoreEvent
<1>3. CASE ch \in ProgressChange
  <2> DEFINE s == Supplied(ch.item)
             e == IF ch.status = "awaiting_information" THEN Requested
                  ELSE Decided(ch.status, ch.verdict)
  <2>1. s \in Event /\ e \in Event
    BY <1>3 DEF ProgressChange, Supplied, Requested, Decided, Event, CaseStatus
  <2>2. Events(r, ch) = << s >> \o << e >>
    BY <1>3 DEF ProgressChange, Events, ProgressEvents
  <2>3. After(x, s) = x
    BY DEF After, Supplied
  <2>4. After(x, e) = [x EXCEPT !.status = ch.status]
    BY DEF After, Requested, Decided
  <2>5. q = Progressed(r, ch)
    BY <1>3 DEF Assigned, ProgressChange
  <2>6. [x EXCEPT !.status = ch.status] = Shown(q)
    <3>1. q \in Row
      BY AssignedType
    <3>2. /\ q.status = ch.status /\ q.claimedBy = r.claimedBy
          /\ q.human = r.human /\ q.handedOff = r.handedOff
      BY <2>5 DEF Row, Progressed
    <3> HIDE DEF q
    <3>3. QED
      BY <3>1, <3>2, StatusIsShown
  <2> HIDE DEF e, s, x, q
  <2>7. l \o << s >> \in Seq(Event) /\ Explains(l \o << s >>, x)
    <3>1. l \o << s >> \in Seq(Event)
      BY <2>1, SingleEvent, Joined
    <3>2. Explains(l, x)
      BY DEF x
    <3>3. QED
      BY <2>1, <2>3, <3>1, <3>2, OneMoreEvent
  <2>8. Explains((l \o << s >>) \o << e >>, After(x, e))
    BY <2>1, <2>7, OneMoreEvent
  <2>9. (l \o << s >>) \o << e >> = l \o Events(r, ch)
    BY <2>1, <2>2
  <2>10. QED
    BY <1>1, <2>4, <2>6, <2>8, <2>9
<1>4. CASE ch \in ClaimChange
  <2> DEFINE e == [type |-> "case_claimed", actor |-> ch.by, previous |-> r.status]
  <2>1. e \in Event /\ Events(r, ch) = << e >>
    BY <1>4 DEF ClaimChange, Events, Event, Row
  <2>2. q = Claimed(r, ch)
    BY <1>4 DEF Assigned, ClaimChange
  <2>3. After(x, e) = Claimed(x, [by |-> ch.by])
    BY DEF After
  <2>4. QED
    BY <1>1, <1>2, <1>4, <2>1, <2>2, <2>3, ClaimIsShown
<1>5. CASE ch \in ReleaseChange
  <2> DEFINE e == [type |-> "case_released", actor |-> ch.by]
  <2>1. e \in Event /\ Events(r, ch) = << e >>
    BY <1>5 DEF ReleaseChange, Events, Event
  <2>2. q = Released(r)
    BY <1>5 DEF Assigned, ReleaseChange
  <2>3. After(x, e) = Released(x)
    BY DEF After
  <2>4. QED
    BY <1>1, <1>2, <2>1, <2>2, <2>3, ReleaseIsShown
<1>6. CASE ch \in ResolveChange
  <2> DEFINE e == [type |-> "human_decision_recorded", actor |-> ch.by,
                   decision |-> ch.decision, verdict |-> r.verdict]
  <2>1. e \in Event /\ Events(r, ch) = << e >>
    BY <1>6 DEF ResolveChange, Events, Event, Row
  <2>2. q = Resolved(r, ch)
    BY <1>6 DEF Assigned, ResolveChange
  <2>3. After(x, e) = Resolved(x, [by |-> ch.by, decision |-> ch.decision])
    BY DEF After
  <2>4. QED
    BY <1>1, <1>2, <1>6, <2>1, <2>2, <2>3, DecisionIsShown
<1>7. CASE ch \in HandoffChange
  <2> DEFINE e == [type |-> "onboarding_handoff_recorded"]
  <2>1. e \in Event /\ Events(r, ch) = << e >>
    BY <1>7 DEF HandoffChange, Events, Event
  <2>2. q = HandedOff(r)
    BY <1>7 DEF Assigned, HandoffChange
  <2>3. After(x, e) = HandedOff(x)
    BY DEF After
  <2>4. QED
    BY <1>1, <1>2, <2>1, <2>2, <2>3, HandoffIsShown
<1>8. QED
  BY <1>1, <1>3, <1>4, <1>5, <1>6, <1>7 DEF RowChange

\* A note leaves what the trail shows as it is.
LEMMA NoteExplainsNothing ==
  ASSUME NEW r \in Row, NEW ch \in NoteChange, NEW l \in Seq(Event), NEW x, Explains(l, x)
  PROVE  Explains(l \o Events(r, ch), x)
<1> DEFINE e == Supplied(ch.item)
<1>1. e \in Event /\ Events(r, ch) = << e >>
  BY DEF NoteChange, Events, Supplied, Event
<1>2. After(x, e) = x
  BY DEF After, Supplied
<1>3. QED
  BY <1>1, <1>2, OneMoreEvent
===============================================================================
