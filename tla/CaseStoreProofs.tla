---------------------------- MODULE CaseStoreProofs ----------------------------
(***************************************************************************)
(* Proofs that the sessions of CaseStore are linearizable: for any number of *)
(* sessions and cases, every step of theirs is one step of VersionedCase or  *)
(* none, and so the promises proved of VersionedCase hold of the races.      *)
(***************************************************************************)
EXTENDS CaseStore, CaseRecordProofs, SequenceTheorems, TLAPS

-------------------------------------------------------------------------------
(* What a session may rely on.  What it read may be stale, but a version      *)
(* names one state of the row, and the write lock freezes the database.       *)

OpeningIsSound(s) ==
    /\ pc[s] \in {"inserting", "inserted"} => call[s] \in OpenCall
    /\ pc[s] = "inserted" => /\ writer = s
                             /\ HasKey(call[s].key) = {}
                             /\ cases[call[s].case] = None

CallIsSound(s) ==
    pc[s] \in {"running", "called", "checked", "sequenced", "flushed"} =>
        /\ call[s] \in ChangeCall
        /\ cases[call[s].case] # None
        /\ call[s].expected <= cases[call[s].case].version

\* The version that was invited has not been changed unless it is past.
InvitationStands(s) ==
    pc[s] \in {"running", "called"} /\ call[s].expected = cases[call[s].case].version =>
        Invited(cases[call[s].case], call[s].change)

RowIsSound(s) ==
    pc[s] \in {"checked", "sequenced", "flushed"} =>
        /\ row[s] \in Row
        /\ row[s].version <= cases[call[s].case].version
        /\ row[s].version = cases[call[s].case].version => row[s] = cases[call[s].case]
        /\ Legal(row[s], call[s].change)
        /\ Invited(row[s], call[s].change)

SequenceIsSound(s) ==
    /\ pc[s] = "sequenced" => next[s] \in 1..NextSequence(call[s].case)
    /\ pc[s] = "flushed" => writer = s /\ next[s] = NextSequence(call[s].case)

Sound(s) == /\ OpeningIsSound(s)
            /\ CallIsSound(s)
            /\ InvitationStands(s)
            /\ RowIsSound(s)
            /\ SequenceIsSound(s)

\* A case that is not there has no events.
NothingBeforeOpening == \A c \in CaseId : cases[c] = None => log[c] = << >>

Inv == /\ TypeOK
       /\ NothingBeforeOpening
       /\ \A s \in Session : Sound(s)

-------------------------------------------------------------------------------
(* Facts about single steps. *)

\* Appending at the end of the log is what an INSERT there does.
LEMMA InsertAppends ==
  ASSUME NEW l \in Seq(Event), NEW b \in Seq(Event)
  PROVE  Inserted(l, Len(l) + 1, b) = l \o b
<1>1. DOMAIN l = 1..Len(l) /\ Len(l) \in Nat /\ Len(b) \in Nat
  OBVIOUS
<1>2. (DOMAIN l) \cup (Len(l) + 1)..(Len(l) + 1 + Len(b) - 1) = 1..(Len(l) + Len(b))
  BY <1>1
<1>3. \A i \in 1..(Len(l) + Len(b)) :
         (l \o b)[i] = IF i \in DOMAIN l THEN l[i] ELSE b[i - (Len(l) + 1) + 1]
  BY <1>1
<1>4. l \o b = [i \in 1..(Len(l) + Len(b)) |-> (l \o b)[i]]
  <2>1. l \o b \in Seq(Event) /\ Len(l \o b) = Len(l) + Len(b)
    OBVIOUS
  <2>2. l \o b \in [1..(Len(l) + Len(b)) -> Event]
    BY <2>1, LenProperties, Zenon
  <2>3. QED
    BY <2>2, Zenon
<1>5. QED
  BY <1>2, <1>3, <1>4 DEF Inserted

\* The database as the other sessions see it: versions count the changes of a
\* row, and events are appended.
Grows ==
    \A c \in CaseId :
        /\ cases[c] # None =>
              /\ cases'[c] # None
              /\ cases'[c] = cases[c] \/ cases'[c].version > cases[c].version
        /\ Len(log'[c]) >= Len(log[c])

\* A session that holds the lock sees no change, and another is not misled.
LEMMA OthersStaySound ==
  ASSUME NEW s \in Session, TypeOK, TypeOK', Sound(s), Grows,
         pc'[s] = pc[s], call'[s] = call[s], row'[s] = row[s], next'[s] = next[s],
         writer = s => writer' = s /\ UNCHANGED db
  PROVE  Sound(s)'
<1> DEFINE c == call[s].case
<1>1. OpeningIsSound(s)'
  BY DEF Sound, OpeningIsSound, HasKey, db
<1>2. CASE pc[s] \in {"running", "called", "checked", "sequenced", "flushed"}
  <2>1. c \in CaseId /\ call[s].expected \in Nat /\ cases[c] \in Row /\ cases'[c] \in Row
    <3>1. call[s] \in ChangeCall /\ cases[c] # None
      BY <1>2 DEF Sound, CallIsSound
    <3>2. c \in CaseId /\ call[s].expected \in Nat
      BY <3>1 DEF ChangeCall
    <3>3. QED
      BY <3>1, <3>2 DEF TypeOK, Grows
  <2>2. cases'[c] = cases[c] \/ cases'[c].version > cases[c].version
    BY <1>2, <2>1 DEF Grows, Sound, CallIsSound
  <2>3. cases[c].version \in Nat /\ cases'[c].version \in Nat
    BY <2>1 DEF Row
  <2>4. CallIsSound(s)'
    BY <1>2, <2>1, <2>2, <2>3, NoneAssumption DEF Sound, CallIsSound
  <2>5. InvitationStands(s)'
    BY <1>2, <2>1, <2>2, <2>3 DEF Sound, CallIsSound, InvitationStands
  <2>6. RowIsSound(s)'
    <3> SUFFICES ASSUME pc[s] \in {"checked", "sequenced", "flushed"}
                 PROVE  RowIsSound(s)'
      BY DEF RowIsSound
    <3>1. row[s] \in Row /\ row[s].version \in Nat
      BY DEF Sound, RowIsSound, Row
    <3>2. QED
      BY <2>1, <2>2, <2>3, <3>1 DEF Sound, RowIsSound
  <2>7. SequenceIsSound(s)'
    <3>1. Len(log[c]) \in Nat /\ Len(log'[c]) \in Nat /\ Len(log'[c]) >= Len(log[c])
      BY <2>1 DEF TypeOK, Grows
    <3>2. QED
      BY <3>1 DEF Sound, SequenceIsSound, NextSequence, db
  <2>8. QED
    BY <1>1, <2>4, <2>5, <2>6, <2>7 DEF Sound
<1>3. CASE pc[s] \notin {"running", "called", "checked", "sequenced", "flushed"}
  <2>1. /\ CallIsSound(s)' /\ InvitationStands(s)' /\ RowIsSound(s)'
        /\ SequenceIsSound(s)'
    BY <1>3 DEF CallIsSound, InvitationStands, RowIsSound, SequenceIsSound
  <2>2. QED
    BY <1>1, <2>1 DEF Sound
<1>4. QED
  BY <1>2, <1>3

-------------------------------------------------------------------------------
(* The three ways in which a step of a session preserves the invariant. *)

\* It changes no row and no log, and stays sound itself.
LEMMA QuietStep ==
  ASSUME NEW s \in Session, Inv, TypeOK', UNCHANGED db, Sound(s)',
         \A t \in Session \ {s} :
             /\ pc'[t] = pc[t] /\ call'[t] = call[t]
             /\ row'[t] = row[t] /\ next'[t] = next[t]
             /\ writer = t => writer' = t
  PROVE  Inv'
<1>1. Grows
  <2>1. \A c \in CaseId : Len(log[c]) \in Nat
    BY DEF Inv, TypeOK
  <2>2. QED
    BY <2>1 DEF Grows, db
<1>2. ASSUME NEW t \in Session \ {s} PROVE Sound(t)'
  BY <1>1, <1>2, OthersStaySound DEF Inv
<1>3. NothingBeforeOpening'
  BY DEF Inv, NothingBeforeOpening, db
<1>4. QED
  BY <1>2, <1>3 DEF Inv

\* It answers a caller without having changed the database.
LEMMA QuietAnswer ==
  ASSUME NEW s \in Session, NEW r \in Reply \cup {None}, Inv, Return(s, r),
         UNCHANGED db, (writer' = writer) \/ (writer = s /\ writer' = None)
  PROVE  Inv'
<1>1. TypeOK'
  BY DEF Inv, TypeOK, Return, db
<1>2. Sound(s)'
  <2>1. pc'[s] = "idle"
    BY DEF Inv, TypeOK, Return
  <2>2. QED
    BY <2>1 DEF Sound, OpeningIsSound, CallIsSound, InvitationStands, RowIsSound, SequenceIsSound
<1>3. ASSUME NEW t \in Session \ {s}
      PROVE  /\ pc'[t] = pc[t] /\ call'[t] = call[t]
             /\ row'[t] = row[t] /\ next'[t] = next[t]
             /\ writer = t => writer' = t
  BY DEF Inv, TypeOK, Return
<1>4. QED
  BY <1>1, <1>2, <1>3, QuietStep

\* It commits, and answers.
LEMMA CommitStep ==
  ASSUME NEW s \in Session, Inv, Return(s, Ok), writer = s, writer' = None,
         Grows, NothingBeforeOpening',
         cases' \in [CaseId -> Row \cup {None}], log' \in [CaseId -> Seq(Event)]
  PROVE  Inv'
<1>1. TypeOK'
  BY DEF Inv, TypeOK, Return, Reply, Ok
<1>2. Sound(s)'
  <2>1. pc'[s] = "idle"
    BY DEF Inv, TypeOK, Return
  <2>2. QED
    BY <2>1 DEF Sound, OpeningIsSound, CallIsSound, InvitationStands, RowIsSound, SequenceIsSound
<1>3. ASSUME NEW t \in Session \ {s} PROVE Sound(t)'
  <2>1. /\ pc'[t] = pc[t] /\ call'[t] = call[t]
        /\ row'[t] = row[t] /\ next'[t] = next[t]
    BY DEF Inv, TypeOK, Return
  <2>2. QED
    BY <1>1, <2>1, OthersStaySound DEF Inv
<1>4. QED
  BY <1>1, <1>2, <1>3 DEF Inv

-------------------------------------------------------------------------------
(* Every action preserves the invariant. *)

\* The answers are replies.
LEMMA Replies ==
  /\ Ok \in Reply /\ Stored \in Reply /\ Refused \in Reply /\ Error \in Reply
  /\ \A c \in CaseId, v, e \in Nat, a \in Nat \cup {-1} : Conflict(c, v, e, a) \in Reply
<1>1. Ok \in Reply /\ Stored \in Reply /\ Refused \in Reply /\ Error \in Reply
  BY DEF Reply, Ok, Stored, Refused, Error
<1>2. ASSUME NEW c \in CaseId, NEW v \in Nat, NEW e \in Nat, NEW a \in Nat \cup {-1}
      PROVE  Conflict(c, v, e, a) \in Reply
  BY DEF Reply, Conflict
<1>3. QED
  BY <1>1, <1>2

LEMMA OpeningActions ==
  ASSUME NEW s \in Session, Inv, RequestOpen(s) \/ InsertCase(s)
  PROVE  Inv'
<1>1. CASE RequestOpen(s)
  <2>1. PICK o \in OpenCall :
          \/ Return(s, Stored)
          \/ Return(s, Refused)
          \/ /\ Goto(s, "inserting")
             /\ call' = [call EXCEPT ![s] = o]
             /\ UNCHANGED << row, next >>
    BY <1>1 DEF RequestOpen
  <2>2. UNCHANGED db /\ UNCHANGED writer /\ o.case \in CaseId
    BY <1>1 DEF RequestOpen, OpenCall
  <2>3. CASE Return(s, Stored)
    BY <2>2, <2>3, Replies, QuietAnswer
  <2>4. CASE Return(s, Refused)
    BY <2>2, <2>4, Replies, QuietAnswer
  <2>5. CASE Goto(s, "inserting") /\ call' = [call EXCEPT ![s] = o] /\ UNCHANGED << row, next >>
    <3>1. TypeOK'
      BY <2>2, <2>5 DEF Inv, TypeOK, Goto, db
    <3>2. Sound(s)'
      BY <2>2, <2>5 DEF Inv, TypeOK, Goto, Sound, OpeningIsSound, CallIsSound,
                        InvitationStands, RowIsSound, SequenceIsSound
    <3>3. QED
      BY <2>2, <2>5, <3>1, <3>2, QuietStep DEF Inv, TypeOK, Goto
  <2>6. QED
    BY <2>1, <2>3, <2>4, <2>5
<1>2. CASE InsertCase(s)
  <2> DEFINE o == call[s]
  <2>1. UNCHANGED db /\ o \in OpenCall /\ o.case \in CaseId
    BY <1>2 DEF InsertCase, Inv, Sound, OpeningIsSound, OpenCall
  <2>2. CASE Return(s, Stored) /\ UNCHANGED writer
    BY <2>1, <2>2, Replies, QuietAnswer
  <2>3. CASE Return(s, Error) /\ UNCHANGED writer
    BY <2>1, <2>3, Replies, QuietAnswer
  <2>4. CASE /\ writer = None /\ HasKey(o.key) = {} /\ cases[o.case] = None
             /\ writer' = s /\ Goto(s, "inserted") /\ UNCHANGED << call, row, next >>
    <3>1. TypeOK'
      BY <2>1, <2>4 DEF Inv, TypeOK, Goto, db
    <3>2. Sound(s)'
      BY <2>1, <2>4 DEF Inv, TypeOK, Goto, Sound, OpeningIsSound, CallIsSound, HasKey, db,
                        InvitationStands, RowIsSound, SequenceIsSound
    <3>3. ASSUME NEW t \in Session \ {s}
          PROVE  /\ pc'[t] = pc[t] /\ call'[t] = call[t]
                 /\ row'[t] = row[t] /\ next'[t] = next[t]
                 /\ writer = t => writer' = t
      BY <2>4, NoneIsNoSession DEF Inv, TypeOK, Goto
    <3>4. QED
      BY <2>1, <3>1, <3>2, <3>3, QuietStep
  <2>5. QED
    BY <1>2, <2>2, <2>3, <2>4 DEF InsertCase
<1>3. QED
  BY <1>1, <1>2

LEMMA CommitCaseAction ==
  ASSUME NEW s \in Session, Inv, CommitCase(s)
  PROVE  Inv'
<1> DEFINE o == call[s]
<1>1. /\ o \in OpenCall /\ writer = s /\ cases[o.case] = None
      /\ o.case \in CaseId
  BY DEF CommitCase, Inv, Sound, OpeningIsSound, OpenCall
<1>2. /\ NewRow(o.key, o.status, o.verdict) \in Row
      /\ OpeningEvents(o.key, o.status, o.verdict) \in Seq(Event)
  BY <1>1, OpeningType DEF OpenCall
<1>3. /\ cases' \in [CaseId -> Row \cup {None}]
      /\ log' \in [CaseId -> Seq(Event)]
  BY <1>2 DEF CommitCase, Inv, TypeOK
<1>4. Grows /\ NothingBeforeOpening'
  <2>1. \A c \in CaseId \ {o.case} : cases'[c] = cases[c] /\ log'[c] = log[c] /\ Len(log[c]) \in Nat
    BY DEF CommitCase, Inv, TypeOK
  <2>2. cases'[o.case] \in Row
    BY <1>1, <1>2 DEF CommitCase, Inv, TypeOK
  <2>3. Len(log[o.case]) = 0 /\ Len(log'[o.case]) \in Nat
    BY <1>1, <1>3 DEF Inv, NothingBeforeOpening
  <2>4. QED
    BY <1>1, <2>1, <2>2, <2>3, NoneAssumption DEF Grows, Inv, NothingBeforeOpening
<1>5. QED
  BY <1>1, <1>3, <1>4, CommitStep DEF CommitCase

LEMMA RequestChangeAction ==
  ASSUME NEW s \in Session, Inv, RequestChange(s)
  PROVE  Inv'
<1>1. PICK c \in CaseId, ch \in Change :
        /\ cases[c] # None
        /\ \E e \in 1..cases[c].version :
            \/ Return(s, IF ch.op = "handoff" /\ cases[c].handedOff THEN Stored ELSE Refused)
            \/ Return(s, Conflict(c, e, e, cases[c].version))
            \/ /\ Invited(cases[c], ch)
               /\ Goto(s, IF ch.op \in {"progress", "handoff"} THEN "running" ELSE "called")
               /\ call' = [call EXCEPT ![s] = [op |-> "change", case |-> c,
                                               expected |-> e, change |-> ch]]
               /\ UNCHANGED << row, next >>
  BY DEF RequestChange
<1>2. PICK e \in 1..cases[c].version :
            \/ Return(s, IF ch.op = "handoff" /\ cases[c].handedOff THEN Stored ELSE Refused)
            \/ Return(s, Conflict(c, e, e, cases[c].version))
            \/ /\ Invited(cases[c], ch)
               /\ Goto(s, IF ch.op \in {"progress", "handoff"} THEN "running" ELSE "called")
               /\ call' = [call EXCEPT ![s] = [op |-> "change", case |-> c,
                                               expected |-> e, change |-> ch]]
               /\ UNCHANGED << row, next >>
  BY <1>1
<1>3. UNCHANGED db /\ UNCHANGED writer
  BY DEF RequestChange
<1>4. cases[c].version \in Nat \ {0} /\ e \in Nat \ {0} /\ e <= cases[c].version
  BY <1>1 DEF Inv, TypeOK, Row
<1>5. CASE Return(s, IF ch.op = "handoff" /\ cases[c].handedOff THEN Stored ELSE Refused)
  <2>1. (IF ch.op = "handoff" /\ cases[c].handedOff THEN Stored ELSE Refused) \in Reply
    BY Replies
  <2>2. PICK r \in Reply : Return(s, r)
    BY <1>5, <2>1
  <2>3. QED
    BY <1>3, <2>2, QuietAnswer
<1>6. CASE Return(s, Conflict(c, e, e, cases[c].version))
  <2>1. Conflict(c, e, e, cases[c].version) \in Reply
    BY <1>4, Replies
  <2>2. QED
    BY <1>3, <1>6, <2>1, QuietAnswer
<1>7. CASE /\ Invited(cases[c], ch)
           /\ Goto(s, IF ch.op \in {"progress", "handoff"} THEN "running" ELSE "called")
           /\ call' = [call EXCEPT ![s] = [op |-> "change", case |-> c,
                                           expected |-> e, change |-> ch]]
           /\ UNCHANGED << row, next >>
  <2> DEFINE new == [op |-> "change", case |-> c, expected |-> e, change |-> ch]
  <2>1. PICK l \in {"running", "called"} : Goto(s, l)
    BY <1>7
  <2>2. /\ new \in ChangeCall /\ new.case = c /\ new.expected = e /\ new.change = ch
        /\ call'[s] = new /\ call' = [call EXCEPT ![s] = new]
    BY <1>4, <1>7 DEF ChangeCall, Inv, TypeOK
  <2> HIDE DEF new
  <2>3. TypeOK'
    BY <1>3, <1>7, <2>1, <2>2 DEF Inv, TypeOK, Goto, db
  <2>4. pc'[s] = l
    BY <2>1 DEF Inv, TypeOK, Goto
  <2>5. Sound(s)'
    <3>1. UNCHANGED << cases, log >>
      BY <1>3 DEF db
    <3>2. OpeningIsSound(s)' /\ RowIsSound(s)' /\ SequenceIsSound(s)'
      BY <2>4 DEF OpeningIsSound, RowIsSound, SequenceIsSound
    <3>3. CallIsSound(s)' /\ InvitationStands(s)'
      BY <1>1, <1>4, <1>7, <2>2, <3>1 DEF CallIsSound, InvitationStands
    <3>4. QED
      BY <3>2, <3>3 DEF Sound
  <2>6. ASSUME NEW t \in Session \ {s}
        PROVE  /\ pc'[t] = pc[t] /\ call'[t] = call[t]
               /\ row'[t] = row[t] /\ next'[t] = next[t]
               /\ writer = t => writer' = t
    BY <1>3, <1>7, <2>1, <2>2 DEF Inv, TypeOK, Goto
  <2>7. QED
    BY <1>3, <2>3, <2>5, <2>6, QuietStep
<1>8. QED
  BY <1>2, <1>5, <1>6, <1>7

\* The call of a session that is changing a case.
LEMMA ChangingSession ==
  ASSUME NEW s \in Session, Inv,
         pc[s] \in {"running", "called", "checked", "sequenced", "flushed"}
  PROVE  /\ call[s] \in ChangeCall
         /\ call[s].case \in CaseId /\ call[s].change \in Change
         /\ call[s].expected \in Nat \ {0}
         /\ cases[call[s].case] \in Row /\ log[call[s].case] \in Seq(Event)
         /\ call[s].expected <= cases[call[s].case].version
         /\ cases[call[s].case].version \in Nat \ {0}
<1>1. /\ call[s] \in ChangeCall /\ cases[call[s].case] # None
      /\ call[s].expected <= cases[call[s].case].version
  BY DEF Inv, Sound, CallIsSound
<1>2. /\ call[s].case \in CaseId /\ call[s].change \in Change
      /\ call[s].expected \in Nat \ {0}
  BY <1>1 DEF ChangeCall
<1>3. cases[call[s].case] \in Row /\ log[call[s].case] \in Seq(Event)
  BY <1>1, <1>2 DEF Inv, TypeOK
<1>4. QED
  BY <1>1, <1>2, <1>3 DEF Row

LEMMA ReadingActions ==
  ASSUME NEW s \in Session, Inv, Answer(s) \/ Check(s) \/ ReadSequence(s)
  PROVE  Inv'
<1> DEFINE c == call[s].case
<1>1. CASE Answer(s)
  <2>1. pc[s] = "running" /\ Goto(s, "called") /\ UNCHANGED << cases, log, writer, call, row, next >>
    BY <1>1 DEF Answer, db
  <2>2. TypeOK'
    BY <2>1 DEF Inv, TypeOK, Goto
  <2>3. Sound(s)'
    <3>1. pc'[s] = "called"
      BY <2>1 DEF Inv, TypeOK, Goto
    <3>2. QED
      BY <2>1, <3>1 DEF Inv, Sound, OpeningIsSound, CallIsSound,
                        InvitationStands, RowIsSound, SequenceIsSound
  <2>4. ASSUME NEW t \in Session \ {s}
        PROVE  /\ pc'[t] = pc[t] /\ call'[t] = call[t]
               /\ row'[t] = row[t] /\ next'[t] = next[t]
               /\ writer = t => writer' = t
    BY <2>1 DEF Inv, TypeOK, Goto
  <2>5. UNCHANGED db
    BY <2>1 DEF db
  <2>6. QED
    BY <2>2, <2>3, <2>4, <2>5, QuietStep
<1>2. CASE Check(s)
  <2>1. pc[s] = "called" /\ UNCHANGED << cases, log, writer >> /\ UNCHANGED db
    BY <1>2 DEF Check, db
  <2>2. CASE Return(s, Conflict(c, call[s].expected, call[s].expected, cases[c].version))
    <3>1. Conflict(c, call[s].expected, call[s].expected, cases[c].version) \in Reply
      BY <2>1, ChangingSession, Replies
    <3>2. QED
      BY <2>1, <2>2, <3>1, QuietAnswer
  <2>3. CASE Return(s, Refused)
    BY <2>1, <2>3, Replies, QuietAnswer
  <2>4. CASE /\ cases[c].version = call[s].expected
             /\ Legal(cases[c], call[s].change)
             /\ row' = [row EXCEPT ![s] = cases[c]]
             /\ Goto(s, "checked")
             /\ UNCHANGED << call, next >>
    <3>1. TypeOK'
      BY <2>1, <2>4, ChangingSession DEF Inv, TypeOK, Goto
    <3>2. Sound(s)'
      <4>1. pc'[s] = "checked" /\ row'[s] = cases[c]
        BY <2>1, <2>4 DEF Inv, TypeOK, Goto
      <4>2. Invited(cases[c], call[s].change)
        BY <2>1, <2>4 DEF Inv, Sound, InvitationStands
      <4>3. OpeningIsSound(s)' /\ InvitationStands(s)' /\ SequenceIsSound(s)'
        BY <4>1 DEF OpeningIsSound, InvitationStands, SequenceIsSound
      <4>4. CallIsSound(s)'
        BY <2>1, <2>4 DEF Inv, Sound, CallIsSound
      <4>5. RowIsSound(s)'
        BY <2>1, <2>4, <4>1, <4>2, ChangingSession DEF RowIsSound
      <4>6. QED
        BY <4>3, <4>4, <4>5 DEF Sound
    <3>3. ASSUME NEW t \in Session \ {s}
          PROVE  /\ pc'[t] = pc[t] /\ call'[t] = call[t]
                 /\ row'[t] = row[t] /\ next'[t] = next[t]
                 /\ writer = t => writer' = t
      BY <2>1, <2>4 DEF Inv, TypeOK, Goto
    <3>4. QED
      BY <2>1, <3>1, <3>2, <3>3, QuietStep
  <2>5. QED
    BY <1>2, <2>2, <2>3, <2>4 DEF Check, VersionMatches
<1>3. CASE ReadSequence(s)
  <2>1. /\ pc[s] = "checked" /\ next' = [next EXCEPT ![s] = NextSequence(c)]
        /\ Goto(s, "sequenced") /\ UNCHANGED << cases, log, writer, call, row >>
    BY <1>3 DEF ReadSequence, db
  <2>2. NextSequence(c) \in Nat /\ NextSequence(c) \in 1..NextSequence(c)
    BY <2>1, ChangingSession DEF NextSequence
  <2>3. TypeOK'
    BY <2>1, <2>2 DEF Inv, TypeOK, Goto
  <2>4. pc'[s] = "sequenced" /\ next'[s] = NextSequence(c)
    BY <2>1 DEF Inv, TypeOK, Goto
  <2>5. Sound(s)'
    <3>1. OpeningIsSound(s)' /\ InvitationStands(s)'
      BY <2>4 DEF OpeningIsSound, InvitationStands
    <3>2. CallIsSound(s)' /\ RowIsSound(s)'
      BY <2>1 DEF Inv, Sound, CallIsSound, RowIsSound
    <3>3. SequenceIsSound(s)'
      BY <2>1, <2>2, <2>4 DEF SequenceIsSound, NextSequence
    <3>4. QED
      BY <3>1, <3>2, <3>3 DEF Sound
  <2>6. ASSUME NEW t \in Session \ {s}
        PROVE  /\ pc'[t] = pc[t] /\ call'[t] = call[t]
               /\ row'[t] = row[t] /\ next'[t] = next[t]
               /\ writer = t => writer' = t
    BY <2>1 DEF Inv, TypeOK, Goto
  <2>7. UNCHANGED db
    BY <2>1 DEF db
  <2>8. QED
    BY <2>3, <2>5, <2>6, <2>7, QuietStep
<1>4. QED
  BY <1>1, <1>2, <1>3

\* The sequence number read outside the transaction is the next one again once
\* the constraint has accepted it.
LEMMA FlushAction ==
  ASSUME NEW s \in Session, Inv, Flush(s)
  PROVE  Inv'
<1> DEFINE c == call[s].case
<1>1. pc[s] = "sequenced" /\ writer = None /\ UNCHANGED << cases, log >> /\ UNCHANGED db
  BY DEF Flush, db
<1>2. CASE Return(s, Error) /\ UNCHANGED writer
  BY <1>1, <1>2, Replies, QuietAnswer
<1>3. CASE /\ ~SequenceTaken(s) /\ writer' = s /\ Goto(s, "flushed")
           /\ UNCHANGED << call, row, next >>
  <2>1. log[c] \in Seq(Event) /\ next[s] \in 1..NextSequence(c)
    BY <1>1, ChangingSession DEF Inv, Sound, SequenceIsSound
  <2>2. next[s] = NextSequence(c)
    BY <1>3, <2>1 DEF SequenceTaken, NextSequence
  <2>3. TypeOK'
    BY <1>1, <1>3 DEF Inv, TypeOK, Goto
  <2>4. pc'[s] = "flushed"
    BY <1>3 DEF Inv, TypeOK, Goto
  <2>5. Sound(s)'
    <3>1. OpeningIsSound(s)' /\ InvitationStands(s)'
      BY <2>4 DEF OpeningIsSound, InvitationStands
    <3>2. CallIsSound(s)' /\ RowIsSound(s)'
      BY <1>1, <1>3 DEF Inv, Sound, CallIsSound, RowIsSound
    <3>3. SequenceIsSound(s)'
      BY <1>1, <1>3, <2>2, <2>4 DEF SequenceIsSound, NextSequence
    <3>4. QED
      BY <3>1, <3>2, <3>3 DEF Sound
  <2>6. ASSUME NEW t \in Session \ {s}
        PROVE  /\ pc'[t] = pc[t] /\ call'[t] = call[t]
               /\ row'[t] = row[t] /\ next'[t] = next[t]
               /\ writer = t => writer' = t
    BY <1>1, <1>3, NoneIsNoSession DEF Inv, TypeOK, Goto
  <2>7. QED
    BY <1>1, <2>3, <2>5, <2>6, QuietStep
<1>4. QED
  BY <1>2, <1>3 DEF Flush

\* What a session that commits does to the database: the selected row is still
\* the current one and its events go to the end.
LEMMA CommitEffect ==
  ASSUME NEW s \in Session, Inv, BumpAndCommit(s)
  PROVE  LET c == call[s].case
             ch == call[s].change IN
         /\ c \in CaseId /\ ch \in RowChange /\ cases[c] \in Row
         /\ Legal(cases[c], ch) /\ Invited(cases[c], ch)
         /\ cases' = [cases EXCEPT ![c] = Bumped(cases[c], ch)]
         /\ log' = [log EXCEPT ![c] = log[c] \o Events(cases[c], ch)]
         /\ writer = s /\ writer' = None /\ Return(s, Ok)
<1> DEFINE c == call[s].case
           ch == call[s].change
<1>1. /\ pc[s] = "flushed" /\ ch.op # "note"
      /\ cases[c].version = row[s].version
      /\ cases' = [cases EXCEPT ![c] = Bumped(row[s], ch)]
      /\ log' = [log EXCEPT ![c] = Inserted(log[c], next[s], Events(row[s], ch))]
      /\ writer' = None /\ Return(s, Ok)
  BY DEF BumpAndCommit, VersionStillSelected
<1>2. c \in CaseId /\ ch \in Change /\ cases[c] \in Row /\ log[c] \in Seq(Event)
  BY <1>1, ChangingSession
<1>3. ch \in RowChange
  BY <1>1, <1>2 DEF Change, NoteChange
<1>4. /\ row[s] = cases[c] /\ Legal(row[s], ch) /\ Invited(row[s], ch)
      /\ writer = s /\ next[s] = Len(log[c]) + 1
  BY <1>1 DEF Inv, Sound, RowIsSound, SequenceIsSound, NextSequence
<1>5. Inserted(log[c], next[s], Events(row[s], ch)) = log[c] \o Events(cases[c], ch)
  BY <1>2, <1>4, EventsFit, InsertAppends
<1>6. QED
  BY <1>1, <1>2, <1>3, <1>4, <1>5

LEMMA NoteEffect ==
  ASSUME NEW s \in Session, Inv, CommitNote(s)
  PROVE  LET c == call[s].case
             ch == call[s].change IN
         /\ c \in CaseId /\ ch \in NoteChange /\ cases[c] \in Row
         /\ cases' = cases
         /\ log' = [log EXCEPT ![c] = log[c] \o Events(cases[c], ch)]
         /\ writer = s /\ writer' = None /\ Return(s, Ok)
<1> DEFINE c == call[s].case
           ch == call[s].change
<1>1. /\ pc[s] = "flushed" /\ ch.op = "note"
      /\ log' = [log EXCEPT ![c] = Inserted(log[c], next[s], Events(row[s], ch))]
      /\ writer' = None /\ Return(s, Ok) /\ cases' = cases
  BY DEF CommitNote
<1>2. c \in CaseId /\ ch \in Change /\ cases[c] \in Row /\ log[c] \in Seq(Event)
  BY <1>1, ChangingSession
<1>3. ch \in NoteChange
  BY <1>1, <1>2 DEF Change, RowChange, ProgressChange, ClaimChange, ReleaseChange,
                    ResolveChange, HandoffChange
<1>4. writer = s /\ next[s] = Len(log[c]) + 1 /\ row[s] \in Row
  BY <1>1 DEF Inv, Sound, SequenceIsSound, RowIsSound, NextSequence
<1>5. Events(row[s], ch) = Events(cases[c], ch)
  BY <1>3 DEF NoteChange, Events
<1>6. Inserted(log[c], next[s], Events(row[s], ch)) = log[c] \o Events(cases[c], ch)
  BY <1>2, <1>4, <1>5, EventsFit, InsertAppends
<1>7. QED
  BY <1>1, <1>2, <1>3, <1>4, <1>6

LEMMA CommittingActions ==
  ASSUME NEW s \in Session, Inv, BumpAndCommit(s) \/ CommitNote(s)
  PROVE  Inv'
<1> DEFINE c == call[s].case
           ch == call[s].change
<1>1. /\ c \in CaseId /\ ch \in Change /\ cases[c] \in Row
      /\ (cases' = cases) \/ (/\ ch \in RowChange
                              /\ cases' = [cases EXCEPT ![c] = Bumped(cases[c], ch)])
      /\ log' = [log EXCEPT ![c] = log[c] \o Events(cases[c], ch)]
      /\ writer = s /\ writer' = None /\ Return(s, Ok)
  <2>1. CASE BumpAndCommit(s)
    BY <2>1, CommitEffect DEF Change
  <2>2. CASE CommitNote(s)
    BY <2>2, NoteEffect DEF Change
  <2>3. QED
    BY <2>1, <2>2
<1>2. log[c] \in Seq(Event) /\ Events(cases[c], ch) \in Seq(Event)
  BY <1>1, EventsFit DEF Inv, TypeOK
<1>3. /\ log[c] \o Events(cases[c], ch) \in Seq(Event)
      /\ Len(log[c] \o Events(cases[c], ch)) >= Len(log[c])
  BY <1>2, Joined, Zenon
<1>4. ch \in RowChange => /\ Bumped(cases[c], ch) \in Row
                          /\ Bumped(cases[c], ch).version > cases[c].version
  BY <1>1, BumpedIs DEF Row
<1>5. cases' \in [CaseId -> Row \cup {None}] /\ log' \in [CaseId -> Seq(Event)]
  BY <1>1, <1>3, <1>4 DEF Inv, TypeOK
<1>6. Grows
  <2> SUFFICES ASSUME NEW d \in CaseId
               PROVE  /\ cases[d] # None =>
                            /\ cases'[d] # None
                            /\ cases'[d] = cases[d] \/ cases'[d].version > cases[d].version
                      /\ Len(log'[d]) >= Len(log[d])
    BY DEF Grows
  <2>1. CASE d = c
    BY <1>1, <1>3, <1>4, <2>1, NoneAssumption DEF Inv, TypeOK
  <2>2. CASE d # c
    <3>1. cases'[d] = cases[d] /\ log'[d] = log[d] /\ Len(log[d]) \in Nat
      BY <1>1, <2>2 DEF Inv, TypeOK
    <3>2. QED
      BY <3>1
  <2>3. QED
    BY <2>1, <2>2
<1>7. NothingBeforeOpening'
  BY <1>1, <1>4, NoneAssumption DEF Inv, TypeOK, NothingBeforeOpening
<1>8. QED
  BY <1>1, <1>5, <1>6, <1>7, CommitStep

LEMMA FailingActions ==
  ASSUME NEW s \in Session, Inv, BumpFails(s) \/ LockTimeout(s) \/ Crash(s)
  PROVE  Inv'
<1>1. CASE BumpFails(s)
  <2>1. /\ pc[s] = "flushed" /\ UNCHANGED db /\ writer' = None
        /\ Return(s, Conflict(call[s].case, call[s].expected,
                              cases[call[s].case].version, -1))
    BY <1>1 DEF BumpFails, Rollback
  <2>2. writer = s
    BY <2>1 DEF Inv, Sound, SequenceIsSound
  <2>3. Conflict(call[s].case, call[s].expected, cases[call[s].case].version, -1) \in Reply
    BY <2>1, ChangingSession, Replies
  <2>4. QED
    BY <2>1, <2>2, <2>3, QuietAnswer
<1>2. CASE LockTimeout(s)
  BY <1>2, Replies, QuietAnswer DEF LockTimeout
<1>3. CASE Crash(s)
  <2>1. UNCHANGED db /\ Return(s, None) /\ writer' = IF writer = s THEN None ELSE writer
    BY <1>3 DEF Crash
  <2>2. None \in Reply \cup {None}
    OBVIOUS
  <2>3. QED
    BY <2>1, <2>2, QuietAnswer
<1>4. QED
  BY <1>1, <1>2, <1>3

\* The invariant holds throughout.
THEOREM Invariant == Spec => []Inv
<1>1. Init => Inv
  <2> SUFFICES ASSUME Init PROVE Inv
    OBVIOUS
  <2>1. TypeOK /\ NothingBeforeOpening
    BY DEF Init, TypeOK, NothingBeforeOpening
  <2>2. ASSUME NEW s \in Session PROVE Sound(s)
    BY DEF Init, Sound, OpeningIsSound, CallIsSound, InvitationStands, RowIsSound,
           SequenceIsSound
  <2>3. QED
    BY <2>1, <2>2 DEF Inv
<1>2. Inv /\ [Next]_vars => Inv'
  <2> SUFFICES ASSUME Inv, [Next]_vars PROVE Inv'
    OBVIOUS
  <2>1. ASSUME NEW s \in Session,
               RequestOpen(s) \/ RequestChange(s) \/ Step(s) \/ Crash(s)
        PROVE  Inv'
    BY <2>1, OpeningActions, CommitCaseAction, RequestChangeAction, ReadingActions,
       FlushAction, CommittingActions, FailingActions DEF Step
  <2>2. CASE UNCHANGED vars
    BY <2>2 DEF vars, Inv, TypeOK, NothingBeforeOpening, Sound, OpeningIsSound, HasKey,
                CallIsSound, InvitationStands, RowIsSound, SequenceIsSound, NextSequence
  <2>3. QED
    BY <2>1, <2>2 DEF Next
<1>3. QED
  BY <1>1, <1>2, PTL DEF Spec

\* Every variable keeps its type.
THEOREM TypeCorrect == Spec => []TypeOK
BY Invariant, PTL DEF Inv

-------------------------------------------------------------------------------
(* Refinement: a commit is one step of the abstract store, and every other    *)
(* step is none.  The instance has its own copies of the operators of         *)
(* CaseRecord; they are the same.                                             *)

LEMMA AtomicOpen ==
  ASSUME NEW c, NEW k, NEW st, NEW v,
         cases[c] = None, \A d \in CaseId : cases[d] # None => cases[d].key # k,
         cases' = [cases EXCEPT ![c] = NewRow(k, st, v)],
         log' = [log EXCEPT ![c] = OpeningEvents(k, st, v)]
  PROVE  Atomic!Open(c, k, st, v)
<1>1. NewRow(k, st, v) = Atomic!NewRow(k, st, v)
  BY DEF NewRow, Atomic!NewRow
<1>2. OpeningEvents(k, st, v) = Atomic!OpeningEvents(k, st, v)
  BY DEF OpeningEvents, Atomic!OpeningEvents, Opened, Atomic!Opened, ProgressEvents,
         Atomic!ProgressEvents, Requested, Atomic!Requested, Decided, Atomic!Decided
<1>3. QED
  BY <1>1, <1>2 DEF Atomic!Open

LEMMA AtomicCommit ==
  ASSUME NEW c, NEW ch, cases[c] # None, Legal(cases[c], ch), Invited(cases[c], ch),
         cases' = [cases EXCEPT ![c] = Bumped(cases[c], ch)],
         log' = [log EXCEPT ![c] = log[c] \o Events(cases[c], ch)]
  PROVE  Atomic!Commit(c, ch)
<1>1. /\ Legal(cases[c], ch) = Atomic!Legal(cases[c], ch)
      /\ Invited(cases[c], ch) = Atomic!Invited(cases[c], ch)
  BY DEF Legal, Atomic!Legal, MayClaim, Atomic!MayClaim, MayRelease,
         Atomic!MayRelease, MayResolve, Atomic!MayResolve, Terminal,
         Atomic!Terminal, Invited, Atomic!Invited, AwaitsInformation,
         Atomic!AwaitsInformation, IsApproved, Atomic!IsApproved
<1>2. Bumped(cases[c], ch) = Atomic!Bumped(cases[c], ch)
  BY DEF Bumped, Atomic!Bumped, Assigned, Atomic!Assigned, Progressed,
         Atomic!Progressed, Claimed, Atomic!Claimed, Released, Atomic!Released,
         Resolved, Atomic!Resolved, HandedOff, Atomic!HandedOff
<1>3. Events(cases[c], ch) = Atomic!Events(cases[c], ch)
  BY DEF Events, Atomic!Events, Supplied, Atomic!Supplied, ProgressEvents,
         Atomic!ProgressEvents, Requested, Atomic!Requested, Decided, Atomic!Decided
<1>4. QED
  BY <1>1, <1>2, <1>3 DEF Atomic!Commit

LEMMA AtomicNote ==
  ASSUME NEW c, NEW ch, cases[c] # None, UNCHANGED cases,
         log' = [log EXCEPT ![c] = log[c] \o Events(cases[c], ch)]
  PROVE  Atomic!Note(c, ch)
<1>1. Events(cases[c], ch) = Atomic!Events(cases[c], ch)
  BY DEF Events, Atomic!Events, Supplied, Atomic!Supplied, ProgressEvents,
         Atomic!ProgressEvents, Requested, Atomic!Requested, Decided, Atomic!Decided
<1>2. QED
  BY <1>1 DEF Atomic!Note

LEMMA AtomicSets ==
  /\ RowChange = Atomic!RowChange
  /\ NoteChange = Atomic!NoteChange
  /\ OpeningStatus = Atomic!OpeningStatus
BY DEF OpeningStatus, Atomic!OpeningStatus, RowChange, Atomic!RowChange,
     ProgressChange, Atomic!ProgressChange, ClaimChange, Atomic!ClaimChange,
     ReleaseChange, Atomic!ReleaseChange, ResolveChange, Atomic!ResolveChange,
     HandoffChange, Atomic!HandoffChange, NoteChange, Atomic!NoteChange

\* Every step of the sessions is a step of the abstract store or none.
LEMMA StepRefines == Inv /\ [Next]_vars => [Atomic!Next]_(Atomic!vars)
<1> SUFFICES ASSUME Inv, [Next]_vars, ~UNCHANGED << cases, log >> PROVE Atomic!Next
  BY DEF Atomic!vars
<1>1. PICK s \in Session : CommitCase(s) \/ BumpAndCommit(s) \/ CommitNote(s)
  BY DEF vars, db, Next, Step, RequestOpen, InsertCase, RequestChange, Answer, Check,
         ReadSequence, Flush, BumpFails, LockTimeout, Crash
<1>2. CASE CommitCase(s)
  <2> DEFINE o == call[s]
  <2>1. o \in OpenCall /\ cases[o.case] = None /\ HasKey(o.key) = {}
    BY <1>2 DEF CommitCase, Inv, Sound, OpeningIsSound
  <2>2. o.case \in CaseId /\ o.key \in Key /\ o.status \in OpeningStatus /\ o.verdict \in Verdict
    BY <2>1 DEF OpenCall
  <2>3. \A d \in CaseId : cases[d] # None => cases[d].key # o.key
    BY <2>1 DEF HasKey
  <2>4. Atomic!Open(o.case, o.key, o.status, o.verdict)
    BY <1>2, <2>1, <2>3, AtomicOpen DEF CommitCase
  <2>5. QED
    BY <2>2, <2>4, AtomicSets DEF Atomic!Next
<1>3. CASE BumpAndCommit(s)
  <2>1. PICK c \in CaseId, ch \in RowChange :
          /\ cases[c] \in Row /\ Legal(cases[c], ch) /\ Invited(cases[c], ch)
          /\ cases' = [cases EXCEPT ![c] = Bumped(cases[c], ch)]
          /\ log' = [log EXCEPT ![c] = log[c] \o Events(cases[c], ch)]
    BY <1>3, CommitEffect
  <2>2. Atomic!Commit(c, ch)
    BY <2>1, AtomicCommit, NoneAssumption
  <2>3. QED
    BY <2>2, AtomicSets DEF Atomic!Next
<1>4. CASE CommitNote(s)
  <2>1. PICK c \in CaseId, ch \in NoteChange :
          /\ cases[c] \in Row /\ cases' = cases
          /\ log' = [log EXCEPT ![c] = log[c] \o Events(cases[c], ch)]
    BY <1>4, NoteEffect
  <2>2. Atomic!Note(c, ch)
    BY <2>1, AtomicNote, NoneAssumption
  <2>3. QED
    BY <2>2, AtomicSets DEF Atomic!Next
<1>5. QED
  BY <1>1, <1>2, <1>3, <1>4

\* The store is linearizable: its sessions implement the abstract store.
THEOREM Linearizability == Spec => Linearizes
<1>1. Init => Atomic!Init
  BY DEF Init, Atomic!Init
<1>2. QED
  BY <1>1, StepRefines, Invariant, PTL DEF Spec, Linearizes, Atomic!Spec

-------------------------------------------------------------------------------
(* What was proved of the abstract store holds of its sessions.               *)

Promise == INSTANCE VersionedCaseProofs

LEMMA SamePromises ==
  /\ Promise!NoneAssumption
  /\ Atomic!Spec <=> Promise!Spec
<1>1. Promise!NoneAssumption
  BY NoneAssumption DEF Promise!NoneAssumption, Promise!Row, Promise!Human,
     Promise!CaseStatus, Promise!OpeningStatus, Row, Human, CaseStatus, OpeningStatus
<1>2. Atomic!Spec <=> Promise!Spec
  BY DEF Atomic!Spec, Promise!Spec, Atomic!vars, Promise!vars, Atomic!Init,
         Promise!Init, Atomic!Next, Promise!Next, Atomic!Open, Promise!Open,
         Atomic!Commit, Promise!Commit, Atomic!Note, Promise!Note,
         Atomic!OpeningStatus, Promise!OpeningStatus, Atomic!CaseStatus,
         Promise!CaseStatus, Atomic!Terminal, Promise!Terminal, Atomic!Human,
         Promise!Human, Atomic!Row, Promise!Row, Atomic!ProgressChange,
         Promise!ProgressChange, Atomic!ClaimChange, Promise!ClaimChange,
         Atomic!ReleaseChange, Promise!ReleaseChange, Atomic!ResolveChange,
         Promise!ResolveChange, Atomic!HandoffChange, Promise!HandoffChange,
         Atomic!NoteChange, Promise!NoteChange, Atomic!RowChange, Promise!RowChange,
         Atomic!MayClaim, Promise!MayClaim, Atomic!MayRelease, Promise!MayRelease,
         Atomic!MayResolve, Promise!MayResolve, Atomic!Legal, Promise!Legal,
         Atomic!AwaitsInformation, Promise!AwaitsInformation, Atomic!IsApproved,
         Promise!IsApproved, Atomic!Invited, Promise!Invited, Atomic!NewRow,
         Promise!NewRow, Atomic!Progressed, Promise!Progressed, Atomic!Claimed,
         Promise!Claimed, Atomic!Released, Promise!Released, Atomic!Resolved,
         Promise!Resolved, Atomic!HandedOff, Promise!HandedOff, Atomic!Assigned,
         Promise!Assigned, Atomic!Bumped, Promise!Bumped, Atomic!Requested,
         Promise!Requested, Atomic!Decided, Promise!Decided, Atomic!ProgressEvents,
         Promise!ProgressEvents, Atomic!Opened, Promise!Opened,
         Atomic!OpeningEvents, Promise!OpeningEvents, Atomic!Supplied,
         Promise!Supplied, Atomic!Events, Promise!Events
<1>3. QED
  BY <1>1, <1>2

\* No race, late run or release rewrites a recorded human decision.
THEOREM DecisionSurvives == Spec => DecisionIsFinal
<1>1. Promise!DecisionIsFinal => DecisionIsFinal
  BY DEF DecisionIsFinal, Atomic!DecisionIsFinal, Promise!DecisionIsFinal,
         Atomic!IsResolved, Promise!IsResolved, Atomic!vars, Promise!vars
<1>2. Promise!Spec => (Promise!DecisionIsFinal)
  BY SamePromises, Promise!DecisionsAreFinal
<1>3. Spec => Promise!Spec
  BY Linearizability, SamePromises DEF Linearizes
<1>4. QED
  BY <1>1, <1>2, <1>3

\* No decision lands on a case that another reviewer holds.
THEOREM ClaimsWin == Spec => []ClaimIsRespected
<1>1. Promise!ClaimIsRespected => ClaimIsRespected
  BY DEF ClaimIsRespected, Atomic!ClaimIsRespected, Promise!ClaimIsRespected
<1>2. Promise!Spec => [](Promise!ClaimIsRespected)
  BY SamePromises, Promise!ClaimsAreRespected
<1>3. Spec => Promise!Spec
  BY Linearizability, SamePromises DEF Linearizes
<1>4. QED
  BY <1>1, <1>2, <1>3, PTL

\* A decision event names the verdict the row still shows.
THEOREM OverridesAreTrue == Spec => []OverrideNamesVerdict
<1>1. Promise!OverrideNamesVerdict => OverrideNamesVerdict
  BY DEF OverrideNamesVerdict, Atomic!OverrideNamesVerdict,
         Promise!OverrideNamesVerdict
<1>2. Promise!Spec => [](Promise!OverrideNamesVerdict)
  BY SamePromises, Promise!OverridesNameVerdicts
<1>3. Spec => Promise!Spec
  BY Linearizability, SamePromises DEF Linearizes
<1>4. QED
  BY <1>1, <1>2, <1>3, PTL

\* Racing hand-offs record at most one, of an approved case.
THEOREM HandoffHappensOnce == Spec => []HandedOffOnce
<1>1. Promise!HandedOffOnce => HandedOffOnce
  BY DEF HandedOffOnce, Atomic!HandedOffOnce, Promise!HandedOffOnce,
         Atomic!IsApproved, Promise!IsApproved
<1>2. Promise!Spec => [](Promise!HandedOffOnce)
  BY SamePromises, Promise!HandoffsAreUnique
<1>3. Spec => Promise!Spec
  BY Linearizability, SamePromises DEF Linearizes
<1>4. QED
  BY <1>1, <1>2, <1>3, PTL

\* Racing openings give no key two cases and no case two openings.
THEOREM OpeningHappensOnce == Spec => []KeyOpensOneCase
<1>1. Promise!KeyOpensOneCase => KeyOpensOneCase
  BY DEF KeyOpensOneCase, Atomic!KeyOpensOneCase, Promise!KeyOpensOneCase
<1>2. Promise!Spec => [](Promise!KeyOpensOneCase)
  BY SamePromises, Promise!KeysOpenOneCase
<1>3. Spec => Promise!Spec
  BY Linearizability, SamePromises DEF Linearizes
<1>4. QED
  BY <1>1, <1>2, <1>3, PTL

\* Whatever sessions race and wherever they stop, replaying the trail of a case
\* gives the status, claim, decision and hand-off of its row.
THEOREM TrailTellsTheRow == Spec => []AuditExplainsRow
<1>1. Promise!AuditExplainsRow => AuditExplainsRow
  BY DEF AuditExplainsRow, Atomic!AuditExplainsRow, Promise!AuditExplainsRow,
         Atomic!Replay, Promise!Replay, Atomic!Blank, Promise!Blank,
         Atomic!After, Promise!After, Atomic!Claimed, Promise!Claimed,
         Atomic!Released, Promise!Released, Atomic!Resolved, Promise!Resolved,
         Atomic!HandedOff, Promise!HandedOff
<1>2. Promise!Spec => [](Promise!AuditExplainsRow)
  BY SamePromises, Promise!TrailsExplainRows
<1>3. Spec => Promise!Spec
  BY Linearizability, SamePromises DEF Linearizes
<1>4. QED
  BY <1>1, <1>2, <1>3, PTL

-------------------------------------------------------------------------------
(* Conflicts.                                                                 *)

\* A session that has passed the checks has selected the version it was sent.
SelectedIsExpected ==
    \A s \in Session : pc[s] \in {"checked", "sequenced", "flushed"} =>
        row[s].version = call[s].expected

\* A session that has answered has selected nothing.
LEMMA AnsweredHasNothing ==
  ASSUME NEW s \in Session, NEW r, Inv, SelectedIsExpected, Return(s, r)
  PROVE  SelectedIsExpected'
BY DEF Inv, TypeOK, SelectedIsExpected, Return

\* One that goes on keeps what it has.
LEMMA GoingOnKeepsSelection ==
  ASSUME NEW s \in Session, NEW l, Inv, SelectedIsExpected, Goto(s, l), UNCHANGED row,
         \A t \in Session : t # s => call'[t] = call[t],
         \/ l \in {"running", "called", "inserting", "inserted"}
         \/ pc[s] \in {"checked", "sequenced", "flushed"} /\ call'[s] = call[s]
  PROVE  SelectedIsExpected'
BY DEF Inv, TypeOK, SelectedIsExpected, Goto

LEMMA SelectionStands == Inv /\ SelectedIsExpected /\ [Next]_vars => SelectedIsExpected'
<1> SUFFICES ASSUME Inv, SelectedIsExpected, [Next]_vars PROVE SelectedIsExpected'
  OBVIOUS
<1>1. ASSUME NEW s \in Session,
             \/ InsertCase(s) \/ CommitCase(s) \/ BumpAndCommit(s) \/ BumpFails(s)
             \/ CommitNote(s) \/ LockTimeout(s) \/ Crash(s)
      PROVE  SelectedIsExpected'
  <2>1. CASE InsertCase(s)
    <3>1. \/ \E r : Return(s, r)
          \/ Goto(s, "inserted") /\ UNCHANGED << call, row >>
      BY <2>1 DEF InsertCase
    <3>2. QED
      BY <3>1, AnsweredHasNothing, GoingOnKeepsSelection
  <2>2. QED
    BY <1>1, <2>1, AnsweredHasNothing
       DEF CommitCase, BumpAndCommit, BumpFails, Rollback, CommitNote, LockTimeout, Crash
<1>2. ASSUME NEW s \in Session, RequestOpen(s) PROVE SelectedIsExpected'
  <2>1. \/ \E r : Return(s, r)
        \/ \E o \in OpenCall : /\ Goto(s, "inserting") /\ UNCHANGED row
                               /\ call' = [call EXCEPT ![s] = o]
    BY <1>2 DEF RequestOpen
  <2>2. ASSUME NEW o, Goto(s, "inserting"), UNCHANGED row, call' = [call EXCEPT ![s] = o]
        PROVE  SelectedIsExpected'
    <3>1. \A t \in Session : t # s => call'[t] = call[t]
      BY <2>2 DEF Inv, TypeOK
    <3>2. QED
      BY <2>2, <3>1, GoingOnKeepsSelection
  <2>3. QED
    BY <2>1, <2>2, AnsweredHasNothing
<1>3. ASSUME NEW s \in Session, RequestChange(s) PROVE SelectedIsExpected'
  <2>1. \/ \E r : Return(s, r)
        \/ \E o, l : /\ l \in {"running", "called"}
                     /\ Goto(s, l) /\ UNCHANGED row
                     /\ call' = [call EXCEPT ![s] = o]
    BY <1>3 DEF RequestChange
  <2>2. ASSUME NEW o, NEW l \in {"running", "called"}, Goto(s, l), UNCHANGED row,
               call' = [call EXCEPT ![s] = o]
        PROVE  SelectedIsExpected'
    <3>1. \A t \in Session : t # s => call'[t] = call[t]
      BY <2>2 DEF Inv, TypeOK
    <3>2. QED
      BY <2>2, <3>1, GoingOnKeepsSelection
  <2>3. QED
    BY <2>1, <2>2, AnsweredHasNothing
<1>4. ASSUME NEW s \in Session, Answer(s) \/ ReadSequence(s) PROVE SelectedIsExpected'
  BY <1>4, GoingOnKeepsSelection DEF Answer, ReadSequence
<1>5. ASSUME NEW s \in Session, Check(s) PROVE SelectedIsExpected'
  <2>1. \/ \E r : Return(s, r)
        \/ /\ VersionMatches(call[s].case, call[s].expected)
           /\ row' = [row EXCEPT ![s] = cases[call[s].case]]
           /\ Goto(s, "checked")
           /\ UNCHANGED call
    BY <1>5 DEF Check
  <2>2. CASE /\ VersionMatches(call[s].case, call[s].expected)
             /\ row' = [row EXCEPT ![s] = cases[call[s].case]]
             /\ Goto(s, "checked")
             /\ UNCHANGED call
    BY <2>2 DEF Inv, TypeOK, SelectedIsExpected, VersionMatches, Goto
  <2>3. QED
    BY <2>1, <2>2, AnsweredHasNothing
<1>6. ASSUME NEW s \in Session, Flush(s) PROVE SelectedIsExpected'
  <2>1. pc[s] = "sequenced"
    BY <1>6 DEF Flush
  <2>2. \/ Return(s, Error)
        \/ Goto(s, "flushed") /\ UNCHANGED << call, row >>
    BY <1>6 DEF Flush
  <2>3. QED
    BY <2>1, <2>2, AnsweredHasNothing, GoingOnKeepsSelection
<1>7. CASE UNCHANGED vars
  BY <1>7 DEF vars, SelectedIsExpected
<1>8. QED
  BY <1>1, <1>2, <1>3, <1>4, <1>5, <1>6, <1>7 DEF Next, Step

\* Nobody who answers without a conflict says anything of one.
LEMMA ConflictIsLost ==
  ASSUME Inv, SelectedIsExpected, ConflictHasWinner, [Next]_vars
  PROVE  ConflictHasWinner'
<1>1. ASSUME NEW s \in Session, RequestChange(s) PROVE ConflictHasWinner'
  <2>1. \/ \E r \in {Stored, Refused} : Return(s, r)
        \/ \E l : Goto(s, l)
        \/ \E c \in CaseId : \E e \in 1..cases[c].version :
              /\ cases[c] # None /\ e # cases[c].version
              /\ Return(s, Conflict(c, e, e, cases[c].version))
    BY <1>1 DEF RequestChange
  <2>2. UNCHANGED cases
    BY <1>1 DEF RequestChange, db
  <2>3. ASSUME NEW c \in CaseId, NEW e \in 1..cases[c].version,
               cases[c] # None, e # cases[c].version,
               Return(s, Conflict(c, e, e, cases[c].version))
        PROVE  ConflictHasWinner'
    <3>1. cases[c].version \in Nat
      BY <2>3 DEF Inv, TypeOK, Row
    <3>2. QED
      BY <2>2, <2>3, <3>1 DEF Return, Conflict, ConflictHasWinner
  <2>4. QED
    BY <2>1, <2>3 DEF Return, Goto, Stored, Refused, ConflictHasWinner
<1>2. ASSUME NEW s \in Session, Check(s) PROVE ConflictHasWinner'
  <2> DEFINE c == call[s].case
             e == call[s].expected
  <2>1. /\ e \in Nat /\ cases[c].version \in Nat /\ e <= cases[c].version
        /\ UNCHANGED cases
    BY <1>2, ChangingSession DEF Check, db
  <2>2. \/ cases[c].version # e /\ Return(s, Conflict(c, e, e, cases[c].version))
        \/ Return(s, Refused)
        \/ Goto(s, "checked")
    BY <1>2 DEF Check, VersionMatches
  <2>3. QED
    BY <2>1, <2>2 DEF Return, Goto, Conflict, Refused, ConflictHasWinner
<1>3. ASSUME NEW s \in Session, BumpFails(s) PROVE ConflictHasWinner'
  <2> DEFINE c == call[s].case
             e == call[s].expected
  <2>1. pc[s] = "flushed" /\ cases[c].version # row[s].version /\ UNCHANGED cases
    BY <1>3 DEF BumpFails, VersionStillSelected, db
  <2>2. e \in Nat /\ cases[c].version \in Nat /\ e <= cases[c].version
    BY <2>1, ChangingSession
  <2>3. row[s].version = e
    BY <2>1 DEF SelectedIsExpected
  <2>4. reply' = Conflict(c, e, cases[c].version, -1)
    BY <1>3 DEF BumpFails, Rollback, Return
  <2>5. QED
    BY <2>1, <2>2, <2>3, <2>4 DEF Conflict, ConflictHasWinner
<1>4. ASSUME NEW s \in Session,
             \/ RequestOpen(s) \/ InsertCase(s) \/ CommitCase(s) \/ Answer(s)
             \/ ReadSequence(s) \/ Flush(s) \/ BumpAndCommit(s) \/ CommitNote(s)
             \/ LockTimeout(s) \/ Crash(s)
      PROVE  ConflictHasWinner'
  <2>1. reply' \in {None, Ok, Stored, Refused, Error}
    BY <1>4 DEF RequestOpen, InsertCase, CommitCase, Answer, ReadSequence, Flush, BumpAndCommit,
                CommitNote, LockTimeout, Crash, Return, Goto
  <2>2. QED
    BY <2>1 DEF Ok, Stored, Refused, Error, ConflictHasWinner
<1>5. CASE UNCHANGED vars
  BY <1>5 DEF vars, ConflictHasWinner
<1>6. QED
  BY <1>1, <1>2, <1>3, <1>4, <1>5 DEF Next, Step

\* However many sessions race, a conflict is only ever told to one that lost.
THEOREM ConflictsAreLost == Spec => []ConflictHasWinner
<1>1. Init => SelectedIsExpected /\ ConflictHasWinner
  BY DEF Init, SelectedIsExpected, ConflictHasWinner
<1>2. QED
  BY <1>1, SelectionStands, ConflictIsLost, Invariant, PTL DEF Spec
===============================================================================
