------------------------------ MODULE CaseStore ------------------------------
(***************************************************************************)
(* review/store.py against the database, with the checks ReviewService makes *)
(* before it calls it.  A session is one service call in some process or    *)
(* thread.  Its SELECTs run outside a transaction (SessionLocal has no      *)
(* autoflush and the driver begins a transaction at the first write), so    *)
(* what it read may be stale when its first flush takes the write lock; the *)
(* unique constraints and the guarded UPDATE of _bump are what is left to    *)
(* stop it.  Nothing of a transaction is visible before its commit.         *)
(***************************************************************************)
EXTENDS CaseRecord

CONSTANTS
    Session,
    MaxEvents  \* bound: no call is accepted for a case with this many events

ASSUME MaxEventsAssumption == MaxEvents \in Nat

VARIABLES
    cases,   \* committed rows
    log,     \* committed events; uq_case_sequence makes this a partial function
             \* from sequence numbers to events for each case
    writer,  \* the session that holds the database's write lock, or None
    pc,      \* where each session is
    call,    \* what it was asked to do
    row,     \* the row it selected last
    next,    \* the sequence number it will give its first event
    reply    \* what the last step told a caller, None if it told nothing

vars == << cases, log, writer, pc, call, row, next, reply >>
db == << cases, log >>

ASSUME NoneIsNoSession == None \notin Session

OpenCall == [op : {"open"}, case : CaseId, key : Key,
             status : OpeningStatus, verdict : Verdict]
ChangeCall == [op : {"change"}, case : CaseId, expected : Nat \ {0}, change : Change]

\* A conflict answers a call that sent a version.
Reply == [kind : {"ok", "stored", "refused", "error"}]
         \cup [kind : {"conflict"}, case : CaseId, sent : Nat,
               expected : Nat, actual : Nat \cup {-1}]

TypeOK ==
    /\ cases \in [CaseId -> Row \cup {None}]
    /\ log \in [CaseId -> Seq(Event)]
    /\ writer \in Session \cup {None}
    /\ pc \in [Session -> {"idle", "running", "called", "checked", "sequenced",
                           "flushed", "inserting", "inserted"}]
    /\ call \in [Session -> OpenCall \cup ChangeCall \cup {None}]
    /\ row \in [Session -> Row \cup {None}]
    /\ next \in [Session -> Nat]
    /\ reply \in Reply \cup {None}

Init ==
    /\ cases = [c \in CaseId |-> None]
    /\ log = [c \in CaseId |-> << >>]
    /\ writer = None
    /\ pc = [s \in Session |-> "idle"]
    /\ call = [s \in Session |-> None]
    /\ row = [s \in Session |-> None]
    /\ next = [s \in Session |-> 0]
    /\ reply = None

\* The session answers its caller with r and forgets the call and what it read.
Return(s, r) ==
    /\ pc' = [pc EXCEPT ![s] = "idle"]
    /\ call' = [call EXCEPT ![s] = None]
    /\ row' = [row EXCEPT ![s] = None]
    /\ next' = [next EXCEPT ![s] = 0]
    /\ reply' = r

\* The session goes on, and tells its caller nothing yet.
Goto(s, l) == pc' = [pc EXCEPT ![s] = l] /\ reply' = None

Conflict(c, v, e, a) == [kind |-> "conflict", case |-> c, sent |-> v,
                         expected |-> e, actual |-> a]
Ok == [kind |-> "ok"]
Refused == [kind |-> "refused"]
Error == [kind |-> "error"]
Stored == [kind |-> "stored"]

\* Mutant: the idempotency key is never looked up.
HasNoKey(k) == {}

\* The cases that a key finds: at most one, the column is unique.
HasKey(k) == {d \in CaseId : cases[d] # None /\ cases[d].key = k}

\* The sequence number _append computes.
NextSequence(c) == Len(log[c]) + 1

\* INSERT of the events b from sequence number n on; a number that is taken
\* already keeps its event.
Inserted(l, n, b) ==
    [i \in (DOMAIN l) \cup n..(n + Len(b) - 1) |->
        IF i \in DOMAIN l THEN l[i] ELSE b[i - n + 1]]

\* Mutant: _check_version is forgotten.
AnyVersion(c, e) == TRUE

\* _check_version, on the row selected outside the transaction.
VersionMatches(c, e) == cases[c].version = e

\* Mutant: no unique constraint on the sequence.
NeverTaken(s) == FALSE

\* uq_case_sequence: the number read earlier has been given away since.
SequenceTaken(s) == next[s] \in DOMAIN log[call[s].case]

\* Mutants: the UPDATE is not guarded; it compares with the next version.
Unguarded(s) == TRUE
GuardOffByOne(s) == cases[call[s].case].version = row[s].version + 1

\* The WHERE of the UPDATE in _bump.
VersionStillSelected(s) == cases[call[s].case].version = row[s].version

\* Mutants: the transaction stays open; the same UPDATE is tried for ever.
FailKeepingLock(s, r) == UNCHANGED writer /\ Return(s, r)
RetryBlindly(s, r) == /\ writer' = None
                      /\ Goto(s, "sequenced")
                      /\ UNCHANGED << call, row, next >>

\* Give the transaction up and answer r.
Rollback(s, r) == writer' = None /\ Return(s, r)

-------------------------------------------------------------------------------
(* Opening a case. *)

\* ReviewService.open_case up to the await: a known key returns its case, a
\* case under another key refuses, otherwise the workflow runs.
RequestOpen(s) ==
    /\ pc[s] = "idle"
    /\ \E o \in OpenCall :
        /\ Len(log[o.case]) < MaxEvents
        /\ \/ /\ HasKey(o.key) # {}
              /\ Return(s, Stored)
           \/ /\ HasKey(o.key) = {}
              /\ cases[o.case] # None
              /\ Return(s, Refused)
           \/ /\ HasKey(o.key) = {}
              /\ cases[o.case] = None
              /\ Goto(s, "inserting")
              /\ call' = [call EXCEPT ![s] = o]
              /\ UNCHANGED << row, next >>
    /\ UNCHANGED << db, writer >>

\* CaseStore.open_case to the flush of the new row.  The SELECT by key before
\* the INSERT and the one after an IntegrityError return the same row; a case
\* that exists under another key leaves the IntegrityError to the caller.
InsertCase(s) ==
    LET o == call[s] IN
    /\ pc[s] = "inserting"
    /\ \/ /\ HasKey(o.key) # {}
          /\ Return(s, Stored)
          /\ UNCHANGED writer
       \/ /\ writer = None
          /\ HasKey(o.key) = {}
          /\ cases[o.case] # None
          /\ Return(s, Error)
          /\ UNCHANGED writer
       \/ /\ writer = None
          /\ HasKey(o.key) = {}
          /\ cases[o.case] = None
          /\ writer' = s
          /\ Goto(s, "inserted")
          /\ UNCHANGED << call, row, next >>
    /\ UNCHANGED db

CommitCase(s) ==
    LET o == call[s] IN
    /\ pc[s] = "inserted"
    /\ cases' = [cases EXCEPT ![o.case] = NewRow(o.key, o.status, o.verdict)]
    /\ log' = [log EXCEPT ![o.case] = OpeningEvents(o.key, o.status, o.verdict)]
    /\ writer' = None
    /\ Return(s, Ok)

-------------------------------------------------------------------------------
(* Changing a case. *)

\* A caller sends a version it has been shown, so never one that is to come.
\* supply_information and hand_off read the case and may turn the call down
\* before the workflow or the gateway is asked; the others go to the store.
\* (A call for a case that is not there fails and changes nothing.)
RequestChange(s) ==
    /\ pc[s] = "idle"
    /\ \E c \in CaseId, ch \in Change :
        /\ cases[c] # None
        /\ Len(log[c]) < MaxEvents
        /\ \E e \in 1..cases[c].version :
            /\ \/ /\ ~Invited(cases[c], ch)
                  /\ Return(s, IF ch.op = "handoff" /\ cases[c].handedOff
                               THEN Stored ELSE Refused)
               \/ /\ Invited(cases[c], ch)
                  /\ ch.op = "progress" /\ e # cases[c].version
                  /\ Return(s, Conflict(c, e, e, cases[c].version))
               \/ /\ Invited(cases[c], ch)
                  /\ ch.op = "progress" => e = cases[c].version
                  /\ Goto(s, IF ch.op \in {"progress", "handoff"}
                             THEN "running" ELSE "called")
                  /\ call' = [call EXCEPT ![s] = [op |-> "change", case |-> c,
                                                  expected |-> e, change |-> ch]]
                  /\ UNCHANGED << row, next >>
    /\ UNCHANGED << db, writer >>

\* The awaited workflow run, or the gateway, answers.
Answer(s) ==
    /\ pc[s] = "running"
    /\ Goto(s, "called")
    /\ UNCHANGED << db, writer, call, row, next >>

\* _require, _check_version and the transition checks.
Check(s) ==
    LET c == call[s].case
        e == call[s].expected IN
    /\ pc[s] = "called"
    /\ \/ /\ ~VersionMatches(c, e)
          /\ Return(s, Conflict(c, e, e, cases[c].version))
       \/ /\ VersionMatches(c, e)
          /\ ~Legal(cases[c], call[s].change)
          /\ Return(s, Refused)
       \/ /\ VersionMatches(c, e)
          /\ Legal(cases[c], call[s].change)
          /\ row' = [row EXCEPT ![s] = cases[c]]
          /\ Goto(s, "checked")
          /\ UNCHANGED << call, next >>
    /\ UNCHANGED << db, writer >>

\* The SELECT max(sequence) of the first _append, still outside the transaction.
ReadSequence(s) ==
    /\ pc[s] = "checked"
    /\ next' = [next EXCEPT ![s] = NextSequence(call[s].case)]
    /\ Goto(s, "sequenced")
    /\ UNCHANGED << db, writer, call, row >>

\* The flush of the first _append takes the write lock and sends the UPDATE
\* and the INSERT; uq_case_sequence rejects a number that is taken.
Flush(s) ==
    /\ pc[s] = "sequenced"
    /\ writer = None
    /\ \/ /\ SequenceTaken(s)
          /\ Return(s, Error)
          /\ UNCHANGED writer
       \/ /\ ~SequenceTaken(s)
          /\ writer' = s
          /\ Goto(s, "flushed")
          /\ UNCHANGED << call, row, next >>
    /\ UNCHANGED db

\* _bump counts the version if it is still the one selected, then commits.
BumpAndCommit(s) ==
    LET c == call[s].case
        ch == call[s].change IN
    /\ pc[s] = "flushed"
    /\ ch.op # "note"
    /\ VersionStillSelected(s)
    /\ cases' = [cases EXCEPT ![c] = Bumped(row[s], ch)]
    /\ log' = [log EXCEPT ![c] = Inserted(@, next[s], Events(row[s], ch))]
    /\ writer' = None
    /\ Return(s, Ok)

\* No row matched: _bump rolls back, and the error it then raises reads the
\* reloaded version where the expected one belongs.
BumpFails(s) ==
    LET c == call[s].case IN
    /\ pc[s] = "flushed"
    /\ call[s].change.op # "note"
    /\ ~VersionStillSelected(s)
    /\ Rollback(s, Conflict(c, call[s].expected, cases[c].version, -1))
    /\ UNCHANGED db

\* record_supplied_information commits its event without a _bump.
CommitNote(s) ==
    LET c == call[s].case
        ch == call[s].change IN
    /\ pc[s] = "flushed"
    /\ ch.op = "note"
    /\ log' = [log EXCEPT ![c] = Inserted(@, next[s], Events(row[s], ch))]
    /\ writer' = None
    /\ Return(s, Ok)
    /\ UNCHANGED cases

-------------------------------------------------------------------------------
(* What can go wrong around a session. *)

\* The driver gives up waiting for the lock: OperationalError.
LockTimeout(s) ==
    /\ pc[s] \in {"sequenced", "inserting"}
    /\ writer # None
    /\ Return(s, Error)
    /\ UNCHANGED << db, writer >>

\* The process of the session dies; the database rolls its transaction back.
Crash(s) ==
    /\ pc[s] # "idle"
    /\ writer' = IF writer = s THEN None ELSE writer
    /\ Return(s, None)
    /\ UNCHANGED db

Step(s) == \/ InsertCase(s) \/ CommitCase(s)
           \/ Answer(s) \/ Check(s) \/ ReadSequence(s) \/ Flush(s)
           \/ BumpAndCommit(s) \/ BumpFails(s) \/ CommitNote(s)
           \/ LockTimeout(s)

Next == \E s \in Session : RequestOpen(s) \/ RequestChange(s) \/ Step(s) \/ Crash(s)

Spec == Init /\ [][Next]_vars

\* A call that has begun runs on: its coroutine or thread is never parked, and
\* the driver bounds every wait for the lock.
FairSpec == Spec /\ \A s \in Session : WF_vars(Step(s))
-------------------------------------------------------------------------------
(* Properties. *)

\* What the store promises: every session's work is one atomic step of the
\* abstract specification or none (store.py _check_version, _append, _bump).
Atomic == INSTANCE VersionedCase WITH cases <- cases, log <- log
Linearizes == Atomic!Spec

\* A recorded human decision survives every later operation and race
\* (store.py resolve, release, record_automated_progress).
DecisionIsFinal == Atomic!DecisionIsFinal

\* No change is committed without its event, and no event without its change
\* (store.py _append, _bump).
AuditExplainsRow == Atomic!AuditExplainsRow

\* The override event names the verdict that was in force (store.py resolve).
OverrideNamesVerdict == Atomic!OverrideNamesVerdict

\* However many hand-offs passed the service's checks together, one is
\* recorded (service.py hand_off, store.py record_handoff).
HandedOffOnce == Atomic!HandedOffOnce

\* A decision never lands on a case another reviewer holds, even when the two
\* race (store.py claim, resolve).
ClaimIsRespected == Atomic!ClaimIsRespected

\* Racing openings never give a key two cases, or a case two openings
\* (store.py open_case).
KeyOpensOneCase == Atomic!KeyOpensOneCase

\* A caller is only told of a conflict when another change of the case was
\* committed after the version it sent (store.py _check_version, _bump).
ConflictHasWinner ==
    reply # None /\ reply.kind = "conflict" => cases[reply.case].version > reply.sent

\* Every call is answered, and gives the write lock back with its answer, whatever
\* the others do (store.py _bump, database.py get_db_session).
CallsReturn == \A s \in Session : pc[s] # "idle" ~> pc[s] = "idle" /\ writer # s

\* case_routes.py:3-5 and store.py:40 promise a conflict that carries the
\* current version of the case.
ConflictCarriesVersion ==
    reply # None /\ reply.kind = "conflict" =>
        reply.actual \in 1..cases[reply.case].version
===============================================================================
