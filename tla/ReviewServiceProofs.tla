-------------------------- MODULE ReviewServiceProofs --------------------------
(***************************************************************************)
(* What holds of the review service for any number of processes, calls,     *)
(* cases, items and restarts, and whatever the caps are.                    *)
(***************************************************************************)
EXTENDS ReviewService, CaseRecordProofs, FiniteSetTheorems

\* A supply call waits with a version the case had while it awaited information;
\* as long as nothing else has changed the case, it still does.
SuppliesAreInvited ==
    \A s \in Session : call[s] # None /\ call[s].op = "supply" =>
        LET c == call[s].case IN
        /\ cases[c] # None
        /\ call[s].expected <= cases[c].version
        /\ call[s].expected = cases[c].version => AwaitsInformation(cases[c])

\* Only a resolved case has a human decision.
DecidedIsResolved ==
    \A c \in CaseId : cases[c] # None /\ cases[c].human # None => cases[c].status = "resolved"

ServiceInv == TypeOK /\ SuppliesAreInvited /\ DecidedIsResolved /\ GatewayNeedsApproval

-------------------------------------------------------------------------------
(* What a step does to the database.                                        *)

OpensCase(c, k, st, v) ==
    /\ cases[c] = None
    /\ \A d \in CaseId : cases[d] # None => cases[d].key # k
    /\ cases' = [cases EXCEPT ![c] = NewRow(k, st, v)]
    /\ log' = [log EXCEPT ![c] = OpeningEvents(k, st, v)]

ChangesCase(c, ch) ==
    /\ cases[c] # None
    /\ Legal(cases[c], ch) /\ Invited(cases[c], ch)
    /\ Apply(c, ch)

\* A call in flight has a thread and is an opening or a supply.
LEMMA CallsAreTyped ==
    ASSUME TypeOK, NEW s \in Session, call[s] # None
    PROVE  /\ run[s] \in Thread
           /\ call[s].process \in Process /\ call[s].case \in CaseId
           /\ call[s].op = "open" => call[s] \in OpenCall
           /\ call[s].op = "supply" => call[s] \in SupplyCall
  BY DEF TypeOK, OpenCall, SupplyCall

LEMMA OpeningEffect ==
    ASSUME ServiceInv, NEW s \in Session, RecordOpening(s)
    PROVE  \/ UNCHANGED db
           \/ \E c \in CaseId, k \in Key, st \in OpeningStatus, v \in Verdict :
                  OpensCase(c, k, st, v)
  <1> DEFINE c == call[s].case
             k == call[s].key
  <1>1. /\ c \in CaseId /\ k \in Key
        /\ run[s].at \in OpeningStatus /\ run[s].items \in Verdict
    BY CallsAreTyped, VerdictAssumption
       DEF ServiceInv, RecordOpening, Returned, OpenCall, Thread
  <1>2. UNCHANGED db \/ OpensCase(c, k, run[s].at, run[s].items)
    BY DEF RecordOpening, OpensCase, HasKey
  <1> QED BY <1>1, <1>2

LEMMA ProgressEffect ==
    ASSUME ServiceInv, NEW s \in Session, RecordProgress(s)
    PROVE  \/ UNCHANGED db
           \/ \E c \in CaseId, ch \in ProgressChange : ChangesCase(c, ch)
  <1> DEFINE c == call[s].case
             ch == [op |-> "progress", item |-> call[s].item,
                    status |-> run[s].at, verdict |-> run[s].items]
  <1>1. call[s] # None /\ call[s].op = "supply" /\ call[s] \in SupplyCall
    BY CallsAreTyped DEF ServiceInv, RecordProgress, Returned
  <1>2. c \in CaseId /\ ch \in ProgressChange
    <2>1. run[s].at \in OpeningStatus /\ run[s].items \in Verdict
      BY <1>1, CallsAreTyped, VerdictAssumption DEF ServiceInv, RecordProgress, Returned, Thread
    <2> QED BY <1>1, <2>1 DEF SupplyCall, ProgressChange
  <1>3. CASE IsCurrent(c, call[s].expected)
    <2>1. cases[c] # None /\ AwaitsInformation(cases[c])
      BY <1>1, <1>3 DEF ServiceInv, SuppliesAreInvited, IsCurrent
    <2>2. Legal(cases[c], ch) /\ Invited(cases[c], ch)
      BY <2>1 DEF Legal, Invited
    <2>3. Apply(c, ch)
      BY <1>3 DEF RecordProgress
    <2> QED BY <1>2, <2>1, <2>2, <2>3 DEF ChangesCase
  <1>4. CASE ~IsCurrent(c, call[s].expected)
    BY <1>4 DEF RecordProgress
  <1> QED BY <1>3, <1>4

LEMMA HumanEffect ==
    ASSUME NEW c \in CaseId,
           \/ \E ch \in ClaimChange \cup ReleaseChange \cup ResolveChange : Review(c, ch)
           \/ \E p \in Process : HandOff(p, c)
    PROVE  \/ UNCHANGED db
           \/ \E ch \in RowChange : ChangesCase(c, ch)
  <1>1. ASSUME NEW ch \in ClaimChange \cup ReleaseChange \cup ResolveChange, Review(c, ch)
        PROVE  ch \in RowChange /\ ChangesCase(c, ch)
    BY <1>1 DEF Review, ChangesCase, Invited, ClaimChange, ReleaseChange, ResolveChange, RowChange
  <1>2. ASSUME NEW p \in Process, HandOff(p, c)
        PROVE  \/ UNCHANGED db
               \/ \E ch \in RowChange : ChangesCase(c, ch)
    <2> DEFINE ch == [op |-> "handoff"]
    <2>1. ch \in RowChange
      BY DEF RowChange, HandoffChange
    <2>2. cases[c] # None /\ Legal(cases[c], ch) /\ Invited(cases[c], ch)
      BY <1>2 DEF HandOff, MayHandOff, Legal, Invited
    <2>3. Apply(c, ch) \/ UNCHANGED db
      BY <1>2 DEF HandOff
    <2> QED BY <2>1, <2>2, <2>3 DEF ChangesCase
  <1> QED BY <1>1, <1>2

\* Every step opens a case, changes one as the store allows, or leaves the
\* database alone.
LEMMA StepEffect ==
    ASSUME ServiceInv, [Next]_vars
    PROVE  \/ UNCHANGED db
           \/ \E c \in CaseId, k \in Key, st \in OpeningStatus, v \in Verdict :
                  OpensCase(c, k, st, v)
           \/ \E c \in CaseId, ch \in RowChange : ChangesCase(c, ch)
  <1>1. ASSUME NEW s \in Session, Step(s)
        PROVE  \/ UNCHANGED db
               \/ \E c \in CaseId, k \in Key, st \in OpeningStatus, v \in Verdict :
                      OpensCase(c, k, st, v)
               \/ \E c \in CaseId, ch \in RowChange : ChangesCase(c, ch)
    <2>1. CASE Assess(s) \/ Investigate(s)
      BY <2>1 DEF Assess, Investigate
    <2>2. CASE RecordOpening(s)
      BY <2>2, OpeningEffect
    <2>3. CASE RecordProgress(s)
      BY <2>3, ProgressEffect DEF RowChange
    <2> QED BY <1>1, <2>1, <2>2, <2>3 DEF Step
  <1>2. ASSUME NEW s \in Session,
               \/ InvestigationBreaks(s)
               \/ \E p \in Process, c \in CaseId, k \in Key : Open(s, p, c, k)
               \/ \E p \in Process, c \in CaseId, i \in Item : Supply(s, p, c, i)
        PROVE  UNCHANGED db
    BY <1>2 DEF InvestigationBreaks, Open, Supply
  <1>3. ASSUME NEW p \in Process, Restart(p) PROVE UNCHANGED db
    BY <1>3 DEF Restart
  <1>4. CASE UNCHANGED vars
    BY <1>4 DEF vars, db
  <1> QED BY <1>1, <1>2, <1>3, <1>4, HumanEffect DEF Next, SupplyAgain

-------------------------------------------------------------------------------
(* The invariant.                                                           *)

\* A case on record stays, its version counts its changes, and an approval lasts.
RowsGrow ==
    \A c \in CaseId : cases[c] # None =>
        /\ cases'[c] # None
        /\ cases'[c].version >= cases[c].version
        /\ cases'[c].version = cases[c].version => cases'[c] = cases[c]
        /\ IsApproved(cases[c]) => IsApproved(cases'[c])

\* The part of the invariant that is about the database alone.
DatabaseOK ==
    /\ cases \in [CaseId -> Row \cup {None}]
    /\ log \in [CaseId -> Seq(Event)]
    /\ DecidedIsResolved

LEMMA OpeningGrows ==
    ASSUME DatabaseOK, NEW c \in CaseId, NEW k \in Key, NEW st \in OpeningStatus,
           NEW v \in Verdict, OpensCase(c, k, st, v)
    PROVE  DatabaseOK' /\ RowsGrow
  <1> DEFINE r == NewRow(k, st, v)
  <1>1. r \in Row /\ OpeningEvents(k, st, v) \in Seq(Event)
    BY OpeningType
  <1>2. r.human = None
    BY DEF NewRow
  <1>3. cases' = [cases EXCEPT ![c] = r] /\ cases[c] = None
    BY DEF OpensCase
  <1> HIDE DEF r
  <1>4. RowsGrow
    <2> SUFFICES ASSUME NEW d \in CaseId, cases[d] # None PROVE cases'[d] = cases[d] /\ cases[d] \in Row
      BY DEF RowsGrow, Row
    <2> QED BY <1>3 DEF DatabaseOK
  <1>5. cases' \in [CaseId -> Row \cup {None}] /\ log' \in [CaseId -> Seq(Event)]
    BY <1>1, <1>3 DEF DatabaseOK, OpensCase
  <1>6. DecidedIsResolved'
    BY <1>2, <1>3 DEF DatabaseOK, DecidedIsResolved
  <1> QED BY <1>4, <1>5, <1>6 DEF DatabaseOK

LEMMA ChangeGrows ==
    ASSUME DatabaseOK, NEW c \in CaseId, NEW ch \in RowChange, ChangesCase(c, ch)
    PROVE  DatabaseOK' /\ RowsGrow
  <1> DEFINE r == cases[c]
             b == Bumped(cases[c], ch)
  <1>1. /\ r \in Row /\ Legal(r, ch) /\ Invited(r, ch)
        /\ cases' = [cases EXCEPT ![c] = b]
        /\ log' = [log EXCEPT ![c] = @ \o Events(r, ch)]
    BY DEF DatabaseOK, ChangesCase, Apply
  <1>2. b \in Row /\ b.version = r.version + 1
    BY <1>1, BumpedIs
  <1>3. r.human # None => b.status = "resolved" /\ b.human = r.human
    <2>1. r.human # None => r.status = "resolved"
      BY <1>1, NoneAssumption DEF DatabaseOK, DecidedIsResolved
    <2> QED BY <1>1, <2>1, DecisionIsKept
  <1>4. b.human # None => b.status = "resolved"
    BY <1>1, <1>3, DecisionIsMade
  <1> HIDE DEF b
  <1>5. RowsGrow
    <2> SUFFICES ASSUME NEW d \in CaseId, cases[d] # None
                 PROVE  /\ cases'[d] # None
                        /\ cases'[d].version >= cases[d].version
                        /\ cases'[d].version = cases[d].version => cases'[d] = cases[d]
                        /\ IsApproved(cases[d]) => IsApproved(cases'[d])
      BY DEF RowsGrow
    <2>1. CASE d = c
      <3>1. cases'[d] = b /\ b # None
        BY <1>1, <1>2, <2>1, NoneAssumption DEF DatabaseOK
      <3>2. r.version \in Nat
        BY <1>1 DEF Row
      <3> QED BY <1>2, <1>3, <2>1, <3>1, <3>2 DEF IsApproved
    <2>2. CASE d # c
      <3>1. cases'[d] = cases[d]
        BY <1>1, <2>2 DEF DatabaseOK
      <3>2. cases[d].version \in Nat
        BY DEF DatabaseOK, Row
      <3> QED BY <3>1, <3>2
    <2> QED BY <2>1, <2>2
  <1>6. cases' \in [CaseId -> Row \cup {None}]
    BY <1>1, <1>2 DEF DatabaseOK
  <1>7. log' \in [CaseId -> Seq(Event)]
    <2>1. Events(r, ch) \in Seq(Event)
      BY <1>1, EventsFit DEF Change
    <2>2. log[c] \in Seq(Event)
      BY DEF DatabaseOK
    <2>3. log[c] \o Events(r, ch) \in Seq(Event)
      BY <2>1, <2>2, Joined
    <2> QED BY <1>1, <2>3 DEF DatabaseOK
  <1>8. DecidedIsResolved'
    BY <1>1, <1>4 DEF DatabaseOK, DecidedIsResolved
  <1> QED BY <1>5, <1>6, <1>7, <1>8 DEF DatabaseOK

\* Whatever a step does, the database grows.
LEMMA DatabaseGrows ==
    ASSUME ServiceInv, [Next]_vars
    PROVE  DatabaseOK' /\ RowsGrow
  <1>1. DatabaseOK
    BY DEF ServiceInv, TypeOK, DatabaseOK
  <1>2. CASE UNCHANGED db
    <2>1. DatabaseOK'
      BY <1>1, <1>2 DEF DatabaseOK, DecidedIsResolved, db
    <2>2. RowsGrow
      BY <1>1, <1>2 DEF DatabaseOK, RowsGrow, db, Row
    <2> QED BY <2>1, <2>2
  <1> QED BY <1>1, <1>2, StepEffect, OpeningGrows, ChangeGrows

\* What it means for the calls that were there before.
LEMMA SuppliesStayInvited ==
    ASSUME ServiceInv, DatabaseOK', RowsGrow, NEW s \in Session, call'[s] # None, call'[s].op = "supply",
           call'[s] = call[s]
    PROVE  LET c == call'[s].case IN
           /\ cases'[c] # None
           /\ call'[s].expected <= cases'[c].version
           /\ call'[s].expected = cases'[c].version => AwaitsInformation(cases'[c])
  <1> DEFINE c == call[s].case
             e == call[s].expected
  <1>1. c \in CaseId /\ e \in Nat
    BY CallsAreTyped DEF ServiceInv, SupplyCall
  <1>2. /\ cases[c] # None /\ e <= cases[c].version
        /\ e = cases[c].version => AwaitsInformation(cases[c])
    BY DEF ServiceInv, SuppliesAreInvited
  <1>3. cases[c].version \in Nat
    BY <1>1, <1>2 DEF ServiceInv, TypeOK, Row
  <1>4. /\ cases'[c] # None
        /\ cases'[c].version >= cases[c].version
        /\ cases'[c].version = cases[c].version => cases'[c] = cases[c]
    BY <1>1, <1>2 DEF RowsGrow
  <1>5. cases'[c].version \in Nat
    BY <1>1, <1>4 DEF DatabaseOK, Row
  <1> QED BY <1>1, <1>2, <1>3, <1>4, <1>5

-------------------------------------------------------------------------------
(* What a step does to the processes and the calls.                         *)

\* The part of the invariant that is about them.
CallsOK ==
    /\ threads \in [Process -> [CaseId -> Thread \cup {None}]]
    /\ receipts \in [Process -> SUBSET CaseId]
    /\ call \in [Session -> OpenCall \cup SupplyCall \cup {None}]
    /\ run \in [Session -> Thread \cup {None}]
    /\ \A s \in Session : call[s] = None <=> run[s] = None
    /\ restarts \in 0..MaxRestarts

\* A call goes on as it was, is over, opens a case, or supplies information to a
\* case that awaits it, with its current version.
CallsChange ==
    \A s \in Session :
        \/ call'[s] \in {None, call[s]}
        \/ call'[s].op = "open"
        \/ LET c == call'[s].case IN
           /\ UNCHANGED db
           /\ c \in CaseId /\ cases[c] # None /\ AwaitsInformation(cases[c])
           /\ call'[s].expected = cases[c].version

\* The gateway only hears of approved cases.
ReceiptsChange ==
    \A p \in Process : \A c \in receipts'[p] :
        c \in receipts[p] \/ (cases[c] # None /\ IsApproved(cases[c]))

\* A session that checkpoints a thread keeps its call.
LEMMA CheckpointKeeps ==
    ASSUME CallsOK, NEW s \in Session, call[s] # None, NEW r \in Thread, Checkpoint(s, r),
           UNCHANGED << receipts, call, restarts >>
    PROVE  CallsOK' /\ CallsChange /\ ReceiptsChange
  <1>1. call[s].process \in Process /\ call[s].case \in CaseId
    BY DEF CallsOK, OpenCall, SupplyCall
  <1>2. threads' \in [Process -> [CaseId -> Thread \cup {None}]]
    BY <1>1 DEF CallsOK, Checkpoint
  <1>3. run' = [run EXCEPT ![s] = r] /\ r # None
    BY NoneIsNoCall DEF Checkpoint
  <1> QED BY <1>2, <1>3 DEF CallsOK, CallsChange, ReceiptsChange

\* So does the whole system when a session is through.
LEMMA FinishKeeps ==
    ASSUME CallsOK, NEW s \in Session, Finish(s), UNCHANGED << threads, receipts, restarts >>
    PROVE  CallsOK' /\ CallsChange /\ ReceiptsChange
  BY DEF CallsOK, Finish, CallsChange, ReceiptsChange

\* A call that begins on thread r of its process.
LEMMA BeginKeeps ==
    ASSUME CallsOK, NEW s \in Session, NEW p \in Process, NEW c \in CaseId,
           NEW o \in OpenCall \cup SupplyCall, NEW r \in Thread,
           call' = [call EXCEPT ![s] = o], run' = [run EXCEPT ![s] = r],
           threads' = [threads EXCEPT ![p][c] = r],
           UNCHANGED << receipts, restarts >>
    PROVE  CallsOK'
  <1>1. o # None /\ r # None
    BY NoneIsNoCall
  <1>2. threads' \in [Process -> [CaseId -> Thread \cup {None}]]
    BY DEF CallsOK
  <1> QED BY <1>1, <1>2 DEF CallsOK

LEMMA WorkflowKeeps ==
    ASSUME ServiceInv, CallsOK, NEW s \in Session, Assess(s) \/ Investigate(s)
    PROVE  CallsOK' /\ CallsChange /\ ReceiptsChange
  <1>1. call[s] # None /\ run[s] \in Thread
    BY CallsAreTyped DEF ServiceInv, Assess, Investigate
  <1>2. PICK r \in Thread : Checkpoint(s, r)
    <2>1. CASE Assess(s)
      <3>1. PICK flagged \in BOOLEAN :
              Checkpoint(s, [run[s] EXCEPT !.at =
                  IF flagged THEN "investigate"
                  ELSE IF run[s].raises THEN "pending_review" ELSE "cleared"])
        BY <2>1 DEF Assess
      <3>2. \A l \in {"investigate", "pending_review", "cleared"} :
                [run[s] EXCEPT !.at = l] \in Thread
        BY <1>1 DEF Thread
      <3> QED BY <3>1, <3>2
    <2>2. CASE Investigate(s)
      <3>1. PICK asks \in BOOLEAN, raises \in BOOLEAN :
              Checkpoint(s, [run[s] EXCEPT
                 !.raises = raises,
                 !.at = IF asks /\ MayAsk(run[s]) THEN "awaiting_information"
                                                  ELSE "pending_review"])
        BY <2>2 DEF Investigate
      <3>2. \A l \in {"awaiting_information", "pending_review"} :
                [run[s] EXCEPT !.raises = raises, !.at = l] \in Thread
        BY <1>1 DEF Thread
      <3> QED BY <3>1, <3>2
    <2> QED BY <2>1, <2>2
  <1>3. UNCHANGED << receipts, call, restarts >>
    BY DEF Assess, Investigate
  <1> QED BY <1>1, <1>2, <1>3, CheckpointKeeps

\* A thread that takes an item is a thread.
LEMMA ResumedIsThread ==
    ASSUME NEW t \in Thread, NEW i \in Item
    PROVE  Resumed(t, i) \in Thread
  <1>1. t.rounds + 1 \in Nat /\ t.items \cup {i} \in SUBSET Item
    BY DEF Thread
  <1> QED BY <1>1 DEF Thread, Resumed

LEMMA OpenKeeps ==
    ASSUME CallsOK, NEW s \in Session, NEW p \in Process, NEW c \in CaseId, NEW k \in Key,
           Open(s, p, c, k)
    PROVE  CallsOK' /\ CallsChange /\ ReceiptsChange
  <1> DEFINE t == threads[p][c]
             r == IF t = None THEN Blank0 ELSE [t EXCEPT !.at = "assess"]
             o == [op |-> "open", process |-> p, case |-> c, key |-> k]
  <1>1. o \in OpenCall /\ o.op = "open"
    BY DEF OpenCall
  <1>2. r \in Thread
    <2>1. t \in Thread \cup {None}
      BY DEF CallsOK
    <2>2. Blank0 \in Thread
      BY DEF Thread, Blank0
    <2>3. t # None => [t EXCEPT !.at = "assess"] \in Thread
      BY <2>1 DEF Thread
    <2> QED BY <2>2, <2>3
  <1>3. /\ call' = [call EXCEPT ![s] = o] /\ run' = [run EXCEPT ![s] = r]
        /\ threads' = [threads EXCEPT ![p][c] = r]
        /\ UNCHANGED << receipts, restarts >>
    BY DEF Open
  <1> HIDE DEF o, r
  <1>4. CallsOK'
    BY <1>1, <1>2, <1>3, BeginKeeps
  <1> QED BY <1>1, <1>3, <1>4 DEF CallsOK, CallsChange, ReceiptsChange

LEMMA SupplyKeeps ==
    ASSUME ServiceInv, CallsOK, NEW s \in Session, NEW p \in Process, NEW c \in CaseId,
           NEW i \in Item, Supply(s, p, c, i)
    PROVE  CallsOK' /\ CallsChange /\ ReceiptsChange
  <1> DEFINE t == threads[p][c]
             r == IF t.at = "awaiting_information" THEN Resumed(t, i) ELSE t
             o == [op |-> "supply", process |-> p, case |-> c,
                   expected |-> cases[c].version, item |-> i]
  <1>1. /\ cases[c] # None /\ AwaitsInformation(cases[c])
        /\ t # None
        /\ call' = [call EXCEPT ![s] = o] /\ run' = [run EXCEPT ![s] = r]
        /\ threads' = [threads EXCEPT ![p][c] = r]
        /\ UNCHANGED << db, receipts, restarts >>
    BY DEF Supply, Resumable
  <1>2. o \in SupplyCall /\ o.case = c /\ o.expected = cases[c].version
    BY <1>1 DEF ServiceInv, TypeOK, Row, SupplyCall
  <1>3. r \in Thread
    <2>1. t \in Thread
      BY <1>1 DEF CallsOK
    <2> QED BY <2>1, ResumedIsThread
  <1> HIDE DEF o, r
  <1>4. CallsOK'
    BY <1>1, <1>2, <1>3, BeginKeeps
  <1>5. CallsChange
    BY <1>1, <1>2 DEF CallsOK, CallsChange
  <1> QED BY <1>1, <1>4, <1>5 DEF ReceiptsChange

LEMMA HandOffKeeps ==
    ASSUME CallsOK, NEW p \in Process, NEW c \in CaseId, HandOff(p, c)
    PROVE  CallsOK' /\ CallsChange /\ ReceiptsChange
  <1>1. /\ cases[c] # None /\ IsApproved(cases[c])
        /\ receipts' = [receipts EXCEPT ![p] = @ \cup {c}]
        /\ UNCHANGED << threads, call, run, restarts >>
    BY DEF HandOff, MayHandOff
  <1> QED BY <1>1 DEF CallsOK, CallsChange, ReceiptsChange

LEMMA RestartKeeps ==
    ASSUME CallsOK, NEW p \in Process, Restart(p)
    PROVE  CallsOK' /\ CallsChange /\ ReceiptsChange
  <1> DEFINE dead == {s \in Session : call[s] # None /\ call[s].process = p}
  <1>1. /\ threads' = [threads EXCEPT ![p] = [c \in CaseId |-> None]]
        /\ receipts' = [receipts EXCEPT ![p] = {}]
        /\ call' = [s \in Session |-> IF s \in dead THEN None ELSE call[s]]
        /\ run' = [s \in Session |-> IF s \in dead THEN None ELSE run[s]]
    BY DEF Restart
  <1>2. restarts' \in 0..MaxRestarts
    BY BoundsAssumption DEF Restart, CallsOK
  <1> HIDE DEF dead
  <1>3. threads' \in [Process -> [CaseId -> Thread \cup {None}]]
    BY <1>1 DEF CallsOK
  <1> QED BY <1>1, <1>2, <1>3 DEF CallsOK, CallsChange, ReceiptsChange

\* Every step keeps the calls and the processes well typed.
LEMMA CallsKeep ==
    ASSUME ServiceInv, CallsOK, [Next]_vars
    PROVE  CallsOK' /\ CallsChange /\ ReceiptsChange
  <1>1. ASSUME NEW s \in Session, RecordOpening(s) \/ RecordProgress(s) \/ InvestigationBreaks(s)
        PROVE  CallsOK' /\ CallsChange /\ ReceiptsChange
    BY <1>1, FinishKeeps DEF RecordOpening, RecordProgress, InvestigationBreaks
  <1>2. ASSUME NEW c \in CaseId, NEW ch, Review(c, ch)
        PROVE  CallsOK' /\ CallsChange /\ ReceiptsChange
    BY <1>2 DEF Review, CallsOK, CallsChange, ReceiptsChange
  <1>3. CASE UNCHANGED vars
    BY <1>3 DEF vars, CallsOK, CallsChange, ReceiptsChange
  <1> QED BY <1>1, <1>2, <1>3, WorkflowKeeps, OpenKeeps, SupplyKeeps, HandOffKeeps, RestartKeeps
          DEF Next, Step, SupplyAgain

-------------------------------------------------------------------------------
(* The theorems.                                                            *)

LEMMA ServiceBegins == Init => ServiceInv
  <1> SUFFICES ASSUME Init PROVE ServiceInv
    OBVIOUS
  <1>1. << >> \in Seq(Event)
    OBVIOUS
  <1>2. TypeOK
    BY <1>1, BoundsAssumption DEF Init, TypeOK
  <1> QED BY <1>2 DEF Init, ServiceInv, SuppliesAreInvited, DecidedIsResolved, GatewayNeedsApproval

LEMMA ServiceKeeps == ServiceInv /\ [Next]_vars => ServiceInv'
  <1> SUFFICES ASSUME ServiceInv, [Next]_vars PROVE ServiceInv'
    OBVIOUS
  <1>1. DatabaseOK' /\ RowsGrow
    BY DatabaseGrows
  <1>2. CallsOK' /\ CallsChange /\ ReceiptsChange
    BY CallsKeep DEF ServiceInv, TypeOK, CallsOK
  <1>3. TypeOK'
    BY <1>1, <1>2 DEF DatabaseOK, CallsOK, TypeOK
  <1>4. SuppliesAreInvited'
    <2> SUFFICES ASSUME NEW s \in Session, call'[s] # None, call'[s].op = "supply"
                 PROVE  LET c == call'[s].case IN
                        /\ cases'[c] # None
                        /\ call'[s].expected <= cases'[c].version
                        /\ call'[s].expected = cases'[c].version => AwaitsInformation(cases'[c])
      BY DEF SuppliesAreInvited
    <2>1. CASE call'[s] = call[s]
      BY <1>1, <2>1, SuppliesStayInvited
    <2>2. CASE call'[s] # call[s]
      <3> DEFINE c == call'[s].case
      <3>1. /\ UNCHANGED db
            /\ c \in CaseId /\ cases[c] # None /\ AwaitsInformation(cases[c])
            /\ call'[s].expected = cases[c].version
        BY <1>2, <2>2 DEF CallsChange
      <3>2. cases[c].version \in Nat
        BY <3>1 DEF ServiceInv, TypeOK, Row
      <3> QED BY <3>1, <3>2 DEF db
    <2> QED BY <2>1, <2>2
  <1>5. GatewayNeedsApproval'
    <2> SUFFICES ASSUME NEW p \in Process, NEW c \in receipts'[p]
                 PROVE  cases'[c] # None /\ IsApproved(cases'[c])
      BY DEF GatewayNeedsApproval
    <2>1. c \in CaseId
      BY <1>2 DEF CallsOK
    <2>2. cases[c] # None /\ IsApproved(cases[c])
      BY <1>2 DEF ReceiptsChange, ServiceInv, GatewayNeedsApproval
    <2> QED BY <1>1, <2>1, <2>2 DEF RowsGrow
  <1> QED BY <1>1, <1>3, <1>4, <1>5 DEF DatabaseOK, ServiceInv

\* The inductive invariant of the service: what a call still in flight may
\* rely on, over every overlap and restart (review/service.py).
THEOREM ServiceInvariant == Spec => []ServiceInv
  BY ServiceBegins, ServiceKeeps, PTL DEF Spec

\* The state of the service is well typed for any number of processes and calls.
THEOREM ServiceTypeCorrect == Spec => []TypeOK
  BY ServiceInvariant, PTL DEF ServiceInv

\* However many processes restart and hand-offs race, the gateway has only heard
\* of approved cases (service.py hand_off, gateway/base.py).
THEOREM GatewayIsGated == Spec => []GatewayNeedsApproval
  BY ServiceInvariant, PTL DEF ServiceInv

\* The operators of the instance are those of CaseRecord.
LEMMA SameOpening ==
    ASSUME NEW c, NEW k, NEW st, NEW v, OpensCase(c, k, st, v)
    PROVE  Atomic!Open(c, k, st, v)
  <1>1. NewRow(k, st, v) = Atomic!NewRow(k, st, v)
    BY DEF NewRow, Atomic!NewRow
  <1>2. OpeningEvents(k, st, v) = Atomic!OpeningEvents(k, st, v)
    BY DEF OpeningEvents, Atomic!OpeningEvents, Opened, Atomic!Opened, ProgressEvents,
           Atomic!ProgressEvents, Requested, Atomic!Requested, Decided, Atomic!Decided
  <1> QED BY <1>1, <1>2 DEF OpensCase, Atomic!Open

LEMMA SameChange ==
    ASSUME NEW c, NEW ch, ChangesCase(c, ch)
    PROVE  Atomic!Commit(c, ch)
  <1>1. /\ Legal(cases[c], ch) = Atomic!Legal(cases[c], ch)
        /\ Invited(cases[c], ch) = Atomic!Invited(cases[c], ch)
    BY DEF Legal, Atomic!Legal, MayClaim, Atomic!MayClaim, MayRelease, Atomic!MayRelease,
           MayResolve, Atomic!MayResolve, Terminal, Atomic!Terminal, Invited, Atomic!Invited,
           AwaitsInformation, Atomic!AwaitsInformation, IsApproved, Atomic!IsApproved
  <1>2. Bumped(cases[c], ch) = Atomic!Bumped(cases[c], ch)
    BY DEF Bumped, Atomic!Bumped, Assigned, Atomic!Assigned, Progressed, Atomic!Progressed,
           Claimed, Atomic!Claimed, Released, Atomic!Released, Resolved, Atomic!Resolved,
           HandedOff, Atomic!HandedOff
  <1>3. Events(cases[c], ch) = Atomic!Events(cases[c], ch)
    BY DEF Events, Atomic!Events, Supplied, Atomic!Supplied, ProgressEvents,
           Atomic!ProgressEvents, Requested, Atomic!Requested, Decided, Atomic!Decided
  <1> QED BY <1>1, <1>2, <1>3 DEF ChangesCase, Apply, Atomic!Commit

LEMMA SameSets == RowChange = Atomic!RowChange /\ OpeningStatus = Atomic!OpeningStatus
  BY DEF OpeningStatus, Atomic!OpeningStatus, RowChange, Atomic!RowChange,
         ProgressChange, Atomic!ProgressChange, ClaimChange, Atomic!ClaimChange,
         ReleaseChange, Atomic!ReleaseChange, ResolveChange, Atomic!ResolveChange,
         HandoffChange, Atomic!HandoffChange

\* The service implements the abstract store: every row and every audit trail
\* it leaves behind, the store's own operations could have left (service.py).
THEOREM ServiceKeepsPromises == Spec => KeepsPromises
  <1>1. Init => Atomic!Init
    BY DEF Init, Atomic!Init
  <1>2. ServiceInv /\ [Next]_vars => [Atomic!Next]_(Atomic!vars)
    <2> SUFFICES ASSUME ServiceInv, [Next]_vars PROVE [Atomic!Next]_(Atomic!vars)
      OBVIOUS
    <2>1. CASE UNCHANGED db
      BY <2>1 DEF db, Atomic!vars
    <2>2. ASSUME NEW c \in CaseId, NEW k \in Key, NEW st \in OpeningStatus, NEW v \in Verdict,
                 OpensCase(c, k, st, v)
          PROVE  Atomic!Next
      BY <2>2, SameOpening, SameSets DEF Atomic!Next
    <2>3. ASSUME NEW c \in CaseId, NEW ch \in RowChange, ChangesCase(c, ch)
          PROVE  Atomic!Next
      BY <2>3, SameChange, SameSets DEF Atomic!Next
    <2> QED BY <2>1, <2>2, <2>3, StepEffect
  <1> QED BY <1>1, <1>2, ServiceInvariant, PTL DEF Spec, KeepsPromises, Atomic!Spec

-------------------------------------------------------------------------------
(* Rounds and evidence.                                                     *)

\* A thread has no more items than rounds, no more rounds than there may be, and
\* when it asks a round is left.
Earned(t) ==
    /\ IsFiniteSet(t.items)
    /\ Cardinality(t.items) <= t.rounds
    /\ t.rounds <= MaxRounds
    /\ t.at = "awaiting_information" => t.rounds < MaxRounds

ThreadsAreEarned ==
    /\ \A p \in Process, c \in CaseId : threads[p][c] # None => Earned(threads[p][c])
    /\ \A s \in Session : run[s] # None => Earned(run[s])

\* The inductive invariant of rounds and evidence.
RoundsInv == ServiceInv /\ ThreadsAreEarned /\ EvidenceFitsRounds

\* A new thread has nothing and may ask as often as any.
LEMMA BlankIsEarned == Earned(Blank0)
  BY FS_EmptySet, BoundsAssumption DEF Earned, Blank0

\* A node that does not ask leaves a thread what it has.
LEMMA MovesAreEarned ==
    ASSUME NEW t \in Thread, Earned(t), NEW l, NEW b,
           l = "awaiting_information" => t.rounds < MaxRounds
    PROVE  Earned([t EXCEPT !.raises = b, !.at = l]) /\ Earned([t EXCEPT !.at = l])
  BY DEF Earned, Thread

\* An answer is one item at most for the round it ends.
LEMMA AnswersAreEarned ==
    ASSUME NEW t \in Thread, Earned(t), t.at = "awaiting_information", NEW i \in Item
    PROVE  Earned(Resumed(t, i))
  <1> DEFINE r == Resumed(t, i)
  <1>1. /\ r.items = t.items \cup {i} /\ r.rounds = t.rounds + 1 /\ r.at = "investigate"
    BY DEF Resumed, Thread
  <1>2. /\ IsFiniteSet(t.items) /\ Cardinality(t.items) \in Nat
        /\ Cardinality(t.items) <= t.rounds /\ t.rounds < MaxRounds
        /\ t.rounds \in Nat /\ MaxRounds \in Nat
    BY FS_CardinalityType, BoundsAssumption DEF Earned, Thread
  <1>3. /\ IsFiniteSet(t.items \cup {i})
        /\ \/ Cardinality(t.items \cup {i}) = Cardinality(t.items)
           \/ Cardinality(t.items \cup {i}) = Cardinality(t.items) + 1
    BY <1>2, FS_AddElement
  <1> HIDE DEF r
  <1>4. Cardinality(r.items) <= r.rounds /\ r.rounds <= MaxRounds
    BY <1>1, <1>2, <1>3
  <1> QED BY <1>1, <1>3, <1>4 DEF Earned, r

\* A thread that is as it was, or has earned what it has, and calls that are over or
\* go on with such a thread.
LEMMA EarnedStays ==
    ASSUME TypeOK, ThreadsAreEarned, NEW s \in Session, NEW p \in Process, NEW c \in CaseId,
           NEW r, Earned(r),
           threads' = [threads EXCEPT ![p][c] = r], run' = [run EXCEPT ![s] = r]
    PROVE  ThreadsAreEarned'
  BY DEF TypeOK, ThreadsAreEarned

LEMMA NodesKeepEarned ==
    ASSUME TypeOK, ThreadsAreEarned, NEW s \in Session, Assess(s) \/ Investigate(s)
    PROVE  ThreadsAreEarned'
  <1>1. /\ call[s] # None /\ run[s] \in Thread
        /\ call[s].process \in Process /\ call[s].case \in CaseId
    BY CallsAreTyped DEF Assess, Investigate
  <1>2. Earned(run[s])
    BY <1>1, NoneIsNoCall DEF ThreadsAreEarned
  <1>3. PICK r : Earned(r) /\ Checkpoint(s, r)
    <2>1. CASE Assess(s)
      <3>1. PICK l \in {"investigate", "pending_review", "cleared"} :
                Checkpoint(s, [run[s] EXCEPT !.at = l])
        BY <2>1 DEF Assess
      <3>2. Earned([run[s] EXCEPT !.at = l])
        BY <1>1, <1>2, MovesAreEarned
      <3> QED BY <3>1, <3>2
    <2>2. CASE Investigate(s)
      <3>1. PICK b \in BOOLEAN, l \in {"awaiting_information", "pending_review"} :
                /\ l = "awaiting_information" => MayAsk(run[s])
                /\ Checkpoint(s, [run[s] EXCEPT !.raises = b, !.at = l])
        BY <2>2 DEF Investigate
      <3>2. Earned([run[s] EXCEPT !.raises = b, !.at = l])
        BY <1>1, <1>2, <3>1, MovesAreEarned DEF MayAsk
      <3> QED BY <3>1, <3>2
    <2> QED BY <2>1, <2>2
  <1> QED BY <1>1, <1>3, EarnedStays DEF Checkpoint

LEMMA OpenKeepsEarned ==
    ASSUME TypeOK, ThreadsAreEarned, NEW s \in Session, NEW p \in Process, NEW c \in CaseId,
           NEW k \in Key, Open(s, p, c, k)
    PROVE  ThreadsAreEarned'
  <1> DEFINE t == threads[p][c]
             r == IF t = None THEN Blank0 ELSE [t EXCEPT !.at = "assess"]
  <1>1. t \in Thread \cup {None} /\ (t # None => Earned(t))
    BY DEF TypeOK, ThreadsAreEarned
  <1>2. Earned(r)
    BY <1>1, BlankIsEarned, MovesAreEarned
  <1>3. threads' = [threads EXCEPT ![p][c] = r] /\ run' = [run EXCEPT ![s] = r]
    BY DEF Open
  <1> HIDE DEF r
  <1> QED BY <1>2, <1>3, EarnedStays

LEMMA SupplyKeepsEarned ==
    ASSUME TypeOK, ThreadsAreEarned, NEW s \in Session, NEW p \in Process, NEW c \in CaseId,
           NEW i \in Item, Supply(s, p, c, i)
    PROVE  ThreadsAreEarned'
  <1> DEFINE t == threads[p][c]
             r == IF t.at = "awaiting_information" THEN Resumed(t, i) ELSE t
  <1>1. t \in Thread /\ Earned(t)
    BY DEF TypeOK, ThreadsAreEarned, Supply, Resumable
  <1>2. Earned(r)
    BY <1>1, AnswersAreEarned
  <1>3. threads' = [threads EXCEPT ![p][c] = r] /\ run' = [run EXCEPT ![s] = r]
    BY DEF Supply
  <1> HIDE DEF r
  <1> QED BY <1>2, <1>3, EarnedStays

\* The processes and the calls, whatever overlaps.
LEMMA EarnedKeeps ==
    ASSUME TypeOK, ThreadsAreEarned, [Next]_vars
    PROVE  ThreadsAreEarned'
  <1>1. ASSUME NEW s \in Session, RecordOpening(s) \/ RecordProgress(s) \/ InvestigationBreaks(s)
        PROVE  ThreadsAreEarned'
    BY <1>1 DEF RecordOpening, RecordProgress, InvestigationBreaks, Finish, TypeOK,
                ThreadsAreEarned
  <1>2. ASSUME NEW p \in Process, Restart(p) PROVE ThreadsAreEarned'
    BY <1>2 DEF Restart, TypeOK, ThreadsAreEarned
  <1>3. CASE UNCHANGED << threads, run >>
    BY <1>3 DEF ThreadsAreEarned
  <1> QED BY <1>1, <1>2, <1>3, NodesKeepEarned, OpenKeepsEarned, SupplyKeepsEarned
          DEF Next, Step, SupplyAgain, Review, HandOff, vars

\* What may be recorded of a thread that has earned it, in these terms.
WithinRounds(items, status) ==
    /\ Cardinality(items) <= MaxRounds
    /\ status = "awaiting_information" => Cardinality(items) < MaxRounds

LEMMA EarnedFits ==
    ASSUME NEW t \in Thread, Earned(t)
    PROVE  WithinRounds(t.items, t.at)
  <1>1. Cardinality(t.items) \in Nat /\ t.rounds \in Nat /\ MaxRounds \in Nat
    BY FS_CardinalityType, BoundsAssumption DEF Earned, Thread
  <1> QED BY <1>1 DEF Earned, WithinRounds

LEMMA FitsIs ==
    EvidenceFitsRounds <=>
        \A c \in CaseId : cases[c] # None => WithinRounds(cases[c].verdict, cases[c].status)
  BY DEF EvidenceFitsRounds, WithinRounds, AwaitsInformation

\* People change no verdict and never make a case wait again.
LEMMA PeopleFit ==
    ASSUME NEW r \in Row, WithinRounds(r.verdict, r.status),
           NEW ch \in ClaimChange \cup ReleaseChange \cup ResolveChange \cup HandoffChange
    PROVE  WithinRounds(Bumped(r, ch).verdict, Bumped(r, ch).status)
  <1>1. Bumped(r, ch).verdict = r.verdict
    BY DEF ClaimChange, ReleaseChange, ResolveChange, HandoffChange, Bumped, Assigned,
           Claimed, Released, Resolved, HandedOff, Row
  <1>2. Bumped(r, ch).status = "awaiting_information" => r.status = "awaiting_information"
    BY DEF ClaimChange, ReleaseChange, ResolveChange, HandoffChange, Bumped, Assigned,
           Claimed, Released, Resolved, HandedOff, Row
  <1> QED BY <1>1, <1>2 DEF WithinRounds

LEMMA OpeningFits ==
    ASSUME RoundsInv, NEW s \in Session, RecordOpening(s)
    PROVE  EvidenceFitsRounds'
  <1> DEFINE c == call[s].case
             row == NewRow(call[s].key, run[s].at, run[s].items)
  <1>1. c \in CaseId /\ run[s] \in Thread /\ Earned(run[s])
    BY CallsAreTyped, NoneIsNoCall
       DEF RoundsInv, ServiceInv, ThreadsAreEarned, RecordOpening, Returned
  <1>2. WithinRounds(row.verdict, row.status)
    BY <1>1, EarnedFits DEF NewRow
  <1>3. UNCHANGED cases \/ cases' = [cases EXCEPT ![c] = row]
    BY DEF RecordOpening, db
  <1> HIDE DEF row
  <1>4. \A d \in CaseId : cases'[d] # None => WithinRounds(cases'[d].verdict, cases'[d].status)
    BY <1>1, <1>2, <1>3, FitsIs DEF RoundsInv, ServiceInv, TypeOK
  <1> QED BY <1>4 DEF EvidenceFitsRounds, WithinRounds, AwaitsInformation

LEMMA ProgressFits ==
    ASSUME RoundsInv, NEW s \in Session, RecordProgress(s)
    PROVE  EvidenceFitsRounds'
  <1> DEFINE c == call[s].case
             ch == [op |-> "progress", item |-> call[s].item,
                    status |-> run[s].at, verdict |-> run[s].items]
             row == Bumped(cases[c], ch)
  <1>1. /\ c \in CaseId /\ run[s] \in Thread /\ Earned(run[s])
        /\ call[s].op = "supply" /\ cases[c] \in Row
    BY CallsAreTyped, NoneIsNoCall
       DEF RoundsInv, ServiceInv, TypeOK, SuppliesAreInvited, ThreadsAreEarned, RecordProgress,
           Returned
  <1>2. row.verdict = run[s].items /\ row.status = run[s].at
    BY <1>1 DEF Bumped, Assigned, Progressed, Row
  <1>3. UNCHANGED cases \/ cases' = [cases EXCEPT ![c] = row]
    BY DEF RecordProgress, Apply, db
  <1> HIDE DEF row, ch
  <1>4. WithinRounds(row.verdict, row.status)
    BY <1>1, <1>2, EarnedFits
  <1>5. \A d \in CaseId : cases'[d] # None => WithinRounds(cases'[d].verdict, cases'[d].status)
    BY <1>1, <1>3, <1>4, FitsIs DEF RoundsInv, ServiceInv, TypeOK
  <1> QED BY <1>5 DEF EvidenceFitsRounds, WithinRounds, AwaitsInformation

LEMMA HumansFit ==
    ASSUME RoundsInv, NEW c \in CaseId,
           \/ \E ch \in ClaimChange \cup ReleaseChange \cup ResolveChange : Review(c, ch)
           \/ \E p \in Process : HandOff(p, c)
    PROVE  EvidenceFitsRounds'
  <1>1. cases[c] \in Row /\ WithinRounds(cases[c].verdict, cases[c].status)
    BY FitsIs DEF RoundsInv, ServiceInv, TypeOK, Review, HandOff
  <1>2. CASE UNCHANGED cases
    BY <1>2 DEF RoundsInv, EvidenceFitsRounds
  <1>3. ASSUME NEW ch \in ClaimChange \cup ReleaseChange \cup ResolveChange \cup HandoffChange,
               Apply(c, ch)
        PROVE  EvidenceFitsRounds'
    <2> DEFINE row == Bumped(cases[c], ch)
    <2>1. WithinRounds(row.verdict, row.status)
      BY <1>1, PeopleFit
    <2>2. cases' = [cases EXCEPT ![c] = row]
      BY <1>3 DEF Apply
    <2> HIDE DEF row
    <2>3. \A d \in CaseId : cases'[d] # None => WithinRounds(cases'[d].verdict, cases'[d].status)
      BY <2>1, <2>2, FitsIs DEF RoundsInv, ServiceInv, TypeOK
    <2> QED BY <2>3 DEF EvidenceFitsRounds, WithinRounds, AwaitsInformation
  <1>4. [op |-> "handoff"] \in HandoffChange
    BY DEF HandoffChange
  <1> QED BY <1>2, <1>3, <1>4 DEF Review, HandOff, db

\* Every step keeps rounds and evidence together.
LEMMA RoundsKeep == RoundsInv /\ [Next]_vars => RoundsInv'
  <1> SUFFICES ASSUME RoundsInv, [Next]_vars PROVE RoundsInv'
    OBVIOUS
  <1>1. ServiceInv'
    BY ServiceKeeps DEF RoundsInv
  <1>2. ThreadsAreEarned'
    BY EarnedKeeps DEF RoundsInv, ServiceInv
  <1>3. EvidenceFitsRounds'
    <2>1. CASE UNCHANGED cases
      BY <2>1 DEF RoundsInv, EvidenceFitsRounds
    <2>2. ASSUME NEW s \in Session, Step(s) PROVE EvidenceFitsRounds'
      BY <2>1, <2>2, OpeningFits, ProgressFits DEF Step, Assess, Investigate, db
    <2> QED BY <2>1, <2>2, HumansFit
            DEF Next, SupplyAgain, InvestigationBreaks, Open, Supply, Restart, vars, db
  <1> QED BY <1>1, <1>2, <1>3 DEF RoundsInv

\* The inductive invariant of rounds and evidence, over every overlap, break and
\* restart (graph.py _route_after_investigation, _await_information).
THEOREM RoundsInvariant == Spec => []RoundsInv
  <1>1. Init => RoundsInv
    BY ServiceBegins DEF Init, RoundsInv, ThreadsAreEarned, EvidenceFitsRounds
  <1> QED BY <1>1, RoundsKeep, PTL DEF Spec

\* However many processes and calls there are and whatever the cap is, no recorded
\* run has taken more items into account than there are rounds, and one that asks
\* has a round left for the answer (graph.py max_information_requests).
THEOREM EvidenceStaysWithinRounds == Spec => []EvidenceFitsRounds
  BY RoundsInvariant, PTL DEF RoundsInv

===============================================================================
