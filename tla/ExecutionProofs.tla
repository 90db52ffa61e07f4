-------------------------- MODULE ExecutionProofs --------------------------
(***************************************************************************)
(* Theorems about Execution, and about the whole of it with the monitor's  *)
(* watch over pending orders (PendingWatch), for every set of requests and *)
(* executors and every value of the durations and bounds: the type         *)
(* invariant, the inductive invariant IInv with the safety properties it   *)
(* contains, that Execution implements OneOrder, that what the table says  *)
(* of an order is true, that "never placed" is right when the broker       *)
(* decides within the grace, and that the monitor keeps all of this.       *)
(***************************************************************************)
EXTENDS PendingWatch, FiniteSetTheorems, TLAPS

-----------------------------------------------------------------------------
(* The rows the store writes are rows.                                       *)

\* The statuses and instants the methods write are of the right type.
LEMMA Written ==
    /\ Status \subseteq StoredStatus
    /\ {"ABSENT", "REQUESTED", "CONFIRMED", "EXECUTING", "FAILED_STALE"} \subseteq StoredStatus
    /\ \A now \in Nat : {now, now + Ttl, now + LeaseTime} \subseteq Instant
  BY DurationsAreNat DEF StoredStatus, Status, Instant

\* A new row is a row.
LEMMA NewRowTypes ==
    /\ NoRow \in TradeRequest
    /\ \A k \in Kind : Created(k) \in TradeRequest
<1>1. NoRow \in TradeRequest
  BY Written DEF NoRow, TradeRequest, Instant, Failure, Kind
<1>2. \A k \in Kind : Created(k) \in TradeRequest
  BY <1>1, Written DEF Created, TradeRequest
<1>. QED BY <1>1, <1>2

\* Every method of the trade-request repository turns a well-formed row into
\* a well-formed row.
LEMMA RowTypes ==
    ASSUME NEW q \in TradeRequest, NEW now \in Nat
    PROVE  /\ Confirmed(q, now) \in TradeRequest
           /\ \A e \in Executor : Claimed(q, e, now) \in TradeRequest
           /\ MarkedStale(q) \in TradeRequest
           /\ Renewed(q, now) \in TradeRequest
           /\ Stamped(q) \in TradeRequest
           /\ \A s \in StoredStatus : Resolved(q, s) \in TradeRequest
           /\ \A s \in StoredStatus, u \in BOOLEAN : Recorded(q, s, u) \in TradeRequest
           /\ \A s \in StoredStatus, f \in Failure :
                [Resolved(q, s) EXCEPT !.failure = f] \in TradeRequest
<1> USE Written DEF TradeRequest
<1>3. Confirmed(q, now) \in TradeRequest BY DEF Confirmed
<1>4. \A e \in Executor : Claimed(q, e, now) \in TradeRequest BY DEF Claimed
<1>5. MarkedStale(q) \in TradeRequest BY DEF MarkedStale
<1>6. Renewed(q, now) \in TradeRequest BY DEF Renewed
<1>7. Stamped(q) \in TradeRequest BY DEF Stamped
<1>8. \A s \in StoredStatus : Resolved(q, s) \in TradeRequest BY DEF Resolved
<1>9. \A s \in StoredStatus, f \in Failure :
         [Resolved(q, s) EXCEPT !.failure = f] \in TradeRequest
  BY DEF Resolved
<1>10. \A s \in StoredStatus, u \in BOOLEAN : Recorded(q, s, u) \in TradeRequest
  BY DEF Recorded
<1>. QED BY <1>3, <1>4, <1>5, <1>6, <1>7, <1>8, <1>9, <1>10

-----------------------------------------------------------------------------
(* The type invariant.                                                       *)

LEMMA InitType == Init => TypeOK
<1> SUFFICES ASSUME Init PROVE TypeOK
  OBVIOUS
<1>1. NoRow \in TradeRequest
  BY NewRowTypes
<1>2. NoOrder \in OrderBook
  BY ExecutionAssumption DEF NoOrder, OrderBook
<1>. QED BY <1>1, <1>2 DEF Init, TypeOK, Mode, Step, Answer

\* The callbacks of the confirmation view keep the types.
LEMMA DiscordType ==
    ASSUME TypeOK, NEW r \in Request, Discord(r)
    PROVE  TypeOK'
<1> USE DEF TypeOK, discord, worker, booting, broker
<1>1. CASE \E k \in Kinds : Submit(r, k)
  <2>1. PICK k \in Kinds : Submit(r, k) BY <1>1
  <2>2. Created(k) \in TradeRequest BY NewRowTypes, ExecutionAssumption
  <2>. QED BY <2>1, <2>2 DEF Submit
<1>2. CASE PressConfirm(r)
  <2>1. handling[r] \cup {"confirm"} \in SUBSET Callback BY DEF Callback
  <2>2. handling' \in [Request -> SUBSET Callback] BY <1>2, <2>1 DEF PressConfirm
  <2>. QED BY <1>2, <2>2 DEF PressConfirm
<1>3. CASE ConfirmWrite(r) BY <1>3, RowTypes DEF ConfirmWrite, Callback
<1>4. CASE ConfirmRefused(r) BY <1>4 DEF ConfirmRefused, Callback
<1>5. CASE DisableView(r) BY <1>5 DEF DisableView
<1>6. CASE PressCancel(r)
  <2>1. handling[r] \cup {"cancel"} \in SUBSET Callback BY DEF Callback
  <2>2. handling' \in [Request -> SUBSET Callback] BY <1>6, <2>1 DEF PressCancel
  <2>. QED BY <1>6, <2>2 DEF PressCancel
<1>7. CASE CancelWrite(r)
  <2>1. "CANCELLED" \in StoredStatus BY DEF StoredStatus, Status
  <2>2. req[r] \in TradeRequest /\ clock \in Nat OBVIOUS
  <2>x. Resolved(req[r], "CANCELLED") \in TradeRequest BY <2>1, <2>2, RowTypes
  <2>3. req' \in [Request -> TradeRequest] BY <1>7, <2>x DEF CancelWrite
  <2>4. view' \in [Request -> {"none", "live", "stopped"}] BY <1>7 DEF CancelWrite
  <2>. QED BY <1>7, <2>3, <2>4 DEF CancelWrite
<1>8. CASE ViewTimeout(r) BY <1>8 DEF ViewTimeout
<1>. QED BY <1>1, <1>2, <1>3, <1>4, <1>5, <1>6, <1>7, <1>8 DEF Discord

\* A process that returns from process(), or leaves it by an exception, keeps
\* the types of what it holds.
LEMMA LoopType ==
    ASSUME TypeOK, NEW e \in Executor, Done(e) \/ EndPoll(e)
    PROVE  /\ batch' \in [Executor -> SUBSET Request]
           /\ cur' \in [Executor -> Request \cup {None}]
           /\ step' \in [Executor -> Step]
           /\ answer' \in [Executor -> Answer]
  BY DEF TypeOK, Done, EndPoll, Step, Answer

\* A write of the worker, if it makes one.
LEMMA ResolvesShape ==
    ASSUME NEW e \in Executor, NEW s, Resolves(e, s)
    PROVE  /\ Done(e) \/ EndPoll(e)
           /\ \/ UNCHANGED req
              \/ \E u \in BOOLEAN :
                   /\ Accepts(req[cur[e]], s)
                   /\ u = (s = "FILLED" /\ answer[e] = "unsized")
                   /\ req' = [req EXCEPT ![cur[e]] = Recorded(@, s, u)]
  BY DEF Resolves, HolderMayResolve

LEMMA AdvanceType ==
    ASSUME TypeOK, NEW e \in Executor, NEW s \in Step, Advance(e, s)
    PROVE  /\ batch' \in [Executor -> SUBSET Request]
           /\ cur' \in [Executor -> Request \cup {None}]
           /\ step' \in [Executor -> Step]
           /\ answer' \in [Executor -> Answer]
  BY DEF TypeOK, Advance

\* A step past the claim is about a request.
LEMMA CurIsRequest ==
    ASSUME TypeOK, IdleHasNothing, NEW e \in Executor, step[e] # "idle"
    PROVE  cur[e] \in Request
  BY DEF TypeOK, IdleHasNothing

LEMMA StepNames == {"idle", "claimed", "passed", "stamped", "sending"} \subseteq Step
  BY DEF Step

LEMMA OutcomeType ==
    ASSUME NEW a, NEW r \in Request
    PROVE  Outcome(a, r) \in StoredStatus
  BY DEF Outcome, StoredStatus, Status

\* The steps of the executor's loop keep the types.
LEMMA WorkType ==
    ASSUME TypeOK, IdleHasNothing, NEW e \in Executor, Work(e)
    PROVE  TypeOK'
<1> USE DEF discord, worker, booting, broker
<1>1. CASE Poll(e) BY <1>1 DEF Poll, TypeOK
<1>2. ASSUME NEW r \in Request, Claim(e, r) PROVE TypeOK'
  <2>1. Claimed(req[r], e, clock) \in TradeRequest BY RowTypes DEF TypeOK
  <2>2. req' \in [Request -> TradeRequest] BY <1>2, <2>1 DEF Claim, TypeOK
  <2>3. step' \in [Executor -> Step] BY <1>2, StepNames DEF Claim, TypeOK
  <2>. QED BY <1>2, <2>2, <2>3 DEF Claim, TypeOK
<1>3. ASSUME NEW r \in Request, ClaimStale(e, r) PROVE TypeOK'
  <2>1. MarkedStale(req[r]) \in TradeRequest BY RowTypes DEF TypeOK
  <2>2. req' \in [Request -> TradeRequest] BY <1>3, <2>1 DEF ClaimStale, TypeOK
  <2>. QED BY <1>3, <2>2, LoopType DEF ClaimStale, TypeOK
<1>4. ASSUME NEW r \in Request, ClaimLost(e, r) PROVE TypeOK'
  BY <1>4, LoopType DEF ClaimLost, TypeOK
<1>5. CASE GuardPasses(e)
  BY <1>5, AdvanceType, StepNames DEF GuardPasses, TypeOK
<1>6. ASSUME NEW s \in StoredStatus, cur[e] \in Request, Resolves(e, s),
             UNCHANGED <<clock, discord, mode, sent, booting, broker, crashes>>
      PROVE  TypeOK'
  <2>1. \A u \in BOOLEAN : Recorded(req[cur[e]], s, u) \in TradeRequest
    BY <1>6, RowTypes DEF TypeOK
  <2>2. req' \in [Request -> TradeRequest] BY <1>6, <2>1, ResolvesShape DEF TypeOK
  <2>. QED BY <1>6, <2>2, ResolvesShape, LoopType DEF TypeOK
<1>7. CASE Stamp(e)
  <2>1. cur[e] \in Request BY <1>7, CurIsRequest DEF Stamp
  <2>2. Stamped(req[cur[e]]) \in TradeRequest BY <2>1, RowTypes DEF TypeOK
  <2>3. req' \in [Request -> TradeRequest] BY <1>7, <2>2 DEF Stamp, TypeOK
  <2>4. sent' \in [Executor -> SUBSET Request] BY <1>7, <2>1 DEF Stamp, TypeOK
  <2>5. Advance(e, "stamped") \/ EndPoll(e) BY <1>7 DEF Stamp
  <2>. QED
    BY <1>7, <2>3, <2>4, <2>5, AdvanceType, LoopType, StepNames DEF Stamp, TypeOK
<1>8. CASE Send(e)
  <2>1. cur[e] \in Request BY <1>8, CurIsRequest DEF Send
  <2>2. wire' \in SUBSET (Executor \X Request) BY <1>8, <2>1 DEF Send, TypeOK
  <2>. QED BY <1>8, <2>2, AdvanceType, StepNames DEF Send, TypeOK
<1>9. CASE SendUnknown(e) BY <1>9, LoopType DEF SendUnknown, TypeOK
<1>10. CASE GuardRefuses(e) \/ Record(e)
  <2>1. cur[e] \in Request BY <1>10, CurIsRequest DEF GuardRefuses, Record
  <2>2. PICK s \in StoredStatus : Resolves(e, s)
    BY <1>10, <2>1, OutcomeType DEF GuardRefuses, Record, StoredStatus, Status
  <2>. QED BY <1>6, <1>10, <2>1, <2>2 DEF GuardRefuses, Record
<1>. QED
  BY <1>1, <1>2, <1>3, <1>4, <1>5, <1>6, <1>7, <1>8, <1>9, <1>10 DEF Work

LEMMA KeepAliveType ==
    ASSUME TypeOK, IdleHasNothing, NEW e \in Executor, KeepAlive(e)
    PROVE  TypeOK'
<1>1. cur[e] \in Request BY CurIsRequest DEF KeepAlive
<1>2. Renewed(req[cur[e]], clock) \in TradeRequest BY <1>1, RowTypes DEF TypeOK
<1>3. req' \in [Request -> TradeRequest] BY <1>2 DEF KeepAlive, TypeOK
<1>. QED BY <1>3 DEF KeepAlive, TypeOK, discord, worker, booting, broker

LEMMA CrashType ==
    ASSUME TypeOK, NEW e \in Executor, Crash(e)
    PROVE  TypeOK'
  BY LoopType, None \in Probe \cup {None}
     DEF Crash, TypeOK, Mode, discord, worker, booting, broker

\* What a sweep lists, sees and decides is of the right type.
LEMMA EntryType ==
    ASSUME TypeOK, NEW r \in Request, req[r].status \in SweptStatuses
    PROVE  EntryOf(r) \in Entry
<1>1. book[r].filled \in 0..Volume BY DEF TypeOK, OrderBook
<1>. QED BY <1>1 DEF EntryOf, Entry

\* A verdict is one of three, by the status the sweep listed.
LEMMA VerdictCases ==
    ASSUME NEW p, NEW order, NEW deals
    PROVE  /\ p.entry.status = "EXECUTING" =>
                Verdict(p, order, deals) =
                  ExecutingVerdict(p.entry, p.position, order, deals)
           /\ p.entry.status = "PENDING" =>
                Verdict(p, order, deals) = PendingVerdict(p.entry, order, deals)
           /\ p.entry.status \notin {"EXECUTING", "PENDING"} =>
                Verdict(p, order, deals) = PartialVerdict(p.entry, deals)
<1>1. CASE p.entry.status = "EXECUTING" BY <1>1 DEF Verdict
<1>2. CASE p.entry.status = "PENDING" BY <1>2 DEF Verdict
<1>3. CASE p.entry.status \notin {"EXECUTING", "PENDING"} BY <1>3 DEF Verdict
<1>. QED BY <1>1, <1>2, <1>3

LEMMA VerdictType == \A p, order, deals : Verdict(p, order, deals) \in StoredStatus
  BY DEF Verdict, ExecutingVerdict, PendingVerdict, PartialVerdict, Filled, StoredStatus,
         Status

LEMMA FailureType == \A order, s : FailureOf(order, s) \in Failure
  BY DEF FailureOf, Failure

\* Start-up keeps the types.
LEMMA StartupType ==
    ASSUME TypeOK, NEW e \in Executor, Startup(e)
    PROVE  TypeOK'
<1> USE DEF discord, worker, booting, broker
<1>1. CASE Boot(e)
  <2>1. sweep' \in [Executor -> SUBSET Entry] BY <1>1, EntryType DEF Boot, TypeOK
  <2>2. mode' \in [Executor -> Mode] BY <1>1 DEF Boot, TypeOK, Mode
  <2>. QED BY <1>1, <2>1, <2>2 DEF Boot, TypeOK
<1>2. CASE Judge(e)
  <2>1. PICK order \in BOOLEAN, deals \in BOOLEAN :
           \/ req' = req
           \/ req' = [req EXCEPT ![probe[e].entry.id] =
                        [Resolved(req[probe[e].entry.id], Verdict(probe[e], order, deals))
                            EXCEPT !.failure = FailureOf(order, Verdict(probe[e], order, deals))]]
    BY <1>2 DEF Judge
  <2>2. probe[e].entry.id \in Request BY <1>2 DEF Judge, TypeOK, Probe, Entry
  <2>3. [Resolved(req[probe[e].entry.id], Verdict(probe[e], order, deals))
           EXCEPT !.failure = FailureOf(order, Verdict(probe[e], order, deals))]
             \in TradeRequest
    BY <2>2, RowTypes, FailureType, VerdictType DEF TypeOK
  <2>4. req' \in [Request -> TradeRequest] BY <2>1, <2>3 DEF TypeOK
  <2>5. probe' \in [Executor -> Probe \cup {None}] BY <1>2 DEF Judge, TypeOK
  <2>. QED BY <1>2, <2>4, <2>5 DEF Judge, TypeOK
<1>3. CASE Serve(e) BY <1>3 DEF Serve, TypeOK, Mode
<1>4. ASSUME NEW x \in sweep[e], ReadPositions(e, x) PROVE TypeOK'
  <2>1. x \in Entry BY DEF TypeOK
  <2>2. x.id \in Request /\ book[x.id].filled \in 0..Volume
    BY <2>1 DEF Entry, TypeOK, OrderBook
  <2>4. 0..book[x.id].filled \subseteq 0..Volume BY <2>2, ExecutionAssumption
  <2>5. PICK seen \in 0..Volume :
          probe' = [probe EXCEPT ![e] = [entry |-> x, position |-> seen]]
    BY <1>4, <2>4 DEF ReadPositions
  <2>6. [entry |-> x, position |-> seen] \in Probe BY <2>1 DEF Probe
  <2>7. probe' \in [Executor -> Probe \cup {None}] BY <2>5, <2>6 DEF TypeOK
  <2>3. sweep' \in [Executor -> SUBSET Entry] BY <1>4 DEF ReadPositions, TypeOK
  <2>. QED BY <1>4, <2>3, <2>7 DEF ReadPositions, TypeOK
<1>. QED BY <1>1, <1>2, <1>3, <1>4 DEF Startup

\* An answer of the broker is an answer.
LEMMA AnsweredType ==
    ASSUME TypeOK, NEW e \in Executor, NEW r \in Request, NEW a \in Answer,
           Answered(e, r, a)
    PROVE  answer' \in [Executor -> Answer]
  BY DEF Answered, TypeOK

\* What acceptance and a fill make of an order's records.
LEMMA OrderTypes ==
    ASSUME NEW b \in OrderBook
    PROVE  /\ Rested(b) \in OrderBook
           /\ \A v \in 1..Volume : Executed(b, v) \in OrderBook
           /\ \A v \in 1..Volume : FilledTo(b, v) \in OrderBook
<1>1. b.placed + 1 \in Nat BY DEF OrderBook
<1>2. 1..Volume \subseteq 0..Volume BY ExecutionAssumption
<1>3. Rested(b) \in OrderBook BY <1>1 DEF OrderBook, Rested
<1>4. \A v \in 0..Volume : Executed(b, v) \in OrderBook
  BY <1>1 DEF OrderBook, Executed
<1>5. \A v \in 0..Volume : FilledTo(b, v) \in OrderBook
  <2>1. \A v \in 0..Volume, left \in BOOLEAN :
          [b EXCEPT !.filled = v, !.open = TRUE, !.resting = left] \in OrderBook
    BY DEF OrderBook
  <2>2. \A v : (v < Volume) \in BOOLEAN OBVIOUS
  <2>. QED BY <2>1, <2>2, Zenon DEF FilledTo
<1>. QED BY <1>2, <1>3, <1>4, <1>5

\* An acceptance makes a resting order, or one filled in part or whole, and tells
\* the sender what was filled or leaves it out.
LEMMA AcceptShape ==
    ASSUME NEW e \in Executor, NEW r \in Request, BrokerAccepts(e, r)
    PROVE  \E v \in 1..Volume, a \in Acceptance :
             /\ \/ book' = [book EXCEPT ![r] = Rested(@)] /\ a = "unsized"
                \/ book' = [book EXCEPT ![r] = Executed(@, v)] /\ (a = "whole" => v = Volume)
             /\ Answered(e, r, a)
<1>1. CASE book' = [book EXCEPT ![r] = Rested(@)] /\ Answered(e, r, "unsized")
  <2>1. 1 \in 1..Volume /\ "unsized" \in Acceptance BY ExecutionAssumption DEF Acceptance
  <2>. QED BY <1>1, <2>1
<1>2. ASSUME NEW v \in 1..Volume, book' = [book EXCEPT ![r] = Executed(@, v)],
             NEW a \in {"unsized", IF v < Volume THEN "part" ELSE "whole"},
             Answered(e, r, a)
      PROVE  a \in Acceptance /\ (a = "whole" => v = Volume)
  BY <1>2, ExecutionAssumption DEF Acceptance
<1>. QED BY <1>1, <1>2 DEF BrokerAccepts

\* The broker's steps keep the types.
LEMMA BrokerType ==
    ASSUME TypeOK, Broker
    PROVE  TypeOK'
<1> USE ExecutionAssumption DEF discord, worker, booting, broker
<1>0. Acceptance \cup {"rejected"} \subseteq Answer BY DEF Answer
<1>1. ASSUME NEW e \in Executor, NEW r \in Request, BrokerAccepts(e, r)
      PROVE  TypeOK'
  <2>1. book[r] \in OrderBook BY DEF TypeOK
  <2>2. book' \in [Request -> OrderBook]
    <3>1. PICK v \in 1..Volume :
            \/ book' = [book EXCEPT ![r] = Rested(@)]
            \/ book' = [book EXCEPT ![r] = Executed(@, v)]
      BY <1>1, AcceptShape
    <3>. QED BY <2>1, <3>1, OrderTypes DEF TypeOK
  <2>3. answer' \in [Executor -> Answer] BY <1>0, <1>1, AnsweredType, AcceptShape
  <2>. QED BY <1>1, <2>2, <2>3 DEF BrokerAccepts, TypeOK
<1>2. ASSUME NEW e \in Executor, NEW r \in Request, BrokerRejects(e, r)
      PROVE  TypeOK'
  <2>1. answer' \in [Executor -> Answer] BY <1>0, <1>2, AnsweredType DEF BrokerRejects
  <2>. QED BY <1>2, <2>1 DEF BrokerRejects, TypeOK
<1>3. ASSUME NEW e \in Executor, NEW r \in Request, WireLoses(e, r)
      PROVE  TypeOK'
  BY <1>3 DEF WireLoses, TypeOK
<1>4. ASSUME NEW r \in Request, RestingFills(r) PROVE TypeOK'
  <2>1. book[r] \in OrderBook BY DEF TypeOK
  <2>2. PICK v \in (book[r].filled + 1)..Volume :
          book' = [book EXCEPT ![r] = FilledTo(@, v)]
    BY <1>4 DEF RestingFills
  <2>3. v \in 1..Volume BY <2>1 DEF OrderBook
  <2>5. book' \in [Request -> OrderBook] BY <2>1, <2>2, <2>3, OrderTypes DEF TypeOK
  <2>. QED BY <1>4, <2>5 DEF RestingFills, TypeOK
<1>5. ASSUME NEW r \in Request, RestingLeaves(r) PROVE TypeOK'
  <2>1. [book[r] EXCEPT !.resting = FALSE] \in OrderBook BY DEF TypeOK, OrderBook
  <2>2. book' \in [Request -> OrderBook] BY <1>5, <2>1 DEF RestingLeaves, TypeOK
  <2>. QED BY <1>5, <2>2 DEF RestingLeaves, TypeOK
<1>6. ASSUME NEW r \in Request, PositionCloses(r) PROVE TypeOK'
  <2>1. [book[r] EXCEPT !.open = FALSE] \in OrderBook BY DEF TypeOK, OrderBook
  <2>2. book' \in [Request -> OrderBook] BY <1>6, <2>1 DEF PositionCloses, TypeOK
  <2>. QED BY <1>6, <2>2 DEF PositionCloses, TypeOK
<1>. QED BY <1>1, <1>2, <1>3, <1>4, <1>5, <1>6 DEF Broker

\* Every step keeps the types.
LEMMA NextType ==
    ASSUME TypeOK, IdleHasNothing, [Next]_vars
    PROVE  TypeOK'
<1>1. CASE Tick BY <1>1 DEF Tick, TypeOK, discord, worker, booting, broker
<1>2. CASE UNCHANGED vars
  BY <1>2 DEF vars, TypeOK, discord, worker, booting, broker
<1>. QED
  BY <1>1, <1>2, DiscordType, WorkType, StartupType, KeepAliveType, CrashType,
     BrokerType
     DEF Next

-----------------------------------------------------------------------------
(* The inductive invariant.  A step either leaves the processes' hands, the  *)
(* wire and the book alone and only moves a row forward (QuietLinks), or     *)
(* takes a request out of a process's hands (DropLinks), or is one of the    *)
(* steps that make an order happen: Claim, GuardPasses, Stamp, Send and the  *)
(* broker's answers.                                                         *)

\* What every step but Claim and Stamp keeps of a row.
Kept(r) ==
    /\ req'[r].startedAt = req[r].startedAt
    /\ req'[r].status \in Unclaimed => req[r].startedAt = None
    /\ req'[r].status = "CONFIRMED" => req'[r].expiresAt # None
    /\ req'[r].status \in {"ABSENT", "REQUESTED"} => req'[r].expiresAt = None
    /\ req[r].startedAt # None =>
         /\ req'[r].holder = req[r].holder
         /\ req'[r].expiresAt = req[r].expiresAt
         /\ req[r].token => req'[r].token

\* A step that leaves the processes, the wire and the book alone, and writes
\* no failure, keeps the invariant.
LEMMA QuietLinks ==
    ASSUME TypeOK, Links, \A r \in Request : Kept(r),
           UNCHANGED <<cur, step, sent, answer, wire, book>>
    PROVE  Links'
<1> USE DEF Links, Kept, OnWire
<1>1. UnclaimedIsUnstarted' BY DEF UnclaimedIsUnstarted
<1>2. DeadlineIsConfirmations' BY DEF DeadlineIsConfirmations
<1>3. UnstartedIsUntouched' BY DEF UnstartedIsUntouched
<1>4. ClaimedInTime' BY DEF ClaimedInTime
<1>5. IdleHasNothing' BY DEF IdleHasNothing
<1>6. WorkerIsHolder' BY DEF WorkerIsHolder, UnstartedIsUntouched, TypeOK
<1>7. NothingSentBefore'
  BY CurIsRequest DEF NothingSentBefore, UnstartedIsUntouched
<1>8. WireIsHolders' BY DEF WireIsHolders, UnstartedIsUntouched
<1>9. RejectedIsNothing' BY DEF RejectedIsNothing
<1>10. TokenBeforeOrder' BY DEF TokenBeforeOrder, UnstartedIsUntouched
<1>11. AtMostOneOrder' BY DEF AtMostOneOrder
<1>. QED BY <1>1, <1>2, <1>3, <1>4, <1>5, <1>6, <1>7, <1>8, <1>9, <1>10, <1>11

\* A process that lets go of its request, or dies, keeps the invariant.
LEMMA DropLinks ==
    ASSUME TypeOK, Links, \A r \in Request : Kept(r),
           NEW e \in Executor, Done(e) \/ EndPoll(e),
           \A x \in Executor : sent'[x] \subseteq sent[x],
           UNCHANGED <<wire, book>>
    PROVE  Links'
<1> USE DEF Links, Kept, OnWire
<1>0. /\ cur' = [cur EXCEPT ![e] = None]
      /\ step' = [step EXCEPT ![e] = "idle"]
      /\ answer' = [answer EXCEPT ![e] = "none"]
  BY DEF Done, EndPoll
<1>a. /\ \A x \in Executor : x # e => cur'[x] = cur[x] /\ step'[x] = step[x]
                                      /\ answer'[x] = answer[x]
      /\ cur'[e] = None /\ step'[e] = "idle" /\ answer'[e] = "none"
  BY <1>0 DEF TypeOK
<1>b. None \notin Request BY NoneIsFresh
<1>1. UnclaimedIsUnstarted' BY DEF UnclaimedIsUnstarted
<1>2. DeadlineIsConfirmations' BY DEF DeadlineIsConfirmations
<1>3. UnstartedIsUntouched' BY <1>a, <1>b DEF UnstartedIsUntouched
<1>4. ClaimedInTime' BY DEF ClaimedInTime
<1>5. IdleHasNothing' BY <1>a DEF IdleHasNothing
<1>6. WorkerIsHolder' BY <1>a DEF WorkerIsHolder, UnstartedIsUntouched, TypeOK
<1>c. \A x \in Executor : step[x] # "idle" =>
        cur[x] \in Request /\ req[cur[x]].startedAt # None
  BY CurIsRequest DEF UnstartedIsUntouched
<1>7. NothingSentBefore'
  BY <1>a, <1>c DEF NothingSentBefore
<1>8. WireIsHolders' BY DEF WireIsHolders, UnstartedIsUntouched
<1>9. RejectedIsNothing' BY <1>a DEF RejectedIsNothing
<1>10. TokenBeforeOrder' BY DEF TokenBeforeOrder, UnstartedIsUntouched
<1>11. AtMostOneOrder' BY DEF AtMostOneOrder
<1>. QED BY <1>1, <1>2, <1>3, <1>4, <1>5, <1>6, <1>7, <1>8, <1>9, <1>10, <1>11

-----------------------------------------------------------------------------
(* Row by row: what the handlers that write a row keep of it.                *)

\* One row replaced, the others untouched.
LEMMA OneRow ==
    ASSUME TypeOK, Links, NEW r \in Request, NEW q,
           req' = [req EXCEPT ![r] = q],
           q.startedAt = req[r].startedAt,
           q.status \in Unclaimed => req[r].startedAt = None,
           q.status = "CONFIRMED" => q.expiresAt # None,
           q.status \in {"ABSENT", "REQUESTED"} => q.expiresAt = None,
           req[r].startedAt # None =>
             /\ q.holder = req[r].holder
             /\ q.expiresAt = req[r].expiresAt
             /\ req[r].token => q.token
    PROVE  \A x \in Request : Kept(x)
  BY DEF Kept, TypeOK, Links, UnclaimedIsUnstarted, DeadlineIsConfirmations

LEMMA SameRows ==
    ASSUME Links, UNCHANGED req
    PROVE  \A x \in Request : Kept(x)
  BY DEF Kept, Links, UnclaimedIsUnstarted, DeadlineIsConfirmations

\* A resolution to a status past the claim keeps the rest of the row.
LEMMA ResolvedRow ==
    ASSUME TypeOK, Links, NEW r \in Request, NEW s \in StoredStatus \ Unclaimed,
           NEW f, \/ req' = [req EXCEPT ![r] = [Resolved(@, s) EXCEPT !.failure = f]]
                  \/ req' = [req EXCEPT ![r] = Resolved(@, s)]
    PROVE  \A x \in Request : Kept(x)
<1> DEFINE q == Resolved(req[r], s)
           p == [q EXCEPT !.failure = f]
<1>1. req[r] \in TradeRequest BY DEF TypeOK
<1>2. /\ q.status = s /\ q.startedAt = req[r].startedAt /\ q.holder = req[r].holder
      /\ q.expiresAt = req[r].expiresAt /\ q.token = req[r].token
  BY <1>1 DEF Resolved, TradeRequest
<1>3. /\ p.status = s /\ p.startedAt = req[r].startedAt /\ p.holder = req[r].holder
      /\ p.expiresAt = req[r].expiresAt /\ p.token = req[r].token
  BY <1>1, <1>2 DEF Resolved, TradeRequest
<1>4. s \notin Unclaimed /\ s \notin {"CONFIRMED", "ABSENT", "REQUESTED"}
  BY DEF Unclaimed
<1>5. CASE req' = [req EXCEPT ![r] = p]
  <2> HIDE DEF p
  <2>. QED BY <1>3, <1>4, <1>5, OneRow
<1>6. CASE req' = [req EXCEPT ![r] = q]
  <2> HIDE DEF q
  <2>. QED BY <1>2, <1>4, <1>6, OneRow
<1>. QED BY <1>5, <1>6

LEMMA RecordedRow ==
    ASSUME TypeOK, Links, NEW r \in Request, NEW s \in StoredStatus \ Unclaimed,
           NEW u, req' = [req EXCEPT ![r] = Recorded(@, s, u)]
    PROVE  \A x \in Request : Kept(x)
<1> DEFINE q == Recorded(req[r], s, u)
<1>1. req[r] \in TradeRequest BY DEF TypeOK
<1>2. /\ q.status = s /\ q.startedAt = req[r].startedAt /\ q.holder = req[r].holder
      /\ q.expiresAt = req[r].expiresAt /\ q.token = req[r].token
  BY <1>1 DEF Recorded, TradeRequest
<1>3. s \notin Unclaimed /\ s \notin {"CONFIRMED", "ABSENT", "REQUESTED"}
  BY DEF Unclaimed
<1>4. req' = [req EXCEPT ![r] = q] OBVIOUS
<1> HIDE DEF q
<1>. QED BY <1>2, <1>3, <1>4, OneRow

\* The callbacks of the view only confirm, cancel or create rows.
LEMMA DiscordRows ==
    ASSUME TypeOK, Links, NEW r \in Request, Discord(r)
    PROVE  /\ \A x \in Request : Kept(x)
           /\ \A x \in Request : req'[x].status \in {"FAILED", "FAILED_STALE"} =>
                req[x].status \in {"FAILED", "FAILED_STALE"}
           /\ UNCHANGED <<cur, step, sent, answer, wire, book>>
<1> USE DEF discord, worker, booting, broker
<1>0. req[r] \in TradeRequest /\ clock \in Nat BY DEF TypeOK
<1>1. ASSUME NEW k \in Kinds, Submit(r, k)
      PROVE  /\ \A x \in Request : Kept(x)
             /\ \A x \in Request : req'[x].status \in {"FAILED", "FAILED_STALE"} =>
                  req[x].status \in {"FAILED", "FAILED_STALE"}
  <2>1. /\ Created(k).status = "REQUESTED" /\ Created(k).startedAt = None
        /\ Created(k).expiresAt = None
    BY DEF Created, NoRow
  <2>2. req[r].startedAt = None
    BY <1>1 DEF Submit, Links, UnclaimedIsUnstarted, Unclaimed
  <2>3. req' = [req EXCEPT ![r] = Created(k)] BY <1>1 DEF Submit
  <2>. QED BY <2>1, <2>2, <2>3, OneRow DEF TypeOK
<1>2. ASSUME ConfirmWrite(r)
      PROVE  /\ \A x \in Request : Kept(x)
             /\ \A x \in Request : req'[x].status \in {"FAILED", "FAILED_STALE"} =>
                  req[x].status \in {"FAILED", "FAILED_STALE"}
  <2>1. /\ Confirmed(req[r], clock).status = "CONFIRMED"
        /\ Confirmed(req[r], clock).startedAt = req[r].startedAt
        /\ Confirmed(req[r], clock).expiresAt = clock + Ttl
    BY <1>0 DEF Confirmed, TradeRequest
  <2>2. req[r].startedAt = None
    BY <1>2 DEF ConfirmWrite, MayConfirm, Links, UnclaimedIsUnstarted, Unclaimed
  <2>3. clock + Ttl # None BY <1>0, NoneIsFresh, DurationsAreNat
  <2>4. req' = [req EXCEPT ![r] = Confirmed(req[r], clock)] BY <1>2 DEF ConfirmWrite
  <2>. QED BY <2>1, <2>2, <2>3, <2>4, OneRow DEF TypeOK
<1>3. ASSUME CancelWrite(r)
      PROVE  /\ \A x \in Request : Kept(x)
             /\ \A x \in Request : req'[x].status \in {"FAILED", "FAILED_STALE"} =>
                  req[x].status \in {"FAILED", "FAILED_STALE"}
  <2>1. "CANCELLED" \in StoredStatus \ Unclaimed
    BY DEF StoredStatus, Status, Unclaimed
  <2>2. CASE req' = [req EXCEPT ![r] = Resolved(@, "CANCELLED")]
    <3>1. Resolved(req[r], "CANCELLED").status = "CANCELLED"
      BY <1>0 DEF Resolved, TradeRequest
    <3>. QED BY <2>1, <2>2, <3>1, ResolvedRow DEF TypeOK
  <2>3. CASE UNCHANGED req BY <2>3, SameRows
  <2>. QED BY <1>3, <2>2, <2>3 DEF CancelWrite
<1>4. ASSUME PressConfirm(r) \/ ConfirmRefused(r) \/ DisableView(r) \/ PressCancel(r)
             \/ ViewTimeout(r)
      PROVE  UNCHANGED req
  BY <1>4 DEF PressConfirm, ConfirmRefused, DisableView, PressCancel, ViewTimeout
<1>5. UNCHANGED <<cur, step, sent, answer, wire, book>>
  BY DEF Discord, Submit, PressConfirm, ConfirmWrite, ConfirmRefused, DisableView,
         PressCancel, CancelWrite, ViewTimeout
<1>. QED BY <1>1, <1>2, <1>3, <1>4, <1>5, SameRows DEF Discord

\* A status that says "nothing exists" on a request no process holds.
LEMMA FailureKept ==
    ASSUME FailureMeansNoOrder,
           \A x \in Request : req'[x].status \in {"FAILED", "FAILED_STALE"} =>
             req[x].status \in {"FAILED", "FAILED_STALE"},
           wire' \subseteq wire, \A x \in Request : book'[x].placed = book[x].placed,
           \A e \in Executor : cur'[e] \in {cur[e], None}
    PROVE  FailureMeansNoOrder'
<1>1. None \notin Request BY NoneIsFresh
<1>. QED BY <1>1 DEF FailureMeansNoOrder, OnWire

\* The view's callbacks keep the invariant.
LEMMA DiscordInv ==
    ASSUME IInv, NEW r \in Request, Discord(r)
    PROVE  IInv'
<1>1. TypeOK' BY DiscordType DEF IInv
<1>2. Links' BY DiscordRows, QuietLinks DEF IInv
<1>3. FailureMeansNoOrder' BY DiscordRows, FailureKept DEF IInv
<1>. QED BY <1>1, <1>2, <1>3 DEF IInv

\* A sweep keeps the invariant: its verdicts are statuses past the claim, and
\* none of them is FAILED.
LEMMA StartupInv ==
    ASSUME IInv, NEW e \in Executor, Startup(e)
    PROVE  IInv'
<1> USE DEF discord, worker, booting, broker
<1>1. TypeOK' BY StartupType DEF IInv
<1>2. UNCHANGED <<cur, step, sent, answer, wire, book>>
  BY DEF Startup, Boot, Judge, Serve, ReadPositions
<1>3. (\A x \in Request : Kept(x))
      /\ \A x \in Request : req'[x].status \in {"FAILED", "FAILED_STALE"} =>
           req[x].status \in {"FAILED", "FAILED_STALE"}
  <2>1. CASE Judge(e)
    <3>1. PICK order \in BOOLEAN, deals \in BOOLEAN :
             \/ req' = req
             \/ req' = [req EXCEPT ![probe[e].entry.id] =
                          [Resolved(@, Verdict(probe[e], order, deals)) EXCEPT
                             !.failure = FailureOf(order, Verdict(probe[e], order, deals))]]
      BY <2>1 DEF Judge
    <3> DEFINE r == probe[e].entry.id
               s == Verdict(probe[e], order, deals)
               f == FailureOf(order, s)
    <3>2. r \in Request BY <2>1 DEF Judge, IInv, TypeOK, Probe, Entry
    <3>3. s \in StoredStatus \ Unclaimed /\ s \notin {"FAILED", "FAILED_STALE"}
      <4>1. s \notin Unclaimed /\ s \notin {"FAILED", "FAILED_STALE"}
        BY DEF Verdict, ExecutingVerdict, PendingVerdict, PartialVerdict, Filled, Unclaimed
      <4>. QED BY <4>1, VerdictType
    <3>4. CASE req' = req BY <3>4, SameRows DEF IInv
    <3>5. CASE req' = [req EXCEPT ![r] = [Resolved(@, s) EXCEPT !.failure = f]]
      <4>1. [Resolved(req[r], s) EXCEPT !.failure = f].status = s
        BY <3>2 DEF IInv, TypeOK, Resolved, TradeRequest
      <4> HIDE DEF s, r, f
      <4>. QED BY <3>2, <3>3, <3>5, <4>1, ResolvedRow DEF IInv, TypeOK
    <3>. QED BY <3>1, <3>4, <3>5
  <2>2. CASE UNCHANGED req BY <2>2, SameRows DEF IInv
  <2>. QED BY <2>1, <2>2 DEF Startup, Boot, Serve, ReadPositions
<1>4. Links' BY <1>2, <1>3, QuietLinks DEF IInv
<1>5. FailureMeansNoOrder' BY <1>2, <1>3, FailureKept DEF IInv
<1>. QED BY <1>1, <1>4, <1>5 DEF IInv

LEMMA KeepAliveInv ==
    ASSUME IInv, NEW e \in Executor, KeepAlive(e)
    PROVE  IInv'
<1>1. TypeOK' BY KeepAliveType DEF IInv, Links
<1>2. cur[e] \in Request BY CurIsRequest DEF KeepAlive, IInv, Links
<1>3. req[cur[e]] \in TradeRequest BY <1>2 DEF IInv, TypeOK
<1>4. LET q == Renewed(req[cur[e]], clock) IN
        /\ q.startedAt = req[cur[e]].startedAt /\ q.status = req[cur[e]].status
        /\ q.holder = req[cur[e]].holder /\ q.expiresAt = req[cur[e]].expiresAt
        /\ q.token = req[cur[e]].token
  BY <1>3 DEF Renewed, TradeRequest
<1>5. req' = [req EXCEPT ![cur[e]] = Renewed(req[cur[e]], clock)] BY DEF KeepAlive
<1>6. \A x \in Request : Kept(x)
  BY <1>2, <1>4, <1>5, OneRow
     DEF IInv, Links, UnclaimedIsUnstarted, DeadlineIsConfirmations
<1>7. UNCHANGED <<cur, step, sent, answer, wire, book>>
  BY DEF KeepAlive, worker, broker
<1>8. \A x \in Request : req'[x].status = req[x].status
  BY <1>2, <1>4, <1>5 DEF IInv, TypeOK
<1>9. Links' BY <1>6, <1>7, QuietLinks DEF IInv
<1>10. FailureMeansNoOrder' BY <1>7, <1>8, FailureKept DEF IInv
<1>. QED BY <1>1, <1>9, <1>10 DEF IInv

LEMMA CrashInv ==
    ASSUME IInv, NEW e \in Executor, Crash(e)
    PROVE  IInv'
<1> USE DEF Crash, discord, broker
<1>1. TypeOK' BY CrashType DEF IInv
<1>2. \A x \in Executor : sent'[x] \subseteq sent[x] BY DEF IInv, TypeOK
<1>3. Links' BY <1>2, SameRows, DropLinks DEF IInv
<1>4. \A x \in Executor : cur'[x] \in {cur[x], None} BY DEF EndPoll, IInv, TypeOK
<1>5. FailureMeansNoOrder' BY <1>4, FailureKept DEF IInv
<1>. QED BY <1>1, <1>3, <1>5 DEF IInv

-----------------------------------------------------------------------------
(* The executor's loop.                                                      *)

\* Two processes never hold the same request.
LEMMA OneHolder ==
    ASSUME Links, NEW e \in Executor, NEW x \in Executor, cur[e] # None,
           cur[x] = cur[e]
    PROVE  x = e
  BY DEF Links, WorkerIsHolder

\* A claim takes a request nothing has touched yet.
LEMMA ClaimInv ==
    ASSUME IInv, NEW e \in Executor, NEW r \in Request, Claim(e, r)
    PROVE  Links' /\ FailureMeansNoOrder'
<1> USE DEF discord, worker, booting, broker, OnWire
<1> DEFINE q == Claimed(req[r], e, clock)
<1>1. /\ req[r] \in TradeRequest /\ clock \in Nat BY DEF IInv, TypeOK
<1>2. /\ req[r].startedAt = None /\ req[r].expiresAt # None /\ clock < req[r].expiresAt
  <2>1. req[r].status = "CONFIRMED" /\ ~ConfirmationExpired(req[r], clock)
    BY DEF Claim, MayClaim
  <2>2. req[r].startedAt = None /\ req[r].expiresAt # None
    BY <2>1 DEF IInv, Links, UnclaimedIsUnstarted, DeadlineIsConfirmations, Unclaimed
  <2>3. req[r].expiresAt \in Nat BY <1>1, <2>2 DEF TradeRequest, Instant
  <2>. QED BY <1>1, <2>1, <2>2, <2>3 DEF ConfirmationExpired
<1>3. /\ book[r].placed = 0 /\ \A x \in Executor : <<x, r>> \notin wire
      /\ \A x \in Executor : cur[x] # r /\ r \notin sent[x]
  BY <1>2 DEF IInv, Links, UnstartedIsUntouched
<1>4. /\ q.status = "EXECUTING" /\ q.holder = e /\ q.startedAt = clock
      /\ q.expiresAt = req[r].expiresAt
  BY <1>1 DEF Claimed, TradeRequest
<1>5. clock # None BY <1>1, NoneIsFresh
<1>6. /\ req' = [req EXCEPT ![r] = q] /\ cur' = [cur EXCEPT ![e] = r]
      /\ step' = [step EXCEPT ![e] = "claimed"] /\ cur[e] = None
      /\ UNCHANGED <<sent, answer, wire, book>>
  BY DEF Claim
<1> HIDE DEF q
<1>7. /\ req'[r] = q /\ \A x \in Request : x # r => req'[x] = req[x]
      /\ cur'[e] = r /\ \A x \in Executor : x # e => cur'[x] = cur[x]
      /\ step'[e] = "claimed" /\ \A x \in Executor : x # e => step'[x] = step[x]
  BY <1>6 DEF IInv, TypeOK
<1>8. step[e] = "idle" BY <1>6 DEF IInv, Links, IdleHasNothing
<1>9. r # None BY NoneIsFresh
<1>10. ~(book[r].placed > 0 \/ OnWire(r))
  <2>1. ~OnWire(r) BY <1>3
  <2>2. ~(book[r].placed > 0) BY <1>3
  <2>. QED BY <2>1, <2>2
<1> USE <1>6, <1>7 DEF IInv, Links
<1>11. UnclaimedIsUnstarted' BY <1>4 DEF UnclaimedIsUnstarted, Unclaimed
<1>12. DeadlineIsConfirmations' BY <1>4 DEF DeadlineIsConfirmations
<1>13. UnstartedIsUntouched' BY <1>4, <1>5 DEF UnstartedIsUntouched
<1>14. ClaimedInTime' BY <1>2, <1>4 DEF ClaimedInTime
<1>15. IdleHasNothing' BY <1>9 DEF IdleHasNothing
<1>16. WorkerIsHolder' BY <1>3, <1>4, NoneIsFresh DEF WorkerIsHolder, TypeOK
<1>17. NothingSentBefore'
  <2> SUFFICES ASSUME NEW x \in Executor
      PROVE  /\ step'[x] \in {"claimed", "passed", "stamped"} =>
                  book[cur'[x]].placed = 0 /\ \A y \in Executor : <<y, cur'[x]>> \notin wire
             /\ step'[x] \in {"claimed", "passed"} => cur'[x] \notin sent[x]
             /\ step'[x] \in {"stamped", "sending"} => req'[cur'[x]].token
    BY DEF NothingSentBefore
  <2>1. CASE x = e BY <1>3, <2>1
  <2>2. CASE x # e /\ step[x] # "idle"
    <3>1. cur[x] \in Request /\ cur[x] # r BY <1>3, <2>2, CurIsRequest
    <3>. QED BY <2>2, <3>1 DEF NothingSentBefore
  <2>3. CASE x # e /\ step[x] = "idle" BY <2>3
  <2>. QED BY <2>1, <2>2, <2>3
<1>18. WireIsHolders' BY <1>3 DEF WireIsHolders
<1>19. RejectedIsNothing' BY <1>8 DEF RejectedIsNothing
<1>20. TokenBeforeOrder'
  <2> SUFFICES ASSUME NEW x \in Request, book[x].placed > 0 \/ OnWire(x)
      PROVE  req'[x].token
    BY DEF TokenBeforeOrder
  <2>2. x # r BY <1>10
  <2>. QED BY <2>2 DEF TokenBeforeOrder
<1>21. AtMostOneOrder' BY DEF AtMostOneOrder
<1>22. FailureMeansNoOrder' BY <1>4 DEF FailureMeansNoOrder
<1>. QED
  BY <1>11, <1>12, <1>13, <1>14, <1>15, <1>16, <1>17, <1>18, <1>19, <1>20, <1>21, <1>22

\* A request that a process gives up on with FAILED has no order anywhere.
LEMMA FailedByHolder ==
    ASSUME IInv, NEW e \in Executor, NEW r \in Request, cur[e] = r,
           book[r].placed = 0, ~OnWire(r),
           \A x \in Request \ {r} : req'[x].status = req[x].status,
           cur' = [cur EXCEPT ![e] = None], UNCHANGED <<wire, book>>
    PROVE  FailureMeansNoOrder'
<1>1. r # None /\ None \notin Request BY NoneIsFresh
<1>2. \A x \in Executor : cur'[x] # r
  BY <1>1, OneHolder DEF IInv, TypeOK
<1>3. \A x \in Executor : cur'[x] \in {cur[x], None} BY DEF IInv, TypeOK
<1>. QED BY <1>1, <1>2, <1>3 DEF IInv, FailureMeansNoOrder, OnWire

LEMMA StaleInv ==
    ASSUME IInv, NEW e \in Executor, NEW r \in Request, ClaimStale(e, r)
    PROVE  Links' /\ FailureMeansNoOrder'
<1> USE DEF discord, booting, broker
<1>1. req[r] \in TradeRequest /\ req[r].status = "CONFIRMED"
  BY DEF ClaimStale, IsStale, IInv, TypeOK
<1>2. /\ MarkedStale(req[r]).status = "FAILED_STALE"
      /\ MarkedStale(req[r]).startedAt = req[r].startedAt
      /\ MarkedStale(req[r]).holder = req[r].holder
      /\ MarkedStale(req[r]).expiresAt = req[r].expiresAt
      /\ MarkedStale(req[r]).token = req[r].token
  BY <1>1 DEF MarkedStale, TradeRequest
<1>3. req' = [req EXCEPT ![r] = MarkedStale(req[r])] BY DEF ClaimStale
<1>4. \A x \in Request : Kept(x)
  BY <1>2, <1>3, OneRow DEF IInv, Unclaimed
<1>5. Links' BY <1>4, DropLinks DEF ClaimStale, IInv
<1>6. req[r].startedAt = None
  BY <1>1 DEF IInv, Links, UnclaimedIsUnstarted, Unclaimed
<1>7. book[r].placed = 0 /\ ~OnWire(r) /\ \A x \in Executor : cur[x] # r
  BY <1>6 DEF IInv, Links, UnstartedIsUntouched
<1>8. \A x \in Executor : cur'[x] \in {cur[x], None}
  BY DEF ClaimStale, EndPoll, IInv, TypeOK
<1>9. \A x \in Request \ {r} : req'[x] = req[x] BY <1>3 DEF IInv, TypeOK
<1>10. UNCHANGED <<wire, book>> /\ None \notin Request BY NoneIsFresh DEF ClaimStale
<1>11. FailureMeansNoOrder'
  BY <1>7, <1>8, <1>9, <1>10 DEF IInv, FailureMeansNoOrder, OnWire
<1>. QED BY <1>5, <1>11

\* The steps in which a process lets go of its request: a write the holder may
\* make, or none.
LEMMA LetGoInv ==
    ASSUME IInv, NEW e \in Executor, cur[e] \in Request,
           NEW s \in StoredStatus \ Unclaimed, Resolves(e, s),
           UNCHANGED <<sent, wire, book>>,
           s \in {"FAILED", "FAILED_STALE"} =>
             UNCHANGED req \/ (book[cur[e]].placed = 0 /\ ~OnWire(cur[e]))
    PROVE  Links' /\ FailureMeansNoOrder'
<1>0. Done(e) \/ EndPoll(e) BY ResolvesShape
<1>1. \A x \in Request : Kept(x)
  <2>1. CASE UNCHANGED req BY <2>1, SameRows DEF IInv
  <2>2. ASSUME NEW u \in BOOLEAN, req' = [req EXCEPT ![cur[e]] = Recorded(@, s, u)]
        PROVE  \A x \in Request : Kept(x)
    BY <2>2, RecordedRow DEF IInv
  <2>. QED BY <2>1, <2>2, ResolvesShape
<1>2. Links' BY <1>0, <1>1, DropLinks DEF IInv
<1>3. cur' = [cur EXCEPT ![e] = None] BY <1>0 DEF Done, EndPoll
<1>4. \A x \in Executor : cur'[x] \in {cur[x], None} BY <1>3 DEF IInv, TypeOK
<1>5. CASE UNCHANGED req BY <1>2, <1>4, <1>5, FailureKept DEF IInv
<1>6. CASE ~UNCHANGED req
  <2>0. PICK u \in BOOLEAN : req' = [req EXCEPT ![cur[e]] = Recorded(@, s, u)]
    BY <1>6, ResolvesShape
  <2>1. /\ \A x \in Request \ {cur[e]} : req'[x].status = req[x].status
        /\ req'[cur[e]].status = s
    BY <2>0 DEF IInv, TypeOK, Recorded, TradeRequest
  <2>2. ASSUME s \in {"FAILED", "FAILED_STALE"} PROVE FailureMeansNoOrder'
    <3>1. book[cur[e]].placed = 0 /\ ~OnWire(cur[e]) BY <1>6, <2>2
    <3>. QED BY <1>3, <2>1, <3>1, FailedByHolder
  <2>3. ASSUME s \notin {"FAILED", "FAILED_STALE"} PROVE FailureMeansNoOrder'
    <3>1. \A x \in Request : req'[x].status \in {"FAILED", "FAILED_STALE"} =>
             req[x].status \in {"FAILED", "FAILED_STALE"}
      BY <2>1, <2>3
    <3>. QED BY <1>4, <3>1, FailureKept DEF IInv
  <2>4. FailureMeansNoOrder' BY <2>2, <2>3
  <2>. QED BY <1>2, <2>4
<1>. QED BY <1>2, <1>5, <1>6

\* A step that only moves process e on from one step to the next.
LEMMA PassInv ==
    ASSUME IInv, NEW e \in Executor, GuardPasses(e)
    PROVE  Links' /\ FailureMeansNoOrder'
<1> USE DEF discord, booting, broker
<1>1. /\ step' = [step EXCEPT ![e] = "passed"] /\ step[e] = "claimed"
      /\ UNCHANGED <<req, cur, sent, answer, wire, book>>
  BY DEF GuardPasses, Advance
<1>2. /\ step'[e] = "passed" /\ \A x \in Executor : x # e => step'[x] = step[x]
  BY <1>1 DEF IInv, TypeOK
<1>3. IdleHasNothing' BY <1>1, <1>2 DEF IInv, Links, IdleHasNothing
<1>4. NothingSentBefore'
  BY <1>1, <1>2 DEF IInv, Links, NothingSentBefore, OnWire
<1>5. RejectedIsNothing'
  BY <1>1, <1>2 DEF IInv, Links, RejectedIsNothing, OnWire
<1>6. FailureMeansNoOrder' BY <1>1 DEF IInv, FailureMeansNoOrder, OnWire
<1>. QED
  BY <1>1, <1>3, <1>4, <1>5, <1>6
     DEF IInv, Links, UnclaimedIsUnstarted, DeadlineIsConfirmations, UnstartedIsUntouched,
         ClaimedInTime, WorkerIsHolder, WireIsHolders, TokenBeforeOrder, AtMostOneOrder,
         OnWire

\* The stamp: the token is in the row before anything can be sent.
LEMMA StampInv ==
    ASSUME IInv, NEW e \in Executor, Stamp(e)
    PROVE  Links' /\ FailureMeansNoOrder'
<1> USE DEF discord, booting, broker
<1> DEFINE r == cur[e]
<1>1. /\ r \in Request /\ r # None
  BY CurIsRequest, NoneIsFresh DEF Stamp, IInv, Links
<1>2. /\ step[e] = "passed" /\ sent' = [sent EXCEPT ![e] = @ \cup {r}]
      /\ UNCHANGED <<wire, book>>
  BY DEF Stamp
<1>3. req[r].startedAt # None
  BY <1>1 DEF IInv, Links, UnstartedIsUntouched
<1>4. book[r].placed = 0 /\ ~OnWire(r)
  BY <1>2 DEF IInv, Links, NothingSentBefore
<1>5. \A x \in Executor : sent'[x] = IF x = e THEN sent[x] \cup {r} ELSE sent[x]
  BY <1>2 DEF IInv, TypeOK
<1>6. CASE EndPoll(e) /\ UNCHANGED req
  <2>1. /\ \A x \in Executor : x # e => cur'[x] = cur[x] /\ step'[x] = step[x]
                                        /\ answer'[x] = answer[x]
        /\ cur'[e] = None /\ step'[e] = "idle" /\ answer'[e] = "none"
    BY <1>6 DEF EndPoll, IInv, TypeOK
  <2> USE <1>2, <1>6, <2>1, NoneIsFresh DEF IInv, Links, OnWire
  <2>2. UnstartedIsUntouched' BY <1>3, <1>5 DEF UnstartedIsUntouched
  <2>3. IdleHasNothing' BY DEF IdleHasNothing
  <2>4. WorkerIsHolder' BY DEF WorkerIsHolder
  <2>5. NothingSentBefore' BY <1>5 DEF NothingSentBefore
  <2>6. RejectedIsNothing' BY DEF RejectedIsNothing
  <2>7. FailureMeansNoOrder' BY DEF FailureMeansNoOrder
  <2>. QED
    BY <2>2, <2>3, <2>4, <2>5, <2>6, <2>7
       DEF UnclaimedIsUnstarted, DeadlineIsConfirmations, ClaimedInTime, WireIsHolders,
           TokenBeforeOrder, AtMostOneOrder
<1>7. CASE Advance(e, "stamped") /\ req' = [req EXCEPT ![r] = Stamped(@)]
  <2>1. req[r] \in TradeRequest BY <1>1 DEF IInv, TypeOK
  <2>2. /\ Stamped(req[r]).token = TRUE
        /\ Stamped(req[r]).status = req[r].status
        /\ Stamped(req[r]).holder = req[r].holder
        /\ Stamped(req[r]).startedAt = req[r].startedAt
        /\ Stamped(req[r]).expiresAt = req[r].expiresAt
    BY <2>1 DEF Stamped, TradeRequest
  <2>3. /\ req'[r] = Stamped(req[r]) /\ \A x \in Request : x # r => req'[x] = req[x]
        /\ step'[e] = "stamped" /\ \A x \in Executor : x # e => step'[x] = step[x]
        /\ UNCHANGED <<cur, answer>>
    BY <1>1, <1>7 DEF Advance, IInv, TypeOK
  <2>4. \A x \in Request :
          /\ req'[x].status = req[x].status /\ req'[x].holder = req[x].holder
          /\ req'[x].startedAt = req[x].startedAt /\ req'[x].expiresAt = req[x].expiresAt
          /\ req[x].token => req'[x].token
    BY <2>2, <2>3
  <2>5. req'[r].token BY <2>2, <2>3
  <2> HIDE DEF r
  <2>6. r = cur[e] BY DEF r
  <2> USE <1>2, <2>4 DEF IInv, Links, OnWire
  <2>7. UnstartedIsUntouched' BY <1>3, <1>5, <2>3 DEF UnstartedIsUntouched
  <2>8. IdleHasNothing' BY <2>3 DEF IdleHasNothing
  <2>9. WorkerIsHolder' BY <2>3 DEF WorkerIsHolder, TypeOK
  <2>10. NothingSentBefore'
    <3> SUFFICES ASSUME NEW x \in Executor
        PROVE  /\ step'[x] \in {"claimed", "passed", "stamped"} =>
                    book[cur[x]].placed = 0 /\ \A y \in Executor : <<y, cur[x]>> \notin wire
               /\ step'[x] \in {"claimed", "passed"} => cur[x] \notin sent'[x]
               /\ step'[x] \in {"stamped", "sending"} => req'[cur[x]].token
      BY <2>3 DEF NothingSentBefore
    <3>1. CASE x = e BY <1>4, <2>3, <2>5, <2>6, <3>1
    <3>2. CASE x # e /\ step[x] # "idle"
      <4>1. cur[x] \in Request BY <3>2, CurIsRequest
      <4>. QED BY <1>5, <2>3, <3>2, <4>1 DEF NothingSentBefore
    <3>3. CASE x # e /\ step[x] = "idle" BY <2>3, <3>3
    <3>. QED BY <3>1, <3>2, <3>3
  <2>11. RejectedIsNothing' BY <2>3 DEF RejectedIsNothing
  <2>12. FailureMeansNoOrder' BY <2>3 DEF FailureMeansNoOrder
  <2>13. UnclaimedIsUnstarted' /\ DeadlineIsConfirmations' /\ ClaimedInTime'
    BY DEF UnclaimedIsUnstarted, DeadlineIsConfirmations, ClaimedInTime
  <2>14. WireIsHolders' BY DEF WireIsHolders
  <2>15. TokenBeforeOrder' BY DEF TokenBeforeOrder
  <2>16. AtMostOneOrder' BY DEF AtMostOneOrder
  <2>. QED
    BY <2>7, <2>8, <2>9, <2>10, <2>11, <2>12, <2>13, <2>14, <2>15, <2>16
<1>. QED BY <1>6, <1>7 DEF Stamp

\* The send: the holder, and nobody else, puts the only order on the wire.
LEMMA SendInv ==
    ASSUME IInv, NEW e \in Executor, Send(e)
    PROVE  Links' /\ FailureMeansNoOrder'
<1> USE DEF discord, booting
<1> DEFINE r == cur[e]
<1>1. r \in Request /\ r # None
  BY CurIsRequest, NoneIsFresh DEF Send, IInv, Links
<1>2. /\ step[e] = "stamped" /\ wire' = wire \cup {<<e, r>>}
      /\ step' = [step EXCEPT ![e] = "sending"]
      /\ UNCHANGED <<req, cur, sent, answer, book>>
  BY DEF Send, Advance
<1>3. req[r].startedAt # None BY <1>1 DEF IInv, Links, UnstartedIsUntouched
<1>4. book[r].placed = 0 /\ req[r].token
  BY <1>2 DEF IInv, Links, NothingSentBefore
<1>5. step'[e] = "sending" /\ \A x \in Executor : x # e => step'[x] = step[x]
  BY <1>2 DEF IInv, TypeOK
<1>6. \A x \in Request : x # r =>
         \A y \in Executor : <<y, x>> \in wire' => <<y, x>> \in wire
  BY <1>2
<1>7. \A x \in Executor : cur[x] = r => x = e BY <1>1, OneHolder DEF IInv
<1>8. answer[e] # "rejected" BY <1>2 DEF IInv, Links, RejectedIsNothing
<1>9. req[r].holder = e BY <1>1 DEF IInv, Links, WorkerIsHolder
<1>0. \A x \in Executor : step[x] # "idle" => cur[x] \in Request
  BY CurIsRequest DEF IInv, Links
<1> HIDE DEF r
<1>10. r = cur[e] BY DEF r
<1>11. UnstartedIsUntouched'
  BY <1>2, <1>3, <1>6 DEF IInv, Links, UnstartedIsUntouched, OnWire
<1>12. IdleHasNothing' BY <1>2, <1>5 DEF IInv, Links, IdleHasNothing
<1>13. NothingSentBefore'
  <2> SUFFICES ASSUME NEW x \in Executor
      PROVE  /\ step'[x] \in {"claimed", "passed", "stamped"} =>
                  book[cur[x]].placed = 0
                  /\ \A y \in Executor : <<y, cur[x]>> \notin wire'
             /\ step'[x] \in {"claimed", "passed"} => cur[x] \notin sent[x]
             /\ step'[x] \in {"stamped", "sending"} => req[cur[x]].token
    BY <1>2 DEF NothingSentBefore, OnWire
  <2>1. CASE x = e BY <1>4, <1>5, <1>10, <2>1
  <2>2. CASE x # e /\ step[x] # "idle"
    <3>1. cur[x] # r /\ cur[x] \in Request BY <1>0, <1>7, <2>2
    <3>. QED BY <1>5, <1>6, <2>2, <3>1 DEF IInv, Links, NothingSentBefore, OnWire
  <2>3. CASE x # e /\ step[x] = "idle" BY <1>5, <2>3
  <2>. QED BY <2>1, <2>2, <2>3
<1>14. WireIsHolders'
  BY <1>2, <1>4, <1>9 DEF IInv, Links, WireIsHolders
<1>15. RejectedIsNothing'
  <2> SUFFICES ASSUME NEW x \in Executor, answer[x] = "rejected"
      PROVE  step'[x] = "sending" /\ book[cur[x]].placed = 0
             /\ \A y \in Executor : <<y, cur[x]>> \notin wire'
    BY <1>2 DEF RejectedIsNothing, OnWire
  <2>1. x # e BY <1>8
  <2>2. /\ step[x] = "sending" /\ book[cur[x]].placed = 0
        /\ \A y \in Executor : <<y, cur[x]>> \notin wire
    BY DEF IInv, Links, RejectedIsNothing, OnWire
  <2>3. cur[x] # r /\ cur[x] \in Request BY <1>0, <1>7, <2>1, <2>2
  <2>. QED BY <1>5, <1>6, <2>1, <2>2, <2>3
<1>16. TokenBeforeOrder' BY <1>2, <1>4, <1>6 DEF IInv, Links, TokenBeforeOrder, OnWire
<1>17. AtMostOneOrder' BY <1>2 DEF IInv, Links, AtMostOneOrder
<1>18. FailureMeansNoOrder' BY <1>2, <1>6, <1>10 DEF IInv, FailureMeansNoOrder, OnWire
<1>. QED
  BY <1>2, <1>11, <1>12, <1>13, <1>14, <1>15, <1>16, <1>17, <1>18
     DEF IInv, Links, UnclaimedIsUnstarted, DeadlineIsConfirmations, ClaimedInTime,
         WorkerIsHolder

\* Every step of the executor's loop keeps the invariant.
LEMMA WorkInv ==
    ASSUME IInv, NEW e \in Executor, Work(e)
    PROVE  IInv'
<1> USE DEF discord, booting, broker
<1>0. TypeOK' BY WorkType DEF IInv, Links
<1>1. CASE Poll(e)
  <2>1. UNCHANGED <<req, cur, step, sent, answer, wire, book>> BY <1>1 DEF Poll
  <2>2. Links' BY <2>1, SameRows, QuietLinks DEF IInv
  <2>3. FailureMeansNoOrder' BY <2>1, FailureKept DEF IInv
  <2>. QED BY <1>0, <2>2, <2>3 DEF IInv
<1>2. ASSUME NEW r \in Request, Claim(e, r) \/ ClaimStale(e, r) PROVE IInv'
  BY <1>0, <1>2, ClaimInv, StaleInv DEF IInv
<1>3. ASSUME NEW r \in Request, ClaimLost(e, r) PROVE IInv'
  <2>1. UNCHANGED <<req, sent, wire, book>> /\ EndPoll(e) BY <1>3 DEF ClaimLost
  <2>2. Links' BY <2>1, SameRows, DropLinks DEF IInv, TypeOK
  <2>3. \A x \in Executor : cur'[x] \in {cur[x], None}
    BY <2>1 DEF EndPoll, IInv, TypeOK
  <2>4. FailureMeansNoOrder' BY <2>1, <2>3, FailureKept DEF IInv
  <2>. QED BY <1>0, <2>2, <2>4 DEF IInv
<1>4. CASE GuardPasses(e) BY <1>0, <1>4, PassInv DEF IInv
<1>5. CASE GuardRefuses(e)
  <2>1. cur[e] \in Request /\ Resolves(e, "FAILED") /\ UNCHANGED <<sent, wire, book>>
    BY <1>5, CurIsRequest DEF GuardRefuses, IInv, Links
  <2>2. book[cur[e]].placed = 0 /\ ~OnWire(cur[e])
    BY <1>5 DEF GuardRefuses, IInv, Links, NothingSentBefore
  <2>3. "FAILED" \in StoredStatus \ Unclaimed BY DEF StoredStatus, Status, Unclaimed
  <2>4. Links' /\ FailureMeansNoOrder' BY <2>1, <2>2, <2>3, LetGoInv
  <2>. QED BY <1>0, <2>4 DEF IInv
<1>6. CASE Stamp(e) BY <1>0, <1>6, StampInv DEF IInv
<1>7. CASE Send(e) BY <1>0, <1>7, SendInv DEF IInv
<1>8. CASE SendUnknown(e)
  <2>1. UNCHANGED <<req, sent, wire, book>> /\ Done(e) BY <1>8 DEF SendUnknown
  <2>2. Links' BY <2>1, SameRows, DropLinks DEF IInv, TypeOK
  <2>3. \A x \in Executor : cur'[x] \in {cur[x], None}
    BY <2>1 DEF Done, IInv, TypeOK
  <2>4. FailureMeansNoOrder' BY <2>1, <2>3, FailureKept DEF IInv
  <2>. QED BY <1>0, <2>2, <2>4 DEF IInv
<1>9. CASE Record(e)
  <2> DEFINE s == Outcome(answer[e], cur[e])
  <2>1. cur[e] \in Request /\ Resolves(e, s) /\ UNCHANGED <<sent, wire, book>>
    BY <1>9, CurIsRequest DEF Record, IInv, Links
  <2>2. s \in {"FAILED", "FAILED_STALE"} =>
          book[cur[e]].placed = 0 /\ ~OnWire(cur[e])
    <3>1. s \in {"FAILED", "FAILED_STALE"} => answer[e] = "rejected" BY DEF Outcome
    <3>. QED BY <3>1 DEF IInv, Links, RejectedIsNothing
  <2>3. s \in StoredStatus \ Unclaimed
    BY DEF Outcome, StoredStatus, Status, Unclaimed
  <2> HIDE DEF s
  <2>4. Links' /\ FailureMeansNoOrder' BY <2>1, <2>2, <2>3, LetGoInv
  <2>. QED BY <1>0, <2>4 DEF IInv
<1>. QED
  BY <1>1, <1>2, <1>3, <1>4, <1>5, <1>6, <1>7, <1>8, <1>9 DEF Work

-----------------------------------------------------------------------------
(* The broker.                                                               *)

\* An order leaves the wire, its book record and the answer to its sender
\* change as the broker decides.
LEMMA AcceptInv ==
    ASSUME IInv, NEW e \in Executor, NEW r \in Request, BrokerAccepts(e, r)
    PROVE  Links' /\ FailureMeansNoOrder'
<1> USE DEF discord, booting
<1>1. /\ <<e, r>> \in wire /\ wire' = wire \ {<<e, r>>}
      /\ UNCHANGED <<req, cur, step, sent>>
  BY DEF BrokerAccepts
<1>2. req[r].holder = e /\ book[r].placed = 0
  BY <1>1 DEF IInv, Links, WireIsHolders
<1>3. book'[r].placed = 1 /\ \A x \in Request : x # r => book'[x] = book[x]
  <2>1. book[r] \in OrderBook BY DEF IInv, TypeOK
  <2>2. /\ Rested(book[r]).placed = 1
        /\ \A v \in 1..Volume : Executed(book[r], v).placed = 1
    BY <1>2, <2>1 DEF Rested, Executed, OrderBook
  <2>3. PICK v \in 1..Volume :
          \/ book' = [book EXCEPT ![r] = Rested(@)]
          \/ book' = [book EXCEPT ![r] = Executed(@, v)]
    BY AcceptShape
  <2>. QED BY <2>2, <2>3 DEF IInv, TypeOK
<1>4. \A x \in Executor : answer'[x] = "rejected" =>
        answer[x] = "rejected" /\ cur[x] # r
  <2>1. \A x \in Executor : answer[x] = "rejected" => cur[x] # r
    BY <1>1 DEF IInv, Links, RejectedIsNothing, OnWire
  <2>2. PICK a \in Acceptance : Answered(e, r, a) BY AcceptShape
  <2>3. a # "rejected" BY DEF Acceptance
  <2>. QED BY <2>1, <2>2, <2>3 DEF Answered, IInv, TypeOK
<1>5. \A x \in Executor : <<x, r>> \notin wire'
  BY <1>1, <1>2 DEF IInv, Links, WireIsHolders
<1>6. req[r].startedAt # None /\ req[r].token /\ OnWire(r)
  BY <1>1 DEF IInv, Links, UnstartedIsUntouched, TokenBeforeOrder, OnWire
<1>7. \A x \in Request : x # r =>
         \A y \in Executor : <<y, x>> \in wire' => <<y, x>> \in wire
  BY <1>1
<1>8. \A x \in Executor : step[x] # "idle" => cur[x] \in Request
  BY CurIsRequest DEF IInv, Links
<1>9. \A x \in Executor : step[x] \in {"claimed", "passed", "stamped"} => cur[x] # r
  BY <1>6 DEF IInv, Links, NothingSentBefore
<1>11. UnstartedIsUntouched'
  BY <1>1, <1>3, <1>6, <1>7 DEF IInv, Links, UnstartedIsUntouched, OnWire
<1>12. NothingSentBefore'
  BY <1>1, <1>3, <1>7, <1>8, <1>9 DEF IInv, Links, NothingSentBefore, OnWire
<1>13. WireIsHolders'
  BY <1>1, <1>3, <1>5 DEF IInv, Links, WireIsHolders
<1>14. RejectedIsNothing'
  <2> SUFFICES ASSUME NEW x \in Executor, answer'[x] = "rejected"
      PROVE  step[x] = "sending" /\ book'[cur[x]].placed = 0
             /\ \A y \in Executor : <<y, cur[x]>> \notin wire'
    BY <1>1 DEF RejectedIsNothing, OnWire
  <2>1. answer[x] = "rejected" /\ cur[x] # r BY <1>4
  <2>2. /\ step[x] = "sending" /\ book[cur[x]].placed = 0
        /\ \A y \in Executor : <<y, cur[x]>> \notin wire
    BY <2>1 DEF IInv, Links, RejectedIsNothing, OnWire
  <2>3. cur[x] \in Request BY <1>8, <2>2
  <2>. QED BY <1>3, <1>7, <2>1, <2>2, <2>3
<1>15. TokenBeforeOrder'
  BY <1>1, <1>3, <1>6, <1>7 DEF IInv, Links, TokenBeforeOrder, OnWire
<1>16. AtMostOneOrder' BY <1>3 DEF IInv, Links, AtMostOneOrder
<1>17. FailureMeansNoOrder'
  BY <1>1, <1>3, <1>6, <1>7 DEF IInv, FailureMeansNoOrder, OnWire
<1>. QED
  BY <1>1, <1>11, <1>12, <1>13, <1>14, <1>15, <1>16, <1>17
     DEF IInv, Links, UnclaimedIsUnstarted, DeadlineIsConfirmations, ClaimedInTime,
         IdleHasNothing, WorkerIsHolder

\* A rejected or lost order leaves the wire; a rejection is told to the sender.
LEMMA LeaveInv ==
    ASSUME IInv, NEW e \in Executor, NEW r \in Request,
           BrokerRejects(e, r) \/ WireLoses(e, r)
    PROVE  Links' /\ FailureMeansNoOrder'
<1> USE DEF discord, booting, worker
<1>1. /\ <<e, r>> \in wire /\ wire' = wire \ {<<e, r>>}
      /\ UNCHANGED <<req, cur, step, sent, book>>
  BY DEF BrokerRejects, WireLoses
<1>2. req[r].holder = e /\ book[r].placed = 0
  BY <1>1 DEF IInv, Links, WireIsHolders
<1>3. \A x \in Executor : answer'[x] = "rejected" =>
        answer[x] = "rejected" \/ (step[x] = "sending" /\ cur[x] = r)
  BY DEF BrokerRejects, WireLoses, Answered, IInv, TypeOK
<1>4. \A x \in Executor : <<x, r>> \notin wire'
  BY <1>1, <1>2 DEF IInv, Links, WireIsHolders
<1>5. \A x, y : <<y, x>> \in wire' => <<y, x>> \in wire BY <1>1
<1>11. UnstartedIsUntouched'
  BY <1>1, <1>5 DEF IInv, Links, UnstartedIsUntouched, OnWire
<1>12. NothingSentBefore'
  BY <1>1, <1>5 DEF IInv, Links, NothingSentBefore, OnWire
<1>13. WireIsHolders' BY <1>1, <1>5 DEF IInv, Links, WireIsHolders
<1>14. RejectedIsNothing'
  BY <1>1, <1>2, <1>3, <1>4, <1>5 DEF IInv, Links, RejectedIsNothing, OnWire
<1>15. TokenBeforeOrder' BY <1>1, <1>5 DEF IInv, Links, TokenBeforeOrder, OnWire
<1>16. FailureMeansNoOrder' BY <1>1, <1>5 DEF IInv, FailureMeansNoOrder, OnWire
<1>. QED
  BY <1>1, <1>11, <1>12, <1>13, <1>14, <1>15, <1>16
     DEF IInv, Links, UnclaimedIsUnstarted, DeadlineIsConfirmations, ClaimedInTime,
         IdleHasNothing, WorkerIsHolder, AtMostOneOrder

\* A fill, a departure or a close changes no count of orders.
LEMMA BookInv ==
    ASSUME IInv, NEW r \in Request,
           RestingFills(r) \/ RestingLeaves(r) \/ PositionCloses(r)
    PROVE  Links' /\ FailureMeansNoOrder'
<1> USE DEF discord, booting, worker
<1>1. UNCHANGED <<req, cur, step, sent, answer, wire>>
  BY DEF RestingFills, RestingLeaves, PositionCloses
<1>2. \A x \in Request : book'[x].placed = book[x].placed
  <2>1. book \in [Request -> OrderBook] BY DEF IInv, TypeOK
  <2>2. \A v : FilledTo(book[r], v).placed = book[r].placed
    BY <2>1 DEF FilledTo, OrderBook
  <2>3. CASE RestingFills(r)
    BY <2>1, <2>2, <2>3 DEF RestingFills
  <2>4. CASE RestingLeaves(r) BY <2>1, <2>4 DEF RestingLeaves, OrderBook
  <2>5. CASE PositionCloses(r) BY <2>1, <2>5 DEF PositionCloses, OrderBook
  <2>. QED BY <2>3, <2>4, <2>5
<1>3. \A x \in Executor : step[x] # "idle" => cur[x] \in Request
  BY CurIsRequest DEF IInv, Links
<1> USE <1>1, <1>2 DEF IInv, Links, OnWire
<1>4. UnstartedIsUntouched' BY DEF UnstartedIsUntouched
<1>5. NothingSentBefore' BY <1>3 DEF NothingSentBefore
<1>6. WireIsHolders' BY DEF WireIsHolders
<1>7. RejectedIsNothing' BY <1>3 DEF RejectedIsNothing
<1>8. TokenBeforeOrder' BY DEF TokenBeforeOrder
<1>9. AtMostOneOrder' BY DEF AtMostOneOrder
<1>10. FailureMeansNoOrder' BY DEF FailureMeansNoOrder
<1>. QED
  BY <1>4, <1>5, <1>6, <1>7, <1>8, <1>9, <1>10
     DEF UnclaimedIsUnstarted, DeadlineIsConfirmations, ClaimedInTime, IdleHasNothing,
         WorkerIsHolder

LEMMA BrokerInv ==
    ASSUME IInv, Broker
    PROVE  IInv'
<1>1. TypeOK' BY BrokerType DEF IInv
<1>2. Links' /\ FailureMeansNoOrder' BY AcceptInv, LeaveInv, BookInv DEF Broker
<1>. QED BY <1>1, <1>2 DEF IInv

-----------------------------------------------------------------------------
(* The theorems.                                                             *)

LEMMA InitInv == Init => IInv
<1> SUFFICES ASSUME Init PROVE IInv
  OBVIOUS
<1>1. TypeOK BY InitType
<1>2. /\ \A r \in Request : /\ req[r].status = "ABSENT" /\ req[r].startedAt = None
                            /\ req[r].expiresAt = None
                            /\ book[r].placed = 0
      /\ \A e \in Executor : /\ cur[e] = None /\ step[e] = "idle" /\ sent[e] = {}
                             /\ answer[e] = "none"
      /\ wire = {}
  BY DEF Init, NoRow, NoOrder
<1>3. Links
  BY <1>2, NoneIsFresh
     DEF Links, UnclaimedIsUnstarted, DeadlineIsConfirmations, UnstartedIsUntouched,
         ClaimedInTime, IdleHasNothing, WorkerIsHolder, NothingSentBefore,
         WireIsHolders, RejectedIsNothing, TokenBeforeOrder, AtMostOneOrder, OnWire
<1>4. FailureMeansNoOrder BY <1>2 DEF FailureMeansNoOrder
<1>. QED BY <1>1, <1>3, <1>4 DEF IInv

LEMMA NextInv == IInv /\ [Next]_vars => IInv'
<1> SUFFICES ASSUME IInv, [Next]_vars PROVE IInv'
  OBVIOUS
<1>1. CASE Tick \/ UNCHANGED vars
  <2>1. TypeOK' BY <1>1, NextType DEF IInv, Links, Next
  <2>2. UNCHANGED <<req, cur, step, sent, answer, wire, book>>
    BY <1>1 DEF Tick, vars, worker, broker
  <2>3. Links' BY <2>2, SameRows, QuietLinks DEF IInv
  <2>4. FailureMeansNoOrder' BY <2>2, FailureKept DEF IInv
  <2>. QED BY <2>1, <2>3, <2>4 DEF IInv
<1>. QED
  BY <1>1, DiscordInv, WorkInv, StartupInv, KeepAliveInv, CrashInv, BrokerInv
     DEF Next

\* IInv holds in every reachable state: it is inductive.
THEOREM Invariance == Spec => []IInv
  BY InitInv, NextInv, PTL DEF Spec

\* Every reachable state is well typed.
THEOREM TypeCorrect == Spec => []TypeOK
<1>1. IInv => TypeOK BY DEF IInv
<1>. QED BY <1>1, Invariance, PTL

\* One confirmation never becomes two orders at the broker, for any number of
\* executors, requests and crashes.
THEOREM OneOrderPerRequest == Spec => []AtMostOneOrder
<1>1. IInv => AtMostOneOrder BY DEF IInv, Links
<1>. QED BY <1>1, Invariance, PTL

\* An order is sent only for a request that was claimed while its confirmation
\* was alive, and is named by a token its row already holds.
THEOREM OrdersAreAuthorised == Spec => []OnlyAuthorisedOrders
<1>1. IInv => TokenBeforeOrder BY DEF IInv, Links
<1>2. IInv => OrderNeedsLiveConfirmation
  BY DEF IInv, Links, OrderNeedsLiveConfirmation, UnstartedIsUntouched, ClaimedInTime
<1>3. IInv => OnlyAuthorisedOrders
  BY <1>1, <1>2 DEF OnlyAuthorisedOrders
<1>. QED BY <1>3, Invariance, PTL

\* FAILED and FAILED_STALE are only ever recorded for a request that has no
\* order and will have none.
THEOREM FailedMeansNothing == Spec => []FailureMeansNoOrder
<1>1. IInv => FailureMeansNoOrder BY DEF IInv
<1>. QED BY <1>1, Invariance, PTL

-----------------------------------------------------------------------------
(* What no step may do.                                                      *)

\* A write the transition table accepts never leaves a settled status.
LEMMA AcceptsOpen ==
    ASSUME NEW q, NEW s, Accepts(q, s)
    PROVE  q.status \notin Terminal
<1>1. CASE q.status = s BY <1>1 DEF Accepts
<1>2. CASE q.status # s
  <2>1. s \in NextStatuses(q.status) BY <1>2 DEF Accepts
  <2>. QED BY <2>1 DEF NextStatuses, Terminal
<1>. QED BY <1>1, <1>2

\* Executor e concludes, from its probe and two more reads, that request r has
\* status s, for the reason f.
Judged(e, r, s, f) ==
    /\ probe[e] # None /\ probe[e].entry.id = r /\ s # probe[e].entry.status
    /\ \E order, deals \in BOOLEAN :
         /\ Reads(Listed(r), order) /\ Reads(probe[e].entry.dealt > 0, deals)
         /\ s = Verdict(probe[e], order, deals) /\ f = FailureOf(order, s)

\* How one step changes the row of request r: not at all, by a write of the
\* view, by a claim, by a stale mark, by a write that changes neither status
\* nor deadline, or by a resolution the table accepts.
RowStep(r) ==
    \/ req'[r] = req[r]
    \/ req[r].status = "ABSENT" /\ \E k \in Kind : req'[r] = Created(k)
    \/ MayConfirm(req[r]) /\ req'[r] = Confirmed(req[r], clock)
    \/ \E e \in Executor : MayClaim(req[r], clock) /\ req'[r] = Claimed(req[r], e, clock)
    \/ IsStale(req[r], clock) /\ req'[r] = MarkedStale(req[r])
    \/ req'[r] \in {Stamped(req[r]), Renewed(req[r], clock)}
    \/ \E s \in StoredStatus \ (Unclaimed \cup {"EXECUTING"}) :
          /\ Accepts(req[r], s)
          /\ \/ req'[r] = Resolved(req[r], s)
             \/ \E u \in BOOLEAN : req'[r] = Recorded(req[r], s, u)
             \/ \E e \in Executor, f \in Failure :
                  /\ Judged(e, r, s, f)
                  /\ req'[r] = [Resolved(req[r], s) EXCEPT !.failure = f]

LEMMA RowSteps ==
    ASSUME IInv, [Next]_vars, NEW r \in Request
    PROVE  RowStep(r)
<1> USE DEF RowStep
<1>0. /\ req \in [Request -> TradeRequest]
      /\ \A e \in Executor : step[e] # "idle" => cur[e] \in Request
  BY CurIsRequest DEF IInv, TypeOK, Links
<1>1. ASSUME NEW x \in Request, Discord(x) PROVE RowStep(r)
  <2>1. CASE \E k \in Kinds : Submit(x, k)
    BY <1>0, <2>1, ExecutionAssumption DEF Submit
  <2>2. CASE ConfirmWrite(x) BY <1>0, <2>2 DEF ConfirmWrite
  <2>3. CASE CancelWrite(x)
    <3>1. "CANCELLED" \in StoredStatus \ (Unclaimed \cup {"EXECUTING"}) /\ None \in Failure
      BY DEF StoredStatus, Status, Unclaimed, Failure
    <3>. QED BY <1>0, <2>3, <3>1 DEF CancelWrite
  <2>4. CASE UNCHANGED req BY <2>4
  <2>. QED
    BY <1>1, <2>1, <2>2, <2>3, <2>4
       DEF Discord, PressConfirm, ConfirmRefused, DisableView, PressCancel, ViewTimeout
<1>2. ASSUME NEW e \in Executor, Work(e) PROVE RowStep(r)
  <2>1. ASSUME NEW x \in Request, Claim(e, x) PROVE RowStep(r)
    BY <1>0, <2>1 DEF Claim
  <2>2. ASSUME NEW x \in Request, ClaimStale(e, x) PROVE RowStep(r)
    BY <1>0, <2>2 DEF ClaimStale
  <2>3. CASE GuardRefuses(e)
    <3>1. "FAILED" \in StoredStatus \ (Unclaimed \cup {"EXECUTING"}) /\ None \in Failure
      BY DEF StoredStatus, Status, Unclaimed, Failure
    <3>. QED BY <1>0, <2>3, <3>1, ResolvesShape DEF GuardRefuses
  <2>4. CASE Stamp(e) BY <1>0, <2>4 DEF Stamp
  <2>5. CASE Record(e)
    <3> DEFINE s == Outcome(answer[e], cur[e])
    <3>1. s \in StoredStatus \ (Unclaimed \cup {"EXECUTING"})
      BY DEF Outcome, StoredStatus, Status, Unclaimed
    <3>2. \/ UNCHANGED req
          \/ \E u \in BOOLEAN :
               /\ Accepts(req[cur[e]], s)
               /\ req' = [req EXCEPT ![cur[e]] = Recorded(@, s, u)]
      BY <2>5, ResolvesShape DEF Record
    <3>3. cur[e] \in Request BY <1>0, <2>5 DEF Record
    <3> HIDE DEF s
    <3>4. CASE UNCHANGED req BY <3>4
    <3>5. ASSUME NEW u \in BOOLEAN, Accepts(req[cur[e]], s),
                 req' = [req EXCEPT ![cur[e]] = Recorded(@, s, u)]
          PROVE  RowStep(r)
      <4>1. CASE r = cur[e]
        <5>1. req'[r] = Recorded(req[r], s, u) BY <1>0, <3>5, <4>1
        <5>. QED BY <3>1, <3>5, <4>1, <5>1
      <4>2. CASE r # cur[e] BY <1>0, <3>5, <4>2
      <4>. QED BY <4>1, <4>2
    <3>. QED BY <3>2, <3>4, <3>5
  <2>6. CASE UNCHANGED req BY <2>6
  <2>. QED
    BY <1>2, <2>1, <2>2, <2>3, <2>4, <2>5, <2>6
       DEF Work, Poll, ClaimLost, GuardPasses, Send, SendUnknown
<1>3. ASSUME NEW e \in Executor, Startup(e) PROVE RowStep(r)
  <2>1. CASE Judge(e)
    <3> DEFINE x == probe[e].entry.id
    <3>0. probe[e] # None /\ x \in Request BY <2>1 DEF Judge, IInv, TypeOK, Probe, Entry
    <3>1. PICK order \in BOOLEAN, deals \in BOOLEAN :
            LET s == Verdict(probe[e], order, deals) IN
            \/ req' = req
            \/ /\ Reads(Listed(x), order) /\ Reads(probe[e].entry.dealt > 0, deals)
               /\ Accepts(req[x], s) /\ s # probe[e].entry.status
               /\ req' = [req EXCEPT ![x] = [Resolved(@, s) EXCEPT !.failure = FailureOf(order, s)]]
      BY <2>1 DEF Judge
    <3>2. Verdict(probe[e], order, deals) \in StoredStatus \ Unclaimed
      <4>1. Verdict(probe[e], order, deals) \notin Unclaimed
        BY DEF Verdict, ExecutingVerdict, PendingVerdict, PartialVerdict, Filled, Unclaimed
      <4>. QED BY <4>1, VerdictType
    <3>3. probe[e].entry.status # "EXECUTING" => Verdict(probe[e], order, deals) # "EXECUTING"
      BY VerdictCases DEF PendingVerdict, PartialVerdict, Filled
    <3> DEFINE s == Verdict(probe[e], order, deals)
    <3>4. CASE req' = req BY <3>4
    <3>5. CASE r # x BY <1>0, <3>0, <3>1, <3>5
    <3>6. CASE r = x /\ req' # req
      <4>1. /\ Accepts(req[r], s) /\ s # probe[e].entry.status
            /\ Reads(Listed(r), order) /\ Reads(probe[e].entry.dealt > 0, deals)
        BY <3>1, <3>6
      <4>2. req'[r] = [Resolved(req[r], s) EXCEPT !.failure = FailureOf(order, s)]
        BY <1>0, <3>0, <3>1, <3>6
      <4>3. Judged(e, r, s, FailureOf(order, s)) BY <3>0, <3>6, <4>1 DEF Judged
      <4>4. s \in StoredStatus \ (Unclaimed \cup {"EXECUTING"}) BY <3>2, <3>3, <4>1
      <4> HIDE DEF s
      <4>. QED BY <4>1, <4>2, <4>3, <4>4, FailureType
    <3>. QED BY <3>4, <3>5, <3>6
  <2>2. CASE UNCHANGED req BY <2>2
  <2>. QED BY <1>3, <2>1, <2>2 DEF Startup, Boot, Serve, ReadPositions
<1>4. ASSUME NEW e \in Executor, KeepAlive(e) \/ Crash(e) PROVE RowStep(r)
  BY <1>0, <1>4 DEF KeepAlive, Crash
<1>5. CASE Broker \/ Tick \/ UNCHANGED vars
  BY <1>5 DEF Broker, BrokerAccepts, BrokerRejects, WireLoses, RestingFills,
              RestingLeaves, PositionCloses, Tick, vars
<1>. QED BY <1>1, <1>2, <1>3, <1>4, <1>5 DEF Next

\* A settled row keeps its status.
LEMMA SettledRow ==
    ASSUME IInv, NEW r \in Request, RowStep(r), req[r].status \in Terminal
    PROVE  req'[r].status = req[r].status
<1>1. req[r] \in TradeRequest BY DEF IInv, TypeOK
<1>2. \A s : ~Accepts(req[r], s) BY AcceptsOpen
<1>3. req'[r] \in {req[r], Stamped(req[r]), Renewed(req[r], clock)}
  BY <1>2 DEF RowStep, MayConfirm, MayClaim, IsStale, Terminal
<1>. QED BY <1>1, <1>3 DEF Stamped, Renewed, TradeRequest

\* A deadline, once set, stays.
LEMMA DeadlineRow ==
    ASSUME IInv, NEW r \in Request, RowStep(r), req[r].expiresAt # None
    PROVE  req'[r].expiresAt = req[r].expiresAt
<1>1. req[r] \in TradeRequest BY DEF IInv, TypeOK
<1>2. req[r].status \notin {"ABSENT", "REQUESTED"}
  BY DEF IInv, Links, DeadlineIsConfirmations
<1>. QED
  BY <1>1, <1>2
     DEF RowStep, MayConfirm, Claimed, MarkedStale, Stamped, Renewed, Resolved, Recorded,
         TradeRequest

\* A settled request keeps its status, whichever of the view, the worker and
\* the sweep writes last.
THEOREM SettledForGood == Spec => SettledStays
<1>1. IInv /\ [Next]_vars =>
        \A r \in Request : req[r].status \in Terminal => req'[r].status = req[r].status
  BY RowSteps, SettledRow
<1>. QED BY <1>1, Invariance, PTL DEF Spec, SettledStays

\* One authorisation arms one execution: a deadline once set never moves.
THEOREM DeadlineNeverMoves == Spec => ConfirmationIsFinal
<1>1. IInv /\ [Next]_vars =>
        \A r \in Request : req[r].expiresAt # None =>
          req'[r].expiresAt = req[r].expiresAt
  BY RowSteps, DeadlineRow
<1>. QED BY <1>1, Invariance, PTL DEF Spec, ConfirmationIsFinal

-----------------------------------------------------------------------------
(* The execution path implements OneOrder.                                   *)

\* Where one step takes a request in the abstract specification.
LEMMA StageStep ==
    ASSUME IInv, NEW r \in Request, RowStep(r)
    PROVE  \/ Stage(req'[r]) = Stage(req[r])
           \/ Stage(req[r]) = "asked" /\ Stage(req'[r]) \in {"authorised", "withdrawn"}
           \/ Stage(req[r]) = "authorised" /\ Stage(req'[r]) \in {"taken", "withdrawn"}
<1>2. req[r] \in TradeRequest /\ clock \in Nat BY DEF IInv, TypeOK
<1>3. /\ req[r].status \in Unclaimed => req[r].startedAt = None
      /\ clock # None
  BY <1>2, NoneIsFresh DEF IInv, Links, UnclaimedIsUnstarted
<1>4. CASE req'[r] = req[r] BY <1>4
<1>5. ASSUME NEW k \in Kind, req[r].status = "ABSENT", req'[r] = Created(k)
      PROVE  Stage(req'[r]) = Stage(req[r])
  BY <1>3, <1>5 DEF Created, NoRow, Stage, Unclaimed
<1>6. CASE MayConfirm(req[r]) /\ req'[r] = Confirmed(req[r], clock)
  BY <1>2, <1>3, <1>6 DEF MayConfirm, Confirmed, Stage, Unclaimed, TradeRequest
<1>7. ASSUME NEW e \in Executor, MayClaim(req[r], clock), req'[r] = Claimed(req[r], e, clock)
      PROVE  Stage(req[r]) = "authorised" /\ Stage(req'[r]) = "taken"
  BY <1>2, <1>3, <1>7 DEF MayClaim, Claimed, Stage, Unclaimed, TradeRequest
<1>8. CASE IsStale(req[r], clock) /\ req'[r] = MarkedStale(req[r])
  BY <1>2, <1>3, <1>8 DEF IsStale, MarkedStale, Stage, Unclaimed, TradeRequest
<1>9. CASE req'[r] \in {Stamped(req[r]), Renewed(req[r], clock)}
  BY <1>2, <1>9 DEF Stamped, Renewed, Stage, TradeRequest
<1>10. ASSUME NEW s \in StoredStatus \ Unclaimed, Accepts(req[r], s),
              \/ req'[r] = Resolved(req[r], s)
              \/ \E u \in BOOLEAN : req'[r] = Recorded(req[r], s, u)
              \/ \E f \in Failure : req'[r] = [Resolved(req[r], s) EXCEPT !.failure = f]
       PROVE  \/ Stage(req'[r]) = Stage(req[r])
              \/ Stage(req[r]) = "asked" /\ Stage(req'[r]) = "withdrawn"
              \/ Stage(req[r]) = "authorised" /\ Stage(req'[r]) = "withdrawn"
  <2>1. req'[r].status = s /\ req'[r].startedAt = req[r].startedAt
    BY <1>2, <1>10 DEF Resolved, Recorded, TradeRequest
  <2>. QED BY <2>1 DEF Stage, Unclaimed
<1>. QED BY <1>4, <1>5, <1>6, <1>7, <1>8, <1>9, <1>10 DEF RowStep

\* Only the broker's acceptance adds an order, the first, to a request taken.
LEMMA OrderStep ==
    ASSUME IInv, [Next]_vars
    PROVE  \/ \A r \in Request : book'[r].placed = book[r].placed
           \/ \E r \in Request :
                /\ Stage(req[r]) = "taken" /\ book[r].placed = 0 /\ book'[r].placed = 1
                /\ \A x \in Request : x # r => book'[x].placed = book[x].placed
                /\ UNCHANGED req
<1>0. book \in [Request -> OrderBook] BY DEF IInv, TypeOK
<1>1. ASSUME NEW e \in Executor, NEW r \in Request, BrokerAccepts(e, r)
      PROVE  /\ Stage(req[r]) = "taken" /\ book[r].placed = 0 /\ book'[r].placed = 1
             /\ \A x \in Request : x # r => book'[x].placed = book[x].placed
             /\ UNCHANGED req
  <2>1. book[r].placed = 0 BY <1>1 DEF BrokerAccepts, IInv, Links, WireIsHolders
  <2>2. Stage(req[r]) = "taken"
    BY <1>1 DEF BrokerAccepts, IInv, Links, UnstartedIsUntouched, OnWire, Stage
  <2>3. /\ Rested(book[r]).placed = 1
        /\ \A v \in 1..Volume : Executed(book[r], v).placed = 1
    BY <1>0, <2>1 DEF Rested, Executed, OrderBook
  <2>4. PICK v \in 1..Volume :
          \/ book' = [book EXCEPT ![r] = Rested(@)]
          \/ book' = [book EXCEPT ![r] = Executed(@, v)]
    BY <1>1, AcceptShape
  <2>5. book'[r].placed = 1 /\ \A x \in Request : x # r => book'[x].placed = book[x].placed
    BY <1>0, <2>3, <2>4
  <2>. QED BY <1>1, <2>1, <2>2, <2>5 DEF BrokerAccepts
<1>2. ASSUME NEW r \in Request, RestingFills(r) \/ RestingLeaves(r) \/ PositionCloses(r)
      PROVE  \A x \in Request : book'[x].placed = book[x].placed
  <2>1. \A v : FilledTo(book[r], v).placed = book[r].placed
    BY <1>0 DEF FilledTo, OrderBook
  <2>. QED
    BY <1>0, <1>2, <2>1 DEF RestingFills, RestingLeaves, PositionCloses, OrderBook
<1>3. CASE UNCHANGED book BY <1>3
<1>4. ASSUME [Next]_vars, ~Broker PROVE UNCHANGED book
  BY <1>4 DEF Next, vars, broker, Discord, Submit, PressConfirm, ConfirmWrite,
     ConfirmRefused, DisableView, PressCancel, CancelWrite, ViewTimeout, Work, Poll, Claim,
     ClaimStale, ClaimLost, GuardPasses, GuardRefuses, Stamp, Send, SendUnknown, Record,
     Startup, Boot, Judge, Serve, ReadPositions, KeepAlive, Crash, Tick
<1>5. CASE Broker
  BY <1>1, <1>2, <1>3, <1>5 DEF Broker, BrokerRejects, WireLoses
<1>. QED BY <1>3, <1>4, <1>5

\* At most one row changes in a step, and none when an order is placed.
LEMMA OneRowPerStep ==
    ASSUME IInv, [Next]_vars
    PROVE  \/ UNCHANGED req
           \/ /\ UNCHANGED book
              /\ \E r \in Request : \A x \in Request : x # r => req'[x] = req[x]
<1>0. /\ req \in [Request -> TradeRequest]
      /\ \A e \in Executor : step[e] # "idle" => cur[e] \in Request
      /\ \A e \in Executor : probe[e] # None => probe[e].entry.id \in Request
  BY CurIsRequest DEF IInv, TypeOK, Links, Probe, Entry
<1> USE DEF broker
<1>1. ASSUME NEW x \in Request, Discord(x)
      PROVE  UNCHANGED book /\ \A y \in Request : y # x => req'[y] = req[y]
  BY <1>0, <1>1 DEF Discord, Submit, PressConfirm, ConfirmWrite, ConfirmRefused,
     DisableView, PressCancel, CancelWrite, ViewTimeout
<1>2. ASSUME NEW e \in Executor, NEW x \in Request,
             Claim(e, x) \/ ClaimStale(e, x) \/ ClaimLost(e, x)
      PROVE  UNCHANGED book /\ \A y \in Request : y # x => req'[y] = req[y]
  BY <1>0, <1>2 DEF Claim, ClaimStale, ClaimLost
<1>3. ASSUME NEW e \in Executor,
             GuardRefuses(e) \/ Stamp(e) \/ Record(e) \/ KeepAlive(e)
      PROVE  /\ UNCHANGED book
             /\ cur[e] \in Request /\ \A y \in Request : y # cur[e] => req'[y] = req[y]
  BY <1>0, <1>3, ResolvesShape DEF GuardRefuses, Stamp, Record, KeepAlive
<1>4. ASSUME NEW e \in Executor, Judge(e)
      PROVE  /\ UNCHANGED book /\ probe[e].entry.id \in Request
             /\ \A y \in Request : y # probe[e].entry.id => req'[y] = req[y]
  BY <1>0, <1>4 DEF Judge
<1>5. ASSUME NEW e \in Executor,
             \/ Poll(e) \/ GuardPasses(e) \/ Send(e) \/ SendUnknown(e) \/ Crash(e)
             \/ Boot(e) \/ Serve(e) \/ \E x \in sweep[e] : ReadPositions(e, x)
      PROVE  UNCHANGED req
  BY <1>5 DEF Poll, GuardPasses, Send, SendUnknown, Crash, Boot, Serve, ReadPositions
<1>6. CASE Broker \/ Tick \/ UNCHANGED vars
  BY <1>6 DEF Broker, BrokerAccepts, BrokerRejects, WireLoses, RestingFills,
              RestingLeaves, PositionCloses, Tick, vars
<1>. QED BY <1>1, <1>2, <1>3, <1>4, <1>5, <1>6 DEF Next, Work, Startup

LEMMA AbstractInit == Init => Abstract!Init
  BY DEF Init, Abstract!Init, Stage, NoRow, NoOrder

\* A step that places one order, or changes one row, is a step of OneOrder.
LEMMA AbstractMove ==
    ASSUME IInv, \A r \in Request : RowStep(r),
           \/ /\ UNCHANGED req
              /\ \/ \A r \in Request : book'[r].placed = book[r].placed
                 \/ \E r \in Request :
                      /\ Stage(req[r]) = "taken" /\ book[r].placed = 0 /\ book'[r].placed = 1
                      /\ \A x \in Request : x # r => book'[x].placed = book[x].placed
           \/ /\ UNCHANGED book
              /\ \E r \in Request : \A x \in Request : x # r => req'[x] = req[x]
    PROVE  [Abstract!Next]_<<[r \in Request |-> Stage(req[r])],
                             [r \in Request |-> book[r].placed]>>
<1> DEFINE stage == [r \in Request |-> Stage(req[r])]
           orders == [r \in Request |-> book[r].placed]
<1>1. CASE /\ UNCHANGED req
           /\ \A r \in Request : book'[r].placed = book[r].placed
  BY <1>1
<1>2. ASSUME UNCHANGED req, NEW r \in Request,
             Stage(req[r]) = "taken", book[r].placed = 0, book'[r].placed = 1,
             \A x \in Request : x # r => book'[x].placed = book[x].placed
      PROVE  Abstract!Next
  <2>1. stage[r] = "taken" /\ orders[r] = 0 /\ UNCHANGED stage BY <1>2
  <2>2. orders' = [orders EXCEPT ![r] = 1] BY <1>2
  <2>. QED BY <2>1, <2>2 DEF Abstract!Next, Abstract!Place
<1>3. ASSUME UNCHANGED book, NEW r \in Request,
             \A x \in Request : x # r => req'[x] = req[x]
      PROVE  Abstract!Next \/ UNCHANGED <<stage, orders>>
  <2>1. UNCHANGED orders BY <1>3
  <2>2. stage' = [stage EXCEPT ![r] = Stage(req'[r])] BY <1>3
  <2>3. stage[r] = Stage(req[r]) OBVIOUS
  <2>4. CASE Stage(req'[r]) = Stage(req[r])
    BY <2>1, <2>2, <2>4
  <2>5. CASE Stage(req[r]) = "asked" /\ Stage(req'[r]) \in {"authorised", "withdrawn"}
    BY <2>1, <2>2, <2>3, <2>5
       DEF Abstract!Next, Abstract!Authorise, Abstract!Withdraw, Abstract!Move
  <2>6. CASE Stage(req[r]) = "authorised" /\ Stage(req'[r]) \in {"taken", "withdrawn"}
    BY <2>1, <2>2, <2>3, <2>6
       DEF Abstract!Next, Abstract!Take, Abstract!Withdraw, Abstract!Move
  <2>. QED BY <2>4, <2>5, <2>6, StageStep
<1>. QED BY <1>1, <1>2, <1>3

LEMMA AbstractStep ==
    ASSUME IInv, [Next]_vars
    PROVE  [Abstract!Next]_<<[r \in Request |-> Stage(req[r])],
                             [r \in Request |-> book[r].placed]>>
  BY RowSteps, OneRowPerStep, OrderStep, AbstractMove

\* Whatever the executors, the view, the sweeps, the crashes and the broker do
\* is a behaviour of OneOrder.
THEOREM Refinement == Spec => ImplementsOneOrder
  BY AbstractInit, AbstractStep, Invariance, PTL
     DEF Spec, ImplementsOneOrder, Abstract!Spec

-----------------------------------------------------------------------------
(* What is recorded is true.                                                 *)

\* What status s says of the order of request r; and what it says where the
\* volume may have been left out.
Truth(s, r) ==
    /\ s = "FILLED" => book[r].filled = Volume
    /\ s = "PARTIALLY_FILLED" => book[r].filled > 0
    /\ s = "PENDING" => book[r].placed = 1 /\ req[r].kind = "pending"

Says(s, u, r) ==
    /\ s = "FILLED" => IF u THEN book[r].placed = 1 ELSE book[r].filled = Volume
    /\ s = "PARTIALLY_FILLED" => book[r].filled > 0
    /\ s = "PENDING" => book[r].placed = 1 /\ req[r].kind = "pending"

\* What is true with the volume is true without it.
LEMMA TruthSays ==
    ASSUME IInv, BookIsSane, NEW r \in Request, NEW s, NEW u, Truth(s, r)
    PROVE  Says(s, u, r)
<1>1. book[r] \in OrderBook /\ book[r].placed <= 1
  BY DEF IInv, TypeOK, Links, AtMostOneOrder
<1>2. book[r].filled = Volume => book[r].placed = 1
  BY <1>1, ExecutionAssumption DEF BookIsSane, OrderBook
<1>. QED BY <1>2 DEF Truth, Says

\* How one step changes the broker's records of request r.
BookStep(r) ==
    \/ book'[r] = book[r]
    \/ \E e \in Executor : <<e, r>> \in wire /\ UNCHANGED req
         /\ \/ book'[r] = Rested(book[r])
            \/ \E v \in 1..Volume : book'[r] = Executed(book[r], v)
    \/ /\ book[r].resting /\ UNCHANGED req
       /\ \/ \E v \in (book[r].filled + 1)..Volume : book'[r] = FilledTo(book[r], v)
          \/ book'[r] = [book[r] EXCEPT !.resting = FALSE]
    \/ book[r].open /\ UNCHANGED req /\ book'[r] = [book[r] EXCEPT !.open = FALSE]

LEMMA BookSteps ==
    ASSUME TypeOK, [Next]_vars, NEW r \in Request
    PROVE  BookStep(r)
<1>0. book \in [Request -> OrderBook] BY DEF TypeOK
<1> USE DEF BookStep
<1>1. ASSUME NEW e \in Executor, NEW x \in Request, BrokerAccepts(e, x)
      PROVE  BookStep(r)
  <2>1. <<e, x>> \in wire /\ UNCHANGED req BY <1>1 DEF BrokerAccepts
  <2>2. CASE book' = [book EXCEPT ![x] = Rested(@)] BY <1>0, <2>1, <2>2
  <2>3. ASSUME NEW v \in 1..Volume, book' = [book EXCEPT ![x] = Executed(@, v)]
        PROVE  BookStep(r)
    BY <1>0, <2>1, <2>3
  <2>. QED BY <1>1, <2>2, <2>3, AcceptShape
<1>2. ASSUME NEW x \in Request, RestingFills(x) PROVE BookStep(r)
  BY <1>0, <1>2 DEF RestingFills
<1>3. ASSUME NEW x \in Request, RestingLeaves(x) PROVE BookStep(r)
  BY <1>0, <1>3 DEF RestingLeaves
<1>4. ASSUME NEW x \in Request, PositionCloses(x) PROVE BookStep(r)
  BY <1>0, <1>4 DEF PositionCloses
<1>5. CASE UNCHANGED book BY <1>5
<1>6. ASSUME ~Broker PROVE UNCHANGED book
  BY <1>6 DEF Next, vars, broker, Discord, Submit, PressConfirm, ConfirmWrite,
     ConfirmRefused, DisableView, PressCancel, CancelWrite, ViewTimeout, Work, Poll, Claim,
     ClaimStale, ClaimLost, GuardPasses, GuardRefuses, Stamp, Send, SendUnknown, Record,
     Startup, Boot, Judge, Serve, ReadPositions, KeepAlive, Crash, Tick
<1>. QED
  BY <1>1, <1>2, <1>3, <1>4, <1>5, <1>6 DEF Broker, BrokerRejects, WireLoses

\* The records of an order, field by field, after each of these.
LEMMA OrderFields ==
    ASSUME NEW b \in OrderBook, NEW v
    PROVE  /\ Rested(b).placed = b.placed + 1 /\ Rested(b).filled = b.filled
           /\ Rested(b).open = b.open
           /\ Executed(b, v).placed = b.placed + 1 /\ Executed(b, v).filled = v
           /\ Executed(b, v).resting = b.resting
           /\ FilledTo(b, v).placed = b.placed /\ FilledTo(b, v).filled = v
  BY DEF OrderBook, Rested, Executed, FilledTo

\* The broker's records only grow.
LEMMA BookGrows ==
    ASSUME IInv, BookIsSane, [Next]_vars, NEW r \in Request
    PROVE  /\ book'[r].placed >= book[r].placed
           /\ book'[r].filled >= book[r].filled
<1>0. book[r] \in OrderBook BY DEF IInv, TypeOK
<1>1. BookStep(r) BY BookSteps DEF IInv
<1>2. CASE book'[r] = book[r] BY <1>0, <1>2 DEF OrderBook
<1>3. ASSUME NEW e \in Executor, <<e, r>> \in wire,
             book'[r] = Rested(book[r]) \/ \E v \in 1..Volume : book'[r] = Executed(book[r], v)
      PROVE  /\ book'[r].placed >= book[r].placed
             /\ book'[r].filled >= book[r].filled
  <2>1. book[r].placed = 0 BY <1>3 DEF IInv, Links, WireIsHolders
  <2>2. book[r].filled = 0 BY <1>0, <2>1 DEF BookIsSane, OrderBook
  <2>. QED BY <1>0, <1>3, <2>1, <2>2, OrderFields, ExecutionAssumption
<1>4. ASSUME NEW v \in (book[r].filled + 1)..Volume, book'[r] = FilledTo(book[r], v)
      PROVE  /\ book'[r].placed >= book[r].placed
             /\ book'[r].filled >= book[r].filled
  <2>1. v >= book[r].filled /\ book[r].placed \in Nat BY <1>0, ExecutionAssumption DEF OrderBook
  <2>. QED BY <1>0, <1>4, <2>1, OrderFields
<1>5. ASSUME \/ book'[r] = [book[r] EXCEPT !.resting = FALSE]
             \/ book'[r] = [book[r] EXCEPT !.open = FALSE]
      PROVE  /\ book'[r].placed >= book[r].placed
             /\ book'[r].filled >= book[r].filled
  BY <1>0, <1>5 DEF OrderBook
<1>. QED BY <1>1, <1>2, <1>3, <1>4, <1>5 DEF BookStep

\* A row keeps its kind from its creation on.
LEMMA KindStays ==
    ASSUME IInv, NEW r \in Request, RowStep(r)
    PROVE  \/ req'[r].kind = req[r].kind
           \/ req[r].status = "ABSENT" /\ req'[r].failure = None
<1>1. req[r] \in TradeRequest BY DEF IInv, TypeOK
<1>. QED
  BY <1>1 DEF RowStep, Created, NoRow, Confirmed, Claimed, MarkedStale, Stamped, Renewed,
              Resolved, Recorded, TradeRequest

\* Of a request nobody has taken the broker knows nothing.
LEMMA AbsentIsUntouched ==
    ASSUME IInv, BookIsSane, NEW r \in Request, req[r].status = "ABSENT"
    PROVE  /\ book[r].placed = 0 /\ book[r].filled = 0
           /\ ~book[r].resting /\ ~book[r].open
<1>1. book[r] \in OrderBook BY DEF IInv, TypeOK
<1>2. book[r].placed = 0
  BY DEF IInv, Links, UnclaimedIsUnstarted, UnstartedIsUntouched, Unclaimed
<1>. QED BY <1>1, <1>2 DEF BookIsSane, OrderBook

LEMMA BookSaneStep ==
    ASSUME IInv, BookIsSane, [Next]_vars
    PROVE  BookIsSane'
<1> SUFFICES ASSUME NEW r \in Request
    PROVE  /\ book'[r].resting => book'[r].placed > 0
           /\ book'[r].open => book'[r].filled > 0
           /\ book'[r].filled > 0 => book'[r].placed > 0
  BY DEF BookIsSane
<1>0. book[r] \in OrderBook BY DEF IInv, TypeOK
<1>1. BookStep(r) BY BookSteps DEF IInv
<1>2. /\ book[r].resting => book[r].placed > 0
      /\ book[r].open => book[r].filled > 0
      /\ book[r].filled > 0 => book[r].placed > 0
  BY DEF BookIsSane
<1>3. CASE book'[r] = book[r] BY <1>2, <1>3
<1>4. ASSUME NEW e \in Executor, <<e, r>> \in wire
      PROVE  book[r].placed = 0 /\ book[r].filled = 0 /\ ~book[r].open
  <2>1. book[r].placed = 0 BY <1>4 DEF IInv, Links, WireIsHolders
  <2>. QED BY <1>0, <1>2, <2>1 DEF OrderBook
<1>5. ASSUME NEW e \in Executor, <<e, r>> \in wire, book'[r] = Rested(book[r])
      PROVE  book'[r].placed = 1 /\ ~book'[r].open /\ book'[r].filled = 0
  BY <1>0, <1>4, <1>5, OrderFields
<1>6. ASSUME NEW e \in Executor, <<e, r>> \in wire,
             NEW v \in 1..Volume, book'[r] = Executed(book[r], v)
      PROVE  book'[r].placed = 1 /\ book'[r].filled > 0
  BY <1>0, <1>4, <1>6, OrderFields, ExecutionAssumption
<1>7. ASSUME book[r].resting,
             NEW v \in (book[r].filled + 1)..Volume, book'[r] = FilledTo(book[r], v)
      PROVE  book'[r].placed > 0 /\ book'[r].filled > 0
  <2>1. v > 0 BY <1>0, ExecutionAssumption DEF OrderBook
  <2>. QED BY <1>0, <1>2, <1>7, <2>1, OrderFields
<1>8. ASSUME \/ book'[r] = [book[r] EXCEPT !.resting = FALSE]
             \/ book'[r] = [book[r] EXCEPT !.open = FALSE]
      PROVE  /\ book'[r].placed = book[r].placed /\ book'[r].filled = book[r].filled
             /\ book'[r].resting => book[r].resting
             /\ book'[r].open => book[r].open
  BY <1>0, <1>8 DEF OrderBook
<1>9. CASE \/ book'[r] = [book[r] EXCEPT !.resting = FALSE]
           \/ book'[r] = [book[r] EXCEPT !.open = FALSE]
  BY <1>2, <1>8, <1>9
<1>10. CASE \E e \in Executor : <<e, r>> \in wire
              /\ \/ book'[r] = Rested(book[r])
                 \/ \E v \in 1..Volume : book'[r] = Executed(book[r], v)
  <2>1. PICK e \in Executor : <<e, r>> \in wire
              /\ \/ book'[r] = Rested(book[r])
                 \/ \E v \in 1..Volume : book'[r] = Executed(book[r], v)
    BY <1>10
  <2>2. CASE book'[r] = Rested(book[r]) BY <1>5, <2>1, <2>2
  <2>3. CASE \E v \in 1..Volume : book'[r] = Executed(book[r], v) BY <1>6, <2>1, <2>3
  <2>. QED BY <2>1, <2>2, <2>3
<1>11. CASE \E v \in (book[r].filled + 1)..Volume :
              book[r].resting /\ book'[r] = FilledTo(book[r], v)
  BY <1>7, <1>11
<1>. QED BY <1>1, <1>3, <1>9, <1>10, <1>11 DEF BookStep

\* What an acceptance says of the order of request r.
Accepted(a, r) ==
    /\ book[r].placed > 0
    /\ a = "whole" => book[r].filled = Volume
    /\ a = "part" => book[r].filled > 0
AcceptedNow(a, r) ==
    /\ book'[r].placed > 0
    /\ a = "whole" => book'[r].filled = Volume
    /\ a = "part" => book'[r].filled > 0

\* How one step changes what process e holds: not at all, by letting go, by a
\* step of process() short of the answer, or by the broker's answer.
HandStep(e) ==
    \/ cur'[e] = cur[e] /\ step'[e] = step[e] /\ answer'[e] = answer[e]
    \/ cur'[e] = None /\ step'[e] = "idle" /\ answer'[e] = "none"
    \/ /\ cur[e] = None /\ cur'[e] \in Request /\ step'[e] = "claimed"
       /\ MayClaim(req[cur'[e]], clock) /\ req'[cur'[e]] = Claimed(req[cur'[e]], e, clock)
       /\ answer'[e] = answer[e] /\ UNCHANGED clock
    \/ /\ cur'[e] = cur[e] /\ answer'[e] = answer[e]
       /\ <<step[e], step'[e]>> \in {<<"claimed", "passed">>, <<"passed", "stamped">>,
                                     <<"stamped", "sending">>}
    \/ /\ cur'[e] = cur[e] /\ step'[e] = step[e] /\ step[e] = "sending"
       /\ cur[e] \in Request
       /\ \/ answer'[e] = "rejected"
          \/ answer'[e] \in Acceptance /\ AcceptedNow(answer'[e], cur[e])

LEMMA DropHand ==
    ASSUME TypeOK, NEW e \in Executor, NEW x \in Executor, Done(x) \/ EndPoll(x)
    PROVE  HandStep(e)
<1>1. CASE e = x BY <1>1 DEF Done, EndPoll, TypeOK, HandStep
<1>2. CASE e # x BY <1>2 DEF Done, EndPoll, TypeOK, HandStep
<1>. QED BY <1>1, <1>2

LEMMA AdvanceHand ==
    ASSUME TypeOK, NEW e \in Executor, NEW x \in Executor, NEW s, Advance(x, s),
           <<step[x], s>> \in {<<"claimed", "passed">>, <<"passed", "stamped">>,
                               <<"stamped", "sending">>}
    PROVE  HandStep(e)
<1>1. CASE e = x BY <1>1 DEF Advance, TypeOK, HandStep
<1>2. CASE e # x BY <1>2 DEF Advance, TypeOK, HandStep
<1>. QED BY <1>1, <1>2

LEMMA HandSteps ==
    ASSUME IInv, [Next]_vars, NEW e \in Executor
    PROVE  HandStep(e)
<1> USE DEF HandStep, discord, worker, booting, broker
<1>0. TypeOK BY DEF IInv
<1>1. CASE UNCHANGED <<cur, step, answer>> BY <1>1
<1>2. ASSUME NEW x \in Executor, Work(x) PROVE HandStep(e)
  <2>1. CASE Poll(x) BY <2>1 DEF Poll
  <2>2. ASSUME NEW r \in Request, Claim(x, r) PROVE HandStep(e)
    <3>1. /\ cur' = [cur EXCEPT ![x] = r] /\ step' = [step EXCEPT ![x] = "claimed"]
          /\ req' = [req EXCEPT ![r] = Claimed(@, x, clock)]
          /\ UNCHANGED <<answer, clock>> /\ cur[x] = None /\ MayClaim(req[r], clock)
      BY <2>2 DEF Claim
    <3>2. CASE e = x
      <4>1. cur'[e] = r /\ step'[e] = "claimed" /\ req'[r] = Claimed(req[r], e, clock)
        BY <1>0, <3>1, <3>2 DEF TypeOK
      <4>. QED BY <3>1, <3>2, <4>1
    <3>3. CASE e # x BY <1>0, <3>1, <3>3 DEF TypeOK
    <3>. QED BY <3>2, <3>3
  <2>3. ASSUME NEW r \in Request, ClaimStale(x, r) \/ ClaimLost(x, r) PROVE HandStep(e)
    BY <1>0, <2>3, DropHand DEF ClaimStale, ClaimLost
  <2>4. CASE GuardPasses(x) BY <1>0, <2>4, AdvanceHand DEF GuardPasses
  <2>5. CASE Stamp(x)
    <3>1. Advance(x, "stamped") \/ EndPoll(x) BY <2>5 DEF Stamp
    <3>2. step[x] = "passed" BY <2>5 DEF Stamp
    <3>. QED BY <1>0, <3>1, <3>2, AdvanceHand, DropHand
  <2>6. CASE Send(x) BY <1>0, <2>6, AdvanceHand DEF Send
  <2>7. CASE GuardRefuses(x) \/ SendUnknown(x) \/ Record(x)
    <3>1. Done(x) \/ EndPoll(x) BY <2>7 DEF GuardRefuses, SendUnknown, Record, Resolves
    <3>. QED BY <1>0, <3>1, DropHand
  <2>. QED BY <1>2, <2>1, <2>2, <2>3, <2>4, <2>5, <2>6, <2>7 DEF Work
<1>3. ASSUME NEW x \in Executor, Crash(x) PROVE HandStep(e)
  BY <1>0, <1>3, DropHand DEF Crash
<1>4. ASSUME NEW x \in Executor, NEW r \in Request, BrokerAccepts(x, r) \/ BrokerRejects(x, r)
      PROVE  HandStep(e)
  <2>1. UNCHANGED <<cur, step>> /\ <<x, r>> \in wire
    BY <1>4 DEF BrokerAccepts, BrokerRejects
  <2>2. CASE step[x] = "sending" /\ cur[x] = r /\ e = x
    <3>1. CASE BrokerRejects(x, r)
      <4>1. answer' = [answer EXCEPT ![x] = "rejected"]
        BY <2>2, <3>1 DEF BrokerRejects, Answered
      <4>. QED BY <1>0, <2>1, <2>2, <4>1 DEF TypeOK
    <3>2. CASE BrokerAccepts(x, r)
      <4>1. PICK v \in 1..Volume, a \in Acceptance :
              /\ \/ book' = [book EXCEPT ![r] = Rested(@)] /\ a = "unsized"
                 \/ book' = [book EXCEPT ![r] = Executed(@, v)] /\ (a = "whole" => v = Volume)
              /\ Answered(x, r, a)
        BY <3>2, AcceptShape
      <4>2. answer' = [answer EXCEPT ![x] = a] BY <2>2, <4>1 DEF Answered
      <4>3. book[r] \in OrderBook BY <1>0 DEF TypeOK
      <4>4. book[r].placed + 1 > 0 /\ v > 0 BY <4>3, ExecutionAssumption DEF OrderBook
      <4>5. ASSUME book' = [book EXCEPT ![r] = Rested(@)], a = "unsized"
            PROVE  AcceptedNow(a, r)
        BY <1>0, <4>3, <4>4, <4>5, OrderFields DEF AcceptedNow, TypeOK
      <4>6. ASSUME book' = [book EXCEPT ![r] = Executed(@, v)], a = "whole" => v = Volume
            PROVE  AcceptedNow(a, r)
        BY <1>0, <4>3, <4>4, <4>6, OrderFields DEF AcceptedNow, TypeOK
      <4>7. AcceptedNow(a, r) BY <4>1, <4>5, <4>6
      <4>8. answer'[e] = a /\ cur'[e] = cur[e] /\ cur[e] = r
        BY <1>0, <2>1, <2>2, <4>2 DEF TypeOK
      <4>9. AcceptedNow(answer'[e], cur[e]) BY <4>7, <4>8 DEF Accepted, AcceptedNow
      <4>. QED BY <1>0, <2>1, <2>2, <4>8, <4>9
    <3>. QED BY <1>4, <3>1, <3>2
  <2>3. CASE ~(step[x] = "sending" /\ cur[x] = r) \/ e # x
    <3>1. answer'[e] = answer[e]
      BY <1>0, <1>4, <2>3 DEF BrokerAccepts, BrokerRejects, Answered, TypeOK
    <3>. QED BY <2>1, <3>1
  <2>. QED BY <2>2, <2>3
<1>. QED
  BY <1>1, <1>2, <1>3, <1>4
     DEF Next, vars, Discord, Submit, PressConfirm, ConfirmWrite, ConfirmRefused,
         DisableView, PressCancel, CancelWrite, ViewTimeout, Startup, Boot, Judge, Serve,
         ReadPositions, KeepAlive, Tick, Broker, WireLoses, RestingFills, RestingLeaves,
         PositionCloses

LEMMA AcceptedStep ==
    ASSUME IInv, BookIsSane, AcceptedIsPlaced, [Next]_vars
    PROVE  AcceptedIsPlaced'
<1> SUFFICES ASSUME NEW e \in Executor, answer'[e] \in Acceptance
    PROVE  step'[e] = "sending" /\ AcceptedNow(answer'[e], cur'[e])
  BY DEF AcceptedIsPlaced, AcceptedNow
<1>1. HandStep(e) BY HandSteps
<1>2. answer[e] \in Acceptance =>
        /\ step[e] = "sending" /\ cur[e] \in Request /\ cur[e] # None
        /\ Accepted(answer[e], cur[e])
  BY CurIsRequest DEF AcceptedIsPlaced, Accepted, IInv, Links, IdleHasNothing
<1>3. \A r \in Request :
        /\ book'[r].placed >= book[r].placed /\ book'[r].filled >= book[r].filled
        /\ book[r].placed \in Nat /\ book'[r].placed \in Nat
        /\ book[r].filled \in 0..Volume /\ book'[r].filled \in 0..Volume
  BY BookGrows, NextInv DEF IInv, TypeOK, OrderBook
<1>4. CASE /\ cur'[e] = cur[e] /\ step'[e] = step[e] /\ answer'[e] = answer[e]
  <2>1. AcceptedNow(answer[e], cur[e])
    BY <1>2, <1>3, <1>4, ExecutionAssumption DEF Accepted, AcceptedNow
  <2>. QED BY <1>2, <1>4, <2>1 DEF Accepted, AcceptedNow
<1>5. CASE /\ cur'[e] = cur[e] /\ step'[e] = step[e] /\ step[e] = "sending"
           /\ AcceptedNow(answer'[e], cur[e])
  BY <1>5 DEF Accepted, AcceptedNow
<1>6. "none" \notin Acceptance /\ "rejected" \notin Acceptance BY DEF Acceptance
<1>. QED BY <1>1, <1>2, <1>4, <1>5, <1>6 DEF HandStep

\* How one step changes what executor e still has to reconcile.
SweepStep(e) ==
    \/ UNCHANGED <<sweep[e], probe[e]>>
    \/ /\ probe'[e] = None /\ sweep'[e] \subseteq sweep[e]
    \/ /\ UNCHANGED <<probe[e], req, book, clock>>
       /\ \A x \in sweep'[e] :
            \E r \in Request : req[r].status \in SweptStatuses /\ x = EntryOf(r)
    \/ /\ UNCHANGED <<req, book>> /\ probe[e] = None /\ sweep'[e] \subseteq sweep[e]
       /\ \E x \in sweep[e] : \E seen \in 0..book[x.id].filled :
            probe'[e] = [entry |-> x, position |-> seen]

LEMMA SweepSteps ==
    ASSUME TypeOK, [Next]_vars, NEW e \in Executor
    PROVE  SweepStep(e)
<1> USE DEF SweepStep, booting, discord, worker, broker
<1>1. CASE UNCHANGED booting BY <1>1
<1>2. ASSUME NEW x \in Executor, Boot(x) PROVE SweepStep(e)
  <2>1. /\ UNCHANGED <<probe, req, book, clock>>
        /\ sweep' = [sweep EXCEPT ![x] =
             {EntryOf(r) : r \in {y \in Request : req[y].status \in SweptStatuses}}]
    BY <1>2 DEF Boot
  <2>2. CASE e = x
    <3>1. sweep'[e] = {EntryOf(r) : r \in {y \in Request : req[y].status \in SweptStatuses}}
      BY <2>1, <2>2 DEF TypeOK
    <3>. QED BY <2>1, <3>1
  <2>3. CASE e # x BY <2>1, <2>3 DEF TypeOK
  <2>. QED BY <2>2, <2>3
<1>3. ASSUME NEW x \in Executor, NEW y \in sweep[x], ReadPositions(x, y)
      PROVE  SweepStep(e)
  <2>1. PICK seen \in 0..book[y.id].filled :
          probe' = [probe EXCEPT ![x] = [entry |-> y, position |-> seen]]
    BY <1>3 DEF ReadPositions
  <2>2. sweep' = [sweep EXCEPT ![x] = @ \ {y}] /\ UNCHANGED <<req, book>> /\ probe[x] = None
    BY <1>3 DEF ReadPositions
  <2>3. CASE e = x
    <3>1. probe'[e] = [entry |-> y, position |-> seen] /\ sweep'[e] \subseteq sweep[e]
      BY <2>1, <2>2, <2>3 DEF TypeOK
    <3>. QED BY <2>1, <2>2, <2>3, <3>1
  <2>4. CASE e # x BY <2>1, <2>2, <2>4 DEF TypeOK
  <2>. QED BY <2>3, <2>4
<1>4. ASSUME NEW x \in Executor, Judge(x) \/ Crash(x) PROVE SweepStep(e)
  <2>1. /\ probe' = [probe EXCEPT ![x] = None]
        /\ sweep' = sweep \/ sweep' = [sweep EXCEPT ![x] = {}]
    BY <1>4 DEF Judge, Crash
  <2>. QED BY <2>1 DEF TypeOK
<1>. QED
  BY <1>1, <1>2, <1>3, <1>4
     DEF Next, vars, Discord, Submit, PressConfirm, ConfirmWrite, ConfirmRefused,
         DisableView, PressCancel, CancelWrite, ViewTimeout, Startup, Serve, KeepAlive,
         Tick, Broker, BrokerAccepts, BrokerRejects, WireLoses, RestingFills,
         RestingLeaves, PositionCloses, Work, Poll, Claim, ClaimStale, ClaimLost,
         GuardPasses, GuardRefuses, Stamp, Send, SendUnknown, Record

\* An entry after a step was an entry before, or is one a sweep lists now.
LEMMA EntryStep ==
    ASSUME TypeOK, [Next]_vars, NEW e \in Executor, NEW x \in Entries(e)'
    PROVE  \/ x \in Entries(e)
           \/ /\ UNCHANGED <<req, book, clock>>
              /\ \E r \in Request : req[r].status \in SweptStatuses /\ x = EntryOf(r)
<1>1. SweepStep(e) BY SweepSteps
<1>2. x \in sweep'[e] \/ (x \in Entry /\ probe'[e] # None /\ x = probe'[e].entry)
  BY DEF Entries
<1>3. CASE x \in sweep'[e]
  BY <1>1, <1>3 DEF SweepStep, Entries
<1>4. CASE x \in Entry /\ probe'[e] # None /\ x = probe'[e].entry
  <2>1. CASE probe'[e] = probe[e] BY <1>4, <2>1 DEF Entries
  <2>2. ASSUME NEW y \in sweep[e], NEW seen,
               probe'[e] = [entry |-> y, position |-> seen]
        PROVE  x \in Entries(e)
    BY <1>4, <2>2 DEF Entries
  <2>. QED BY <1>1, <1>4, <2>1, <2>2 DEF SweepStep
<1>. QED BY <1>2, <1>3, <1>4

LEMMA SweepPastStep ==
    ASSUME IInv, BookIsSane, SweepIsPast, [Next]_vars
    PROVE  SweepIsPast'
<1>0. TypeOK /\ TypeOK' BY NextInv DEF IInv
<1>1. \A r \in Request : /\ book'[r].filled >= book[r].filled
                         /\ book[r].filled \in Nat /\ book'[r].filled \in Nat
  BY <1>0, BookGrows, ExecutionAssumption DEF TypeOK, OrderBook
<1>2. \A e \in Executor : Entries(e) \subseteq Entry
  BY <1>0 DEF TypeOK, Entries
<1>3. ASSUME NEW e \in Executor, NEW x \in Entries(e)'
      PROVE  x.dealt <= book'[x.id].filled
  <2>1. CASE x \in Entries(e)
    <3>1. x.id \in Request /\ x.dealt \in Nat BY <1>2, <2>1, ExecutionAssumption DEF Entry
    <3>2. x.dealt <= book[x.id].filled BY <2>1 DEF SweepIsPast
    <3>. QED BY <1>1, <3>1, <3>2
  <2>2. ASSUME UNCHANGED book, NEW r \in Request, x = EntryOf(r)
        PROVE  x.dealt <= book'[x.id].filled
    BY <1>1, <2>2 DEF EntryOf
  <2>. QED BY <1>0, <1>3, <2>1, <2>2, EntryStep
<1>4. ASSUME NEW e \in Executor, probe'[e] # None
      PROVE  probe'[e].position <= book'[probe'[e].entry.id].filled
  <2>1. CASE probe'[e] = probe[e]
    <3>1. probe[e].entry.id \in Request /\ probe[e].position \in 0..Volume
      BY <1>0, <1>4, <2>1 DEF TypeOK, Probe, Entry
    <3>2. probe[e].position <= book[probe[e].entry.id].filled
      BY <1>4, <2>1 DEF SweepIsPast
    <3>. QED BY <1>1, <2>1, <3>1, <3>2, ExecutionAssumption
  <2>2. ASSUME UNCHANGED book, NEW x \in sweep[e], NEW seen \in 0..book[x.id].filled,
               probe'[e] = [entry |-> x, position |-> seen]
        PROVE  probe'[e].position <= book'[probe'[e].entry.id].filled
    <3>1. x.id \in Request BY <1>0 DEF TypeOK, Entry
    <3>. QED BY <1>1, <2>2, <3>1
  <2>. QED BY <1>0, <1>4, <2>1, <2>2, SweepSteps DEF SweepStep
<1>. QED BY <1>3, <1>4 DEF SweepIsPast

\* A volume that has been filled is reported as what it is.
LEMMA FilledIsTrue ==
    ASSUME TypeOK, NEW r \in Request, NEW v \in 0..Volume, v > 0, v <= book[r].filled
    PROVE  Truth(Filled(v), r)
<1>1. book[r].filled \in 0..Volume BY DEF TypeOK, OrderBook
<1>2. CASE v < Volume BY <1>1, <1>2, ExecutionAssumption DEF Filled, Truth
<1>3. CASE ~(v < Volume)
  <2>1. book[r].filled = Volume BY <1>1, <1>3, ExecutionAssumption
  <2>. QED BY <1>3, <2>1 DEF Filled, Truth
<1>. QED BY <1>2, <1>3

\* What reconciliation concludes from what it saw, and saw some time ago, is
\* true when it writes.
LEMMA VerdictIsTrue ==
    ASSUME IInv, BookIsSane, SweepIsPast,
           NEW e \in Executor, probe[e] # None,
           NEW order \in BOOLEAN, NEW deals \in BOOLEAN,
           Reads(Listed(probe[e].entry.id), order),
           Reads(probe[e].entry.dealt > 0, deals),
           Verdict(probe[e], order, deals) # probe[e].entry.status
    PROVE  Truth(Verdict(probe[e], order, deals), probe[e].entry.id)
<1> DEFINE x == probe[e].entry
           r == x.id
           s == Verdict(probe[e], order, deals)
<1>1. probe[e] \in Probe /\ x \in Entry /\ r \in Request /\ x.dealt \in 0..Volume
      /\ probe[e].position \in 0..Volume
  BY DEF IInv, TypeOK, Probe, Entry
<1>2. TypeOK /\ book[r] \in OrderBook BY <1>1 DEF IInv, TypeOK
<1>3. x.dealt <= book[r].filled
  <2>1. x \in Entries(e) BY <1>1 DEF Entries
  <2>. QED BY <2>1 DEF SweepIsPast
<1>4. deals => Truth(Filled(x.dealt), r)
  BY <1>1, <1>2, <1>3, FilledIsTrue DEF Reads
<1>5. order => Truth("PENDING", r)
  <2>1. order => book[r].resting /\ req[r].kind = "pending"
    BY <1>2 DEF Reads, Listed, OrderBook
  <2>2. order => book[r].placed > 0 /\ req[r].kind = "pending" BY <1>1, <2>1 DEF BookIsSane
  <2>3. book[r].placed <= 1 BY <1>1 DEF IInv, Links, AtMostOneOrder
  <2>. QED BY <1>2, <2>2, <2>3 DEF Truth, OrderBook
<1>6. probe[e].position > 0 => Truth(Filled(probe[e].position), r)
  <2>1. probe[e].position <= book[r].filled BY DEF SweepIsPast
  <2>. QED BY <1>1, <1>2, <2>1, FilledIsTrue
<1>7. Truth("FAILED_RECONCILIATION", r) /\ Truth("CANCELLED", r) /\ Truth("EXECUTING", r)
  BY DEF Truth
<1>8. CASE x.status = "EXECUTING"
  <2> DEFINE held == probe[e].position
  <2>0. s = ExecutingVerdict(x, held, order, deals) BY <1>8, VerdictCases
  <2>1. held > 0 \/ held = 0 BY <1>1, ExecutionAssumption
  <2>2. CASE order /\ (held > 0 \/ deals)
    <3>0. held > 0 => held # 0 BY <1>1, ExecutionAssumption
    <3>1. s = "FAILED_RECONCILIATION" BY <2>0, <2>2, <3>0, Zenon DEF ExecutingVerdict
    <3>. QED BY <1>7, <3>1
  <2>3. CASE order /\ ~(held > 0) /\ ~deals
    <3>1. s = "PENDING" BY <2>0, <2>1, <2>3, Zenon DEF ExecutingVerdict
    <3>. QED BY <1>5, <2>3, <3>1
  <2>4. CASE ~order /\ held > 0
    <3>1. held # 0 BY <1>1, <2>4, ExecutionAssumption
    <3>2. s = Filled(held) BY <2>0, <2>4, <3>1, Zenon DEF ExecutingVerdict
    <3>. QED BY <1>6, <2>4, <3>2
  <2>5. CASE ~order /\ ~(held > 0) /\ deals
    <3>1. s = Filled(x.dealt) BY <2>0, <2>1, <2>5, Zenon DEF ExecutingVerdict
    <3>. QED BY <1>4, <2>5, <3>1
  <2>6. CASE ~order /\ ~(held > 0) /\ ~deals
    <3>1. s \in {"FAILED_RECONCILIATION", "EXECUTING"} BY <2>0, <2>6, Zenon DEF ExecutingVerdict
    <3>. QED BY <1>7, <3>1
  <2>. QED BY <2>2, <2>3, <2>4, <2>5, <2>6
<1>9. CASE x.status = "PENDING"
  <2>1. s = PendingVerdict(x, order, deals) BY <1>9, VerdictCases
  <2>2. CASE order BY <1>9, <2>1, <2>2 DEF PendingVerdict
  <2>3. CASE ~order /\ deals
    <3>1. s = Filled(x.dealt) BY <2>1, <2>3 DEF PendingVerdict
    <3>. QED BY <1>4, <2>3, <3>1
  <2>4. CASE ~order /\ ~deals
    <3>1. s = "CANCELLED" BY <2>1, <2>4 DEF PendingVerdict
    <3>. QED BY <1>7, <3>1
  <2>. QED BY <2>2, <2>3, <2>4
<1>10. CASE x.status \notin {"EXECUTING", "PENDING"}
  <2>1. x.status = "PARTIALLY_FILLED" BY <1>1, <1>10 DEF Entry, SweptStatuses
  <2>2. s = PartialVerdict(x, deals) BY <1>10, VerdictCases
  <2>3. deals /\ x.dealt = Volume /\ s = "FILLED" BY <2>1, <2>2 DEF PartialVerdict
  <2>4. Filled(Volume) = "FILLED" BY ExecutionAssumption DEF Filled
  <2>. QED BY <1>4, <2>3, <2>4
<1>. QED BY <1>8, <1>9, <1>10

\* A row that says FILLED keeps saying whether the volume was known.
LEMMA SizeStays ==
    ASSUME IInv, NEW r \in Request, RowStep(r), req[r].status = "FILLED"
    PROVE  req'[r].unsized = req[r].unsized
<1>1. req[r] \in TradeRequest BY DEF IInv, TypeOK
<1>2. \A s : ~Accepts(req[r], s) BY AcceptsOpen DEF Terminal
<1>. QED
  BY <1>1, <1>2 DEF RowStep, MayConfirm, MayClaim, IsStale, Stamped, Renewed, TradeRequest

\* A status a step writes is true of the order, as far as the row says it.
LEMMA WrittenIsTrue ==
    ASSUME IInv, TruthInv, [Next]_vars, NEW r \in Request
    PROVE  req'[r].status = req[r].status \/ Says(req'[r].status, req'[r].unsized, r)
<1>0. /\ req \in [Request -> TradeRequest]
      /\ \A e \in Executor : step[e] # "idle" => cur[e] \in Request
  BY CurIsRequest DEF IInv, TypeOK, Links
<1>2. ASSUME NEW x \in Request, Discord(x)
      PROVE  req'[r].status \in {req[r].status, "REQUESTED", "CONFIRMED", "CANCELLED"}
  <2>1. \A k \in Kind : Created(k).status = "REQUESTED" BY DEF Created, NoRow
  <2>2. /\ Confirmed(req[x], clock).status = "CONFIRMED"
        /\ Resolved(req[x], "CANCELLED").status = "CANCELLED"
    BY <1>0 DEF Confirmed, Resolved, TradeRequest
  <2>3. CASE \E k \in Kinds : Submit(x, k)
    BY <1>0, <2>1, <2>3, ExecutionAssumption DEF Submit
  <2>4. CASE ConfirmWrite(x) BY <1>0, <2>2, <2>4 DEF ConfirmWrite
  <2>5. CASE CancelWrite(x) BY <1>0, <2>2, <2>5 DEF CancelWrite
  <2>6. CASE UNCHANGED req BY <2>6
  <2>. QED
    BY <1>2, <2>3, <2>4, <2>5, <2>6
       DEF Discord, PressConfirm, ConfirmRefused, DisableView, PressCancel, ViewTimeout
<1>3. ASSUME NEW e \in Executor, Work(e), ~Record(e)
      PROVE  req'[r].status \in {req[r].status, "EXECUTING", "FAILED_STALE", "FAILED"}
  <2>1. ASSUME NEW x \in Request, Claim(e, x)
        PROVE  req'[r].status \in {req[r].status, "EXECUTING"}
    <3>1. Claimed(req[x], e, clock).status = "EXECUTING" BY <1>0 DEF Claimed, TradeRequest
    <3>. QED BY <1>0, <2>1, <3>1 DEF Claim
  <2>2. ASSUME NEW x \in Request, ClaimStale(e, x)
        PROVE  req'[r].status \in {req[r].status, "FAILED_STALE"}
    <3>1. MarkedStale(req[x]).status = "FAILED_STALE" BY <1>0 DEF MarkedStale, TradeRequest
    <3>. QED BY <1>0, <2>2, <3>1 DEF ClaimStale
  <2>3. CASE GuardRefuses(e)
    <3>1. \A u : Recorded(req[cur[e]], "FAILED", u).status = "FAILED"
      BY <1>0, <2>3 DEF GuardRefuses, Recorded, TradeRequest
    <3>. QED BY <1>0, <2>3, <3>1 DEF GuardRefuses, Resolves
  <2>4. CASE Stamp(e)
    <3>1. Stamped(req[cur[e]]).status = req[cur[e]].status
      BY <1>0, <2>4 DEF Stamp, Stamped, TradeRequest
    <3>. QED BY <1>0, <2>4, <3>1 DEF Stamp
  <2>5. CASE UNCHANGED req BY <2>5
  <2>. QED
    BY <1>3, <2>1, <2>2, <2>3, <2>4, <2>5
       DEF Work, Poll, ClaimLost, GuardPasses, Send, SendUnknown
<1>4. ASSUME NEW e \in Executor, Record(e)
      PROVE  req'[r].status = req[r].status \/ Says(req'[r].status, req'[r].unsized, r)
  <2> DEFINE c == cur[e]
             s == Outcome(answer[e], c)
             u == s = "FILLED" /\ answer[e] = "unsized"
  <2>1. step[e] = "sending" /\ c \in Request /\ answer[e] \in Acceptance \cup {"rejected"}
    BY <1>0, <1>4 DEF Record, IInv, TypeOK, Answer
  <2>2. UNCHANGED req \/ req' = [req EXCEPT ![c] = Recorded(@, s, u)]
    BY <1>4 DEF Record, Resolves
  <2>3. Recorded(req[c], s, u).status = s /\ Recorded(req[c], s, u).unsized = u
    BY <1>0, <2>1 DEF Recorded, TradeRequest
  <2>4. Says(s, u, c)
    <3>1. CASE answer[e] = "rejected"
      <4>1. s = "FAILED" BY <3>1 DEF Outcome
      <4>. QED BY <4>1 DEF Says
    <3>2. CASE answer[e] \in Acceptance
      <4>1. /\ book[c].placed > 0 /\ book[c].placed <= 1 /\ book[c] \in OrderBook
            /\ answer[e] = "whole" => book[c].filled = Volume
            /\ answer[e] = "part" => book[c].filled > 0
        BY <2>1, <3>2 DEF TruthInv, AcceptedIsPlaced, IInv, Links, AtMostOneOrder, TypeOK
      <4>2. book[c].placed = 1 BY <4>1 DEF OrderBook
      <4>3. CASE req[c].kind = "pending"
        <5>1. s = "PENDING" BY <3>2, <4>3 DEF Outcome, Acceptance
        <5>. QED BY <4>2, <4>3, <5>1 DEF Says
      <4>4. CASE req[c].kind # "pending" /\ answer[e] = "part"
        <5>1. s = "PARTIALLY_FILLED" BY <4>4 DEF Outcome
        <5>. QED BY <4>1, <4>4, <5>1 DEF Says
      <4>5. CASE req[c].kind # "pending" /\ answer[e] # "part"
        <5>1. s = "FILLED" /\ answer[e] \in {"whole", "unsized"}
          BY <3>2, <4>5 DEF Outcome, Acceptance
        <5>. QED BY <4>1, <4>2, <5>1 DEF Says
      <4>. QED BY <4>3, <4>4, <4>5
    <3>. QED BY <2>1, <3>1, <3>2
  <2> HIDE DEF s, u, c
  <2>5. CASE UNCHANGED req BY <2>5
  <2>6. CASE req' = [req EXCEPT ![c] = Recorded(@, s, u)]
    <3>1. CASE r = c BY <1>0, <2>1, <2>3, <2>4, <2>6, <3>1
    <3>2. CASE r # c BY <1>0, <2>6, <3>2
    <3>. QED BY <3>1, <3>2
  <2>. QED BY <2>2, <2>5, <2>6
<1>5. ASSUME NEW e \in Executor, Startup(e)
      PROVE  req'[r].status = req[r].status \/ Says(req'[r].status, req'[r].unsized, r)
  <2>1. CASE Judge(e)
    <3> DEFINE y == probe[e].entry.id
    <3>1. probe[e] # None /\ y \in Request
      BY <2>1 DEF Judge, IInv, TypeOK, Probe, Entry
    <3>2. PICK order \in BOOLEAN, deals \in BOOLEAN :
            LET s == Verdict(probe[e], order, deals) IN
            \/ req' = req
            \/ /\ Reads(Listed(y), order) /\ Reads(probe[e].entry.dealt > 0, deals)
               /\ s # probe[e].entry.status
               /\ req' = [req EXCEPT ![y] = [Resolved(@, s) EXCEPT !.failure = FailureOf(order, s)]]
      BY <2>1 DEF Judge
    <3> DEFINE s == Verdict(probe[e], order, deals)
    <3>3. CASE req' = req BY <3>3
    <3>4. CASE /\ Reads(Listed(y), order) /\ Reads(probe[e].entry.dealt > 0, deals)
               /\ s # probe[e].entry.status
               /\ req' = [req EXCEPT ![y] = [Resolved(@, s) EXCEPT !.failure = FailureOf(order, s)]]
      <4>1. Truth(s, y) BY <3>1, <3>4, VerdictIsTrue DEF TruthInv
      <4>2. \A u : Says(s, u, y) BY <3>1, <4>1, TruthSays DEF TruthInv
      <4>3. [Resolved(req[y], s) EXCEPT !.failure = FailureOf(order, s)].status = s
        BY <1>0, <3>1 DEF Resolved, TradeRequest
      <4> HIDE DEF s, y
      <4>. QED BY <1>0, <3>1, <3>4, <4>2, <4>3
    <3>. QED BY <3>2, <3>3, <3>4
  <2>2. CASE UNCHANGED req BY <2>2
  <2>. QED BY <1>5, <2>1, <2>2 DEF Startup, Boot, Serve, ReadPositions
<1>6. ASSUME NEW e \in Executor, KeepAlive(e) PROVE req'[r].status = req[r].status
  <2>1. cur[e] \in Request BY <1>0, <1>6 DEF KeepAlive
  <2>2. Renewed(req[cur[e]], clock).status = req[cur[e]].status
    BY <1>0, <2>1 DEF Renewed, TradeRequest
  <2>. QED BY <1>0, <1>6, <2>1, <2>2 DEF KeepAlive
<1>7. ASSUME UNCHANGED req PROVE req'[r].status = req[r].status
  BY <1>7
<1>8. {"REQUESTED", "CONFIRMED", "CANCELLED", "EXECUTING", "FAILED_STALE", "FAILED"}
        \subseteq Status \ {"FILLED", "PARTIALLY_FILLED", "PENDING"}
  BY DEF Status
<1>9. \A s : s \in {"REQUESTED", "CONFIRMED", "CANCELLED", "EXECUTING", "FAILED_STALE",
                    "FAILED"} => Says(s, req'[r].unsized, r)
  BY <1>8 DEF Says
<1>10. ASSUME NEW e \in Executor, Work(e)
       PROVE  req'[r].status = req[r].status \/ Says(req'[r].status, req'[r].unsized, r)
  BY <1>3, <1>4, <1>9, <1>10
<1>11. ASSUME NEW x \in Request, Discord(x)
       PROVE  req'[r].status = req[r].status \/ Says(req'[r].status, req'[r].unsized, r)
  BY <1>2, <1>9, <1>11
<1>12. CASE Broker \/ Tick \/ UNCHANGED vars \/ \E e \in Executor : Crash(e)
  BY <1>7, <1>12
     DEF Broker, BrokerAccepts, BrokerRejects, WireLoses, RestingFills, RestingLeaves,
         PositionCloses, Tick, Crash, vars
<1>. QED BY <1>5, <1>6, <1>10, <1>11, <1>12 DEF Next

\* What a true status says stays true.
LEMMA TruthKept ==
    ASSUME TypeOK, TypeOK', AtMostOneOrder', NEW r \in Request,
           book'[r].placed >= book[r].placed, book'[r].filled >= book[r].filled,
           req'[r].kind = req[r].kind \/ book[r].placed = 0,
           book[r].placed = 0 => book[r].filled = 0,
           NEW s \in StoredStatus, NEW u, Says(s, u, r)
    PROVE  /\ s = "FILLED" => IF u THEN book'[r].placed = 1 ELSE book'[r].filled = Volume
           /\ s = "PARTIALLY_FILLED" => book'[r].filled > 0
           /\ s = "PENDING" => book'[r].placed = 1 /\ req'[r].kind = "pending"
<1>1. /\ book[r].placed \in Nat /\ book[r].filled \in 0..Volume
      /\ book'[r].placed \in Nat /\ book'[r].filled \in 0..Volume
  BY DEF TypeOK, OrderBook
<1>2. book'[r].placed <= 1 BY DEF AtMostOneOrder
<1>. QED BY <1>1, <1>2, ExecutionAssumption DEF Says

LEMMA TruthStep ==
    ASSUME IInv, TruthInv, [Next]_vars
    PROVE  TruthInv'
<1>0. IInv' /\ TypeOK /\ TypeOK' /\ AtMostOneOrder' BY NextInv DEF IInv, Links
<1>1. BookIsSane' BY BookSaneStep DEF TruthInv
<1>2. AcceptedIsPlaced' BY AcceptedStep DEF TruthInv
<1>3. SweepIsPast' BY SweepPastStep DEF TruthInv
<1>4. OutcomeIsTrue'
  <2> SUFFICES ASSUME NEW r \in Request
      PROVE  /\ req'[r].status = "FILLED" =>
                  IF req'[r].unsized THEN book'[r].placed = 1 ELSE book'[r].filled = Volume
             /\ req'[r].status = "PARTIALLY_FILLED" => book'[r].filled > 0
             /\ req'[r].status = "PENDING" => book'[r].placed = 1 /\ req'[r].kind = "pending"
    BY DEF OutcomeIsTrue
  <2>1. Says(req'[r].status, req'[r].unsized, r)
    <3>1. Says(req[r].status, req[r].unsized, r) BY DEF TruthInv, OutcomeIsTrue, Says
    <3>2. CASE req'[r].status = req[r].status /\ req[r].status = "FILLED"
      BY <3>1, <3>2, RowSteps, SizeStays
    <3>3. CASE req'[r].status = req[r].status /\ req[r].status # "FILLED"
      BY <3>1, <3>3 DEF Says
    <3>. QED BY <3>2, <3>3, WrittenIsTrue
  <2>2. book'[r].placed >= book[r].placed /\ book'[r].filled >= book[r].filled
    BY BookGrows DEF TruthInv
  <2>3. req'[r].kind = req[r].kind \/ book[r].placed = 0
    BY RowSteps, KindStays, AbsentIsUntouched DEF TruthInv
  <2>4. book[r].placed = 0 => book[r].filled = 0
    <3>1. book[r].filled \in 0..Volume /\ (book[r].filled > 0 => book[r].placed > 0)
      BY <1>0 DEF TruthInv, BookIsSane, TypeOK, OrderBook
    <3>. QED BY <3>1, ExecutionAssumption
  <2>5. req'[r].status \in StoredStatus BY <1>0 DEF TypeOK, TradeRequest
  <2>. QED BY <1>0, <2>1, <2>2, <2>3, <2>4, <2>5, TruthKept
<1>. QED BY <1>1, <1>2, <1>3, <1>4 DEF TruthInv

LEMMA TruthInit == Init => TruthInv
<1> SUFFICES ASSUME Init PROVE TruthInv
  OBVIOUS
<1>1. \A r \in Request : /\ book[r].placed = 0 /\ book[r].filled = 0
                         /\ book[r].resting = FALSE /\ book[r].open = FALSE
                         /\ req[r].status = "ABSENT"
  BY DEF Init, NoOrder, NoRow
<1>2. \A e \in Executor : answer[e] = "none" /\ sweep[e] = {} /\ probe[e] = None
  BY DEF Init
<1>3. \A e \in Executor : Entries(e) = {} BY <1>2 DEF Entries
<1>. QED
  BY <1>1, <1>2, <1>3
     DEF TruthInv, BookIsSane, AcceptedIsPlaced, Acceptance, SweepIsPast, OutcomeIsTrue

\* What the table says of an order is true, whatever reads come back empty and
\* however late a verdict is written: it is settled by what a process has seen
\* happen, and the broker's records only grow.
THEOREM OutcomesAreTrue == Spec => []OutcomeIsTrue
<1>1. IInv /\ TruthInv /\ [Next]_vars => (IInv /\ TruthInv)' BY NextInv, TruthStep
<1>2. Init => IInv /\ TruthInv BY InitInv, TruthInit
<1>3. IInv /\ TruthInv => OutcomeIsTrue BY DEF TruthInv
<1>. QED BY <1>1, <1>2, <1>3, PTL DEF Spec

-----------------------------------------------------------------------------
(* "Not found" means that nothing is there, and nothing will be: with a      *)
(* broker that decides within the grace, a grace of at least one tick and    *)
(* reads that do not miss.                                                   *)

Prompt == PromptDelivery /\ ~ReadsMayMiss /\ Grace > 0

LEMMA WireStep ==
    ASSUME IInv, [Next]_vars, NEW e \in Executor, NEW r \in Request, <<e, r>> \in wire'
    PROVE  <<e, r>> \in wire \/ (cur[e] = r /\ step[e] = "stamped")
<1>1. CASE wire' \subseteq wire BY <1>1
<1>2. ASSUME NEW x \in Executor, Send(x)
      PROVE  <<e, r>> \in wire \/ (cur[e] = r /\ step[e] = "stamped")
  BY <1>2 DEF Send
<1>3. CASE Broker BY <1>1, <1>3 DEF Broker, BrokerAccepts, BrokerRejects, WireLoses,
                                    RestingFills, RestingLeaves, PositionCloses
<1>. QED
  BY <1>1, <1>2, <1>3
     DEF Next, vars, broker, Discord, Submit, PressConfirm, ConfirmWrite, ConfirmRefused,
         DisableView, PressCancel, CancelWrite, ViewTimeout, Work, Poll, Claim,
         ClaimStale, ClaimLost, GuardPasses, GuardRefuses, Stamp, SendUnknown, Record,
         Startup, Boot, Judge, Serve, ReadPositions, KeepAlive, Crash, Tick

\* A request taken stays taken from the same instant on; one is taken by a claim.
LEMMA StartStep ==
    ASSUME IInv, NEW r \in Request, RowStep(r)
    PROVE  /\ req[r].startedAt # None => req'[r].startedAt = req[r].startedAt
           /\ req[r].startedAt # None => req'[r].kind = req[r].kind
           /\ req'[r].status = "EXECUTING" =>
                req[r].status = "EXECUTING" \/ req'[r].startedAt # None
<1>1. req[r] \in TradeRequest /\ clock # None
  BY NoneIsFresh DEF IInv, TypeOK
<1>3. req[r].status \in Unclaimed => req[r].startedAt = None
  BY DEF IInv, Links, UnclaimedIsUnstarted
<1>4. CASE req'[r] = req[r] BY <1>4
<1>5. ASSUME NEW k \in Kind, req[r].status = "ABSENT", req'[r] = Created(k)
      PROVE  req[r].startedAt = None /\ req'[r].status = "REQUESTED"
  BY <1>3, <1>5 DEF Created, NoRow, Unclaimed
<1>6. ASSUME MayConfirm(req[r]), req'[r] = Confirmed(req[r], clock)
      PROVE  req[r].startedAt = None /\ req'[r].status = "CONFIRMED"
  BY <1>1, <1>3, <1>6 DEF MayConfirm, Confirmed, Unclaimed, TradeRequest
<1>7. ASSUME NEW e \in Executor, MayClaim(req[r], clock), req'[r] = Claimed(req[r], e, clock)
      PROVE  req[r].startedAt = None /\ req'[r].startedAt # None
  BY <1>1, <1>3, <1>7 DEF MayClaim, Claimed, Unclaimed, TradeRequest
<1>8. ASSUME IsStale(req[r], clock), req'[r] = MarkedStale(req[r])
      PROVE  req[r].startedAt = None /\ req'[r].status = "FAILED_STALE"
  BY <1>1, <1>3, <1>8 DEF IsStale, MarkedStale, Unclaimed, TradeRequest
<1>9. ASSUME req'[r] \in {Stamped(req[r]), Renewed(req[r], clock)}
      PROVE  /\ req'[r].startedAt = req[r].startedAt /\ req'[r].kind = req[r].kind
             /\ req'[r].status = req[r].status
  BY <1>1, <1>9 DEF Stamped, Renewed, TradeRequest
<1>10. ASSUME NEW s \in StoredStatus \ (Unclaimed \cup {"EXECUTING"}),
              \/ req'[r] = Resolved(req[r], s)
              \/ \E u \in BOOLEAN : req'[r] = Recorded(req[r], s, u)
              \/ \E f \in Failure : req'[r] = [Resolved(req[r], s) EXCEPT !.failure = f]
       PROVE  /\ req'[r].startedAt = req[r].startedAt /\ req'[r].kind = req[r].kind
              /\ req'[r].status = s
  BY <1>1, <1>10 DEF Resolved, Recorded, TradeRequest
<1>. QED
  BY <1>4, <1>5, <1>6, <1>7, <1>8, <1>9, <1>10 DEF RowStep

\* Where a failure "not found" comes from.
LEMMA FailureStep ==
    ASSUME IInv, NEW r \in Request, RowStep(r),
           req'[r].failure = NotFound
    PROVE  \/ req[r].failure = NotFound
           \/ \E e \in Executor, s \in StoredStatus :
                Judged(e, r, s, NotFound)
<1>1. req[r] \in TradeRequest BY DEF IInv, TypeOK
<1>3. \A k \in Kind : Created(k).failure # NotFound
  BY NoneIsFresh DEF Created, NoRow
<1>4. ASSUME NEW s, NEW f, req'[r] = [Resolved(req[r], s) EXCEPT !.failure = f]
      PROVE  f = NotFound
  BY <1>1, <1>4 DEF Resolved, TradeRequest
<1>5. ASSUME \/ req'[r] \in {req[r], Confirmed(req[r], clock), MarkedStale(req[r]),
                             Stamped(req[r]), Renewed(req[r], clock)}
             \/ \E e \in Executor : req'[r] = Claimed(req[r], e, clock)
      PROVE  req'[r].failure = req[r].failure
  BY <1>1, <1>5 DEF Confirmed, Claimed, MarkedStale, Stamped, Renewed, TradeRequest
<1>6. CASE \E s \in StoredStatus \ (Unclaimed \cup {"EXECUTING"}) :
             \/ req'[r] = Resolved(req[r], s)
             \/ \E u \in BOOLEAN : req'[r] = Recorded(req[r], s, u)
             \/ \E e \in Executor, f \in Failure :
                  /\ Judged(e, r, s, f)
                  /\ req'[r] = [Resolved(req[r], s) EXCEPT !.failure = f]
  <2>1. PICK s \in StoredStatus : \/ req'[r] = Resolved(req[r], s)
                                  \/ \E u \in BOOLEAN : req'[r] = Recorded(req[r], s, u)
                                  \/ \E e \in Executor, f \in Failure :
                                       /\ Judged(e, r, s, f)
                                       /\ req'[r] = [Resolved(req[r], s) EXCEPT !.failure = f]
    BY <1>6
  <2>2. CASE req'[r] = Resolved(req[r], s) \/ \E u \in BOOLEAN : req'[r] = Recorded(req[r], s, u)
    BY <1>1, <2>2 DEF Resolved, Recorded, TradeRequest
  <2>3. ASSUME NEW e \in Executor, NEW f \in Failure, Judged(e, r, s, f),
               req'[r] = [Resolved(req[r], s) EXCEPT !.failure = f]
        PROVE  Judged(e, r, s, NotFound)
    <3>1. f = NotFound BY <1>4, <2>3
    <3>. QED BY <2>3, <3>1
  <2>. QED BY <2>1, <2>2, <2>3
<1>7. CASE \E k \in Kind : req'[r] = Created(k) BY <1>3, <1>7
<1>. QED BY <1>5, <1>6, <1>7 DEF RowStep

LEMMA WayStep ==
    ASSUME IInv, BookIsSane, [Next]_vars, NEW r \in Request, OnItsWay(r)'
    PROVE  OnItsWay(r) \/ (req[r].startedAt = None /\ req'[r].startedAt = clock
                           /\ clock' = clock)
<1>1. ASSUME NEW e \in Executor, <<e, r>> \in wire' PROVE OnItsWay(r)
  BY <1>1, WireStep DEF OnItsWay
<1>2. ASSUME NEW e \in Executor, cur'[e] = r, step'[e] # "sending"
      PROVE  OnItsWay(r) \/ (req[r].startedAt = None /\ req'[r].startedAt = clock
                             /\ clock' = clock)
  <2>1. HandStep(e) BY HandSteps
  <2>2. CASE cur'[e] = cur[e] /\ step'[e] = step[e] BY <1>2, <2>2 DEF OnItsWay
  <2>3. cur'[e] # None BY <1>2, NoneIsFresh
  <2>4. CASE /\ MayClaim(req[cur'[e]], clock) /\ UNCHANGED clock
             /\ req'[cur'[e]] = Claimed(req[cur'[e]], e, clock)
    <3>1. req[r] \in TradeRequest BY DEF IInv, TypeOK
    <3>2. req[r].startedAt = None
      BY <1>2, <2>4 DEF MayClaim, IInv, Links, UnclaimedIsUnstarted, Unclaimed
    <3>. QED BY <1>2, <2>4, <3>1, <3>2 DEF Claimed, TradeRequest
  <2>5. CASE /\ cur'[e] = cur[e]
             /\ <<step[e], step'[e]>> \in {<<"claimed", "passed">>, <<"passed", "stamped">>,
                                           <<"stamped", "sending">>}
    BY <1>2, <2>5 DEF OnItsWay
  <2>. QED BY <2>1, <2>2, <2>3, <2>4, <2>5 DEF HandStep
<1>3. CASE book'[r].resting /\ req'[r].kind = "market"
  <2>1. BookStep(r) BY BookSteps DEF IInv
  <2>2. CASE \E e \in Executor : <<e, r>> \in wire BY <2>2 DEF OnItsWay
  <2>3. CASE UNCHANGED req /\ book[r].resting BY <1>3, <2>3 DEF OnItsWay
  <2>4. CASE book'[r] = book[r]
    <3>1. book[r].resting BY <1>3, <2>4
    <3>2. req[r].kind = "market" BY <1>3, <3>1, RowSteps, KindStays, AbsentIsUntouched
    <3>. QED BY <3>1, <3>2 DEF OnItsWay
  <2>5. CASE UNCHANGED req /\ book'[r] = [book[r] EXCEPT !.open = FALSE]
    <3>1. book[r] \in OrderBook BY DEF IInv, TypeOK
    <3>2. book[r].resting BY <1>3, <2>5, <3>1 DEF OrderBook
    <3>. QED BY <2>3, <2>5, <3>2
  <2>. QED BY <2>1, <2>2, <2>3, <2>4, <2>5 DEF BookStep
<1>4. \/ \E e \in Executor : <<e, r>> \in wire'
      \/ \E e \in Executor : cur'[e] = r /\ step'[e] # "sending"
      \/ book'[r].resting /\ req'[r].kind = "market"
  BY DEF OnItsWay
<1>. QED BY <1>1, <1>2, <1>3, <1>4

\* Once taken, with nothing on its way, for good: of a market order no more is filled.
LEMMA NothingComesStays ==
    ASSUME IInv, BookIsSane, [Next]_vars, NEW r \in Request, NothingComes(r)
    PROVE  /\ NothingComes(r)'
           /\ req'[r].kind = "market" => book'[r].filled = book[r].filled
<1>1. req'[r].startedAt # None BY RowSteps, StartStep DEF NothingComes
<1>2. ~OnItsWay(r)' BY WayStep DEF NothingComes
<1>3. ASSUME req'[r].kind = "market" PROVE book'[r].filled = book[r].filled
  <2>1. BookStep(r) BY BookSteps DEF IInv
  <2>2. book[r] \in OrderBook BY DEF IInv, TypeOK
  <2>3. \A e \in Executor : <<e, r>> \notin wire BY DEF NothingComes, OnItsWay
  <2>4. req[r].kind = "market" BY <1>3, RowSteps, StartStep DEF NothingComes
  <2>5. ~book[r].resting BY <2>2, <2>4 DEF NothingComes, OnItsWay, OrderBook
  <2>6. [book[r] EXCEPT !.open = FALSE].filled = book[r].filled BY <2>2 DEF OrderBook
  <2>. QED BY <2>1, <2>3, <2>5, <2>6 DEF BookStep
<1>. QED BY <1>1, <1>2, <1>3 DEF NothingComes

LEMMA ClockStep ==
    ASSUME [Next]_vars
    PROVE  \/ clock' = clock
           \/ /\ clock' = clock + 1 /\ UNCHANGED <<req, wire, cur, step>>
              /\ PromptDelivery =>
                   \A r \in Request : OnItsWay(r) => clock + 1 < req[r].startedAt + Grace
<1>1. CASE Tick BY <1>1 DEF Tick, worker, broker
<1>2. CASE ~Tick
  BY <1>2 DEF Next, vars, broker, discord, worker, booting, Discord, Submit,
     PressConfirm, ConfirmWrite, ConfirmRefused, DisableView, PressCancel, CancelWrite,
     ViewTimeout, Work, Poll, Claim, ClaimStale, ClaimLost, GuardPasses, GuardRefuses,
     Stamp, Send, SendUnknown, Record, Startup, Boot, Judge, Serve, ReadPositions,
     KeepAlive, Crash, Broker, BrokerAccepts, BrokerRejects, WireLoses, RestingFills,
     RestingLeaves, PositionCloses
<1>. QED BY <1>1, <1>2

LEMMA WayShortStep ==
    ASSUME Prompt, IInv, BookIsSane, WayIsShort, [Next]_vars
    PROVE  WayIsShort'
<1> SUFFICES ASSUME NEW r \in Request, OnItsWay(r)'
    PROVE  req'[r].startedAt # None /\ clock' < req'[r].startedAt + Grace
  BY DEF WayIsShort
<1>1. clock \in Nat /\ clock # None /\ Grace \in Nat /\ Grace > 0
  BY NoneIsFresh, ExecutionAssumption DEF IInv, TypeOK, Prompt
<1>2. CASE OnItsWay(r)
  <2>1. req[r].startedAt # None /\ clock < req[r].startedAt + Grace
    BY <1>2 DEF WayIsShort
  <2>2. req'[r].startedAt = req[r].startedAt BY <2>1, RowSteps, StartStep
  <2>3. CASE clock' = clock BY <2>1, <2>2, <2>3
  <2>4. CASE clock' = clock + 1 /\ clock + 1 < req[r].startedAt + Grace
    BY <2>1, <2>2, <2>4
  <2>. QED BY <1>2, <2>3, <2>4, ClockStep DEF Prompt
<1>3. CASE req[r].startedAt = None /\ req'[r].startedAt = clock /\ clock' = clock
  <2>1. clock < clock + Grace BY <1>1
  <2>. QED BY <1>1, <1>3, <2>1
<1>. QED BY <1>2, <1>3, WayStep

LEMMA OverdueStep ==
    ASSUME Prompt, IInv, TruthInv, DeliveryInv, [Next]_vars
    PROVE  OverdueIsOver'
<1> SUFFICES ASSUME NEW e \in Executor, NEW x \in Entries(e)', x.status = "EXECUTING",
                    x.overdue
    PROVE  /\ NothingComes(x.id)'
           /\ x.dealt = 0 /\ req'[x.id].kind = "market" => book'[x.id].filled = 0
  BY DEF OverdueIsOver
<1>0. TypeOK BY DEF IInv
<1>1. CASE x \in Entries(e)
  <2>1. x.id \in Request BY <1>0, <1>1 DEF Entries, TypeOK, Entry
  <2>2. /\ NothingComes(x.id)
        /\ x.dealt = 0 /\ req[x.id].kind = "market" => book[x.id].filled = 0
    BY <1>1 DEF DeliveryInv, OverdueIsOver
  <2>3. req'[x.id].kind = req[x.id].kind BY <2>1, <2>2, RowSteps, StartStep DEF NothingComes
  <2>4. NothingComes(x.id)' BY <2>1, <2>2, NothingComesStays DEF TruthInv
  <2>5. req'[x.id].kind = "market" => book'[x.id].filled = book[x.id].filled
    BY <2>1, <2>2, NothingComesStays DEF TruthInv
  <2>. QED BY <2>2, <2>3, <2>4, <2>5
<1>2. ASSUME UNCHANGED <<req, book, clock>>, NEW r \in Request, x = EntryOf(r)
      PROVE  /\ NothingComes(x.id)'
             /\ x.dealt = 0 /\ req'[x.id].kind = "market" => book'[x.id].filled = 0
  <2>1. x.id = r /\ x.dealt = book[r].filled /\ req[r].status = "EXECUTING"
        /\ (req[r].startedAt = None \/ clock - req[r].startedAt >= Grace)
    BY <1>2 DEF EntryOf
  <2>2. req[r].startedAt # None /\ req[r].startedAt \in Nat
    BY <1>0, <2>1 DEF DeliveryInv, ExecutingIsStarted, TypeOK, TradeRequest, Instant
  <2>3. ~(clock < req[r].startedAt + Grace)
    BY <1>0, <2>1, <2>2, ExecutionAssumption DEF TypeOK
  <2>4. NothingComes(r) BY <2>2, <2>3 DEF NothingComes, DeliveryInv, WayIsShort
  <2>5. NothingComes(r)' BY <2>4, NothingComesStays DEF TruthInv
  <2>. QED BY <1>2, <2>1, <2>5
<1>. QED BY <1>0, <1>1, <1>2, EntryStep

\* Reconciliation concludes "not found" only of a request that was overdue when
\* the sweep began and had no deals then.
LEMMA NotFoundVerdict ==
    ASSUME ~ReadsMayMiss, TypeOK, NEW e \in Executor, NEW r \in Request, NEW s,
           Judged(e, r, s, NotFound)
    PROVE  /\ probe[e].entry \in Entries(e) /\ probe[e].entry.id = r
           /\ probe[e].entry.status = "EXECUTING" /\ probe[e].entry.overdue
           /\ probe[e].entry.dealt = 0
<1> DEFINE x == probe[e].entry
<1>1. /\ x \in Entry /\ x.dealt \in 0..Volume /\ x.overdue \in BOOLEAN
      /\ probe[e].position \in 0..Volume /\ probe[e] # None /\ x.id = r
  BY DEF Judged, TypeOK, Probe, Entry
<1>2. PICK order \in BOOLEAN, deals \in BOOLEAN :
        /\ Reads(x.dealt > 0, deals) /\ s = Verdict(probe[e], order, deals)
        /\ NotFound = FailureOf(order, s)
  BY DEF Judged
<1>3. s = "FAILED_RECONCILIATION" /\ ~order
  BY <1>2, NoneIsFresh DEF FailureOf, NotFound, Ambiguous
<1>4. x.status = "EXECUTING"
  <2>1. CASE x.status = "PENDING"
    <3>1. s = PendingVerdict(x, order, deals) BY <1>2, <2>1, VerdictCases
    <3>. QED BY <1>3, <3>1 DEF PendingVerdict, Filled
  <2>2. CASE x.status \notin {"EXECUTING", "PENDING"}
    <3>1. s = PartialVerdict(x, deals) BY <1>2, <2>2, VerdictCases
    <3>. QED BY <1>3, <3>1 DEF PartialVerdict
  <2>. QED BY <2>1, <2>2
<1>5. s = ExecutingVerdict(x, probe[e].position, order, deals)
  BY <1>1, <1>2, <1>4, VerdictCases
<1>6. \A v : Filled(v) # "FAILED_RECONCILIATION" BY DEF Filled
<1>7. CASE probe[e].position # 0
  <2>1. probe[e].position > 0 BY <1>1, <1>7, ExecutionAssumption
  <2>2. s = Filled(probe[e].position) BY <1>3, <1>5, <1>7, <2>1, Zenon DEF ExecutingVerdict
  <2>. QED BY <1>3, <1>6, <2>2
<1>8. CASE probe[e].position = 0 /\ deals
  <2>0. ~(probe[e].position > 0) BY <1>8, ExecutionAssumption
  <2>1. s = Filled(x.dealt) BY <1>3, <1>5, <1>8, <2>0, Zenon DEF ExecutingVerdict
  <2>. QED BY <1>3, <1>6, <2>1
<1>9. CASE probe[e].position = 0 /\ ~deals
  <2>0. ~(probe[e].position > 0) BY <1>9, ExecutionAssumption
  <2>1. s = IF x.overdue THEN "FAILED_RECONCILIATION" ELSE "EXECUTING"
    BY <1>3, <1>5, <1>9, <2>0, Zenon DEF ExecutingVerdict
  <2>2. x.overdue BY <1>3, <2>1
  <2>3. x.dealt = 0 BY <1>1, <1>2, <1>9, ExecutionAssumption DEF Reads
  <2>. QED BY <1>1, <1>4, <2>2, <2>3 DEF Entries
<1>. QED BY <1>1, <1>7, <1>8, <1>9

LEMMA NotFoundStep ==
    ASSUME Prompt, IInv, TruthInv, DeliveryInv, [Next]_vars
    PROVE  NotFoundIsOver'
<1> SUFFICES ASSUME NEW r \in Request, req'[r].failure = NotFound, req'[r].kind = "market"
    PROVE  NothingComes(r)' /\ book'[r].filled = 0
  BY DEF NotFoundIsOver
<1>1. req[r].kind = "market" BY RowSteps, KindStays, NoneIsFresh
<1>2. NothingComes(r) /\ book[r].filled = 0
  <2>1. CASE req[r].failure = NotFound
    BY <1>1, <2>1 DEF DeliveryInv, NotFoundIsOver
  <2>2. ASSUME NEW e \in Executor, NEW s \in StoredStatus, Judged(e, r, s, NotFound)
        PROVE  NothingComes(r) /\ book[r].filled = 0
    <3>1. /\ probe[e].entry \in Entries(e) /\ probe[e].entry.id = r
          /\ probe[e].entry.status = "EXECUTING" /\ probe[e].entry.overdue
          /\ probe[e].entry.dealt = 0
      BY <2>2, NotFoundVerdict DEF Prompt, IInv
    <3>. QED BY <1>1, <3>1 DEF DeliveryInv, OverdueIsOver
  <2>. QED BY <2>1, <2>2, RowSteps, FailureStep
<1>3. NothingComes(r)' BY <1>1, <1>2, NothingComesStays DEF TruthInv
<1>4. book'[r].filled = book[r].filled BY <1>2, NothingComesStays DEF TruthInv
<1>. QED BY <1>2, <1>3, <1>4

LEMMA DeliveryStep ==
    ASSUME Prompt, IInv, TruthInv, DeliveryInv, [Next]_vars
    PROVE  DeliveryInv'
<1>1. ExecutingIsStarted'
  BY RowSteps, StartStep DEF DeliveryInv, ExecutingIsStarted
<1>2. WayIsShort' BY WayShortStep DEF DeliveryInv, TruthInv
<1>. QED BY <1>1, <1>2, OverdueStep, NotFoundStep DEF DeliveryInv

LEMMA DeliveryInit == Init => DeliveryInv
<1> SUFFICES ASSUME Init PROVE DeliveryInv
  OBVIOUS
<1>1. \A r \in Request : req[r].status = "ABSENT" /\ req[r].failure = None
  BY DEF Init, NoRow
<1>2. \A e \in Executor : sweep[e] = {} /\ probe[e] = None /\ cur[e] = None /\ wire = {}
  BY DEF Init
<1>3. \A r \in Request : ~OnItsWay(r)
  <2>1. \A r \in Request : book[r].resting = FALSE BY DEF Init, NoOrder
  <2>. QED BY <1>2, <2>1, NoneIsFresh DEF OnItsWay
<1>4. \A e \in Executor : Entries(e) = {} BY <1>2 DEF Entries
<1>. QED
  BY <1>1, <1>3, <1>4, NoneIsFresh
     DEF DeliveryInv, ExecutingIsStarted, WayIsShort, OverdueIsOver, NotFoundIsOver

\* With a broker that decides within the grace, reconciliation's "never placed"
\* is right of a market order, now and for ever.
THEOREM NotFoundIsRight ==
    ASSUME PromptDelivery, ~ReadsMayMiss, Grace > 0
    PROVE  Spec => []NotFoundMeansNoOrder
<1> DEFINE I == IInv /\ TruthInv /\ DeliveryInv
<1>0. Prompt BY DEF Prompt
<1>1. I /\ [Next]_vars => I' BY <1>0, NextInv, TruthStep, DeliveryStep
<1>2. Init => I BY InitInv, TruthInit, DeliveryInit
<1>3. I => NotFoundMeansNoOrder
  BY DEF DeliveryInv, NotFoundIsOver, NothingComes, NotFoundMeansNoOrder, OnItsWay, OnWire
<1>. QED BY <1>1, <1>2, <1>3, PTL DEF Spec

-----------------------------------------------------------------------------
(* The monitor's watch over pending orders, next to all of this.  What it    *)
(* keeps between its reads and its writes is about the past, and its only    *)
(* write resolves a row the table lets it resolve.                           *)

Watching == [phase : Phase, sync : Instant, moment : Nat, resting : SUBSET Request,
             dealt : [Request -> SUBSET (1..Volume)], todo : SUBSET Request,
             known : SUBSET Request]

LEMMA IdleType == \A m \in Instant : Idle(m) \in Watching
  BY DEF Idle, NoDeals, Phase, Watching

LEMMA DecisionType ==
    ASSUME NEW r
    PROVE  /\ Decision(r) \in StoredStatus \ (Unclaimed \cup {"EXECUTING"})
           /\ Decision(r) \notin {"FAILED", "FAILED_STALE"}
<1>1. Decision(r) \in {"PENDING", "PARTIALLY_FILLED", "FILLED", "EXPIRED", "CANCELLED"}
  BY DEF Decision, Filled
<1>. QED BY <1>1 DEF StoredStatus, Status, Unclaimed

\* What a decision does to the table.
LEMMA SettleRows ==
    ASSUME NEW r \in Request, Settle(r)
    PROVE  /\ UNCHANGED <<clock, discord, mode, worker, booting, broker, crashes, dealtAt>>
           /\ \/ UNCHANGED req
              \/ /\ Decision(r) # "PENDING" /\ Accepts(req[r], Decision(r))
                 /\ req' = [req EXCEPT ![r] = Resolved(req[r], Decision(r))]
  BY DEF Settle

\* The monitor's step keeps what the executors' invariant says.
LEMMA SettleInv ==
    ASSUME IInv, NEW r \in Request, Settle(r)
    PROVE  IInv'
<1> DEFINE s == Decision(r)
<1>0. /\ UNCHANGED <<clock, discord, mode, worker, booting, broker, crashes>>
      /\ UNCHANGED req \/ req' = [req EXCEPT ![r] = Resolved(req[r], s)]
  BY SettleRows
<1>1. s \in StoredStatus \ Unclaimed /\ s \notin {"FAILED", "FAILED_STALE"}
  BY DecisionType
<1>2. req[r] \in TradeRequest /\ clock \in Nat BY DEF IInv, TypeOK
<1>3. Resolved(req[r], s) \in TradeRequest BY <1>1, <1>2, RowTypes
<1>4. Resolved(req[r], s).status = s BY <1>2 DEF Resolved, TradeRequest
<1> HIDE DEF s
<1>5. req' \in [Request -> TradeRequest] BY <1>0, <1>3 DEF IInv, TypeOK
<1>6. TypeOK' BY <1>0, <1>5 DEF IInv, TypeOK, discord, worker, booting, broker
<1>7. \A x \in Request : Kept(x) BY <1>0, <1>1, SameRows, ResolvedRow DEF IInv
<1>8. UNCHANGED <<cur, step, sent, answer, wire, book>> BY <1>0 DEF worker, broker
<1>9. Links' BY <1>7, <1>8, QuietLinks DEF IInv
<1>10. \A x \in Request : req'[x].status \in {"FAILED", "FAILED_STALE"} =>
         req[x].status \in {"FAILED", "FAILED_STALE"}
  BY <1>0, <1>1, <1>4 DEF IInv, TypeOK
<1>11. FailureMeansNoOrder' BY <1>8, <1>10, FailureKept DEF IInv
<1>. QED BY <1>6, <1>9, <1>11 DEF IInv

\* A decision is one more way a row may change.
LEMMA SettleRowStep ==
    ASSUME IInv, NEW x \in Request, Settle(x), NEW r \in Request
    PROVE  RowStep(r)
<1>1. CASE UNCHANGED req BY <1>1 DEF RowStep
<1>2. CASE /\ Accepts(req[x], Decision(x))
           /\ req' = [req EXCEPT ![x] = Resolved(req[x], Decision(x))]
  <2>1. CASE r = x
    <3>1. req'[r] = Resolved(req[r], Decision(r)) BY <1>2, <2>1 DEF IInv, TypeOK
    <3>2. Accepts(req[r], Decision(r)) BY <1>2, <2>1
    <3>. QED BY <3>1, <3>2, DecisionType DEF RowStep
  <2>2. CASE r # x BY <1>2, <2>2 DEF IInv, TypeOK, RowStep
  <2>. QED BY <2>1, <2>2
<1>. QED BY <1>1, <1>2, SettleRows

\* Every step of the system with the monitor changes rows in one of these ways.
LEMMA WatchRows ==
    ASSUME IInv, [WatchNext]_WatchVars, NEW r \in Request
    PROVE  RowStep(r)
<1>1. CASE [Next]_vars BY <1>1, RowSteps
<1>2. ASSUME NEW x \in Request, Settle(x) PROVE RowStep(r) BY <1>2, SettleRowStep
<1>3. CASE UNCHANGED req BY <1>3 DEF RowStep
<1>. QED
  BY <1>1, <1>2, <1>3
     DEF WatchNext, WatchStep, WatchVars, vars, BeginPoll, ReadOrders, ReadDeals,
         ListPending, EndWatch, WatchCrash

\* The deals seen are a part of what was filled.
LEMMA DealsCount ==
    ASSUME IInv, DealsArePast, NEW r \in Request, watch.dealt[r] # {}
    PROVE  /\ Cardinality(watch.dealt[r]) \in 0..Volume
           /\ Cardinality(watch.dealt[r]) > 0
           /\ Cardinality(watch.dealt[r]) <= book[r].filled
<1> DEFINE n == book[r].filled
           D == watch.dealt[r]
<1>1. n \in 0..Volume /\ n \in Int BY ExecutionAssumption DEF IInv, TypeOK, OrderBook
<1>2. D \subseteq 1..n BY DEF DealsArePast
<1> HIDE DEF n, D
<1>3. IsFiniteSet(1..n) /\ Cardinality(1..n) = n
  BY <1>1, FS_Interval, ExecutionAssumption
<1>4. IsFiniteSet(D) /\ Cardinality(D) <= n BY <1>2, <1>3, FS_Subset
<1>5. Cardinality(D) \in Nat BY <1>4, FS_CardinalityType
<1>6. Cardinality(D) # 0 BY <1>4, FS_EmptySet DEF D
<1>. QED BY <1>1, <1>4, <1>5, <1>6, ExecutionAssumption DEF n, D

\* A decision is true of the order: the deals it rests on have happened.
LEMMA SettleTruth ==
    ASSUME IInv, TruthInv, WatchTypeOK, DealsArePast, NEW r \in Request, Settle(r)
    PROVE  TruthInv'
<1> DEFINE s == Decision(r)
<1>0. /\ UNCHANGED <<cur, step, answer, sweep, probe, wire, book>>
      /\ UNCHANGED req \/ (s # "PENDING" /\ req' = [req EXCEPT ![r] = Resolved(req[r], s)])
  BY SettleRows DEF worker, booting, broker
<1>1. s # "PENDING" => Truth(s, r)
  <2>1. watch.dealt[r] # {} => /\ Cardinality(watch.dealt[r]) \in 0..Volume
                               /\ Cardinality(watch.dealt[r]) > 0
                               /\ Cardinality(watch.dealt[r]) <= book[r].filled
    BY DealsCount
  <2>2. watch.dealt[r] # {} => Truth(Filled(Cardinality(watch.dealt[r])), r)
    BY <2>1, FilledIsTrue DEF IInv
  <2>3. Truth("EXPIRED", r) /\ Truth("CANCELLED", r) BY DEF Truth
  <2>. QED BY <2>2, <2>3 DEF Decision
<1>2. /\ Resolved(req[r], s).status = s /\ Resolved(req[r], s).kind = req[r].kind
      /\ req \in [Request -> TradeRequest]
  BY DEF Resolved, IInv, TypeOK, TradeRequest
<1> HIDE DEF s
<1>3. \A x \in Request : req'[x].kind = req[x].kind BY <1>0, <1>2
<1>4. \A x \in Request : Says(req[x].status, req[x].unsized, x)
  BY DEF TruthInv, OutcomeIsTrue, Says
<1>5. \A x \in Request : Says(req'[x].status, req'[x].unsized, x)
  <2>1. s # "PENDING" => \A u : Says(s, u, r) BY <1>1, TruthSays DEF TruthInv
  <2>. QED BY <1>0, <1>2, <1>4, <2>1
<1>6. OutcomeIsTrue' BY <1>0, <1>3, <1>5 DEF OutcomeIsTrue, Says
<1>7. BookIsSane' BY <1>0, <1>3 DEF TruthInv, BookIsSane
<1>8. AcceptedIsPlaced' BY <1>0 DEF TruthInv, AcceptedIsPlaced
<1>9. SweepIsPast'
  <2>1. \A e \in Executor : Entries(e)' = Entries(e) BY <1>0 DEF Entries
  <2>. QED BY <1>0, <2>1 DEF TruthInv, SweepIsPast
<1>. QED BY <1>6, <1>7, <1>8, <1>9 DEF TruthInv

\* What the monitor's own steps make of its poll is of the right type, and past.
LEMMA WatchOwnStep ==
    ASSUME IInv, WatchTypeOK, DealsArePast, WatchStep
    PROVE  WatchTypeOK' /\ DealsArePast'
<1>0. UNCHANGED <<book, dealtAt>> /\ clock \in Nat
  BY SettleRows
     DEF WatchStep, BeginPoll, ReadOrders, ReadDeals, ListPending, EndWatch, vars, broker,
         IInv, TypeOK
<1>a. WatchTypeOK <=> watch \in Watching /\ dealtAt \in [Request -> [1..Volume -> Nat]]
  BY DEF WatchTypeOK, Watching
<1>b. ASSUME watch' \in Watching, \A r \in Request : watch'.dealt[r] \subseteq 1..book[r].filled
      PROVE  WatchTypeOK' /\ DealsArePast'
  BY <1>0, <1>a, <1>b DEF WatchTypeOK, Watching, DealsArePast
<1>1. ASSUME NEW m \in Instant, watch' = Idle(m) PROVE WatchTypeOK' /\ DealsArePast'
  BY <1>b, <1>1, IdleType DEF Idle, NoDeals
<1>2. ASSUME watch' \in Watching, UNCHANGED watch.dealt PROVE WatchTypeOK' /\ DealsArePast'
  BY <1>b, <1>2 DEF DealsArePast
<1>c. watch.sync \in Instant /\ watch.moment \in Instant
  BY <1>a DEF Watching, Instant
<1>d. CASE BeginPoll
  <2>1. watch' \in Watching /\ watch'.dealt = watch.dealt
    BY <1>0, <1>a, <1>d DEF BeginPoll, Watching, Phase
  <2>. QED BY <1>2, <2>1
<1>3. CASE ReadOrders
  <2>1. PICK seen \in SUBSET {r \in Request : Listed(r)} :
          watch' = [watch EXCEPT !.phase = "orders", !.resting = seen, !.known = PendingRows]
    BY <1>3 DEF ReadOrders
  <2>2. watch' \in Watching /\ watch'.dealt = watch.dealt
    BY <1>a, <2>1 DEF Watching, Phase, PendingRows
  <2>. QED BY <1>2, <2>2
<1>4. CASE ReadDeals
  <2>1. PICK seen \in {[r \in Request |-> InWindow(r)], NoDeals} :
          watch' = [watch EXCEPT !.phase = "deals", !.dealt = seen]
    BY <1>4 DEF ReadDeals
  <2>2. \A r \in Request : seen[r] \subseteq 1..book[r].filled BY <2>1 DEF InWindow, NoDeals
  <2>3. \A r \in Request : book[r].filled \in 0..Volume BY DEF IInv, TypeOK, OrderBook
  <2>4. \A r \in Request : seen[r] \subseteq 1..Volume BY <2>2, <2>3, ExecutionAssumption
  <2>5. seen \in [Request -> SUBSET (1..Volume)] BY <2>1, <2>4 DEF NoDeals
  <2>6. watch' \in Watching /\ watch'.dealt = seen BY <1>a, <2>1, <2>5 DEF Watching, Phase
  <2>. QED BY <1>b, <2>2, <2>6
<1>5. CASE ListPending
  <2>1. watch' \in Watching /\ watch'.dealt = watch.dealt
    BY <1>a, <1>5 DEF ListPending, Watching, Phase, PendingRows
  <2>. QED BY <1>2, <2>1
<1>6. ASSUME NEW r \in Request, Settle(r) PROVE WatchTypeOK' /\ DealsArePast'
  <2>1. CASE watch' = [watch EXCEPT !.todo = @ \ {r}]
    <3>1. watch' \in Watching /\ watch'.dealt = watch.dealt BY <1>a, <2>1 DEF Watching
    <3>. QED BY <1>2, <3>1
  <2>2. CASE watch' = Idle(watch.sync) BY <1>1, <1>c, <2>2
  <2>. QED BY <1>6, <2>1, <2>2 DEF Settle
<1>7. CASE EndWatch BY <1>1, <1>c, <1>7 DEF EndWatch
<1>. QED BY <1>d, <1>3, <1>4, <1>5, <1>6, <1>7 DEF WatchStep

\* A step of the monitor other than a decision touches only its poll; its death
\* only that, and the number of crashes.
LEMMA WatchSplit ==
    ASSUME [WatchNext]_WatchVars
    PROVE  \/ Next /\ DealTimes /\ UNCHANGED watch
           \/ WatchStep /\ UNCHANGED dealtAt /\ \/ UNCHANGED vars
                                                \/ \E r \in Request : Settle(r)
           \/ WatchCrash
           \/ UNCHANGED WatchVars
  BY DEF WatchNext, WatchStep, WatchVars, BeginPoll, ReadOrders, ReadDeals, ListPending,
         EndWatch, Settle

\* What a step outside the executors may change without touching the delivery.
LEMMA QuietDelivery ==
    ASSUME TypeOK, DeliveryInv, UNCHANGED <<clock, cur, step, wire, book, sweep, probe>>,
           \A r \in Request :
             /\ req'[r].startedAt = req[r].startedAt /\ req'[r].kind = req[r].kind
             /\ req'[r].failure = req[r].failure
             /\ req'[r].status = "EXECUTING" => req[r].status = "EXECUTING"
    PROVE  DeliveryInv'
<1>1. \A r \in Request : OnItsWay(r)' = OnItsWay(r) BY DEF OnItsWay
<1>2. \A r \in Request : NothingComes(r) => NothingComes(r)' BY <1>1 DEF NothingComes
<1>3. \A e \in Executor : Entries(e)' = Entries(e) /\ Entries(e) \subseteq Entry
  BY DEF Entries, TypeOK
<1>4. ExecutingIsStarted' BY DEF DeliveryInv, ExecutingIsStarted
<1>5. WayIsShort' BY <1>1 DEF DeliveryInv, WayIsShort
<1>6. OverdueIsOver'
  <2> SUFFICES ASSUME NEW e \in Executor, NEW x \in Entries(e), x.status = "EXECUTING",
                      x.overdue
      PROVE  /\ NothingComes(x.id)'
             /\ x.dealt = 0 /\ req'[x.id].kind = "market" => book'[x.id].filled = 0
    BY <1>3 DEF OverdueIsOver
  <2>1. x.id \in Request BY <1>3 DEF Entry
  <2>2. /\ NothingComes(x.id)
        /\ x.dealt = 0 /\ req[x.id].kind = "market" => book[x.id].filled = 0
    BY DEF DeliveryInv, OverdueIsOver
  <2>. QED BY <1>2, <2>1, <2>2
<1>7. NotFoundIsOver' BY <1>2 DEF DeliveryInv, NotFoundIsOver
<1>. QED BY <1>4, <1>5, <1>6, <1>7 DEF DeliveryInv

\* All but the number of crashes stays as it is.
Still == UNCHANGED <<clock, req, discord, mode, worker, booting, broker>> /\ crashes' \in Nat

LEMMA VarsKeep ==
    ASSUME Still
    PROVE  /\ IInv => IInv'
           /\ TruthInv => TruthInv'
           /\ TypeOK /\ DeliveryInv => DeliveryInv'
<1>2. UNCHANGED <<clock, req, view, handling, mode, batch, cur, step, sent, answer, sweep,
                  probe, wire, book>> /\ crashes' \in Nat
  BY DEF Still, discord, worker, booting, broker
<1>3. \A e \in Executor : Entries(e)' = Entries(e) BY <1>2 DEF Entries
<1>4. ASSUME IInv PROVE IInv'
  <2>1. TypeOK' BY <1>2, <1>4 DEF IInv, TypeOK
  <2>2. \A x \in Request : Kept(x) BY <1>2, <1>4, SameRows DEF IInv
  <2>3. Links' BY <1>2, <1>4, <2>2, QuietLinks DEF IInv
  <2>4. FailureMeansNoOrder' BY <1>2, <1>4, FailureKept DEF IInv
  <2>. QED BY <2>1, <2>3, <2>4 DEF IInv
<1>5. TruthInv => TruthInv'
  BY <1>2, <1>3 DEF TruthInv, BookIsSane, AcceptedIsPlaced, SweepIsPast, OutcomeIsTrue
<1>6. TypeOK /\ DeliveryInv => DeliveryInv' BY <1>2, QuietDelivery
<1>. QED BY <1>4, <1>5, <1>6

\* The monitor's steps that decide nothing are such steps.
LEMMA WatchStill ==
    ASSUME TypeOK, UNCHANGED vars \/ WatchCrash
    PROVE  Still
  BY DEF TypeOK, Still, vars, WatchCrash

LEMMA WatchInvStep == WatchInv /\ [WatchNext]_WatchVars => WatchInv'
<1> SUFFICES ASSUME WatchInv, [WatchNext]_WatchVars PROVE WatchInv'
  OBVIOUS
<1> USE DEF WatchInv
<1>1. CASE Next /\ DealTimes /\ UNCHANGED watch
  <2>1. IInv' /\ TruthInv' BY <1>1, NextInv, TruthStep
  <2>2. WatchTypeOK'
    <3>1. clock \in Nat /\ dealtAt \in [Request -> [1..Volume -> Nat]]
      BY DEF IInv, TypeOK, WatchTypeOK
    <3>2. dealtAt' \in [Request -> [1..Volume -> Nat]] BY <1>1, <3>1 DEF DealTimes
    <3>. QED BY <1>1, <3>2 DEF WatchTypeOK
  <2>3. DealsArePast'
    <3> SUFFICES ASSUME NEW r \in Request PROVE watch.dealt[r] \subseteq 1..book'[r].filled
      BY <1>1 DEF DealsArePast
    <3>1. book'[r].filled >= book[r].filled BY <1>1, BookGrows DEF TruthInv
    <3>2. book[r].filled \in 0..Volume /\ book'[r].filled \in 0..Volume
      BY <2>1 DEF IInv, TypeOK, OrderBook
    <3>3. 1..book[r].filled \subseteq 1..book'[r].filled BY <3>1, <3>2, ExecutionAssumption
    <3>. QED BY <3>3 DEF DealsArePast
  <2>. QED BY <2>1, <2>2, <2>3
<1>2. CASE WatchStep /\ UNCHANGED vars
  BY <1>2, WatchOwnStep, WatchStill, VarsKeep DEF IInv
<1>3. CASE WatchStep /\ \E r \in Request : Settle(r)
  BY <1>3, WatchOwnStep, SettleInv, SettleTruth
<1>4. CASE WatchCrash
  <2>1. IInv' /\ TruthInv' BY <1>4, WatchStill, VarsKeep DEF IInv
  <2>2. watch' = Idle(None) /\ UNCHANGED dealtAt BY <1>4 DEF WatchCrash
  <2>3. WatchTypeOK' BY <2>2, IdleType DEF WatchTypeOK, Watching, Instant
  <2>4. DealsArePast' BY <2>2 DEF DealsArePast, Idle, NoDeals
  <2>. QED BY <2>1, <2>3, <2>4
<1>5. CASE UNCHANGED WatchVars
  <2>1. UNCHANGED <<vars, watch, dealtAt, book>> BY <1>5 DEF WatchVars, vars, broker
  <2>2. IInv' /\ TruthInv' BY <2>1, WatchStill, VarsKeep DEF IInv
  <2>3. WatchTypeOK' /\ DealsArePast' BY <2>1 DEF WatchTypeOK, DealsArePast
  <2>. QED BY <2>2, <2>3
<1>. QED BY <1>1, <1>2, <1>3, <1>4, <1>5, WatchSplit

LEMMA WatchInvInit == WatchInit => WatchInv
<1> SUFFICES ASSUME WatchInit PROVE WatchInv
  OBVIOUS
<1>1. IInv /\ TruthInv BY InitInv, TruthInit DEF WatchInit
<1>2. WatchTypeOK
  <2>1. NoTimes \in [Request -> [1..Volume -> Nat]] BY DEF NoTimes
  <2>. QED BY <2>1, IdleType DEF WatchInit, WatchTypeOK, Watching, Instant
<1>3. DealsArePast BY DEF DealsArePast, WatchInit, Idle, NoDeals
<1>. QED BY <1>1, <1>2, <1>3 DEF WatchInv

THEOREM WatchInvariance == WatchSpec => []WatchInv
  BY WatchInvInit, WatchInvStep, PTL DEF WatchSpec

\* With the monitor deciding on pending orders too, the table is still true ...
THEOREM OutcomesAreTrueWatched == WatchSpec => []OutcomeIsTrue
<1>1. WatchInv => OutcomeIsTrue BY DEF WatchInv, TruthInv
<1>. QED BY <1>1, WatchInvariance, PTL

\* ... one confirmation is still at most one order, and FAILED still means that
\* nothing exists ...
THEOREM SafeWatched ==
    WatchSpec => [](AtMostOneOrder /\ OnlyAuthorisedOrders /\ FailureMeansNoOrder)
<1>1. WatchInv => AtMostOneOrder /\ OnlyAuthorisedOrders /\ FailureMeansNoOrder
  <2> SUFFICES ASSUME WatchInv
      PROVE  AtMostOneOrder /\ OnlyAuthorisedOrders /\ FailureMeansNoOrder
    OBVIOUS
  <2>1. AtMostOneOrder /\ TokenBeforeOrder /\ FailureMeansNoOrder
    BY DEF WatchInv, IInv, Links
  <2>2. OrderNeedsLiveConfirmation
    BY DEF WatchInv, IInv, Links, UnstartedIsUntouched, ClaimedInTime,
           OrderNeedsLiveConfirmation
  <2>. QED BY <2>1, <2>2 DEF OnlyAuthorisedOrders
<1>. QED BY <1>1, WatchInvariance, PTL

\* ... a settled request still keeps its status, and a deadline its instant ...
THEOREM SettledForGoodWatched == WatchSpec => SettledStays /\ ConfirmationIsFinal
<1>1. WatchInv /\ [WatchNext]_WatchVars =>
        /\ \A r \in Request : req[r].status \in Terminal => req'[r].status = req[r].status
        /\ \A r \in Request : req[r].expiresAt # None =>
             req'[r].expiresAt = req[r].expiresAt
  BY WatchRows, SettledRow, DeadlineRow DEF WatchInv
<1>. QED
  BY <1>1, WatchInvariance, PTL DEF WatchSpec, SettledStays, ConfirmationIsFinal

\* ... and the whole still implements OneOrder.
THEOREM RefinementWatched == WatchSpec => ImplementsOneOrder
<1>1. WatchInit => Abstract!Init BY AbstractInit DEF WatchInit
<1>2. WatchInv /\ [WatchNext]_WatchVars =>
        [Abstract!Next]_<<[r \in Request |-> Stage(req[r])],
                          [r \in Request |-> book[r].placed]>>
  <2> SUFFICES ASSUME WatchInv, [WatchNext]_WatchVars
      PROVE  [Abstract!Next]_<<[r \in Request |-> Stage(req[r])],
                               [r \in Request |-> book[r].placed]>>
    OBVIOUS
  <2>1. CASE [Next]_vars BY <2>1, AbstractStep DEF WatchInv
  <2>2. CASE UNCHANGED vars \/ WatchCrash BY <2>2 DEF vars, broker, WatchCrash
  <2>3. ASSUME NEW r \in Request, Settle(r)
        PROVE  UNCHANGED book /\ \A x \in Request : x # r => req'[x] = req[x]
    BY <2>3, SettleRows DEF broker, WatchInv, IInv, TypeOK
  <2>4. \A r \in Request : RowStep(r) BY WatchRows DEF WatchInv
  <2>5. CASE \E r \in Request : Settle(r)
    BY <2>3, <2>4, <2>5, AbstractMove DEF WatchInv
  <2>. QED BY <2>1, <2>2, <2>5, WatchSplit DEF WatchVars
<1>. QED
  BY <1>1, <1>2, WatchInvariance, PTL DEF WatchSpec, ImplementsOneOrder, Abstract!Spec

\* "Never placed" is still right.
THEOREM NotFoundIsRightWatched ==
    ASSUME PromptDelivery, ~ReadsMayMiss, Grace > 0
    PROVE  WatchSpec => []NotFoundMeansNoOrder
<1>0. Prompt BY DEF Prompt
<1>1. ASSUME WatchInv, DeliveryInv, [WatchNext]_WatchVars PROVE DeliveryInv'
  <2> USE <1>1 DEF WatchInv
  <2>1. CASE [Next]_vars BY <1>0, <2>1, DeliveryStep
  <2>2. CASE UNCHANGED vars \/ WatchCrash BY <2>2, WatchStill, VarsKeep DEF IInv
  <2>3. ASSUME NEW r \in Request, Settle(r) PROVE DeliveryInv'
    <3> DEFINE q == Resolved(req[r], Decision(r))
    <3>1. UNCHANGED <<clock, cur, step, wire, book, sweep, probe>>
      BY <2>3, SettleRows DEF worker, booting, broker
    <3>2. UNCHANGED req \/ req' = [req EXCEPT ![r] = q] BY <2>3, SettleRows
    <3>3. /\ q.startedAt = req[r].startedAt /\ q.kind = req[r].kind
          /\ q.failure = req[r].failure /\ q.status # "EXECUTING"
      <4>1. Decision(r) # "EXECUTING" BY DecisionType
      <4>. QED BY <4>1 DEF Resolved, IInv, TypeOK, TradeRequest
    <3> HIDE DEF q
    <3>4. \A x \in Request :
             /\ req'[x].startedAt = req[x].startedAt /\ req'[x].kind = req[x].kind
             /\ req'[x].failure = req[x].failure
             /\ req'[x].status = "EXECUTING" => req[x].status = "EXECUTING"
      BY <3>2, <3>3 DEF IInv, TypeOK
    <3>. QED BY <3>1, <3>4, QuietDelivery DEF IInv
  <2>. QED BY <2>1, <2>2, <2>3, WatchSplit DEF WatchVars
<1>2. WatchInit => DeliveryInv BY DeliveryInit DEF WatchInit
<1>3. DeliveryInv => NotFoundMeansNoOrder
  BY DEF DeliveryInv, NotFoundIsOver, NothingComes, NotFoundMeansNoOrder, OnItsWay, OnWire
<1>. QED BY <1>1, <1>2, <1>3, WatchInvariance, PTL DEF WatchSpec

-----------------------------------------------------------------------------
(* A listed order is really gone: what left the book stays out of it, and    *)
(* the deals are read after that.                                            *)

\* An order that exists and does not rest gets no more fills.
LEMMA GoneStays ==
    ASSUME IInv, [Next]_vars, NEW r \in Request, book[r].placed > 0, ~book[r].resting
    PROVE  /\ book'[r].placed = book[r].placed /\ ~book'[r].resting
           /\ book'[r].filled = book[r].filled
<1>1. BookStep(r) BY BookSteps DEF IInv
<1>2. book[r] \in OrderBook BY DEF IInv, TypeOK
<1>3. \A e \in Executor : <<e, r>> \notin wire
  BY <1>2 DEF IInv, Links, WireIsHolders, OrderBook
<1>4. LET b == [book[r] EXCEPT !.open = FALSE] IN
        b.placed = book[r].placed /\ b.resting = book[r].resting /\ b.filled = book[r].filled
  BY <1>2 DEF OrderBook
<1>. QED BY <1>1, <1>3, <1>4 DEF BookStep

LEMMA KnownStep ==
    ASSUME ~ReadsMayMiss, WatchInv, KnownIsGone, [WatchNext]_WatchVars
    PROVE  KnownIsGone'
<1> USE DEF WatchInv
<1>0. watch.known \subseteq Request /\ dealtAt \in [Request -> [1..Volume -> Nat]]
  BY DEF WatchTypeOK
<1>1. CASE Next /\ DealTimes /\ UNCHANGED watch
  <2> SUFFICES ASSUME NEW r \in watch.known \ watch.resting
      PROVE  /\ book'[r].placed > 0 /\ ~book'[r].resting
             /\ InWindow(r)' = InWindow(r)
    BY <1>1 DEF KnownIsGone
  <2>0. r \in Request BY <1>0
  <2>1. book[r].placed > 0 /\ ~book[r].resting BY DEF KnownIsGone
  <2>2. /\ book'[r].placed > 0 /\ ~book'[r].resting
        /\ book'[r].filled = book[r].filled
    BY <1>1, <2>0, <2>1, GoneStays
  <2>3. \A v \in 1..Volume : dealtAt'[r][v] = dealtAt[r][v]
    <3>1. book[r].filled \in 0..Volume BY <2>0 DEF IInv, TypeOK, OrderBook
    <3>2. \A v \in 1..Volume : ~(book[r].filled < v /\ v <= book'[r].filled)
      BY <2>2, <3>1, ExecutionAssumption
    <3>. QED BY <1>1, <2>0, <3>2 DEF DealTimes
  <2>4. 1..book[r].filled \subseteq 1..Volume
    BY <2>0, ExecutionAssumption DEF IInv, TypeOK, OrderBook
  <2>5. \A t : Covers(t)' = Covers(t) BY <1>1 DEF Covers
  <2>6. InWindow(r)' = {v \in 1..book[r].filled : Covers(dealtAt[r][v])}
    BY <1>1, <2>2, <2>3, <2>4, <2>5 DEF InWindow, Covers
  <2>. QED BY <2>2, <2>6 DEF InWindow
<1>2. CASE ReadOrders
  <2>1. watch' = [watch EXCEPT !.phase = "orders", !.resting = {r \in Request : Listed(r)},
                               !.known = PendingRows]
    BY <1>2 DEF ReadOrders
  <2>2. /\ watch'.known = PendingRows /\ watch'.phase = "orders"
        /\ watch'.resting = {r \in Request : Listed(r)} /\ UNCHANGED book
    BY <1>2, <2>1 DEF WatchTypeOK, ReadOrders, vars, broker
  <2>3. \A r \in PendingRows : r \in Request /\ book[r].placed = 1 /\ req[r].kind = "pending"
    BY DEF PendingRows, TruthInv, OutcomeIsTrue
  <2>4. \A r \in PendingRows \ watch'.resting : ~book[r].resting
    BY <2>2, <2>3 DEF Listed
  <2>5. \A r \in PendingRows : book[r].placed > 0 BY <2>3
  <2>. QED BY <2>2, <2>4, <2>5 DEF KnownIsGone
<1>3. CASE ReadDeals
  <2>1. watch' = [watch EXCEPT !.phase = "deals", !.dealt = [r \in Request |-> InWindow(r)]]
    BY <1>3 DEF ReadDeals
  <2>2. /\ watch'.known = watch.known /\ watch'.resting = watch.resting
        /\ watch'.dealt = [r \in Request |-> InWindow(r)]
        /\ watch'.moment = watch.moment /\ watch'.sync = watch.sync
        /\ UNCHANGED <<book, dealtAt>>
    BY <1>3, <2>1 DEF WatchTypeOK, ReadDeals, vars, broker
  <2>3. \A r \in Request : InWindow(r)' = InWindow(r) BY <2>2 DEF InWindow, Covers
  <2>. QED BY <1>0, <2>2, <2>3 DEF KnownIsGone
<1>4. ASSUME watch'.known = watch.known, watch'.resting = watch.resting,
             watch'.dealt = watch.dealt, watch'.moment = watch.moment,
             watch'.sync = watch.sync, UNCHANGED <<book, dealtAt>>,
             watch'.phase \in {"deals", "listed"} => watch.phase \in {"deals", "listed"}
      PROVE  KnownIsGone'
  <2>1. \A r \in Request : InWindow(r)' = InWindow(r) BY <1>4 DEF InWindow, Covers
  <2>. QED BY <1>0, <1>4, <2>1 DEF KnownIsGone
<1>5. CASE ListPending
  BY <1>4, <1>5 DEF WatchTypeOK, ListPending, vars, broker
<1>6. CASE \E m : watch' = Idle(m)
  <2>1. watch'.known = {} BY <1>6 DEF Idle
  <2>. QED BY <2>1 DEF KnownIsGone
<1>7. CASE BeginPoll
  <2>1. watch'.phase = "begun" /\ watch'.known = watch.known /\ watch'.resting = watch.resting
        /\ UNCHANGED book
    BY <1>7 DEF WatchTypeOK, BeginPoll, vars, broker
  <2>. QED BY <2>1 DEF KnownIsGone
<1>8. ASSUME NEW r \in Request, Settle(r), watch' # Idle(watch.sync) PROVE KnownIsGone'
  <2>1. watch' = [watch EXCEPT !.todo = @ \ {r}] /\ UNCHANGED <<book, dealtAt>>
    BY <1>8 DEF Settle, broker
  <2>. QED BY <1>4, <2>1 DEF WatchTypeOK
<1>9. CASE UNCHANGED WatchVars
  BY <1>4, <1>9 DEF WatchVars, vars, broker
<1>. QED
  BY <1>1, <1>2, <1>3, <1>5, <1>6, <1>7, <1>8, <1>9, WatchSplit
     DEF WatchStep, EndWatch, WatchCrash

\* A request known to be PENDING when the poll read the resting orders is only
\* recorded cancelled or expired if its order has left the broker's book and no part
\* of it was filled in the window of deals the poll looked at.
THEOREM ListedIsGone ==
    ASSUME ~ReadsMayMiss
    PROVE  WatchSpec => ListedOrderIsReallyGone
<1>1. ASSUME WatchInv, KnownIsGone, [WatchNext]_WatchVars PROVE KnownIsGone'
  BY <1>1, KnownStep
<1>2. WatchInit => KnownIsGone
  BY DEF WatchInit, Idle, KnownIsGone
<1>3. ASSUME WatchInv, KnownIsGone
      PROVE  \A r \in Request :
               Settle(r) /\ r \in watch.known
                 /\ (Settled(r, "CANCELLED") \/ Settled(r, "EXPIRED"))
               => InWindow(r) = {} /\ ~book[r].resting
  <2> SUFFICES ASSUME NEW r \in Request, Settle(r), r \in watch.known,
                      Settled(r, "CANCELLED") \/ Settled(r, "EXPIRED")
      PROVE  InWindow(r) = {} /\ ~book[r].resting
    OBVIOUS
  <2>1. req[r] \in TradeRequest /\ req \in [Request -> TradeRequest]
    BY <1>3 DEF WatchInv, IInv, TypeOK
  <2>2. req'[r].status = Decision(r)
    <3>1. Resolved(req[r], Decision(r)).status = Decision(r)
      BY <2>1 DEF Resolved, TradeRequest
    <3>2. req' = [req EXCEPT ![r] = Resolved(req[r], Decision(r))]
      BY SettleRows DEF Settled
    <3>. QED BY <2>1, <3>1, <3>2
  <2>3. r \notin watch.resting /\ watch.dealt[r] = {}
    BY <2>2 DEF Settled, Decision, Filled
  <2>4. watch.phase = "listed" BY DEF Settle
  <2>5. watch.dealt[r] = InWindow(r) /\ ~book[r].resting
    BY <1>3, <2>3, <2>4 DEF KnownIsGone
  <2>. QED BY <2>3, <2>5
<1>. QED
  BY <1>1, <1>2, <1>3, WatchInvariance, PTL DEF WatchSpec, ListedOrderIsReallyGone
=============================================================================
