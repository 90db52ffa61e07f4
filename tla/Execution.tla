----------------------------- MODULE Execution -----------------------------
(***************************************************************************)
(* From a human's CONFIRM to a broker order, and back.  Three parts share  *)
(* the trade_requests table:                                               *)
(*   - the Discord confirmation view (aureon/discord/views/confirm_view),  *)
(*   - the executors (aureon/execution/execution_worker, lease_manager,    *)
(*     idempotency) and                                                    *)
(*   - the reconciliation sweep each executor runs at start-up, before it  *)
(*     serves (aureon/execution/reconciliation_service, main_executor).    *)
(* The broker is outside the system: an order sent travels on `wire' and   *)
(* the broker accepts it, rejects it or never gets it, whatever became of  *)
(* the process that sent it.                                               *)
(*                                                                         *)
(* An exception that leaves process() ends the whole poll: poll_once has   *)
(* no handler, run() has one.  That is EndPoll below.  The worker catches  *)
(* the ClaimRejected and LeaseLost of storage/trade_request_repository,    *)
(* while the store in use raises the classes of the same names that        *)
(* storage/postgres/repositories/trade_requests defines, so a refusal by   *)
(* the store is such an exception.                                         *)
(***************************************************************************)
EXTENDS RequestStore

CONSTANTS
    Kinds,          \* the order types submitted, a subset of Kind
    Volume,         \* units of volume per request, at least 1
    Grace,          \* reconcile_grace_seconds
    MaxTime,        \* bound on the clock
    MaxCrashes,     \* bound on the executor crashes
    ReadsMayMiss,   \* a reconciliation read may come back empty by mistake
    StoreMayFail,   \* a call of the store may raise and change nothing
    PromptDelivery  \* an order reaches the broker, or is lost, within Grace, and
                    \* a market order is filled by then, as far as it will be

ASSUME ExecutionAssumption ==
    /\ Kinds \subseteq Kind
    /\ Volume \in Nat \ {0}
    /\ Grace \in Nat /\ MaxTime \in Nat /\ MaxCrashes \in Nat
    /\ {ReadsMayMiss, StoreMayFail, PromptDelivery} \subseteq BOOLEAN

VARIABLES
    clock,      \* the time every process reads
    req,        \* the trade_requests table
    view,       \* the confirmation message of a request: can it be pressed?
    handling,   \* button callbacks that have started and not finished
    mode,       \* executor -> down, booting (sweeping) or serving
    batch,      \* executor -> requests its current poll still has to process
    cur,        \* executor -> the request in process(), or None
    step,       \* executor -> how far process() has come
    sent,       \* executor -> SendGuard: the requests this process has sent
    sweep,      \* executor -> what reconcile_all still has to reconcile
    probe,      \* executor -> the entry under reconciliation, or None
    answer,     \* executor -> the broker's answer to the send under way
    wire,       \* orders sent that the broker has not decided on
    book,       \* the broker's records of each request's order
    crashes

discord == <<view, handling>>
worker  == <<batch, cur, step, sent, answer>>
booting == <<sweep, probe>>
broker  == <<wire, book>>
vars == <<clock, req, discord, mode, worker, booting, broker, crashes>>

Mode == {"down", "booting", "serving"}
Step == {"idle", "claimed", "passed", "stamped", "sending"}
\* An acceptance that says that all was filled, or a part of it, or leaves the
\* volume out (the terminal's 0, which mt5_broker makes None).
Acceptance == {"whole", "part", "unsized"}
Answer == {"none", "rejected"} \cup Acceptance
Callback == {"confirm", "disable", "cancel"}

\* What the broker holds for a request: how many orders it accepted, whether
\* one rests (a market order that was placed and is not filled yet among them),
\* how much of it was filled, whether its position is open.
OrderBook == [placed : Nat, resting : BOOLEAN, filled : 0..Volume, open : BOOLEAN]
NoOrder == [placed |-> 0, resting |-> FALSE, filled |-> 0, open |-> FALSE]

\* A new order that rests, one filled to v at once, and a resting order filled.
Rested(b) == [b EXCEPT !.placed = b.placed + 1, !.resting = TRUE]
Executed(b, v) == [b EXCEPT !.placed = b.placed + 1, !.filled = v, !.open = TRUE]
FilledTo(b, v) == [b EXCEPT !.filled = v, !.open = TRUE, !.resting = v < Volume]

\* A request as reconcile_all lists it.  Both the age of the claim and the end
\* of the deal window are measured at the sweep's `moment', so `overdue' says
\* whether the grace had passed then and `dealt' what had been filled by then.
Entry == [id : Request, status : SweptStatuses, overdue : BOOLEAN, dealt : 0..Volume]
Probe == [entry : Entry, position : 0..Volume]

TypeOK ==
    /\ clock \in Nat
    /\ req \in [Request -> TradeRequest]
    /\ view \in [Request -> {"none", "live", "stopped"}]
    /\ handling \in [Request -> SUBSET Callback]
    /\ mode \in [Executor -> Mode]
    /\ batch \in [Executor -> SUBSET Request]
    /\ cur \in [Executor -> Request \cup {None}]
    /\ step \in [Executor -> Step]
    /\ sent \in [Executor -> SUBSET Request]
    /\ sweep \in [Executor -> SUBSET Entry]
    /\ probe \in [Executor -> Probe \cup {None}]
    /\ answer \in [Executor -> Answer]
    /\ wire \in SUBSET (Executor \X Request)
    /\ book \in [Request -> OrderBook]
    /\ crashes \in Nat

Init ==
    /\ clock = 0
    /\ req = [r \in Request |-> NoRow]
    /\ view = [r \in Request |-> "none"]
    /\ handling = [r \in Request |-> {}]
    /\ mode = [e \in Executor |-> "down"]
    /\ batch = [e \in Executor |-> {}]
    /\ cur = [e \in Executor |-> None]
    /\ step = [e \in Executor |-> "idle"]
    /\ sent = [e \in Executor |-> {}]
    /\ sweep = [e \in Executor |-> {}]
    /\ probe = [e \in Executor |-> None]
    /\ answer = [e \in Executor |-> "none"]
    /\ wire = {}
    /\ book = [r \in Request |-> NoOrder]
    /\ crashes = 0

-----------------------------------------------------------------------------
(* The confirmation view.  Its callbacks await the store on another thread,  *)
(* so a callback is in `handling' from the press until its await returns and *)
(* other callbacks, and the executors, run in between.                       *)

\* /execute: the request is stored and its CONFIRM / Cancel message posted.
Submit(r, k) ==
    /\ req[r].status = "ABSENT"
    /\ req' = [req EXCEPT ![r] = Created(k)]
    /\ view' = [view EXCEPT ![r] = "live"]
    /\ UNCHANGED <<clock, handling, mode, worker, booting, broker, crashes>>

\* A press on a live view that passes check_confirm_press.
PressConfirm(r) ==
    /\ view[r] = "live"
    /\ handling' = [handling EXCEPT ![r] = @ \cup {"confirm"}]
    /\ UNCHANGED <<clock, req, view, mode, worker, booting, broker, crashes>>

\* The store confirms; the callback then still has to disable the view.
ConfirmWrite(r) ==
    /\ "confirm" \in handling[r]
    /\ MayConfirm(req[r])
    /\ req' = [req EXCEPT ![r] = Confirmed(@, clock)]
    /\ handling' = [handling EXCEPT ![r] = (@ \ {"confirm"}) \cup {"disable"}]
    /\ UNCHANGED <<clock, view, mode, worker, booting, broker, crashes>>

\* Nothing to write: the row is CONFIRMED already (a duplicate click), or the
\* store refuses or fails and the callback ends there.
ConfirmRefused(r) ==
    /\ "confirm" \in handling[r]
    /\ \/ /\ req[r].status = "CONFIRMED"
          /\ handling' = [handling EXCEPT ![r] = (@ \ {"confirm"}) \cup {"disable"}]
       \/ /\ StoreMayFail \/ req[r].status \notin {"REQUESTED", "CONFIRMED"}
          /\ handling' = [handling EXCEPT ![r] = @ \ {"confirm"}]
    /\ UNCHANGED <<clock, req, view, mode, worker, booting, broker, crashes>>

DisableView(r) ==
    /\ "disable" \in handling[r]
    /\ handling' = [handling EXCEPT ![r] = @ \ {"disable"}]
    /\ view' = [view EXCEPT ![r] = "stopped"]
    /\ UNCHANGED <<clock, req, mode, worker, booting, broker, crashes>>

PressCancel(r) ==
    /\ view[r] = "live"
    /\ handling' = [handling EXCEPT ![r] = @ \cup {"cancel"}]
    /\ UNCHANGED <<clock, req, view, mode, worker, booting, broker, crashes>>

\* Cancel resolves the row to CANCELLED with reconciliation=True: no lease is
\* looked at and every status the table lets go to CANCELLED is taken there.
CancelWrite(r) ==
    /\ "cancel" \in handling[r]
    /\ handling' = [handling EXCEPT ![r] = @ \ {"cancel"}]
    /\ \/ /\ Accepts(req[r], "CANCELLED")
          /\ req' = [req EXCEPT ![r] = Resolved(@, "CANCELLED")]
          /\ view' = [view EXCEPT ![r] = "stopped"]
       \/ /\ StoreMayFail \/ ~Accepts(req[r], "CANCELLED")
          /\ UNCHANGED <<req, view>>
    /\ UNCHANGED <<clock, mode, worker, booting, broker, crashes>>

\* The view times out, or the bot restarts and forgets it.
ViewTimeout(r) ==
    /\ view[r] = "live"
    /\ view' = [view EXCEPT ![r] = "stopped"]
    /\ UNCHANGED <<clock, req, handling, mode, worker, booting, broker, crashes>>

-----------------------------------------------------------------------------
(* The executor's loop: claim, guard, stamp, send, record.                   *)

\* process() returns: the poll goes on with the rest of its list.
Done(e) ==
    /\ cur' = [cur EXCEPT ![e] = None]
    /\ step' = [step EXCEPT ![e] = "idle"]
    /\ answer' = [answer EXCEPT ![e] = "none"]
    /\ UNCHANGED batch

\* An exception leaves process(): the poll is over.
EndPoll(e) ==
    /\ cur' = [cur EXCEPT ![e] = None]
    /\ step' = [step EXCEPT ![e] = "idle"]
    /\ answer' = [answer EXCEPT ![e] = "none"]
    /\ batch' = [batch EXCEPT ![e] = {}]

Advance(e, s) ==
    /\ step' = [step EXCEPT ![e] = s]
    /\ UNCHANGED <<batch, cur, answer>>

\* poll_once lists the CONFIRMED requests once, then processes the list.
Poll(e) ==
    /\ mode[e] = "serving" /\ cur[e] = None /\ batch[e] = {}
    /\ batch' = [batch EXCEPT ![e] = {r \in Request : req[r].status = "CONFIRMED"}]
    /\ batch'[e] # {}
    /\ UNCHANGED <<clock, req, discord, mode, cur, step, sent, answer, booting,
                   broker, crashes>>

Claim(e, r) ==
    /\ cur[e] = None /\ r \in batch[e]
    /\ MayClaim(req[r], clock)
    /\ req' = [req EXCEPT ![r] = Claimed(@, e, clock)]
    /\ batch' = [batch EXCEPT ![e] = @ \ {r}]
    /\ cur' = [cur EXCEPT ![e] = r]
    /\ step' = [step EXCEPT ![e] = "claimed"]
    /\ UNCHANGED <<clock, discord, mode, sent, answer, booting, broker, crashes>>

\* The confirmation is too old: the row is failed, and claim() then raises.
ClaimStale(e, r) ==
    /\ cur[e] = None /\ r \in batch[e]
    /\ IsStale(req[r], clock)
    /\ req' = [req EXCEPT ![r] = MarkedStale(@)]
    /\ EndPoll(e)
    /\ UNCHANGED <<clock, discord, mode, sent, booting, broker, crashes>>

\* Someone else took or cancelled the request since it was listed, or the
\* store fails.
ClaimLost(e, r) ==
    /\ cur[e] = None /\ r \in batch[e]
    /\ StoreMayFail \/ req[r].status # "CONFIRMED"
    /\ EndPoll(e)
    /\ UNCHANGED <<clock, req, discord, mode, sent, booting, broker, crashes>>

\* The worker records status s for its request, if it still holds the lease; an
\* exception of the store, refusal or failure, ends the poll.
Resolves(e, s) ==
    \/ /\ HolderMayResolve(req[cur[e]], e, s, clock)
       /\ req' = [req EXCEPT ![cur[e]] =
                    Recorded(@, s, s = "FILLED" /\ answer[e] = "unsized")]
       /\ Done(e)
    \/ /\ StoreMayFail \/ ~HolderMayResolve(req[cur[e]], e, s, clock)
       /\ UNCHANGED req
       /\ EndPoll(e)

\* What the guard decides is ExecutionGuard's affair: here it may go either way.
GuardPasses(e) ==
    /\ step[e] = "claimed"
    /\ Advance(e, "passed")
    /\ UNCHANGED <<clock, req, discord, mode, sent, booting, broker, crashes>>

GuardRefuses(e) ==
    /\ step[e] = "claimed"
    /\ Resolves(e, "FAILED")
    /\ UNCHANGED <<clock, discord, mode, sent, booting, broker, crashes>>

\* SendGuard.begin, then the comment token is written under the lease.  The
\* branch for AlreadySent is not modelled: IInv shows begin never raises.
Stamp(e) ==
    /\ step[e] = "passed" /\ cur[e] \notin sent[e]
    /\ sent' = [sent EXCEPT ![e] = @ \cup {cur[e]}]
    /\ \/ /\ HolderMayResolve(req[cur[e]], e, "EXECUTING", clock)
          /\ req' = [req EXCEPT ![cur[e]] = Stamped(@)]
          /\ Advance(e, "stamped")
       \/ /\ StoreMayFail \/ ~HolderMayResolve(req[cur[e]], e, "EXECUTING", clock)
          /\ UNCHANGED req
          /\ EndPoll(e)
    /\ UNCHANGED <<clock, discord, mode, booting, broker, crashes>>

Send(e) ==
    /\ step[e] = "stamped"
    /\ wire' = wire \cup {<<e, cur[e]>>}
    /\ Advance(e, "sending")
    /\ UNCHANGED <<clock, req, discord, mode, sent, booting, book, crashes>>

\* The keepalive thread, running while the send is.
KeepAlive(e) ==
    /\ step[e] = "sending"
    /\ MayRenew(req[cur[e]], e, clock)
    /\ req' = [req EXCEPT ![cur[e]] = Renewed(@, clock)]
    /\ UNCHANGED <<clock, discord, mode, worker, booting, broker, crashes>>

\* Mutant of SendUnknown: an exception is taken for a rejection.
SendUnknownFails(e) ==
    /\ step[e] = "sending"
    /\ req' = [req EXCEPT ![cur[e]] = Resolved(@, "FAILED")]
    /\ Done(e)
    /\ UNCHANGED <<clock, discord, mode, sent, booting, broker, crashes>>

\* The send raises: the outcome is unknown and the row stays EXECUTING.
SendUnknown(e) ==
    /\ step[e] = "sending"
    /\ Done(e)
    /\ UNCHANGED <<clock, req, discord, mode, sent, booting, broker, crashes>>

\* The status _record gives the broker's answer for request r.  An acceptance
\* of a market order that does not say the volume is taken for a whole fill.
Outcome(a, r) ==
    IF a = "rejected" THEN "FAILED"
    ELSE IF req[r].kind = "pending" THEN "PENDING"
    ELSE IF a = "part" THEN "PARTIALLY_FILLED" ELSE "FILLED"

Record(e) ==
    /\ step[e] = "sending" /\ answer[e] # "none"
    /\ Resolves(e, Outcome(answer[e], cur[e]))
    /\ UNCHANGED <<clock, discord, mode, sent, booting, broker, crashes>>

\* The process dies, or is stopped: all it held in memory is gone.  What it
\* had put on the wire is not.
Crash(e) ==
    /\ mode[e] # "down" /\ crashes < MaxCrashes
    /\ mode' = [mode EXCEPT ![e] = "down"]
    /\ EndPoll(e)
    /\ sent' = [sent EXCEPT ![e] = {}]
    /\ sweep' = [sweep EXCEPT ![e] = {}]
    /\ probe' = [probe EXCEPT ![e] = None]
    /\ crashes' = crashes + 1
    /\ UNCHANGED <<clock, req, discord, broker>>

-----------------------------------------------------------------------------
(* Start-up: Executor.startup runs reconcile_all, then the loop starts.      *)

\* Mutant of EntryOf: the grace is not waited for.
EntryAtOnce(r) ==
    [id |-> r, status |-> req[r].status, overdue |-> TRUE, dealt |-> book[r].filled]

EntryOf(r) ==
    [id |-> r, status |-> req[r].status,
     overdue |-> req[r].startedAt = None \/ clock - req[r].startedAt >= Grace,
     dealt |-> book[r].filled]

Boot(e) ==
    /\ mode[e] = "down"
    /\ mode' = [mode EXCEPT ![e] = "booting"]
    /\ sweep' = [sweep EXCEPT ![e] =
                   {EntryOf(r) : r \in {x \in Request : req[x].status \in SweptStatuses}}]
    /\ UNCHANGED <<clock, req, discord, worker, probe, broker, crashes>>

\* A read of records that are there, which may come back without them.
Reads(there, got) == got = there \/ (ReadsMayMiss /\ got = FALSE)

\* reconcile: the next entry, and the first of the three reads.  Of a position
\* it sees the volume, which a human may have reduced since the fill.
ReadPositions(e, x) ==
    /\ probe[e] = None /\ x \in sweep[e]
    /\ \E seen \in 0..book[x.id].filled :
         /\ Reads(book[x.id].open, seen > 0)
         /\ probe' = [probe EXCEPT ![e] = [entry |-> x, position |-> seen]]
    /\ sweep' = [sweep EXCEPT ![e] = @ \ {x}]
    /\ UNCHANGED <<clock, req, discord, mode, worker, broker, crashes>>

\* Mutant of Filled: any fill is a whole one.
FilledWhole(v) == "FILLED"

Filled(v) == IF v < Volume THEN "PARTIALLY_FILLED" ELSE "FILLED"

\* _reconcile_executing, over what was seen of a position, a resting order and
\* the entry deals (which count only when no position stands for them).
ExecutingVerdict(x, position, order, deals) ==
    CASE order /\ (position > 0 \/ deals) -> "FAILED_RECONCILIATION"
      [] order /\ position = 0 /\ ~deals  -> "PENDING"
      [] ~order /\ position > 0           -> Filled(position)
      [] ~order /\ position = 0 /\ deals  -> Filled(x.dealt)
      [] OTHER -> IF x.overdue THEN "FAILED_RECONCILIATION" ELSE "EXECUTING"

\* _reconcile_pending and _reconcile_partial.
PendingVerdict(x, order, deals) ==
    IF order THEN "PENDING" ELSE IF deals THEN Filled(x.dealt) ELSE "CANCELLED"
PartialVerdict(x, deals) ==
    IF deals /\ x.dealt = Volume THEN "FILLED" ELSE "PARTIALLY_FILLED"

Verdict(p, order, deals) ==
    CASE p.entry.status = "EXECUTING" ->
           ExecutingVerdict(p.entry, p.position, order, deals)
      [] p.entry.status = "PENDING" -> PendingVerdict(p.entry, order, deals)
      [] OTHER -> PartialVerdict(p.entry, deals)

FailureOf(order, s) ==
    IF s # "FAILED_RECONCILIATION" THEN None
    ELSE IF order THEN Ambiguous ELSE NotFound

\* pending_orders() leaves market orders out, at work as they may be.
Listed(r) == book[r].resting /\ req[r].kind = "pending"

\* The remaining reads and the write.  A verdict equal to the listed status is
\* "waiting" or "unchanged": nothing is written.  A write the table refuses
\* raises like a store that fails, and reconcile_all goes on with the next entry.
Judge(e) ==
    /\ probe[e] # None
    /\ \E order, deals \in BOOLEAN :
         LET x == probe[e].entry
             r == x.id
             s == Verdict(probe[e], order, deals)
         IN /\ Reads(Listed(r), order)
            /\ Reads(x.dealt > 0, deals)
            /\ \/ /\ s # x.status /\ Accepts(req[r], s)
                  /\ req' = [req EXCEPT ![r] =
                               [Resolved(@, s) EXCEPT !.failure = FailureOf(order, s)]]
               \/ /\ StoreMayFail \/ s = x.status \/ ~Accepts(req[r], s)
                  /\ UNCHANGED req
    /\ probe' = [probe EXCEPT ![e] = None]
    /\ UNCHANGED <<clock, discord, mode, worker, sweep, broker, crashes>>

Serve(e) ==
    /\ mode[e] = "booting" /\ sweep[e] = {} /\ probe[e] = None
    /\ mode' = [mode EXCEPT ![e] = "serving"]
    /\ UNCHANGED <<clock, req, discord, worker, booting, broker, crashes>>

-----------------------------------------------------------------------------
(* The broker and the clock: not Aureon's code.                              *)

Answered(e, r, a) ==
    answer' = IF step[e] = "sending" /\ cur[e] = r THEN [answer EXCEPT ![e] = a]
                                                   ELSE answer

\* A market order is filled at once, perhaps in part, or placed (retcode PLACED) and
\* filled later; what is filled may be left out of the answer.  A pending order rests.
BrokerAccepts(e, r) ==
    /\ <<e, r>> \in wire
    /\ wire' = wire \ {<<e, r>>}
    /\ \/ /\ book' = [book EXCEPT ![r] = Rested(@)]
          /\ Answered(e, r, "unsized")
       \/ /\ req[r].kind = "market"
          /\ \E v \in 1..Volume :
               /\ book' = [book EXCEPT ![r] = Executed(@, v)]
               /\ \E a \in {"unsized", IF v < Volume THEN "part" ELSE "whole"} :
                    Answered(e, r, a)
    /\ UNCHANGED <<clock, req, discord, mode, batch, cur, step, sent, booting, crashes>>

BrokerRejects(e, r) ==
    /\ <<e, r>> \in wire
    /\ wire' = wire \ {<<e, r>>}
    /\ Answered(e, r, "rejected")
    /\ UNCHANGED <<clock, req, discord, mode, batch, cur, step, sent, booting, book,
                   crashes>>

\* The order never reaches the broker.
WireLoses(e, r) ==
    /\ <<e, r>> \in wire
    /\ wire' = wire \ {<<e, r>>}
    /\ UNCHANGED <<clock, req, discord, mode, worker, booting, book, crashes>>

\* A resting order is filled, in part or whole, or leaves the book, whatever was filled.
RestingFills(r) ==
    /\ book[r].resting
    /\ \E v \in (book[r].filled + 1)..Volume :
         book' = [book EXCEPT ![r] = FilledTo(@, v)]
    /\ UNCHANGED <<clock, req, discord, mode, worker, booting, wire, crashes>>

RestingLeaves(r) ==
    /\ book[r].resting
    /\ book' = [book EXCEPT ![r].resting = FALSE]
    /\ UNCHANGED <<clock, req, discord, mode, worker, booting, wire, crashes>>

PositionCloses(r) ==
    /\ book[r].open
    /\ book' = [book EXCEPT ![r].open = FALSE]
    /\ UNCHANGED <<clock, req, discord, mode, worker, booting, wire, crashes>>

\* Under PromptDelivery time does not pass the grace of a request while its
\* order is still to be sent, still on the wire, or a market order still at work.
OnItsWay(r) == \/ \E e \in Executor : <<e, r>> \in wire
               \/ \E e \in Executor : cur[e] = r /\ step[e] # "sending"
               \/ book[r].resting /\ req[r].kind = "market"

Tick ==
    /\ clock < MaxTime
    /\ PromptDelivery =>
         \A r \in Request : OnItsWay(r) => clock + 1 < req[r].startedAt + Grace
    /\ clock' = clock + 1
    /\ UNCHANGED <<req, discord, mode, worker, booting, broker, crashes>>

-----------------------------------------------------------------------------
Discord(r) ==
    \/ \E k \in Kinds : Submit(r, k)
    \/ PressConfirm(r) \/ ConfirmWrite(r) \/ ConfirmRefused(r) \/ DisableView(r)
    \/ PressCancel(r) \/ CancelWrite(r) \/ ViewTimeout(r)

Work(e) ==
    \/ Poll(e)
    \/ \E r \in Request : Claim(e, r) \/ ClaimStale(e, r) \/ ClaimLost(e, r)
    \/ GuardPasses(e) \/ GuardRefuses(e) \/ Stamp(e) \/ Send(e)
    \/ SendUnknown(e) \/ Record(e)

Startup(e) ==
    \/ Boot(e) \/ Judge(e) \/ Serve(e)
    \/ \E x \in sweep[e] : ReadPositions(e, x)

Broker ==
    \/ \E e \in Executor, r \in Request :
         BrokerAccepts(e, r) \/ BrokerRejects(e, r) \/ WireLoses(e, r)
    \/ \E r \in Request : RestingFills(r) \/ RestingLeaves(r) \/ PositionCloses(r)

Next ==
    \/ \E r \in Request : Discord(r)
    \/ \E e \in Executor : Work(e) \/ Startup(e) \/ KeepAlive(e) \/ Crash(e)
    \/ Broker
    \/ Tick

Spec == Init /\ [][Next]_vars

\* An executor that runs keeps running: no step of its loop or its start-up
\* waits for anyone, and a send ends in an answer or an exception.  That a dead
\* one is started again is the operator's part (docs/RUNBOOK.md).  Nobody
\* promises a press, an answer or a fill.
FairSpec ==
    /\ Spec
    /\ WF_vars(Tick)
    /\ \A e \in Executor : WF_vars(Work(e)) /\ WF_vars(Startup(e))

-----------------------------------------------------------------------------
(* What must hold.                                                           *)

OnWire(r) == \E e \in Executor : <<e, r>> \in wire

\* However executors crash, restart, race and lose answers, one confirmation
\* never becomes two orders at the broker (execution_worker, section 32).
AtMostOneOrder == \A r \in Request : book[r].placed <= 1

\* An order is only ever sent for a request that was claimed while its
\* confirmation was alive, however long the claim had been queued (section 28).
OrderNeedsLiveConfirmation ==
    \A r \in Request : book[r].placed > 0 \/ OnWire(r) =>
        /\ req[r].startedAt # None /\ req[r].expiresAt # None
        /\ req[r].startedAt < req[r].expiresAt

\* Whatever reaches the broker, or may still reach it, carries a token that is
\* already in the request's row for reconciliation to look for (section 34).
TokenBeforeOrder ==
    \A r \in Request : book[r].placed > 0 \/ OnWire(r) => req[r].token

\* Both: an order is one a human asked for in time, and one that can be found.
OnlyAuthorisedOrders == OrderNeedsLiveConfirmation /\ TokenBeforeOrder

\* FAILED and FAILED_STALE mean "nothing exists": no order is at the broker,
\* none is on its way and no process is about to send one.
FailureMeansNoOrder ==
    \A r \in Request : req[r].status \in {"FAILED", "FAILED_STALE"} =>
        /\ book[r].placed = 0 /\ ~OnWire(r)
        /\ \A e \in Executor : cur[e] # r

\* A recorded success is one the broker has: FILLED only when the whole volume
\* was filled, PARTIALLY_FILLED only when some was, PENDING only for a pending
\* order the broker accepted.  One FILLED says less: where the broker's answer left
\* the volume out, the row has no filled_volume, and only an order for it is certain.
OutcomeIsTrue ==
    \A r \in Request :
        /\ req[r].status = "FILLED" =>
             IF req[r].unsized THEN book[r].placed = 1 ELSE book[r].filled = Volume
        /\ req[r].status = "PARTIALLY_FILLED" => book[r].filled > 0
        /\ req[r].status = "PENDING" => book[r].placed = 1 /\ req[r].kind = "pending"

\* Reconciliation's "the order was never placed" is right of a market order: nothing is
\* at the broker, and nothing will be.  (It may have been placed and dropped unfilled.)
NotFoundMeansNoOrder ==
    \A r \in Request :
        req[r].failure = NotFound /\ req[r].kind = "market" =>
            book[r].filled = 0 /\ ~book[r].resting /\ ~OnWire(r)

\* A settled request keeps its status, whichever of the view, the worker and
\* the sweep writes last.
SettledStays ==
    [][\A r \in Request : req[r].status \in Terminal =>
          req'[r].status = req[r].status]_vars

\* One authorisation arms one execution: the deadline a confirmation set never
\* moves, whatever the number of clicks (section 28).
ConfirmationIsFinal ==
    [][\A r \in Request : req[r].expiresAt # None =>
          req'[r].expiresAt = req[r].expiresAt]_vars

\* A confirmed request is claimed, failed or cancelled in the end: none waits
\* for ever, even though one refused claim ends a poll.
ConfirmedIsDecided ==
    \A r \in Request : req[r].status = "CONFIRMED" ~> req[r].status # "CONFIRMED"

\* The execution path implements OneOrder: a request is taken once it has an
\* execution_started_at, and its orders are the ones the broker accepted.
Stage(q) ==
    IF q.startedAt # None THEN "taken"
    ELSE IF q.status \in {"ABSENT", "REQUESTED"} THEN "asked"
    ELSE IF q.status = "CONFIRMED" THEN "authorised"
    ELSE "withdrawn"

Abstract == INSTANCE OneOrder WITH
              stage  <- [r \in Request |-> Stage(req[r])],
              orders <- [r \in Request |-> book[r].placed]

ImplementsOneOrder == Abstract!Spec

-----------------------------------------------------------------------------
(* The inductive invariant behind the safety properties: how the processes,  *)
(* the rows, the wire and the broker's book hang together.                   *)

\* A row that no executor has taken yet says so in execution_started_at ...
UnclaimedIsUnstarted ==
    \A r \in Request : req[r].status \in Unclaimed => req[r].startedAt = None

\* ... it has a deadline exactly when it is confirmed ...
DeadlineIsConfirmations ==
    \A r \in Request :
        /\ req[r].status = "CONFIRMED" => req[r].expiresAt # None
        /\ req[r].status \in {"ABSENT", "REQUESTED"} => req[r].expiresAt = None

\* ... and until then nothing anywhere has begun to act on it.
UnstartedIsUntouched ==
    \A r \in Request : req[r].startedAt = None =>
        /\ book[r].placed = 0 /\ ~OnWire(r)
        /\ \A e \in Executor : cur[e] # r /\ r \notin sent[e]

\* A claim is made within the life of the confirmation.
ClaimedInTime ==
    \A r \in Request : req[r].startedAt # None =>
        req[r].expiresAt # None /\ req[r].startedAt < req[r].expiresAt

\* A process is idle exactly when it has no request in hand.
IdleHasNothing == \A e \in Executor : cur[e] = None <=> step[e] = "idle"

\* What a process is working on it claimed itself, and nobody else did.
WorkerIsHolder ==
    \A e \in Executor : cur[e] # None => req[cur[e]].holder = e

\* Before the send nothing has been sent by anyone, not even by this process:
\* SendGuard.begin never raises.
NothingSentBefore ==
    \A e \in Executor :
        /\ step[e] \in {"claimed", "passed", "stamped"} =>
             book[cur[e]].placed = 0 /\ ~OnWire(cur[e])
        /\ step[e] \in {"claimed", "passed"} => cur[e] \notin sent[e]
        /\ step[e] \in {"stamped", "sending"} => req[cur[e]].token

\* An order under way was sent by the holder and is the only one.
WireIsHolders ==
    \A e \in Executor, r \in Request : <<e, r>> \in wire =>
        req[r].holder = e /\ book[r].placed = 0

\* "Rejected" is the answer only if nothing came of the order.
RejectedIsNothing ==
    \A e \in Executor : answer[e] = "rejected" =>
        step[e] = "sending" /\ book[cur[e]].placed = 0 /\ ~OnWire(cur[e])

Links ==
    /\ UnclaimedIsUnstarted
    /\ DeadlineIsConfirmations
    /\ UnstartedIsUntouched
    /\ ClaimedInTime
    /\ IdleHasNothing
    /\ WorkerIsHolder
    /\ NothingSentBefore
    /\ WireIsHolders
    /\ RejectedIsNothing
    /\ TokenBeforeOrder
    /\ AtMostOneOrder

IInv == TypeOK /\ Links /\ FailureMeansNoOrder

-----------------------------------------------------------------------------
(* What makes a recorded outcome true: everything a process has seen of an   *)
(* order still holds when it writes, for the broker's records only grow.     *)

\* A fill follows an acceptance.
BookIsSane ==
    \A r \in Request :
        /\ book[r].resting => book[r].placed > 0
        /\ book[r].open => book[r].filled > 0
        /\ book[r].filled > 0 => book[r].placed > 0

\* An acceptance is the answer only while the send lasts, of an order that exists;
\* what it says of the fill has happened.
AcceptedIsPlaced ==
    \A e \in Executor : answer[e] \in Acceptance =>
        /\ step[e] = "sending" /\ book[cur[e]].placed > 0
        /\ answer[e] = "whole" => book[cur[e]].filled = Volume
        /\ answer[e] = "part" => book[cur[e]].filled > 0

\* The entries an executor still has to reconcile or is reconciling.
Entries(e) == sweep[e] \cup {x \in Entry : probe[e] # None /\ x = probe[e].entry}

\* What a sweep listed, or saw of a position, has happened.
SweepIsPast ==
    \A e \in Executor :
        /\ \A x \in Entries(e) : x.dealt <= book[x.id].filled
        /\ probe[e] # None => probe[e].position <= book[probe[e].entry.id].filled

TruthInv == BookIsSane /\ AcceptedIsPlaced /\ SweepIsPast /\ OutcomeIsTrue

\* With a broker that answers within a grace of at least one tick, "overdue"
\* means that nothing is on its way any more.
WayIsShort ==
    \A r \in Request : OnItsWay(r) =>
        req[r].startedAt # None /\ clock < req[r].startedAt + Grace

\* A request once taken, with nothing on its way: no order of it will come.
NothingComes(r) == req[r].startedAt # None /\ ~OnItsWay(r)

OverdueIsOver ==
    \A e \in Executor : \A x \in Entries(e) : x.status = "EXECUTING" /\ x.overdue =>
        /\ NothingComes(x.id)
        /\ x.dealt = 0 /\ req[x.id].kind = "market" => book[x.id].filled = 0

NotFoundIsOver ==
    \A r \in Request :
        req[r].failure = NotFound /\ req[r].kind = "market" =>
            NothingComes(r) /\ book[r].filled = 0

\* An executing request is one an executor took.
ExecutingIsStarted ==
    \A r \in Request : req[r].status = "EXECUTING" => req[r].startedAt # None

DeliveryInv == ExecutingIsStarted /\ WayIsShort /\ OverdueIsOver /\ NotFoundIsOver
=============================================================================
