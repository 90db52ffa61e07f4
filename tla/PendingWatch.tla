---------------------------- MODULE PendingWatch ----------------------------
(***************************************************************************)
(* The monitor process next to the executors: what                         *)
(* aureon/positions/position_monitor.poll_once does about pending orders,  *)
(* deciding each with aureon/positions/pending_order_monitor.  One poll    *)
(* reads the broker's resting orders, then its deals, and only then lists  *)
(* the PENDING requests it decides on; the executors, the broker and the   *)
(* confirmation view act between any two of these.                         *)
(***************************************************************************)
EXTENDS Execution, FiniteSets

CONSTANTS
    Overlap,        \* deal_overlap_seconds
    ColdStart,      \* COLD_START_HOURS
    Skew            \* CLOCK_SKEW_ALLOWANCE_SECONDS

ASSUME WatchAssumption == {Overlap, ColdStart, Skew} \subseteq Nat

VARIABLES
    watch,    \* the monitor: the poll under way, and _last_sync
    dealtAt   \* the broker's: when each unit of a pending order was filled

Phase == {"idle", "begun", "orders", "deals", "listed"}
NoDeals == [r \in Request |-> {}]
NoTimes == [r \in Request |-> [v \in 1..Volume |-> 0]]

\* Between two polls only `sync' (_last_sync) is kept; a new process has none.
Idle(sync) == [phase |-> "idle", sync |-> sync, moment |-> 0, resting |-> {},
               dealt |-> NoDeals, todo |-> {}, known |-> {}]

\* `known' is a history field the monitor does not have: the requests that
\* were PENDING when it read the resting orders.
WatchTypeOK ==
    /\ watch \in [phase : Phase, sync : Instant, moment : Nat,
                  resting : SUBSET Request,
                  dealt : [Request -> SUBSET (1..Volume)],
                  todo : SUBSET Request,
                  known : SUBSET Request]
    /\ dealtAt \in [Request -> [1..Volume -> Nat]]

WatchVars == <<vars, watch, dealtAt>>

WatchInit == Init /\ watch = Idle(None) /\ dealtAt = NoTimes

PendingRows == {r \in Request : req[r].status = "PENDING"}

\* The poll takes its `now' first.
BeginPoll ==
    /\ watch.phase = "idle"
    /\ watch' = [watch EXCEPT !.phase = "begun", !.moment = clock]
    /\ UNCHANGED <<vars, dealtAt>>

\* The broker's resting orders; the terminal's answer on an error is "none".
ReadOrders ==
    /\ watch.phase = "begun"
    /\ \E seen \in SUBSET {r \in Request : Listed(r)} :
         /\ ReadsMayMiss \/ seen = {r \in Request : Listed(r)}
         /\ watch' = [watch EXCEPT !.phase = "orders", !.resting = seen,
                                   !.known = PendingRows]
    /\ UNCHANGED <<vars, dealtAt>>

\* The window _recent_deals asks for: from a little before the last poll that came
\* to its end, or from a fixed time ago, to a little after this poll's `now'.
Covers(t) ==
    /\ t <= watch.moment + Skew
    /\ IF watch.sync = None THEN watch.moment <= t + ColdStart
                            ELSE watch.sync <= t + Overlap

\* The units of an order that have been filled, and are dealt in this window.
InWindow(r) == {v \in 1..book[r].filled : Covers(dealtAt[r][v])}

\* The deals of the window; a failed read is an empty list.
ReadDeals ==
    /\ watch.phase = "orders"
    /\ \E seen \in {[r \in Request |-> InWindow(r)]}
                     \cup (IF ReadsMayMiss THEN {NoDeals} ELSE {}) :
         watch' = [watch EXCEPT !.phase = "deals", !.dealt = seen]
    /\ UNCHANGED <<vars, dealtAt>>

ListPending ==
    /\ watch.phase = "deals"
    /\ watch' = [watch EXCEPT !.phase = "listed", !.todo = PendingRows]
    /\ UNCHANGED <<vars, dealtAt>>

\* Mutants of Decision: expiry is looked at before the deals; an order without
\* deals is taken to be resting still.
DecisionExpiryFirst(r) ==
    IF r \in watch.resting THEN "PENDING"
    ELSE IF ConfirmationExpired(req[r], watch.moment) THEN "EXPIRED"
    ELSE IF watch.dealt[r] # {} THEN Filled(Cardinality(watch.dealt[r]))
    ELSE "CANCELLED"
DecisionWaits(r) ==
    IF r \in watch.resting \/ watch.dealt[r] = {} THEN "PENDING"
    ELSE Filled(Cardinality(watch.dealt[r]))

\* PendingOrderMonitor.check: a fill first, then the request's expires_at,
\* then CANCELLED.  "PENDING" means still resting: nothing to decide.
Decision(r) ==
    IF r \in watch.resting THEN "PENDING"
    ELSE IF watch.dealt[r] # {} THEN Filled(Cardinality(watch.dealt[r]))
    ELSE IF ConfirmationExpired(req[r], watch.moment) THEN "EXPIRED"
    ELSE "CANCELLED"

\* _persist: the row is resolved under the reconciliation flag; a write the
\* store refuses, or fails to make, raises and ends the poll.
Settle(r) ==
    /\ watch.phase = "listed" /\ r \in watch.todo
    /\ LET s == Decision(r) IN
         \/ /\ s = "PENDING"
            /\ UNCHANGED req
            /\ watch' = [watch EXCEPT !.todo = @ \ {r}]
         \/ /\ s # "PENDING" /\ Accepts(req[r], s)
            /\ req' = [req EXCEPT ![r] = Resolved(@, s)]
            /\ watch' = [watch EXCEPT !.todo = @ \ {r}]
         \/ /\ s # "PENDING"
            /\ StoreMayFail \/ ~Accepts(req[r], s)
            /\ UNCHANGED req
            /\ watch' = Idle(watch.sync)
    /\ UNCHANGED <<clock, discord, mode, worker, booting, broker, crashes, dealtAt>>

\* The poll comes to its end, or something after the pending orders raises and
\* _last_sync stays as it was.
EndWatch ==
    /\ watch.phase = "listed" /\ watch.todo = {}
    /\ \/ watch' = Idle(watch.moment)
       \/ StoreMayFail /\ watch' = Idle(watch.sync)
    /\ UNCHANGED <<vars, dealtAt>>

\* The monitor dies and is started again.
WatchCrash ==
    /\ crashes < MaxCrashes
    /\ crashes' = crashes + 1
    /\ watch' = Idle(None)
    /\ UNCHANGED <<clock, req, discord, mode, worker, booting, broker, dealtAt>>

WatchStep == BeginPoll \/ ReadOrders \/ ReadDeals \/ ListPending \/ EndWatch
             \/ \E r \in Request : Settle(r)

\* The broker stamps a deal with the time it is made at.
DealTimes ==
    dealtAt' = [r \in Request |-> [v \in 1..Volume |->
                  IF req[r].kind = "pending" /\ book[r].filled < v /\ v <= book'[r].filled
                    THEN clock ELSE dealtAt[r][v]]]

WatchNext == (Next /\ DealTimes /\ UNCHANGED watch) \/ WatchStep \/ WatchCrash

WatchSpec == WatchInit /\ [][WatchNext]_WatchVars

Writes(r) == Settle(r) /\ req'[r] # req[r]

\* The monitor's loop polls for ever, catching whatever a poll raises; a write
\* tried again and again is made in the end, for an outage of the store ends.
FairWatchSpec ==
    /\ WatchSpec /\ WF_WatchVars(WatchStep)
    /\ \A r \in Request : SF_WatchVars(Writes(r))

-----------------------------------------------------------------------------
Settled(r, s) == req[r].status = "PENDING" /\ req'[r].status = s

\* A request that was PENDING when the poll began is recorded cancelled or expired
\* only if its order has left the book and no part of it was filled in the window:
\* the resting orders are read before the deals, so a fill cannot fall between the
\* reads.  What the monitor may miss is a part filled earlier than that, of an
\* order that went on resting (or a deal stamped beyond the skew allowed for).
ListedOrderIsReallyGone ==
    [][\A r \in Request :
          Settle(r) /\ r \in watch.known /\ (Settled(r, "CANCELLED") \/ Settled(r, "EXPIRED"))
             => InWindow(r) = {} /\ ~book[r].resting]_WatchVars

\* A PENDING request whose order is no longer resting does not stay PENDING.
GoneOrderIsSettled ==
    \A r \in Request : req[r].status = "PENDING" /\ ~book[r].resting
                          ~> req[r].status # "PENDING"
-----------------------------------------------------------------------------
(* The inductive invariant behind them.                                      *)

\* Deals the monitor has seen have happened.
DealsArePast == \A r \in Request : watch.dealt[r] \subseteq 1..book[r].filled

\* A request known to be PENDING and not seen resting has left the book, and
\* the deals read after that are all that its window will ever hold.
KnownIsGone ==
    \A r \in watch.known \ watch.resting :
        /\ book[r].placed > 0 /\ ~book[r].resting
        /\ watch.phase \in {"deals", "listed"} => watch.dealt[r] = InWindow(r)

WatchInv == WatchTypeOK /\ IInv /\ TruthInv /\ DealsArePast
=============================================================================
