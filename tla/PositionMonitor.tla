-------------------------- MODULE PositionMonitor --------------------------
(***************************************************************************)
(* How the monitor keeps `trades' in step with the broker's positions      *)
(* (aureon/positions/position_monitor.py, deal_reconciler.py and           *)
(* aureon/storage/postgres/repositories/trades.py).  One poll reads the    *)
(* open positions, the resting orders and the deals of a window around its *)
(* last sync, and only then writes: it records positions that PENDING      *)
(* requests became, imports open positions it does not know, closes trades *)
(* whose position is gone and records partial closes.  The broker moves    *)
(* between any two of these; nobody else writes `trades'.                  *)
(*                                                                         *)
(* Deals are kept as what they add up to: entered[p][t] is the volume that *)
(* had entered position p by time t, left[p][t] the volume that had left.  *)
(***************************************************************************)
EXTENDS Integers

CONSTANTS
    Position,       \* broker position ids
    Pending,        \* the positions that come of a resting order of Aureon's
    Size,           \* the volume an order is for
    None,           \* no last sync
    Overlap,        \* deal_overlap_seconds
    ColdStart,      \* COLD_START_HOURS
    Skew,           \* CLOCK_SKEW_ALLOWANCE_SECONDS
    MaxTime,        \* bound on the clock
    MaxFaults       \* bound on restarts, failed deal reads and failed writes

ASSUME MonitorAssumption ==
    /\ Pending \subseteq Position
    /\ Size \in Nat \ {0}
    /\ {Overlap, ColdStart, Skew, MaxTime, MaxFaults} \subseteq Nat
    /\ None \notin Int

VARIABLES
    clock,
    entered, left,  \* position -> its deals, added up by time
    orders,         \* positions whose order still rests at the broker
    requests,       \* positions whose request is PENDING
    trades,         \* position -> its row in trades
    poll,           \* the poll under way
    lastSync,       \* the moment of the last poll that ended
    faults

broker  == <<clock, entered, left, orders>>
vars == <<broker, requests, trades, poll, lastSync, faults>>

Instant == 0..MaxTime
Volume == 0..Size
Row == {r \in [status : {"ABSENT", "OPEN", "PARTIALLY_CLOSED", "CLOSED"},
                volume : Volume, closed : Volume] : r.closed <= r.volume}
NoTrade == [status |-> "ABSENT", volume |-> 0, closed |-> 0]
Opened(v) == [status |-> "OPEN", volume |-> v, closed |-> 0]

Phase == {"idle", "orders", "deals", "pending", "import", "close", "partial"}
Nothing == [p \in Position |-> 0]

\* What the broker's position list shows of p.
Live(p) == entered[p][clock] - left[p][clock]

\* `opened' and `gone' are the volumes of the deals in the window; `missed' is a
\* history field the monitor does not have: a read of the deals has failed.
Poll == [phase : Phase, moment : Instant, live : [Position -> Volume],
         resting : SUBSET Position, opened : [Position -> Volume],
         gone : [Position -> Volume], todo : SUBSET Position, missed : BOOLEAN]
Idle(missed) ==
    [phase |-> "idle", moment |-> 0, live |-> Nothing, resting |-> {},
     opened |-> Nothing, gone |-> Nothing, todo |-> {}, missed |-> missed]

\* The types; a row has never more closed than its volume.
TypeOK ==
    /\ clock \in Instant
    /\ entered \in [Position -> [Instant -> Volume]]
    /\ left \in [Position -> [Instant -> Volume]]
    /\ orders \in SUBSET Pending
    /\ requests \in SUBSET Pending
    /\ trades \in [Position -> Row]
    /\ poll \in Poll
    /\ lastSync \in Instant \cup {None}
    /\ faults \in 0..MaxFaults

Init ==
    /\ clock = 0
    /\ entered = [p \in Position |-> [t \in Instant |-> 0]]
    /\ left = [p \in Position |-> [t \in Instant |-> 0]]
    /\ orders = Pending
    /\ requests = Pending
    /\ trades = [p \in Position |-> NoTrade]
    /\ poll = Idle(FALSE)
    /\ lastSync = None
    /\ faults = 0

-----------------------------------------------------------------------------
(* The broker: not Aureon's code.  A position opens with its first entry,    *)
(* grows while its order rests, shrinks with every exit and, once gone,      *)
(* never comes back under its id.                                            *)

\* A deal of volume v, as of now.
Deal(h, v) == [t \in Instant |-> IF t >= clock THEN h[t] + v ELSE h[t]]

Enters(p) ==
    /\ p \in Pending => p \in orders
    /\ entered[p][clock] = 0 \/ (p \in orders /\ Live(p) > 0)
    /\ \E v \in 1..(Size - entered[p][clock]) :
         /\ entered' = [entered EXCEPT ![p] = Deal(@, v)]
         /\ orders' = IF entered[p][clock] + v = Size THEN orders \ {p} ELSE orders
    /\ UNCHANGED <<clock, left, requests, trades, poll, lastSync, faults>>

OrderLeaves(p) ==
    /\ p \in orders
    /\ orders' = orders \ {p}
    /\ UNCHANGED <<clock, entered, left, requests, trades, poll, lastSync, faults>>

Leaves(p) ==
    /\ \E v \in 1..Live(p) : left' = [left EXCEPT ![p] = Deal(@, v)]
    /\ UNCHANGED <<clock, entered, orders, requests, trades, poll, lastSync, faults>>

Tick ==
    /\ clock < MaxTime
    /\ clock' = clock + 1
    /\ UNCHANGED <<entered, left, orders, requests, trades, poll, lastSync, faults>>

-----------------------------------------------------------------------------
(* The reads of poll_once.                                                   *)

ReadPositions ==
    /\ poll.phase = "idle"
    /\ poll' = [poll EXCEPT !.phase = "orders", !.moment = clock,
                            !.live = [p \in Position |-> Live(p)]]
    /\ UNCHANGED <<broker, requests, trades, lastSync, faults>>

ReadOrders ==
    /\ poll.phase = "orders"
    /\ poll' = [poll EXCEPT !.phase = "deals", !.resting = orders]
    /\ UNCHANGED <<broker, requests, trades, lastSync, faults>>

\* Mutant of WindowStart: the overlap is forgotten, and the sync point with it.
StartAfterSync == IF lastSync = None THEN poll.moment - ColdStart ELSE lastSync + 1

\* _recent_deals: from a little before the last sync, or far back without one,
\* to a little after this poll's moment.
WindowStart == IF lastSync = None THEN poll.moment - ColdStart ELSE lastSync - Overlap
WindowEnd == poll.moment + Skew

By(h, t) == IF t < 0 THEN 0 ELSE IF t < clock THEN h[t] ELSE h[clock]
InWindow(h) == By(h, WindowEnd) - By(h, WindowStart - 1)

\* The deals, summed by position (summarise_position); then the PENDING
\* requests are listed.  A read that fails is an empty list.
ReadDeals ==
    /\ poll.phase = "deals"
    /\ \/ /\ poll' = [poll EXCEPT !.phase = "pending", !.todo = requests,
                        !.opened = [p \in Position |-> InWindow(entered[p])],
                        !.gone = [p \in Position |-> InWindow(left[p])]]
          /\ UNCHANGED faults
       \/ /\ faults < MaxFaults
          /\ faults' = faults + 1
          /\ poll' = [poll EXCEPT !.phase = "pending", !.todo = requests, !.missed = TRUE]
    /\ UNCHANGED <<broker, requests, trades, lastSync>>

-----------------------------------------------------------------------------
(* Its writes, one transaction each.                                         *)

Finished(p) == poll' = [poll EXCEPT !.todo = @ \ {p}]

\* _resolve_pending: a request whose order no longer rests is settled, and the
\* position its deals show is recorded.
ResolvePending(p) ==
    /\ poll.phase = "pending" /\ p \in poll.todo
    /\ IF p \in poll.resting
         THEN UNCHANGED <<requests, trades>>
         ELSE /\ requests' = requests \ {p}
              /\ trades' = IF poll.opened[p] > 0 /\ trades[p].status = "ABSENT"
                             THEN [trades EXCEPT ![p] = Opened(poll.opened[p])]
                             ELSE trades
    /\ Finished(p)
    /\ UNCHANGED <<broker, lastSync, faults>>

\* _import_open: a position in the list that has no row gets one.
Import(p) ==
    /\ poll.phase = "import" /\ p \in poll.todo
    /\ trades' = IF trades[p].status = "ABSENT"
                   THEN [trades EXCEPT ![p] = Opened(poll.live[p])]
                   ELSE trades
    /\ Finished(p)
    /\ UNCHANGED <<broker, requests, lastSync, faults>>

\* Mutant of Recorded: overlapping windows are added up.
RecordedTwice(p) ==
    IF trades[p].closed + poll.gone[p] <= trades[p].volume
      THEN trades[p].closed + poll.gone[p] ELSE trades[p].volume

\* The closed volume the window shows, never more than the row's volume.
Recorded(p) == IF poll.gone[p] <= trades[p].volume THEN poll.gone[p] ELSE trades[p].volume

\* Mutant of Progress: what is already recorded is overwritten.
ProgressAnyway(p, s) ==
    trades' = IF poll.gone[p] > 0
                THEN [trades EXCEPT ![p].status = s, ![p].closed = Recorded(p)]
                ELSE trades

\* _record_partial and the body of _apply_partial_closes: new progress only.
Progress(p, s) ==
    trades' = IF Recorded(p) > trades[p].closed
                THEN [trades EXCEPT ![p].status = s, ![p].closed = Recorded(p)]
                ELSE trades

\* Mutant of CloseVanished: any exit deal is taken for the whole.
CloseAtOnce(p) ==
    /\ poll.phase = "close" /\ p \in poll.todo
    /\ trades' = IF poll.gone[p] > 0
                   THEN [trades EXCEPT ![p].status = "CLOSED", ![p].closed = Recorded(p)]
                   ELSE trades
    /\ Finished(p)
    /\ UNCHANGED <<broker, requests, lastSync, faults>>

\* _close_vanished: a trade whose position is not in the list is closed once the
\* deals in the window account for its volume; until then they are progress, and
\* a position with no exit deal yet waits.
CloseVanished(p) ==
    /\ poll.phase = "close" /\ p \in poll.todo
    /\ IF poll.live[p] > 0 \/ poll.gone[p] = 0 THEN UNCHANGED trades
       ELSE IF poll.gone[p] < trades[p].volume THEN Progress(p, "PARTIALLY_CLOSED")
       ELSE trades' = [trades EXCEPT ![p].status = "CLOSED", ![p].closed = Recorded(p)]
    /\ Finished(p)
    /\ UNCHANGED <<broker, requests, lastSync, faults>>

\* _apply_partial_closes: a position still in the list, with exits in the window.
PartialClose(p) ==
    /\ poll.phase = "partial" /\ p \in poll.todo
    /\ IF poll.live[p] > 0 THEN Progress(p, "PARTIALLY_CLOSED") ELSE UNCHANGED trades
    /\ Finished(p)
    /\ UNCHANGED <<broker, requests, lastSync, faults>>

OpenTrades == {p \in Position : trades[p].status \in {"OPEN", "PARTIALLY_CLOSED"}}

\* The next loop of the poll starts with a listing of its own.
NextLoop(from, to, list) ==
    /\ poll.phase = from /\ poll.todo = {}
    /\ poll' = [poll EXCEPT !.phase = to, !.todo = list]
    /\ UNCHANGED <<broker, requests, trades, lastSync, faults>>

Loops ==
    \/ NextLoop("pending", "import", {p \in Position : poll.live[p] > 0})
    \/ NextLoop("import", "close", OpenTrades)
    \/ NextLoop("close", "partial", OpenTrades)

EndPoll ==
    /\ poll.phase = "partial" /\ poll.todo = {}
    /\ poll' = Idle(poll.missed)
    /\ lastSync' = poll.moment
    /\ UNCHANGED <<broker, requests, trades, faults>>

\* A write or a read raises: the loop logs it and polls again, from the same sync.
PollFails ==
    /\ poll.phase # "idle" /\ faults < MaxFaults
    /\ poll' = Idle(poll.missed)
    /\ faults' = faults + 1
    /\ UNCHANGED <<broker, requests, trades, lastSync>>

\* The process dies and is started again: the last sync is gone with it.
Restart ==
    /\ faults < MaxFaults
    /\ poll' = Idle(poll.missed)
    /\ lastSync' = None
    /\ faults' = faults + 1
    /\ UNCHANGED <<broker, requests, trades>>

-----------------------------------------------------------------------------
Broker(p) == Enters(p) \/ OrderLeaves(p) \/ Leaves(p)

Write(p) == ResolvePending(p) \/ Import(p) \/ CloseVanished(p) \/ PartialClose(p)

Monitor ==
    \/ ReadPositions \/ ReadOrders \/ ReadDeals
    \/ \E p \in Position : Write(p)
    \/ Loops \/ EndPoll

Next ==
    \/ \E p \in Position : Broker(p)
    \/ Tick
    \/ Monitor \/ PollFails \/ Restart

Spec == Init /\ [][Next]_vars

\* The monitor's loop polls for ever and waits for nobody inside a poll.
FairSpec == Spec /\ WF_vars(Monitor) /\ WF_vars(Tick)

-----------------------------------------------------------------------------
(* What must hold.                                                           *)

\* A trade is recorded CLOSED only when its position has left the broker, though
\* positions and deals are read at different moments: CLOSED is final, and
\* nobody would watch a position behind it.
ClosedIsGone ==
    \A p \in Position : trades[p].status = "CLOSED" =>
        entered[p][clock] > 0 /\ Live(p) = 0

\* However windows overlap, polls fail and the monitor restarts, no exit is
\* counted twice: the recorded closed volume is never more than what left.
NoExitCountedTwice ==
    \A p \in Position : trades[p].closed <= left[p][clock]

\* Recorded progress is never taken back and a CLOSED trade never changes,
\* whatever part of the deals a later window shows.
ProgressIsKept ==
    [][\A p \in Position :
         /\ trades'[p].closed >= trades[p].closed
         /\ trades[p].status = "CLOSED" => trades'[p] = trades[p]
         /\ trades[p].status = "PARTIALLY_CLOSED" => trades'[p].status # "OPEN"]_vars

\* All of p left in one deal.
LeftAtOnce(p) ==
    /\ trades[p].status # "ABSENT"
    /\ entered[p][clock] > 0 /\ Live(p) = 0
    /\ \A t \in 0..clock : left[p][t] \in {0, left[p][clock]}

\* A recorded trade whose position left in one deal is closed in the end,
\* through failed polls and restarts, unless a read of the deals failed.
OneExitCloses ==
    \A p \in Position : LeftAtOnce(p) ~> trades[p].status = "CLOSED" \/ poll.missed

-----------------------------------------------------------------------------
(* What the documentation says and the code does not do.                     *)

\* "The deal usually appears within a poll or two": a recorded trade whose
\* position is gone is closed in the end.
GoneTradeCloses ==
    \A p \in Position :
        trades[p].status # "ABSENT" /\ entered[p][clock] > 0 /\ Live(p) = 0
            ~> trades[p].status = "CLOSED"
=============================================================================
