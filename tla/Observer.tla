------------------------------ MODULE Observer ------------------------------
(***************************************************************************)
(* The observer process (src/main_observer.py) on one stream of candles:   *)
(* the poll that hands each closed candle to the engine and its callbacks  *)
(* (aureon/engine/market_engine.py), the durable cursor                    *)
(* (aureon/services/observer_state.py), the local outbox with its worker   *)
(* thread (aureon/outbox), the outcome tracker, and start-up, market       *)
(* close, shutdown and crashes around them.                                *)
(*                                                                         *)
(* A candle is its number.  What the agents detect on a candle is a        *)
(* function of the candles up to it, which a restart replays, so the       *)
(* detections of a candle are fixed: `At' says which candle each is of.    *)
(* Detections are numbered in the order in which they are queued.          *)
(***************************************************************************)
EXTENDS Outcomes, FiniteSets, FiniteSetsExt

CONSTANTS
    None,
    LastCandle,
    Detection,      \* numbers
    At,             \* Detection -> its candle
    Opposite,       \* pairs <<earlier, later>>: the later ends the earlier's horizon
    Batch,          \* DEFAULT_BATCH
    Reach,          \* COLD_START_BARS and DEFAULT_LOOKBACK_BARS, which are equal
    MaxRestarts,    \* bound on crashes and stops
    MaxOutages,     \* bound on outages of the shared store
    MaxFaults       \* bound on local reads and writes that fail

Candle == 1..LastCandle

ASSUME ObserverAssumption ==
    /\ LastCandle \in Nat /\ Detection \subseteq Nat /\ IsFiniteSet(Detection)
    /\ At \in [Detection -> Candle]
    /\ Opposite \subseteq Detection \X Detection
    /\ Batch \in Nat \ {0} /\ Reach \in Nat \ {0}
    /\ {MaxRestarts, MaxOutages, MaxFaults} \subseteq Nat
    /\ None \notin {"worker", "flush", "ensure"}

VARIABLES
    closed, bars,   \* the newest candle time, and the candles that exist
    storeUp, outages,
    proc,           \* the life of the process
    cursor,         \* MarketEngine._cursor, in memory
    known, saved,   \* ObserverState: in memory and in its file; 0 is no cursor
    todo, cur, step,    \* the candles of this poll, the one in hand and its place
    queue,          \* detection -> its row in the local outbox
    pass,           \* the batch under the delivery lock
    sink,           \* the detections in the shared store
    ready,          \* what ensure_delivered answered
    tracker,        \* detection -> what is tracked of it, in memory
    rows,           \* detection -> its row in detection_evaluations
    restarts, faults,
    refused,        \* history: a delivery failed since the process was told to stop
    window,         \* history: detections that were in hand when the process died, or
                    \* an exception ended the poll, past the cursor and not yet queued
    unreached,      \* history: detections not queued, of candles that a start without a
                    \* cursor did not reach back to
    exposed         \* history: detections whose rows held an answer when a process started
                    \* without a cursor, and were not written since

market == <<closed, bars>>
store == <<storeUp, outages>>
place == <<todo, cur, step>>
cursors == <<cursor, known, saved>>
outcomes == <<tracker, rows>>
history == <<refused, window, unreached, exposed>>
vars == <<market, store, proc, cursors, place, queue, pass, sink, ready, outcomes,
          restarts, faults, history>>

Proc == {"down", "starting", "backfill", "live", "parking", "stopping", "stopped"}
Step == {"next", "analysed", "advanced", "recorded", "queued", "ensured"}
Times == 0..LastCandle

\* `by' holds _delivery_lock; `written' says that the row in hand reached the store and
\* is not yet marked; `some' that this pass delivered something.
Pass == [by : {None, "worker", "flush", "ensure"}, ids : SUBSET Detection,
         written : BOOLEAN, some : BOOLEAN]
NoPass == [by |-> None, ids |-> {}, written |-> FALSE, some |-> FALSE]

Nothing == [d \in Detection |-> Untracked]

TypeOK ==
    /\ closed \in Times /\ bars \in SUBSET Candle
    /\ storeUp \in BOOLEAN /\ outages \in 0..MaxOutages
    /\ proc \in Proc
    /\ cursor \in Times /\ known \in Times /\ saved \in Times
    /\ todo \in SUBSET Candle /\ cur \in Times /\ step \in Step
    /\ queue \in [Detection -> {"none", "pending", "delivered"}]
    /\ pass \in Pass
    /\ sink \in SUBSET Detection
    /\ ready \in SUBSET Detection
    /\ tracker \in [Detection -> Evaluation(Candle)]
    /\ rows \in [Detection -> Evaluation(Candle)]
    /\ restarts \in 0..MaxRestarts /\ faults \in 0..MaxFaults
    /\ refused \in BOOLEAN /\ window \in SUBSET Detection
    /\ unreached \in SUBSET Detection /\ exposed \in SUBSET Detection

Init ==
    /\ closed = 0 /\ bars = {}
    /\ storeUp = TRUE /\ outages = 0
    /\ proc = "down"
    /\ cursor = 0 /\ known = 0 /\ saved = 0
    /\ todo = {} /\ cur = 0 /\ step = "next"
    /\ queue = [d \in Detection |-> "none"]
    /\ pass = NoPass
    /\ sink = {} /\ ready = {}
    /\ tracker = Nothing /\ rows = Nothing
    /\ restarts = 0 /\ faults = 0
    /\ refused = FALSE /\ window = {} /\ unreached = {} /\ exposed = {}

FoundOn(c) == {d \in Detection : At[d] = c}
Undelivered == {d \in Detection : queue[d] = "pending"}

-----------------------------------------------------------------------------
(* The market and the shared store: not the observer's code.                 *)

\* A candle time passes; nobody may have traded in it.
CandleCloses ==
    /\ closed < LastCandle
    /\ closed' = closed + 1
    /\ bars' \in {bars, bars \cup {closed + 1}}
    /\ UNCHANGED <<store, proc, cursors, place, queue, pass, sink, ready, outcomes,
                   restarts, faults, history>>

StoreFails ==
    /\ storeUp /\ outages < MaxOutages
    /\ storeUp' = FALSE /\ outages' = outages + 1
    /\ UNCHANGED <<market, proc, cursors, place, queue, pass, sink, ready, outcomes,
                   restarts, faults, history>>

StoreReturns ==
    /\ ~storeUp /\ storeUp' = TRUE
    /\ UNCHANGED <<market, outages, proc, cursors, place, queue, pass, sink, ready,
                   outcomes, restarts, faults, history>>

-----------------------------------------------------------------------------
(* The outbox worker: drain_once, flush and ensure_delivered, which share    *)
(* _deliver_row and the delivery lock.                                       *)

\* Mutant of WorkerRuns: the thread is only there while the market is closed.
WorkerRunsParked == proc = "parking"

\* The worker's thread, from the end of startup() until it sees the stop flag.
WorkerRuns == proc \in {"live", "parking"}

MayFlush == proc \in {"starting", "parking", "stopping"}

\* The first rows of the queue, in the order in which they were put there.
Oldest(n) == {d \in Undelivered : Cardinality({x \in Undelivered : x < d}) < n}

\* drain_once(): the thread's pass, or one of flush().
BeginPass(who) ==
    /\ pass.by = None
    /\ who = "worker" => WorkerRuns
    /\ who = "flush" => MayFlush
    /\ Undelivered # {}
    /\ pass' = [by |-> who, ids |-> Oldest(Batch), written |-> FALSE, some |-> FALSE]
    /\ UNCHANGED <<market, store, proc, cursors, place, queue, sink, ready, outcomes,
                   restarts, faults, history>>

\* ensure_delivered(), for the detections of the candle in hand.
BeginEnsure ==
    /\ step = "queued" /\ pass.by = None
    /\ pass' = [by |-> "ensure", ids |-> FoundOn(cur), written |-> FALSE, some |-> FALSE]
    /\ ready' = {}
    /\ UNCHANGED <<market, store, proc, cursors, place, queue, sink, outcomes,
                   restarts, faults, history>>

InHand == Min(pass.ids)

\* A row that was delivered already is not sent again.
EnsureFindsDelivered ==
    /\ pass.by = "ensure" /\ pass.ids # {} /\ ~pass.written
    /\ queue[InHand] = "delivered"
    /\ ready' = ready \cup {InHand}
    /\ pass' = [pass EXCEPT !.ids = @ \ {InHand}]
    /\ UNCHANGED <<market, store, proc, cursors, place, queue, sink, outcomes,
                   restarts, faults, history>>

Deliver ==
    /\ pass.ids # {} /\ ~pass.written /\ queue[InHand] = "pending" /\ storeUp
    /\ sink' = sink \cup {InHand}
    /\ pass' = [pass EXCEPT !.written = TRUE]
    /\ UNCHANGED <<market, store, proc, cursors, place, queue, ready, outcomes,
                   restarts, faults, history>>

\* Mutant of AfterFailure: a row that failed is taken for delivered.
AfterFailureForgets(d) == [queue EXCEPT ![d] = "delivered"]

\* record_failure(): the row stays undelivered.
AfterFailure(d) == queue

\* The write raised, perhaps after it landed; the batch ends there.
DeliverFails ==
    /\ pass.ids # {} /\ ~pass.written /\ queue[InHand] = "pending" /\ ~storeUp
    /\ sink' \in {sink, sink \cup {InHand}}
    /\ queue' = AfterFailure(InHand)
    /\ pass' = [pass EXCEPT !.ids = {}]
    /\ refused' = (proc = "stopping" \/ refused)
    /\ UNCHANGED <<market, store, proc, cursors, place, ready, outcomes, restarts,
                   faults, window, unreached, exposed>>

MarkDelivered ==
    /\ pass.written
    /\ queue' = [queue EXCEPT ![InHand] = "delivered"]
    /\ pass' = [pass EXCEPT !.ids = @ \ {InHand}, !.written = FALSE, !.some = TRUE]
    /\ ready' = IF pass.by = "ensure" THEN ready \cup {InHand} ELSE ready
    /\ UNCHANGED <<market, store, proc, cursors, place, sink, outcomes, restarts,
                   faults, history>>

\* Mutant of HonoursStop: the last flush honours the stop flag too, as it did until 11B.
HonoursStopFlush == {"worker", "flush"}

\* respect_stop: the last flush is told not to.
HonoursStop == {"worker"}

\* The stop flag is looked at before every row of a batch.
WorkerSeesStop ==
    /\ pass.by \in HonoursStop /\ ~pass.written /\ pass.ids # {} /\ proc = "stopping"
    /\ pass' = [pass EXCEPT !.ids = {}]
    /\ UNCHANGED <<market, store, proc, cursors, place, queue, sink, ready, outcomes,
                   restarts, faults, history>>

\* A pass of flush() that delivered something is followed by another.
EndPass ==
    /\ pass.ids = {}
    /\ pass.by = "worker" \/ (pass.by = "flush" /\ pass.some)
    /\ pass' = NoPass
    /\ UNCHANGED <<market, store, proc, cursors, place, queue, sink, ready, outcomes,
                   restarts, faults, history>>

\* flush() returns once a pass delivered nothing.
FlushReturns ==
    \/ pass.by = None /\ Undelivered = {}
    \/ pass.by = "flush" /\ pass.ids = {} /\ ~pass.some

EndEnsure ==
    /\ pass.by = "ensure" /\ pass.ids = {}
    /\ pass' = NoPass /\ step' = "ensured"
    /\ UNCHANGED <<market, store, proc, cursors, todo, cur, queue, sink, ready, outcomes,
                   restarts, faults, history>>

-----------------------------------------------------------------------------
(* Start-up and back-fill.                                                   *)

\* The detections whose rows hold an answer.
Answered == {d \in Detection : rows[d].bars # "pending" \/ rows[d].cross # "pending"}

\* A new process: the cursor is read, everything else in memory is empty.  A file that
\* cannot be read this time, or not any more, is taken for one without a cursor.
Boot ==
    /\ proc \in {"down", "stopped"}
    /\ proc' = "starting"
    /\ \/ known' = saved /\ UNCHANGED <<saved, faults>>
       \/ /\ faults < MaxFaults /\ faults' = faults + 1
          /\ known' = 0 /\ saved' \in {saved, 0}
    /\ exposed' = IF known' = 0 THEN exposed \cup Answered ELSE exposed
    /\ UNCHANGED <<market, store, cursor, place, queue, pass, sink, ready, outcomes,
                   restarts, refused, window, unreached>>

\* What is fetched without a cursor, by the back-fill or by a poll: a span of time.
Recent == {c \in bars : c + Reach > closed}

\* The detections that such a fetch passes over for good.
PassedOver == {d \in Detection : At[d] \in bars \ Recent /\ queue[d] = "none"}

\* Mutant of Unhandled: the warm-up candles are handed over too.
EveryCandle == bars

\* Mutant of Unhandled: the candle after the cursor is taken for one of the last run.
UnhandledButOne == {c \in bars : c > known + 1}

\* What the back-fill hands over: the candles up to the cursor only warm the engine up.
Unhandled == IF known = 0 THEN Recent ELSE {c \in bars : c > known}

\* The queue of the last run is flushed first.
StartBackfill ==
    /\ proc = "starting" /\ FlushReturns
    /\ proc' = "backfill" /\ pass' = NoPass
    /\ todo' = Unhandled
    /\ unreached' = IF known = 0 THEN unreached \cup PassedOver ELSE unreached
    /\ UNCHANGED <<market, store, cursors, cur, step, queue, sink, ready, outcomes,
                   restarts, faults, refused, window, exposed>>

\* The engine only: none of the callbacks of a closed candle runs in the back-fill.
BackfillCandle ==
    /\ proc = "backfill" /\ step = "next" /\ todo # {}
    /\ cur' = Min(todo) /\ step' = "recorded"
    /\ UNCHANGED <<market, store, proc, cursors, todo, queue, pass, sink, ready, outcomes,
                   restarts, faults, history>>

\* The cursor is saved once, and the live loop starts from it; without a candle nothing is
\* saved, and the loop starts without a cursor.
EndBackfill ==
    /\ proc = "backfill" /\ step = "next" /\ todo = {}
    /\ proc' = "live" /\ cursor' = known
    /\ saved' = IF known = 0 THEN saved ELSE known
    /\ UNCHANGED <<market, store, known, place, queue, pass, sink, ready, outcomes,
                   restarts, faults, history>>

-----------------------------------------------------------------------------
(* One live candle: the engine, on_candle_close, on_detections.              *)

\* What the loop fetches: the candles after its cursor, if it has one.
NewlyClosed == IF cursor = 0 THEN Recent ELSE {c \in bars : c > cursor}

Poll ==
    /\ proc = "live" /\ step = "next" /\ todo = {}
    /\ NewlyClosed # {} /\ todo' = NewlyClosed
    /\ unreached' = IF cursor = 0 THEN unreached \cup PassedOver ELSE unreached
    /\ UNCHANGED <<market, store, proc, cursors, cur, step, queue, pass, sink, ready,
                   outcomes, restarts, faults, refused, window, exposed>>

\* The loop's cursor moves before any callback has run.
Analyse ==
    /\ proc = "live" /\ step = "next" /\ todo # {}
    /\ cur' = Min(todo) /\ cursor' = Min(todo) /\ step' = "analysed"
    /\ UNCHANGED <<market, store, proc, known, saved, todo, queue, pass, sink, ready,
                   outcomes, restarts, faults, history>>

\* _persist_evaluations(): a write that fails, the missing parent's among them, is
\* logged and dropped.
Stored(es) == IF storeUp THEN es \cap sink ELSE {}

Persisted(es, t) ==
    /\ rows' = [e \in Detection |-> IF e \in Stored(es) THEN t[e] ELSE rows[e]]
    /\ exposed' = exposed \ Stored(es)

\* _advance_evaluations(), and release_closed() after it.
Advance ==
    LET moved == {e \in Detection : StillOpen(tracker[e]) /\ cur > At[e]}
        t == [e \in Detection |-> IF e \in moved THEN Measured(tracker[e], cur)
                                                 ELSE tracker[e]]
    IN  /\ step = "analysed"
        /\ Persisted(moved, t)
        /\ tracker' = [e \in Detection |-> IF StillOpen(t[e]) THEN t[e] ELSE Untracked]
        /\ step' = "advanced"
        /\ UNCHANGED <<market, store, proc, cursors, todo, cur, queue, pass, sink, ready,
                       restarts, faults, refused, window, unreached>>

\* set_and_save(), still in on_candle_close: before the detections are queued.
Save ==
    /\ step = "advanced"
    /\ known' = cur /\ saved' = cur /\ step' = "recorded"
    /\ UNCHANGED <<market, store, proc, cursor, todo, cur, queue, pass, sink, ready,
                   outcomes, restarts, faults, history>>

\* An exception leaves the poll; the next one goes on after the loop's cursor.
PollRaises ==
    /\ faults < MaxFaults /\ faults' = faults + 1
    /\ todo' = {} /\ cur' = 0 /\ step' = "next"
    /\ window' = window \cup FoundOn(cur)

SaveRaises ==
    /\ step = "advanced"
    /\ PollRaises
    /\ known' = cur
    /\ UNCHANGED <<market, store, proc, cursor, saved, queue, pass, sink, ready, outcomes,
                   restarts, refused, unreached, exposed>>

QueueRaises ==
    /\ proc = "live" /\ step = "recorded" /\ FoundOn(cur) # {}
    /\ PollRaises
    /\ UNCHANGED <<market, store, proc, cursors, queue, pass, sink, ready, outcomes,
                   restarts, refused, unreached, exposed>>

\* The candle is done with; the back-fill moves its cursor here, in memory.
CandleDone ==
    /\ todo' = todo \ {cur} /\ cur' = 0 /\ step' = "next"
    /\ known' = IF proc = "backfill" THEN cur ELSE known

QuietCandle ==
    /\ step = "recorded" /\ FoundOn(cur) = {}
    /\ CandleDone
    /\ UNCHANGED <<market, store, proc, cursor, saved, queue, pass, sink, ready, outcomes,
                   restarts, faults, history>>

\* enqueue_many(): one transaction; a row that is there already is left alone.
Queue ==
    /\ step = "recorded" /\ FoundOn(cur) # {}
    /\ queue' = [d \in Detection |->
                   IF d \in FoundOn(cur) /\ queue[d] = "none" THEN "pending" ELSE queue[d]]
    /\ step' = "queued"
    /\ UNCHANGED <<market, store, proc, cursors, todo, cur, pass, sink, ready, outcomes,
                   restarts, faults, history>>

\* _track_outcomes(): each detection first ends horizons of earlier ones, then is tracked;
\* its own row is only written if its parent is known to be stored.
Track ==
    LET found == FoundOn(cur)
        crossed == {e \in Detection : /\ CrossEnds(tracker[e])
                                      /\ \E d \in found : <<e, d>> \in Opposite}
        t == [e \in Detection |-> CASE e \in found           -> Started(tracker[e])
                                    [] e \in crossed \ found -> Crossed(tracker[e])
                                    [] OTHER                 -> tracker[e]]
    IN  /\ step = "ensured"
        /\ Persisted(crossed \cup (found \cap ready), t)
        /\ tracker' = t
        /\ ready' = {}
        /\ CandleDone
        /\ UNCHANGED <<market, store, proc, cursor, saved, queue, pass, sink, restarts,
                       faults, refused, window, unreached>>

-----------------------------------------------------------------------------
(* The market's close, shutdown, and death.                                  *)

Idle == proc = "live" /\ step = "next" /\ todo = {}

\* _on_market_close(): the queue is flushed and the cursor saved.
Park ==
    /\ Idle /\ proc' = "parking"
    /\ UNCHANGED <<market, store, cursors, place, queue, pass, sink, ready, outcomes,
                   restarts, faults, history>>

Parked ==
    /\ proc = "parking" /\ FlushReturns
    /\ proc' = "live" /\ pass' = NoPass /\ saved' = known
    /\ UNCHANGED <<market, store, cursor, known, place, queue, sink, ready, outcomes,
                   restarts, faults, history>>

\* stop() lets the poll end; then shutdown() stops the thread and flushes.
Stop ==
    /\ Idle /\ restarts < MaxRestarts
    /\ restarts' = restarts + 1
    /\ proc' = "stopping" /\ refused' = FALSE
    /\ UNCHANGED <<market, store, cursors, place, queue, pass, sink, ready, outcomes,
                   faults, window, unreached, exposed>>

Close ==
    /\ proc = "stopping" /\ FlushReturns
    /\ proc' = "stopped" /\ pass' = NoPass /\ saved' = known
    /\ known' = 0 /\ cursor' = 0 /\ tracker' = Nothing
    /\ UNCHANGED <<market, store, place, queue, sink, ready, rows, restarts, faults, history>>

\* The process dies; what it had in memory, the tracker among it, is gone.
Crash ==
    /\ proc \notin {"down", "stopped"} /\ restarts < MaxRestarts
    /\ restarts' = restarts + 1
    /\ proc' = "down" /\ pass' = NoPass
    /\ todo' = {} /\ cur' = 0 /\ step' = "next" /\ ready' = {}
    /\ known' = 0 /\ cursor' = 0 /\ tracker' = Nothing
    /\ window' = IF proc # "backfill" /\ step = "recorded"
                 THEN window \cup FoundOn(cur) ELSE window
    /\ UNCHANGED <<market, store, saved, queue, sink, rows, faults, refused, unreached,
                   exposed>>

-----------------------------------------------------------------------------

Drain == \/ \E who \in {"worker", "flush"} : BeginPass(who)
         \/ EnsureFindsDelivered \/ Deliver \/ DeliverFails \/ MarkDelivered
         \/ WorkerSeesStop \/ EndPass

Loop == \/ Boot \/ StartBackfill \/ BackfillCandle \/ EndBackfill
        \/ Poll \/ Analyse \/ Advance \/ Save \/ QuietCandle \/ Queue
        \/ BeginEnsure \/ EndEnsure \/ Track \/ Parked \/ Close

Next == \/ CandleCloses \/ StoreFails \/ StoreReturns
        \/ Drain \/ Loop
        \/ SaveRaises \/ QueueRaises \/ Park \/ Stop \/ Crash

Spec == Init /\ [][Next]_vars

\* Outages end, the loops run, and a process that went down is started again.
FairSpec == Spec /\ WF_vars(StoreReturns) /\ WF_vars(Drain) /\ WF_vars(Loop)

-----------------------------------------------------------------------------

\* The outbox is a queue that loses nothing ("never drops") and lets go of a row only after
\* the write returned ("marks only after success"), whatever crashed in between and
\* whichever thread wrote it (outbox_worker.py).
Outbox == INSTANCE AtLeastOnce WITH
    Item <- Detection,
    accepted <- {d \in Detection : queue[d] # "none"},
    held <- Undelivered,
    received <- sink
NeverDrops == Outbox!Spec

\* A detection behind the saved cursor is in the outbox, whatever was restarted and
\* replayed, unless it is, or was when the process died or the poll raised, between the
\* two writes of one live candle, or its candle was out of the reach of a start without a
\* cursor.
OnlyTheWindowLoses ==
    \A d \in Detection :
        At[d] \in bars /\ At[d] <= saved /\ queue[d] = "none" =>
            d \in window \cup unreached \/ (step = "recorded" /\ cur = At[d])

\* "A clean stop leaves nothing queued" (outbox_worker.py), what earlier outages left
\* included, if no delivery failed since the stop began.
CleanStopLeavesNothing ==
    proc = "stopped" /\ ~refused => Undelivered = {}

\* A queued detection is delivered in the end: the worker outlives outages, and a
\* restart flushes what a crash left.
QueuedIsDelivered ==
    \A d \in Detection : queue[d] = "pending" ~> queue[d] = "delivered"

\* An answer that was recorded is not taken back: a horizon once complete or invalid in
\* the store stays so, through restarts that replay its detection.  Only what was answered
\* when the observer started without a cursor may be measured anew, until its row is
\* written again.
OutcomeIsFrozen ==
    [][\A d \in Detection \ exposed :
        /\ rows[d].bars # "pending" => rows'[d].bars = rows[d].bars
        /\ rows[d].cross # "pending" => rows'[d].cross = rows[d].cross]_rows

\* The candles of a complete horizon have no gap wider than the tolerance between them.
CompleteIsContiguous ==
    \A d \in Detection : rows[d].bars = "complete" =>
        /\ Cardinality(rows[d].measured) = Horizon
        /\ \A c \in rows[d].measured : \/ c = Min(rows[d].measured)
                                       \/ \E b \in rows[d].measured :
                                             b < c /\ c <= b + 1 + Tolerance

-----------------------------------------------------------------------------
(* The inductive strengthening of the safety properties.                     *)

\* The candle in hand is the first of those still to do, which come after the cursor in
\* memory.
PollInv ==
    /\ bars \subseteq 1..closed /\ todo \subseteq bars
    /\ step = "next" => cur = 0
    /\ step # "next" => cur \in todo /\ \A c \in todo : cur <= c
    /\ proc \notin {"backfill", "live"} => todo = {}
    /\ proc = "backfill" => step \notin {"analysed", "advanced"}
    /\ \A c \in todo \ {cur} : c > known

\* The cursors only part while a live candle is between the engine and its save, in the
\* back-fill, after a save that raised, or after a start without a cursor.
CursorInv ==
    /\ saved \in bars \cup {0} /\ known \in bars \cup {0}
    /\ proc \in {"down", "stopped"} => known = 0
    /\ proc = "starting" => known \in {saved, 0}
    /\ proc \in {"live", "parking", "stopping"} =>
           cursor = IF step \in {"analysed", "advanced"} THEN cur ELSE known
    /\ step \in {"analysed", "advanced"} \/ (proc = "backfill" /\ step # "next") =>
           known < cur
    /\ proc = "live" /\ step \in {"recorded", "queued", "ensured"} =>
           cur = known /\ cur = saved

\* The saved cursor is not moved back, unless there is none in memory: what is fetched
\* without one begins after it or includes it.
SavedInv ==
    /\ proc = "backfill" => \/ saved <= known \/ saved \in todo
                            \/ known = 0 /\ \A c \in todo : saved < c
    /\ proc \in {"live", "parking", "stopping"} /\ known # 0 => saved <= known
    /\ proc \in {"backfill", "live", "parking", "stopping"} /\ known = 0 =>
           \A c \in bars : c <= saved => c + Reach <= closed \/ (proc = "backfill" /\ c \in todo)
    /\ proc = "live" /\ known = 0 => \A c \in todo : saved < c

\* OnlyTheWindowLoses for the cursor in memory and the candles that are passed over on the
\* way to those still to do, and the detections of the candle in hand once they were queued.
WindowInv ==
    \A d \in Detection : queue[d] = "none" =>
        /\ At[d] \in bars /\ At[d] <= known =>
               d \in window \cup unreached \/ (step = "recorded" /\ cur = At[d])
        /\ At[d] \in bars \ todo /\ At[d] > known /\ (\E c \in todo : At[d] <= c) =>
               d \in unreached
        /\ At[d] \in bars /\ At[d] <= saved /\ proc = "backfill" => d \in window \cup unreached
        /\ At[d] = cur => step \notin {"queued", "ensured"}

\* A row that is marked next is pending and in the store; a flush lasts no longer than the
\* phase that called it, and one that stops short of the queue's end saw a refusal.
PassInv ==
    /\ pass.by = None => pass = NoPass
    /\ pass.by = "flush" => MayFlush
    /\ pass.by = "ensure" => step = "queued"
    /\ pass.written => /\ pass.ids # {}
                       /\ queue[InHand] = "pending" /\ InHand \in sink
    /\ proc = "stopping" /\ pass.by = "flush" /\ pass.ids = {} /\ ~pass.some => refused

\* CompleteIsContiguous, of an evaluation at any stage.
MeasuredInOrder(e) ==
    /\ IsFiniteSet(e.measured) /\ Cardinality(e.measured) = e.seen
    /\ e.bars = "pending" => /\ e.seen < Horizon
                             /\ \A c \in e.measured : c <= e.last
                             /\ e.last # 0 => e.last \in e.measured
    /\ e.bars = "complete" => e.seen = Horizon
    /\ \A c \in e.measured : \/ \A b \in e.measured : c <= b
                             \/ \E b \in e.measured : b < c /\ c <= b + 1 + Tolerance

MeasureInv ==
    \A d \in Detection :
        /\ MeasuredInOrder(tracker[d]) /\ MeasuredInOrder(rows[d])
        /\ tracker[d].last <= IF step = "advanced" THEN cur ELSE known

\* A detection is not tracked again once its row holds an answer, and what is tracked of it
\* agrees with the row, unless the process started without a cursor and the row was not
\* written since.
AnswerInv ==
    /\ proc \in {"down", "starting", "stopped"} => tracker = Nothing
    /\ \A d \in Detection :
        /\ d \in Answered \ exposed =>
               /\ At[d] <= saved /\ At[d] # cur
               /\ proc \notin {"down", "stopped"} => At[d] <= known
        /\ tracker[d].tracked =>
               /\ At[d] <= known /\ At[d] # cur
               /\ proc # "backfill" => At[d] <= saved
               /\ d \notin exposed =>
                      /\ rows[d].bars # "pending" => tracker[d].bars = rows[d].bars
                      /\ rows[d].cross # "pending" => tracker[d].cross = rows[d].cross
        /\ ~tracker[d].tracked => tracker[d] = Untracked
        /\ proc = "backfill" => tracker[d].last = 0

IInv == /\ TypeOK /\ PollInv /\ CursorInv /\ SavedInv /\ PassInv
        /\ OnlyTheWindowLoses /\ WindowInv /\ CleanStopLeavesNothing
        /\ MeasureInv /\ AnswerInv
=============================================================================
