------------------------------- MODULE Setups -------------------------------
(***************************************************************************)
(* Setups: the structures the observer follows from candle to candle       *)
(* (aureon/services/setup_engine.py) and the rows that remember them       *)
(* (aureon/storage/postgres/repositories/setups.py).  Four families        *)
(* propose moves from what they have in memory, the row's transaction      *)
(* accepts or refuses them.  What a candle shows is free: a family may     *)
(* propose any move it has from a state.  One symbol, one timeframe, one   *)
(* direction for each family.                                              *)
(***************************************************************************)
EXTENDS Integers

CONSTANTS
    Anchor,         \* the structures there are: a family, and the bin its anchor falls into
    Day,            \* broker days
    LastCandle,     \* bound on the candles
    Calendar,       \* the day of each candle
    Expiry,         \* expiry_candles
    MaxFaults,      \* bound on deaths, failed writes and failed reads
    None

Families == {"liquidity_reversal", "breakout_acceptance", "trend_pullback", "momentum_transition"}

\* one_per_direction: the anchor is an average, and moves.
OneAtATime == {"trend_pullback", "momentum_transition"}

State == {"OBSERVING", "WATCH", "DEVELOPING", "CONFIRMED", "PULLBACK",
          "CONTINUATION", "FAKEOUT_RISK", "COMPLETED", "INVALIDATED"}

ASSUME SetupsAssumption ==
    /\ \A a \in Anchor : a = <<a[1], a[2]>> /\ a[1] \in Families
    /\ LastCandle \in Nat /\ Calendar \in [1..LastCandle -> Day]
    /\ Expiry \in Nat \ {0} /\ MaxFaults \in Nat
    /\ None \notin State /\ None \notin Day

Terminal == {"COMPLETED", "INVALIDATED"}

\* A setup's id: its family, its anchor's bin and its broker day.
Setup == {<<a[1], a[2], d>> : a \in Anchor, d \in Day}

VARIABLES
    candle,     \* the candle that has closed last; 0 is none
    rows,       \* Setup -> the state in its row, or None
    opened,     \* the setups opened at this candle's close (opened_at)
    touched,    \* the setups written at this candle's close (updated_at)
    tracked,    \* Setup -> the state the engine holds, or None
    idle,       \* Setup -> candles since it last advanced
    engine,     \* where the engine is: its step, the setups left to advance, the day it loaded
    refused,    \* the moves the transitions' table refused: family, from, to
    blind,      \* the days whose open setups could not be read
    faults

memory == <<tracked, idle>>
stamps == <<opened, touched>>
vars == <<candle, rows, stamps, memory, engine, refused, blind, faults>>

\* What happens to a candle, in this order.
Steps == <<"advance", "open", "observe">>
Booted == [step |-> "idle", todo |-> {}, day |-> None]

TypeOK ==
    /\ candle \in 0..LastCandle
    /\ rows \in [Setup -> State \cup {None}]
    /\ opened \subseteq Setup /\ touched \subseteq Setup
    /\ tracked \in [Setup -> State \cup {None}]
    /\ idle \in [Setup -> 0..Expiry]
    /\ engine \in [step : {"down", "idle", "advance", "open", "observe"}, todo : SUBSET Setup,
                   day : Day \cup {None}]
    /\ refused \subseteq Families \X State \X State
    /\ blind \subseteq Day
    /\ faults \in 0..MaxFaults

Nothing == [s \in Setup |-> None]

Init ==
    /\ candle = 0 /\ rows = Nothing /\ opened = {} /\ touched = {}
    /\ tracked = Nothing /\ idle = [s \in Setup |-> 0] /\ engine = Booted
    /\ refused = {} /\ blind = {} /\ faults = 0

Tracked == {s \in Setup : tracked[s] # None}
Open == {s \in Setup : rows[s] # None /\ rows[s] \notin Terminal}

-----------------------------------------------------------------------------
(* The table every move must pass, and the moves the families propose.       *)

Transitions ==
    ({"OBSERVING"} \X {"WATCH", "DEVELOPING", "INVALIDATED"}) \cup
    ({"WATCH"} \X {"DEVELOPING", "INVALIDATED"}) \cup
    ({"DEVELOPING"} \X {"CONFIRMED", "INVALIDATED"}) \cup
    ({"CONFIRMED"} \X {"PULLBACK", "CONTINUATION", "FAKEOUT_RISK", "COMPLETED", "INVALIDATED"}) \cup
    ({"PULLBACK"} \X {"CONTINUATION", "FAKEOUT_RISK", "COMPLETED", "INVALIDATED"}) \cup
    ({"CONTINUATION"} \X {"PULLBACK", "COMPLETED", "INVALIDATED"}) \cup
    ({"FAKEOUT_RISK"} \X {"CONFIRMED", "INVALIDATED"})

\* Up to its confirmation, a setup goes one step at a time; what comes after is shared.
ToConfirmation ==
    {<<"OBSERVING", "WATCH">>, <<"WATCH", "DEVELOPING">>, <<"DEVELOPING", "CONFIRMED">>}

AfterConfirmation ==
    ({"CONFIRMED", "PULLBACK"} \X {"PULLBACK", "CONTINUATION"}) \cup {<<"CONTINUATION", "PULLBACK">>}

\* A close back inside the level, and the close that takes it back.
BackInside ==
    ({"WATCH", "DEVELOPING", "FAKEOUT_RISK"} \X {"INVALIDATED"}) \cup
    ({"CONFIRMED", "PULLBACK", "CONTINUATION"} \X {"FAKEOUT_RISK"}) \cup
    {<<"FAKEOUT_RISK", "CONFIRMED">>}

\* A close through the slow average breaks a trend, whatever its setup's state is by then.
ThroughTheSlow == (State \ {"OBSERVING"}) \X {"INVALIDATED"}

Proposed(family) ==
    ToConfirmation \cup AfterConfirmation \cup
    (IF family = "breakout_acceptance" THEN BackInside ELSE {}) \cup
    (IF family = "trend_pullback" THEN ThroughTheSlow ELSE {})

-----------------------------------------------------------------------------
(* One event, recorded with the move it makes.                               *)

\* Mutant of Follows: what the transaction returned is not kept.
FollowsNot(s, to) == UNCHANGED tracked

\* The engine holds what the transaction returned, and lets go of what has ended.
Follows(s, to) == tracked' = [tracked EXCEPT ![s] = IF to \in Terminal THEN None ELSE to]

Accepted(s, to) == to = rows[s] \/ <<rows[s], to>> \in Transitions

\* A write that fails, and writes nothing, or is refused, is logged, and the engine stays where it was.
Record(s, to) ==
    \/ /\ Accepted(s, to)
       /\ rows' = [rows EXCEPT ![s] = to] /\ touched' = touched \cup {s}
       /\ Follows(s, to)
       /\ UNCHANGED <<refused, faults>>
    \/ /\ ~Accepted(s, to)
       /\ refused' = refused \cup {<<s[1], rows[s], to>>}
       /\ UNCHANGED <<rows, touched, tracked, faults>>
    \/ /\ faults < MaxFaults /\ faults' = faults + 1
       /\ UNCHANGED <<rows, touched, tracked, refused>>

-----------------------------------------------------------------------------
(* A candle.                                                                 *)

At(step) == engine.step = step

Reloaded(found) == [s \in Setup |-> IF s \in found THEN rows[s] ELSE None]

\* _load(): the open setups of the day, once; a read that fails is not tried again.
Load(day) ==
    IF engine.day = day
    THEN UNCHANGED <<memory, blind, faults>>
    ELSE /\ idle' = [s \in Setup |-> 0]
         /\ \/ /\ tracked' = Reloaded({s \in Open : s[3] = day})
               /\ UNCHANGED <<blind, faults>>
            \/ /\ faults < MaxFaults /\ faults' = faults + 1
               /\ tracked' = Reloaded({}) /\ blind' = blind \cup {day}

\* What is advanced is what was held when the step began.
Entering(step, day, held) ==
    [step |-> step, day |-> day,
     todo |-> IF step = "advance" THEN {s \in Setup : held[s] # None /\ s[3] = day} ELSE {}]

\* A candle closes, and the engine has all of it to do; one that is down misses it.
CandleCloses ==
    LET day == Calendar[candle + 1] IN
    /\ At("idle") /\ candle < LastCandle
    /\ candle' = candle + 1 /\ opened' = {} /\ touched' = {} /\ Load(day)
    /\ engine' = Entering(Steps[1], day, tracked')
    /\ UNCHANGED <<rows, refused>>

CandleMissed ==
    /\ At("down") /\ candle < LastCandle
    /\ candle' = candle + 1 /\ opened' = {} /\ touched' = {}
    /\ UNCHANGED <<rows, memory, engine, refused, blind, faults>>

Done(s) == engine' = [engine EXCEPT !.todo = @ \ {s}]

Advance(s) ==
    /\ At("advance") /\ s \in engine.todo
    /\ \E to \in State : <<tracked[s], to>> \in Proposed(s[1]) /\ Record(s, to)
    /\ idle' = [idle EXCEPT ![s] = 0]
    /\ Done(s) /\ UNCHANGED <<candle, opened, blind>>

\* A setup that goes quiet expires; until then its card's context is refreshed.
Refresh(s) ==
    /\ touched' = IF rows[s] \in Terminal THEN touched ELSE touched \cup {s}
    /\ UNCHANGED <<rows, tracked, refused, faults>>

Quiet(s) ==
    /\ At("advance") /\ s \in engine.todo
    /\ idle' = [idle EXCEPT ![s] = IF @ = Expiry THEN @ ELSE @ + 1]
    /\ IF idle'[s] = Expiry THEN Record(s, "INVALIDATED") ELSE Refresh(s)
    /\ Done(s) /\ UNCHANGED <<candle, opened, blind>>

\* Mutant of AlreadyOpen: the id alone tells setups apart.
AlreadyOpenById(s) == FALSE

\* One setup in each direction, where the anchor moves.
AlreadyOpen(s) == s[1] \in OneAtATime /\ \E t \in Tracked : t[1] = s[1]

\* open() answers with the row that is there already, if there is one, ended or not.
OpenSetup(s) ==
    /\ At("open") /\ s[3] = engine.day
    /\ tracked[s] = None /\ ~AlreadyOpen(s)
    /\ IF rows[s] = None
       THEN /\ rows' = [rows EXCEPT ![s] = "OBSERVING"]
            /\ opened' = opened \cup {s} /\ touched' = touched \cup {s}
       ELSE UNCHANGED <<rows, stamps>>
    /\ tracked' = [tracked EXCEPT ![s] = rows'[s]]
    /\ idle' = [idle EXCEPT ![s] = 0]
    /\ UNCHANGED <<candle, engine, refused, blind, faults>>

\* Something noticed about a setup: an event that moves nothing, and lets go of what has ended.
Observe(s) ==
    /\ At("observe") /\ s \in Tracked
    /\ Record(s, tracked[s])
    /\ UNCHANGED <<candle, opened, idle, engine, blind>>

NextStep(step) ==
    IF step = Steps[3] THEN "idle" ELSE IF step = Steps[1] THEN Steps[2] ELSE Steps[3]

Goes ==
    /\ engine.step \in {"advance", "open", "observe"} /\ engine.todo = {}
    /\ engine' = Entering(NextStep(engine.step), engine.day, tracked)
    /\ UNCHANGED <<candle, rows, stamps, memory, refused, blind, faults>>

Crash ==
    /\ ~At("down") /\ faults < MaxFaults /\ faults' = faults + 1
    /\ engine' = [Booted EXCEPT !.step = "down"]
    /\ tracked' = Nothing /\ idle' = [s \in Setup |-> 0]
    /\ UNCHANGED <<candle, rows, stamps, refused, blind>>

Restart ==
    /\ At("down") /\ engine' = Booted
    /\ UNCHANGED <<candle, rows, stamps, memory, refused, blind, faults>>

Next ==
    \/ CandleCloses \/ CandleMissed
    \/ \E s \in Setup : Advance(s) \/ Quiet(s) \/ OpenSetup(s) \/ Observe(s)
    \/ Goes \/ Crash \/ Restart

Spec == Init /\ [][Next]_vars

-----------------------------------------------------------------------------

\* "The trend" is not a price: where the anchor moves from bin to bin, a day has at most one
\* open setup of a family, through restarts and writes that fail.  Only a day whose open
\* setups could not be read may have another.
OneOpenPerDirection ==
    \A s, t \in Open :
        s[1] = t[1] /\ s[1] \in OneAtATime /\ s[3] = t[3] /\ s[3] \notin blind => s = t

\* What the families propose, from what the engine remembers, is what the table of the rows
\* accepts: except that no continuation of a breakout may come to risk being a fakeout, which
\* its family proposes at every close back inside.
OnlyContinuationIsRefused ==
    refused \subseteq {<<"breakout_acceptance", "CONTINUATION", "FAKEOUT_RISK">>}

\* Yesterday's setups belong to yesterday's candles: nothing moves them or is noted on them.
YesterdayIsFrozen ==
    [][\A s \in Setup :
        rows'[s] # rows[s] \/ s \in touched' \ touched => s[3] = Calendar[candle]]_vars

\* A setup does not live off the candle that opened it.
OpensThenWaits ==
    [][\A s \in Setup : rows'[s] # rows[s] => s \notin opened]_vars
=============================================================================
