----------------------------- MODULE SleepCycle -----------------------------
(***************************************************************************)
(* SleepCycle: how a service parks itself over the weekend                 *)
(* (aureon/services/sleep_cycle.py), what it takes for a closed market     *)
(* (aureon/services/market_state_service.py), and the work the review      *)
(* watcher hangs on the close (main_review.py).  Time is counted in ticks  *)
(* of a day since a Monday, 00:00 UTC; the broker's clock runs ahead of    *)
(* it, more in summer than in winter.  The service polls at least once in  *)
(* a tick, asleep or not.                                                  *)
(***************************************************************************)
EXTENDS Integers

CONSTANTS
    Symbol,         \* the configured symbols
    Day,            \* ticks in a day
    OpenTime,       \* the week opens on Sunday at this tick of the day, UTC
    CloseTime,      \* and closes on Friday at this one
    Preopen,        \* preopen_minutes
    Lead,           \* preopen_seconds
    Confirm,        \* close_confirm_seconds
    Winter, Summer, \* how far the broker's clock is ahead of UTC
    Start, LastTick, \* the first and the last tick of the model
    MaxFaults,      \* bound on failed reads and failed reviews
    MaxRestarts,
    None

ASSUME SleepCycleAssumption ==
    /\ Start \in Nat /\ LastTick \in Nat /\ Confirm \in Nat /\ Lead \in Nat /\ Preopen \in Nat
    /\ Day \in Nat \ {0} /\ OpenTime \in 0..(Day - 1) /\ CloseTime \in 0..(Day - 1)
    /\ Winter \in Int /\ Summer \in Int
    /\ MaxFaults \in Nat /\ MaxRestarts \in Nat /\ None \notin Int

Friday == 4
Saturday == 5
Sunday == 6

Weekday(t) == (t \div Day) % 7
WeekOf(t) == t \div (7 * Day)

\* Whether a tick falls inside the trading week.
IsOpen(t) ==
    \/ Weekday(t) = Sunday /\ t % Day >= OpenTime
    \/ Weekday(t) = Friday /\ t % Day < CloseTime
    \/ Weekday(t) \notin {Friday, Saturday, Sunday}

IsPreopen(t) ==
    ~IsOpen(t) /\ Weekday(t) = Sunday /\ OpenTime - (t % Day) \in 1..Preopen

\* Strictly after: at the open the next one is a week away.
NextOpen(t) ==
    LET candidate == Day * ((t \div Day) + ((Sunday - Weekday(t)) % 7)) + OpenTime
    IN  IF candidate <= t THEN candidate + 7 * Day ELSE candidate

\* The broker's verdict first, then the week, then the feed.
Classified(t, mode, silent) ==
    IF mode = "unknown" THEN "UNKNOWN"
    ELSE IF mode = "disabled" THEN "CLOSED"
    ELSE IF IsPreopen(t) THEN "PREOPEN"
    ELSE IF ~IsOpen(t) THEN "CLOSED"
    ELSE IF silent THEN "STALE" ELSE "OPEN"

\* The week of the last Friday that is over on the broker's clock: yesterday,
\* or the Friday before it.
FinishedWeek(t, ahead) ==
    LET yesterday == ((t + ahead) \div Day) - 1
    IN  (yesterday - ((yesterday - Friday) % 7)) \div 7

VARIABLES
    clock,          \* now, in ticks
    broker,         \* the broker's clock: how far ahead, whether it has been changed
    polled,         \* whether the service has polled in this tick
    phase,          \* SleepCycle.phase
    closedSince,    \* SleepCycle.closed_since
    reviewed,       \* the watcher's reviews: the weekend it wrote one in, and the week it is of
    budget,         \* faults and restarts so far
    \* What the properties remember.
    calm,           \* ticks since the first of the CLOSED readings in a row, up to Confirm
    reopened,       \* whether a symbol has read OPEN since the last sleep
    early,          \* the weeks whose close found the service asleep already
    failed          \* the weekends in which a review could not be written

cycle == <<phase, closedSince>>
memory == <<calm, reopened, early, failed>>
sleepVars == <<clock, broker, polled, cycle, reviewed, budget, memory>>

Awake == {"AWAKE", "CLOSING"}
Asleep == {"ASLEEP", "WAKING"}

SleepTypeOK ==
    /\ clock \in Nat /\ polled \in BOOLEAN
    /\ phase \in Awake \cup Asleep
    /\ closedSince \in Nat \cup {None}
    /\ calm \in {None} \cup 0..Confirm /\ reopened \in BOOLEAN

SleepInit ==
    /\ clock = Start /\ polled = FALSE
    /\ broker \in [ahead : {Winter, Summer}, turned : {FALSE}]
    /\ phase = "AWAKE" /\ closedSince = None
    /\ reviewed = {} /\ budget = [faults |-> 0, restarts |-> 0]
    /\ calm = None /\ reopened = TRUE /\ early = {} /\ failed = {}

-----------------------------------------------------------------------------
(* One poll: SleepCycle.observe, and what hangs on its crossings.            *)

AllClosed(states) == Symbol # {} /\ \A s \in Symbol : states[s] = "CLOSED"
Some(states, state) == \E s \in Symbol : states[s] = state

\* The unbroken run of CLOSED readings, with the one just made.
Since(states) ==
    IF ~AllClosed(states) THEN None
    ELSE IF closedSince = None THEN clock ELSE closedSince

OpenIsImminent == NextOpen(clock) - clock <= Lead

StaysAwake(states) ==
    /\ phase \in Awake /\ ~AllClosed(states)
    /\ phase' = "AWAKE" /\ closedSince' = Since(states)

Closing(states) ==
    /\ phase \in Awake /\ AllClosed(states)
    /\ clock - Since(states) < Confirm
    /\ phase' = "CLOSING" /\ closedSince' = Since(states)

FallsAsleep(states) ==
    /\ phase \in Awake /\ AllClosed(states)
    /\ clock - Since(states) >= Confirm
    /\ phase' = "ASLEEP" /\ closedSince' = Since(states)

\* Mutant of Wakes: anything but CLOSED wakes it.
WakesOnAnything(states) ==
    /\ phase \in Asleep /\ ~AllClosed(states)
    /\ phase' = "AWAKE" /\ closedSince' = None

\* The broker quotes: awake, whatever the calendar thinks.
Wakes(states) ==
    /\ phase \in Asleep /\ Some(states, "OPEN")
    /\ phase' = "AWAKE" /\ closedSince' = None

WakesEarly(states) ==
    /\ phase = "ASLEEP" /\ ~Some(states, "OPEN")
    /\ Some(states, "PREOPEN") \/ OpenIsImminent
    /\ phase' = "WAKING" /\ closedSince' = None

\* Still asleep, or asleep again: a lead window that has gone by with every
\* symbol closed sends a waking service back.
SleepsOn(states) ==
    /\ phase \in Asleep /\ ~Some(states, "OPEN")
    /\ phase = "ASLEEP" => ~Some(states, "PREOPEN") /\ ~OpenIsImminent
    /\ phase' = IF AllClosed(states) /\ ~OpenIsImminent THEN "ASLEEP" ELSE phase
    /\ closedSince' = Since(states)

\* Mutant of OnClose: the weekly flag is taken for its opposite.
OnCloseInSession ==
    \/ /\ ~IsOpen(clock)
       /\ UNCHANGED <<reviewed, failed, budget>>
    \/ /\ IsOpen(clock)
       /\ reviewed' = reviewed \cup {<<WeekOf(clock), FinishedWeek(clock, broker.ahead)>>}
       /\ UNCHANGED <<failed, budget>>

\* ReviewWatcher._on_close: nothing unless the schedule, too, says closed; an
\* exception is logged and the week is not tried again.
OnClose ==
    \/ /\ IsOpen(clock)
       /\ UNCHANGED <<reviewed, failed, budget>>
    \/ /\ ~IsOpen(clock)
       /\ reviewed' = reviewed \cup {<<WeekOf(clock), FinishedWeek(clock, broker.ahead)>>}
       /\ UNCHANGED <<failed, budget>>
    \/ /\ ~IsOpen(clock) /\ budget.faults < MaxFaults
       /\ failed' = failed \cup {WeekOf(clock)}
       /\ budget' = [budget EXCEPT !.faults = @ + 1]
       /\ UNCHANGED reviewed

\* A symbol the provider cannot answer for reads UNKNOWN.
Modes == {"tradeable", "disabled", "unknown"}
Unread(mode) == \E s \in Symbol : mode[s] = "unknown"

NoClose(mode) ==
    /\ Unread(mode) => budget.faults < MaxFaults
    /\ budget' = [budget EXCEPT !.faults = @ + IF Unread(mode) THEN 1 ELSE 0]
    /\ UNCHANGED <<reviewed, failed>>

Slept == phase \in Awake /\ phase' = "ASLEEP"

Remembers(states) ==
    /\ calm' = IF ~AllClosed(states) THEN None ELSE IF calm = None THEN 0 ELSE calm
    /\ reopened' = (Some(states, "OPEN") \/ (reopened /\ ~Slept))
    /\ UNCHANGED early

\* SleepGate.tick, first thing in a service's poll.
Poll ==
    /\ ~polled /\ polled' = TRUE
    /\ \E mode \in [Symbol -> Modes], silent \in SUBSET Symbol :
          LET states == [s \in Symbol |-> Classified(clock, mode[s], s \in silent)]
          IN  /\ \/ FallsAsleep(states) /\ OnClose
                 \/ StaysAwake(states) /\ NoClose(mode)
                 \/ Closing(states) /\ NoClose(mode)
                 \/ Wakes(states) /\ NoClose(mode)
                 \/ WakesEarly(states) /\ NoClose(mode)
                 \/ SleepsOn(states) /\ NoClose(mode)
              /\ Remembers(states)
    /\ UNCHANGED <<clock, broker>>

\* Neither the states nor the clock could be read: the phase stays.
PollFails ==
    /\ ~polled /\ polled' = TRUE
    /\ budget.faults < MaxFaults
    /\ budget' = [budget EXCEPT !.faults = @ + 1]
    /\ UNCHANGED <<clock, broker, cycle, reviewed, memory>>

\* A restarted service polls at once, and remembers nothing.
Restart ==
    /\ budget.restarts < MaxRestarts
    /\ budget' = [budget EXCEPT !.restarts = @ + 1]
    /\ phase' = "AWAKE" /\ closedSince' = None /\ polled' = FALSE
    /\ calm' = None /\ reopened' = TRUE
    /\ UNCHANGED <<clock, broker, reviewed, early, failed>>

-----------------------------------------------------------------------------
(* What goes on around it.                                                   *)

Closes(t) == IsOpen(t) /\ ~IsOpen(t + 1)

\* The clocks are changed early on a Sunday.
ChangesClocks(t) ==
    /\ Weekday(t) = Sunday /\ t % Day = 0 /\ ~broker.turned
    /\ broker' = [ahead |-> IF broker.ahead = Winter THEN Summer ELSE Winter,
                  turned |-> TRUE]

Tick ==
    /\ polled /\ clock < LastTick
    /\ clock' = clock + 1 /\ polled' = FALSE
    /\ ChangesClocks(clock + 1) \/ UNCHANGED broker
    /\ calm' = IF calm = None \/ calm = Confirm THEN calm ELSE calm + 1
    /\ early' = IF Closes(clock) /\ phase \in Asleep
                THEN early \cup {WeekOf(clock)} ELSE early
    /\ UNCHANGED <<cycle, reviewed, budget, reopened, failed>>

SleepNext == Poll \/ PollFails \/ Restart \/ Tick

SleepSpec == SleepInit /\ [][SleepNext]_sleepVars

-----------------------------------------------------------------------------
(* What must hold.                                                           *)

\* A service parks itself for a close that lasts, and once for each: every
\* reading of the confirmation was CLOSED for every symbol, so that a broker's
\* restart does not look like a weekend, and since it slept last a symbol has
\* read OPEN ("each is reported exactly once", sleep_cycle.py's crossings).
ParksOncePerClose == [][Slept => calm' = Confirm /\ reopened]_sleepVars

\* Week w's close and its weekend's end, in ticks.
ClosingTick(w) == Day * (7 * w + Friday) + CloseTime
OpeningTick(w) == Day * (7 * w + Sunday) + OpenTime

\* The week has its review, or one of the two excuses.
Decided(w) ==
    \/ w \in early \cup failed
    \/ \E v \in {w - 1, w} : <<w, v>> \in reviewed

\* Every close is followed, before the market opens again, by a review of the
\* week that has just ended or, while Friday is not over on the broker's clock
\* (in winter), of the week before.  What may keep the watcher from it: the
\* broker had stopped before the close and the watcher was asleep already, or
\* the review could not be written (sleep_cycle.py's weekly flag and
\* main_review.py's _on_close).
CloseIsReviewed ==
    \A w \in WeekOf(Start)..WeekOf(LastTick) :
        clock >= OpeningTick(w) => Decided(w)

\* What the proof of it assumes of the constants: some symbol is configured,
\* the broker's clock is at most a day ahead, the model begins before a close,
\* and the weekend is longer than what the faults and the restarts, each of
\* them a confirmation and a tick, a confirmation and the preopen take.
LongWeekend ==
    /\ Symbol # {} /\ Winter \in 0..Day /\ Summer \in 0..Day
    /\ Start <= ClosingTick(WeekOf(Start))
    /\ (MaxFaults + MaxRestarts) * (Confirm + 1) + Confirm + Preopen
         < 2 * Day + OpenTime - CloseTime
=============================================================================
