---------------------------- MODULE SetupsProofs ----------------------------
(***************************************************************************)
(* Theorems about Setups, for every set of anchors, every calendar, every  *)
(* expiry and any number of faults.  What the engine holds agrees with the *)
(* rows, and holds all that is open on a day it could read: the rest       *)
(* follows from these two.                                                 *)
(***************************************************************************)
EXTENDS Setups, TLAPS

\* What the engine remembers of a setup is what its row says.
Agrees == \A s \in Tracked : tracked[s] = rows[s] /\ s[3] = engine.day

\* A day that could be read is held whole.
HoldsTheDay ==
    engine.day \in Day \ blind => \A s \in Open : s[3] = engine.day => s \in Tracked

\* The engine works on the day of the last candle, on setups of that day.
OnItsDay ==
    /\ engine.step \in {"advance", "open", "observe"} =>
           candle \in 1..LastCandle /\ engine.day = Calendar[candle]
    /\ \A s \in engine.todo : s \in Tracked /\ s[3] = engine.day
    /\ engine.step # "advance" => engine.todo = {}
    /\ engine.step = "down" => engine.day = None

\* Setups are opened after the others have advanced, and have rows.
OpenedHaveRows ==
    /\ \A s \in opened : rows[s] # None
    /\ engine.step = "advance" => opened = {}

\* No family takes a setup to its completion.
NeverCompleted == \A s \in Setup : rows[s] # "COMPLETED"

IInv ==
    /\ TypeOK /\ Agrees /\ HoldsTheDay /\ OnItsDay /\ OpenedHaveRows /\ NeverCompleted
    /\ OneOpenPerDirection /\ OnlyContinuationIsRefused

-----------------------------------------------------------------------------
(* Moves.                                                                    *)

LEMMA SetupParts ==
    ASSUME NEW s \in Setup
    PROVE  s[1] \in Families /\ s[3] \in Day
BY SetupsAssumption DEF Setup

\* What a family proposes is never the completed state.
LEMMA NeverProposed ==
    ASSUME NEW f, NEW from, <<from, "COMPLETED">> \in Proposed(f)
    PROVE  FALSE
BY DEF Proposed, ToConfirmation, AfterConfirmation, BackInside, ThroughTheSlow

\* The table accepts what is proposed, but for one move.
LEMMA ProposedIsAccepted ==
    ASSUME NEW f, NEW from \in State, NEW to \in State, from # "COMPLETED",
           <<from, to>> \in Proposed(f)
    PROVE  \/ to = from
           \/ <<from, to>> \in Transitions
           \/ <<f, from, to>> = <<"breakout_acceptance", "CONTINUATION", "FAKEOUT_RISK">>
BY DEF Proposed, ToConfirmation, AfterConfirmation, BackInside, ThroughTheSlow,
       Transitions, State

\* Every setup may end, and none comes back.
LEMMA Ends ==
    ASSUME NEW from \in State, from # "COMPLETED"
    PROVE  /\ from = "INVALIDATED" \/ <<from, "INVALIDATED">> \in Transitions
           /\ from \in Terminal => \A to : <<from, to>> \notin Transitions
BY DEF Transitions, State, Terminal

LEMMA StepsAre ==
    /\ Steps[1] = "advance" /\ Steps[2] = "open" /\ Steps[3] = "observe"
    /\ NextStep("advance") = "open" /\ NextStep("open") = "observe"
    /\ NextStep("observe") = "idle"
BY DEF Steps, NextStep

LEMMA Names ==
    /\ None \notin State /\ None \notin Day
    /\ Expiry \in Nat \ {0} /\ MaxFaults \in Nat /\ LastCandle \in Nat
    /\ Calendar \in [1..LastCandle -> Day]
BY SetupsAssumption

\* The open setups of a later moment are among those of an earlier one.
LEMMA FewerOpen ==
    ASSUME OneOpenPerDirection, Open' \subseteq Open, blind \subseteq blind'
    PROVE  OneOpenPerDirection'
BY DEF OneOpenPerDirection

-----------------------------------------------------------------------------
(* What a recorded event does.                                               *)

\* An event about a setup that is held: whatever becomes of it, the invariant's parts hold.
LEMMA RecordKeeps ==
    ASSUME IInv, NEW s \in Tracked, NEW to \in State, to # "COMPLETED", Record(s, to),
           \/ Accepted(s, to)
           \/ <<s[1], rows[s], to>> = <<"breakout_acceptance", "CONTINUATION", "FAKEOUT_RISK">>,
           UNCHANGED <<candle, opened, blind>>,
           engine'.day = engine.day
    PROVE  /\ rows' \in [Setup -> State \cup {None}] /\ touched' \subseteq Setup
           /\ tracked' \in [Setup -> State \cup {None}]
           /\ refused' \subseteq Families \X State \X State
           /\ faults' \in 0..MaxFaults
           /\ \A t \in Setup \ {s} : tracked'[t] = tracked[t] /\ rows'[t] = rows[t]
           /\ rows'[s] # None
           /\ Agrees' /\ HoldsTheDay' /\ NeverCompleted'
           /\ OneOpenPerDirection' /\ OnlyContinuationIsRefused'
<1>1. /\ s \in Setup /\ rows[s] = tracked[s] /\ rows[s] \in State /\ tracked[s] # None
      /\ s[1] \in Families /\ s[3] = engine.day /\ rows[s] # "COMPLETED"
  BY SetupParts DEF IInv, Agrees, Tracked, TypeOK, NeverCompleted
<1>2. /\ rows \in [Setup -> State \cup {None}] /\ tracked \in [Setup -> State \cup {None}]
      /\ touched \subseteq Setup /\ refused \subseteq Families \X State \X State
      /\ faults \in 0..MaxFaults /\ faults \in Nat /\ None \notin State
      /\ NeverCompleted /\ OnlyContinuationIsRefused /\ Agrees /\ HoldsTheDay
      /\ OneOpenPerDirection
  BY Names DEF IInv, TypeOK
<1>3. CASE /\ Accepted(s, to)
           /\ rows' = [rows EXCEPT ![s] = to] /\ touched' = touched \cup {s}
           /\ Follows(s, to) /\ UNCHANGED <<refused, faults>>
  <2>1. rows[s] \in Terminal => to = rows[s] BY <1>1, <1>3, Ends DEF Accepted
  <2>2. /\ \A t \in Setup \ {s} : tracked'[t] = tracked[t] /\ rows'[t] = rows[t]
        /\ rows'[s] = to
        /\ tracked'[s] = IF to \in Terminal THEN None ELSE to
        /\ rows' \in [Setup -> State \cup {None}] /\ tracked' \in [Setup -> State \cup {None}]
    BY <1>1, <1>2, <1>3 DEF Follows
  <2>3. Agrees' BY <1>1, <1>2, <2>2 DEF Agrees, Tracked
  <2>4. Open' \subseteq Open BY <1>1, <1>2, <2>1, <2>2 DEF Open
  <2>5. \A t \in Open' : t \in Tracked => t \in Tracked'
    BY <1>1, <1>2, <2>2 DEF Open, Tracked
  <2>6. HoldsTheDay' BY <1>2, <2>4, <2>5 DEF HoldsTheDay
  <2>7. OneOpenPerDirection' BY <1>2, <2>4, FewerOpen
  <2>8. NeverCompleted' BY <1>2, <2>2 DEF NeverCompleted
  <2>. QED BY <1>1, <1>2, <1>3, <2>2, <2>3, <2>6, <2>7, <2>8 DEF OnlyContinuationIsRefused
<1>4. CASE /\ ~Accepted(s, to)
           /\ refused' = refused \cup {<<s[1], rows[s], to>>}
           /\ UNCHANGED <<rows, touched, tracked, faults>>
  <2>1. /\ Agrees' /\ HoldsTheDay' /\ NeverCompleted' /\ OneOpenPerDirection'
    BY <1>2, <1>4 DEF Agrees, HoldsTheDay, NeverCompleted, OneOpenPerDirection, Open, Tracked
  <2>2. OnlyContinuationIsRefused' BY <1>2, <1>4 DEF OnlyContinuationIsRefused
  <2>. QED BY <1>1, <1>2, <1>4, <2>1, <2>2
<1>5. CASE /\ faults < MaxFaults /\ faults' = faults + 1
           /\ UNCHANGED <<rows, touched, tracked, refused>>
  <2>1. /\ Agrees' /\ HoldsTheDay' /\ NeverCompleted' /\ OneOpenPerDirection'
        /\ OnlyContinuationIsRefused'
    BY <1>2, <1>5 DEF Agrees, HoldsTheDay, NeverCompleted, OneOpenPerDirection, Open, Tracked,
                      OnlyContinuationIsRefused
  <2>. QED BY <1>1, <1>2, <1>5, <2>1, Names
<1>. QED BY <1>3, <1>4, <1>5 DEF Record

-----------------------------------------------------------------------------
(* The inductive invariant.                                                  *)

LEMMA InitHolds == Init => IInv
<1> SUFFICES ASSUME Init PROVE IInv OBVIOUS
<1>1. TypeOK BY Names DEF Init, TypeOK, Nothing, Booted
<1>2. Agrees /\ HoldsTheDay /\ OnItsDay /\ OpenedHaveRows /\ OneOpenPerDirection
  BY Names DEF Init, Nothing, Booted, Agrees, HoldsTheDay, OnItsDay, OpenedHaveRows, Tracked,
               Open, OneOpenPerDirection
<1>3. NeverCompleted /\ OnlyContinuationIsRefused
  BY Names DEF Init, Nothing, NeverCompleted, OnlyContinuationIsRefused, State
<1>. QED BY <1>1, <1>2, <1>3 DEF IInv

\* An event recorded in the "advance" step, which leaves the setup out of what is to be done.
LEMMA RecordAdvances ==
    ASSUME IInv, NEW s \in Tracked, NEW to \in State, to # "COMPLETED", Record(s, to),
           \/ Accepted(s, to)
           \/ <<s[1], rows[s], to>> = <<"breakout_acceptance", "CONTINUATION", "FAKEOUT_RISK">>,
           UNCHANGED <<candle, opened, blind>>,
           idle' \in [Setup -> 0..Expiry],
           engine' \in [step : {"down", "idle", "advance", "open", "observe"}, todo : SUBSET Setup,
                        day : Day \cup {None}],
           engine'.day = engine.day, engine'.step = engine.step,
           engine'.todo = engine.todo \ {s}
    PROVE  IInv'
<1>1. /\ rows' \in [Setup -> State \cup {None}] /\ touched' \subseteq Setup
      /\ tracked' \in [Setup -> State \cup {None}]
      /\ refused' \subseteq Families \X State \X State
      /\ faults' \in 0..MaxFaults
      /\ \A t \in Setup \ {s} : tracked'[t] = tracked[t] /\ rows'[t] = rows[t]
      /\ rows'[s] # None
      /\ Agrees' /\ HoldsTheDay' /\ NeverCompleted'
      /\ OneOpenPerDirection' /\ OnlyContinuationIsRefused'
  BY RecordKeeps
<1>2. TypeOK /\ OnItsDay /\ OpenedHaveRows BY DEF IInv
<1>3. TypeOK' BY <1>1, <1>2 DEF TypeOK
<1>4. \A t \in engine'.todo : t \in Tracked' /\ t[3] = engine'.day
  <2>. SUFFICES ASSUME NEW t \in engine'.todo PROVE t \in Tracked' /\ t[3] = engine'.day
    OBVIOUS
  <2>1. t \in Setup \ {s} /\ t \in Tracked /\ t[3] = engine.day BY <1>2 DEF OnItsDay, TypeOK
  <2>. QED BY <1>1, <2>1 DEF Tracked
<1>5. OnItsDay' BY <1>2, <1>4 DEF OnItsDay
<1>6. \A t \in opened' : rows'[t] # None BY <1>1, <1>2 DEF OpenedHaveRows, TypeOK
<1>7. OpenedHaveRows' BY <1>2, <1>6 DEF OpenedHaveRows
<1>. QED BY <1>1, <1>3, <1>5, <1>7 DEF IInv

LEMMA AdvanceKeeps ==
    ASSUME IInv, NEW s \in Setup, Advance(s)
    PROVE  IInv'
<1>1. At("advance") /\ s \in engine.todo /\ s \in Tracked
  BY DEF Advance, IInv, OnItsDay
<1>2. PICK to \in State : <<tracked[s], to>> \in Proposed(s[1]) /\ Record(s, to)
  BY DEF Advance
<1>3. tracked[s] = rows[s] /\ rows[s] \in State /\ rows[s] # "COMPLETED" /\ s[1] \in Families
  BY <1>1, SetupParts, Names DEF IInv, Agrees, Tracked, TypeOK, NeverCompleted
<1>4. to # "COMPLETED" BY <1>2, NeverProposed
<1>5. \/ Accepted(s, to)
      \/ <<s[1], rows[s], to>> = <<"breakout_acceptance", "CONTINUATION", "FAKEOUT_RISK">>
  BY <1>2, <1>3, ProposedIsAccepted DEF Accepted
<1>6. /\ UNCHANGED <<candle, opened, blind>> /\ idle' = [idle EXCEPT ![s] = 0]
      /\ engine' = [engine EXCEPT !.todo = @ \ {s}]
  BY DEF Advance, Done
<1>7. /\ engine \in [step : {"down", "idle", "advance", "open", "observe"}, todo : SUBSET Setup,
                    day : Day \cup {None}]
      /\ idle \in [Setup -> 0..Expiry]
  BY DEF IInv, TypeOK
<1>8. engine'.day = engine.day /\ engine'.step = engine.step /\ engine'.todo = engine.todo \ {s}
  BY <1>6, <1>7
<1>9. idle' \in [Setup -> 0..Expiry] BY <1>6, <1>7, Names
<1>. QED BY <1>1, <1>2, <1>4, <1>5, <1>6, <1>7, <1>8, <1>9, RecordAdvances

LEMMA QuietKeeps ==
    ASSUME IInv, NEW s \in Setup, Quiet(s)
    PROVE  IInv'
<1>1. At("advance") /\ s \in engine.todo /\ s \in Tracked
  BY DEF Quiet, IInv, OnItsDay
<1>2. tracked[s] = rows[s] /\ rows[s] \in State /\ rows[s] # "COMPLETED"
  BY <1>1, Names DEF IInv, Agrees, Tracked, TypeOK, NeverCompleted
<1>3. /\ UNCHANGED <<candle, opened, blind>> /\ engine' = [engine EXCEPT !.todo = @ \ {s}]
      /\ idle' = [idle EXCEPT ![s] = IF @ = Expiry THEN @ ELSE @ + 1]
  BY DEF Quiet, Done
<1>4. /\ engine \in [step : {"down", "idle", "advance", "open", "observe"}, todo : SUBSET Setup,
                    day : Day \cup {None}]
      /\ idle \in [Setup -> 0..Expiry]
  BY DEF IInv, TypeOK
<1>5. engine'.day = engine.day /\ engine'.step = engine.step /\ engine'.todo = engine.todo \ {s}
  BY <1>3, <1>4
<1>6. idle' \in [Setup -> 0..Expiry]
  <2>1. idle[s] \in 0..Expiry BY <1>4
  <2>2. (IF idle[s] = Expiry THEN idle[s] ELSE idle[s] + 1) \in 0..Expiry BY <2>1, Names
  <2>. QED BY <1>3, <1>4, <2>2
<1>7. CASE Record(s, "INVALIDATED")
  <2>1. Accepted(s, "INVALIDATED") BY <1>2, Ends DEF Accepted
  <2>2. "INVALIDATED" \in State BY DEF State
  <2>. QED BY <1>1, <1>3, <1>4, <1>5, <1>6, <1>7, <2>1, <2>2, RecordAdvances
<1>8. CASE Refresh(s)
  <2>1. UNCHANGED <<candle, rows, opened, tracked, refused, blind, faults>>
    BY <1>3, <1>8 DEF Refresh
  <2>2. touched' \subseteq Setup BY <1>8 DEF Refresh, IInv, TypeOK
  <2>3. TypeOK' BY <1>3, <1>4, <1>6, <2>1, <2>2 DEF IInv, TypeOK
  <2>. QED
    BY <1>5, <2>1, <2>3 DEF IInv, Agrees, HoldsTheDay, OnItsDay, OpenedHaveRows, NeverCompleted,
       OneOpenPerDirection, OnlyContinuationIsRefused, Tracked, Open
<1>. QED BY <1>7, <1>8 DEF Quiet

LEMMA ObserveKeeps ==
    ASSUME IInv, NEW s \in Setup, Observe(s)
    PROVE  IInv'
<1>1. engine.step = "observe" /\ s \in Tracked /\ engine.todo = {}
  BY DEF Observe, At, IInv, OnItsDay
<1>2. tracked[s] = rows[s] /\ tracked[s] \in State /\ tracked[s] # "COMPLETED"
  BY <1>1, Names DEF IInv, Agrees, Tracked, TypeOK, NeverCompleted
<1>3. Accepted(s, tracked[s]) BY <1>2 DEF Accepted
<1>4. UNCHANGED <<candle, opened, idle, engine, blind>> /\ Record(s, tracked[s])
  BY DEF Observe
<1>5. /\ engine \in [step : {"down", "idle", "advance", "open", "observe"}, todo : SUBSET Setup,
                    day : Day \cup {None}]
      /\ idle \in [Setup -> 0..Expiry]
  BY DEF IInv, TypeOK
<1>. QED BY <1>1, <1>2, <1>3, <1>4, <1>5, RecordAdvances

LEMMA OpenSetupKeeps ==
    ASSUME IInv, NEW s \in Setup, OpenSetup(s)
    PROVE  IInv'
<1>1. /\ engine.step = "open" /\ s[3] = engine.day /\ tracked[s] = None /\ ~AlreadyOpen(s)
      /\ engine.todo = {}
  BY DEF OpenSetup, At, IInv, OnItsDay
<1>2. /\ tracked' = [tracked EXCEPT ![s] = rows'[s]]
      /\ idle' = [idle EXCEPT ![s] = 0]
      /\ UNCHANGED <<candle, engine, refused, blind, faults>>
      /\ \/ /\ rows[s] = None /\ rows' = [rows EXCEPT ![s] = "OBSERVING"]
            /\ opened' = opened \cup {s} /\ touched' = touched \cup {s}
         \/ /\ rows[s] # None /\ UNCHANGED <<rows, opened, touched>>
  BY DEF OpenSetup, stamps
<1>3. TypeOK /\ Agrees /\ HoldsTheDay /\ OnItsDay /\ OpenedHaveRows /\ NeverCompleted
      /\ OneOpenPerDirection /\ OnlyContinuationIsRefused
  BY DEF IInv
<1>4. /\ rows \in [Setup -> State \cup {None}] /\ tracked \in [Setup -> State \cup {None}]
      /\ idle \in [Setup -> 0..Expiry] /\ None \notin State /\ "OBSERVING" \in State
  BY <1>3, Names DEF TypeOK, State
<1>5. /\ rows'[s] \in State /\ rows' \in [Setup -> State \cup {None}]
      /\ \A t \in Setup \ {s} : rows'[t] = rows[t] /\ tracked'[t] = tracked[t]
      /\ tracked'[s] = rows'[s] /\ tracked' \in [Setup -> State \cup {None}]
  BY <1>2, <1>4
<1>6. TypeOK'
  <2>1. opened' \subseteq Setup /\ touched' \subseteq Setup BY <1>2, <1>3 DEF TypeOK
  <2>2. idle' \in [Setup -> 0..Expiry] BY <1>2, <1>4, Names
  <2>. QED BY <1>2, <1>3, <1>5, <2>1, <2>2 DEF TypeOK
<1>7. Agrees' BY <1>1, <1>2, <1>3, <1>5 DEF Agrees, Tracked
<1>8. Open' \subseteq Open \cup {s} /\ Tracked' = Tracked \cup {s}
  BY <1>4, <1>5 DEF Open, Tracked
<1>9. HoldsTheDay' BY <1>2, <1>3, <1>8 DEF HoldsTheDay
<1>10. OnItsDay' BY <1>1, <1>2, <1>3 DEF OnItsDay
<1>11. OpenedHaveRows'
  <2>1. \A t \in opened' : t \in Setup /\ rows'[t] # None
    BY <1>2, <1>3, <1>4, <1>5 DEF OpenedHaveRows, TypeOK
  <2>. QED BY <1>1, <1>2, <2>1 DEF OpenedHaveRows
<1>12. NeverCompleted'
  <2>1. rows'[s] # "COMPLETED" BY <1>2, <1>3, <1>4 DEF NeverCompleted
  <2>. QED BY <1>3, <1>5, <2>1 DEF NeverCompleted
<1>13. OneOpenPerDirection'
  <2>1. SUFFICES ASSUME NEW t \in Open, t # s, t[1] = s[1], s[1] \in OneAtATime, s[3] = t[3],
                        s[3] \notin blind
                 PROVE  FALSE
    BY <1>2, <1>3, <1>8 DEF OneOpenPerDirection
  <2>2. engine.day \in Day BY <1>1, SetupParts
  <2>3. t \in Tracked BY <1>1, <1>3, <2>1, <2>2 DEF HoldsTheDay
  <2>. QED BY <1>1, <2>1, <2>3 DEF AlreadyOpen
<1>14. OnlyContinuationIsRefused' BY <1>2, <1>3 DEF OnlyContinuationIsRefused
<1>. QED BY <1>6, <1>7, <1>9, <1>10, <1>11, <1>12, <1>13, <1>14 DEF IInv

\* The day that begins is held whole, or could not be read.
LEMMA LoadKeeps ==
    ASSUME IInv, NEW day \in Day, Load(day), UNCHANGED rows, engine'.day = day
    PROVE  /\ tracked' \in [Setup -> State \cup {None}] /\ idle' \in [Setup -> 0..Expiry]
           /\ blind' \subseteq Day /\ blind \subseteq blind' /\ faults' \in 0..MaxFaults
           /\ Agrees' /\ HoldsTheDay'
<1>1. /\ rows \in [Setup -> State \cup {None}] /\ tracked \in [Setup -> State \cup {None}]
      /\ idle \in [Setup -> 0..Expiry] /\ blind \subseteq Day /\ faults \in 0..MaxFaults
      /\ Agrees /\ HoldsTheDay
  BY DEF IInv, TypeOK
<1>2. CASE engine.day = day /\ UNCHANGED <<tracked, idle, blind, faults>>
  BY <1>1, <1>2 DEF Agrees, HoldsTheDay, Tracked, Open
<1>3. CASE /\ idle' = [s \in Setup |-> 0]
           /\ tracked' = Reloaded({s \in Open : s[3] = day}) /\ UNCHANGED <<blind, faults>>
  <2>1. tracked' = [s \in Setup |-> IF s \in Open /\ s[3] = day THEN rows[s] ELSE None]
    BY <1>3 DEF Reloaded
  <2>2. Agrees' BY <2>1 DEF Agrees, Tracked
  <2>3. \A s \in Open : s \in Setup /\ rows[s] # None BY DEF Open
  <2>4. HoldsTheDay' BY <1>1, <2>1, <2>3 DEF HoldsTheDay, Tracked, Open
  <2>5. tracked' \in [Setup -> State \cup {None}] BY <1>1, <2>1
  <2>. QED BY <1>1, <1>3, <2>2, <2>4, <2>5, Names
<1>4. CASE /\ idle' = [s \in Setup |-> 0] /\ faults < MaxFaults /\ faults' = faults + 1
           /\ tracked' = Reloaded({}) /\ blind' = blind \cup {day}
  <2>1. tracked' = [s \in Setup |-> None] BY <1>4 DEF Reloaded
  <2>2. Agrees' BY <2>1 DEF Agrees, Tracked
  <2>3. HoldsTheDay' BY <1>4 DEF HoldsTheDay
  <2>. QED BY <1>1, <1>4, <2>1, <2>2, <2>3, Names
<1>. QED BY <1>2, <1>3, <1>4 DEF Load, memory

LEMMA CandleClosesKeeps ==
    ASSUME IInv, CandleCloses
    PROVE  IInv'
<1> DEFINE day == Calendar[candle + 1]
<1>1. /\ candle \in 0..LastCandle /\ candle < LastCandle /\ candle' = candle + 1
      /\ opened' = {} /\ touched' = {} /\ Load(day) /\ UNCHANGED <<rows, refused>>
      /\ engine' = [step |-> "advance", day |-> day,
                    todo |-> {s \in Setup : tracked'[s] # None /\ s[3] = day}]
  BY StepsAre DEF CandleCloses, Entering, IInv, TypeOK
<1>2. day \in Day /\ candle' \in 1..LastCandle /\ day = Calendar[candle'] BY <1>1, Names
<1> HIDE DEF day
<1>3. engine'.day = day /\ engine'.step = "advance"
      /\ engine'.todo = {s \in Setup : tracked'[s] # None /\ s[3] = day}
  BY <1>1
<1>4. /\ tracked' \in [Setup -> State \cup {None}] /\ idle' \in [Setup -> 0..Expiry]
      /\ blind' \subseteq Day /\ blind \subseteq blind' /\ faults' \in 0..MaxFaults
      /\ Agrees' /\ HoldsTheDay'
  BY <1>1, <1>2, <1>3, LoadKeeps
<1>5. TypeOK' BY <1>1, <1>2, <1>4 DEF IInv, TypeOK
<1>6. OnItsDay' BY <1>2, <1>3 DEF OnItsDay, Tracked
<1>7. OpenedHaveRows' BY <1>1 DEF OpenedHaveRows
<1>8. NeverCompleted' /\ OnlyContinuationIsRefused'
  BY <1>1 DEF IInv, NeverCompleted, OnlyContinuationIsRefused
<1>9. Open' \subseteq Open BY <1>1 DEF Open
<1>10. OneOpenPerDirection' BY <1>4, <1>9, FewerOpen DEF IInv
<1>. QED BY <1>4, <1>5, <1>6, <1>7, <1>8, <1>10 DEF IInv

LEMMA CandleMissedKeeps ==
    ASSUME IInv, CandleMissed
    PROVE  IInv'
<1>1. /\ candle \in 0..LastCandle /\ candle < LastCandle /\ candle' = candle + 1
      /\ opened' = {} /\ touched' = {} /\ engine.step = "down"
      /\ UNCHANGED <<rows, tracked, idle, engine, refused, blind, faults>>
  BY DEF CandleMissed, At, memory, IInv, TypeOK
<1>2. TypeOK' BY <1>1, Names DEF IInv, TypeOK
<1>3. OnItsDay' BY <1>1 DEF IInv, OnItsDay, Tracked
<1>. QED BY <1>1, <1>2, <1>3 DEF IInv, Agrees, HoldsTheDay, OpenedHaveRows, NeverCompleted,
       OneOpenPerDirection, OnlyContinuationIsRefused, Tracked, Open

LEMMA GoesKeeps ==
    ASSUME IInv, Goes
    PROVE  IInv'
<1>1. /\ engine.step \in {"advance", "open", "observe"}
      /\ engine' = Entering(NextStep(engine.step), engine.day, tracked)
      /\ UNCHANGED <<candle, rows, opened, touched, tracked, idle, refused, blind, faults>>
  BY DEF Goes, stamps, memory
<1>2. NextStep(engine.step) \in {"open", "observe", "idle"} BY <1>1, StepsAre
<1>3. engine' = [step |-> NextStep(engine.step), day |-> engine.day, todo |-> {}]
  BY <1>1, <1>2 DEF Entering
<1>4. engine'.day = engine.day /\ engine'.step \in {"open", "observe", "idle"} /\ engine'.todo = {}
  BY <1>2, <1>3
<1>5. engine.day \in Day \cup {None} BY DEF IInv, TypeOK
<1>6. TypeOK' BY <1>1, <1>2, <1>3, <1>5 DEF IInv, TypeOK
<1>7. OnItsDay' BY <1>1, <1>4 DEF IInv, OnItsDay
<1>. QED BY <1>1, <1>4, <1>6, <1>7 DEF IInv, Agrees, HoldsTheDay, OpenedHaveRows, NeverCompleted,
       OneOpenPerDirection, OnlyContinuationIsRefused, Tracked, Open

LEMMA CrashKeeps ==
    ASSUME IInv, Crash
    PROVE  IInv'
<1>1. /\ faults < MaxFaults /\ faults' = faults + 1
      /\ engine' = [step |-> "down", todo |-> {}, day |-> None]
      /\ tracked' = [s \in Setup |-> None] /\ idle' = [s \in Setup |-> 0]
      /\ UNCHANGED <<candle, rows, opened, touched, refused, blind>>
  BY DEF Crash, Booted, Nothing, stamps
<1>2. TypeOK' BY <1>1, Names DEF IInv, TypeOK
<1>3. Agrees' /\ HoldsTheDay' /\ OnItsDay' BY <1>1, Names DEF Agrees, HoldsTheDay, OnItsDay, Tracked
<1>. QED BY <1>1, <1>2, <1>3 DEF IInv, OpenedHaveRows, NeverCompleted, OneOpenPerDirection,
       OnlyContinuationIsRefused, Open

LEMMA RestartKeeps ==
    ASSUME IInv, Restart
    PROVE  IInv'
<1>1. /\ engine' = [step |-> "idle", todo |-> {}, day |-> None] /\ engine.step = "down"
      /\ UNCHANGED <<candle, rows, opened, touched, tracked, idle, refused, blind, faults>>
  BY DEF Restart, At, Booted, stamps, memory
<1>2. engine.day = None /\ engine'.day = None /\ engine'.step = "idle" /\ engine'.todo = {}
  BY <1>1 DEF IInv, OnItsDay
<1>3. TypeOK' BY <1>1 DEF IInv, TypeOK
<1>. QED BY <1>1, <1>2, <1>3 DEF IInv, Agrees, HoldsTheDay, OnItsDay, OpenedHaveRows,
       NeverCompleted, OneOpenPerDirection, OnlyContinuationIsRefused, Tracked, Open

LEMMA StutterKeeps ==
    ASSUME IInv, UNCHANGED vars
    PROVE  IInv'
BY DEF IInv, vars, memory, stamps, TypeOK, Agrees, HoldsTheDay, OnItsDay, OpenedHaveRows,
       NeverCompleted, OneOpenPerDirection, OnlyContinuationIsRefused, Tracked, Open

LEMMA StepKeeps == IInv /\ [Next]_vars => IInv'
<1> SUFFICES ASSUME IInv, [Next]_vars PROVE IInv' OBVIOUS
<1>1. ASSUME NEW s \in Setup, Advance(s) \/ Quiet(s) \/ OpenSetup(s) \/ Observe(s) PROVE IInv'
  BY <1>1, AdvanceKeeps, QuietKeeps, OpenSetupKeeps, ObserveKeeps
<1>. QED
  BY <1>1, CandleClosesKeeps, CandleMissedKeeps, GoesKeeps, CrashKeeps, RestartKeeps, StutterKeeps
  DEF Next

\* Inductive in every instance.
THEOREM Invariance == Spec => []IInv
BY InitHolds, StepKeeps, PTL DEF Spec

-----------------------------------------------------------------------------

\* Every variable keeps its type, whatever the anchors, the calendar and the faults.
THEOREM TypesHold == Spec => []TypeOK
<1>1. IInv => TypeOK BY DEF IInv
<1>. QED BY <1>1, Invariance, PTL

\* One open setup of a family with a moving anchor a day, through any number of restarts and
\* of writes that fail.
THEOREM OnePerDirection == Spec => []OneOpenPerDirection
<1>1. IInv => OneOpenPerDirection BY DEF IInv
<1>. QED BY <1>1, Invariance, PTL

\* The rows' table refuses what four families propose in one case only.
THEOREM TableFitsFamilies == Spec => []OnlyContinuationIsRefused
<1>1. IInv => OnlyContinuationIsRefused BY DEF IInv
<1>. QED BY <1>1, Invariance, PTL

\* What an event writes is about its own setup.
LEMMA RecordIsLocal ==
    ASSUME IInv, NEW s \in Setup, NEW to, Record(s, to), NEW t \in Setup, t # s
    PROVE  rows'[t] = rows[t] /\ (t \in touched' => t \in touched)
BY DEF Record, IInv, TypeOK

\* A candle writes on setups of its own day.
LEMMA WritesToday ==
    ASSUME IInv, [Next]_vars, NEW s \in Setup, rows'[s] # rows[s] \/ s \in touched' \ touched
    PROVE  s[3] = Calendar[candle]
<1>1. ASSUME NEW t \in Setup, Advance(t) \/ Quiet(t) \/ OpenSetup(t) \/ Observe(t)
      PROVE  s = t
  <2>1. CASE Advance(t) BY <2>1, RecordIsLocal DEF Advance
  <2>2. CASE Quiet(t) BY <2>2, RecordIsLocal DEF Quiet, Refresh
  <2>3. CASE OpenSetup(t) BY <2>3 DEF OpenSetup, stamps, IInv, TypeOK
  <2>4. CASE Observe(t) BY <2>4, RecordIsLocal DEF Observe
  <2>. QED BY <1>1, <2>1, <2>2, <2>3, <2>4
<1>2. ASSUME NEW t \in Setup, Advance(t) \/ Quiet(t) \/ OpenSetup(t) \/ Observe(t)
      PROVE  t[3] = engine.day /\ engine.day = Calendar[candle]
  BY <1>2 DEF Advance, Quiet, OpenSetup, Observe, At, IInv, OnItsDay, Agrees
<1>3. ~(CandleCloses \/ CandleMissed \/ Goes \/ Crash \/ Restart \/ UNCHANGED vars)
  BY DEF CandleCloses, CandleMissed, Goes, Crash, Restart, vars, stamps
<1>. QED BY <1>1, <1>2, <1>3 DEF Next

\* Yesterday's setups are out of reach of today's candles.
THEOREM YesterdayStays == Spec => YesterdayIsFrozen
<1>1. IInv /\ [Next]_vars
      => [\A s \in Setup :
            rows'[s] # rows[s] \/ s \in touched' \ touched => s[3] = Calendar[candle]]_vars
  BY WritesToday
<1>. QED BY <1>1, Invariance, PTL DEF Spec, YesterdayIsFrozen

\* What moves was there before the candle that moves it.
LEMMA MovesOld ==
    ASSUME IInv, [Next]_vars, NEW s \in Setup, rows'[s] # rows[s]
    PROVE  s \notin opened
<1>1. ASSUME NEW t \in Setup, Advance(t) \/ Quiet(t) PROVE opened = {}
  BY <1>1 DEF Advance, Quiet, At, IInv, OpenedHaveRows
<1>2. ASSUME NEW t \in Setup, OpenSetup(t) PROVE s \notin opened
  <2>1. s = t /\ rows[t] = None BY <1>2 DEF OpenSetup, stamps, IInv, TypeOK
  <2>. QED BY <2>1 DEF IInv, OpenedHaveRows
<1>3. ASSUME NEW t \in Setup, Observe(t) PROVE FALSE
  <2>1. t \in Tracked /\ tracked[t] = rows[t] BY <1>3 DEF Observe, IInv, Agrees
  <2>. QED BY <1>3, <2>1 DEF Observe, Record, IInv, TypeOK
<1>4. ~(CandleCloses \/ CandleMissed \/ Goes \/ Crash \/ Restart \/ UNCHANGED vars)
  BY DEF CandleCloses, CandleMissed, Goes, Crash, Restart, vars
<1>. QED BY <1>1, <1>2, <1>3, <1>4 DEF Next

\* A setup waits for the candle after the one that opened it.
THEOREM NewSetupsWait == Spec => OpensThenWaits
<1>1. IInv /\ [Next]_vars => [\A s \in Setup : rows'[s] # rows[s] => s \notin opened]_vars
  BY MovesOld
<1>. QED BY <1>1, Invariance, PTL DEF Spec, OpensThenWaits
=============================================================================
