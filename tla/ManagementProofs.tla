-------------------------- MODULE ManagementProofs --------------------------
(***************************************************************************)
(* Theorems about Management, for every exit policy, every range of quotes *)
(* and every set of executors: its inductive invariant, and that the stop  *)
(* never loosens and an exit is never taken back.                          *)
(***************************************************************************)
EXTENDS Management, TLAPS

-----------------------------------------------------------------------------
(* What the exit manager returns.                                            *)

LEMMA Policy ==
    /\ ActivationMove \in Nat /\ MinimumLock \in Nat /\ ExecutableBuffer \in Nat
    /\ TrailPercent \in Nat /\ TightenPercent \in Nat
    /\ TightenGiveback \in Nat /\ EmergencyGiveback \in Nat
    /\ InitialStop \in Int /\ InitialStop < 0
    /\ LowestMove \in Int /\ HighestMove \in Nat /\ MaxFaults \in Nat
    /\ Move \subseteq Int /\ Stop \subseteq Int /\ InitialStop \in Stop
  BY ExitPolicy, ManagementAssumption DEF Move, Stop

\* A quote makes the state one with the higher peak.
LEMMA SeenIsState ==
    ASSUME NEW s \in State, NEW move \in Move
    PROVE  /\ Seen(s, move) \in State
           /\ Seen(s, move).stop = s.stop /\ Seen(s, move).phase = s.phase
           /\ Seen(s, move).trailing = s.trailing
<1>1. Higher(s.peak, move) \in Nat BY Policy DEF State, Higher
<1>. QED BY <1>1 DEF Seen, State

\* The proposal is a move no higher than the quote.
LEMMA ProposalBelowQuote ==
    ASSUME NEW s \in State, NEW move \in Move, NEW view \in View
    PROVE  ProposedStop(s, move, view) \in Int /\ ProposedStop(s, move, view) <= move
<1>1. Percent(s, move, view) \in Nat BY Policy DEF Percent
<1>2. s.peak * Percent(s, move, view) \in Nat BY <1>1 DEF State
<1>3. (s.peak * Percent(s, move, view)) \div 100 \in Int BY <1>2
<1> DEFINE trail == (s.peak * Percent(s, move, view)) \div 100
<1>4. Higher(MinimumLock, trail) \in Int BY <1>3, Policy DEF Higher
<1> HIDE DEF trail
<1>5. ProposedStop(s, move, view) = Lower(Higher(MinimumLock, trail), move - ExecutableBuffer)
  BY DEF ProposedStop, trail
<1>. QED BY <1>4, <1>5, Policy DEF Lower

\* The ratchet leaves the peak and the phase, and never lowers the stop.
LEMMA RatchetTightens ==
    ASSUME NEW s \in State, s.stop \in Stop, NEW move \in Move, NEW view \in View
    PROVE  LET kept == Ratcheted(s, move, view) IN
           /\ kept \in State /\ kept.stop \in Stop /\ kept.stop >= s.stop
           /\ kept.phase = s.phase
<1> DEFINE proposed == ProposedStop(s, move, view)
<1>1. proposed \in Int /\ proposed <= move BY ProposalBelowQuote
<1>2. s.stop \in Int /\ s.stop >= InitialStop /\ move \in Int /\ move <= HighestMove
  BY Policy DEF Move, Stop
<1> HIDE DEF proposed
<1>3. Ratcheted(s, move, view) \in {s, [s EXCEPT !.stop = proposed, !.trailing = TRUE]}
      /\ (Ratcheted(s, move, view) # s => proposed > s.stop)
  BY <1>1, <1>2 DEF Ratcheted, proposed
<1>4. ASSUME proposed > s.stop PROVE proposed \in Stop
  BY <1>1, <1>2, <1>4, Policy DEF Stop
<1>5. CASE Ratcheted(s, move, view) = s
  BY <1>2, <1>5
<1>6. CASE Ratcheted(s, move, view) # s
  <2>1. Ratcheted(s, move, view) = [s EXCEPT !.stop = proposed, !.trailing = TRUE]
    BY <1>3, <1>6
  <2>2. proposed > s.stop /\ proposed \in Stop BY <1>3, <1>4, <1>6
  <2>3. [s EXCEPT !.stop = proposed, !.trailing = TRUE] \in State BY <1>1 DEF State
  <2>. QED BY <1>1, <1>2, <2>1, <2>2, <2>3 DEF State
<1>. QED BY <1>5, <1>6

\* The assessment of a quote is a state whose stop is no looser.
LEMMA AssessmentTightens ==
    ASSUME NEW s \in State, s.stop \in Stop, NEW move \in Move, NEW view \in View
    PROVE  /\ Assessed(s, move, view) \in State
           /\ Assessed(s, move, view).stop \in Stop
           /\ Assessed(s, move, view).stop >= s.stop
<1> DEFINE seen == Seen(s, move)
           kept == Ratcheted(seen, move, view)
<1>1. seen \in State /\ seen.stop = s.stop BY SeenIsState
<1>2. kept \in State /\ kept.stop \in Stop /\ kept.stop >= s.stop
  BY <1>1, RatchetTightens
<1>3. seen.stop \in Int BY <1>1, Policy
<1>4. NextPhase(kept) \in Phase BY <1>2 DEF NextPhase, State, Phase
<1>5. Assessed(s, move, view) \in {[seen EXCEPT !.phase = "EXIT_PENDING"],
                                   [kept EXCEPT !.phase = NextPhase(kept)]}
  BY DEF Assessed
<1>6. "EXIT_PENDING" \in Phase BY DEF Phase
<1> HIDE DEF seen, kept
<1>. QED BY <1>1, <1>2, <1>3, <1>4, <1>5, <1>6 DEF State

\* From EXIT_PENDING a legal assessment leads nowhere else.
LEMMA ExitIsKept ==
    ASSUME NEW s \in State, s.phase = "EXIT_PENDING", NEW move \in Move, NEW view \in View,
           s.stop \in Stop, MayAssess(s, move, view)
    PROVE  Assessed(s, move, view).phase = "EXIT_PENDING"
<1>1. ManagementTransitions["EXIT_PENDING"] = {"CLOSED"}
  BY DEF ManagementTransitions, Phase
<1> DEFINE seen == Seen(s, move)
           kept == Ratcheted(seen, move, view)
<1>2. seen \in State /\ seen.stop = s.stop /\ seen.phase = "EXIT_PENDING" BY SeenIsState
<1>3. kept \in State /\ kept.phase = "EXIT_PENDING" BY <1>2, RatchetTightens
<1>4. NextPhase(kept) \in {"TRAILING", "PROTECTION_PENDING", "EXIT_PENDING"}
  BY <1>3 DEF NextPhase
<1>5. Assessed(s, move, view) \in {[seen EXCEPT !.phase = "EXIT_PENDING"],
                                   [kept EXCEPT !.phase = NextPhase(kept)]}
  BY DEF Assessed
<1>6. Assessed(s, move, view).phase \in {"TRAILING", "PROTECTION_PENDING", "EXIT_PENDING"}
  <2> HIDE DEF seen, kept
  <2>. QED BY <1>2, <1>3, <1>4, <1>5 DEF State
<1>. QED BY <1>1, <1>6 DEF MayAssess

-----------------------------------------------------------------------------
(* What the parts of an action do to the types.                              *)

WorkerState == [step : {"idle", "polling", "perform", "resolve"},
                at : Control, queue : SUBSET Control, ok : BOOLEAN]

LEMMA ControlNames ==
    /\ Close \in Control /\ HumanClose \in Control
    /\ \A s \in Stop : ModifyStop(s) \in Control /\ ModifyStop(s) # HumanClose
    /\ \A s \in State : s.stop \in Stop => Asked(s) \subseteq Control
  BY DEF Control, Asked, Close, HumanClose, ModifyStop

LEMMA IdleIsWorker == Idle \in WorkerState
  BY ControlNames DEF Idle, WorkerState

\* A request is written in one row, its status the only one that changes.
LEMMA WriteOne ==
    ASSUME TypeOK, WrittenOnce, NEW c \in Control, Written(c)
    PROVE  /\ controls' \in [Control -> ControlStatus]
           /\ written' \in Seq(Control) /\ IsInjective(written')
           /\ WrittenOnce'
           /\ \A d \in Control : controls'[d] # controls[d] =>
                d = c /\ controls[d] = "ABSENT" /\ controls'[d] = "REQUESTED"
<1>0. /\ controls \in [Control -> ControlStatus]
      /\ written \in Seq(Control) /\ IsInjective(written)
  BY DEF TypeOK
<1>1. CASE controls[c] # "ABSENT"
  BY <1>0, <1>1 DEF Written, store, WrittenOnce
<1>2. CASE controls[c] = "ABSENT"
  <2>1. controls' = [controls EXCEPT ![c] = "REQUESTED"] /\ written' = Append(written, c)
    BY <1>2 DEF Written
  <2>2. controls' \in [Control -> ControlStatus] BY <1>0, <2>1 DEF ControlStatus
  <2>3. /\ written' \in Seq(Control)
        /\ DOMAIN written' = 1..(Len(written) + 1)
        /\ \A i \in 1..Len(written) : written'[i] = written[i]
        /\ written'[Len(written) + 1] = c
    BY <1>0, <2>1
  <2>4. c \notin Range(written) BY <1>2 DEF WrittenOnce
  <2>5. \A i \in 1..Len(written) : written[i] # c BY <1>0, <2>4 DEF Range
  <2>6. \A i, j \in 1..Len(written) : written[i] = written[j] => i = j
    BY <1>0 DEF IsInjective
  <2>7. IsInjective(written')
    <3> SUFFICES ASSUME NEW i \in 1..(Len(written) + 1), NEW j \in 1..(Len(written) + 1),
                        written'[i] = written'[j]
                 PROVE  i = j
      BY <2>3 DEF IsInjective
    <3>1. Len(written) \in Nat BY <1>0
    <3>2. i \in 1..Len(written) \/ i = Len(written) + 1 BY <3>1
    <3>3. j \in 1..Len(written) \/ j = Len(written) + 1 BY <3>1
    <3>. QED BY <2>3, <2>5, <2>6, <3>2, <3>3
  <2>8. Range(written') = Range(written) \cup {c}
    <3>1. Len(written) \in Nat /\ DOMAIN written = 1..Len(written) BY <1>0
    <3>2. 1..(Len(written) + 1) = 1..Len(written) \cup {Len(written) + 1} BY <3>1
    <3>. QED BY <2>3, <3>1, <3>2 DEF Range
  <2>9. WrittenOnce' BY <1>0, <2>1, <2>8 DEF WrittenOnce
  <2>. QED BY <1>0, <1>2, <2>1, <2>2, <2>3, <2>7, <2>9
<1>. QED BY <1>1, <1>2

\* A worker that goes on with its list, or ends its poll, has nothing in hand.
LEMMA PollingOn ==
    ASSUME TypeOK, NEW e \in Executor, NEW queue \in SUBSET Control, Polling(e, queue)
    PROVE  /\ worker' \in [Executor -> WorkerState]
           /\ worker'[e].step \in {"idle", "polling"}
           /\ \A f \in Executor : f # e => worker'[f] = worker[f]
<1>1. worker \in [Executor -> WorkerState] BY DEF TypeOK, WorkerState
<1>2. [Idle EXCEPT !.step = "polling", !.queue = queue] \in WorkerState
  BY ControlNames DEF Idle, WorkerState
<1>3. Idle.step = "idle" /\ [Idle EXCEPT !.step = "polling", !.queue = queue].step = "polling"
  BY DEF Idle
<1>. QED BY <1>1, <1>2, <1>3, IdleIsWorker DEF Polling

\* A call's answer leaves the request in the worker's hands.
LEMMA Answered ==
    ASSUME TypeOK, NEW e \in Executor, NEW ok \in BOOLEAN, Answer(e, ok)
    PROVE  /\ worker' \in [Executor -> WorkerState]
           /\ worker'[e].step = "resolve" /\ worker'[e].at = worker[e].at
           /\ worker'[e].ok = ok
           /\ \A f \in Executor : f # e => worker'[f] = worker[f]
<1>1. worker \in [Executor -> WorkerState] BY DEF TypeOK, WorkerState
<1>2. worker' = [worker EXCEPT ![e] = [[worker[e] EXCEPT !.step = "resolve"] EXCEPT !.ok = ok]]
  BY <1>1 DEF Answer
<1>3. [[worker[e] EXCEPT !.step = "resolve"] EXCEPT !.ok = ok] \in WorkerState
  BY <1>1 DEF WorkerState
<1>. QED BY <1>1, <1>2, <1>3 DEF WorkerState

\* One assessment: the monitor's state or the one it is about to write.
LEMMA AssessStates ==
    ASSUME TypeOK, MonitorIsAhead, Assess
    PROVE  \E s \in State :
             /\ s.stop \in Stop /\ s.stop >= trade.stop
             /\ trade.phase = "EXIT_PENDING" => s.phase = "EXIT_PENDING" /\ Asked(s) = {}
             /\ \/ trade' = s /\ UNCHANGED monitor
                \/ /\ UNCHANGED trade /\ Asked(s) # {}
                   /\ monitor' \in [step : {"create"}, next : {s}, asked : Asked(s)]
<1>0. trade \in State /\ trade.stop \in Stop BY DEF TypeOK, MonitorIsAhead
<1>1. PICK move \in Move, view \in View :
        LET s == Assessed(trade, move, view) IN
         /\ MayAssess(trade, move, view)
         /\ IF Asked(s) = {}
              THEN trade' = s /\ UNCHANGED monitor
              ELSE /\ monitor' \in [step : {"create"}, next : {s}, asked : Asked(s)]
                   /\ UNCHANGED trade
  BY DEF Assess
<1> DEFINE s == Assessed(trade, move, view)
<1>2. s \in State /\ s.stop \in Stop /\ s.stop >= trade.stop
  BY <1>0, AssessmentTightens
<1>3. trade.phase = "EXIT_PENDING" => s.phase = "EXIT_PENDING"
  BY <1>0, <1>1, ExitIsKept
<1> HIDE DEF s
<1>4. trade.phase = "EXIT_PENDING" /\ s.phase = "EXIT_PENDING" => Asked(s) = {}
  BY DEF Asked
<1>5. IF Asked(s) = {}
        THEN trade' = s /\ UNCHANGED monitor
        ELSE /\ monitor' \in [step : {"create"}, next : {s}, asked : Asked(s)]
             /\ UNCHANGED trade
  BY <1>1 DEF s
<1>. QED BY <1>2, <1>3, <1>4, <1>5

-----------------------------------------------------------------------------
(* The inductive invariant.                                                  *)

LEMMA InitInv == Init => IInv
<1> SUFFICES ASSUME Init PROVE IInv
  OBVIOUS
<1>1. Opened \in State /\ Opened.stop \in Stop
  BY Policy DEF Opened, State, Phase
<1>2. TypeOK
  <2>1. Resting \in [step : {"idle", "create", "persist"}, next : State, asked : Control]
    BY <1>1, ControlNames DEF Resting
  <2>2. \A e \in Executor : Idle \in WorkerState BY IdleIsWorker
  <2>3. <<>> \in Seq(Control) /\ IsInjective(<<>>) BY DEF IsInjective
  <2>. QED BY <1>1, <2>1, <2>2, <2>3, Policy DEF Init, TypeOK, ControlStatus, WorkerState
<1>3. MonitorIsAhead BY <1>1 DEF Init, MonitorIsAhead, Resting
<1>4. HandsAreExclusive /\ CalledAtMostOnce
  BY DEF Init, HandsAreExclusive, InHand, Idle, CalledAtMostOnce
<1>5. WrittenOnce BY DEF Init, WrittenOnce, Range
<1>6. DoneIsDone /\ CompletedCloseIsTrue
  BY ControlNames DEF Init, DoneIsDone, Idle, CompletedCloseIsTrue
<1>. QED BY <1>2, <1>3, <1>4, <1>5, <1>6 DEF IInv

\* The position leaves, a human asks, or the monitor acts: no worker moves.
MonitorSide == PositionGoes \/ HumanAsks \/ Monitor \/ MonitorCrash

\* What a step of the monitor's side does to the control requests: at most one
\* new row.
LEMMA MonitorSideStore ==
    ASSUME IInv, MonitorSide
    PROVE  /\ controls' \in [Control -> ControlStatus]
           /\ written' \in Seq(Control) /\ IsInjective(written')
           /\ WrittenOnce'
           /\ \A d \in Control : controls'[d] # controls[d] =>
                /\ controls[d] = "ABSENT" /\ controls'[d] = "REQUESTED"
                /\ (HumanAsks /\ d = HumanClose) \/ monitor.step = "create"
           /\ UNCHANGED <<worker, calls>>
           /\ live' \in BOOLEAN /\ (~live => ~live')
<1> USE DEF IInv
<1>0. TypeOK /\ WrittenOnce OBVIOUS
<1>1. CASE HumanAsks
  BY <1>0, <1>1, WriteOne, ControlNames DEF HumanAsks, broker, TypeOK
<1>2. CASE CreateControl /\ Written(monitor.asked)
  <2>1. monitor.asked \in Control BY DEF TypeOK
  <2>2. /\ controls' \in [Control -> ControlStatus]
        /\ written' \in Seq(Control) /\ IsInjective(written')
        /\ WrittenOnce'
        /\ \A d \in Control : controls'[d] # controls[d] =>
                d = monitor.asked /\ controls[d] = "ABSENT" /\ controls'[d] = "REQUESTED"
    BY <1>0, <1>2, <2>1, WriteOne
  <2>. QED BY <1>2, <2>2 DEF CreateControl, broker, TypeOK
<1>3. CASE UNCHANGED <<controls, written>>
  <2>1. UNCHANGED <<worker, calls>>
    BY DEF MonitorSide, PositionGoes, HumanAsks, Monitor, RecordClose, Assess,
           CreateControl, Persist, MonitorCrash
  <2>2. UNCHANGED live \/ live' = FALSE
    BY DEF MonitorSide, PositionGoes, HumanAsks, Monitor, RecordClose, Assess,
           CreateControl, Persist, MonitorCrash, broker
  <2>3. live \in BOOLEAN BY <1>0 DEF TypeOK
  <2>4. live' \in BOOLEAN BY <2>2, <2>3
  <2>5. ~live => ~live' BY <2>2
  <2>. QED BY <1>3, <2>1, <2>4, <2>5 DEF TypeOK, WrittenOnce
<1>. QED
  BY <1>1, <1>2, <1>3 DEF MonitorSide, PositionGoes, Monitor, RecordClose, Assess,
                          CreateControl, Persist, MonitorCrash, store

\* The monitor's own variables, over a step of its side.
LEMMA MonitorSideTrade ==
    ASSUME IInv, MonitorSide
    PROVE  /\ trade' \in State
           /\ monitor' \in [step : {"idle", "create", "persist"}, next : State, asked : Control]
           /\ MonitorIsAhead'
           /\ trade'.stop >= trade.stop
           /\ trade.phase = "EXIT_PENDING" => trade'.phase \in {"EXIT_PENDING", "CLOSED"}
<1>0. /\ trade \in State /\ TypeOK /\ MonitorIsAhead
      /\ monitor \in [step : {"idle", "create", "persist"}, next : State, asked : Control]
      /\ trade.stop \in Int
  BY DEF IInv, TypeOK, State
<1>1. /\ Resting \in [step : {"idle", "create", "persist"}, next : State, asked : Control]
      /\ Resting.step = "idle" /\ Resting.next.stop \in Stop
  BY Policy, ControlNames DEF Resting, Opened, State, Phase
<1>2. CASE UNCHANGED <<trade, monitor>>
  BY <1>0, <1>2 DEF MonitorIsAhead
<1>3. CASE RecordClose
  <2>1. /\ trade' \in State /\ trade'.stop = trade.stop /\ trade'.phase = "CLOSED"
        /\ UNCHANGED monitor
    BY <1>0, <1>3 DEF RecordClose, State, Phase
  <2>. QED BY <1>0, <1>3, <2>1 DEF RecordClose, MonitorIsAhead
<1>4. CASE Assess
  <2>1. PICK s \in State :
             /\ s.stop \in Stop /\ s.stop >= trade.stop
             /\ trade.phase = "EXIT_PENDING" => s.phase = "EXIT_PENDING" /\ Asked(s) = {}
             /\ \/ trade' = s /\ UNCHANGED monitor
                \/ /\ UNCHANGED trade /\ Asked(s) # {}
                   /\ monitor' \in [step : {"create"}, next : {s}, asked : Asked(s)]
    BY <1>0, <1>4, AssessStates
  <2>2. monitor.step = "idle" BY <1>4 DEF Assess
  <2>3. CASE trade' = s /\ UNCHANGED monitor
    BY <1>0, <2>1, <2>2, <2>3 DEF MonitorIsAhead
  <2>4. CASE /\ UNCHANGED trade /\ Asked(s) # {}
             /\ monitor' \in [step : {"create"}, next : {s}, asked : Asked(s)]
    <3>1. Asked(s) \subseteq Control BY <2>1, ControlNames
    <3>2. monitor'.next = s /\ monitor'.step = "create" BY <2>4
    <3>3. monitor' \in [step : {"idle", "create", "persist"}, next : State, asked : Control]
      BY <2>1, <2>4, <3>1
    <3>. QED BY <1>0, <2>1, <2>4, <3>2, <3>3 DEF MonitorIsAhead
  <2>. QED BY <2>1, <2>3, <2>4
<1>5. CASE CreateControl
  <2>1. /\ monitor' = [monitor EXCEPT !.step = "persist"] /\ UNCHANGED trade
        /\ monitor.step = "create"
    BY <1>5 DEF CreateControl
  <2>2. /\ monitor' \in [step : {"idle", "create", "persist"}, next : State, asked : Control]
        /\ monitor'.next = monitor.next
    BY <1>0, <2>1
  <2>. QED BY <1>0, <2>1, <2>2 DEF MonitorIsAhead
<1>6. CASE Persist
  <2>1. /\ monitor' = Resting /\ monitor.step = "persist"
        /\ trade' = monitor.next \/ trade' = trade
    BY <1>6 DEF Persist
  <2>. QED BY <1>0, <1>1, <2>1 DEF MonitorIsAhead
<1>7. CASE MonitorCrash
  BY <1>0, <1>1, <1>7 DEF MonitorCrash, MonitorIsAhead
<1>. QED BY <1>2, <1>3, <1>4, <1>5, <1>6, <1>7
            DEF MonitorSide, PositionGoes, HumanAsks, Monitor

\* A step of the monitor's side keeps the invariant.
LEMMA MonitorSideInv ==
    ASSUME IInv, MonitorSide
    PROVE  IInv'
<1>1. TypeOK'
  <2>1. brokerStop' \in Stop /\ faults' \in 0..MaxFaults
    BY Policy DEF IInv, TypeOK, MonitorSide, PositionGoes, HumanAsks, Monitor, RecordClose,
       Assess, CreateControl, Persist, MonitorCrash, broker, Fault
  <2>. QED BY <2>1, MonitorSideStore, MonitorSideTrade DEF IInv, TypeOK
<1>2. HandsAreExclusive' /\ CalledAtMostOnce'
  BY MonitorSideStore DEF IInv, HandsAreExclusive, CalledAtMostOnce, InHand
<1>3. DoneIsDone' /\ CompletedCloseIsTrue'
  BY MonitorSideStore, ControlNames DEF IInv, DoneIsDone, CompletedCloseIsTrue
<1>. QED BY <1>1, <1>2, <1>3, MonitorSideStore, MonitorSideTrade DEF IInv

-----------------------------------------------------------------------------
(* The workers' side.                                                        *)

\* One worker moved and the others did not.
Moved(e) ==
    /\ worker' \in [Executor -> WorkerState]
    /\ \A f \in Executor : f # e => worker'[f] = worker[f]

\* No call was made, or the one of the request in hand.
CallsOnce(e) ==
    \/ UNCHANGED calls
    \/ worker[e].step = "perform" /\ Called(worker[e].at)

LEMMA CallsStep ==
    ASSUME IInv, NEW e \in Executor, CallsOnce(e)
    PROVE  /\ calls' \in [Control -> Nat] /\ CalledAtMostOnce'
           /\ \A c \in Control : calls'[c] # calls[c] =>
                c = worker[e].at /\ InHand(e, c) /\ controls[c] = "EXECUTING"
<1>0. calls \in [Control -> Nat] /\ CalledAtMostOnce /\ worker[e].at \in Control
  BY DEF IInv, TypeOK
<1>1. CASE UNCHANGED calls
  BY <1>0, <1>1 DEF CalledAtMostOnce
<1>2. CASE worker[e].step = "perform" /\ Called(worker[e].at)
  <2>1. InHand(e, worker[e].at) BY <1>2 DEF InHand
  <2>2. calls[worker[e].at] = 0 /\ controls[worker[e].at] = "EXECUTING"
    BY <1>0, <1>2, <2>1 DEF IInv, HandsAreExclusive
  <2>3. calls' = [calls EXCEPT ![worker[e].at] = 1]
    BY <1>0, <1>2, <2>2 DEF Called
  <2>. QED BY <1>0, <2>1, <2>2, <2>3 DEF CalledAtMostOnce
<1>. QED BY <1>1, <1>2 DEF CallsOnce

\* A worker that puts its request down, having written at most its outcome.
LEMMA PutDown ==
    ASSUME IInv, NEW e \in Executor, Moved(e), CallsOnce(e),
           worker'[e].step \in {"idle", "polling"},
           controls' \in [Control -> ControlStatus],
           \A c \in Control : controls'[c] # controls[c] =>
               InHand(e, c) /\ controls'[c] \in {"COMPLETED", "FAILED"}
    PROVE  HandsAreExclusive' /\ CalledAtMostOnce'
<1>0. HandsAreExclusive BY DEF IInv
<1>1. \A f \in Executor, c \in Control : InHand(f, c)' => f # e /\ InHand(f, c)
  BY DEF InHand, Moved
<1>2. ASSUME NEW f \in Executor, NEW c \in Control, InHand(f, c)'
      PROVE  /\ controls'[c] = "EXECUTING" /\ calls'[c] = calls[c]
             /\ worker'[f].step = "perform" => calls'[c] = 0
             /\ \A g \in Executor : InHand(g, c)' => g = f
  <2>1. f # e /\ InHand(f, c) /\ worker'[f] = worker[f] BY <1>1, <1>2 DEF Moved
  <2>2. ~InHand(e, c) BY <1>0, <2>1 DEF HandsAreExclusive
  <2>3. controls'[c] = controls[c] /\ calls'[c] = calls[c] BY <2>2, CallsStep
  <2>. QED BY <1>0, <1>1, <2>1, <2>3 DEF HandsAreExclusive
<1>3. \A c \in Control : controls'[c] \in {"ABSENT", "REQUESTED"} => calls'[c] = 0
  BY <1>0, CallsStep DEF HandsAreExclusive
<1>4. HandsAreExclusive' BY <1>2, <1>3 DEF HandsAreExclusive
<1>. QED BY <1>4, CallsStep

\* A worker that has its answer still has its request.
LEMMA HoldOn ==
    ASSUME IInv, NEW e \in Executor, Moved(e), CallsOnce(e), UNCHANGED controls,
           worker[e].step = "perform", worker'[e].step = "resolve",
           worker'[e].at = worker[e].at
    PROVE  HandsAreExclusive' /\ CalledAtMostOnce'
<1>0. HandsAreExclusive BY DEF IInv
<1>1. \A f \in Executor, c \in Control : InHand(f, c)' <=> InHand(f, c)
  BY DEF InHand, Moved
<1>2. ASSUME NEW f \in Executor, NEW c \in Control, InHand(f, c)'
      PROVE  /\ controls'[c] = "EXECUTING"
             /\ worker'[f].step = "perform" => calls'[c] = 0
             /\ \A g \in Executor : InHand(g, c)' => g = f
  <2>1. InHand(f, c) /\ controls[c] = "EXECUTING" BY <1>0, <1>1, <1>2 DEF HandsAreExclusive
  <2>2. ASSUME worker'[f].step = "perform" PROVE calls'[c] = 0
    <3>1. f # e /\ worker'[f] = worker[f] BY <2>2 DEF Moved
    <3>2. ~InHand(e, c) BY <1>0, <2>1, <3>1 DEF HandsAreExclusive
    <3>3. calls'[c] = calls[c] BY <3>2, CallsStep
    <3>. QED BY <1>0, <2>1, <2>2, <3>1, <3>3 DEF HandsAreExclusive
  <2>. QED BY <1>0, <1>1, <2>1, <2>2 DEF HandsAreExclusive
<1>3. \A c \in Control : controls'[c] \in {"ABSENT", "REQUESTED"} => calls'[c] = 0
  BY <1>0, CallsStep DEF HandsAreExclusive
<1>. QED BY <1>2, <1>3, CallsStep DEF HandsAreExclusive

\* A worker that takes a request nobody has.
LEMMA TakeUp ==
    ASSUME IInv, NEW e \in Executor, Moved(e), UNCHANGED calls,
           ~\E c \in Control : InHand(e, c),
           NEW c \in Control, controls[c] = "REQUESTED",
           controls' = [controls EXCEPT ![c] = "EXECUTING"],
           worker'[e].step = "perform", worker'[e].at = c
    PROVE  HandsAreExclusive' /\ CalledAtMostOnce'
<1>0. HandsAreExclusive /\ controls \in [Control -> ControlStatus] /\ CalledAtMostOnce
  BY DEF IInv, TypeOK
<1>1. calls[c] = 0 BY <1>0 DEF HandsAreExclusive
<1>2. \A f \in Executor : ~InHand(f, c) BY <1>0 DEF HandsAreExclusive
<1>3. \A f \in Executor, d \in Control :
        InHand(f, d)' <=> IF f = e THEN d = c ELSE InHand(f, d)
  BY DEF InHand, Moved
<1>4. ASSUME NEW f \in Executor, NEW d \in Control, InHand(f, d)'
      PROVE  /\ controls'[d] = "EXECUTING"
             /\ worker'[f].step = "perform" => calls'[d] = 0
             /\ \A g \in Executor : InHand(g, d)' => g = f
  <2>1. CASE f = e
    BY <1>0, <1>1, <1>2, <1>3, <1>4, <2>1
  <2>2. CASE f # e
    <3>1. InHand(f, d) /\ d # c /\ worker'[f] = worker[f] BY <1>2, <1>3, <1>4, <2>2 DEF Moved
    <3>2. controls'[d] = controls[d] /\ calls'[d] = calls[d] BY <1>0, <3>1
    <3>. QED BY <1>0, <1>3, <3>1, <3>2 DEF HandsAreExclusive
  <2>. QED BY <2>1, <2>2
<1>5. \A d \in Control : controls'[d] \in {"ABSENT", "REQUESTED"} => calls'[d] = 0
  BY <1>0 DEF HandsAreExclusive
<1>6. CalledAtMostOnce' BY <1>0 DEF CalledAtMostOnce
<1>. QED BY <1>4, <1>5, <1>6 DEF HandsAreExclusive

\* What no step of a worker touches.
LEMMA WorkerFrame ==
    ASSUME NEW e \in Executor, Worker(e) \/ WorkerCrash(e)
    PROVE  UNCHANGED <<trade, monitor, written>>
  BY DEF Worker, Poll, Claim, Performs, Refuses, PerformsUnknown, Resolve,
         ResolveFails, WorkerCrash, store

\* The broker does what is asked of it, or nothing.
LEMMA EffectTypes ==
    ASSUME TypeOK, NEW c \in Control, Effect(c)
    PROVE  /\ live' \in BOOLEAN /\ brokerStop' \in Stop /\ live
           /\ c.kind = "CLOSE" => ~live'
<1>1. c.kind = "MODIFY_STOP" => c.stop \in Stop
  BY DEF Control, Close, HumanClose, ModifyStop
<1>2. brokerStop' \in Stop BY <1>1 DEF Effect, TypeOK
<1>3. live' = (c.kind # "CLOSE") /\ live BY DEF Effect
<1>4. live' \in BOOLEAN BY <1>3
<1>5. c.kind = "CLOSE" => ~live' BY <1>3
<1>. QED BY <1>2, <1>3, <1>4, <1>5

\* The conjuncts a worker disturbs only through the types and the broker.
LEMMA WorkerRest ==
    ASSUME IInv, NEW e \in Executor, Moved(e), UNCHANGED <<trade, monitor, written>>,
           live' \in BOOLEAN, ~live => ~live', brokerStop' \in Stop,
           controls' \in [Control -> ControlStatus], calls' \in [Control -> Nat],
           UNCHANGED faults \/ Fault,
           \A c \in Control : controls'[c] = "ABSENT" => controls[c] = "ABSENT",
           worker'[e].step = "resolve" /\ worker'[e].ok /\ worker'[e].at.kind = "CLOSE"
               => ~live',
           \A c \in {Close, HumanClose} :
               controls'[c] = "COMPLETED" => controls[c] = "COMPLETED" \/ ~live
    PROVE  TypeOK' /\ MonitorIsAhead' /\ WrittenOnce' /\ DoneIsDone' /\ CompletedCloseIsTrue'
<1>0. TypeOK /\ MonitorIsAhead /\ WrittenOnce /\ DoneIsDone /\ CompletedCloseIsTrue
  BY DEF IInv
<1>1. faults' \in 0..MaxFaults BY <1>0, Policy DEF TypeOK, Fault
<1>2. TypeOK'
  <2>1. /\ trade' \in State
        /\ monitor' \in [step : {"idle", "create", "persist"}, next : State, asked : Control]
        /\ written' \in Seq(Control) /\ IsInjective(written')
    BY <1>0 DEF TypeOK
  <2>2. worker' \in [Executor ->
            [step : {"idle", "polling", "perform", "resolve"},
             at : Control, queue : SUBSET Control, ok : BOOLEAN]]
    BY DEF Moved, WorkerState
  <2>. QED BY <1>1, <2>1, <2>2 DEF TypeOK
<1>3. MonitorIsAhead' BY <1>0 DEF MonitorIsAhead
<1>4. WrittenOnce' BY <1>0 DEF WrittenOnce
<1>5. DoneIsDone'
  <2> SUFFICES ASSUME NEW f \in Executor, worker'[f].step = "resolve", worker'[f].ok,
                      worker'[f].at.kind = "CLOSE"
               PROVE  ~live'
    BY DEF DoneIsDone
  <2>1. CASE f = e BY <2>1
  <2>2. CASE f # e BY <1>0, <2>2 DEF DoneIsDone, Moved
  <2>. QED BY <2>1, <2>2
<1>6. CompletedCloseIsTrue'
  <2> SUFFICES ASSUME NEW c \in {Close, HumanClose}, controls'[c] = "COMPLETED"
               PROVE  ~live'
    BY ControlNames DEF CompletedCloseIsTrue, Close, HumanClose
  <2>1. controls[c] = "COMPLETED" \/ ~live OBVIOUS
  <2>2. ~live BY <1>0, <2>1 DEF CompletedCloseIsTrue
  <2>. QED BY <2>2
<1>. QED BY <1>2, <1>3, <1>4, <1>5, <1>6

\* A poll and its claims keep the invariant.
LEMMA ListingInv ==
    ASSUME IInv, NEW e \in Executor, Poll(e) \/ Claim(e)
    PROVE  IInv'
<1>0. TypeOK /\ controls \in [Control -> ControlStatus] /\ calls \in [Control -> Nat]
      /\ worker \in [Executor -> WorkerState] /\ live \in BOOLEAN /\ brokerStop \in Stop
  BY DEF IInv, TypeOK, WorkerState
<1>f. UNCHANGED <<trade, monitor, written>> BY WorkerFrame DEF Worker
<1>1. CASE Poll(e)
  <2>1. Listed \in SUBSET Control BY DEF Listed
  <2>2. Polling(e, Listed) /\ UNCHANGED <<live, brokerStop, controls, calls, faults>>
    BY <1>1 DEF Poll, broker, store
  <2>3. Moved(e) /\ worker'[e].step \in {"idle", "polling"}
    BY <1>0, <2>1, <2>2, PollingOn DEF Moved
  <2>4. CallsOnce(e) BY <2>2 DEF CallsOnce
  <2>5. HandsAreExclusive' /\ CalledAtMostOnce' BY <1>0, <2>2, <2>3, <2>4, PutDown
  <2>6. TypeOK' /\ MonitorIsAhead' /\ WrittenOnce' /\ DoneIsDone' /\ CompletedCloseIsTrue'
    BY <1>0, <1>f, <2>2, <2>3, WorkerRest
  <2>. QED BY <2>5, <2>6 DEF IInv
<1>2. CASE Claim(e)
  <2>1. PICK c \in worker[e].queue :
          IF MayClaim(c)
            THEN /\ controls' = [controls EXCEPT ![c] = "EXECUTING"]
                 /\ worker' = [worker EXCEPT ![e] =
                        [step |-> "perform", at |-> c, queue |-> @.queue \ {c}, ok |-> FALSE]]
            ELSE /\ worker' = [worker EXCEPT ![e] = Idle]
                 /\ UNCHANGED controls
    BY <1>2 DEF Claim
  <2>2. /\ UNCHANGED <<live, brokerStop, calls, faults>> /\ worker[e].step = "polling"
    BY <1>2 DEF Claim, broker
  <2>3. c \in Control /\ worker[e].queue \ {c} \in SUBSET Control
    BY <1>0 DEF WorkerState
  <2>4. CASE MayClaim(c)
    <3>1. controls[c] = "REQUESTED" /\ controls' = [controls EXCEPT ![c] = "EXECUTING"]
      BY <2>1, <2>4 DEF MayClaim
    <3>2. worker' = [worker EXCEPT ![e] =
             [step |-> "perform", at |-> c, queue |-> worker[e].queue \ {c}, ok |-> FALSE]]
      BY <2>1, <2>4
    <3>3. [step |-> "perform", at |-> c, queue |-> worker[e].queue \ {c}, ok |-> FALSE]
             \in WorkerState
      BY <2>3 DEF WorkerState
    <3>4. Moved(e) /\ worker'[e].step = "perform" /\ worker'[e].at = c
      BY <1>0, <3>2, <3>3 DEF Moved
    <3>5. ~\E d \in Control : InHand(e, d) BY <2>2 DEF InHand
    <3>6. HandsAreExclusive' /\ CalledAtMostOnce' BY <2>2, <2>3, <3>1, <3>4, <3>5, TakeUp
    <3>7. controls' \in [Control -> ControlStatus] BY <1>0, <3>1 DEF ControlStatus
    <3>8. \A d \in Control : controls'[d] \in {"ABSENT", "COMPLETED"} => controls'[d] = controls[d]
      BY <1>0, <3>1
    <3>9. TypeOK' /\ MonitorIsAhead' /\ WrittenOnce' /\ DoneIsDone' /\ CompletedCloseIsTrue'
      BY <1>0, <1>f, <2>2, <3>4, <3>7, <3>8, ControlNames, WorkerRest
    <3>. QED BY <3>6, <3>9 DEF IInv
  <2>5. CASE ~MayClaim(c)
    <3>1. worker' = [worker EXCEPT ![e] = Idle] /\ UNCHANGED controls BY <2>1, <2>5
    <3>2. Moved(e) /\ worker'[e].step = "idle"
      BY <1>0, <3>1, IdleIsWorker DEF Moved, Idle
    <3>3. CallsOnce(e) BY <2>2 DEF CallsOnce
    <3>4. HandsAreExclusive' /\ CalledAtMostOnce' BY <1>0, <3>1, <3>2, <3>3, PutDown
    <3>5. TypeOK' /\ MonitorIsAhead' /\ WrittenOnce' /\ DoneIsDone' /\ CompletedCloseIsTrue'
      BY <1>0, <1>f, <2>2, <3>1, <3>2, WorkerRest
    <3>. QED BY <3>4, <3>5 DEF IInv
  <2>. QED BY <2>4, <2>5
<1>. QED BY <1>1, <1>2

\* A broker call and its answer keep the invariant.
LEMMA PerformInv ==
    ASSUME IInv, NEW e \in Executor, Performs(e) \/ Refuses(e) \/ PerformsUnknown(e)
    PROVE  IInv'
<1>0. TypeOK /\ controls \in [Control -> ControlStatus]
      /\ worker \in [Executor -> WorkerState] /\ live \in BOOLEAN /\ brokerStop \in Stop
      /\ worker[e].at \in Control /\ worker[e].queue \in SUBSET Control
  BY DEF IInv, TypeOK, WorkerState
<1>1. UNCHANGED <<trade, monitor, written>> BY WorkerFrame DEF Worker
<1>2. UNCHANGED controls /\ worker[e].step = "perform"
  BY DEF Performs, Refuses, PerformsUnknown, store
<1>3. CallsOnce(e)
  BY <1>2 DEF CallsOnce, Performs, Refuses, PerformsUnknown
<1>4. calls' \in [Control -> Nat] BY <1>3, CallsStep
<1>5. UNCHANGED faults \/ Fault BY DEF Performs, Refuses, PerformsUnknown
<1>6. live' \in BOOLEAN /\ (~live => ~live') /\ brokerStop' \in Stop
  <2>1. CASE Effect(worker[e].at) BY <1>0, <2>1, EffectTypes
  <2>2. CASE UNCHANGED broker
    <3>1. live' = live /\ brokerStop' = brokerStop BY <2>2 DEF broker
    <3>2. live' \in BOOLEAN BY <1>0, <3>1
    <3>. QED BY <1>0, <3>1, <3>2
  <2>. QED BY <2>1, <2>2 DEF Performs, Refuses, PerformsUnknown
<1>7. CASE Performs(e)
  <2>1. Answer(e, TRUE) /\ Effect(worker[e].at) BY <1>7 DEF Performs
  <2>2. /\ Moved(e) /\ worker'[e].step = "resolve"
        /\ worker'[e].at = worker[e].at
    BY <1>0, <2>1, Answered DEF Moved
  <2>3. HandsAreExclusive' /\ CalledAtMostOnce' BY <1>2, <1>3, <2>2, HoldOn
  <2>4. worker'[e].at.kind = "CLOSE" => ~live' BY <1>0, <2>1, <2>2, EffectTypes
  <2>5. TypeOK' /\ MonitorIsAhead' /\ WrittenOnce' /\ DoneIsDone' /\ CompletedCloseIsTrue'
    BY <1>0, <1>1, <1>2, <1>4, <1>5, <1>6, <2>2, <2>4, WorkerRest
  <2>. QED BY <2>3, <2>5 DEF IInv
<1>8. CASE Refuses(e)
  <2>1. Answer(e, FALSE) BY <1>8 DEF Refuses
  <2>2. /\ Moved(e) /\ worker'[e].step = "resolve"
        /\ worker'[e].at = worker[e].at /\ worker'[e].ok = FALSE
    BY <1>0, <2>1, Answered DEF Moved
  <2>3. HandsAreExclusive' /\ CalledAtMostOnce' BY <1>2, <1>3, <2>2, HoldOn
  <2>4. ~worker'[e].ok BY <2>2
  <2>5. TypeOK' /\ MonitorIsAhead' /\ WrittenOnce' /\ DoneIsDone' /\ CompletedCloseIsTrue'
    BY <1>0, <1>1, <1>2, <1>4, <1>5, <1>6, <2>2, <2>4, WorkerRest
  <2>. QED BY <2>3, <2>5 DEF IInv
<1>9. CASE PerformsUnknown(e)
  <2>1. Polling(e, worker[e].queue) BY <1>9 DEF PerformsUnknown
  <2>2. Moved(e) /\ worker'[e].step \in {"idle", "polling"}
    BY <1>0, <2>1, PollingOn DEF Moved
  <2>3. HandsAreExclusive' /\ CalledAtMostOnce' BY <1>0, <1>2, <1>3, <2>2, PutDown
  <2>4. TypeOK' /\ MonitorIsAhead' /\ WrittenOnce' /\ DoneIsDone' /\ CompletedCloseIsTrue'
    BY <1>0, <1>1, <1>2, <1>4, <1>5, <1>6, <2>2, WorkerRest
  <2>. QED BY <2>3, <2>4 DEF IInv
<1>. QED BY <1>7, <1>8, <1>9

\* Recording the outcome, or losing it, keeps the invariant.
LEMMA OutcomeInv ==
    ASSUME IInv, NEW e \in Executor, Resolve(e) \/ ResolveFails(e) \/ WorkerCrash(e)
    PROVE  IInv'
<1>0. TypeOK /\ controls \in [Control -> ControlStatus] /\ calls \in [Control -> Nat]
      /\ worker \in [Executor -> WorkerState] /\ live \in BOOLEAN /\ brokerStop \in Stop
      /\ worker[e].at \in Control /\ worker[e].queue \in SUBSET Control
      /\ HandsAreExclusive /\ DoneIsDone
  BY DEF IInv, TypeOK, WorkerState
<1>1. UNCHANGED <<trade, monitor, written>> BY WorkerFrame DEF Worker
<1>2. /\ UNCHANGED <<live, brokerStop, calls>> /\ CallsOnce(e)
      /\ UNCHANGED faults \/ Fault
  BY DEF Resolve, ResolveFails, WorkerCrash, broker, CallsOnce
<1>3. CASE Resolve(e)
  <2>1. /\ worker[e].step = "resolve" /\ Polling(e, worker[e].queue)
        /\ controls' = [controls EXCEPT ![worker[e].at] = Outcome(e)]
    BY <1>3 DEF Resolve
  <2>2. Moved(e) /\ worker'[e].step \in {"idle", "polling"}
    BY <1>0, <2>1, PollingOn DEF Moved
  <2>3. InHand(e, worker[e].at) /\ controls[worker[e].at] = "EXECUTING"
    BY <1>0, <2>1 DEF InHand, HandsAreExclusive
  <2>4. Outcome(e) \in {"COMPLETED", "FAILED"} /\ (Outcome(e) = "COMPLETED" => worker[e].ok)
    BY DEF Outcome
  <2>5. controls' \in [Control -> ControlStatus] BY <1>0, <2>1, <2>4 DEF ControlStatus
  <2>6. \A c \in Control : controls'[c] # controls[c] =>
            c = worker[e].at /\ InHand(e, c) /\ controls'[c] \in {"COMPLETED", "FAILED"}
    BY <1>0, <2>1, <2>3, <2>4
  <2>7. HandsAreExclusive' /\ CalledAtMostOnce' BY <1>2, <2>2, <2>5, <2>6, PutDown
  <2>8. ASSUME NEW c \in {Close, HumanClose}, controls'[c] = "COMPLETED"
        PROVE  controls[c] = "COMPLETED" \/ ~live
    <3>1. c \in Control /\ c.kind = "CLOSE" BY ControlNames DEF Close, HumanClose
    <3>2. CASE controls'[c] # controls[c]
      <4>1. c = worker[e].at BY <2>6, <3>1, <3>2
      <4>2. worker[e].ok BY <1>0, <2>1, <2>4, <2>8, <4>1
      <4>. QED BY <1>0, <2>1, <3>1, <4>1, <4>2 DEF DoneIsDone
    <3>. QED BY <2>8, <3>2
  <2>9. TypeOK' /\ MonitorIsAhead' /\ WrittenOnce' /\ DoneIsDone' /\ CompletedCloseIsTrue'
    BY <1>0, <1>1, <1>2, <2>2, <2>5, <2>6, <2>8, WorkerRest
  <2>. QED BY <2>7, <2>9 DEF IInv
<1>4. CASE ResolveFails(e) \/ WorkerCrash(e)
  <2>1. worker' = [worker EXCEPT ![e] = Idle] /\ UNCHANGED controls
    BY <1>4 DEF ResolveFails, WorkerCrash, store
  <2>2. Moved(e) /\ worker'[e].step = "idle"
    BY <1>0, <2>1, IdleIsWorker DEF Moved, Idle
  <2>3. HandsAreExclusive' /\ CalledAtMostOnce' BY <1>0, <1>2, <2>1, <2>2, PutDown
  <2>4. TypeOK' /\ MonitorIsAhead' /\ WrittenOnce' /\ DoneIsDone' /\ CompletedCloseIsTrue'
    BY <1>0, <1>1, <1>2, <2>1, <2>2, WorkerRest
  <2>. QED BY <2>3, <2>4 DEF IInv
<1>. QED BY <1>3, <1>4

\* Stuttering too.
LEMMA StutterInv == IInv /\ UNCHANGED vars => IInv'
<1> SUFFICES ASSUME IInv, UNCHANGED vars PROVE IInv'
  OBVIOUS
<1>1. TypeOK' BY DEF IInv, TypeOK, vars
<1>2. MonitorIsAhead' /\ WrittenOnce' BY DEF IInv, MonitorIsAhead, WrittenOnce, vars
<1>3. HandsAreExclusive' BY DEF IInv, HandsAreExclusive, InHand, vars
<1>4. CalledAtMostOnce' BY DEF IInv, CalledAtMostOnce, vars
<1>5. DoneIsDone' /\ CompletedCloseIsTrue'
  BY DEF IInv, DoneIsDone, CompletedCloseIsTrue, vars
<1>. QED BY <1>1, <1>2, <1>3, <1>4, <1>5 DEF IInv

LEMMA StepInv == IInv /\ [Next]_vars => IInv'
  BY MonitorSideInv, ListingInv, PerformInv, OutcomeInv, StutterInv
     DEF Next, Worker, MonitorSide

-----------------------------------------------------------------------------
(* The theorems.                                                             *)

\* The invariant of the management path holds in every reachable state.
THEOREM Invariance == Spec => []IInv
  BY InitInv, StepInv, PTL DEF Spec

\* Every variable keeps its type, and no request has two rows.
THEOREM TypeCorrect == Spec => []TypeOK
  BY Invariance, PTL DEF IInv

\* A control request is sent to the broker at most once, whoever claims,
\* crashes or loses its outcome.
THEOREM SentAtMostOnce == Spec => []CalledAtMostOnce
  BY Invariance, PTL DEF IInv

\* A close the table calls COMPLETED has closed the position.
THEOREM CompletedMeansClosed == Spec => []CompletedCloseIsTrue
  BY Invariance, PTL DEF IInv

\* The recorded stop never loosens.
THEOREM StopOnlyTightens == Spec => StopNeverLoosens
<1>1. ASSUME IInv, [Next]_vars PROVE trade'.stop >= trade.stop
  <2>0. trade.stop \in Int BY <1>1 DEF IInv, TypeOK, State
  <2>1. CASE MonitorSide BY <1>1, <2>1, MonitorSideTrade
  <2>2. CASE UNCHANGED trade BY <2>0, <2>2
  <2>. QED BY <1>1, <2>1, <2>2, WorkerFrame DEF Next, MonitorSide, vars
<1>. QED BY <1>1, Invariance, PTL DEF Spec, StopNeverLoosens

\* From EXIT_PENDING the trade only closes, and no stop is requested any more.
THEOREM ExitStands == Spec => ExitIsFinal
<1> DEFINE Final ==
      trade.phase = "EXIT_PENDING" =>
         /\ trade'.phase \in {"EXIT_PENDING", "CLOSED"}
         /\ \A s \in Stop : controls[ModifyStop(s)] = "ABSENT"
                => controls'[ModifyStop(s)] = "ABSENT"
<1>1. ASSUME IInv, [Next]_vars PROVE Final
  <2> SUFFICES ASSUME trade.phase = "EXIT_PENDING" PROVE
         /\ trade'.phase \in {"EXIT_PENDING", "CLOSED"}
         /\ \A s \in Stop : controls[ModifyStop(s)] = "ABSENT"
                => controls'[ModifyStop(s)] = "ABSENT"
    OBVIOUS
  <2>1. monitor.step = "idle" BY <1>1 DEF IInv, MonitorIsAhead, TypeOK
  <2>2. CASE MonitorSide
    <3>1. \A s \in Stop : ModifyStop(s) \in Control /\ ModifyStop(s) # HumanClose
      BY ControlNames
    <3>2. \A d \in Control : controls'[d] # controls[d] => d = HumanClose
      BY <1>1, <2>1, <2>2, MonitorSideStore
    <3>. QED BY <1>1, <2>2, <3>1, <3>2, MonitorSideTrade
  <2>3. ASSUME NEW e \in Executor, Worker(e) \/ WorkerCrash(e)
        PROVE  /\ UNCHANGED trade
               /\ \A c \in Control : controls[c] = "ABSENT" => controls'[c] = "ABSENT"
    <3>1. controls \in [Control -> ControlStatus] BY <1>1 DEF IInv, TypeOK
    <3>2. CASE Claim(e)
      BY <3>1, <3>2, WorkerFrame DEF Claim, MayClaim
    <3>3. CASE Resolve(e)
      <4>1. InHand(e, worker[e].at) /\ worker[e].at \in Control
        BY <1>1, <3>3 DEF IInv, TypeOK, Resolve, InHand
      <4>2. controls[worker[e].at] = "EXECUTING"
        BY <1>1, <4>1 DEF IInv, HandsAreExclusive
      <4>. QED BY <3>1, <3>3, <4>2 DEF Resolve
    <3>4. CASE UNCHANGED controls BY <2>3, <3>4, WorkerFrame
    <3>. QED BY <2>3, <3>2, <3>3, <3>4
             DEF Worker, Poll, Performs, Refuses, PerformsUnknown, ResolveFails,
                 WorkerCrash, store
  <2>4. CASE UNCHANGED vars BY <2>4 DEF vars
  <2>. QED BY <1>1, <2>2, <2>3, <2>4, ControlNames DEF Next, MonitorSide
<1>. QED BY <1>1, Invariance, PTL DEF Spec, ExitIsFinal

-----------------------------------------------------------------------------
(* The control requests implement AtMostOnce.                                *)

\* A worker that says "done" has called.
DoneWasCalled ==
    \A e \in Executor : worker[e].step = "resolve" /\ worker[e].ok => calls[worker[e].at] = 1

LEMMA DoneWasCalledStep ==
    ASSUME IInv, DoneWasCalled, [Next]_vars
    PROVE  DoneWasCalled'
<1>0. /\ TypeOK /\ HandsAreExclusive
      /\ worker \in [Executor -> WorkerState] /\ calls \in [Control -> Nat]
      /\ \A f \in Executor : worker[f].at \in Control
  BY DEF IInv, TypeOK, WorkerState
<1>1. ASSUME NEW e \in Executor, Moved(e), CallsOnce(e),
             worker'[e].step = "resolve" /\ worker'[e].ok => calls'[worker'[e].at] = 1
      PROVE  DoneWasCalled'
  <2> SUFFICES ASSUME NEW f \in Executor, f # e, worker[f].step = "resolve", worker[f].ok
               PROVE  calls'[worker[f].at] = 1
    BY <1>1 DEF DoneWasCalled, Moved
  <2>1. InHand(f, worker[f].at) BY DEF InHand
  <2>2. ~InHand(e, worker[f].at) BY <1>0, <2>1 DEF HandsAreExclusive
  <2>3. calls'[worker[f].at] = calls[worker[f].at] BY <1>0, <1>1, <2>2, CallsStep
  <2>. QED BY <2>3 DEF DoneWasCalled
<1>2. CASE MonitorSide
  BY <1>2, MonitorSideStore DEF DoneWasCalled
<1>3. CASE UNCHANGED vars
  BY <1>3 DEF vars, DoneWasCalled
<1>4. ASSUME NEW e \in Executor, Poll(e) \/ Claim(e) \/ Resolve(e) \/ ResolveFails(e) \/ WorkerCrash(e)
      PROVE  DoneWasCalled'
  <2>1. CallsOnce(e)
    BY <1>4 DEF CallsOnce, Poll, Claim, Resolve, ResolveFails, WorkerCrash
  <2>2. Moved(e) /\ worker'[e].step # "resolve"
    <3>1. CASE Poll(e) \/ Resolve(e)
      <4>1. PICK queue \in SUBSET Control : Polling(e, queue)
        BY <1>0, <3>1 DEF Poll, Resolve, Listed, WorkerState
      <4>2. Moved(e) /\ worker'[e].step \in {"idle", "polling"}
        BY <1>0, <4>1, PollingOn DEF Moved
      <4>. QED BY <4>2
    <3>2. CASE ResolveFails(e) \/ WorkerCrash(e)
      <4>1. worker' = [worker EXCEPT ![e] = Idle] BY <3>2 DEF ResolveFails, WorkerCrash
      <4>2. worker'[e] = Idle /\ Moved(e) BY <1>0, <4>1, IdleIsWorker DEF Moved
      <4>. QED BY <4>2 DEF Idle
    <3>3. CASE Claim(e)
      <4>1. PICK x \in WorkerState : x.step # "resolve" /\ worker' = [worker EXCEPT ![e] = x]
        <5>1. PICK c \in worker[e].queue :
                 \/ worker' = [worker EXCEPT ![e] = Idle]
                 \/ worker' = [worker EXCEPT ![e] =
                        [step |-> "perform", at |-> c, queue |-> worker[e].queue \ {c}, ok |-> FALSE]]
          BY <3>3 DEF Claim
        <5>2. [step |-> "perform", at |-> c, queue |-> worker[e].queue \ {c}, ok |-> FALSE]
                  \in WorkerState
          BY <1>0 DEF WorkerState
        <5>. QED BY <5>1, <5>2, IdleIsWorker DEF Idle
      <4>. QED BY <1>0, <4>1 DEF Moved
    <3>. QED BY <1>4, <3>1, <3>2, <3>3
  <2>. QED BY <1>1, <2>1, <2>2
<1>5. ASSUME NEW e \in Executor, Performs(e) \/ Refuses(e) \/ PerformsUnknown(e)
      PROVE  DoneWasCalled'
  <2>1. CallsOnce(e) /\ worker[e].step = "perform"
    BY <1>5 DEF CallsOnce, Performs, Refuses, PerformsUnknown
  <2>2. CASE Performs(e)
    <3>1. /\ Moved(e) /\ worker'[e].at = worker[e].at
      BY <1>0, <2>2, Answered DEF Moved, Performs
    <3>2. calls[worker[e].at] = 0 BY <1>0, <2>1 DEF HandsAreExclusive, InHand
    <3>3. calls'[worker[e].at] = 1 BY <1>0, <2>2, <3>2 DEF Performs, Called
    <3>. QED BY <1>1, <2>1, <3>1, <3>3
  <2>3. CASE Refuses(e)
    <3>1. Moved(e) /\ worker'[e].ok = FALSE
      BY <1>0, <2>3, Answered DEF Moved, Refuses
    <3>. QED BY <1>1, <2>1, <3>1
  <2>4. CASE PerformsUnknown(e)
    <3>1. worker[e].queue \in SUBSET Control BY <1>0 DEF WorkerState
    <3>2. Moved(e) /\ worker'[e].step \in {"idle", "polling"}
      BY <1>0, <2>4, <3>1, PollingOn DEF Moved, PerformsUnknown
    <3>. QED BY <1>1, <2>1, <3>2
  <2>. QED BY <1>5, <2>2, <2>3, <2>4
<1>. QED BY <1>2, <1>3, <1>4, <1>5 DEF Next, Worker, MonitorSide

LEMMA ContractInit == Init => Contract!Init /\ DoneWasCalled
  BY DEF Init, Contract!Init, Taken, Completed, DoneWasCalled, Idle

\* The abstract state, over a step.
LEMMA ContractStep ==
    ASSUME IInv, DoneWasCalled, [Next]_vars
    PROVE  [Contract!Next]_<<Taken, calls, Completed>>
<1>0. /\ HandsAreExclusive /\ controls \in [Control -> ControlStatus]
      /\ calls \in [Control -> Nat]
      /\ \A f \in Executor : worker[f].at \in Control /\ worker[f].queue \in SUBSET Control
  BY DEF IInv, TypeOK, WorkerState
<1>1. CASE MonitorSide
  <2>1. UNCHANGED <<Taken, calls, Completed>>
    BY <1>1, MonitorSideStore DEF Taken, Completed
  <2>. QED BY <2>1
<1>2. CASE UNCHANGED vars
  BY <1>2 DEF vars, Taken, Completed
<1>3. ASSUME NEW e \in Executor, Poll(e) \/ ResolveFails(e) \/ WorkerCrash(e)
      PROVE  UNCHANGED <<Taken, calls, Completed>>
  BY <1>3 DEF Poll, ResolveFails, WorkerCrash, store, Taken, Completed
<1>4. ASSUME NEW e \in Executor, Claim(e)
      PROVE  Contract!Next \/ UNCHANGED <<Taken, calls, Completed>>
  <2>1. PICK c \in Control :
           \/ UNCHANGED controls
           \/ controls[c] = "REQUESTED" /\ controls' = [controls EXCEPT ![c] = "EXECUTING"]
    BY <1>0, <1>4 DEF Claim, MayClaim
  <2>2. calls' = calls BY <1>4 DEF Claim
  <2>3. CASE UNCHANGED controls
    BY <2>2, <2>3 DEF Taken, Completed
  <2>4. CASE controls[c] = "REQUESTED" /\ controls' = [controls EXCEPT ![c] = "EXECUTING"]
    <3>1. c \notin Taken /\ Taken' = Taken \cup {c} /\ Completed' = Completed
      BY <1>0, <2>4 DEF Taken, Completed
    <3>2. Contract!Claim(c) BY <2>2, <3>1 DEF Contract!Claim
    <3>. QED BY <3>2 DEF Contract!Next
  <2>. QED BY <2>1, <2>3, <2>4
<1>5. ASSUME NEW e \in Executor, Performs(e) \/ Refuses(e) \/ PerformsUnknown(e)
      PROVE  Contract!Next \/ UNCHANGED <<Taken, calls, Completed>>
  <2>1. UNCHANGED controls /\ worker[e].step = "perform"
    BY <1>5 DEF Performs, Refuses, PerformsUnknown, store
  <2>2. UNCHANGED calls \/ Called(worker[e].at)
    BY <1>5 DEF Performs, Refuses, PerformsUnknown
  <2>3. UNCHANGED <<Taken, Completed>> BY <2>1 DEF Taken, Completed
  <2>4. worker[e].at \in Taken /\ calls[worker[e].at] = 0
    BY <1>0, <2>1 DEF HandsAreExclusive, InHand, Taken
  <2>5. CASE Called(worker[e].at)
    <3>1. calls' = [calls EXCEPT ![worker[e].at] = 1] BY <1>0, <2>4, <2>5 DEF Called
    <3>2. Contract!Do(worker[e].at) BY <2>3, <2>4, <3>1 DEF Contract!Do
    <3>. QED BY <1>0, <3>2 DEF Contract!Next
  <2>. QED BY <2>2, <2>3, <2>5
<1>6. ASSUME NEW e \in Executor, Resolve(e)
      PROVE  Contract!Next \/ UNCHANGED <<Taken, calls, Completed>>
  <2> DEFINE c == worker[e].at
  <2>1. /\ controls' = [controls EXCEPT ![c] = Outcome(e)] /\ calls' = calls
        /\ worker[e].step = "resolve" /\ c \in Control
    BY <1>0, <1>6 DEF Resolve
  <2>2. controls[c] = "EXECUTING" BY <1>0, <2>1 DEF HandsAreExclusive, InHand
  <2>3. CASE worker[e].ok
    <3>1. Taken' = Taken /\ Completed' = Completed \cup {c}
      BY <1>0, <2>1, <2>2, <2>3 DEF Outcome, Taken, Completed
    <3>2. calls[c] = 1 BY <2>1, <2>3 DEF DoneWasCalled
    <3>3. Contract!Learn(c) BY <2>1, <3>1, <3>2 DEF Contract!Learn
    <3>. QED BY <2>1, <3>3 DEF Contract!Next
  <2>4. CASE ~worker[e].ok
    BY <1>0, <2>1, <2>2, <2>4 DEF Outcome, Taken, Completed
  <2>. QED BY <2>3, <2>4
<1>. QED BY <1>1, <1>2, <1>3, <1>4, <1>5, <1>6 DEF Next, Worker, MonitorSide

\* Whatever the monitor, the human, the executors and the broker do, and wherever they
\* crash, is a behaviour of AtMostOnce.
THEOREM ControlsImplement == Spec => ImplementsAtMostOnce
<1>1. DoneWasCalled /\ IInv /\ [Next]_vars => DoneWasCalled'
  BY DoneWasCalledStep
<1>2. DoneWasCalled /\ IInv /\ [Next]_vars => [Contract!Next]_<<Taken, calls, Completed>>
  BY ContractStep
<1>. QED BY <1>1, <1>2, ContractInit, Invariance, PTL
         DEF Spec, ImplementsAtMostOnce, Contract!Spec
=============================================================================
