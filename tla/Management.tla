----------------------------- MODULE Management -----------------------------
(***************************************************************************)
(* Autonomous management of one position Aureon opened: the monitor        *)
(* assesses each quote, writes a control request for an exit or a tighter  *)
(* stop and then its own state (aureon/positions/position_monitor.py); the *)
(* executors' control workers claim the requests and perform them at the   *)
(* broker (aureon/execution/control_worker.py and aureon/storage/postgres/ *)
(* repositories/control_requests.py).  A human may ask to close it too.    *)
(* Whether a lease is still live when its request is resolved is a choice, *)
(* taken as a fault when it is not; so are crashes, failing writes, broker *)
(* refusals and broker calls whose outcome is unknown.                     *)
(***************************************************************************)
EXTENDS ExitManager, Sequences, Functions, FiniteSets

CONSTANTS
    Executor,       \* executors, each with its control worker
    LowestMove,     \* bounds on the quotes, as moves
    HighestMove,
    MaxFaults       \* bound on faults

ASSUME ManagementAssumption ==
    /\ IsFiniteSet(Executor)
    /\ LowestMove \in Int /\ HighestMove \in Nat /\ MaxFaults \in Nat

VARIABLES
    live,           \* the position is open at the broker
    brokerStop,     \* its stop there
    trade,          \* management_state of its row in trades
    monitor,        \* the poll under way
    controls,       \* control id -> its status in control_requests
    written,        \* the ids in the order they were written (requested_at)
    worker,         \* executor -> its control worker
    calls,          \* history: control id -> calls made to the broker for it
    faults

vars == <<live, brokerStop, trade, monitor, controls, written, worker, calls, faults>>
broker == <<live, brokerStop>>
store == <<controls, written>>

Move == LowestMove..HighestMove
Stop == InitialStop..HighestMove

\* A request's id is a hash of what it asks for, so the request is its own id.
Close == [kind |-> "CLOSE", stop |-> InitialStop, by |-> "exit_manager"]
HumanClose == [kind |-> "CLOSE", stop |-> InitialStop, by |-> "human"]
ModifyStop(s) == [kind |-> "MODIFY_STOP", stop |-> s, by |-> "exit_manager"]
Control == {Close, HumanClose} \cup {ModifyStop(s) : s \in Stop}

ControlStatus == {"ABSENT", "REQUESTED", "EXECUTING", "COMPLETED", "FAILED"}

Resting == [step |-> "idle", next |-> Opened, asked |-> Close]
Idle == [step |-> "idle", at |-> Close, queue |-> {}, ok |-> FALSE]

TypeOK ==
    /\ live \in BOOLEAN /\ brokerStop \in Stop
    /\ trade \in State
    /\ monitor \in [step : {"idle", "create", "persist"}, next : State, asked : Control]
    /\ controls \in [Control -> ControlStatus]
    /\ written \in Seq(Control) /\ IsInjective(written)
    /\ worker \in [Executor -> [step : {"idle", "polling", "perform", "resolve"},
                                at : Control, queue : SUBSET Control, ok : BOOLEAN]]
    /\ calls \in [Control -> Nat]
    /\ faults \in 0..MaxFaults

Init ==
    /\ live = TRUE /\ brokerStop = InitialStop
    /\ trade = Opened
    /\ monitor = Resting
    /\ controls = [c \in Control |-> "ABSENT"]
    /\ written = <<>>
    /\ worker = [e \in Executor |-> Idle]
    /\ calls = [c \in Control |-> 0]
    /\ faults = 0

\* Something goes wrong.
Fault == faults < MaxFaults /\ faults' = faults + 1

-----------------------------------------------------------------------------
(* The broker and the human: not Aureon's code.                              *)

\* The position leaves by its stop, its target or by hand.
PositionGoes ==
    /\ live
    /\ live' = FALSE
    /\ UNCHANGED <<brokerStop, trade, monitor, store, worker, calls, faults>>

\* create: a new row is REQUESTED; an id that exists is left as it is.
Written(c) ==
    IF controls[c] = "ABSENT"
      THEN controls' = [controls EXCEPT ![c] = "REQUESTED"] /\ written' = Append(written, c)
      ELSE UNCHANGED store

HumanAsks ==
    /\ controls[HumanClose] = "ABSENT"
    /\ Written(HumanClose)
    /\ UNCHANGED <<broker, trade, monitor, worker, calls, faults>>

-----------------------------------------------------------------------------
(* The monitor: one thread.                                                  *)

\* poll_once finds no position: the trade is closed.
RecordClose ==
    /\ monitor.step = "idle" /\ ~live /\ trade.phase # "CLOSED"
    /\ trade' = [trade EXCEPT !.phase = "CLOSED"]
    /\ UNCHANGED <<broker, monitor, store, worker, calls, faults>>

\* The request a decision asks for: an exit once, a stop when it moved.
Asked(s) ==
    {c \in {Close, ModifyStop(s.stop)} :
        IF s.phase = "EXIT_PENDING"
          THEN c = Close /\ trade.phase # "EXIT_PENDING"
          ELSE c # Close /\ s.stop # trade.stop}

\* poll_once finds the position, and _update_management_state assesses its
\* quote.  An illegal transition raises, is logged, and the quote leaves no
\* trace; where nothing is asked, only the state is written.
Assess ==
    /\ monitor.step = "idle" /\ live
    /\ \E move \in Move, view \in View :
         LET s == Assessed(trade, move, view) IN
         /\ MayAssess(trade, move, view)
         /\ IF Asked(s) = {}
              THEN trade' = s /\ UNCHANGED monitor
              ELSE /\ monitor' \in [step : {"create"}, next : {s}, asked : Asked(s)]
                   /\ UNCHANGED trade
    /\ UNCHANGED <<broker, store, worker, calls, faults>>

\* _request_management_action; a write that fails is logged and passed over.
CreateControl ==
    /\ monitor.step = "create"
    /\ \/ Written(monitor.asked) /\ UNCHANGED faults
       \/ Fault /\ UNCHANGED store
    /\ monitor' = [monitor EXCEPT !.step = "persist"]
    /\ UNCHANGED <<broker, trade, worker, calls>>

\* update_management; if it fails the state stays what it was.
Persist ==
    /\ monitor.step = "persist"
    /\ \/ trade' = monitor.next /\ UNCHANGED faults
       \/ Fault /\ UNCHANGED trade
    /\ monitor' = Resting
    /\ UNCHANGED <<broker, store, worker, calls>>

MonitorCrash ==
    /\ monitor.step # "idle" /\ Fault
    /\ monitor' = Resting
    /\ UNCHANGED <<broker, trade, store, worker, calls>>

-----------------------------------------------------------------------------
(* An executor's control worker.                                             *)

\* The worker goes on with the rest of its list, or the poll is over.
Polling(e, queue) ==
    worker' = [worker EXCEPT ![e] =
        IF queue = {} THEN Idle ELSE [Idle EXCEPT !.step = "polling", !.queue = queue]]

\* Mutant of Listed: a poll lists what is being executed.
ListedExecuting == {c \in Control : controls[c] = "EXECUTING"}

\* list_by_status(REQUESTED); the list is worked off in the order of requested_at.
Listed == {c \in Control : controls[c] = "REQUESTED"}
Before(c, d) == \E i, j \in DOMAIN written : i <= j /\ written[i] = c /\ written[j] = d

Poll(e) ==
    /\ worker[e].step = "idle" /\ Listed # {}
    /\ Polling(e, Listed)
    /\ UNCHANGED <<broker, trade, monitor, store, calls, faults>>

\* Mutant of MayClaim: a request under execution is taken over.
MayClaimExecuting(c) == controls[c] \in {"REQUESTED", "EXECUTING"}

MayClaim(c) == controls[c] = "REQUESTED"

\* A lost claim raises ControlClaimRejected, which is not the class process()
\* catches: the poll ends there.
Claim(e) ==
    /\ worker[e].step = "polling"
    /\ \E c \in worker[e].queue :
         /\ \A d \in worker[e].queue : Before(c, d)
         /\ IF MayClaim(c)
              THEN /\ controls' = [controls EXCEPT ![c] = "EXECUTING"]
                   /\ worker' = [worker EXCEPT ![e] =
                        [step |-> "perform", at |-> c, queue |-> @.queue \ {c}, ok |-> FALSE]]
              ELSE /\ worker' = [worker EXCEPT ![e] = Idle]
                   /\ UNCHANGED controls
    /\ UNCHANGED <<broker, trade, monitor, written, calls, faults>>

\* What the broker does when it does what c asks.
Effect(c) ==
    /\ live
    /\ live' = (c.kind # "CLOSE")
    /\ brokerStop' = IF c.kind = "MODIFY_STOP" THEN c.stop ELSE brokerStop

Answer(e, ok) == worker' = [worker EXCEPT ![e].step = "resolve", ![e].ok = ok]
Called(c) == calls' = [calls EXCEPT ![c] = @ + 1]

\* Done: the broker did it.
Performs(e) ==
    /\ worker[e].step = "perform"
    /\ Effect(worker[e].at) /\ Called(worker[e].at)
    /\ Answer(e, TRUE)
    /\ UNCHANGED <<trade, monitor, store, faults>>

\* Refused: by the broker, which has no such position or will not do it now, or
\* before any call, on ownership or on the symbol.
Refuses(e) ==
    /\ worker[e].step = "perform"
    /\ \/ ~live /\ Called(worker[e].at) /\ UNCHANGED faults
       \/ live /\ Fault /\ Called(worker[e].at)
       \/ Fault /\ UNCHANGED calls
    /\ Answer(e, FALSE)
    /\ UNCHANGED <<broker, trade, monitor, store>>

\* BrokerError: done or not, nobody knows; the request stays EXECUTING.
PerformsUnknown(e) ==
    /\ worker[e].step = "perform" /\ Fault
    /\ Effect(worker[e].at) \/ UNCHANGED broker
    /\ Called(worker[e].at)
    /\ Polling(e, worker[e].queue)
    /\ UNCHANGED <<trade, monitor, store>>

\* Mutant of Outcome: refused or not, the request is over.
OutcomeCompleted(e) == "COMPLETED"

Outcome(e) == IF worker[e].ok THEN "COMPLETED" ELSE "FAILED"

Resolve(e) ==
    /\ worker[e].step = "resolve"
    /\ controls' = [controls EXCEPT ![worker[e].at] = Outcome(e)]
    /\ Polling(e, worker[e].queue)
    /\ UNCHANGED <<broker, trade, monitor, written, calls, faults>>

\* The lease ran out, or the store is away: nothing is written, the poll ends.
ResolveFails(e) ==
    /\ worker[e].step = "resolve" /\ Fault
    /\ worker' = [worker EXCEPT ![e] = Idle]
    /\ UNCHANGED <<broker, trade, monitor, store, calls>>

WorkerCrash(e) ==
    /\ worker[e].step # "idle" /\ Fault
    /\ worker' = [worker EXCEPT ![e] = Idle]
    /\ UNCHANGED <<broker, trade, monitor, store, calls>>

-----------------------------------------------------------------------------
Monitor == RecordClose \/ Assess \/ CreateControl \/ Persist

Worker(e) ==
    \/ Poll(e) \/ Claim(e)
    \/ Performs(e) \/ Refuses(e) \/ PerformsUnknown(e)
    \/ Resolve(e) \/ ResolveFails(e)

Next ==
    \/ PositionGoes \/ HumanAsks
    \/ Monitor \/ MonitorCrash
    \/ \E e \in Executor : Worker(e) \/ WorkerCrash(e)

Spec == Init /\ [][Next]_vars

\* Both loops poll for ever; a poll waits for nobody.
FairSpec == Spec /\ WF_vars(Monitor) /\ \A e \in Executor : WF_vars(Worker(e))

-----------------------------------------------------------------------------
(* What must hold.                                                           *)

\* A control request is sent to the broker at most once, with several
\* executors, lost claims, unknown outcomes and restarts: a second close could
\* hit what the first one left.
CalledAtMostOnce == \A c \in Control : calls[c] <= 1

\* The control requests implement AtMostOnce: one worker claims a request, for good; the
\* broker is called for it at most once and only then; and one that is COMPLETED was sent.
\* A request whose worker died is EXECUTING for ever, and not tried again.
Taken == {c \in Control : controls[c] \notin {"ABSENT", "REQUESTED"}}
Completed == {c \in Control : controls[c] = "COMPLETED"}

Contract == INSTANCE AtMostOnce WITH
    Item <- Control, claimed <- Taken, times <- calls, known <- Completed

ImplementsAtMostOnce == Contract!Spec

\* A close recorded as COMPLETED has closed the position.
CompletedCloseIsTrue ==
    \A c \in {Close, HumanClose} : controls[c] = "COMPLETED" => ~live

\* The recorded stop never loosens, over any sequence of quotes, failed writes
\* and restarts of the monitor.
StopNeverLoosens == [][trade'.stop >= trade.stop]_vars

\* An exit is not taken back: from EXIT_PENDING the trade only closes, and no
\* stop is requested any more, however the market recovers.
ExitIsFinal ==
    [][trade.phase = "EXIT_PENDING" =>
         /\ trade'.phase \in {"EXIT_PENDING", "CLOSED"}
         /\ \A s \in Stop : controls[ModifyStop(s)] = "ABSENT"
                => controls'[ModifyStop(s)] = "ABSENT"]_vars

\* The invariant behind the proofs.  A state about to be persisted is no looser
\* than the recorded one, and an exit on record leaves nothing under way.
MonitorIsAhead ==
    /\ trade.stop \in Stop /\ monitor.next.stop \in Stop
    /\ monitor.step # "idle" => monitor.next.stop >= trade.stop /\ trade.phase # "EXIT_PENDING"

\* A request in an executor's hands is EXECUTING and in no other's, and was not
\* sent before its turn.
InHand(e, c) == worker[e].step \in {"perform", "resolve"} /\ worker[e].at = c
HandsAreExclusive ==
    /\ \A e \in Executor, c \in Control :
         InHand(e, c) =>
           /\ controls[c] = "EXECUTING"
           /\ worker[e].step = "perform" => calls[c] = 0
           /\ \A f \in Executor : InHand(f, c) => f = e
    /\ \A c \in Control : controls[c] \in {"ABSENT", "REQUESTED"} => calls[c] = 0

\* A row is written once, and an answer "done" to a close is true.
WrittenOnce == \A c \in Control : controls[c] = "ABSENT" => c \notin Range(written)
DoneIsDone ==
    \A e \in Executor : worker[e].step = "resolve" /\ worker[e].ok
        /\ worker[e].at.kind = "CLOSE" => ~live

\* What the parts of the model owe each other, inductively.
IInv ==
    /\ TypeOK /\ MonitorIsAhead /\ HandsAreExclusive
    /\ WrittenOnce /\ DoneIsDone /\ CalledAtMostOnce /\ CompletedCloseIsTrue

\* Nobody works on a request that is EXECUTING, and nobody ever will.
Stranded(c) ==
    controls[c] = "EXECUTING" /\ \A e \in Executor : ~InHand(e, c)

\* A requested exit ends with the position gone, unless the request is refused
\* or its executor lost its outcome.
RequestedExitIsDone ==
    controls[Close] = "REQUESTED" ~> ~live \/ controls[Close] = "FAILED" \/ Stranded(Close)

=============================================================================
