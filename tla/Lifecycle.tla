----------------------------- MODULE Lifecycle -----------------------------
(***************************************************************************)
(* The life of the whole stack: the launcher (src/main_aureon.py), the     *)
(* supervisor that starts the services in order, watches and stops them    *)
(* (aureon/services/supervisor.py), the guardian it polls for a planned    *)
(* restart (aureon/services/runtime_guardian.py), the restart request that *)
(* Discord leaves (aureon/services/manual_restart.py), and the supervisor's *)
(* row of the register of operational conditions.                          *)
(***************************************************************************)
EXTENDS OpsRegister, Integers, SequencesExt

CONSTANTS
    Services,       \* how many there are; the first is the observer
    Version,        \* of the code: numbers, in the order in which main advances
    Good,           \* those that pass scripts/preflight.py
    MaxTick,        \* bound on the ticks the store gets
    MaxAsks,        \* bound on /restart
    MaxLaunches,    \* bound on starts by hand
    MaxExits,       \* bound on services that exit of themselves
    MaxInterrupts,  \* bound on Ctrl+C
    MaxFailures     \* bound on files and register rows that cannot be read or written

Service == 1..Services

ASSUME LifecycleAssumption ==
    /\ Services \in Nat \ {0}
    /\ Version \subseteq Nat /\ Good \subseteq Version /\ 1 \in Good
    /\ {MaxTick, MaxAsks, MaxLaunches, MaxExits, MaxInterrupts, MaxFailures} \subseteq Nat

VARIABLES
    pc,         \* where the launcher is
    why,        \* what ends the run it is in, or ended the last one
    child,      \* service -> its process
    left,       \* the services stop() has still to interrupt
    tree,       \* the version in the checkout
    local,      \* the version the guardian would roll back to
    remote,     \* origin/main
    tick,       \* the last tick the store has
    quiet,      \* it is older than the threshold, and the schedule says open
    staleFor,   \* the tick of the guardian's state file
    request,    \* the request file: which /restart wrote it, or 0
    acked,      \* it is older than MIN_ACK_SECONDS
    asks,       \* how many /restart there were
    row, said,  \* the register's row, and the edges announced
    served,     \* history: the requests a restart was made for
    blamed,     \* history: tick -> the restarts made for it
    outage,     \* history: whether the stack is down by a crash, and how often it went down
    launches, exits, interrupts, diskFaults, storeFaults

files == <<tree, local, remote>>
feed == <<tick, quiet, staleFor>>
asking == <<request, acked, asks>>
register == <<row, said, storeFaults>>
past == <<served, blamed, outage>>
bounds == <<launches, exits, interrupts, diskFaults>>
vars == <<pc, why, child, left, files, feed, asking, register, past, bounds>>

Pc == {"down", "preflight", "starting", "started", "watching", "checking", "recording",
       "asking", "grace", "terminating", "stopped"}
Why == {"none", "preflight", "startup", "crash", "interrupt", "escaped", "manual", "update",
        "stale"}
Planned == {"manual", "update", "stale"}

FaultsLeft == diskFaults + storeFaults < MaxFailures

TypeOK ==
    /\ pc \in Pc /\ why \in Why
    /\ child \in [Service -> {"none", "running", "asked", "told", "gone"}]
    /\ left \in SUBSET Service
    /\ tree \in Version /\ local \in Version /\ remote \in Version
    /\ tick \in 0..MaxTick /\ quiet \in BOOLEAN /\ staleFor \in -1..MaxTick
    /\ request \in 0..MaxAsks /\ acked \in BOOLEAN /\ asks \in 0..MaxAsks
    /\ row \in Row
    /\ said \in Seq({"onset", "recovery"})
    /\ served \in [1..MaxAsks -> Nat] /\ blamed \in [0..MaxTick -> Nat]
    /\ outage \in [now : BOOLEAN, count : Nat]
    /\ launches \in 0..MaxLaunches /\ exits \in 0..MaxExits
    /\ interrupts \in 0..MaxInterrupts /\ diskFaults \in 0..MaxFailures
    /\ storeFaults \in 0..MaxFailures

Init ==
    /\ pc = "down" /\ why = "none"
    /\ child = [s \in Service |-> "none"] /\ left = {}
    /\ tree = 1 /\ local = 1 /\ remote = 1
    /\ tick = 0 /\ quiet = FALSE /\ staleFor = -1
    /\ request = 0 /\ acked = FALSE /\ asks = 0
    /\ row = NoRow /\ said = <<>>
    /\ served = [r \in 1..MaxAsks |-> 0] /\ blamed = [t \in 0..MaxTick |-> 0]
    /\ outage = [now |-> FALSE, count |-> 0]
    /\ launches = 0 /\ exits = 0 /\ interrupts = 0 /\ diskFaults = 0 /\ storeFaults = 0

Live == {s \in Service : child[s] \in {"running", "asked", "told"}}
Gone == {s \in Service : child[s] = "gone"}

-----------------------------------------------------------------------------
(* Around the launcher: the market, main, Discord's /restart, the services.  *)

TickArrives ==
    /\ tick < MaxTick
    /\ tick' = tick + 1 /\ quiet' = FALSE
    /\ UNCHANGED <<pc, why, child, left, files, staleFor, asking, register, past, bounds>>

FeedFallsSilent ==
    /\ ~quiet /\ quiet' = TRUE
    /\ UNCHANGED <<pc, why, child, left, files, tick, staleFor, asking, register, past, bounds>>

MainAdvances ==
    /\ remote + 1 \in Version
    /\ remote' = remote + 1
    /\ UNCHANGED <<pc, why, child, left, tree, local, feed, asking, register, past, bounds>>

\* request_restart(): a second request replaces the first.
AskRestart ==
    /\ asks < MaxAsks
    /\ asks' = asks + 1 /\ request' = asks + 1 /\ acked' = FALSE
    /\ UNCHANGED <<pc, why, child, left, files, feed, register, past, bounds>>

AckPasses ==
    /\ request # 0 /\ ~acked /\ acked' = TRUE
    /\ UNCHANGED <<pc, why, child, left, files, feed, request, asks, register, past, bounds>>

ServiceExits(s) ==
    /\ child[s] = "running" /\ exits < MaxExits
    /\ child' = [child EXCEPT ![s] = "gone"] /\ exits' = exits + 1
    /\ UNCHANGED <<pc, why, left, files, feed, asking, register, past, launches, interrupts,
                   diskFaults>>

\* A service that was interrupted or terminated may take its time, or ignore it.
ServiceStops(s) ==
    /\ child[s] \in {"asked", "told"}
    /\ child' = [child EXCEPT ![s] = "gone"]
    /\ UNCHANGED <<pc, why, left, files, feed, asking, register, past, bounds>>

-----------------------------------------------------------------------------
(* Starting.                                                                 *)

\* By hand; what an escaped interrupt left running is ended first.
Launch ==
    /\ pc = "down" /\ Live = {} /\ launches < MaxLaunches
    /\ launches' = launches + 1
    /\ pc' = "preflight" /\ why' = "none"
    /\ UNCHANGED <<child, left, files, feed, asking, register, past, exits, interrupts,
                   diskFaults>>

Preflight ==
    /\ pc = "preflight"
    /\ IF tree \in Good THEN pc' = "starting" /\ why' = "none"
                        ELSE pc' = "down" /\ why' = "preflight"
    /\ child' = [s \in Service |-> "none"]
    /\ UNCHANGED <<left, files, feed, asking, register, past, bounds>>

NotStarted == {s \in Service : child[s] = "none"}

StartNext ==
    /\ pc = "starting" /\ NotStarted # {}
    /\ child' = [child EXCEPT ![Min(NotStarted)] = "running"]
    /\ UNCHANGED <<pc, why, left, files, feed, asking, register, past, bounds>>

\* A service that dies within the grace: the rest is not started.
StartFails ==
    /\ pc = "starting" /\ NotStarted # {} /\ exits < MaxExits
    /\ child' = [child EXCEPT ![Min(NotStarted)] = "gone"]
    /\ exits' = exits + 1
    /\ pc' = "recording" /\ why' = "startup"
    /\ UNCHANGED <<left, files, feed, asking, register, past, launches, interrupts, diskFaults>>

AllStarted ==
    /\ pc = "starting" /\ NotStarted = {}
    /\ pc' = "started"
    /\ UNCHANGED <<why, child, left, files, feed, asking, register, past, bounds>>

\* OpsRegister.observe(), with a register that may fail to answer or to take the write.
Observe(active) ==
    \E readable, writable \in BOOLEAN :
        /\ (~readable \/ ~writable) => FaultsLeft
        /\ storeFaults' = IF readable /\ writable THEN storeFaults ELSE storeFaults + 1
        /\ row' = Recorded(row, active, readable, writable)
        /\ said' = said \o SetToSeq(Edge(row, active, readable))

\* _record_stack_up().
RecordUp ==
    /\ pc = "started"
    /\ Observe(FALSE)
    /\ pc' = "watching"
    /\ outage' = [outage EXCEPT !.now = FALSE]
    /\ UNCHANGED <<why, child, left, files, feed, asking, served, blamed, bounds>>

-----------------------------------------------------------------------------
(* Watching.                                                                 *)

SeeExit ==
    /\ pc = "watching" /\ Gone # {}
    /\ pc' = "recording" /\ why' = "crash"
    /\ UNCHANGED <<child, left, files, feed, asking, register, past, bounds>>

\* Where stop() begins: with the services that live then.
BeginStop == pc' = "asking" /\ left' = Live

RecordDown ==
    /\ pc = "recording"
    /\ Observe(TRUE)
    /\ BeginStop
    /\ outage' = [now |-> TRUE, count |-> outage.count + IF outage.now THEN 0 ELSE 1]
    /\ UNCHANGED <<why, child, files, feed, asking, served, blamed, bounds>>

\* Mutant of ManualDue: a request's age is counted from when it is read.
ManualDueNever == FALSE

\* A request that is older than MIN_ACK_SECONDS.
ManualDue == request # 0 /\ acked

\* consume_restart_request().
Consumed == 0

ManualRestart ==
    /\ pc = "watching" /\ ManualDue
    /\ request' = Consumed
    /\ served' = [served EXCEPT ![request] = @ + 1]
    /\ why' = "manual" /\ BeginStop
    /\ UNCHANGED <<child, files, feed, acked, asks, register, blamed, outage, bounds>>

\* The request is gone and its notice cannot be written: the poll raises.
ManualLost ==
    /\ pc = "watching" /\ ManualDue /\ FaultsLeft
    /\ request' = 0 /\ diskFaults' = diskFaults + 1
    /\ UNCHANGED <<pc, why, child, left, files, feed, acked, asks, register, past, launches,
                   exits, interrupts>>

\* _check_main_update() fast-forwards the checkout, then runs the new preflight.
FastForward ==
    /\ pc = "watching" /\ ~ManualDue /\ remote # tree
    /\ local' = tree /\ tree' = remote /\ pc' = "checking"
    /\ UNCHANGED <<why, child, left, remote, feed, asking, register, past, bounds>>

PassesPreflight(v) == v \in Good

UpdateRestart ==
    /\ pc = "checking" /\ PassesPreflight(tree)
    /\ why' = "update" /\ BeginStop
    /\ UNCHANGED <<child, files, feed, asking, register, past, bounds>>

RollBack ==
    /\ pc = "checking" /\ ~PassesPreflight(tree)
    /\ tree' = local /\ pc' = "watching"
    /\ UNCHANGED <<why, child, left, local, remote, feed, asking, register, past, bounds>>

\* The preflight runs out of its time, or the notice or the reset fails: the checkout stays.
CheckBreaks ==
    /\ pc = "checking" /\ FaultsLeft
    /\ diskFaults' = diskFaults + 1 /\ pc' = "watching"
    /\ UNCHANGED <<why, child, left, files, feed, asking, register, past, launches, exits,
                   interrupts>>

\* Mutant of Suppressed: the tick a restart was made for is not remembered.
SuppressedNever == FALSE

\* One restart for each last tick.
Suppressed == staleFor = tick

\* _check_market_liveness(): a state file that cannot be saved is logged and no more.
StaleRestart ==
    /\ pc = "watching" /\ ~ManualDue /\ quiet /\ ~Suppressed
    /\ \/ staleFor' = tick /\ UNCHANGED diskFaults
       \/ FaultsLeft /\ diskFaults' = diskFaults + 1 /\ UNCHANGED staleFor
    /\ blamed' = [blamed EXCEPT ![tick] = @ + 1]
    /\ why' = "stale" /\ BeginStop
    /\ UNCHANGED <<child, files, tick, quiet, asking, register, served, outage, launches, exits,
                   interrupts>>

\* The state is saved and the notice cannot be written: the poll raises, and for this tick
\* no restart is made.
StaleLost ==
    /\ pc = "watching" /\ ~ManualDue /\ quiet /\ ~Suppressed
    /\ FaultsLeft /\ diskFaults' = diskFaults + 1
    /\ staleFor' = tick
    /\ UNCHANGED <<pc, why, child, left, files, tick, quiet, asking, register, past, launches,
                   exits, interrupts>>

-----------------------------------------------------------------------------
(* Stopping: interrupt, wait, terminate, wait, kill.                         *)

\* In reverse start order: the observer, with a queue to drain, is asked last.
Ask ==
    /\ pc = "asking" /\ left # {}
    /\ left' = left \ {Max(left)}
    /\ child' = [child EXCEPT ![Max(left)] = IF @ = "running" THEN "asked" ELSE @]
    /\ UNCHANGED <<pc, why, files, feed, asking, register, past, bounds>>

AllAsked ==
    /\ pc = "asking" /\ left = {}
    /\ pc' = "grace"
    /\ UNCHANGED <<why, child, left, files, feed, asking, register, past, bounds>>

\* Mutant of AfterGrace: what ignored the interrupt is left to itself.
AfterGraceNothing == child

\* What did not stop within the grace is terminated.
AfterGrace == [s \in Service |-> IF child[s] = "asked" THEN "told" ELSE child[s]]

GraceEnds ==
    /\ pc = "grace"
    /\ child' = AfterGrace
    /\ pc' = IF Live = {} THEN "stopped" ELSE "terminating"
    /\ UNCHANGED <<why, left, files, feed, asking, register, past, bounds>>

\* And what refused that is killed, and reaped.
Kill ==
    /\ pc = "terminating"
    /\ child' = [s \in Service |-> IF child[s] = "told" THEN "gone" ELSE child[s]]
    /\ pc' = "stopped"
    /\ UNCHANGED <<why, left, files, feed, asking, register, past, bounds>>

\* A planned stop executes the launcher again, in the checkout as it is.
Finish ==
    /\ pc = "stopped"
    /\ pc' = IF why \in Planned THEN "preflight" ELSE "down"
    /\ UNCHANGED <<why, child, left, files, feed, asking, register, past, bounds>>

\* Ctrl+C reaches the launcher only; run() catches it while it starts or watches.
Interrupt ==
    /\ pc # "down" /\ interrupts < MaxInterrupts
    /\ interrupts' = interrupts + 1
    /\ IF pc \in {"starting", "watching", "checking"}
       THEN why' = "interrupt" /\ BeginStop
       ELSE why' = "escaped" /\ pc' = "down" /\ left' = {}
    /\ UNCHANGED <<child, files, feed, asking, register, past, launches, exits, diskFaults>>

-----------------------------------------------------------------------------

Launcher == \/ Preflight \/ StartNext \/ AllStarted \/ RecordUp \/ RecordDown
            \/ UpdateRestart \/ RollBack
            \/ Ask \/ AllAsked \/ GraceEnds \/ Kill \/ Finish

Next == \/ TickArrives \/ FeedFallsSilent \/ MainAdvances \/ AskRestart \/ AckPasses
        \/ \E s \in Service : ServiceExits(s) \/ ServiceStops(s)
        \/ Launch \/ Launcher \/ StartFails \/ SeeExit
        \/ ManualRestart \/ ManualLost \/ FastForward \/ CheckBreaks \/ StaleRestart
        \/ StaleLost \/ Interrupt

Spec == Init /\ [][Next]_vars

\* The launcher goes on; every turn of wait() looks at the services, then at a request.
FairSpec == Spec /\ WF_vars(Launcher) /\ WF_vars(AckPasses)
                 /\ SF_vars(SeeExit) /\ SF_vars(ManualRestart)

-----------------------------------------------------------------------------

\* A launcher that ended, or is executed again, left no service behind ("reaped, not just
\* signalled", supervisor.py), unless Ctrl+C came where run() does not catch it.
NoOrphans ==
    pc \in {"down", "preflight"} /\ why # "escaped" => Live = {}

\* A request that was left while the stack runs is answered by a stop of the stack.
RequestIsServed ==
    (request # 0 /\ pc = "watching") ~> (pc # "watching" \/ diskFaults > 0)

\* "A stale feed restart is one-shot per last-tick timestamp" (runtime_guardian.py), if its
\* state file can be written.
StaleRestartOnce ==
    diskFaults = 0 => \A t \in 0..MaxTick : blamed[t] <= 1

\* What the register says of the stack is true through crashes and restarts, and an edge is
\* announced once (ops_events.py), while the register can be read and written.
RegisterIsTrue ==
    storeFaults = 0 =>
        /\ row.onsets = outage.count
        /\ pc = "watching" => ~row.active
        /\ pc = "down" /\ why \in {"crash", "startup"} => row.active
        /\ \A i \in 1..Len(said) : said[i] = IF i % 2 = 1 THEN "onset" ELSE "recovery"

-----------------------------------------------------------------------------
(* The inductive strengthening of the safety properties.                     *)

\* Where a service may be while the launcher is where it is: a stop that runs its course
\* takes each from running to asked, from asked to told, and from told to gone.
StopInv ==
    /\ NoOrphans
    /\ \A s \in Service :
        /\ pc \in {"starting", "started", "watching", "checking", "recording"} =>
               child[s] \in {"none", "running", "gone"}
        /\ pc = "asking" => /\ child[s] # "told"
                            /\ child[s] = "running" => s \in left
        /\ pc = "grace" => child[s] \in {"none", "asked", "gone"}
        /\ pc = "terminating" => child[s] \in {"none", "told", "gone"}
        /\ pc \in {"preflight", "stopped"} => child[s] \in {"none", "gone"}

\* The restarts for the tick the store has are those the state file remembers.
StaleInv ==
    /\ \A t \in 0..MaxTick : blamed[t] > 0 => t <= tick
    /\ diskFaults = 0 => /\ \A t \in 0..MaxTick : blamed[t] <= 1
                         /\ blamed[tick] > 0 => staleFor = tick

\* The row is the outage, and the edges alternate up to the last.
RegisterInv ==
    /\ pc \in {"preflight", "starting", "started", "watching", "checking"} =>
           why \notin {"crash", "startup"}
    /\ pc \in {"watching", "checking"} => ~outage.now
    /\ why \in {"crash", "startup"} /\ pc # "recording" => outage.now
    /\ storeFaults = 0 =>
           /\ row.active = outage.now /\ row.onsets = outage.count
           /\ \A i \in 1..Len(said) : said[i] = IF i % 2 = 1 THEN "onset" ELSE "recovery"
           /\ outage.now <=> Len(said) % 2 = 1

IInv == TypeOK /\ StopInv /\ StaleInv /\ RegisterInv
=============================================================================
