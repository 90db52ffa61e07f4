-------------------------- MODULE LifecycleProofs --------------------------
(***************************************************************************)
(* When services run: the proofs about Lifecycle.tla, for every number of  *)
(* services and every version of the code, and however often the stack is  *)
(* started, stopped, interrupted or asked to restart; and, in the end,     *)
(* those about SleepCycle.tla, which is how one of these services parks    *)
(* itself.                                                                 *)
(***************************************************************************)
EXTENDS Lifecycle, SleepCycle, TLAPS, FiniteSetTheorems

(***************************************************************************)
(* The launcher and the services it started.                               *)
(***************************************************************************)

\* What happens around the launcher and touches neither it nor a service.
Around == TickArrives \/ FeedFallsSilent \/ MainAdvances \/ AskRestart \/ AckPasses

\* The steps of the launcher that leave it watching, and the services alone.
Watches == ManualLost \/ StaleLost

LauncherTypes ==
    /\ pc \in Pc /\ why \in Why
    /\ child \in [Service -> {"none", "running", "asked", "told", "gone"}]
    /\ left \in SUBSET Service

LEMMA LauncherTypesStep ==
    ASSUME LauncherTypes, Next
    PROVE  LauncherTypes'
<1> USE DEF LauncherTypes, Pc, Why
<1>1. Live \in SUBSET Service
  BY DEF Live
<1>2. CASE Around \/ Watches
  BY <1>2 DEF Around, TickArrives, FeedFallsSilent, MainAdvances, AskRestart, AckPasses,
     Watches, ManualLost, StaleLost
<1>3. CASE \E s \in Service : ServiceExits(s) \/ ServiceStops(s)
  BY <1>3 DEF ServiceExits, ServiceStops
<1>4. CASE Launch \/ Preflight
  BY <1>4 DEF Launch, Preflight
<1>5. CASE StartNext \/ StartFails \/ AllStarted
  BY <1>5 DEF StartNext, StartFails, AllStarted
<1>6. CASE RecordUp \/ SeeExit \/ FastForward \/ RollBack \/ CheckBreaks
  BY <1>6 DEF RecordUp, SeeExit, FastForward, RollBack, CheckBreaks
<1>7. CASE RecordDown \/ ManualRestart \/ UpdateRestart \/ StaleRestart
  BY <1>1, <1>7 DEF RecordDown, ManualRestart, UpdateRestart, StaleRestart, BeginStop
<1>8. CASE Interrupt
  BY <1>1, <1>8 DEF Interrupt, BeginStop
<1>9. CASE Ask
  BY <1>9 DEF Ask
<1>10. CASE AllAsked \/ GraceEnds \/ Kill \/ Finish
  BY <1>10 DEF AllAsked, GraceEnds, AfterGrace, Kill, Finish
<1> QED
  BY <1>2, <1>3, <1>4, <1>5, <1>6, <1>7, <1>8, <1>9, <1>10 DEF Next, Launcher, Around, Watches

LEMMA StopStep ==
    ASSUME LauncherTypes, StopInv, Next
    PROVE  StopInv'
<1> USE DEF StopInv, NoOrphans, LauncherTypes
<1>1. CASE Around \/ Watches
  BY <1>1 DEF Around, TickArrives, FeedFallsSilent, MainAdvances, AskRestart, AckPasses,
     Watches, ManualLost, StaleLost, Live
<1>2. CASE \E s \in Service : ServiceExits(s) \/ ServiceStops(s)
  BY <1>2 DEF ServiceExits, ServiceStops, Live
<1>3. CASE Launch
  BY <1>3 DEF Launch, Live
<1>4. CASE Preflight
  BY <1>4 DEF Preflight, Live
<1>5. CASE StartNext \/ StartFails
  BY <1>5 DEF StartNext, StartFails
<1>6. CASE AllStarted \/ RecordUp \/ SeeExit \/ FastForward \/ RollBack \/ CheckBreaks
  BY <1>6 DEF AllStarted, RecordUp, SeeExit, FastForward, RollBack, CheckBreaks
<1>7. CASE RecordDown \/ ManualRestart \/ UpdateRestart \/ StaleRestart
  BY <1>7 DEF RecordDown, ManualRestart, UpdateRestart, StaleRestart, BeginStop, Live
<1>8. CASE Interrupt
  BY <1>8 DEF Interrupt, BeginStop, Live
<1>9. CASE Ask
  BY <1>9 DEF Ask
<1>10. CASE AllAsked
  BY <1>10 DEF AllAsked
<1>11. CASE GraceEnds
  BY <1>11 DEF GraceEnds, AfterGrace, Live
<1>12. CASE Kill
  BY <1>12 DEF Kill
<1>13. CASE Finish
  BY <1>13 DEF Finish, Live
<1> QED
  BY <1>1, <1>2, <1>3, <1>4, <1>5, <1>6, <1>7, <1>8, <1>9, <1>10, <1>11, <1>12, <1>13
     DEF Next, Launcher, Around, Watches

(***************************************************************************)
(* The restart for a feed that is silent.                                  *)
(***************************************************************************)

StaleTypes ==
    /\ tick \in 0..MaxTick /\ staleFor \in -1..MaxTick
    /\ blamed \in [0..MaxTick -> Nat]
    /\ diskFaults \in 0..MaxFailures

\* The steps that are not about the feed, its state file or its restarts.
LEMMA StaleUnchanged ==
    ASSUME Next, ~TickArrives, ~StaleRestart, ~StaleLost
    PROVE  /\ UNCHANGED <<tick, staleFor, blamed>>
           /\ diskFaults' = diskFaults \/ (FaultsLeft /\ diskFaults' = diskFaults + 1)
<1>1. CASE FeedFallsSilent \/ MainAdvances \/ AskRestart \/ AckPasses
  BY <1>1 DEF FeedFallsSilent, MainAdvances, AskRestart, AckPasses, feed, past, bounds
<1>2. CASE \E s \in Service : ServiceExits(s) \/ ServiceStops(s)
  BY <1>2 DEF ServiceExits, ServiceStops, feed, past, bounds
<1>3. CASE Launch \/ Launcher \/ StartFails \/ SeeExit
  BY <1>3 DEF Launch, Launcher, Preflight, StartNext, AllStarted, RecordUp, RecordDown,
     UpdateRestart, RollBack, Ask, AllAsked, GraceEnds, Kill, Finish, StartFails, SeeExit, feed,
     past, bounds
<1>4. CASE ManualRestart \/ ManualLost \/ FastForward \/ CheckBreaks \/ Interrupt
  BY <1>4 DEF ManualRestart, ManualLost, FastForward, CheckBreaks, Interrupt, feed, past, bounds
<1> QED
  BY <1>1, <1>2, <1>3, <1>4 DEF Next

LEMMA StaleStep ==
    ASSUME StaleTypes, StaleInv, storeFaults \in Nat, Next
    PROVE  StaleTypes' /\ StaleInv'
<1> USE DEF StaleTypes, StaleInv, FaultsLeft
<1>1. MaxTick \in Nat /\ MaxFailures \in Nat
  BY LifecycleAssumption
<1>2. CASE TickArrives
  BY <1>1, <1>2 DEF TickArrives, past, bounds
<1>3. CASE StaleRestart
  BY <1>1, <1>3 DEF StaleRestart, Suppressed
<1>4. CASE StaleLost
  BY <1>1, <1>4 DEF StaleLost, past
<1>5. CASE ~TickArrives /\ ~StaleRestart /\ ~StaleLost
  BY <1>1, <1>5, StaleUnchanged
<1> QED
  BY <1>2, <1>3, <1>4, <1>5

(***************************************************************************)
(* The register's row, and the edges it announces.                         *)
(***************************************************************************)

\* A set of at most one member as a sequence.
LEMMA SequenceOfNone == SetToSeq({}) = <<>>
<1>1. Cardinality({}) = 0
  BY FS_EmptySet
<1>2. SetToSeq({}) = CHOOSE f \in [1..0 -> {}] : IsInjective(f)
  BY <1>1 DEF SetToSeq
<1>3. /\ <<>> \in [1..0 -> {}] /\ IsInjective(<<>>)
      /\ \A f \in [1..0 -> {}] : f = <<>>
  BY DEF IsInjective
<1> QED
  BY <1>2, <1>3

LEMMA SequenceOfOne ==
    ASSUME NEW x
    PROVE  SetToSeq({x}) = <<x>>
<1>1. Cardinality({x}) = 1
  BY FS_Singleton
<1>2. SetToSeq({x}) = CHOOSE f \in [1..1 -> {x}] : IsInjective(f)
  BY <1>1 DEF SetToSeq
<1>3. /\ <<x>> \in [1..1 -> {x}] /\ IsInjective(<<x>>)
  BY DEF IsInjective
<1>4. \A f \in [1..1 -> {x}] : f = <<x>>
  OBVIOUS
<1> QED
  BY <1>2, <1>3, <1>4

RegisterTypes ==
    /\ row \in Row
    /\ said \in Seq({"onset", "recovery"})
    /\ outage \in [now : BOOLEAN, count : Nat]
    /\ storeFaults \in 0..MaxFailures

\* What observe() does: it fails, and that is counted; or the row says what is true now, and
\* a change is announced.
LEMMA ObserveSays ==
    ASSUME RegisterTypes, diskFaults \in Nat, NEW active \in BOOLEAN, Observe(active)
    PROVE  /\ row' \in Row /\ said' \in Seq({"onset", "recovery"})
           /\ storeFaults' \in 0..MaxFailures
           /\ storeFaults' = 0 =>
                  /\ storeFaults = 0
                  /\ \/ row.active = active /\ row' = row /\ said' = said
                     \/ /\ row.active # active
                        /\ row' = [active |-> active,
                                   onsets |-> row.onsets + IF active THEN 1 ELSE 0]
                        /\ said' = Append(said, IF active THEN "onset" ELSE "recovery")
<1> PICK readable \in BOOLEAN, writable \in BOOLEAN :
        /\ (~readable \/ ~writable) => FaultsLeft
        /\ storeFaults' = IF readable /\ writable THEN storeFaults ELSE storeFaults + 1
        /\ row' = Recorded(row, active, readable, writable)
        /\ said' = said \o SetToSeq(Edge(row, active, readable))
  BY DEF Observe
<1>0. /\ row.active \in BOOLEAN /\ row.onsets \in Nat
      /\ storeFaults \in Nat /\ MaxFailures \in Nat
      /\ storeFaults \in 0..MaxFailures
  BY LifecycleAssumption DEF RegisterTypes, Row
<1>1. storeFaults' \in 0..MaxFailures
  BY <1>0 DEF FaultsLeft
<1>2. Edge(row, active, readable) \in {{}, {"onset"}, {"recovery"}}
  BY DEF Edge
<1>3. said' \in Seq({"onset", "recovery"})
  <2>1. SetToSeq(Edge(row, active, readable)) \in Seq({"onset", "recovery"})
    <3>1. /\ <<>> \in Seq({"onset", "recovery"})
          /\ <<"onset">> \in Seq({"onset", "recovery"})
          /\ <<"recovery">> \in Seq({"onset", "recovery"})
      OBVIOUS
    <3>2. /\ SetToSeq({}) = <<>>
          /\ SetToSeq({"onset"}) = <<"onset">>
          /\ SetToSeq({"recovery"}) = <<"recovery">>
      BY SequenceOfNone, SequenceOfOne
    <3> QED
      BY <1>2, <3>1, <3>2
  <2> HIDE DEF RegisterTypes
  <2>2. said \in Seq({"onset", "recovery"})
    BY DEF RegisterTypes
  <2> QED
    BY <2>1, <2>2
<1>4. row' \in Row
  BY <1>0 DEF Recorded, Row, RegisterTypes
<1>5. ASSUME storeFaults' = 0
      PROVE  storeFaults = 0 /\ readable = TRUE /\ writable = TRUE
  BY <1>0, <1>5
<1>6. ASSUME storeFaults' = 0, row.active = active
      PROVE  row' = row /\ said' = said
  <2>1. Edge(row, active, readable) = {}
    BY <1>5, <1>6 DEF Edge, WasActive
  <2>2. said' = said \o <<>>
    BY <2>1, SequenceOfNone
  <2> QED
    BY <2>1, <2>2 DEF Recorded, RegisterTypes
<1>7. ASSUME storeFaults' = 0, row.active # active
      PROVE  /\ row' = [active |-> active,
                        onsets |-> row.onsets + IF active THEN 1 ELSE 0]
             /\ said' = Append(said, IF active THEN "onset" ELSE "recovery")
  <2> DEFINE edge == IF active THEN "onset" ELSE "recovery"
  <2>1. Edge(row, active, readable) = {edge}
    BY <1>0, <1>5, <1>7 DEF Edge, WasActive
  <2>2. said' = said \o <<edge>>
    BY <2>1, SequenceOfOne
  <2>3. said' = Append(said, edge)
    BY <2>2 DEF RegisterTypes
  <2>4. Edge(row, active, readable) # {} /\ readable = TRUE /\ writable = TRUE
    BY <1>5, <1>7, <2>1
  <2>5. row' = [active |-> active,
                onsets |-> (IF readable THEN row.onsets ELSE 0) + IF active THEN 1 ELSE 0]
    BY <2>4 DEF Recorded
  <2> QED
    BY <2>3, <2>4, <2>5
<1> QED
  BY <1>1, <1>3, <1>4, <1>5, <1>6, <1>7

\* The edges announced alternate, beginning with an onset.
Alternates(edges) ==
    \A i \in 1..Len(edges) : edges[i] = IF i % 2 = 1 THEN "onset" ELSE "recovery"

LEMMA NextEdge ==
    ASSUME NEW edges \in Seq({"onset", "recovery"}), Alternates(edges),
           NEW active \in BOOLEAN, active <=> Len(edges) % 2 # 1,
           NEW longer, longer = Append(edges, IF active THEN "onset" ELSE "recovery")
    PROVE  Alternates(longer) /\ (active <=> Len(longer) % 2 = 1)
<1> DEFINE n == Len(edges)
<1>1. n \in Nat /\ Len(longer) = n + 1
  OBVIOUS
<1>2. (n + 1) % 2 = 1 <=> n % 2 # 1
  BY <1>1
<1>3. \A i \in 1..n : longer[i] = edges[i]
  OBVIOUS
<1>4. longer[n + 1] = IF active THEN "onset" ELSE "recovery"
  OBVIOUS
<1> HIDE DEF n
<1>5. longer[n + 1] = IF (n + 1) % 2 = 1 THEN "onset" ELSE "recovery"
  BY <1>2, <1>4 DEF n
<1>6. \A i \in 1..(n + 1) : i \in 1..n \/ i = n + 1
  BY <1>1
<1>7. \A i \in 1..n : edges[i] = IF i % 2 = 1 THEN "onset" ELSE "recovery"
  BY DEF Alternates, n
<1>8. Alternates(longer)
  BY <1>1, <1>3, <1>5, <1>6, <1>7 DEF Alternates
<1> QED
  BY <1>1, <1>2, <1>8 DEF n

\* Only the records of the stack's start and its fall touch the register.
LEMMA RegisterUnchanged ==
    ASSUME Next, ~RecordUp, ~RecordDown
    PROVE  UNCHANGED <<row, said, storeFaults, outage>>
<1>1. CASE Around \/ Watches
  BY <1>1 DEF Around, TickArrives, FeedFallsSilent, MainAdvances, AskRestart, AckPasses,
     Watches, ManualLost, StaleLost, register, past
<1>2. CASE \E s \in Service : ServiceExits(s) \/ ServiceStops(s)
  BY <1>2 DEF ServiceExits, ServiceStops, register, past
<1>3. CASE Launch \/ Launcher \/ StartFails \/ SeeExit
  BY <1>3 DEF Launch, Launcher, Preflight, StartNext, AllStarted, UpdateRestart, RollBack, Ask,
     AllAsked, GraceEnds, Kill, Finish, StartFails, SeeExit, register, past
<1>4. CASE ManualRestart \/ FastForward \/ CheckBreaks \/ StaleRestart \/ Interrupt
  BY <1>4 DEF ManualRestart, FastForward, CheckBreaks, StaleRestart, Interrupt, register, past
<1> QED
  BY <1>1, <1>2, <1>3, <1>4 DEF Next, Around, Watches

\* RegisterInv, of the register and of the run it is about.
RowIsOutage ==
    storeFaults = 0 =>
        /\ row.active = outage.now /\ row.onsets = outage.count
        /\ Alternates(said)
        /\ outage.now <=> Len(said) % 2 = 1

RunIsOutage ==
    /\ pc \in {"preflight", "starting", "started", "watching", "checking"} =>
           why \notin {"crash", "startup"}
    /\ pc \in {"watching", "checking"} => outage.now = FALSE
    /\ why \in {"crash", "startup"} /\ pc # "recording" => outage.now = TRUE

LEMMA RegisterParts == RegisterTypes => (RegisterInv <=> RowIsOutage /\ RunIsOutage)
BY DEF RegisterTypes, RegisterInv, RowIsOutage, RunIsOutage, Alternates

\* How a record changes the row when the register did not fail.
LEMMA RecordKeepsRow ==
    ASSUME RegisterTypes, RowIsOutage, diskFaults \in Nat,
           NEW active \in BOOLEAN, Observe(active),
           outage' \in [now : BOOLEAN, count : Nat],
           outage'.now = active,
           outage'.count = outage.count + IF active /\ outage.now = FALSE THEN 1 ELSE 0
    PROVE  RowIsOutage'
<1> SUFFICES ASSUME storeFaults' = 0
             PROVE  /\ row'.active = active /\ row'.onsets = outage'.count
                    /\ Alternates(said')
                    /\ active <=> Len(said') % 2 = 1
  BY DEF RowIsOutage, Alternates
<1>1. storeFaults = 0
  BY ObserveSays
<1>2. /\ row.active = outage.now /\ row.onsets = outage.count
      /\ Alternates(said) /\ (outage.now <=> Len(said) % 2 = 1)
  BY <1>1 DEF RowIsOutage
<1>3. /\ row.active \in BOOLEAN /\ row.onsets \in Nat /\ outage.now \in BOOLEAN
      /\ outage.count \in Nat
  BY DEF RegisterTypes, Row
<1>4. CASE row.active = active
  <2>1. row' = row /\ said' = said
    BY <1>4, ObserveSays
  <2>2. outage'.count = outage.count
    BY <1>2, <1>3, <1>4
  <2> QED
    BY <1>2, <1>4, <2>1, <2>2
<1>5. CASE row.active # active
  <2>1. /\ row' = [active |-> active, onsets |-> row.onsets + IF active THEN 1 ELSE 0]
        /\ said' = Append(said, IF active THEN "onset" ELSE "recovery")
    BY <1>5, ObserveSays
  <2>2. active <=> Len(said) % 2 # 1
    BY <1>2, <1>3, <1>5
  <2>3. Alternates(said') /\ (active <=> Len(said') % 2 = 1)
    BY <1>2, <2>1, <2>2, NextEdge DEF RegisterTypes
  <2>4. row'.active = active /\ row'.onsets = outage'.count
    BY <1>2, <1>3, <1>5, <2>1
  <2> QED
    BY <2>3, <2>4
<1> QED
  BY <1>4, <1>5

LEMMA RegisterStep ==
    ASSUME RegisterTypes, RowIsOutage, RunIsOutage, diskFaults \in Nat, Next
    PROVE  RegisterTypes' /\ RowIsOutage' /\ RunIsOutage'
<1>0. outage.now \in BOOLEAN /\ outage.count \in Nat
  BY DEF RegisterTypes
<1>1. CASE RecordUp
  <2>1. Observe(FALSE) /\ outage' = [outage EXCEPT !.now = FALSE]
    BY <1>1 DEF RecordUp
  <2>2. /\ outage' \in [now : BOOLEAN, count : Nat]
        /\ outage'.now = FALSE
        /\ outage'.count = outage.count + IF FALSE /\ outage.now = FALSE THEN 1 ELSE 0
    <3>1. outage' \in [now : BOOLEAN, count : Nat] /\ outage'.now = FALSE
      BY <2>1 DEF RegisterTypes
    <3>2. outage'.count = outage.count
      BY <2>1 DEF RegisterTypes
    <3>3. outage.count = outage.count + IF FALSE /\ outage.now = FALSE THEN 1 ELSE 0
      BY <1>0
    <3> QED
      BY <3>1, <3>2, <3>3
  <2>3. RegisterTypes'
    BY <2>1, <2>2, ObserveSays DEF RegisterTypes
  <2>4. RowIsOutage'
    BY <1>0, <2>1, <2>2, RecordKeepsRow
  <2>5. RunIsOutage'
    BY <1>1, <2>2 DEF RunIsOutage, RecordUp
  <2> QED
    BY <2>3, <2>4, <2>5
<1>2. CASE RecordDown
  <2>1. /\ Observe(TRUE)
        /\ outage' = [now |-> TRUE, count |-> outage.count + IF outage.now THEN 0 ELSE 1]
    BY <1>2 DEF RecordDown
  <2>2. /\ outage' \in [now : BOOLEAN, count : Nat]
        /\ outage'.now = TRUE
        /\ outage'.count = outage.count + IF TRUE /\ outage.now = FALSE THEN 1 ELSE 0
    BY <1>0, <2>1
  <2>3. RegisterTypes'
    BY <2>1, <2>2, ObserveSays DEF RegisterTypes
  <2>4. RowIsOutage'
    BY <2>1, <2>2, RecordKeepsRow
  <2>5. RunIsOutage'
    BY <1>2, <2>2 DEF RunIsOutage, RecordDown, BeginStop
  <2> QED
    BY <2>3, <2>4, <2>5
<1>3. CASE ~RecordUp /\ ~RecordDown
  <2>1. UNCHANGED <<row, said, storeFaults, outage>>
    BY <1>3, RegisterUnchanged
  <2>2. RegisterTypes' /\ RowIsOutage'
    BY <2>1 DEF RegisterTypes, RowIsOutage, Alternates
  <2>3. RunIsOutage'
    <3> USE <2>1 DEF RunIsOutage
    <3>1. CASE Around \/ Watches
      BY <3>1 DEF Around, TickArrives, FeedFallsSilent, MainAdvances, AskRestart, AckPasses,
         Watches, ManualLost, StaleLost
    <3>2. CASE \E s \in Service : ServiceExits(s) \/ ServiceStops(s)
      BY <3>2 DEF ServiceExits, ServiceStops
    <3>3. CASE Launch \/ Preflight
      BY <3>3 DEF Launch, Preflight
    <3>4. CASE StartNext \/ StartFails \/ AllStarted \/ SeeExit \/ FastForward \/ RollBack
               \/ CheckBreaks
      BY <3>4 DEF StartNext, StartFails, AllStarted, SeeExit, FastForward, RollBack, CheckBreaks
    <3>5. CASE ManualRestart \/ UpdateRestart \/ StaleRestart
      BY <3>5 DEF ManualRestart, UpdateRestart, StaleRestart, BeginStop
    <3>6. CASE Interrupt
      BY <3>6 DEF Interrupt, BeginStop
    <3>7. CASE Ask \/ AllAsked \/ GraceEnds \/ Kill
      BY <3>7 DEF Ask, AllAsked, GraceEnds, Kill
    <3>8. CASE Finish
      BY <3>8 DEF Finish, Planned
    <3> QED
      BY <1>3, <3>1, <3>2, <3>3, <3>4, <3>5, <3>6, <3>7, <3>8
         DEF Next, Launcher, Around, Watches
  <2> QED
    BY <2>2, <2>3
<1> QED
  BY <1>1, <1>2, <1>3

(***************************************************************************)
(* The rest of the state.                                                  *)
(***************************************************************************)

RestTypes ==
    /\ tree \in Version /\ local \in Version /\ remote \in Version
    /\ quiet \in BOOLEAN
    /\ request \in 0..MaxAsks /\ acked \in BOOLEAN /\ asks \in 0..MaxAsks
    /\ served \in [1..MaxAsks -> Nat]
    /\ launches \in 0..MaxLaunches /\ exits \in 0..MaxExits
    /\ interrupts \in 0..MaxInterrupts

LEMMA RestTypesStep ==
    ASSUME RestTypes, Next
    PROVE  RestTypes'
<1> USE DEF RestTypes
<1>1. /\ MaxAsks \in Nat /\ MaxLaunches \in Nat /\ MaxExits \in Nat /\ MaxInterrupts \in Nat
  BY LifecycleAssumption
<1>2. CASE TickArrives \/ FeedFallsSilent
  BY <1>2 DEF TickArrives, FeedFallsSilent, files, asking, past, bounds
<1>3. CASE MainAdvances
  BY <1>3 DEF MainAdvances, asking, feed, past, bounds
<1>4. CASE AskRestart
  <2>1. asks' \in 0..MaxAsks /\ request' \in 0..MaxAsks
    BY <1>1, <1>4 DEF AskRestart
  <2>2. acked' \in BOOLEAN
    BY <1>4 DEF AskRestart
  <2> QED
    BY <1>4, <2>1, <2>2 DEF AskRestart, files, feed, past, bounds
<1>13. CASE AckPasses
  BY <1>13 DEF AckPasses, files, feed, past, bounds
<1>5. CASE \E s \in Service : ServiceExits(s) \/ ServiceStops(s)
  BY <1>1, <1>5 DEF ServiceExits, ServiceStops, files, feed, asking, past, bounds
<1>6. CASE Launch \/ StartFails
  BY <1>1, <1>6 DEF Launch, StartFails, files, feed, asking, past, bounds
<1>7. CASE Preflight \/ StartNext \/ AllStarted \/ RecordUp \/ RecordDown \/ SeeExit
           \/ UpdateRestart
  BY <1>7 DEF Preflight, StartNext, AllStarted, RecordUp, RecordDown, SeeExit, UpdateRestart,
     files, feed, asking, past, bounds
<1>8. CASE Ask \/ AllAsked \/ GraceEnds \/ Kill \/ Finish
  BY <1>8 DEF Ask, AllAsked, GraceEnds, Kill, Finish, files, feed, asking, past, bounds
<1>9. CASE ManualRestart \/ ManualLost
  <2>1. request' \in 0..MaxAsks
    BY <1>1, <1>9 DEF ManualRestart, ManualLost, Consumed
  <2>2. served' \in [1..MaxAsks -> Nat]
    BY <1>9 DEF ManualRestart, ManualLost, past
  <2>3. UNCHANGED <<tree, local, remote, quiet, acked, asks, launches, exits, interrupts>>
    BY <1>9 DEF ManualRestart, ManualLost, files, feed, bounds
  <2> QED
    BY <2>1, <2>2, <2>3
<1>10. CASE FastForward \/ RollBack \/ CheckBreaks
  BY <1>10 DEF FastForward, RollBack, CheckBreaks, files, feed, asking, past, bounds
<1>11. CASE StaleRestart \/ StaleLost
  BY <1>11 DEF StaleRestart, StaleLost, files, asking, past
<1>12. CASE Interrupt
  BY <1>1, <1>12 DEF Interrupt, files, feed, asking, past
<1> QED
  BY <1>2, <1>3, <1>4, <1>5, <1>6, <1>7, <1>8, <1>9, <1>10, <1>11, <1>12, <1>13
     DEF Next, Launcher

LEMMA TypeParts ==
    TypeOK <=> LauncherTypes /\ StaleTypes /\ RegisterTypes /\ RestTypes
BY DEF TypeOK, LauncherTypes, StaleTypes, RegisterTypes, RestTypes

(***************************************************************************)
(* The theorems.                                                           *)
(***************************************************************************)

LEMMA InitOK == Init => IInv
<1> SUFFICES ASSUME Init
             PROVE  IInv
  OBVIOUS
<1> USE DEF Init
<1>1. /\ 1 \in Version
      /\ \A n \in {MaxTick, MaxAsks, MaxLaunches, MaxExits, MaxInterrupts, MaxFailures} :
           n \in Nat /\ 0 \in 0..n
  BY LifecycleAssumption
<1>2. LauncherTypes
  BY DEF LauncherTypes, Pc, Why
<1>3. StaleTypes /\ StaleInv
  BY <1>1 DEF StaleTypes, StaleInv
<1>4. RegisterTypes
  BY <1>1 DEF RegisterTypes, Row, NoRow
<1>5. RowIsOutage /\ RunIsOutage
  BY DEF RowIsOutage, RunIsOutage, Alternates, NoRow
<1>6. RestTypes
  BY <1>1 DEF RestTypes
<1>7. StopInv
  BY DEF StopInv, NoOrphans, Live
<1> QED
  BY <1>2, <1>3, <1>4, <1>5, <1>6, <1>7, TypeParts, RegisterParts DEF IInv

LEMMA NextOK == IInv /\ [Next]_vars => IInv'
<1> SUFFICES ASSUME IInv, [Next]_vars
             PROVE  IInv'
  OBVIOUS
<1>1. /\ LauncherTypes /\ StaleTypes /\ RegisterTypes /\ RestTypes
      /\ StopInv /\ StaleInv /\ RowIsOutage /\ RunIsOutage
  BY TypeParts, RegisterParts DEF IInv
<1>0. diskFaults \in Nat /\ storeFaults \in Nat
  BY <1>1, LifecycleAssumption DEF StaleTypes, RegisterTypes
<1>2. CASE Next
  <2>1. LauncherTypes' /\ StopInv'
    BY <1>1, <1>2, LauncherTypesStep, StopStep
  <2>2. StaleTypes' /\ StaleInv'
    BY <1>0, <1>1, <1>2, StaleStep
  <2>3. RegisterTypes' /\ RowIsOutage' /\ RunIsOutage'
    BY <1>0, <1>1, <1>2, RegisterStep
  <2>4. RestTypes'
    BY <1>1, <1>2, RestTypesStep
  <2>5. TypeOK'
    BY <2>1, <2>2, <2>3, <2>4
       DEF TypeOK, LauncherTypes, StaleTypes, RegisterTypes, RestTypes
  <2>6. RegisterInv'
    BY <2>3 DEF RegisterInv, RowIsOutage, RunIsOutage, Alternates
  <2> QED
    BY <2>1, <2>2, <2>5, <2>6 DEF IInv
<1>3. CASE UNCHANGED vars
  BY <1>3 DEF vars, files, feed, asking, register, past, bounds, IInv, TypeOK, StopInv,
     NoOrphans, Live, StaleInv, RegisterInv
<1> QED
  BY <1>2, <1>3

\* Every behaviour of the stack keeps the invariant.
THEOREM Invariance == Spec => []IInv
BY InitOK, NextOK, PTL DEF Spec

\* Every variable keeps its type.
THEOREM TypeCorrect == Spec => []TypeOK
<1>1. IInv => TypeOK
  BY DEF IInv
<1> QED
  BY <1>1, Invariance, PTL

\* A launcher that ended, or is executed again, left no service behind, unless Ctrl+C came
\* where run() does not catch it (supervisor.py).
THEOREM NobodyIsLeft == Spec => []NoOrphans
<1>1. IInv => NoOrphans
  BY DEF IInv, StopInv
<1> QED
  BY <1>1, Invariance, PTL

\* A tick that was the last for too long restarts the stack once, if the state file can be
\* written (runtime_guardian.py).
THEOREM StaleOnce == Spec => []StaleRestartOnce
<1>1. IInv => StaleRestartOnce
  BY DEF IInv, StaleInv, StaleRestartOnce
<1> QED
  BY <1>1, Invariance, PTL

\* The register's row counts the outages, and its edges alternate, while it can be read and
\* written (ops_events.py).
THEOREM RegisterTellsTheTruth == Spec => []RegisterIsTrue
<1>1. IInv => RegisterIsTrue
  BY DEF IInv, RegisterInv, RegisterIsTrue
<1> QED
  BY <1>1, Invariance, PTL

(***************************************************************************)
(* The sleep cycle of a service: it parks itself only after a              *)
(* confirmation's worth of CLOSED readings, and never twice without a      *)
(* market that was open in between, for any symbols, any week, any         *)
(* confirmation and any lead.                                              *)
(***************************************************************************)

\* closed_since begins a run of CLOSED readings that is still going on.
RunGoesOn ==
    closedSince # None =>
        /\ closedSince <= clock /\ calm # None
        /\ clock - closedSince <= calm \/ calm = Confirm

\* Awake, a service has seen an open market since it slept last.
AwakeHasTraded == phase \in Awake => reopened

SleepInv == SleepTypeOK /\ RunGoesOn /\ AwakeHasTraded

\* One of the ways SleepCycle.observe goes.
Observes(states) ==
    \/ FallsAsleep(states) \/ StaysAwake(states) \/ Closing(states)
    \/ Wakes(states) \/ WakesEarly(states) \/ SleepsOn(states)

\* Whatever a poll reads, the phase and the run of readings stay what they are.
LEMMA ObservesTypes ==
    ASSUME NEW states, SleepTypeOK, Observes(states), Remembers(states)
    PROVE  /\ phase' \in Awake \cup Asleep
           /\ closedSince' \in Nat \cup {None}
           /\ calm' \in {None} \cup 0..Confirm
           /\ reopened' \in BOOLEAN
<1> USE SleepCycleAssumption
<1>1. phase' \in Awake \cup Asleep
  BY DEF SleepTypeOK, Observes, FallsAsleep, StaysAwake, Closing, Wakes, WakesEarly, SleepsOn,
         Awake, Asleep
<1>2. Since(states) \in Nat \cup {None}
  BY DEF SleepTypeOK, Since
<1>3. closedSince' \in Nat \cup {None}
  BY <1>2 DEF Observes, FallsAsleep, StaysAwake, Closing, Wakes, WakesEarly, SleepsOn
<1>4. calm' \in {None} \cup 0..Confirm
  BY DEF SleepTypeOK, Remembers
<1>5. reopened' \in BOOLEAN
  BY Zenon DEF Remembers
<1> QED BY <1>1, <1>3, <1>4, <1>5

\* A poll's run of CLOSED readings is as long as it says.
LEMMA ObservesRun ==
    ASSUME NEW states, SleepTypeOK, RunGoesOn, clock' = clock,
           Observes(states), Remembers(states)
    PROVE  RunGoesOn'
<1> USE SleepCycleAssumption
<1>1. closedSince' = None \/ closedSince' = Since(states)
  BY DEF Observes, FallsAsleep, StaysAwake, Closing, Wakes, WakesEarly, SleepsOn
<1>2. CASE ~AllClosed(states)
  BY <1>1, <1>2 DEF Since, RunGoesOn
<1>3. CASE AllClosed(states) /\ closedSince = None
  <2>1. calm' # None
    BY <1>3 DEF Remembers, SleepTypeOK
  <2>2. calm' \in 0..Confirm
    BY <1>3 DEF Remembers, SleepTypeOK
  <2> QED BY <1>1, <1>3, <2>1, <2>2 DEF Since, RunGoesOn, SleepTypeOK
<1>4. CASE AllClosed(states) /\ closedSince # None
  <2>1. calm' = calm
    BY <1>4 DEF Remembers, RunGoesOn
  <2> QED BY <1>1, <1>4, <2>1 DEF Since, RunGoesOn, SleepTypeOK
<1> QED BY <1>2, <1>3, <1>4

\* Nothing but an OPEN reading makes a sleeping service awake.
LEMMA ObservesTraded ==
    ASSUME NEW states, SleepTypeOK, AwakeHasTraded, Observes(states), Remembers(states)
    PROVE  AwakeHasTraded'
<1>1. CASE FallsAsleep(states) \/ WakesEarly(states) \/ SleepsOn(states)
  <2>1. phase' \notin Awake
    BY <1>1 DEF FallsAsleep, WakesEarly, SleepsOn, Awake, Asleep
  <2> QED BY <2>1 DEF AwakeHasTraded
<1>2. CASE StaysAwake(states) \/ Closing(states)
  <2>1. phase \in Awake /\ ~Slept
    BY <1>2 DEF StaysAwake, Closing, Slept
  <2>2. reopened
    BY <2>1 DEF AwakeHasTraded
  <2>3. reopened'
    BY <2>1, <2>2, Zenon DEF Remembers
  <2> QED BY <2>3 DEF AwakeHasTraded
<1>3. CASE Wakes(states)
  <2>1. Some(states, "OPEN")
    BY <1>3 DEF Wakes
  <2>2. reopened'
    BY <2>1, Zenon DEF Remembers
  <2> QED BY <2>2 DEF AwakeHasTraded
<1> QED BY <1>1, <1>2, <1>3 DEF Observes

\* What a poll does to the state, with its readings out of sight.
LEMMA PollObserves ==
    ASSUME Poll
    PROVE  \E states : /\ Observes(states) /\ Remembers(states)
                       /\ polled' = TRUE /\ clock' = clock
<1>1. PICK mode \in [Symbol -> Modes], silent \in SUBSET Symbol :
          LET states == [s \in Symbol |-> Classified(clock, mode[s], s \in silent)]
          IN  /\ \/ FallsAsleep(states) /\ OnClose
                 \/ StaysAwake(states) /\ NoClose(mode)
                 \/ Closing(states) /\ NoClose(mode)
                 \/ Wakes(states) /\ NoClose(mode)
                 \/ WakesEarly(states) /\ NoClose(mode)
                 \/ SleepsOn(states) /\ NoClose(mode)
              /\ Remembers(states)
  BY Zenon DEF Poll
<1> DEFINE states == [s \in Symbol |-> Classified(clock, mode[s], s \in silent)]
<1>2. Observes(states) /\ Remembers(states)
  <2> HIDE DEF states
  <2>1. /\ \/ FallsAsleep(states) \/ StaysAwake(states) \/ Closing(states)
           \/ Wakes(states) \/ WakesEarly(states) \/ SleepsOn(states)
        /\ Remembers(states)
    BY <1>1, Zenon DEF states
  <2> QED BY <2>1, Zenon DEF Observes
<1>3. polled' = TRUE /\ clock' = clock
  BY Zenon DEF Poll
<1> QED BY <1>2, <1>3, Zenon

-----------------------------------------------------------------------------
LEMMA InitHolds == SleepInit => SleepInv
<1> SUFFICES ASSUME SleepInit PROVE SleepInv
  OBVIOUS
<1>1. SleepTypeOK
  BY SleepCycleAssumption DEF SleepInit, SleepTypeOK, Awake, Asleep
<1>2. RunGoesOn
  BY DEF SleepInit, RunGoesOn
<1>3. AwakeHasTraded
  BY Zenon DEF SleepInit, AwakeHasTraded
<1> QED BY <1>1, <1>2, <1>3 DEF SleepInv

LEMMA PollHolds == SleepInv /\ Poll => SleepInv'
<1> SUFFICES ASSUME SleepInv, Poll PROVE SleepInv'
  OBVIOUS
<1>1. PICK states : /\ Observes(states) /\ Remembers(states)
                    /\ polled' = TRUE /\ clock' = clock
  BY PollObserves
<1>2. SleepTypeOK'
  BY <1>1, ObservesTypes DEF SleepInv, SleepTypeOK
<1>3. RunGoesOn'
  BY <1>1, ObservesRun DEF SleepInv
<1>4. AwakeHasTraded'
  BY <1>1, ObservesTraded DEF SleepInv
<1> QED BY <1>2, <1>3, <1>4 DEF SleepInv

LEMMA PollFailsHolds == SleepInv /\ PollFails => SleepInv'
<1> SUFFICES ASSUME SleepInv, PollFails PROVE SleepInv'
  OBVIOUS
<1>1. /\ polled' = TRUE /\ clock' = clock /\ phase' = phase /\ closedSince' = closedSince
      /\ calm' = calm /\ reopened' = reopened
  BY DEF PollFails, cycle, memory
<1>2. SleepTypeOK'
  BY <1>1 DEF SleepInv, SleepTypeOK
<1>3. RunGoesOn'
  BY <1>1 DEF SleepInv, RunGoesOn
<1>4. AwakeHasTraded'
  BY <1>1 DEF SleepInv, AwakeHasTraded
<1> QED BY <1>2, <1>3, <1>4 DEF SleepInv

LEMMA RestartHolds == SleepInv /\ Restart => SleepInv'
<1> SUFFICES ASSUME SleepInv, Restart PROVE SleepInv'
  OBVIOUS
<1>1. SleepTypeOK'
  BY SleepCycleAssumption DEF SleepInv, SleepTypeOK, Restart, Awake, Asleep
<1>2. RunGoesOn'
  BY DEF Restart, RunGoesOn
<1>3. AwakeHasTraded'
  BY Zenon DEF Restart, AwakeHasTraded
<1> QED BY <1>1, <1>2, <1>3 DEF SleepInv

LEMMA TickHolds == SleepInv /\ Tick => SleepInv'
<1> SUFFICES ASSUME SleepInv, Tick PROVE SleepInv'
  OBVIOUS
<1> USE SleepCycleAssumption
<1>1. /\ clock' = clock + 1 /\ polled' = FALSE
      /\ calm' = IF calm = None \/ calm = Confirm THEN calm ELSE calm + 1
      /\ phase' = phase /\ closedSince' = closedSince /\ reopened' = reopened
  BY DEF Tick, cycle
<1>2. SleepTypeOK'
  <2>1. clock' \in Nat /\ calm' \in {None} \cup 0..Confirm
    BY <1>1 DEF SleepInv, SleepTypeOK
  <2>2. polled' \in BOOLEAN /\ reopened' \in BOOLEAN
    BY <1>1, Zenon DEF SleepInv, SleepTypeOK
  <2> QED BY <1>1, <2>1, <2>2 DEF SleepInv, SleepTypeOK
<1>3. RunGoesOn'
  BY <1>1 DEF SleepInv, SleepTypeOK, RunGoesOn
<1>4. AwakeHasTraded'
  BY <1>1 DEF SleepInv, AwakeHasTraded
<1> QED BY <1>2, <1>3, <1>4 DEF SleepInv

LEMMA StutterHolds == SleepInv /\ UNCHANGED sleepVars => SleepInv'
<1> SUFFICES ASSUME SleepInv, UNCHANGED sleepVars PROVE SleepInv'
  OBVIOUS
<1>1. /\ polled' = polled /\ clock' = clock /\ phase' = phase /\ closedSince' = closedSince
      /\ calm' = calm /\ reopened' = reopened
  BY DEF sleepVars, cycle, memory
<1>2. SleepTypeOK' /\ RunGoesOn' /\ AwakeHasTraded'
  BY <1>1 DEF SleepInv, SleepTypeOK, RunGoesOn, AwakeHasTraded
<1> QED BY <1>2 DEF SleepInv

\* The invariant the two theorems rest on.
THEOREM SleepInvariance == SleepSpec => []SleepInv
<1>1. SleepInv /\ [SleepNext]_sleepVars => SleepInv'
  BY PollHolds, PollFailsHolds, RestartHolds, TickHolds, StutterHolds DEF SleepNext
<1> QED BY InitHolds, <1>1, PTL DEF SleepSpec

\* The sleep cycle's variables keep their types.
THEOREM SleepTypesHold == SleepSpec => []SleepTypeOK
<1>1. SleepInv => SleepTypeOK
  BY DEF SleepInv
<1> QED BY SleepInvariance, <1>1, PTL

\* Only a poll puts a service to sleep.
LEMMA OnlyPollSleeps ==
    ASSUME [SleepNext]_sleepVars, Slept
    PROVE  Poll
<1>1. ~PollFails /\ ~Tick /\ ~UNCHANGED sleepVars
  BY DEF PollFails, Tick, Slept, sleepVars, cycle, Awake
<1>2. ~Restart
  BY DEF Restart, Slept
<1> QED BY <1>1, <1>2 DEF SleepNext

\* And then every reading of the confirmation was CLOSED.
LEMMA SleepsConfirmed ==
    ASSUME SleepInv, [SleepNext]_sleepVars, Slept
    PROVE  calm' = Confirm
<1> USE SleepCycleAssumption
<1>1. PICK states : /\ Observes(states) /\ Remembers(states)
                    /\ polled' = TRUE /\ clock' = clock
  BY OnlyPollSleeps, PollObserves
<1>2. FallsAsleep(states)
  BY <1>1 DEF Slept, Observes, StaysAwake, Closing, Wakes, WakesEarly, SleepsOn, Awake, Asleep
<1>3. AllClosed(states) /\ clock - Since(states) >= Confirm
  BY <1>2 DEF FallsAsleep
<1>4. CASE closedSince = None
  BY <1>1, <1>3, <1>4 DEF Since, Remembers, SleepInv, SleepTypeOK
<1>5. CASE closedSince # None
  <2>1. calm # None /\ (clock - closedSince <= calm \/ calm = Confirm)
    BY <1>5 DEF SleepInv, RunGoesOn
  <2>2. calm' = calm
    BY <1>1, <1>3, <2>1 DEF Remembers
  <2> QED BY <1>3, <1>5, <2>1, <2>2 DEF Since, SleepInv, SleepTypeOK
<1> QED BY <1>4, <1>5

\* A close is reported after an uninterrupted confirmation and once, until the
\* process has seen an open market again, whatever the symbols, the week and
\* the confirmation (SleepCycle._while_awake).
THEOREM CloseIsConfirmed == SleepSpec => ParksOncePerClose
<1>1. ASSUME SleepInv, [SleepNext]_sleepVars, Slept
      PROVE  calm' = Confirm /\ reopened
  BY <1>1, SleepsConfirmed DEF SleepInv, AwakeHasTraded, Slept
<1>2. SleepInv /\ [SleepNext]_sleepVars => [Slept => calm' = Confirm /\ reopened]_sleepVars
  BY <1>1
<1> QED BY SleepInvariance, <1>2, PTL DEF SleepSpec, ParksOncePerClose

(***************************************************************************)
(* Every close is followed by a review.  A weekend has room for one        *)
(* confirmation after another: each fault and each restart costs one, and  *)
(* if they are too few to use the weekend up, the service is asleep, and   *)
(* the review written, before the market can look like opening.            *)
(***************************************************************************)

\* A tick of week w's weekend.
InWeekend(t, w) == ClosingTick(w) <= t /\ t < OpeningTick(w)

-----------------------------------------------------------------------------
(* The calendar.                                                             *)

LEMMA QuotientIs ==
    ASSUME NEW d \in Nat \ {0}, NEW q \in Int, NEW t \in Int, d * q <= t, t < d * q + d
    PROVE  t \div d = q
OBVIOUS

LEMMA RemainderIs ==
    ASSUME NEW d \in Nat \ {0}, NEW q \in Int, NEW t \in Int, d * q <= t, t < d * q + d
    PROVE  t % d = t - d * q
<1>1. t \div d = q
  BY QuotientIs
<1> QED BY <1>1

LEMMA Division ==
    ASSUME NEW d \in Nat \ {0}, NEW t \in Int
    PROVE  /\ t \div d \in Int
           /\ d * (t \div d) <= t /\ t < d * (t \div d) + d
OBVIOUS

\* Tick o of weekday k of week w: its weekday, its time of the day, its week.
LEMMA DayOfWeek ==
    ASSUME NEW w \in Int, NEW k \in 0..6, NEW t \in Int,
           Day * (7 * w + k) <= t, t < Day * (7 * w + k) + Day
    PROVE  /\ Weekday(t) = k /\ t % Day = t - Day * (7 * w + k)
           /\ WeekOf(t) = w
<1> USE SleepCycleAssumption
<1>1. t \div Day = 7 * w + k
  BY QuotientIs
<1>2. t % Day = t - Day * (7 * w + k)
  <2> DEFINE q == 7 * w + k
  <2>1. q \in Int /\ Day * q <= t /\ t < Day * q + Day
    OBVIOUS
  <2> HIDE DEF q
  <2>2. t % Day = t - Day * q
    BY <2>1, RemainderIs
  <2> QED BY <2>2 DEF q
<1>3. (7 * w + k) % 7 = k
  OBVIOUS
<1>4. t \div (7 * Day) = w
  <2>1. Day * k >= 0 /\ Day * k <= Day * 6
    OBVIOUS
  <2>2. (7 * Day) * w <= t /\ t < (7 * Day) * w + 7 * Day
    BY <2>1
  <2>3. 7 * Day \in Nat \ {0}
    OBVIOUS
  <2> QED BY <2>2, <2>3, QuotientIs
<1>5. Weekday(t) = k
  BY <1>1, <1>3, Zenon DEF Weekday
<1>6. WeekOf(t) = w
  BY <1>4, Zenon DEF WeekOf
<1> QED BY <1>2, <1>5, <1>6

\* A tick of the weekend lies on its Friday, its Saturday or its Sunday.
LEMMA WeekendDays ==
    ASSUME NEW w \in Int, NEW t \in Int, InWeekend(t, w)
    PROVE  /\ WeekOf(t) = w /\ ~IsOpen(t)
           /\ t + Preopen < OpeningTick(w) => ~IsPreopen(t)
<1> USE SleepCycleAssumption
<1>1. PICK k \in {4, 5, 6} : Day * (7 * w + k) <= t /\ t < Day * (7 * w + k) + Day
  BY DEF InWeekend, ClosingTick, OpeningTick, Friday, Sunday
<1>2. /\ Weekday(t) = k /\ t % Day = t - Day * (7 * w + k)
      /\ WeekOf(t) = w
  BY <1>1, DayOfWeek
<1>3. CASE k = 4
  BY <1>2, <1>3 DEF InWeekend, ClosingTick, IsOpen, IsPreopen, Friday, Saturday, Sunday
<1>4. CASE k = 5
  BY <1>2, <1>4 DEF IsOpen, IsPreopen, Friday, Saturday, Sunday
<1>5. CASE k = 6
  BY <1>2, <1>5 DEF InWeekend, OpeningTick, IsOpen, IsPreopen, Friday, Saturday, Sunday
<1> QED BY <1>3, <1>4, <1>5

\* The market closes at the closing tick: the tick before it is one of the week.
LEMMA ClosesThen ==
    ASSUME NEW w \in Int
    PROVE  /\ Closes(ClosingTick(w) - 1) /\ WeekOf(ClosingTick(w) - 1) = w
           /\ InWeekend(ClosingTick(w), w)
<1> USE SleepCycleAssumption
<1>1. ClosingTick(w) \in Int
  BY DEF ClosingTick, Friday
<1>2. InWeekend(ClosingTick(w), w)
  BY DEF InWeekend, ClosingTick, OpeningTick, Friday, Sunday
<1>3. ~IsOpen(ClosingTick(w))
  BY <1>1, <1>2, WeekendDays
<1>4. ASSUME NEW t \in Int, t = ClosingTick(w) - 1
      PROVE  IsOpen(t) /\ WeekOf(t) = w
  <2>1. PICK k \in {3, 4} : /\ Day * (7 * w + k) <= t /\ t < Day * (7 * w + k) + Day
                            /\ k = 4 => t - Day * (7 * w + k) < CloseTime
    BY <1>4 DEF ClosingTick, Friday
  <2>2. k \in 0..6 /\ Day * (7 * w + k) <= t /\ t < Day * (7 * w + k) + Day
    BY <2>1
  <2>3. Weekday(t) = k /\ t % Day = t - Day * (7 * w + k) /\ WeekOf(t) = w
    BY <2>2, DayOfWeek, Zenon
  <2> QED BY <2>1, <2>3 DEF IsOpen, Friday, Saturday, Sunday
<1>5. IsOpen(ClosingTick(w) - 1) /\ WeekOf(ClosingTick(w) - 1) = w
  BY <1>1, <1>4
<1>6. (ClosingTick(w) - 1) + 1 = ClosingTick(w)
  BY <1>1
<1> QED BY <1>2, <1>3, <1>5, <1>6, Zenon DEF Closes

\* A weekend's review is of the week that has ended or of the one before it,
\* however far ahead, up to a day, the broker's clock is.
LEMMA ReviewsTheWeek ==
    ASSUME NEW w \in Int, NEW t \in Int, InWeekend(t, w), NEW ahead \in 0..Day
    PROVE  FinishedWeek(t, ahead) \in {w - 1, w}
<1> USE SleepCycleAssumption
<1> DEFINE today == (t + ahead) \div Day
           yesterday == today - 1
<1>1. /\ today \in Int
      /\ Day * today <= t + ahead /\ t + ahead < Day * today + Day
  BY Division
<1>2. PICK k \in {4, 5, 6, 7} : Day * (7 * w + k) <= t + ahead /\ t + ahead < Day * (7 * w + k) + Day
  BY DEF InWeekend, ClosingTick, OpeningTick, Friday, Sunday
<1>3. yesterday = 7 * w + k - 1
  BY <1>2, QuotientIs
<1> HIDE DEF yesterday
<1>4. (yesterday - ((yesterday - Friday) % 7)) \div 7 \in {w - 1, w}
  <2>1. CASE k = 4
    BY <1>3, <2>1 DEF Friday
  <2>2. CASE k = 5
    BY <1>3, <2>2 DEF Friday
  <2>3. CASE k = 6
    BY <1>3, <2>3 DEF Friday
  <2>4. CASE k = 7
    BY <1>3, <2>4 DEF Friday
  <2> QED BY <2>1, <2>2, <2>3, <2>4
<1> QED BY <1>4 DEF FinishedWeek, yesterday

\* Later weeks close later.
LEMMA ClosesInOrder ==
    ASSUME NEW v \in Int, NEW w \in Int, v <= w
    PROVE  ClosingTick(v) <= ClosingTick(w)
<1> USE SleepCycleAssumption
<1>1. ASSUME NEW d \in Nat, NEW a \in Int, NEW b \in Int, a <= b
      PROVE  d * a <= d * b
  BY <1>1
<1>2. Day * (7 * v + 4) <= Day * (7 * w + 4)
  BY <1>1
<1> QED BY <1>2 DEF ClosingTick, Friday

-----------------------------------------------------------------------------
(* A week whose review is still owed.                                        *)

Spent == budget.faults + budget.restarts

\* Each fault and each restart puts the confirmation off by itself and a tick.
Deadline(w, n) == ClosingTick(w) + n * (Confirm + 1)

\* The service is awake, and it is early enough for it to fall asleep.
Owed(w) ==
    /\ phase \in Awake
    /\ closedSince # None => closedSince <= Deadline(w, Spent)
    /\ clock <= Deadline(w, Spent) + (IF closedSince = None THEN 0 ELSE Confirm)
                                   - (IF polled THEN 1 ELSE 0)

WeekInv(w) == Decided(w) \/ clock < ClosingTick(w) \/ Owed(w)

BudgetTypes ==
    /\ budget \in [faults : 0..MaxFaults, restarts : 0..MaxRestarts]
    /\ broker.ahead \in {Winter, Summer}

ReviewInv ==
    /\ SleepInv /\ BudgetTypes
    /\ \A w \in Nat : WeekOf(Start) <= w => WeekInv(w)

LEMMA DeadlineMoves ==
    ASSUME NEW w \in Int, NEW n \in Nat
    PROVE  Deadline(w, n) \in Int /\ Deadline(w, n + 1) = Deadline(w, n) + Confirm + 1
<1> USE SleepCycleAssumption
<1>1. ClosingTick(w) \in Int
  BY DEF ClosingTick, Friday
<1> QED BY <1>1 DEF Deadline

LEMMA DeadlineGrows ==
    ASSUME NEW w \in Int, NEW m \in Nat, NEW n \in Nat, m <= n
    PROVE  Deadline(w, m) <= Deadline(w, n)
<1> USE SleepCycleAssumption
<1>1. ClosingTick(w) \in Int
  BY DEF ClosingTick, Friday
<1>2. ASSUME NEW d \in Nat
      PROVE  m * d <= n * d
  OBVIOUS
<1>3. Confirm + 1 \in Nat
  OBVIOUS
<1>4. m * (Confirm + 1) <= n * (Confirm + 1)
  BY <1>2, <1>3
<1> QED BY <1>1, <1>4 DEF Deadline

\* While the review is owed, the market does not look like opening yet.
LEMMA OwedInWeekend ==
    ASSUME LongWeekend, NEW w \in Int, SleepTypeOK, BudgetTypes, Owed(w)
    PROVE  clock + Preopen < OpeningTick(w)
<1> USE SleepCycleAssumption
<1>1. Spent \in Nat /\ Spent <= MaxFaults + MaxRestarts
  BY DEF BudgetTypes, Spent
<1>2. /\ Deadline(w, Spent) \in Int /\ Deadline(w, MaxFaults + MaxRestarts) \in Int
      /\ Deadline(w, Spent) <= Deadline(w, MaxFaults + MaxRestarts)
  BY <1>1, DeadlineMoves, DeadlineGrows
<1>3. clock <= Deadline(w, Spent) + Confirm
  BY <1>2 DEF Owed, SleepTypeOK
<1>4. Deadline(w, MaxFaults + MaxRestarts) + Confirm + Preopen < OpeningTick(w)
  BY DEF LongWeekend, Deadline, OpeningTick, ClosingTick, Friday, Sunday
<1>5. OpeningTick(w) \in Int
  BY DEF OpeningTick, Sunday
<1> QED BY <1>2, <1>3, <1>4, <1>5 DEF SleepTypeOK

-----------------------------------------------------------------------------
(* One step, and a week.                                                     *)

\* The faults and the restarts stay within their bounds.
LEMMA BudgetStep ==
    ASSUME BudgetTypes, [SleepNext]_sleepVars
    PROVE  BudgetTypes'
<1> USE SleepCycleAssumption DEF BudgetTypes
<1>1. CASE Poll
  <2>1. broker' = broker
    BY <1>1, Zenon DEF Poll
  <2>2. OnClose \/ \E mode : NoClose(mode)
    BY <1>1, Zenon DEF Poll
  <2>3. budget' \in [faults : 0..MaxFaults, restarts : 0..MaxRestarts]
    BY <2>2 DEF OnClose, NoClose
  <2> QED BY <2>1, <2>3
<1>2. CASE PollFails
  BY <1>2 DEF PollFails
<1>3. CASE Restart
  BY <1>3 DEF Restart
<1>4. CASE Tick
  <2>1. budget' = budget
    BY <1>4, Zenon DEF Tick
  <2>2. broker' = broker \/ \E x \in {Winter, Summer} : broker' = [ahead |-> x, turned |-> TRUE]
    BY <1>4, Zenon DEF Tick, ChangesClocks
  <2> QED BY <2>1, <2>2
<1>5. CASE UNCHANGED sleepVars
  BY <1>5 DEF sleepVars
<1> QED BY <1>1, <1>2, <1>3, <1>4, <1>5 DEF SleepNext

\* No review is lost, and no excuse.
LEMMA DecidedStays ==
    ASSUME NEW w, Decided(w), [SleepNext]_sleepVars
    PROVE  Decided(w)'
<1>1. early \subseteq early' /\ failed \subseteq failed' /\ reviewed \subseteq reviewed'
  <2>1. CASE Poll
    <3>1. OnClose \/ \E mode : NoClose(mode)
      BY <2>1, Zenon DEF Poll
    <3>2. early' = early
      BY <2>1, Zenon DEF Poll, Remembers
    <3> QED BY <3>1, <3>2 DEF OnClose, NoClose
  <2>2. CASE PollFails
    BY <2>2 DEF PollFails, memory
  <2>3. CASE Restart
    BY <2>3 DEF Restart
  <2>4. CASE Tick
    BY <2>4 DEF Tick
  <2>5. CASE UNCHANGED sleepVars
    BY <2>5 DEF sleepVars, memory
  <2> QED BY <2>1, <2>2, <2>3, <2>4, <2>5 DEF SleepNext
<1> QED BY <1>1 DEF Decided

\* In the weekend, before the preopen, a symbol that is read at all is CLOSED.
LEMMA WeekendReadsClosed ==
    ASSUME NEW t, ~IsOpen(t), ~IsPreopen(t), NEW mode, NEW silent, mode # "unknown"
    PROVE  Classified(t, mode, silent) = "CLOSED"
<1>1. mode # "unknown"
  OBVIOUS
<1> QED BY <1>1, Zenon DEF Classified

\* A poll there: the service falls asleep and the watcher is told, or a symbol
\* could not be read, or every symbol was CLOSED.
LEMMA WeekendPoll ==
    ASSUME LongWeekend, SleepTypeOK, BudgetTypes, Poll, phase \in Awake,
           ~IsOpen(clock), ~IsPreopen(clock)
    PROVE  \E states :
              \/ FallsAsleep(states) /\ OnClose
              \/ /\ StaysAwake(states) /\ Spent' = Spent + 1
              \/ /\ Closing(states) /\ Spent' \in Nat /\ Spent <= Spent'
<1> USE SleepCycleAssumption
<1>1. PICK mode \in [Symbol -> Modes], silent \in SUBSET Symbol :
          LET states == [s \in Symbol |-> Classified(clock, mode[s], s \in silent)]
          IN  \/ FallsAsleep(states) /\ OnClose
              \/ StaysAwake(states) /\ NoClose(mode)
              \/ Closing(states) /\ NoClose(mode)
              \/ Wakes(states) /\ NoClose(mode)
              \/ WakesEarly(states) /\ NoClose(mode)
              \/ SleepsOn(states) /\ NoClose(mode)
  BY Zenon DEF Poll
<1> DEFINE states == [s \in Symbol |-> Classified(clock, mode[s], s \in silent)]
<1>2. ~AllClosed(states) => Unread(mode)
  <2> SUFFICES ASSUME ~AllClosed(states) PROVE Unread(mode)
    OBVIOUS
  <2>1. PICK s \in Symbol : states[s] # "CLOSED"
    BY Zenon DEF LongWeekend, AllClosed
  <2>2. states[s] = Classified(clock, mode[s], s \in silent)
    BY Zenon
  <2>3. mode[s] = "unknown"
    BY <2>1, <2>2, WeekendReadsClosed, Zenon
  <2> QED BY <2>3, Zenon DEF Unread
<1> HIDE DEF states
<1>3. \/ FallsAsleep(states) /\ OnClose
      \/ (StaysAwake(states) \/ Closing(states)) /\ NoClose(mode)
  <2>1. ~Wakes(states) /\ ~WakesEarly(states) /\ ~SleepsOn(states)
    BY DEF Wakes, WakesEarly, SleepsOn, Awake, Asleep
  <2> QED BY <1>1, <2>1, Zenon DEF states
<1>4. CASE StaysAwake(states) /\ NoClose(mode)
  <2>1. Unread(mode)
    BY <1>2, <1>4 DEF StaysAwake
  <2>2. Spent' = Spent + 1
    BY <1>4, <2>1 DEF NoClose, Spent, BudgetTypes
  <2> QED BY <1>4, <2>2
<1>5. CASE Closing(states) /\ NoClose(mode)
  <2>1. Spent' \in Nat /\ Spent <= Spent'
    <3>1. CASE Unread(mode)
      BY <1>5, <3>1 DEF NoClose, Spent, BudgetTypes
    <3>2. CASE ~Unread(mode)
      BY <1>5, <3>2 DEF NoClose, Spent, BudgetTypes
    <3> QED BY <3>1, <3>2
  <2> QED BY <1>5, <2>1
<1> QED BY <1>3, <1>4, <1>5, Zenon

\* The watcher that is told writes the review of the week, or fails at it.
LEMMA ToldIsDecided ==
    ASSUME LongWeekend, NEW w \in Int, SleepTypeOK, BudgetTypes, InWeekend(clock, w), OnClose
    PROVE  Decided(w)'
<1> USE SleepCycleAssumption
<1>1. WeekOf(clock) = w /\ ~IsOpen(clock)
  BY WeekendDays DEF SleepTypeOK
<1>2. broker.ahead \in 0..Day
  BY DEF BudgetTypes, LongWeekend
<1>3. FinishedWeek(clock, broker.ahead) \in {w - 1, w}
  BY <1>2, ReviewsTheWeek DEF SleepTypeOK
<1>4. CASE failed' = failed \cup {WeekOf(clock)}
  BY <1>1, <1>4 DEF Decided
<1>5. CASE reviewed' = reviewed \cup {<<WeekOf(clock), FinishedWeek(clock, broker.ahead)>>}
  BY <1>1, <1>3, <1>5 DEF Decided
<1> QED BY <1>1, <1>4, <1>5 DEF OnClose

LEMMA WeekInit == LongWeekend /\ SleepInit => ReviewInv
<1> SUFFICES ASSUME LongWeekend, SleepInit PROVE ReviewInv
  OBVIOUS
<1> USE SleepCycleAssumption
<1>1. SleepInv
  BY InitHolds
<1>2. BudgetTypes
  <2>1. broker.ahead \in {Winter, Summer}
    BY DEF SleepInit
  <2>2. budget = [faults |-> 0, restarts |-> 0]
    BY DEF SleepInit
  <2> QED BY <2>1, <2>2 DEF BudgetTypes
<1>3. ASSUME NEW w \in Nat, WeekOf(Start) <= w
      PROVE  WeekInv(w)
  <2>1. WeekOf(Start) \in Int
    BY DEF WeekOf
  <2>2. ClosingTick(WeekOf(Start)) <= ClosingTick(w)
    BY <1>3, <2>1, ClosesInOrder
  <2>3. ClosingTick(w) \in Int /\ ClosingTick(WeekOf(Start)) \in Int
    BY <2>1 DEF ClosingTick, Friday
  <2>4. Start <= ClosingTick(w)
    BY <2>2, <2>3 DEF LongWeekend
  <2>5. Deadline(w, Spent) = ClosingTick(w)
    BY <2>3 DEF SleepInit, Deadline, Spent
  <2>6. Owed(w)
    BY <2>3, <2>4, <2>5 DEF SleepInit, Owed, Awake
  <2> QED BY <2>6 DEF WeekInv
<1> QED BY <1>1, <1>2, <1>3 DEF ReviewInv

\* A poll on an owed week decides it, or is one tick of a confirmation, or
\* costs a fault.
LEMMA WeekPoll ==
    ASSUME LongWeekend, NEW w \in Int, SleepTypeOK, BudgetTypes, WeekInv(w), Poll
    PROVE  WeekInv(w)'
<1> USE SleepCycleAssumption
<1>1. CASE Decided(w)
  BY <1>1, DecidedStays DEF WeekInv, SleepNext
<1>2. CASE clock < ClosingTick(w)
  BY <1>2 DEF WeekInv, Poll
<1>3. CASE Owed(w) /\ ClosingTick(w) <= clock
  <2>1. clock + Preopen < OpeningTick(w)
    BY <1>3, OwedInWeekend
  <2>2. ClosingTick(w) \in Int /\ OpeningTick(w) \in Int
    BY DEF ClosingTick, OpeningTick, Friday, Sunday
  <2>3. InWeekend(clock, w)
    BY <1>3, <2>1, <2>2 DEF InWeekend, SleepTypeOK
  <2>4. ~IsOpen(clock) /\ ~IsPreopen(clock)
    BY <2>1, <2>3, WeekendDays DEF SleepTypeOK
  <2>5. PICK states :
              \/ FallsAsleep(states) /\ OnClose
              \/ /\ StaysAwake(states) /\ Spent' = Spent + 1
              \/ /\ Closing(states) /\ Spent' \in Nat /\ Spent <= Spent'
    BY <1>3, <2>4, WeekendPoll DEF Owed
  <2>6. ~polled /\ polled' = TRUE /\ clock' = clock
    BY Zenon DEF Poll
  <2>7. Spent \in Nat
    BY DEF BudgetTypes, Spent
  <2>8. clock <= Deadline(w, Spent) + (IF closedSince = None THEN 0 ELSE Confirm)
    BY <1>3, <2>6, <2>7, DeadlineMoves DEF Owed
  <2>9. CASE FallsAsleep(states) /\ OnClose
    BY <2>3, <2>9, ToldIsDecided DEF WeekInv
  <2>10. CASE StaysAwake(states) /\ Spent' = Spent + 1
    <3>1. phase' \in Awake /\ closedSince' = None
      BY <2>10 DEF StaysAwake, Since, Awake
    <3>2. /\ Deadline(w, Spent) \in Int
          /\ Deadline(w, Spent') = Deadline(w, Spent) + Confirm + 1
      BY <2>7, <2>10, DeadlineMoves
    <3>3. clock' <= Deadline(w, Spent') - 1
      BY <2>6, <2>8, <3>2 DEF SleepTypeOK
    <3>4. Owed(w)'
      BY <2>6, <3>1, <3>2, <3>3 DEF Owed, Deadline, ClosingTick, Friday
    <3> QED BY <3>4 DEF WeekInv
  <2>11. CASE Closing(states) /\ Spent' \in Nat /\ Spent <= Spent'
    <3>1. phase' \in Awake /\ closedSince' = Since(states) /\ clock - Since(states) < Confirm
      BY <2>11 DEF Closing, Awake
    <3>2. /\ Deadline(w, Spent) \in Int /\ Deadline(w, Spent') \in Int
          /\ Deadline(w, Spent) <= Deadline(w, Spent')
      BY <2>7, <2>11, DeadlineMoves, DeadlineGrows
    <3>3. Since(states) \in Nat /\ Since(states) <= Deadline(w, Spent)
      BY <1>3, <2>6, <2>8, <2>11, <3>2 DEF Closing, Since, Owed, SleepTypeOK
    <3>4. closedSince' <= Deadline(w, Spent')
      BY <3>1, <3>2, <3>3
    <3>5. clock' <= Deadline(w, Spent') + Confirm - 1
      BY <2>6, <3>1, <3>2, <3>3 DEF SleepTypeOK
    <3>6. Deadline(w, Spent)' = Deadline(w, Spent')
      BY DEF Deadline, ClosingTick
    <3>7. closedSince' # None
      BY <3>1, <3>3
    <3>8. Owed(w)'
      BY <2>6, <3>1, <3>4, <3>5, <3>6, <3>7 DEF Owed
    <3> QED BY <3>8 DEF WeekInv
  <2> QED BY <2>5, <2>9, <2>10, <2>11
<1>4. ClosingTick(w) \in Int
  BY DEF ClosingTick, Friday
<1> QED BY <1>1, <1>2, <1>3, <1>4 DEF WeekInv, SleepTypeOK

\* A poll that fails costs a fault, and a restart costs itself and the readings so far.
LEMMA WeekSpends ==
    ASSUME NEW w \in Int, SleepTypeOK, BudgetTypes, WeekInv(w), PollFails \/ Restart
    PROVE  WeekInv(w)'
<1> USE SleepCycleAssumption
<1>1. CASE Decided(w)
  BY <1>1, DecidedStays DEF WeekInv, SleepNext
<1>2. clock' = clock
  BY DEF PollFails, Restart
<1>3. CASE clock < ClosingTick(w)
  BY <1>2, <1>3 DEF WeekInv, ClosingTick
<1>4. CASE Owed(w)
  <2>1. Spent \in Nat /\ Spent' = Spent + 1
    BY DEF PollFails, Restart, BudgetTypes, Spent
  <2>2. /\ Deadline(w, Spent) \in Int
        /\ Deadline(w, Spent') = Deadline(w, Spent) + Confirm + 1
    BY <2>1, DeadlineMoves
  <2>3. Deadline(w, Spent)' = Deadline(w, Spent')
    BY DEF Deadline, ClosingTick
  <2>4. CASE PollFails
    <3>1. ~polled /\ polled' = TRUE /\ phase' = phase /\ closedSince' = closedSince
      BY <2>4 DEF PollFails, cycle
    <3>2. clock <= Deadline(w, Spent) + (IF closedSince = None THEN 0 ELSE Confirm)
      BY <1>4, <2>2, <3>1 DEF Owed
    <3>3. Owed(w)'
      BY <1>2, <1>4, <2>2, <2>3, <3>1, <3>2 DEF Owed, SleepTypeOK
    <3> QED BY <3>3 DEF WeekInv
  <2>5. CASE Restart
    <3>1. polled' = FALSE /\ phase' \in Awake /\ closedSince' = None
      BY <2>5 DEF Restart, Awake
    <3>2. clock <= Deadline(w, Spent) + Confirm
      BY <1>4, <2>2 DEF Owed, SleepTypeOK
    <3>3. Owed(w)'
      BY <1>2, <2>2, <2>3, <3>1, <3>2 DEF Owed, SleepTypeOK
    <3> QED BY <3>3 DEF WeekInv
  <2> QED BY <2>4, <2>5
<1> QED BY <1>1, <1>3, <1>4 DEF WeekInv

\* The tick of the close finds the service awake, or the week has its excuse.
LEMMA WeekTick ==
    ASSUME NEW w \in Int, SleepTypeOK, RunGoesOn, BudgetTypes, WeekInv(w), Tick
    PROVE  WeekInv(w)'
<1> USE SleepCycleAssumption
<1>1. CASE Decided(w)
  BY <1>1, DecidedStays DEF WeekInv, SleepNext
<1>2. /\ polled /\ polled' = FALSE /\ clock' = clock + 1
      /\ phase' = phase /\ closedSince' = closedSince /\ budget' = budget
      /\ early' = IF Closes(clock) /\ phase \in Asleep
                  THEN early \cup {WeekOf(clock)} ELSE early
  BY Zenon DEF Tick, cycle
<1>3. Spent \in Nat /\ Spent' = Spent
  BY <1>2 DEF BudgetTypes, Spent
<1>4. /\ Deadline(w, Spent) \in Int /\ Deadline(w, Spent)' = Deadline(w, Spent)
      /\ ClosingTick(w) \in Int /\ ClosingTick(w)' = ClosingTick(w)
  BY <1>3, DeadlineMoves DEF Deadline, ClosingTick, Friday
<1>5. CASE Owed(w)
  <2>1. Owed(w)'
    BY <1>2, <1>4, <1>5 DEF Owed, SleepTypeOK
  <2> QED BY <2>1 DEF WeekInv
<1>6. CASE clock < ClosingTick(w)
  <2>1. CASE clock + 1 < ClosingTick(w)
    BY <1>2, <1>4, <2>1 DEF WeekInv
  <2>2. CASE clock + 1 = ClosingTick(w)
    <3>1. clock = ClosingTick(w) - 1
      BY <1>4, <2>2 DEF SleepTypeOK
    <3>2. Closes(clock) /\ WeekOf(clock) = w
      BY <3>1, ClosesThen
    <3>3. CASE phase \in Asleep
      BY <1>2, <3>2, <3>3 DEF WeekInv, Decided
    <3>4. CASE phase \in Awake
      <4>1. ClosingTick(w) <= Deadline(w, Spent)
        BY <1>3, <1>4, DeadlineGrows DEF Deadline
      <4>2. CASE closedSince = None
        BY <1>2, <1>4, <2>2, <3>4, <4>1, <4>2 DEF WeekInv, Owed, SleepTypeOK
      <4>3. CASE closedSince # None /\ closedSince <= clock
        BY <1>2, <1>4, <2>2, <3>4, <4>1, <4>3 DEF WeekInv, Owed, SleepTypeOK
      <4> QED BY <4>2, <4>3 DEF RunGoesOn
    <3> QED BY <3>3, <3>4 DEF SleepTypeOK
  <2> QED BY <1>4, <1>6, <2>1, <2>2 DEF SleepTypeOK
<1> QED BY <1>1, <1>5, <1>6 DEF WeekInv

LEMMA WeekStutter ==
    ASSUME NEW w, WeekInv(w), UNCHANGED sleepVars
    PROVE  WeekInv(w)'
<1>1. /\ clock' = clock /\ polled' = polled /\ phase' = phase /\ closedSince' = closedSince
      /\ budget' = budget /\ reviewed' = reviewed /\ early' = early /\ failed' = failed
  BY DEF sleepVars, cycle, memory
<1>2. Spent' = Spent
  BY <1>1 DEF Spent
<1> QED BY <1>1, <1>2 DEF WeekInv, Decided, Owed, Deadline, ClosingTick

LEMMA ReviewStep ==
    ASSUME LongWeekend, ReviewInv, [SleepNext]_sleepVars
    PROVE  ReviewInv'
<1>1. SleepInv'
  BY PollHolds, PollFailsHolds, RestartHolds, TickHolds, StutterHolds DEF ReviewInv, SleepNext
<1>2. BudgetTypes'
  BY BudgetStep DEF ReviewInv
<1>3. ASSUME NEW w \in Nat, WeekOf(Start) <= w
      PROVE  WeekInv(w)'
  <2>1. SleepTypeOK /\ RunGoesOn /\ BudgetTypes /\ WeekInv(w) /\ w \in Int
    BY <1>3 DEF ReviewInv, SleepInv
  <2> QED BY <2>1, WeekPoll, WeekSpends, WeekTick, WeekStutter DEF SleepNext
<1> QED BY <1>1, <1>2, <1>3 DEF ReviewInv, WeekOf

\* Every close is followed by its review before the week's first tick, or has
\* one of the two excuses, for any symbols, weeks, broker's clocks, leads and
\* confirmations, as long as the faults and the restarts leave a weekend room
\* for one confirmation before the preopen (sleep_cycle.py's weekly flag and
\* main_review.py's _on_close).
THEOREM ClosesAreReviewed ==
    ASSUME LongWeekend
    PROVE  SleepSpec => []CloseIsReviewed
<1> USE SleepCycleAssumption
<1>1. ASSUME ReviewInv
      PROVE  CloseIsReviewed
  <2> SUFFICES ASSUME NEW w \in WeekOf(Start)..WeekOf(LastTick),
                      clock >= OpeningTick(w)
               PROVE  Decided(w)
    BY DEF CloseIsReviewed
  <2>1. WeekOf(Start) \in Nat
    BY DEF WeekOf
  <2>2. w \in Nat /\ w \in Int /\ WeekOf(Start) <= w
    BY <2>1 DEF WeekOf
  <2>3. WeekInv(w)
    BY <1>1, <2>2 DEF ReviewInv
  <2>4. ~(clock < ClosingTick(w))
    BY <1>1, <2>2 DEF ReviewInv, SleepInv, SleepTypeOK, ClosingTick, OpeningTick, Friday, Sunday
  <2>5. OpeningTick(w) \in Int
    BY <2>2 DEF OpeningTick, Sunday
  <2>6. ~Owed(w)
    BY <1>1, <2>2, <2>5, OwedInWeekend DEF ReviewInv, SleepInv, SleepTypeOK
  <2> QED BY <2>3, <2>4, <2>6 DEF WeekInv
<1>2. SleepInit => ReviewInv
  BY WeekInit
<1>3. ReviewInv /\ [SleepNext]_sleepVars => ReviewInv'
  BY ReviewStep
<1> QED BY <1>1, <1>2, <1>3, PTL DEF SleepSpec
=============================================================================
