--------------------------- MODULE ObserverProofs ---------------------------
(***************************************************************************)
(* Proofs about Observer.tla, for every number of candles, detections and  *)
(* restarts, outages and faults, every batch size, horizon and tolerance.  *)
(***************************************************************************)
EXTENDS Observer, TLAPS, FiniteSetTheorems, NaturalsInduction, WellFoundedInduction

(***************************************************************************)
(* The first of a set of numbers, and its size.                            *)
(***************************************************************************)

\* Before is < on the naturals, as a set of pairs.
Before == {p \in Nat \X Nat : p[1] < p[2]}

LEMMA BeforeIsWellFounded == IsWellFoundedOn(Before, Nat)
BY NatLessThanWellFounded DEF OpToRel, Before

\* What Min returns of a set of numbers that is not empty.
LEMMA MinIsFirst ==
    ASSUME NEW S \in SUBSET Nat, S # {}
    PROVE  Min(S) \in S /\ \A y \in S : Min(S) <= y
<1>1. PICK x \in S : \A y \in S : ~(<<y, x>> \in Before)
  BY BeforeIsWellFounded, WFMin
<1>2. \A y \in S : x <= y
  <2> TAKE y \in S
  <2>1. <<y, x>> \in Nat \X Nat
    OBVIOUS
  <2>2. <<y, x>>[1] = y /\ <<y, x>>[2] = x
    OBVIOUS
  <2>3. ~(y < x)
    BY <1>1, <2>1, <2>2 DEF Before
  <2> QED
    BY <2>3
<1> QED
  BY <1>2 DEF Min

\* A set of numbers has one first element.
LEMMA MinIsUnique ==
    ASSUME NEW S \in SUBSET Nat, NEW x \in S, \A y \in S : x <= y
    PROVE  Min(S) = x
<1>1. Min(S) \in S /\ Min(S) <= x /\ x <= Min(S)
  BY MinIsFirst
<1>2. Min(S) \in Nat /\ x \in Nat
  BY <1>1
<1> HIDE DEF Min
<1> QED
  BY <1>1, <1>2

(***************************************************************************)
(* The types.                                                              *)
(***************************************************************************)


\* TypeOK, part by part.
PollTypes ==
    /\ closed \in Times /\ bars \in SUBSET Candle
    /\ proc \in Proc
    /\ cursor \in Times /\ known \in Times /\ saved \in Times
    /\ todo \in SUBSET Candle /\ cur \in Times /\ step \in Step

CountTypes ==
    /\ storeUp \in BOOLEAN /\ outages \in 0..MaxOutages
    /\ restarts \in 0..MaxRestarts /\ faults \in 0..MaxFaults
    /\ refused \in BOOLEAN

OutboxTypes ==
    /\ queue \in [Detection -> {"none", "pending", "delivered"}]
    /\ pass \in Pass
    /\ sink \in SUBSET Detection /\ ready \in SUBSET Detection
    /\ window \in SUBSET Detection /\ unreached \in SUBSET Detection

OutcomeTypes ==
    /\ tracker \in [Detection -> Evaluation(Candle)]
    /\ rows \in [Detection -> Evaluation(Candle)]
    /\ exposed \in SUBSET Detection

LEMMA TypeParts == TypeOK <=> PollTypes /\ CountTypes /\ OutboxTypes /\ OutcomeTypes
BY DEF TypeOK, PollTypes, CountTypes, OutboxTypes, OutcomeTypes

LEMMA TimesAreNumbers ==
    /\ Candle \subseteq Nat /\ Candle \subseteq Times /\ 0 \in Times /\ Times \subseteq Nat
    /\ \A c \in Times : c \in Candle <=> c # 0
    /\ \A d \in Detection : At[d] \in Candle
BY ObserverAssumption DEF Candle, Times

\* The poll's place and the cursors, action by action.
LEMMA PollTypesStep ==
    ASSUME PollTypes, Next
    PROVE  PollTypes'
<1> USE TimesAreNumbers
<1> USE DEF PollTypes, Proc, Step
<1>1. \A S \in SUBSET Candle : S # {} => Min(S) \in S
  BY MinIsFirst
<1>2. CASE CandleCloses
  BY <1>2, ObserverAssumption DEF CandleCloses, cursors, place, Candle, Times
<1>3. CASE StoreFails \/ StoreReturns
  BY <1>3 DEF StoreFails, StoreReturns, market, cursors, place
<1>4. CASE Drain
  BY <1>4 DEF Drain, BeginPass, EnsureFindsDelivered, Deliver, DeliverFails, MarkDelivered,
     WorkerSeesStop, EndPass, market, cursors, place
<1>5. CASE Boot \/ EndBackfill \/ Park \/ StartBackfill \/ Parked
  BY <1>5 DEF Boot, EndBackfill, Park, Idle, StartBackfill, Unhandled, Recent, Parked, market,
     cursors, place
<1>6. CASE BackfillCandle \/ Analyse
  BY <1>1, <1>6 DEF BackfillCandle, Analyse, market, cursors, place
<1>7. CASE Poll \/ Save \/ Queue \/ EndEnsure \/ BeginEnsure \/ Advance
  BY <1>7 DEF Poll, NewlyClosed, Recent, Save, Queue, EndEnsure, BeginEnsure, Advance, market,
     cursors, place
<1>8. CASE QuietCandle \/ Track
  BY <1>8 DEF QuietCandle, Track, CandleDone, market, cursors, place
<1>9. CASE SaveRaises \/ QueueRaises
  BY <1>9 DEF SaveRaises, QueueRaises, PollRaises, market, cursors, place
<1>10. CASE Stop \/ Close \/ Crash
  BY <1>10 DEF Stop, Close, Crash, market, cursors, place
<1> QED
  BY <1>2, <1>3, <1>4, <1>5, <1>6, <1>7, <1>8, <1>9, <1>10 DEF Next, Loop

\* The counters and the history of refusals.
LEMMA CountTypesStep ==
    ASSUME CountTypes, Next
    PROVE  CountTypes'
<1> USE DEF CountTypes
<1>1. MaxOutages \in Nat /\ MaxRestarts \in Nat /\ MaxFaults \in Nat
  BY ObserverAssumption
<1>2. CASE CandleCloses
  BY <1>2 DEF CandleCloses, store, history
<1>3. CASE StoreFails
  <2>1. storeUp' \in BOOLEAN /\ UNCHANGED <<refused, restarts, faults>>
    BY <1>3 DEF StoreFails, history
  <2>2. outages' \in 0..MaxOutages
    BY <1>1, <1>3 DEF StoreFails
  <2> QED
    BY <2>1, <2>2
<1>4. CASE StoreReturns
  BY <1>4 DEF StoreReturns, history
<1>5. CASE Drain
  BY <1>5 DEF Drain, BeginPass, EnsureFindsDelivered, Deliver, DeliverFails, MarkDelivered,
     WorkerSeesStop, EndPass, store, history
<1>6. CASE Boot
  BY <1>1, <1>6 DEF Boot, store
<1>11. CASE Loop /\ ~Boot
  BY <1>11 DEF Loop, EndBackfill, StartBackfill, Parked, BackfillCandle, Analyse, Poll, Save,
     Queue, EndEnsure, BeginEnsure, Advance, QuietCandle, Track, Close, store, history
<1>7. CASE SaveRaises \/ QueueRaises
  BY <1>1, <1>7 DEF SaveRaises, QueueRaises, PollRaises, store, history
<1>8. CASE Park
  BY <1>8 DEF Park, store, history
<1>9. CASE Stop
  <2>1. refused' \in BOOLEAN /\ UNCHANGED <<storeUp, outages, faults>>
    BY <1>9 DEF Stop, store
  <2>2. restarts' \in 0..MaxRestarts
    BY <1>1, <1>9 DEF Stop
  <2> QED
    BY <2>1, <2>2
<1>10. CASE Crash
  BY <1>1, <1>10 DEF Crash, store
<1> QED
  BY <1>2, <1>3, <1>4, <1>5, <1>6, <1>7, <1>8, <1>9, <1>10, <1>11 DEF Next

\* The outbox: the queue, the batch in hand and what the store has.
LEMMA OutboxTypesStep ==
    ASSUME OutboxTypes, PassInv, Next
    PROVE  OutboxTypes'
<1> USE DEF OutboxTypes, Pass
<1>1. \A S \in SUBSET Detection : S # {} => Min(S) \in S
  BY MinIsFirst, ObserverAssumption
<1>2. NoPass \in Pass /\ pass.ids \in SUBSET Detection
  BY DEF NoPass
<1>3. CASE CandleCloses \/ StoreFails \/ StoreReturns
  BY <1>3 DEF CandleCloses, StoreFails, StoreReturns, history
<1>4. CASE Drain
  <2>1. CASE \E who \in {"worker", "flush"} : BeginPass(who)
    <3>1. Oldest(Batch) \in SUBSET Detection
      BY DEF Oldest, Undelivered
    <3> HIDE DEF Oldest
    <3> QED
      BY <2>1, <3>1 DEF BeginPass, history
  <2>2. CASE EnsureFindsDelivered
    <3>1. InHand \in Detection
      BY <1>1, <1>2, <2>2 DEF EnsureFindsDelivered, InHand
    <3>2. pass' \in Pass
      BY <2>2 DEF EnsureFindsDelivered
    <3> QED
      BY <2>2, <3>1, <3>2 DEF EnsureFindsDelivered, history
  <2>3. CASE Deliver
    <3>1. InHand \in Detection
      BY <1>1, <1>2, <2>3 DEF Deliver, InHand
    <3>2. pass' \in Pass
      BY <2>3 DEF Deliver
    <3> QED
      BY <2>3, <3>1, <3>2 DEF Deliver, history
  <2>4. CASE DeliverFails
    <3>1. InHand \in Detection
      BY <1>1, <1>2, <2>4 DEF DeliverFails, InHand
    <3>2. pass' \in Pass
      BY <2>4 DEF DeliverFails
    <3> QED
      BY <2>4, <3>1, <3>2 DEF DeliverFails, AfterFailure
  <2>5. CASE MarkDelivered
    <3>1. InHand \in Detection
      BY <1>1, <1>2, <2>5 DEF MarkDelivered, PassInv, InHand
    <3>2. pass' \in Pass
      BY <2>5 DEF MarkDelivered
    <3> QED
      BY <2>5, <3>1, <3>2 DEF MarkDelivered, history
  <2>6. CASE WorkerSeesStop \/ EndPass
    BY <1>2, <2>6 DEF WorkerSeesStop, EndPass, history
  <2> QED
    BY <1>4, <2>1, <2>2, <2>3, <2>4, <2>5, <2>6 DEF Drain
<1>5. CASE StartBackfill \/ Parked \/ Close \/ EndEnsure
  BY <1>2, <1>5 DEF StartBackfill, PassedOver, Parked, Close, EndEnsure, history
<1>6. CASE BeginEnsure
  BY <1>6 DEF BeginEnsure, FoundOn, history
<1>7. CASE Boot \/ EndBackfill \/ BackfillCandle \/ Poll \/ Analyse \/ Advance \/ Save
           \/ QuietCandle \/ Track
  BY <1>7 DEF Boot, EndBackfill, BackfillCandle, Poll, PassedOver, Analyse, Advance, Save,
     QuietCandle, Track, history
<1>8. CASE Queue
  BY <1>8 DEF Queue, history
<1>9. CASE SaveRaises \/ QueueRaises
  BY <1>9 DEF SaveRaises, QueueRaises, PollRaises, FoundOn
<1>10. CASE Park \/ Stop
  BY <1>10 DEF Park, Stop, history
<1>11. CASE Crash
  BY <1>2, <1>11 DEF Crash, FoundOn
<1> QED
  BY <1>3, <1>4, <1>5, <1>6, <1>7, <1>8, <1>9, <1>10, <1>11 DEF Next, Loop

\* The candle in hand is measured for a horizon that had one to go.
LEMMA MeasuredType ==
    ASSUME NEW x \in Evaluation(Candle), NEW c \in Candle,
           x.bars = "pending" => x.seen < Horizon
    PROVE  Measured(x, c) \in Evaluation(Candle)
<1> USE OutcomeAssumption, TimesAreNumbers
<1>1. /\ x.tracked \in BOOLEAN /\ x.bars \in HorizonStatus /\ x.cross \in HorizonStatus
      /\ x.seen \in 0..Horizon /\ x.last \in {0} \cup Candle
      /\ x.measured \in SUBSET Candle
  BY DEF Evaluation
<1>2. CASE GapBefore(x, c)
  <2>1. (IF x.bars = "pending" THEN "invalid" ELSE x.bars) \in HorizonStatus
    BY <1>1 DEF HorizonStatus
  <2>2. (IF x.cross = "pending" THEN "invalid" ELSE x.cross) \in HorizonStatus
    BY <1>1 DEF HorizonStatus
  <2> QED
    BY <1>2, <2>1, <2>2 DEF Measured, Evaluation
<1>3. CASE ~GapBefore(x, c) /\ x.bars = "pending"
  <2>1. x.seen + 1 \in 0..Horizon /\ x.measured \cup {c} \in SUBSET Candle
    BY <1>1, <1>3
  <2>2. (IF x.seen + 1 >= Horizon THEN "complete" ELSE x.bars) \in HorizonStatus
    BY <1>1 DEF HorizonStatus
  <2> QED
    BY <1>3, <2>1, <2>2 DEF Measured, Evaluation
<1>4. CASE ~GapBefore(x, c) /\ x.bars # "pending"
  BY <1>4 DEF Measured, Evaluation
<1> QED
  BY <1>2, <1>3, <1>4

LEMMA UntrackedType == Untracked \in Evaluation(Candle) /\ Nothing \in [Detection -> Evaluation(Candle)]
BY OutcomeAssumption DEF Nothing, Untracked, Evaluation, HorizonStatus

\* How _advance_evaluations() changes what is tracked of a detection, and its row.
Moves(e) == StillOpen(tracker[e]) /\ cur > At[e]
Moved(e) == IF Moves(e) THEN Measured(tracker[e], cur) ELSE tracker[e]

LEMMA AdvanceChanges ==
    ASSUME Advance
    PROVE  /\ tracker' = [e \in Detection |-> IF StillOpen(Moved(e)) THEN Moved(e)
                                                                     ELSE Untracked]
           /\ rows' = [e \in Detection |-> rows'[e]] /\ exposed' \subseteq exposed
           /\ \A e \in Detection : \/ rows'[e] = Moved(e) /\ Moves(e)
                                   \/ rows'[e] = rows[e] /\ (e \in exposed => e \in exposed')
BY DEF Advance, Moves, Moved, Persisted, Stored

\* How _track_outcomes() does.
EndedBy(e) ==
    /\ CrossEnds(tracker[e]) /\ \E d \in FoundOn(cur) : <<e, d>> \in Opposite
    /\ e \notin FoundOn(cur)
Tracks(e) == CASE e \in FoundOn(cur) -> Started(tracker[e])
               [] EndedBy(e)         -> Crossed(tracker[e])
               [] OTHER              -> tracker[e]

LEMMA TrackChanges ==
    ASSUME Track
    PROVE  /\ tracker' = [e \in Detection |-> Tracks(e)]
           /\ rows' = [e \in Detection |-> rows'[e]] /\ exposed' \subseteq exposed
           /\ \A e \in Detection :
                  \/ rows'[e] = Tracks(e) /\ (e \in FoundOn(cur) \/ EndedBy(e))
                  \/ rows'[e] = rows[e] /\ (e \in exposed => e \in exposed')
<1> DEFINE found == FoundOn(cur)
           crossed == {e \in Detection : /\ CrossEnds(tracker[e])
                                         /\ \E d \in found : <<e, d>> \in Opposite}
           t == [e \in Detection |-> CASE e \in found           -> Started(tracker[e])
                                       [] e \in crossed \ found -> Crossed(tracker[e])
                                       [] OTHER                 -> tracker[e]]
<1>1. tracker' = t /\ Persisted(crossed \cup (found \cap ready), t)
  BY DEF Track
<1>2. \A e \in Detection : e \in crossed \ found <=> EndedBy(e)
  BY DEF EndedBy
<1>3. ASSUME NEW e \in Detection
      PROVE  t[e] = Tracks(e)
  <2> HIDE DEF crossed
  <2>1. t[e] = (CASE e \in found           -> Started(tracker[e])
                  [] e \in crossed \ found -> Crossed(tracker[e])
                  [] OTHER                 -> tracker[e])
    BY <1>3, Zenon
  <2>2. CASE e \in found
    <3>1. e \notin crossed \ found /\ ~EndedBy(e)
      BY <1>2, <1>3, <2>2
    <3> QED
      BY <2>1, <2>2, <3>1, Zenon DEF Tracks
  <2>3. CASE EndedBy(e)
    <3>1. e \in crossed \ found
      BY <1>2, <1>3, <2>3
    <3> QED
      BY <2>1, <2>3, <3>1, Zenon DEF Tracks, EndedBy
  <2>4. CASE e \notin found /\ ~EndedBy(e)
    <3>1. e \notin crossed \ found
      BY <1>2, <1>3, <2>4
    <3> QED
      BY <2>1, <2>4, <3>1, Zenon DEF Tracks
  <2> QED
    BY <2>2, <2>3, <2>4
<1>4. tracker' = [e \in Detection |-> tracker'[e]]
  BY <1>1 DEF t
<1> HIDE DEF t, crossed
<1>5. /\ rows' = [e \in Detection |-> rows'[e]] /\ exposed' \subseteq exposed
      /\ \A e \in Detection :
             \/ rows'[e] = t[e] /\ (e \in crossed \/ e \in found)
             \/ rows'[e] = rows[e] /\ (e \in exposed => e \in exposed')
  BY <1>1 DEF Persisted, Stored
<1>6. tracker' = [e \in Detection |-> Tracks(e)]
  BY <1>1, <1>3, <1>4
<1>7. \A e \in Detection :
          \/ rows'[e] = Tracks(e) /\ (e \in found \/ EndedBy(e))
          \/ rows'[e] = rows[e] /\ (e \in exposed => e \in exposed')
  BY <1>2, <1>3, <1>5
<1> QED
  BY <1>5, <1>6, <1>7

LEMMA OutcomeTypesStep ==
    ASSUME PollTypes, OutcomeTypes, MeasureInv, Next
    PROVE  OutcomeTypes'
<1> USE DEF OutcomeTypes
<1>1. CASE Advance
  <2>1. ASSUME NEW e \in Detection
        PROVE  Moved(e) \in Evaluation(Candle)
    <3>1. CASE Moves(e)
      <4>1. cur \in Candle
        <5>1. cur > At[e] /\ cur \in Times
          BY <2>1, <3>1 DEF Moves, PollTypes
        <5>2. At[e] \in Nat /\ cur \in Nat
          <6>1. At[e] \in Candle
            BY <2>1, TimesAreNumbers
          <6> QED
            BY <5>1, <6>1, TimesAreNumbers
        <5>3. cur # 0
          BY <5>1, <5>2
        <5> QED
          BY <5>1, <5>3, TimesAreNumbers
      <4>2. tracker[e].bars = "pending" => tracker[e].seen < Horizon
        BY DEF MeasureInv, MeasuredInOrder
      <4> QED
        BY <3>1, <4>1, <4>2, MeasuredType DEF Moved
    <3>2. CASE ~Moves(e)
      BY <3>2 DEF Moved
    <3> QED
      BY <3>1, <3>2
  <2>2. \A e \in Detection : rows'[e] \in {Moved(e), rows[e]}
    BY <1>1, AdvanceChanges
  <2> QED
    BY <1>1, <2>1, <2>2, AdvanceChanges, UntrackedType
<1>2. CASE Track
  <2>1. ASSUME NEW e \in Detection
        PROVE  Tracks(e) \in Evaluation(Candle)
    <3>1. /\ Started(tracker[e]) \in Evaluation(Candle)
          /\ Crossed(tracker[e]) \in Evaluation(Candle)
      BY DEF Started, Crossed, Evaluation, HorizonStatus
    <3> QED
      BY <3>1, Zenon DEF Tracks
  <2> QED
    BY <1>2, <2>1, TrackChanges
<1>3. CASE Close \/ Crash
  BY <1>3, UntrackedType DEF Close, Crash, history
<1>4. CASE CandleCloses \/ StoreFails \/ StoreReturns \/ Park \/ Stop
  BY <1>4 DEF CandleCloses, StoreFails, StoreReturns, Park, Stop, outcomes, history
<1>5. CASE Drain
  BY <1>5 DEF Drain, BeginPass, EnsureFindsDelivered, Deliver, DeliverFails, MarkDelivered,
     WorkerSeesStop, EndPass, outcomes, history
<1>6. CASE Loop /\ ~Advance /\ ~Track /\ ~Close
  BY <1>6 DEF Loop, Boot, Answered, EndBackfill, StartBackfill, Parked, BackfillCandle, Analyse,
     Poll, Save, Queue, EndEnsure, BeginEnsure, QuietCandle, outcomes, history
<1>7. CASE SaveRaises \/ QueueRaises
  BY <1>7 DEF SaveRaises, QueueRaises, outcomes
<1> QED
  BY <1>1, <1>2, <1>3, <1>4, <1>5, <1>6, <1>7 DEF Next, Loop

(***************************************************************************)
(* The poll and the cursors.                                               *)
(***************************************************************************)

LEMMA PollIsNumbers ==
    ASSUME PollTypes
    PROVE  /\ bars \subseteq Nat /\ todo \subseteq Nat /\ cur \in Nat
           /\ closed \in Nat /\ cursor \in Nat /\ known \in Nat /\ saved \in Nat
           /\ 0 \notin bars /\ 0 \notin todo
<1>1. Candle \subseteq Nat /\ Times \subseteq Nat /\ 0 \notin Candle
  BY ObserverAssumption DEF Candle, Times
<1> QED
  BY <1>1 DEF PollTypes

\* What the outbox and the store do leaves the poll where it is.
LEMMA StoreLeavesThePoll ==
    ASSUME Drain \/ StoreFails \/ StoreReturns
    PROVE  UNCHANGED <<closed, bars, proc, cursor, known, saved, todo, cur, step>>
BY DEF Drain, BeginPass, EnsureFindsDelivered, Deliver, DeliverFails, MarkDelivered,
   WorkerSeesStop, EndPass, StoreFails, StoreReturns, market, cursors, place

LEMMA PollStep ==
    ASSUME PollTypes, PollInv, CursorInv, PassInv, Next
    PROVE  PollInv' /\ CursorInv'
<1> USE PollIsNumbers
<1> USE DEF PollInv, CursorInv
<1>1. CASE CandleCloses
  BY <1>1 DEF CandleCloses, cursors, place
<1>2. CASE Drain \/ StoreFails \/ StoreReturns
  BY <1>2, StoreLeavesThePoll
<1>3. CASE Boot
  BY <1>3 DEF Boot, market, place
<1>4. CASE StartBackfill
  BY <1>4 DEF StartBackfill, Unhandled, Recent, market, cursors
<1>5. CASE BackfillCandle
  <2>1. Min(todo) \in todo /\ \A c \in todo : Min(todo) <= c
    BY <1>5, MinIsFirst DEF BackfillCandle
  <2> QED
    BY <1>5, <2>1 DEF BackfillCandle, market, cursors
<1>6. CASE EndBackfill
  BY <1>6 DEF EndBackfill, market, place
<1>7. CASE Poll
  BY <1>7 DEF Poll, NewlyClosed, Recent, market, cursors
<1>8. CASE Analyse
  <2>1. Min(todo) \in todo /\ \A c \in todo : Min(todo) <= c
    BY <1>8, MinIsFirst DEF Analyse
  <2> QED
    BY <1>8, <2>1 DEF Analyse, market
<1>9. CASE Advance
  BY <1>9 DEF Advance, market, cursors
<1>10. CASE Save
  BY <1>10 DEF Save, market
<1>11. CASE QuietCandle \/ Track
  BY <1>11 DEF QuietCandle, Track, CandleDone, market
<1>12. CASE Queue
  BY <1>12 DEF Queue, market, cursors
<1>13. CASE BeginEnsure
  BY <1>13 DEF BeginEnsure, market, cursors, place
<1>14. CASE EndEnsure
  BY <1>14 DEF EndEnsure, PassInv, market, cursors
<1>15. CASE Parked
  BY <1>15 DEF Parked, market, place
<1>16. CASE Close
  BY <1>16 DEF Close, market, place
<1>17. CASE SaveRaises
  BY <1>17 DEF SaveRaises, PollRaises, market
<1>18. CASE QueueRaises
  BY <1>18 DEF QueueRaises, PollRaises, market, cursors
<1>19. CASE Park
  BY <1>19 DEF Park, Idle, market, cursors, place
<1>20. CASE Stop
  BY <1>20 DEF Stop, Idle, market, cursors, place
<1>21. CASE Crash
  BY <1>21 DEF Crash, market
<1> QED
  BY <1>1, <1>2, <1>3, <1>4, <1>5, <1>6, <1>7, <1>8, <1>9, <1>10, <1>11, <1>12, <1>13,
     <1>14, <1>15, <1>16, <1>17, <1>18, <1>19, <1>20, <1>21 DEF Next, Loop

\* The saved cursor is left behind by nothing but a start without one.
LEMMA SavedStep ==
    ASSUME PollTypes, PollInv, CursorInv, SavedInv, Next
    PROVE  SavedInv'
<1> USE PollIsNumbers, ObserverAssumption
<1> USE DEF PollInv, CursorInv, SavedInv
<1>1. CASE CandleCloses
  BY <1>1 DEF CandleCloses, cursors, place
<1>2. CASE Drain \/ StoreFails \/ StoreReturns
  BY <1>2, StoreLeavesThePoll
<1>3. CASE Boot
  BY <1>3 DEF Boot
<1>4. CASE StartBackfill
  BY <1>4 DEF StartBackfill, Unhandled, Recent, market, cursors
<1>5. CASE BackfillCandle \/ Advance \/ Queue \/ BeginEnsure \/ EndEnsure
  BY <1>5 DEF BackfillCandle, Advance, Queue, BeginEnsure, EndEnsure, market, cursors, place
<1>6. CASE EndBackfill
  BY <1>6 DEF EndBackfill, market, place
<1>7. CASE Poll
  BY <1>7 DEF Poll, NewlyClosed, Recent, market, cursors
<1>8. CASE Analyse
  BY <1>8 DEF Analyse, market
<1>9. CASE Save \/ SaveRaises
  BY <1>9 DEF Save, SaveRaises, PollRaises, market
<1>10. CASE QuietCandle \/ Track
  BY <1>10 DEF QuietCandle, Track, CandleDone, market
<1>11. CASE Park \/ Stop
  BY <1>11 DEF Park, Stop, Idle, market, cursors, place
<1>14. CASE Parked
  <2>1. /\ proc' = "live" /\ saved' = known /\ known' = known /\ todo' = {} /\ bars' = bars
    BY <1>14 DEF Parked, market, place
  <2>2. \A c \in bars : ~(c <= 0)
    OBVIOUS
  <2> QED
    BY <2>1, <2>2
<1>12. CASE QueueRaises
  BY <1>12 DEF QueueRaises, PollRaises, market, cursors
<1>13. CASE Close \/ Crash
  BY <1>13 DEF Close, Crash
<1> QED
  BY <1>1, <1>2, <1>3, <1>4, <1>5, <1>6, <1>7, <1>8, <1>9, <1>10, <1>11, <1>12, <1>13, <1>14
     DEF Next, Loop

(***************************************************************************)
(* The outbox and its passes.                                              *)
(***************************************************************************)

\* A batch of a queue that is not empty is not empty.
LEMMA OldestIsSome ==
    ASSUME Undelivered # {}
    PROVE  Oldest(Batch) # {}
<1> DEFINE first == Min(Undelivered)
           before == {x \in Undelivered : x < first}
<1>1. Undelivered \in SUBSET Nat
  BY ObserverAssumption DEF Undelivered
<1>2. first \in Undelivered /\ \A y \in Undelivered : first <= y
  BY <1>1, MinIsFirst
<1> HIDE DEF first
<1>3. before = {}
  <2> SUFFICES ASSUME NEW x \in Undelivered, x < first
               PROVE  FALSE
    OBVIOUS
  <2>1. x \in Nat /\ first \in Nat /\ first <= x
    BY <1>1, <1>2
  <2> QED
    BY <2>1
<1>4. Cardinality(before) = 0
  BY <1>3, FS_EmptySet
<1>5. Batch \in Nat /\ Batch # 0
  BY ObserverAssumption
<1> QED
  BY <1>2, <1>4, <1>5 DEF Oldest

LEMMA InHandIsHeld ==
    ASSUME OutboxTypes, pass.ids # {}
    PROVE  InHand \in pass.ids /\ InHand \in Detection
<1>1. pass.ids \in SUBSET Detection /\ Detection \subseteq Nat
  BY ObserverAssumption DEF OutboxTypes, Pass
<1> QED
  BY <1>1, MinIsFirst DEF InHand

\* A pass is nobody's, or it is the worker's, a flush's or that of a candle's detections.
LEMMA NamesOfPasses ==
    /\ NoPass.by = None /\ NoPass.ids = {} /\ NoPass.written = FALSE
    /\ None # "worker" /\ None # "flush" /\ None # "ensure"
BY ObserverAssumption DEF NoPass

LEMMA PassStep ==
    ASSUME OutboxTypes, PassInv, PollInv, Next
    PROVE  PassInv'
<1> USE DEF PassInv, MayFlush, InHand
<1>1. CASE CandleCloses \/ StoreFails \/ StoreReturns
  BY <1>1 DEF CandleCloses, StoreFails, StoreReturns, place, history
<1>2. CASE Drain
  <2>1. CASE \E who \in {"worker", "flush"} : BeginPass(who)
    <3>1. Oldest(Batch) # {}
      BY <2>1, OldestIsSome DEF BeginPass
    <3> HIDE DEF Oldest
    <3> QED
      BY <2>1, <3>1, NamesOfPasses DEF BeginPass, place
  <2>2. CASE EnsureFindsDelivered
    <3>1. /\ pass'.by = "ensure" /\ pass'.written = FALSE
          /\ UNCHANGED <<proc, place, queue, sink>>
      BY <2>2 DEF EnsureFindsDelivered, OutboxTypes, Pass
    <3> QED
      BY <2>2, <3>1, NamesOfPasses DEF EnsureFindsDelivered, place
  <2>3. CASE Deliver
    <3>1. /\ pass'.by = pass.by /\ pass'.written = TRUE /\ pass'.ids = pass.ids
          /\ pass'.some = pass.some
          /\ pass.ids # {} /\ queue[InHand] = "pending"
          /\ sink' = sink \cup {InHand}
          /\ UNCHANGED <<proc, place, queue, refused>>
      BY <2>3 DEF Deliver, OutboxTypes, Pass, history
    <3>2. pass.by # None
      BY <3>1, NamesOfPasses
    <3> QED
      BY <3>1, <3>2 DEF place
  <2>4. CASE DeliverFails
    <3>1. /\ pass'.by = pass.by /\ pass'.written = FALSE /\ pass'.ids = {}
          /\ pass'.some = pass.some
          /\ pass.ids # {}
          /\ proc = "stopping" => refused'
          /\ UNCHANGED <<proc, place, queue>>
      BY <2>4 DEF DeliverFails, AfterFailure, OutboxTypes, Pass
    <3>2. pass.by # None
      BY <3>1, NamesOfPasses
    <3> QED
      BY <3>1, <3>2 DEF place
  <2>5. CASE MarkDelivered
    <3>1. /\ pass'.by = pass.by /\ pass'.written = FALSE /\ pass'.some = TRUE
          /\ UNCHANGED <<proc, place, sink, refused>>
      BY <2>5 DEF MarkDelivered, OutboxTypes, Pass, history
    <3>2. pass.by # None
      BY <2>5, NamesOfPasses DEF MarkDelivered
    <3> QED
      BY <3>1, <3>2 DEF place
  <2>6. CASE WorkerSeesStop
    <3>1. /\ pass.by = "worker" /\ pass'.by = "worker" /\ pass'.written = FALSE
      BY <2>6 DEF WorkerSeesStop, HonoursStop, OutboxTypes, Pass
    <3> QED
      BY <2>6, <3>1, NamesOfPasses DEF WorkerSeesStop, place, history
  <2>7. CASE EndPass
    BY <2>7, NamesOfPasses DEF EndPass
  <2> QED
    BY <1>2, <2>1, <2>2, <2>3, <2>4, <2>5, <2>6, <2>7 DEF Drain
<1>3. CASE StartBackfill \/ Parked \/ Close \/ EndEnsure \/ Crash
  BY <1>3, NamesOfPasses DEF StartBackfill, Parked, Close, EndEnsure, Crash
<1>4. CASE BeginEnsure
  <2>1. /\ pass'.by = "ensure" /\ pass'.written = FALSE /\ step' = "queued"
    BY <1>4 DEF BeginEnsure, place
  <2> QED
    BY <2>1, NamesOfPasses
<1>5. CASE Queue
  <2>1. pass.by # "ensure" /\ UNCHANGED <<proc, pass, sink, refused>>
    BY <1>5 DEF Queue, history
  <2>2. pass.written => queue'[InHand] = "pending"
    BY <1>5, InHandIsHeld DEF Queue
  <2> QED
    BY <2>1, <2>2
<1>6. CASE Boot
  <2>1. pass.by # "flush" /\ proc' = "starting" /\ UNCHANGED <<pass, queue, sink, step>>
    BY <1>6 DEF Boot, place
  <2> QED
    BY <2>1
<1>7. CASE EndBackfill \/ Park \/ Stop
  <2>1. /\ pass.by # "flush" /\ proc' \in {"live", "parking", "stopping"}
        /\ UNCHANGED <<pass, queue, sink, step>>
    BY <1>7 DEF EndBackfill, Park, Stop, Idle, place
  <2> QED
    BY <2>1
<1>8. CASE BackfillCandle \/ Poll \/ Analyse \/ Advance \/ Save \/ QuietCandle \/ Track
           \/ SaveRaises \/ QueueRaises
  <2>1. step # "queued" /\ UNCHANGED <<proc, pass, queue, sink, refused>>
    BY <1>8 DEF BackfillCandle, Poll, Analyse, Advance, Save, QuietCandle, Track, SaveRaises,
       QueueRaises, history
  <2> QED
    BY <2>1
<1> QED
  BY <1>1, <1>2, <1>3, <1>4, <1>5, <1>6, <1>7, <1>8 DEF Next, Loop

\* What is undelivered when the process has stopped: nothing is queued any more, and the
\* last flush ended on an empty queue or on a refusal.
LEMMA CleanStopStep ==
    ASSUME OutboxTypes, PassInv, PollInv, CleanStopLeavesNothing, Next
    PROVE  CleanStopLeavesNothing'
<1> SUFFICES ASSUME proc' = "stopped", ~refused'
             PROVE  Undelivered' = {}
  BY DEF CleanStopLeavesNothing
<1>1. CASE Close
  <2>1. UNCHANGED <<queue, refused>> /\ proc = "stopping" /\ FlushReturns
    BY <1>1 DEF Close, history
  <2>2. ASSUME pass.by = "flush", pass.ids = {}, ~pass.some
        PROVE  FALSE
    BY <2>1, <2>2 DEF PassInv
  <2> QED
    BY <2>1, <2>2 DEF FlushReturns, Undelivered
<1>2. CASE UNCHANGED <<queue, refused, proc>>
  BY <1>2 DEF CleanStopLeavesNothing, Undelivered
<1>3. CASE Drain
  <2>1. proc = "stopped" /\ ~refused
    <3>1. CASE DeliverFails
      BY <3>1 DEF DeliverFails
    <3>2. CASE ~DeliverFails
      BY <1>3, <3>2 DEF Drain, BeginPass, EnsureFindsDelivered, Deliver, MarkDelivered,
         WorkerSeesStop, EndPass, history
    <3> QED
      BY <3>1, <3>2
  <2>2. Undelivered = {}
    BY <2>1 DEF CleanStopLeavesNothing
  <2>3. \A d \in Detection : queue'[d] = "pending" => queue[d] = "pending"
    <3>1. CASE MarkDelivered
      BY <3>1, <2>1 DEF MarkDelivered, OutboxTypes
    <3>2. CASE ~MarkDelivered
      BY <1>3, <3>2 DEF Drain, BeginPass, EnsureFindsDelivered, Deliver, DeliverFails,
         AfterFailure, WorkerSeesStop, EndPass
    <3> QED
      BY <3>1, <3>2
  <2> QED
    BY <2>2, <2>3 DEF Undelivered
<1>4. CASE CandleCloses \/ StoreFails \/ StoreReturns \/ BackfillCandle \/ Poll \/ Analyse
           \/ Advance \/ Save \/ BeginEnsure \/ EndEnsure \/ QuietCandle \/ Track
           \/ SaveRaises \/ QueueRaises
  BY <1>2, <1>4 DEF CandleCloses, StoreFails, StoreReturns, BackfillCandle, Poll, Analyse,
     Advance, Save, BeginEnsure, EndEnsure, QuietCandle, Track, SaveRaises, QueueRaises, history
<1>5. CASE Queue
  BY <1>5 DEF Queue, PollInv
<1>6. ~Boot /\ ~StartBackfill /\ ~EndBackfill /\ ~Park /\ ~Parked /\ ~Stop /\ ~Crash
  BY DEF Boot, StartBackfill, EndBackfill, Park, Parked, Stop, Crash
<1> QED
  BY <1>1, <1>3, <1>4, <1>5, <1>6 DEF Next, Loop

(***************************************************************************)
(* What a restart may lose.                                                *)
(***************************************************************************)

\* No step takes a row out of the queue, or a detection off those that are lost.
LEMMA RowsStay ==
    ASSUME OutboxTypes, PassInv, Next
    PROVE  /\ window \subseteq window' /\ unreached \subseteq unreached'
           /\ \A d \in Detection : queue'[d] = "none" => queue[d] = "none"
<1>1. CASE Drain
  <2>1. CASE MarkDelivered
    BY <2>1 DEF MarkDelivered, OutboxTypes, history
  <2>2. CASE ~MarkDelivered
    BY <1>1, <2>2 DEF Drain, BeginPass, EnsureFindsDelivered, Deliver, DeliverFails,
       AfterFailure, WorkerSeesStop, EndPass, history
  <2> QED
    BY <2>1, <2>2
<1>2. CASE Queue
  BY <1>2 DEF Queue, history
<1>3. CASE Loop /\ ~Queue
  BY <1>3 DEF Loop, Boot, EndBackfill, StartBackfill, Parked, BackfillCandle, Analyse, Poll,
     Save, EndEnsure, BeginEnsure, Advance, QuietCandle, Track, Close, history
<1>4. CASE SaveRaises \/ QueueRaises \/ Crash
  BY <1>4 DEF SaveRaises, QueueRaises, PollRaises, Crash
<1>5. CASE CandleCloses \/ StoreFails \/ StoreReturns \/ Park \/ Stop
  BY <1>5 DEF CandleCloses, StoreFails, StoreReturns, Park, Stop, history
<1> QED
  BY <1>1, <1>2, <1>3, <1>4, <1>5 DEF Next

LEMMA WindowStep ==
    ASSUME PollTypes, OutboxTypes, PassInv, PollInv, CursorInv, SavedInv, OnlyTheWindowLoses,
           WindowInv, Next
    PROVE  OnlyTheWindowLoses' /\ WindowInv'
<1> SUFFICES ASSUME NEW d \in Detection, queue'[d] = "none"
             PROVE  /\ At[d] \in bars' /\ (At[d] <= saved' \/ At[d] <= known') =>
                           \/ d \in window' \cup unreached'
                           \/ step' = "recorded" /\ cur' = At[d]
                    /\ /\ At[d] \in bars' \ todo' /\ At[d] > known'
                       /\ \E t \in todo' : At[d] <= t
                       => d \in unreached'
                    /\ At[d] \in bars' /\ At[d] <= saved' /\ proc' = "backfill" =>
                           d \in window' \cup unreached'
                    /\ At[d] = cur' => step' \notin {"queued", "ensured"}
  BY DEF OnlyTheWindowLoses, WindowInv
<1> DEFINE c == At[d]
           lost == window \cup unreached
           Handled == c \in bars /\ (c <= saved \/ c <= known)
           Passed == c \in bars \ todo /\ c > known /\ (\E t \in todo : c <= t)
           NoLonger == ~(c \in bars' \ todo' /\ c > known' /\ (\E t \in todo' : c <= t))
<1>1. queue[d] = "none" /\ lost \subseteq (window \cup unreached)' /\ unreached \subseteq unreached'
  BY RowsStay
<1>2. /\ Handled => d \in lost \/ (step = "recorded" /\ cur = c)
      /\ Passed => d \in unreached
      /\ c \in bars /\ c <= saved /\ proc = "backfill" => d \in lost
      /\ c = cur => step \notin {"queued", "ensured"}
  BY <1>1 DEF OnlyTheWindowLoses, WindowInv
<1>3. c \in Nat /\ c # 0
  <2>1. At[d] \in Candle
    BY TimesAreNumbers
  <2> QED
    BY <2>1, ObserverAssumption DEF Candle
<1>4. d \in FoundOn(cur) <=> c = cur
  BY DEF FoundOn
<1> HIDE DEF c, lost
<1> USE PollIsNumbers
<1>5. CASE CandleCloses
  <2>1. /\ UNCHANGED <<saved, known, todo, cur, step>>
        /\ proc' = proc /\ bars \subseteq bars' /\ \A b \in bars' \ bars : b = closed + 1
    BY <1>5 DEF CandleCloses, cursors, place
  <2>2. /\ saved <= closed /\ known <= closed /\ \A t \in todo : t <= closed
    BY DEF CursorInv, PollInv
  <2>3. c \in bars' /\ (c <= saved \/ c <= known \/ \E t \in todo : c <= t) => c \in bars
    BY <1>3, <2>1, <2>2
  <2> QED
    BY <1>1, <1>2, <2>1, <2>3 DEF c, lost
<1>6. CASE Drain \/ StoreFails \/ StoreReturns
  BY <1>1, <1>2, <1>6, StoreLeavesThePoll DEF c, lost
<1>7. CASE Boot
  <2>1. /\ UNCHANGED <<bars, todo, cur, step>> /\ saved' \in {saved, 0}
        /\ known' \in {saved, 0} /\ todo = {} /\ proc' = "starting"
    BY <1>7 DEF Boot, market, place, PollInv
  <2> QED
    BY <1>1, <1>2, <1>3, <2>1 DEF c, lost
<1>8. CASE EndBackfill
  BY <1>1, <1>2, <1>8 DEF EndBackfill, market, place, c, lost
<1>9. CASE StartBackfill
  <2>1. /\ UNCHANGED <<bars, saved, known, cur, step>> /\ todo' = Unhandled
        /\ known = 0 => unreached' = unreached \cup PassedOver
        /\ step # "recorded"
    BY <1>9 DEF StartBackfill, market, cursors, PollInv
  <2>2. NoLonger \/ d \in unreached'
    <3>1. CASE known = 0
      BY <1>1, <2>1, <3>1 DEF Unhandled, PassedOver, c
    <3>2. CASE known # 0
      BY <2>1, <3>2 DEF Unhandled
    <3> QED
      BY <3>1, <3>2
  <2> QED
    BY <1>1, <1>2, <2>1, <2>2 DEF c, lost
<1>10. CASE BackfillCandle \/ Advance
  BY <1>1, <1>2, <1>10 DEF BackfillCandle, Advance, market, cursors, place, c, lost
<1>11. CASE Poll
  <2>1. /\ UNCHANGED <<bars, saved, known, cur, step>> /\ todo' = NewlyClosed
        /\ cursor = 0 => unreached' = unreached \cup PassedOver
        /\ cursor = known /\ proc' = "live"
    BY <1>11 DEF Poll, market, cursors, CursorInv
  <2>2. NoLonger \/ d \in unreached'
    <3>1. CASE known = 0
      BY <1>1, <2>1, <3>1 DEF NewlyClosed, PassedOver, c
    <3>2. CASE known # 0
      BY <2>1, <3>2 DEF NewlyClosed
    <3> QED
      BY <3>1, <3>2
  <2> QED
    BY <1>1, <1>2, <2>1, <2>2 DEF c, lost
<1>12. CASE Analyse
  BY <1>1, <1>2, <1>12 DEF Analyse, market, c, lost
<1>13. CASE Save \/ SaveRaises
  <2>1. /\ cur \in todo /\ step = "advanced" /\ proc = "live"
        /\ \A t \in todo : cur <= t
    BY <1>13 DEF Save, SaveRaises, PollInv
  <2>2. /\ saved' \in {saved, cur} /\ known' = cur /\ bars' = bars
        /\ todo' \in {todo, {}} /\ proc' = "live"
    BY <1>13, <2>1 DEF Save, SaveRaises, PollRaises, market
  <2>3. saved <= cur /\ known < cur
    BY <2>1 DEF CursorInv, SavedInv
  <2>4. NoLonger \/ Passed
    BY <1>3, <2>1, <2>2, <2>3
  <2>5. CASE c = cur
    BY <1>1, <1>2, <1>4, <1>13, <2>1, <2>4, <2>5 DEF Save, SaveRaises, PollRaises, c
  <2>6. CASE c # cur
    <3>1. c \in bars' /\ (c <= saved' \/ c <= known') => Handled \/ Passed
      <4>1. c \in bars /\ c < cur => c \notin todo
        BY <1>3, <2>1
      <4> QED
        BY <1>3, <2>1, <2>2, <2>3, <2>6, <4>1
    <3>2. step' \in {"recorded", "next"}
      BY <1>13 DEF Save, SaveRaises, PollRaises
    <3> QED
      BY <1>1, <1>2, <2>1, <2>4, <3>1, <3>2 DEF c, lost
  <2> QED
    BY <2>5, <2>6
<1>14. CASE QueueRaises
  BY <1>1, <1>2, <1>4, <1>14 DEF QueueRaises, PollRaises, market, cursors, c, lost
<1>15. CASE QuietCandle \/ Track
  <2>1. /\ c # cur /\ cur \in todo /\ step # "next"
        /\ UNCHANGED <<bars, saved, proc>> /\ step' = "next" /\ todo' = todo \ {cur}
        /\ known' = IF proc = "backfill" THEN cur ELSE known
    BY <1>1, <1>2, <1>4, <1>15 DEF QuietCandle, Track, CandleDone, market, PollInv
  <2>2. proc = "backfill" => known < cur
    BY <2>1 DEF CursorInv
  <2>3. \A t \in todo : cur <= t
    BY <2>1 DEF PollInv
  <2>4. c \in bars /\ c <= known' => Handled \/ Passed
    BY <1>3, <2>1, <2>2, <2>3
  <2>5. NoLonger \/ Passed
    BY <1>3, <2>1, <2>2
  <2> QED
    BY <1>1, <1>2, <2>1, <2>4, <2>5 DEF c, lost
<1>16. CASE Queue
  <2>1. c # cur
    BY <1>4, <1>16, <1>1 DEF Queue
  <2> QED
    BY <1>1, <1>2, <1>16, <2>1 DEF Queue, market, cursors, c, lost
<1>17. CASE BeginEnsure \/ EndEnsure
  <2>1. step = "queued"
    BY <1>17 DEF BeginEnsure, EndEnsure, PassInv
  <2> QED
    BY <1>1, <1>2, <1>17, <2>1 DEF BeginEnsure, EndEnsure, market, cursors, place, c, lost
<1>18. CASE Parked
  BY <1>1, <1>2, <1>18 DEF Parked, market, place, c, lost
<1>19. CASE Close
  <2>1. /\ UNCHANGED <<bars, todo, cur, step>> /\ todo = {} /\ saved' = known /\ known' = 0
        /\ proc' = "stopped"
    BY <1>19 DEF Close, market, place, PollInv
  <2> QED
    BY <1>1, <1>2, <1>3, <2>1 DEF c, lost
<1>20. CASE Park \/ Stop
  BY <1>1, <1>2, <1>20 DEF Park, Stop, market, cursors, place, c, lost
<1>21. CASE Crash
  <2>1. /\ bars' = bars /\ saved' = saved /\ known' = 0 /\ step' = "next" /\ todo' = {}
        /\ proc' = "down"
    BY <1>21 DEF Crash, market
  <2>2. CASE c \in bars /\ c <= saved /\ step = "recorded" /\ cur = c
    <3>1. CASE proc # "backfill"
      <4>1. d \in window'
        BY <1>4, <1>21, <2>2, <3>1 DEF Crash
      <4> QED
        BY <2>1, <4>1
    <3>2. CASE proc = "backfill"
      BY <1>1, <1>2, <2>1, <2>2, <3>2 DEF lost
    <3> QED
      BY <3>1, <3>2
  <2> QED
    BY <1>1, <1>2, <1>3, <2>1, <2>2 DEF c, lost
<1> QED
  BY <1>5, <1>6, <1>7, <1>8, <1>9, <1>10, <1>11, <1>12, <1>13, <1>14, <1>15, <1>16, <1>17,
     <1>18, <1>19, <1>20, <1>21 DEF Next, Loop

(***************************************************************************)
(* What is measured.                                                       *)
(***************************************************************************)

LEMMA EvaluationParts ==
    ASSUME NEW x \in Evaluation(Candle)
    PROVE  /\ x.tracked \in BOOLEAN /\ x.bars \in HorizonStatus /\ x.cross \in HorizonStatus
           /\ x.seen \in Nat /\ x.last \in Nat
           /\ x.measured \subseteq Nat /\ 0 \notin x.measured
           /\ Horizon \in Nat /\ Horizon # 0 /\ Tolerance \in Nat
<1>1. Candle \subseteq Nat /\ 0 \notin Candle
  BY ObserverAssumption DEF Candle
<1>2. /\ x.tracked \in BOOLEAN /\ x.bars \in HorizonStatus /\ x.cross \in HorizonStatus
      /\ x.seen \in 0..Horizon /\ x.last \in {0} \cup Candle /\ x.measured \in SUBSET Candle
  BY DEF Evaluation
<1>3. Horizon \in Nat /\ Horizon # 0 /\ Tolerance \in Nat
  BY OutcomeAssumption
<1>4. x.seen \in Nat
  BY <1>2, <1>3
<1>5. x.last \in Nat
  <2>1. x.last = 0 \/ x.last \in Candle
    BY <1>2
  <2>2. x.last \in Candle => x.last \in Nat
    BY <1>1
  <2>3. 0 \in Nat
    OBVIOUS
  <2> QED
    BY <2>1, <2>2, <2>3, Zenon
<1>6. \A c \in x.measured : c \in Nat /\ c # 0
  <2>1. x.measured \in SUBSET Candle
    BY <1>2
  <2>2. \A c \in x.measured : c \in Candle
    BY <2>1
  <2> QED
    BY <1>1, <2>2
<1> QED
  BY <1>2, <1>3, <1>4, <1>5, <1>6

\* An evaluation with the measures of another is in the same order.
LEMMA SameMeasures ==
    ASSUME NEW x, NEW y, MeasuredInOrder(x),
           y.measured = x.measured, y.seen = x.seen,
           y.bars = "pending" => x.bars = "pending" /\ y.last = x.last,
           y.bars = "complete" => x.bars = "complete"
    PROVE  MeasuredInOrder(y)
BY DEF MeasuredInOrder

\* A candle after the last one is measured in order, and is the last one then.
LEMMA MeasuredKeepsOrder ==
    ASSUME NEW x \in Evaluation(Candle), NEW c \in Candle,
           MeasuredInOrder(x), x.last < c
    PROVE  MeasuredInOrder(Measured(x, c)) /\ Measured(x, c).last = c
<1> DEFINE y == Measured(x, c)
<1>1. c \in Nat
  BY TimesAreNumbers
<1>0. /\ x.seen \in Nat /\ x.last \in Nat
      /\ x.measured \subseteq Nat /\ 0 \notin x.measured
      /\ Horizon \in Nat /\ Horizon # 0 /\ Tolerance \in Nat
  BY EvaluationParts
<1>2. CASE GapBefore(x, c)
  <2>1. /\ y.measured = x.measured /\ y.seen = x.seen /\ y.last = c
        /\ y.bars # "pending"
        /\ y.bars = "complete" => x.bars = "complete"
    BY <1>2 DEF Measured, Evaluation
  <2> HIDE DEF y
  <2> QED
    BY <2>1, SameMeasures DEF y
<1>3. CASE ~GapBefore(x, c) /\ x.bars # "pending"
  <2>1. /\ y.measured = x.measured /\ y.seen = x.seen /\ y.last = c /\ y.bars = x.bars
    BY <1>3 DEF Measured, Evaluation
  <2> HIDE DEF y
  <2> QED
    BY <1>3, <2>1, SameMeasures DEF y
<1>4. CASE ~GapBefore(x, c) /\ x.bars = "pending"
  <2>1. /\ y.measured = x.measured \cup {c} /\ y.seen = x.seen + 1 /\ y.last = c
        /\ y.bars = IF x.seen + 1 >= Horizon THEN "complete" ELSE "pending"
    BY <1>4 DEF Measured, Evaluation
  <2>2. /\ IsFiniteSet(x.measured) /\ Cardinality(x.measured) = x.seen
        /\ x.seen < Horizon
        /\ \A b \in x.measured : b <= x.last
        /\ x.last # 0 => x.last \in x.measured
        /\ \A a \in x.measured : \/ \A b \in x.measured : a <= b
                                 \/ \E b \in x.measured : b < a /\ a <= b + 1 + Tolerance
    BY <1>4 DEF MeasuredInOrder
  <2>3. c \notin x.measured
    BY <1>0, <1>1, <2>2
  <2>4. IsFiniteSet(y.measured) /\ Cardinality(y.measured) = y.seen
    <3>1. /\ IsFiniteSet(x.measured \cup {c})
          /\ Cardinality(x.measured \cup {c}) = Cardinality(x.measured) + 1
      BY <2>2, <2>3, FS_AddElement
    <3> QED
      BY <2>1, <2>2, <3>1
  <2>5. x.last # 0 => c <= x.last + 1 + Tolerance
    BY <1>0, <1>1, <1>4 DEF GapBefore
  <2>6. \/ \A b \in y.measured : c <= b
        \/ \E b \in y.measured : b < c /\ c <= b + 1 + Tolerance
    <3>1. CASE x.last = 0
      <4>1. x.measured = {}
        BY <1>0, <2>2, <3>1
      <4> QED
        BY <1>1, <2>1, <4>1
    <3>2. CASE x.last # 0
      BY <2>1, <2>2, <2>5, <3>2
    <3> QED
      BY <3>1, <3>2
  <2>7. ASSUME NEW a \in x.measured
        PROVE  \/ \A b \in y.measured : a <= b
               \/ \E b \in y.measured : b < a /\ a <= b + 1 + Tolerance
    <3>1. a <= c
      BY <1>0, <1>1, <2>2, <2>7
    <3> QED
      BY <1>0, <1>1, <2>1, <2>2, <2>7, <3>1
  <2>8. /\ y.bars = "pending" => y.seen < Horizon
        /\ y.bars = "complete" => y.seen = Horizon
        /\ \A b \in y.measured : b <= y.last
        /\ y.last \in y.measured
    BY <1>0, <1>1, <2>1, <2>2
  <2>9. \A a \in y.measured : a \in x.measured \/ a = c
    BY <2>1
  <2> HIDE DEF y
  <2> QED
    <3>1. \A a \in y.measured : \/ \A b \in y.measured : a <= b
                                \/ \E b \in y.measured : b < a /\ a <= b + 1 + Tolerance
      BY <2>6, <2>7, <2>9
    <3> QED
      BY <2>1, <2>4, <2>8, <3>1 DEF MeasuredInOrder, y
<1> QED
  BY <1>2, <1>3, <1>4

\* Tracking a detection, or ending a horizon by the opposite, measures nothing.
LEMMA OthersKeepOrder ==
    ASSUME NEW x \in Evaluation(Candle), MeasuredInOrder(x)
    PROVE  /\ MeasuredInOrder(Started(x)) /\ Started(x).last = x.last
           /\ MeasuredInOrder(Crossed(x)) /\ Crossed(x).last = x.last
<1>1. /\ Started(x).measured = x.measured /\ Started(x).seen = x.seen
      /\ Started(x).bars = x.bars /\ Started(x).last = x.last
  BY DEF Started, Evaluation
<1>2. /\ Crossed(x).measured = x.measured /\ Crossed(x).seen = x.seen
      /\ Crossed(x).bars = x.bars /\ Crossed(x).last = x.last
  BY DEF Crossed, Evaluation
<1> HIDE DEF Started, Crossed
<1> QED
  BY <1>1, <1>2 DEF MeasuredInOrder

LEMMA UntrackedInOrder == MeasuredInOrder(Untracked) /\ Untracked.last = 0
<1>1. /\ Untracked.measured = {} /\ Untracked.seen = 0 /\ Untracked.bars = "pending"
      /\ Untracked.last = 0
  BY DEF Untracked
<1>2. IsFiniteSet({}) /\ Cardinality({}) = 0
  BY FS_EmptySet
<1>3. 0 < Horizon
  BY OutcomeAssumption
<1> QED
  BY <1>1, <1>2, <1>3 DEF MeasuredInOrder

\* Only these steps touch what is tracked and what is recorded of it.
LEMMA OutcomesUnchanged ==
    ASSUME Next, ~Advance, ~Track, ~Close, ~Crash
    PROVE  UNCHANGED <<tracker, rows>>
<1>1. CASE CandleCloses \/ StoreFails \/ StoreReturns \/ Park \/ Stop
  BY <1>1 DEF CandleCloses, StoreFails, StoreReturns, Park, Stop, outcomes
<1>2. CASE Drain
  BY <1>2 DEF Drain, BeginPass, EnsureFindsDelivered, Deliver, DeliverFails, MarkDelivered,
     WorkerSeesStop, EndPass, outcomes
<1>3. CASE Loop
  BY <1>3 DEF Loop, Boot, EndBackfill, StartBackfill, Parked, BackfillCandle, Analyse, Poll,
     Save, Queue, EndEnsure, BeginEnsure, QuietCandle, outcomes
<1>4. CASE SaveRaises \/ QueueRaises
  BY <1>4 DEF SaveRaises, QueueRaises, outcomes
<1> QED
  BY <1>1, <1>2, <1>3, <1>4 DEF Next

LEMMA MeasureStep ==
    ASSUME PollTypes, OutcomeTypes, PassInv, PollInv, CursorInv, MeasureInv, Next
    PROVE  MeasureInv'
<1> USE PollIsNumbers
<1> SUFFICES ASSUME NEW e \in Detection
             PROVE  /\ MeasuredInOrder(tracker'[e]) /\ MeasuredInOrder(rows'[e])
                    /\ tracker'[e].last <= IF step' = "advanced" THEN cur' ELSE known'
  BY DEF MeasureInv, MeasuredInOrder
<1>1. /\ MeasuredInOrder(tracker[e]) /\ MeasuredInOrder(rows[e])
      /\ tracker[e].last <= IF step = "advanced" THEN cur ELSE known
  BY DEF MeasureInv
<1>2. /\ tracker[e] \in Evaluation(Candle) /\ rows[e] \in Evaluation(Candle)
      /\ tracker[e].last \in Nat
  BY EvaluationParts DEF OutcomeTypes
<1>3. CASE Advance
  <2>1. step = "analysed" /\ step' = "advanced" /\ cur' = cur /\ known < cur
    BY <1>3 DEF Advance, CursorInv
  <2>2. tracker[e].last < cur
    BY <1>1, <1>2, <2>1
  <2>3. cur \in Candle
    BY <2>1, TimesAreNumbers DEF PollTypes
  <2>4. MeasuredInOrder(Moved(e)) /\ Moved(e).last <= cur
    <3>1. CASE Moves(e)
      BY <1>1, <1>2, <2>2, <2>3, <3>1, MeasuredKeepsOrder DEF Moved
    <3>2. CASE ~Moves(e)
      BY <1>1, <1>2, <2>2, <3>2 DEF Moved
    <3> QED
      BY <3>1, <3>2
  <2>5. tracker'[e] \in {Moved(e), Untracked} /\ rows'[e] \in {Moved(e), rows[e]}
    BY <1>3, AdvanceChanges
  <2> QED
    BY <1>1, <2>1, <2>4, <2>5, UntrackedInOrder
<1>4. CASE Track
  <2>1. /\ tracker[e].last <= known /\ known' \in {known, cur} /\ step' = "next"
        /\ step = "ensured"
    BY <1>1, <1>4 DEF Track, CandleDone
  <2>2. known <= known'
    BY <1>4, <2>1 DEF Track, CandleDone, CursorInv
  <2>3. MeasuredInOrder(Tracks(e)) /\ Tracks(e).last = tracker[e].last
    <3>1. Tracks(e) \in {Started(tracker[e]), Crossed(tracker[e]), tracker[e]}
      <4>1. CASE e \in FoundOn(cur)
        BY <4>1, Zenon DEF Tracks, EndedBy
      <4>2. CASE EndedBy(e)
        BY <4>2, Zenon DEF Tracks, EndedBy
      <4>3. CASE e \notin FoundOn(cur) /\ ~EndedBy(e)
        BY <4>3, Zenon DEF Tracks
      <4> QED
        BY <4>1, <4>2, <4>3
    <3> QED
      BY <1>1, <1>2, <3>1, OthersKeepOrder
  <2>4. tracker'[e] = Tracks(e) /\ rows'[e] \in {rows[e], Tracks(e)}
    BY <1>4, TrackChanges
  <2>5. known' \in Nat
    BY <2>1
  <2> QED
    BY <1>1, <1>2, <2>1, <2>2, <2>3, <2>4, <2>5
<1>5. CASE Close \/ Crash
  <2>1. tracker'[e] = Untracked /\ rows' = rows /\ known' = 0 /\ step' # "advanced"
    BY <1>5 DEF Close, Crash, Nothing, PollInv, place
  <2> QED
    BY <1>1, <2>1, UntrackedInOrder
<1>6. CASE ~Advance /\ ~Track /\ ~Close /\ ~Crash
  <2>1. UNCHANGED <<tracker, rows>>
    BY <1>6, OutcomesUnchanged
  <2>2. (IF step = "advanced" THEN cur ELSE known)
            <= IF step' = "advanced" THEN cur' ELSE known'
    <3>1. CASE CandleCloses \/ Drain \/ StoreFails \/ StoreReturns
      BY <3>1, StoreLeavesThePoll DEF CandleCloses, cursors, place
    <3>2. CASE Boot
      BY <3>2 DEF Boot, place, CursorInv, PollInv
    <3>3. CASE StartBackfill \/ BackfillCandle \/ EndBackfill \/ Poll
      BY <3>3 DEF StartBackfill, BackfillCandle, EndBackfill, Poll, cursors, place, PollInv
    <3>4. CASE Analyse
      BY <3>4 DEF Analyse
    <3>5. CASE Save \/ SaveRaises
      BY <3>5 DEF Save, SaveRaises, PollRaises
    <3>6. CASE QuietCandle
      BY <3>6 DEF QuietCandle, CandleDone, CursorInv
    <3>7. CASE Queue \/ BeginEnsure \/ EndEnsure
      <4>1. step # "advanced" /\ step' # "advanced" /\ known' = known
        BY <3>7 DEF Queue, BeginEnsure, EndEnsure, PassInv, cursors, place
      <4> QED
        BY <4>1
    <3>8. CASE QueueRaises
      BY <3>8 DEF QueueRaises, PollRaises, cursors
    <3>9. CASE Park \/ Stop \/ Parked
      BY <3>9 DEF Park, Stop, Parked, cursors, place
    <3> QED
      BY <1>6, <3>1, <3>2, <3>3, <3>4, <3>5, <3>6, <3>7, <3>8, <3>9 DEF Next, Loop
  <2>3. /\ (IF step = "advanced" THEN cur ELSE known) \in Nat
        /\ (IF step' = "advanced" THEN cur' ELSE known') \in Nat
    BY PollTypesStep, PollIsNumbers, TimesAreNumbers DEF PollTypes
  <2> QED
    BY <1>1, <1>2, <2>1, <2>2, <2>3
<1> QED
  BY <1>3, <1>4, <1>5, <1>6

(***************************************************************************)
(* What is answered stays answered.                                        *)
(***************************************************************************)

\* y answers whatever x answers, as x does.
Extends(y, x) ==
    /\ x.bars # "pending" => y.bars = x.bars
    /\ x.cross # "pending" => y.cross = x.cross

\* The answers of the row of one detection, and what is tracked of it.
AnswerOf(e) ==
    /\ e \in Answered \ exposed =>
           /\ At[e] <= saved /\ At[e] # cur
           /\ proc \notin {"down", "stopped"} => At[e] <= known
    /\ tracker[e].tracked =>
           /\ At[e] <= known /\ At[e] # cur
           /\ proc # "backfill" => At[e] <= saved
           /\ e \notin exposed => Extends(tracker[e], rows[e])
    /\ ~tracker[e].tracked => tracker[e] = Untracked
    /\ proc = "backfill" => tracker[e].last = 0

LEMMA AnswersApart ==
    AnswerInv <=> /\ proc \in {"down", "starting", "stopped"} => tracker = Nothing
                  /\ \A e \in Detection : AnswerOf(e)
BY DEF AnswerInv, AnswerOf, Extends

LEMMA AnswersApartNext ==
    AnswerInv' <=> /\ proc' \in {"down", "starting", "stopped"} => tracker' = Nothing
                   /\ \A e \in Detection : AnswerOf(e)'
BY DEF AnswerInv, AnswerOf, Extends

\* Whether a row holds an answer.
HasAnswer(x) == x.bars # "pending" \/ x.cross # "pending"

LEMMA AnsweredRows ==
    ASSUME NEW e \in Detection
    PROVE  /\ e \in Answered <=> HasAnswer(rows[e])
           /\ e \in Answered' <=> HasAnswer(rows'[e])
BY DEF Answered, HasAnswer

LEMMA MeasuredExtends ==
    ASSUME NEW x \in Evaluation(Candle), NEW c
    PROVE  Extends(Measured(x, c), x) /\ Measured(x, c).tracked = x.tracked
<1>1. CASE GapBefore(x, c)
  BY <1>1 DEF Measured, Evaluation, Extends
<1>2. CASE ~GapBefore(x, c) /\ x.bars = "pending"
  BY <1>2 DEF Measured, Evaluation, Extends
<1>3. CASE ~GapBefore(x, c) /\ x.bars # "pending"
  BY <1>3 DEF Measured, Evaluation, Extends
<1> QED
  BY <1>1, <1>2, <1>3

LEMMA OthersExtend ==
    ASSUME NEW x \in Evaluation(Candle)
    PROVE  /\ Started(x).tracked = TRUE /\ Started(x).bars = x.bars
           /\ Started(x).cross = x.cross /\ Started(x).last = x.last
           /\ Crossed(x).tracked = x.tracked /\ Crossed(x).bars = x.bars
           /\ Crossed(x).cross = "complete" /\ Crossed(x).last = x.last
BY DEF Started, Crossed, Evaluation

\* An answer survives the measuring of a candle.
LEMMA AdvanceAnswers ==
    ASSUME PollTypes, OutcomeTypes, PollInv, AnswerInv, Advance, NEW e \in Detection
    PROVE  AnswerOf(e)' /\ (e \notin exposed => Extends(rows'[e], rows[e]))
<1> DEFINE x == tracker[e]
           y == Moved(e)
           r == rows[e]
           Behind == At[e] <= saved /\ At[e] <= known /\ At[e] # cur
<1>1. /\ step = "analysed" /\ proc = "live"
      /\ UNCHANGED <<proc, saved, known, cur>>
  BY DEF Advance, PollInv, cursors
<1>2. /\ tracker'[e] = IF StillOpen(y) THEN y ELSE Untracked
      /\ \/ rows'[e] = y /\ Moves(e)
         \/ rows'[e] = r /\ (e \in exposed => e \in exposed')
  BY AdvanceChanges
<1>3. AnswerOf(e)
  BY AnswersApart
<1>4. x \in Evaluation(Candle)
  BY DEF OutcomeTypes
<1>5. Extends(y, x) /\ y.tracked = x.tracked
  <2>1. CASE Moves(e)
    BY <1>4, <2>1, MeasuredExtends DEF Moved
  <2>2. CASE ~Moves(e)
    BY <2>2 DEF Moved, Extends
  <2> QED
    BY <2>1, <2>2
<1>6. Moves(e) => x.tracked
  BY DEF Moves, StillOpen
<1>7. StillOpen(y) => y.tracked
  BY DEF StillOpen
<1>8. Untracked.tracked = FALSE
  BY DEF Untracked
<1>9. x.tracked => Behind /\ (e \notin exposed => Extends(x, r))
  BY <1>1, <1>3 DEF AnswerOf
<1>10. HasAnswer(r) /\ e \notin exposed => Behind
  BY <1>1, <1>3, AnsweredRows DEF AnswerOf
<1> HIDE DEF x, y, r
<1>11. /\ HasAnswer(rows'[e]) /\ e \notin exposed' => Behind
       /\ e \notin exposed => Extends(rows'[e], r)
  <2>1. CASE rows'[e] = y /\ Moves(e)
    BY <1>5, <1>6, <1>9, <2>1 DEF Extends
  <2>2. CASE rows'[e] = r /\ (e \in exposed => e \in exposed')
    BY <1>10, <2>2 DEF Extends
  <2> QED
    BY <1>2, <2>1, <2>2
<1>12. proc' = "live" /\ (Behind' <=> Behind)
  BY <1>1
<1>13. CASE StillOpen(y)
  <2>1. tracker'[e] = y /\ x.tracked /\ y.tracked
    BY <1>2, <1>5, <1>7, <1>13
  <2>2. e \notin exposed' => Extends(y, rows'[e])
    <3>1. CASE rows'[e] = y
      BY <3>1 DEF Extends
    <3>2. CASE rows'[e] = r /\ (e \in exposed => e \in exposed')
      BY <1>5, <1>9, <2>1, <3>2 DEF Extends
    <3> QED
      BY <1>2, <3>1, <3>2
  <2> QED
    BY <1>9, <1>11, <1>12, <2>1, <2>2, AnsweredRows DEF AnswerOf, r
<1>14. CASE ~StillOpen(y)
  BY <1>2, <1>8, <1>11, <1>12, <1>14, AnsweredRows DEF AnswerOf, r
<1> QED
  BY <1>13, <1>14

\* And the arrival of new detections.
LEMMA TrackAnswers ==
    ASSUME PollTypes, OutcomeTypes, PollInv, CursorInv, AnswerInv, Track,
           NEW e \in Detection
    PROVE  AnswerOf(e)' /\ (e \notin exposed => Extends(rows'[e], rows[e]))
<1> DEFINE x == tracker[e]
           y == Tracks(e)
           r == rows[e]
<1> USE PollIsNumbers
<1>1. /\ step = "ensured" /\ cur' = 0 /\ saved' = saved /\ proc' = proc
      /\ known' = IF proc = "backfill" THEN cur ELSE known
      /\ proc \in {"backfill", "live"}
  BY DEF Track, CandleDone, PollInv
<1>2. proc = "live" => cur = saved /\ cur = known
  BY <1>1 DEF CursorInv
<1>3. /\ tracker'[e] = y
      /\ \/ rows'[e] = y /\ (e \in FoundOn(cur) \/ EndedBy(e))
         \/ rows'[e] = r /\ (e \in exposed => e \in exposed')
  BY TrackChanges
<1>4. AnswerOf(e)
  BY AnswersApart
<1>5. x \in Evaluation(Candle) /\ At[e] \in Nat /\ At[e] # 0
  <2>1. At[e] \in Candle
    BY TimesAreNumbers
  <2> QED
    BY <2>1, ObserverAssumption DEF OutcomeTypes, Candle
<1>6. e \in FoundOn(cur) <=> At[e] = cur
  BY DEF FoundOn
<1>7. known <= known'
  BY <1>1 DEF CursorInv
<1>8. HasAnswer(r) /\ e \notin exposed =>
          At[e] <= saved /\ At[e] # cur /\ At[e] <= known'
  BY <1>1, <1>4, <1>5, <1>7, AnsweredRows DEF AnswerOf
<1> HIDE DEF x, y, r
<1>9. CASE e \in FoundOn(cur)
  <2>1. ~x.tracked /\ x = Untracked
    BY <1>4, <1>6, <1>9 DEF AnswerOf, x
  <2>2. y = Started(x)
    BY <1>9, Zenon DEF Tracks, EndedBy, x, y
  <2>3. y.tracked /\ ~HasAnswer(y) /\ y.last = 0
    <3>1. y.tracked = TRUE /\ y.bars = x.bars /\ y.cross = x.cross /\ y.last = x.last
      BY <1>5, <2>2, OthersExtend
    <3> QED
      BY <2>1, <3>1 DEF Untracked, HasAnswer
  <2>4. /\ e \notin exposed' => ~HasAnswer(rows'[e])
        /\ e \notin exposed => ~HasAnswer(r)
    BY <1>3, <1>6, <1>8, <1>9, <2>3
  <2>5. At[e] <= known' /\ (proc' # "backfill" => At[e] <= saved') /\ At[e] # cur'
    BY <1>1, <1>2, <1>5, <1>6, <1>9
  <2>6. /\ e \notin exposed' => Extends(tracker'[e], rows'[e])
        /\ e \notin exposed => Extends(rows'[e], r)
    BY <2>4 DEF Extends, HasAnswer
  <2> QED
    BY <1>3, <2>3, <2>4, <2>5, <2>6, AnsweredRows DEF AnswerOf, r
<1>10. CASE EndedBy(e)
  <2>1. /\ x.tracked /\ x.last # 0 /\ x.cross = "pending"
    BY <1>10 DEF EndedBy, CrossEnds, StillOpen, x
  <2>2. /\ proc = "live" /\ At[e] <= saved /\ At[e] <= known
        /\ e \notin exposed => Extends(x, r)
    BY <1>1, <1>4, <2>1 DEF AnswerOf, x, r
  <2>3. y = Crossed(x)
    BY <1>10, Zenon DEF Tracks, EndedBy, x, y
  <2>4. y.tracked = x.tracked /\ y.bars = x.bars /\ y.cross = "complete" /\ y.last = x.last
    BY <1>5, <2>3, OthersExtend
  <2>5. /\ e \notin exposed' => Extends(y, rows'[e])
        /\ e \notin exposed => Extends(rows'[e], r)
    BY <1>3, <2>1, <2>2, <2>4 DEF Extends
  <2>6. At[e] <= known' /\ At[e] <= saved' /\ At[e] # cur' /\ proc' = "live"
    BY <1>1, <1>5, <2>2
  <2> QED
    BY <1>3, <2>1, <2>4, <2>5, <2>6 DEF AnswerOf, r
<1>11. CASE e \notin FoundOn(cur) /\ ~EndedBy(e)
  <2>1. y = x
    BY <1>11, Zenon DEF Tracks, x, y
  <2>2. rows'[e] = r /\ tracker'[e] = x /\ (e \in exposed => e \in exposed')
    BY <1>3, <1>11, <2>1
  <2>3. x.tracked => /\ At[e] <= known' /\ At[e] # cur'
                     /\ proc' # "backfill" => At[e] <= saved'
                     /\ e \notin exposed => Extends(x, r)
    <3>1. x.tracked => At[e] <= known
      BY <1>4 DEF AnswerOf, x
    <3>2. known \in Nat /\ known' \in Nat
      BY <1>1
    <3> QED
      BY <1>1, <1>4, <1>5, <1>7, <3>1, <3>2 DEF AnswerOf, x, r
  <2>4. /\ ~x.tracked => x = Untracked
        /\ proc' = "backfill" => x.last = 0
    BY <1>1, <1>4 DEF AnswerOf, x
  <2>5. HasAnswer(r) /\ e \notin exposed => At[e] <= saved' /\ At[e] # cur' /\ At[e] <= known'
    BY <1>1, <1>5, <1>8
  <2> QED
    BY <2>2, <2>3, <2>4, <2>5, AnsweredRows DEF AnswerOf, Extends, r
<1> QED
  BY <1>9, <1>10, <1>11

\* Start-up, back-fill and market close move the cursors over what was answered, or expose
\* it.
LEMMA OthersAnswer ==
    ASSUME PollTypes, OutcomeTypes, PassInv, PollInv, CursorInv, SavedInv, AnswerInv, Next,
           ~Advance, ~Track, ~Close, ~Crash, NEW e \in Detection
    PROVE  AnswerOf(e)'
<1> USE PollIsNumbers
<1> DEFINE Up == proc \notin {"down", "stopped"}
<1>1. UNCHANGED <<tracker, rows>>
  BY OutcomesUnchanged
<1>2. AnswerOf(e) /\ (proc \in {"down", "starting", "stopped"} => tracker = Nothing)
  BY AnswersApart
<1>3. At[e] \in Nat /\ At[e] # 0
  <2>1. At[e] \in Candle
    BY TimesAreNumbers
  <2> QED
    BY <2>1, ObserverAssumption DEF Candle
<1>4. Nothing[e] = Untracked /\ Untracked.tracked = FALSE /\ Untracked.last = 0
  BY DEF Nothing, Untracked
<1>5. CASE Boot
  <2>1. /\ proc \in {"down", "stopped"} /\ proc' = "starting"
        /\ known' = 0 \/ (known' = saved /\ saved' = saved)
        /\ exposed' = IF known' = 0 THEN exposed \cup Answered ELSE exposed
        /\ cur' = cur
    BY <1>5 DEF Boot, place
  <2>2. tracker'[e] = Untracked
    BY <1>1, <1>2, <1>4, <2>1
  <2>3. e \in Answered' <=> e \in Answered
    BY <1>1 DEF Answered
  <2>4. e \in Answered' \ exposed' => At[e] <= saved' /\ At[e] # cur' /\ At[e] <= known'
    BY <1>2, <2>1, <2>3 DEF AnswerOf
  <2> QED
    BY <1>4, <2>1, <2>2, <2>4 DEF AnswerOf
<1>6. CASE ~Boot
  <2>1. /\ exposed' = exposed /\ known <= known' /\ known' \in Nat /\ saved' \in Nat
        /\ saved <= saved' \/ (Up /\ known = 0)
        /\ cur' \in {0, cur} \/ (Up /\ cur' > known)
        /\ Up' <=> Up
        /\ proc' = "backfill" => proc \in {"backfill", "starting"}
        /\ proc = "backfill" /\ proc' # "backfill" => known = 0 \/ saved' = known
    <3>1. CASE CandleCloses \/ StoreFails \/ StoreReturns
      BY <3>1 DEF CandleCloses, StoreFails, StoreReturns, cursors, place, history
    <3>2. CASE Drain
      <4>1. exposed' = exposed
        BY <3>2 DEF Drain, BeginPass, EnsureFindsDelivered, Deliver, DeliverFails, MarkDelivered,
           WorkerSeesStop, EndPass, history
      <4> QED
        BY <3>2, <4>1, StoreLeavesThePoll
    <3>3. CASE StartBackfill
      BY <3>3 DEF StartBackfill, cursors
    <3>4. CASE BackfillCandle
      <4>1. Min(todo) \in todo
        BY <3>4, MinIsFirst DEF BackfillCandle
      <4>2. \A c \in todo : c > known
        BY <3>4 DEF BackfillCandle, PollInv
      <4> QED
        BY <3>4, <4>1, <4>2 DEF BackfillCandle, cursors, history
    <3>5. CASE EndBackfill
      BY <3>5 DEF EndBackfill, place, SavedInv, history
    <3>6. CASE Poll
      BY <3>6 DEF Poll, cursors
    <3>7. CASE Analyse
      <4>1. Min(todo) \in todo
        BY <3>7, MinIsFirst DEF Analyse
      <4>2. \A c \in todo : c > known
        BY <3>7 DEF Analyse, PollInv
      <4> QED
        BY <3>7, <4>1, <4>2 DEF Analyse, history
    <3>8. CASE Save \/ SaveRaises
      <4>1. proc = "live" /\ known < cur
        BY <3>8 DEF Save, SaveRaises, PollInv, CursorInv
      <4>2. /\ saved' \in {saved, cur} /\ known' = cur /\ cur' \in {0, cur}
            /\ proc' = proc /\ exposed' = exposed
        BY <3>8 DEF Save, SaveRaises, PollRaises, history
      <4>3. known # 0 => saved <= known
        BY <4>1 DEF SavedInv
      <4> QED
        BY <4>1, <4>2, <4>3
    <3>9. CASE QuietCandle
      BY <3>9 DEF QuietCandle, CandleDone, CursorInv, history
    <3>10. CASE Queue \/ EndEnsure
      BY <3>10 DEF Queue, EndEnsure, cursors, history
    <3>11. CASE BeginEnsure
      BY <3>11 DEF BeginEnsure, cursors, place, history
    <3>12. CASE QueueRaises
      BY <3>12 DEF QueueRaises, PollRaises, cursors
    <3>13. CASE Park \/ Stop
      BY <3>13 DEF Park, Stop, cursors, place, Idle, history
    <3>14. CASE Parked
      BY <3>14 DEF Parked, place, SavedInv, history
    <3> QED
      BY <1>6, <3>1, <3>2, <3>3, <3>4, <3>5, <3>6, <3>7, <3>8, <3>9, <3>10, <3>11, <3>12,
         <3>13, <3>14 DEF Next, Loop
  <2>2. e \in Answered' <=> e \in Answered
    BY <1>1 DEF Answered
  <2>3. e \in Answered' \ exposed' =>
            At[e] <= saved' /\ At[e] # cur' /\ (Up' => At[e] <= known')
    <3> SUFFICES ASSUME e \in Answered \ exposed
                 PROVE  At[e] <= saved' /\ At[e] # cur' /\ (Up' => At[e] <= known')
      BY <2>1, <2>2
    <3>1. At[e] <= saved /\ At[e] # cur /\ (Up => At[e] <= known)
      BY <1>2 DEF AnswerOf
    <3>2. ~(Up /\ known = 0)
      BY <1>3, <3>1
    <3> QED
      BY <1>3, <2>1, <3>1, <3>2
  <2>4. tracker[e].tracked =>
            /\ At[e] <= known' /\ At[e] # cur'
            /\ proc' # "backfill" => At[e] <= saved'
            /\ e \notin exposed => Extends(tracker[e], rows[e])
    <3> SUFFICES ASSUME tracker[e].tracked
                 PROVE  /\ At[e] <= known' /\ At[e] # cur'
                        /\ proc' # "backfill" => At[e] <= saved'
                        /\ e \notin exposed => Extends(tracker[e], rows[e])
      OBVIOUS
    <3>1. /\ At[e] <= known /\ At[e] # cur
          /\ proc # "backfill" => At[e] <= saved
          /\ e \notin exposed => Extends(tracker[e], rows[e])
      BY <1>2 DEF AnswerOf
    <3>2. known # 0
      BY <1>3, <3>1
    <3> QED
      BY <1>3, <2>1, <3>1, <3>2
  <2>5. proc' = "backfill" => tracker[e].last = 0
    BY <1>2, <1>4, <2>1 DEF AnswerOf
  <2>6. ~tracker[e].tracked => tracker[e] = Untracked
    BY <1>2 DEF AnswerOf
  <2> QED
    BY <1>1, <2>1, <2>3, <2>4, <2>5, <2>6 DEF AnswerOf
<1> QED
  BY <1>5, <1>6

LEMMA AnswerStep ==
    ASSUME PollTypes, OutcomeTypes, PassInv, PollInv, CursorInv, SavedInv, AnswerInv, Next
    PROVE  AnswerInv' /\ \A e \in Detection : e \notin exposed => Extends(rows'[e], rows[e])
<1> USE PollIsNumbers
<1> SUFFICES /\ proc' \in {"down", "starting", "stopped"} => tracker' = Nothing
             /\ \A e \in Detection :
                    AnswerOf(e)' /\ (e \notin exposed => Extends(rows'[e], rows[e]))
  BY AnswersApartNext
<1>1. /\ proc \in {"down", "starting", "stopped"} => tracker = Nothing
      /\ \A e \in Detection : AnswerOf(e)
  BY AnswersApart
<1>2. CASE Advance
  BY <1>2, AdvanceAnswers DEF Advance, PollInv
<1>3. CASE Track
  BY <1>3, TrackAnswers DEF Track, PollInv
<1>4. CASE Close \/ Crash
  <2>1. /\ tracker' = Nothing /\ rows' = rows /\ cur' = 0 /\ exposed' = exposed
        /\ proc' \in {"down", "stopped"}
        /\ saved' = saved \/ (saved' = known /\ proc = "stopping")
    <3>1. CASE Close
      BY <3>1 DEF Close, PollInv, place, history
    <3>2. CASE Crash
      BY <3>2 DEF Crash
    <3> QED
      BY <1>4, <3>1, <3>2
  <2>2. ASSUME NEW e \in Detection
        PROVE  AnswerOf(e)' /\ Extends(rows'[e], rows[e])
    <3>1. At[e] \in Nat /\ At[e] # 0
      <4>1. At[e] \in Candle
        BY <2>2, TimesAreNumbers
      <4> QED
        BY <4>1, ObserverAssumption DEF Candle
    <3>2. tracker'[e] = Untracked /\ Untracked.tracked = FALSE
      BY <2>1, <2>2 DEF Nothing, Untracked
    <3>3. e \in Answered' \ exposed' => At[e] <= saved' /\ At[e] # cur'
      <4>1. e \in Answered' \ exposed' => e \in Answered \ exposed
        BY <2>1 DEF Answered
      <4> QED
        BY <1>1, <2>1, <2>2, <3>1, <4>1 DEF AnswerOf
    <3> QED
      BY <2>1, <3>2, <3>3 DEF AnswerOf, Extends
  <2> QED
    BY <2>1, <2>2
<1>5. CASE ~Advance /\ ~Track /\ ~Close /\ ~Crash
  <2>1. UNCHANGED <<tracker, rows>>
    BY <1>5, OutcomesUnchanged
  <2>2. \A e \in Detection : AnswerOf(e)' /\ (e \notin exposed => Extends(rows'[e], rows[e]))
    BY <1>5, <2>1, OthersAnswer DEF Extends
  <2>3. proc' \in {"down", "starting", "stopped"} => proc \in {"down", "starting", "stopped"}
    <3>1. CASE Drain \/ StoreFails \/ StoreReturns
      BY <3>1, StoreLeavesThePoll
    <3>2. CASE Boot
      BY <3>2 DEF Boot
    <3>3. CASE ~Boot /\ Loop
      BY <1>5, <3>3 DEF Loop, EndBackfill, StartBackfill, Parked, BackfillCandle, Analyse, Poll,
         Save, EndEnsure, BeginEnsure, QuietCandle, Queue
    <3>4. CASE CandleCloses \/ SaveRaises \/ QueueRaises \/ Park \/ Stop
      BY <3>4 DEF CandleCloses, SaveRaises, QueueRaises, Park, Stop
    <3> QED
      BY <1>5, <3>1, <3>2, <3>3, <3>4 DEF Next
  <2> QED
    BY <1>1, <2>1, <2>2, <2>3
<1> QED
  BY <1>2, <1>3, <1>4, <1>5

(***************************************************************************)
(* The theorems.                                                           *)
(***************************************************************************)

LEMMA InitOK == Init => IInv
<1> SUFFICES ASSUME Init
             PROVE  IInv
  OBVIOUS
<1> USE DEF Init
<1>1. TypeOK
  <2>1. PollTypes
    BY TimesAreNumbers DEF PollTypes, Proc, Step
  <2>2. CountTypes
    <3>1. MaxOutages \in Nat /\ MaxRestarts \in Nat /\ MaxFaults \in Nat
      BY ObserverAssumption
    <3>2. 0 \in 0..MaxOutages /\ 0 \in 0..MaxRestarts /\ 0 \in 0..MaxFaults
      BY <3>1
    <3> QED
      BY <3>2 DEF CountTypes
  <2>3. OutboxTypes
    BY DEF OutboxTypes, NoPass, Pass
  <2>4. OutcomeTypes
    BY UntrackedType DEF OutcomeTypes
  <2> HIDE DEF Init
  <2> QED
    BY <2>1, <2>2, <2>3, <2>4, TypeParts
<1>2. PollInv /\ CursorInv /\ SavedInv
  BY DEF PollInv, CursorInv, SavedInv
<1>3. PassInv
  BY NamesOfPasses DEF PassInv
<1>4. OnlyTheWindowLoses /\ WindowInv
  BY DEF OnlyTheWindowLoses, WindowInv
<1>5. CleanStopLeavesNothing
  BY DEF CleanStopLeavesNothing
<1>6. \A d \in Detection : tracker[d] = Untracked /\ rows[d] = Untracked
  BY DEF Nothing
<1>7. MeasureInv
  <2> HIDE DEF Init
  <2> SUFFICES ASSUME NEW d \in Detection
               PROVE  /\ MeasuredInOrder(tracker[d]) /\ MeasuredInOrder(rows[d])
                      /\ tracker[d].last <= IF step = "advanced" THEN cur ELSE known
    BY DEF MeasureInv, MeasuredInOrder
  <2>1. known = 0 /\ step = "next"
    BY DEF Init
  <2> QED
    BY <1>6, <2>1, UntrackedInOrder
<1>8. AnswerInv
  BY <1>6 DEF AnswerInv, Answered, Untracked
<1> QED
  BY <1>1, <1>2, <1>3, <1>4, <1>5, <1>7, <1>8 DEF IInv

LEMMA NextOK == IInv /\ [Next]_vars => IInv'
<1> SUFFICES ASSUME IInv, [Next]_vars
             PROVE  IInv'
  OBVIOUS
<1>1. /\ PollTypes /\ CountTypes /\ OutboxTypes /\ OutcomeTypes
      /\ PollInv /\ CursorInv /\ SavedInv /\ PassInv /\ OnlyTheWindowLoses /\ WindowInv
      /\ CleanStopLeavesNothing /\ MeasureInv /\ AnswerInv
  BY TypeParts DEF IInv
<1>2. CASE Next
  <2>1. PollTypes' /\ CountTypes' /\ OutboxTypes' /\ OutcomeTypes'
    BY <1>1, <1>2, PollTypesStep, CountTypesStep, OutboxTypesStep, OutcomeTypesStep
  <2>2. TypeOK'
    BY <2>1 DEF TypeOK, PollTypes, CountTypes, OutboxTypes, OutcomeTypes
  <2>3. PollInv' /\ CursorInv' /\ SavedInv'
    BY <1>1, <1>2, PollStep, SavedStep
  <2>4. PassInv' /\ CleanStopLeavesNothing'
    BY <1>1, <1>2, PassStep, CleanStopStep
  <2>5. OnlyTheWindowLoses' /\ WindowInv'
    BY <1>1, <1>2, WindowStep
  <2>6. MeasureInv' /\ AnswerInv'
    BY <1>1, <1>2, MeasureStep, AnswerStep
  <2> QED
    BY <2>2, <2>3, <2>4, <2>5, <2>6 DEF IInv
<1>3. CASE UNCHANGED vars
  <2>1. /\ UNCHANGED <<closed, bars, storeUp, outages, proc, cursor, known, saved, todo, cur,
                       step, queue>>
        /\ UNCHANGED <<pass, sink, ready, tracker, rows, restarts, faults, refused, window>>
        /\ UNCHANGED <<unreached, exposed>>
    BY <1>3 DEF vars, market, store, cursors, place, outcomes, history
  <2>2. TypeOK'
    BY <2>1 DEF IInv, TypeOK
  <2>3. PollInv' /\ CursorInv' /\ SavedInv' /\ PassInv'
    BY <1>1, <2>1 DEF PollInv, CursorInv, SavedInv, PassInv, MayFlush, InHand
  <2>4. OnlyTheWindowLoses' /\ WindowInv' /\ CleanStopLeavesNothing'
    BY <1>1, <2>1 DEF OnlyTheWindowLoses, WindowInv, CleanStopLeavesNothing, Undelivered
  <2>5. MeasureInv' /\ AnswerInv'
    BY <1>1, <2>1 DEF MeasureInv, MeasuredInOrder, AnswerInv, Answered
  <2> QED
    BY <2>2, <2>3, <2>4, <2>5 DEF IInv
<1> QED
  BY <1>2, <1>3

\* Every behaviour of the observer keeps the invariant.
THEOREM Invariance == Spec => []IInv
BY InitOK, NextOK, PTL DEF Spec

\* Every variable keeps its type: the horizon's count stays within the horizon, and the
\* cursors within the candles that closed.
THEOREM TypeCorrect == Spec => []TypeOK
<1>1. IInv => TypeOK
  BY DEF IInv
<1> QED
  BY <1>1, Invariance, PTL

\* A detection behind the saved cursor is in the outbox, unless it was between the two
\* writes of one live candle when the process died or the poll raised, or its candle was
\* further back than a start without a cursor reaches (main_observer.py).
THEOREM OnlyTheWindowLosesAlways == Spec => []OnlyTheWindowLoses
<1>1. IInv => OnlyTheWindowLoses
  BY DEF IInv
<1> QED
  BY <1>1, Invariance, PTL

\* A stop during which no delivery failed leaves nothing queued (outbox_worker.py).
THEOREM StopsClean == Spec => []CleanStopLeavesNothing
<1>1. IInv => CleanStopLeavesNothing
  BY DEF IInv
<1> QED
  BY <1>1, Invariance, PTL

\* A complete horizon counts its candles, without a gap wider than the tolerance between
\* them (outcome_tracker.py).
THEOREM CompleteHasNoGap == Spec => []CompleteIsContiguous
<1>1. IInv => CompleteIsContiguous
  <2> SUFFICES ASSUME IInv, NEW d \in Detection, rows[d].bars = "complete"
               PROVE  /\ Cardinality(rows[d].measured) = Horizon
                      /\ \A c \in rows[d].measured :
                             \/ c = Min(rows[d].measured)
                             \/ \E b \in rows[d].measured : b < c /\ c <= b + 1 + Tolerance
    BY DEF CompleteIsContiguous
  <2>1. MeasuredInOrder(rows[d]) /\ rows[d] \in Evaluation(Candle)
    BY TypeParts DEF IInv, MeasureInv, OutcomeTypes
  <2>2. rows[d].measured \subseteq Nat
    BY <2>1, EvaluationParts
  <2>3. \A c \in rows[d].measured :
            (\A b \in rows[d].measured : c <= b) => c = Min(rows[d].measured)
    BY <2>2, MinIsUnique
  <2> QED
    BY <2>1, <2>3 DEF MeasuredInOrder
<1> QED
  BY <1>1, Invariance, PTL

\* The answer of a horizon is not taken back, by a restart that replays the detection or
\* by anything else, unless it was there when the observer started without a cursor and its
\* row was not written since.
THEOREM AnswersStay == Spec => OutcomeIsFrozen
<1> DEFINE Frozen == \A d \in Detection \ exposed :
                         /\ rows[d].bars # "pending" => rows'[d].bars = rows[d].bars
                         /\ rows[d].cross # "pending" => rows'[d].cross = rows[d].cross
<1>1. IInv /\ [Next]_vars => [Frozen]_rows
  <2> SUFFICES ASSUME IInv, [Next]_vars
               PROVE  [Frozen]_rows
    OBVIOUS
  <2>1. CASE Next
    BY <2>1, TypeParts, AnswerStep DEF IInv, Extends
  <2>2. CASE UNCHANGED vars
    BY <2>2 DEF vars, outcomes
  <2> QED
    BY <2>1, <2>2
<1> HIDE DEF Frozen
<1>2. Spec => [][Frozen]_rows
  BY <1>1, Invariance, PTL DEF Spec
<1> QED
  BY <1>2 DEF OutcomeIsFrozen, Frozen

(***************************************************************************)
(* The outbox as AtLeastOnce.                                              *)
(***************************************************************************)

Accepted == {d \in Detection : queue[d] # "none"}

LEMMA OutboxStep ==
    ASSUME OutboxTypes, PassInv, Next
    PROVE  Outbox!Next \/ UNCHANGED <<Accepted, Undelivered, sink>>
<1> USE DEF Accepted, Undelivered
<1>1. CASE Drain
  <2>1. CASE Deliver
    <3>1. InHand \in Undelivered /\ InHand \in Detection
      BY <2>1, InHandIsHeld DEF Deliver
    <3>2. Outbox!Transmit(InHand)
      BY <2>1, <3>1 DEF Deliver, Outbox!Transmit
    <3> QED
      BY <3>1, <3>2 DEF Outbox!Next
  <2>2. CASE DeliverFails
    <3>1. InHand \in Undelivered /\ InHand \in Detection
      BY <2>2, InHandIsHeld DEF DeliverFails
    <3>2. CASE sink' = sink
      BY <2>2, <3>2 DEF DeliverFails, AfterFailure
    <3>3. CASE sink' = sink \cup {InHand}
      <4>1. Outbox!Transmit(InHand)
        BY <2>2, <3>1, <3>3 DEF DeliverFails, AfterFailure, Outbox!Transmit
      <4> QED
        BY <3>1, <4>1 DEF Outbox!Next
    <3> QED
      BY <2>2, <3>2, <3>3 DEF DeliverFails
  <2>3. CASE MarkDelivered
    <3>1. pass.ids # {} /\ queue[InHand] = "pending" /\ InHand \in sink
      BY <2>3 DEF MarkDelivered, PassInv
    <3>2. InHand \in Detection
      BY <3>1, InHandIsHeld
    <3>3. queue' = [queue EXCEPT ![InHand] = "delivered"] /\ sink' = sink
      BY <2>3 DEF MarkDelivered
    <3>4. Undelivered' = Undelivered \ {InHand} /\ Accepted' = Accepted
      BY <3>1, <3>2, <3>3 DEF OutboxTypes
    <3>5. Outbox!LetGo(InHand)
      BY <3>1, <3>2, <3>3, <3>4 DEF Outbox!LetGo
    <3> QED
      <4>1. \E i \in Detection : Outbox!LetGo(i)
        BY <3>2, <3>5 DEF Outbox!LetGo
      <4> QED
        BY <4>1 DEF Outbox!Next
  <2>4. CASE ~Deliver /\ ~DeliverFails /\ ~MarkDelivered
    BY <1>1, <2>4 DEF Drain, BeginPass, EnsureFindsDelivered, WorkerSeesStop, EndPass
  <2> QED
    BY <2>1, <2>2, <2>3, <2>4
<1>2. CASE Queue
  <2>1. \A d \in Detection :
            queue'[d] = IF d \in FoundOn(cur) /\ queue[d] = "none" THEN "pending" ELSE queue[d]
    BY <1>2 DEF Queue
  <2>2. /\ Accepted' = Accepted \cup FoundOn(cur)
        /\ Undelivered' = Undelivered \cup (FoundOn(cur) \ Accepted)
    BY <2>1 DEF FoundOn
  <2>3. Outbox!Accept(FoundOn(cur)) /\ FoundOn(cur) \in SUBSET Detection
    BY <1>2, <2>2 DEF Queue, FoundOn, Outbox!Accept
  <2> QED
    <3>1. \E items \in SUBSET Detection : Outbox!Accept(items)
      BY <2>3 DEF Outbox!Accept
    <3> QED
      BY <3>1 DEF Outbox!Next
<1>3. CASE ~Drain /\ ~Queue
  <2>1. UNCHANGED <<queue, sink>>
    <3>1. CASE Loop
      BY <1>3, <3>1 DEF Loop, Boot, EndBackfill, StartBackfill, Parked, BackfillCandle, Analyse,
         Poll, Save, EndEnsure, BeginEnsure, Advance, QuietCandle, Track, Close
    <3>2. CASE CandleCloses \/ StoreFails \/ StoreReturns \/ Park \/ Stop
      BY <3>2 DEF CandleCloses, StoreFails, StoreReturns, Park, Stop
    <3>3. CASE SaveRaises \/ QueueRaises \/ Crash
      BY <3>3 DEF SaveRaises, QueueRaises, Crash
    <3> QED
      BY <1>3, <3>1, <3>2, <3>3 DEF Next
  <2> QED
    BY <2>1
<1> QED
  BY <1>1, <1>2, <1>3

\* The outbox implements a queue that never drops and lets go only of what arrived,
\* whatever crashed between a write and its mark (outbox_worker.py).
THEOREM OutboxImplements == Spec => NeverDrops
<1>1. Init => Outbox!Init
  BY DEF Init, Outbox!Init, Undelivered
<1>2. IInv /\ [Next]_vars => [Outbox!Next]_<<Accepted, Undelivered, sink>>
  <2> SUFFICES ASSUME IInv, [Next]_vars
               PROVE  [Outbox!Next]_<<Accepted, Undelivered, sink>>
    OBVIOUS
  <2>1. CASE Next
    BY <2>1, OutboxStep, TypeParts DEF IInv
  <2>2. CASE UNCHANGED vars
    BY <2>2 DEF vars, Accepted, Undelivered
  <2> QED
    BY <2>1, <2>2
<1> QED
  BY <1>1, <1>2, Invariance, PTL DEF Spec, NeverDrops, Outbox!Spec, Accepted
=============================================================================
