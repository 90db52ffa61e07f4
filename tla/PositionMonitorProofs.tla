------------------------ MODULE PositionMonitorProofs ------------------------
(***************************************************************************)
(* Theorems about PositionMonitor, for every set of positions, every size, *)
(* window and clock and any number of faults: a CLOSED trade's position is *)
(* gone, no exit is counted twice, and progress is kept.  They rest on the *)
(* deals' own order in time and on what a poll, whose reads are of         *)
(* different moments, may still believe when it writes.                    *)
(***************************************************************************)
EXTENDS PositionMonitor, TLAPS

\* The deals of one position up to now: in order of time, no more out than in,
\* and what has once left whole stays away.
Book(in, out, now) ==
    /\ \A t, u \in Instant : t <= u => in[t] <= in[u] /\ out[t] <= out[u]
    /\ \A t \in Instant : t >= now => in[t] = in[now] /\ out[t] = out[now]
    /\ \A t \in Instant : out[t] <= in[t]
    /\ \A t, u \in Instant : t <= u /\ in[t] > 0 /\ out[t] = in[t] => out[u] = in[u]

BooksAreKept == \A p \in Position : Book(entered[p], left[p], clock)

Gone(p) == entered[p][clock] > 0 /\ left[p][clock] = entered[p][clock]

\* A row is of a position that was there.
RowsAreReal ==
    \A p \in Position :
        IF trades[p].status = "ABSENT" THEN trades[p] = NoTrade
        ELSE trades[p].volume > 0 /\ entered[p][clock] > 0

\* The poll's deals are deals, its moment is past and its window begins before it.
DealsAreReal ==
    /\ lastSync # None => lastSync <= clock
    /\ poll.phase # "idle" => poll.moment <= clock /\ (lastSync # None => lastSync <= poll.moment)
    /\ \A p \in Position : poll.gone[p] <= left[p][clock] /\ poll.opened[p] <= entered[p][clock]
    /\ poll.phase \in {"idle", "orders", "deals"} => poll.gone = Nothing /\ poll.opened = Nothing

\* Nothing of p had been dealt when the poll began.
Newcomer(p) == \A t \in Instant : t < poll.moment => entered[p][t] = 0

\* A position the poll has not seen is gone, or came after: then the poll itself
\* wrote its row, of the window's entries, and the window that has them all
\* leave shows a position that is gone.
UnseenIsGone ==
    poll.phase # "idle" =>
        \A p \in Position :
            IF poll.live[p] > 0 THEN entered[p][clock] > 0
            ELSE \/ Gone(p)
                 \/ /\ Newcomer(p)
                    /\ trades[p].status # "ABSENT" => trades[p].volume = poll.opened[p]
                    /\ poll.opened[p] > 0 => poll.gone[p] < poll.opened[p]

\* What a loop has still to do is what it listed.
ListsHold ==
    /\ poll.phase = "import" => \A p \in poll.todo : poll.live[p] > 0
    /\ poll.phase \in {"close", "partial"} => poll.todo \subseteq OpenTrades

IInv ==
    /\ TypeOK /\ BooksAreKept /\ RowsAreReal /\ DealsAreReal /\ UnseenIsGone /\ ListsHold
    /\ ClosedIsGone /\ NoExitCountedTwice

-----------------------------------------------------------------------------
(* The deals of a position.                                                  *)

\* What the types say of one position's deals.
LEMMA Deals ==
    ASSUME TypeOK, NEW p \in Position
    PROVE  /\ entered[p] \in [Instant -> Volume] /\ left[p] \in [Instant -> Volume]
           /\ clock \in Instant /\ clock \in Int
           /\ entered[p][clock] \in Volume /\ left[p][clock] \in Volume
BY MonitorAssumption DEF TypeOK, Instant

\* An entry into a position that has not opened, or has not left, keeps its book.
LEMMA EntryKeeps ==
    ASSUME NEW in \in [Instant -> Volume], NEW out \in [Instant -> Volume], clock \in Instant,
           Book(in, out, clock), NEW v \in 1..(Size - in[clock]),
           in[clock] = 0 \/ in[clock] > out[clock]
    PROVE  /\ Deal(in, v) \in [Instant -> Volume]
           /\ Book(Deal(in, v), out, clock)
<1> USE MonitorAssumption
<1>1. \A t \in Instant : /\ in[t] \in 0..Size /\ out[t] \in 0..Size
                         /\ Deal(in, v)[t] = IF t >= clock THEN in[t] + v ELSE in[t]
  BY DEF Deal, Volume
<1>2. Deal(in, v) \in [Instant -> Volume]
  <2>1. \A t \in Instant : (IF t >= clock THEN in[t] + v ELSE in[t]) \in 0..Size
    BY <1>1 DEF Book, Instant
  <2> QED BY <2>1 DEF Deal, Volume
<1>3. \A t, u \in Instant : t <= u => Deal(in, v)[t] <= Deal(in, v)[u] /\ out[t] <= out[u]
  BY <1>1 DEF Book, Instant
<1>4. \A t \in Instant : t >= clock => Deal(in, v)[t] = Deal(in, v)[clock] /\ out[t] = out[clock]
  BY <1>1 DEF Book, Instant
<1>5. \A t \in Instant : out[t] <= Deal(in, v)[t]
  BY <1>1 DEF Book, Instant
<1>6. \A t, u \in Instant : t <= u /\ Deal(in, v)[t] > 0 /\ out[t] = Deal(in, v)[t]
                                => out[u] = Deal(in, v)[u]
  <2> SUFFICES ASSUME NEW t \in Instant, Deal(in, v)[t] > 0, out[t] = Deal(in, v)[t]
               PROVE  FALSE
    OBVIOUS
  <2>1. CASE t >= clock
    BY <1>1, <2>1 DEF Book, Instant
  <2>2. CASE ~(t >= clock)
    BY <1>1, <2>2 DEF Book, Instant
  <2> QED BY <2>1, <2>2
<1> QED BY <1>2, <1>3, <1>4, <1>5, <1>6 DEF Book

\* And an exit of no more than is there.
LEMMA ExitKeeps ==
    ASSUME NEW in \in [Instant -> Volume], NEW out \in [Instant -> Volume], clock \in Instant,
           Book(in, out, clock), NEW v \in 1..(in[clock] - out[clock])
    PROVE  /\ Deal(out, v) \in [Instant -> Volume]
           /\ Book(in, Deal(out, v), clock)
<1> USE MonitorAssumption
<1>1. \A t \in Instant : /\ in[t] \in 0..Size /\ out[t] \in 0..Size
                         /\ Deal(out, v)[t] = IF t >= clock THEN out[t] + v ELSE out[t]
  BY DEF Deal, Volume
<1>2. Deal(out, v) \in [Instant -> Volume]
  <2>1. \A t \in Instant : (IF t >= clock THEN out[t] + v ELSE out[t]) \in 0..Size
    BY <1>1 DEF Book, Instant
  <2> QED BY <2>1 DEF Deal, Volume
<1>3. \A t, u \in Instant : t <= u => in[t] <= in[u] /\ Deal(out, v)[t] <= Deal(out, v)[u]
  BY <1>1 DEF Book, Instant
<1>4. \A t \in Instant : t >= clock => in[t] = in[clock] /\ Deal(out, v)[t] = Deal(out, v)[clock]
  BY <1>1 DEF Book, Instant
<1>5. \A t \in Instant : Deal(out, v)[t] <= in[t]
  BY <1>1 DEF Book, Instant
<1>6. \A t, u \in Instant : t <= u /\ in[t] > 0 /\ Deal(out, v)[t] = in[t]
                                => Deal(out, v)[u] = in[u]
  <2> SUFFICES ASSUME NEW t \in Instant, NEW u \in Instant, t <= u, in[t] > 0,
                      Deal(out, v)[t] = in[t]
               PROVE  Deal(out, v)[u] = in[u]
    OBVIOUS
  <2>1. CASE t >= clock
    BY <1>1, <2>1 DEF Book, Instant
  <2>2. CASE ~(t >= clock)
    BY <1>1, <2>2 DEF Book, Instant
  <2> QED BY <2>1, <2>2
<1> QED BY <1>2, <1>3, <1>4, <1>5, <1>6 DEF Book

\* Time passing changes nothing in it.
LEMMA TimeKeeps ==
    ASSUME NEW in \in [Instant -> Volume], NEW out \in [Instant -> Volume],
           clock \in Instant, clock + 1 \in Instant, Book(in, out, clock)
    PROVE  /\ Book(in, out, clock + 1)
           /\ in[clock + 1] = in[clock] /\ out[clock + 1] = out[clock]
<1>1. in[clock + 1] = in[clock] /\ out[clock + 1] = out[clock]
  BY MonitorAssumption DEF Book, Instant
<1>2. \A t \in Instant : t >= clock + 1 => t >= clock
  BY MonitorAssumption DEF Instant
<1> QED BY <1>1, <1>2 DEF Book
-----------------------------------------------------------------------------
(* The broker.                                                               *)

\* What the broker does goes on from what it has done.
Onward ==
    /\ clock <= clock'
    /\ \A p \in Position :
          /\ entered[p][clock] <= entered'[p][clock'] /\ left[p][clock] <= left'[p][clock']
          /\ Gone(p) => Gone(p)'
          /\ \A t \in Instant : t < clock => entered'[p][t] = entered[p][t]

BrokerTypes ==
    /\ clock \in Instant /\ orders \in SUBSET Pending
    /\ entered \in [Position -> [Instant -> Volume]]
    /\ left \in [Position -> [Instant -> Volume]]

\* A deal changes the book of its own position, as of now.
LEMMA EntersOnward ==
    ASSUME TypeOK, BooksAreKept, NEW p \in Position, Enters(p)
    PROVE  BrokerTypes' /\ BooksAreKept' /\ Onward
<1>1. PICK v \in 1..(Size - entered[p][clock]) :
          /\ entered' = [entered EXCEPT ![p] = Deal(entered[p], v)]
          /\ orders' = IF entered[p][clock] + v = Size THEN orders \ {p} ELSE orders
  BY DEF Enters
<1>2. clock' = clock /\ left' = left
  BY DEF Enters
<1>3. entered[p][clock] = 0 \/ entered[p][clock] > left[p][clock]
  BY Deals, MonitorAssumption DEF Enters, Live, Volume
<1>4. Book(entered[p], left[p], clock)
  BY DEF BooksAreKept
<1>5. /\ Deal(entered[p], v) \in [Instant -> Volume]
      /\ Book(Deal(entered[p], v), left[p], clock)
  BY <1>3, <1>4, Deals, EntryKeeps
<1>6. entered'[p] = Deal(entered[p], v) /\ \A q \in Position \ {p} : entered'[q] = entered[q]
  BY <1>1 DEF TypeOK
<1>7. BrokerTypes'
  BY <1>1, <1>2, <1>5 DEF BrokerTypes, TypeOK
<1>8. BooksAreKept'
  BY <1>2, <1>5, <1>6 DEF BooksAreKept
<1>9. Onward
  <2>1. clock <= clock'
    BY <1>2 DEF TypeOK, Instant
  <2> SUFFICES ASSUME NEW q \in Position
               PROVE  /\ entered[q][clock] <= entered'[q][clock'] /\ left[q][clock] <= left'[q][clock']
                      /\ Gone(q) => Gone(q)'
                      /\ \A t \in Instant : t < clock => entered'[q][t] = entered[q][t]
    BY <2>1 DEF Onward
  <2>2. CASE q # p
    BY <1>2, <1>6, <2>2, Deals, MonitorAssumption DEF Gone, Volume
  <2>3. CASE q = p
    <3>1. \A t \in Instant : entered'[p][t] = IF t >= clock THEN entered[p][t] + v ELSE entered[p][t]
      BY <1>6 DEF Deal
    <3>2. ~Gone(p)
      BY <1>3, Deals, MonitorAssumption DEF Gone, Volume
    <3> QED BY <1>2, <2>3, <3>1, <3>2, Deals, MonitorAssumption DEF Instant, Volume
  <2> QED BY <2>2, <2>3
<1> QED BY <1>7, <1>8, <1>9

LEMMA LeavesOnward ==
    ASSUME TypeOK, BooksAreKept, NEW p \in Position, Leaves(p)
    PROVE  BrokerTypes' /\ BooksAreKept' /\ Onward
<1>1. PICK v \in 1..(entered[p][clock] - left[p][clock]) :
          left' = [left EXCEPT ![p] = Deal(left[p], v)]
  BY DEF Leaves, Live
<1>2. clock' = clock /\ entered' = entered /\ orders' = orders
  BY DEF Leaves
<1>4. Book(entered[p], left[p], clock)
  BY DEF BooksAreKept
<1>5. /\ Deal(left[p], v) \in [Instant -> Volume]
      /\ Book(entered[p], Deal(left[p], v), clock)
  BY <1>4, Deals, ExitKeeps
<1>6. left'[p] = Deal(left[p], v) /\ \A q \in Position \ {p} : left'[q] = left[q]
  BY <1>1 DEF TypeOK
<1>7. BrokerTypes'
  BY <1>1, <1>2, <1>5 DEF BrokerTypes, TypeOK
<1>8. BooksAreKept'
  BY <1>2, <1>5, <1>6 DEF BooksAreKept
<1>9. Onward
  <2>1. clock <= clock'
    BY <1>2 DEF TypeOK, Instant
  <2> SUFFICES ASSUME NEW q \in Position
               PROVE  /\ entered[q][clock] <= entered'[q][clock'] /\ left[q][clock] <= left'[q][clock']
                      /\ Gone(q) => Gone(q)'
                      /\ \A t \in Instant : t < clock => entered'[q][t] = entered[q][t]
    BY <2>1 DEF Onward
  <2>2. CASE q # p
    BY <1>2, <1>6, <2>2, Deals, MonitorAssumption DEF Gone, Volume
  <2>3. CASE q = p
    <3>1. left'[p][clock] = left[p][clock] + v
      BY <1>6, Deals DEF Deal, Instant
    <3>2. ~Gone(p)
      BY <1>1, Deals, MonitorAssumption DEF Gone, Volume
    <3> QED BY <1>2, <2>3, <3>1, <3>2, Deals, MonitorAssumption DEF Volume
  <2> QED BY <2>2, <2>3
<1> QED BY <1>7, <1>8, <1>9

LEMMA OrderLeavesOnward ==
    ASSUME TypeOK, BooksAreKept, NEW p \in Position, OrderLeaves(p)
    PROVE  BrokerTypes' /\ BooksAreKept' /\ Onward
<1>1. clock' = clock /\ entered' = entered /\ left' = left /\ orders' \in SUBSET Pending
  BY DEF OrderLeaves, TypeOK
<1>2. BrokerTypes' /\ BooksAreKept'
  BY <1>1 DEF BrokerTypes, BooksAreKept, TypeOK
<1>3. clock <= clock'
  BY <1>1 DEF TypeOK, Instant
<1>4. Onward
  BY <1>1, <1>3, Deals, MonitorAssumption DEF Onward, Gone, Volume
<1> QED BY <1>2, <1>4

LEMMA TickOnward ==
    ASSUME TypeOK, BooksAreKept, Tick
    PROVE  BrokerTypes' /\ BooksAreKept' /\ Onward
<1>1. /\ clock' = clock + 1 /\ clock + 1 \in Instant /\ clock <= clock'
      /\ entered' = entered /\ left' = left /\ orders' = orders
  BY MonitorAssumption DEF Tick, TypeOK, Instant
<1>2. \A p \in Position : /\ Book(entered[p], left[p], clock + 1)
                          /\ entered[p][clock + 1] = entered[p][clock]
                          /\ left[p][clock + 1] = left[p][clock]
  BY <1>1, TimeKeeps, Deals DEF BooksAreKept
<1>3. BrokerTypes' /\ BooksAreKept'
  BY <1>1, <1>2 DEF BrokerTypes, BooksAreKept, TypeOK
<1>4. Onward
  BY <1>1, <1>2, Deals, MonitorAssumption DEF Onward, Gone, Volume
<1> QED BY <1>3, <1>4

\* The monitor's part of the invariant survives whatever goes on from there.
LEMMA OnwardKeeps ==
    ASSUME IInv, BrokerTypes', BooksAreKept', Onward,
           UNCHANGED <<requests, trades, poll, lastSync, faults>>
    PROVE  IInv'
<1>1. TypeOK'
  BY DEF IInv, TypeOK, BrokerTypes
<1>2. \A p \in Position :
          /\ entered[p][clock] \in Int /\ left[p][clock] \in Int
          /\ entered'[p][clock'] \in Int /\ left'[p][clock'] \in Int
          /\ poll.gone[p] \in Int /\ poll.opened[p] \in Int
          /\ trades[p].closed \in Int
  <2> TAKE p \in Position
  <2>1. poll.gone[p] \in Volume /\ poll.opened[p] \in Volume /\ trades[p].closed \in Volume
    BY DEF IInv, TypeOK, Poll, Row
  <2>2. entered'[p][clock'] \in Volume /\ left'[p][clock'] \in Volume
    BY DEF BrokerTypes
  <2> QED BY <2>1, <2>2, Deals, MonitorAssumption DEF IInv, Volume
<1>3. RowsAreReal'
  BY <1>2 DEF IInv, RowsAreReal, Onward
<1>4. DealsAreReal'
  <2>1. clock \in Int /\ clock' \in Int /\ clock <= clock'
    BY <1>1 DEF IInv, TypeOK, Instant, Onward
  <2>2. (lastSync # None => lastSync \in Int) /\ poll.moment \in Int
    BY DEF IInv, TypeOK, Instant, Poll
  <2> QED BY <1>2, <2>1, <2>2 DEF IInv, DealsAreReal, Onward
<1>5. UnseenIsGone'
  <2> SUFFICES ASSUME poll.phase # "idle", NEW p \in Position
               PROVE  IF poll.live[p] > 0 THEN entered'[p][clock'] > 0
                      ELSE \/ Gone(p)'
                           \/ /\ Newcomer(p)'
                              /\ trades[p].status # "ABSENT" => trades[p].volume = poll.opened[p]
                              /\ poll.opened[p] > 0 => poll.gone[p] < poll.opened[p]
    BY DEF UnseenIsGone
  <2>1. Newcomer(p) => Newcomer(p)'
    <3>1. \A t \in Instant : t < poll.moment => t < clock
      BY DEF IInv, DealsAreReal, TypeOK, Poll, Instant
    <3> QED BY <3>1 DEF Newcomer, Onward
  <2> QED BY <1>2, <2>1 DEF IInv, UnseenIsGone, Onward
<1>6. ListsHold'
  BY DEF IInv, ListsHold, OpenTrades
<1>7. ClosedIsGone' /\ NoExitCountedTwice'
  <2>1. \A p \in Position : trades[p].status = "CLOSED" => Gone(p)
    BY <1>2 DEF IInv, ClosedIsGone, Gone, Live
  <2>2. \A p \in Position : trades[p].status = "CLOSED" => Gone(p)'
    BY <2>1 DEF Onward
  <2>3. ClosedIsGone'
    BY <1>2, <2>2 DEF ClosedIsGone, Gone, Live
  <2> QED BY <1>2, <2>3 DEF IInv, NoExitCountedTwice, Onward
<1> QED BY <1>1, <1>3, <1>4, <1>5, <1>6, <1>7 DEF IInv

LEMMA BrokerKeeps ==
    ASSUME IInv, (\E p \in Position : Broker(p)) \/ Tick
    PROVE  IInv'
<1>1. BrokerTypes' /\ BooksAreKept' /\ Onward
  BY EntersOnward, LeavesOnward, OrderLeavesOnward, TickOnward DEF Broker, IInv
<1>2. UNCHANGED <<requests, trades, poll, lastSync, faults>>
  BY DEF Broker, Enters, Leaves, OrderLeaves, Tick
<1> QED BY <1>1, <1>2, OnwardKeeps
-----------------------------------------------------------------------------
(* The reads.                                                                *)

\* What a step leaves that only looks, or only turns a page.
LEMMA SameBroker ==
    ASSUME IInv, UNCHANGED <<broker, requests, trades>>
    PROVE  BooksAreKept' /\ RowsAreReal' /\ ClosedIsGone' /\ NoExitCountedTwice'
BY DEF IInv, BooksAreKept, RowsAreReal, ClosedIsGone, NoExitCountedTwice, broker, Live

LEMMA ReadPositionsKeeps == IInv /\ ReadPositions => IInv'
<1> SUFFICES ASSUME IInv, ReadPositions
             PROVE  IInv'
  OBVIOUS
<1>1. UNCHANGED <<broker, requests, trades, lastSync, faults>>
  BY DEF ReadPositions
<1>2. poll' = [poll EXCEPT !.phase = "orders", !.moment = clock,
                           !.live = [p \in Position |-> Live(p)]]
  BY DEF ReadPositions
<1>3. \A p \in Position : Live(p) \in Volume
  <2> TAKE p \in Position
  <2>1. left[p][clock] <= entered[p][clock]
    BY Deals DEF IInv, BooksAreKept, Book
  <2> QED BY <2>1, Deals, MonitorAssumption DEF IInv, Live, Volume
<1>4. TypeOK'
  <2>1. poll' \in Poll
    BY <1>2, <1>3 DEF IInv, TypeOK, Poll, Phase
  <2> QED BY <1>1, <2>1 DEF IInv, TypeOK, broker
<1>5. /\ poll'.phase = "orders" /\ poll'.moment = clock
      /\ poll'.live = [p \in Position |-> Live(p)]
      /\ poll'.opened = poll.opened /\ poll'.gone = poll.gone
  BY <1>2 DEF IInv, TypeOK, Poll
<1>6. DealsAreReal'
  BY <1>1, <1>5, <1>4 DEF IInv, DealsAreReal, ReadPositions, broker, TypeOK, Instant
<1>7. UnseenIsGone'
  <2> SUFFICES ASSUME NEW p \in Position
               PROVE  IF Live(p) > 0 THEN entered[p][clock] > 0
                      ELSE \/ Gone(p)
                           \/ /\ \A t \in Instant : t < clock => entered[p][t] = 0
                              /\ trades[p].status # "ABSENT" => trades[p].volume = poll.opened[p]
                              /\ poll.opened[p] > 0 => poll.gone[p] < poll.opened[p]
    BY <1>1, <1>5 DEF UnseenIsGone, Newcomer, Gone, broker
  <2>1. entered[p][clock] \in 0..Size /\ left[p][clock] \in 0..Size /\ clock \in Instant
    BY Deals DEF IInv, Volume
  <2>2. CASE entered[p][clock] = 0
    <3>1. \A t \in Instant : t < clock => entered[p][t] = 0
      <4> TAKE t \in Instant
      <4>1. t < clock => entered[p][t] <= entered[p][clock]
        BY <2>1, MonitorAssumption DEF IInv, BooksAreKept, Book, Instant
      <4>2. entered[p][t] \in 0..Size
        BY Deals DEF IInv, Volume
      <4> QED BY <2>2, <4>1, <4>2, MonitorAssumption
    <3>2. trades[p].status = "ABSENT"
      BY <2>2 DEF IInv, RowsAreReal
    <3>3. poll.opened[p] = 0
      BY DEF IInv, DealsAreReal, ReadPositions, Nothing
    <3>4. ~(Live(p) > 0)
      BY <2>1, <2>2, MonitorAssumption DEF Live
    <3> QED BY <3>1, <3>2, <3>3, <3>4
  <2>3. CASE entered[p][clock] > 0
    BY <1>3, <2>1, <2>3, MonitorAssumption DEF Live, Gone, Volume
  <2> QED BY <2>1, <2>2, <2>3, MonitorAssumption
<1>8. ListsHold'
  BY <1>5 DEF ListsHold
<1> QED BY <1>1, <1>4, <1>6, <1>7, <1>8, SameBroker DEF IInv

LEMMA ReadOrdersKeeps == IInv /\ ReadOrders => IInv'
<1> SUFFICES ASSUME IInv, ReadOrders
             PROVE  IInv'
  OBVIOUS
<1>1. UNCHANGED <<broker, requests, trades, lastSync, faults>>
  BY DEF ReadOrders
<1>2. poll' = [poll EXCEPT !.phase = "deals", !.resting = orders] /\ poll.phase = "orders"
  BY DEF ReadOrders
<1>3. TypeOK'
  <2>1. poll' \in Poll
    BY <1>2, MonitorAssumption DEF IInv, TypeOK, Poll, Phase
  <2> QED BY <1>1, <2>1 DEF IInv, TypeOK, broker
<1>4. /\ poll'.phase = "deals" /\ poll'.moment = poll.moment /\ poll'.live = poll.live
      /\ poll'.opened = poll.opened /\ poll'.gone = poll.gone
  BY <1>2 DEF IInv, TypeOK, Poll
<1>5. DealsAreReal'
  BY <1>1, <1>2, <1>4 DEF IInv, DealsAreReal, broker
<1>6. UnseenIsGone'
  BY <1>1, <1>2, <1>4 DEF IInv, UnseenIsGone, Newcomer, Gone, broker
<1>7. ListsHold'
  BY <1>4 DEF ListsHold
<1> QED BY <1>1, <1>3, <1>5, <1>6, <1>7, SameBroker DEF IInv

\* The volume of a window is between nothing and all there is; a window that begins
\* before the first deal has all of them up to its end.
LEMMA WindowIsPart ==
    ASSUME IInv, poll.phase = "deals",
           NEW h \in [Instant -> Volume],
           \A t, u \in Instant : t <= u => h[t] <= h[u]
    PROVE  /\ InWindow(h) \in Volume /\ InWindow(h) <= h[clock]
           /\ InWindow(h) <= By(h, WindowEnd) /\ By(h, WindowEnd) \in Volume
           /\ (\A t \in Instant : t < poll.moment => h[t] = 0) => InWindow(h) = By(h, WindowEnd)
<1> USE MonitorAssumption
<1>1. /\ clock \in Instant /\ poll.moment \in Instant /\ poll.moment <= clock
      /\ lastSync # None => lastSync \in Instant /\ lastSync <= poll.moment
  BY DEF IInv, TypeOK, DealsAreReal, Poll
<1>2. WindowStart \in Int /\ WindowStart <= poll.moment /\ WindowEnd \in Int /\ poll.moment <= WindowEnd
  BY <1>1 DEF WindowStart, WindowEnd, Instant
<1> DEFINE from == WindowStart - 1
<1>3. from \in Int /\ from < poll.moment /\ from < WindowEnd
  BY <1>2, <1>1 DEF Instant
<1> HIDE DEF from
<1>4. \A t \in Int : By(h, t) \in 0..Size /\ By(h, t) <= h[clock]
  <2> TAKE t \in Int
  <2>1. h[clock] \in 0..Size
    BY <1>1 DEF Volume
  <2>2. t \in 0..(clock - 1) => t \in Instant /\ h[t] \in 0..Size /\ h[t] <= h[clock]
    BY <1>1 DEF Volume, Instant
  <2> QED BY <1>1, <2>1, <2>2 DEF By, Instant
<1>5. By(h, from) <= By(h, WindowEnd)
  <2>1. CASE from < 0
    BY <2>1, <1>2, <1>4 DEF By
  <2>2. CASE ~(from < 0) /\ WindowEnd < clock
    <3>1. from \in Instant /\ WindowEnd \in Instant
      BY <2>2, <1>1, <1>2, <1>3 DEF Instant
    <3>2. h[from] <= h[WindowEnd]
      BY <3>1, <1>3 DEF Instant
    <3> QED BY <2>2, <3>1, <3>2, <1>1, <1>3 DEF By, Instant
  <2>3. CASE ~(from < 0) /\ ~(WindowEnd < clock)
    <3>1. By(h, WindowEnd) = h[clock]
      BY <2>3, <1>1, <1>2, <1>3 DEF By, Instant
    <3> QED BY <3>1, <1>3, <1>4
  <2> QED BY <2>1, <2>2, <2>3
<1>6. (\A t \in Instant : t < poll.moment => h[t] = 0) => By(h, from) = 0
  <2>1. from < clock /\ (~(from < 0) => from \in Instant)
    BY <1>1, <1>3 DEF Instant
  <2> QED BY <2>1, <1>3 DEF By
<1>7. InWindow(h) = By(h, WindowEnd) - By(h, from)
  BY DEF InWindow, from
<1>8. /\ By(h, WindowEnd) \in 0..Size /\ By(h, from) \in 0..Size
      /\ By(h, WindowEnd) <= h[clock] /\ h[clock] \in 0..Size
  BY <1>1, <1>2, <1>3, <1>4 DEF Volume
<1> QED BY <1>5, <1>6, <1>7, <1>8 DEF Volume
\* A window in which everything that came has left shows a position that is gone.
LEMMA AllOutIsGone ==
    ASSUME IInv, poll.phase = "deals", NEW p \in Position, Newcomer(p),
           InWindow(entered[p]) > 0, InWindow(left[p]) >= InWindow(entered[p])
    PROVE  Gone(p)
<1> USE MonitorAssumption
<1>1. /\ Book(entered[p], left[p], clock) /\ clock \in Instant
      /\ entered[p] \in [Instant -> Volume] /\ left[p] \in [Instant -> Volume]
  BY Deals DEF IInv, BooksAreKept
<1>2. /\ InWindow(entered[p]) = By(entered[p], WindowEnd)
      /\ InWindow(left[p]) <= By(left[p], WindowEnd)
      /\ InWindow(left[p]) \in Volume
      /\ By(entered[p], WindowEnd) \in Volume /\ By(left[p], WindowEnd) \in Volume
  <2>1. /\ \A t, u \in Instant : t <= u => entered[p][t] <= entered[p][u]
        /\ \A t, u \in Instant : t <= u => left[p][t] <= left[p][u]
    BY <1>1 DEF Book
  <2>2. \A t \in Instant : t < poll.moment => entered[p][t] = 0
    BY DEF Newcomer
  <2>3. /\ InWindow(left[p]) \in Volume /\ InWindow(left[p]) <= By(left[p], WindowEnd)
        /\ By(left[p], WindowEnd) \in Volume
    BY <1>1, <2>1, WindowIsPart
  <2>4. By(entered[p], WindowEnd) \in Volume /\ InWindow(entered[p]) = By(entered[p], WindowEnd)
    BY <1>1, <2>1, <2>2, WindowIsPart
  <2> QED BY <2>3, <2>4
<1>3. WindowEnd \in Nat
  BY DEF IInv, TypeOK, Poll, WindowEnd, Instant
<1>4. PICK t \in Instant : /\ t <= clock
                           /\ By(entered[p], WindowEnd) = entered[p][t]
                           /\ By(left[p], WindowEnd) = left[p][t]
  <2>1. CASE WindowEnd < clock
    <3>1. WindowEnd \in Instant
      BY <1>1, <1>3, <2>1 DEF Instant
    <3>2. WindowEnd <= clock /\ ~(WindowEnd < 0)
      BY <1>1, <1>3, <2>1 DEF Instant
    <3>3. By(entered[p], WindowEnd) = entered[p][WindowEnd] /\ By(left[p], WindowEnd) = left[p][WindowEnd]
      BY <2>1, <3>2 DEF By
    <3> QED BY <3>1, <3>2, <3>3
  <2>2. CASE ~(WindowEnd < clock)
    <3>1. By(entered[p], WindowEnd) = entered[p][clock] /\ By(left[p], WindowEnd) = left[p][clock]
      BY <1>3, <2>2 DEF By
    <3>2. clock <= clock
      BY <1>1 DEF Instant
    <3> QED BY <1>1, <3>1, <3>2
  <2> QED BY <2>1, <2>2
<1>5. left[p][t] <= entered[p][t]
  BY <1>1 DEF Book
<1>6. entered[p][t] > 0 /\ left[p][t] = entered[p][t]
  BY <1>2, <1>4, <1>5 DEF Volume
<1>7. left[p][clock] = entered[p][clock] /\ entered[p][t] <= entered[p][clock]
  BY <1>1, <1>4, <1>6 DEF Book
<1> QED BY <1>1, <1>4, <1>6, <1>7 DEF Gone, Volume

LEMMA ReadDealsKeeps == IInv /\ ReadDeals => IInv'
<1> SUFFICES ASSUME IInv, ReadDeals
             PROVE  IInv'
  OBVIOUS
<1> USE MonitorAssumption
<1>1. UNCHANGED <<broker, requests, trades, lastSync>> /\ poll.phase = "deals"
  BY DEF ReadDeals
<1>2. CASE /\ poll' = [poll EXCEPT !.phase = "pending", !.todo = requests,
                         !.opened = [p \in Position |-> InWindow(entered[p])],
                         !.gone = [p \in Position |-> InWindow(left[p])]]
           /\ UNCHANGED faults
  <2>1. \A p \in Position : /\ InWindow(entered[p]) \in Volume /\ InWindow(entered[p]) <= entered[p][clock]
                            /\ InWindow(left[p]) \in Volume /\ InWindow(left[p]) <= left[p][clock]
    <3> TAKE p \in Position
    <3>1. /\ \A t, u \in Instant : t <= u => entered[p][t] <= entered[p][u]
          /\ \A t, u \in Instant : t <= u => left[p][t] <= left[p][u]
      BY DEF IInv, BooksAreKept, Book
    <3>2. entered[p] \in [Instant -> Volume] /\ left[p] \in [Instant -> Volume]
      BY Deals DEF IInv
    <3> QED BY <1>1, <3>1, <3>2, WindowIsPart
  <2>2. TypeOK'
    <3>1. poll' \in Poll
      BY <1>2, <2>1 DEF IInv, TypeOK, Poll, Phase
    <3> QED BY <1>1, <1>2, <3>1 DEF IInv, TypeOK, broker
  <2>3. /\ poll'.phase = "pending" /\ poll'.moment = poll.moment /\ poll'.live = poll.live
        /\ poll'.opened = [p \in Position |-> InWindow(entered[p])]
        /\ poll'.gone = [p \in Position |-> InWindow(left[p])]
    BY <1>2 DEF IInv, TypeOK, Poll
  <2>4. DealsAreReal'
    BY <1>1, <2>1, <2>3 DEF IInv, DealsAreReal, broker
  <2>5. UnseenIsGone'
    <3> SUFFICES ASSUME NEW p \in Position
                 PROVE  IF poll.live[p] > 0 THEN entered[p][clock] > 0
                        ELSE \/ Gone(p)
                             \/ /\ Newcomer(p)
                                /\ trades[p].status # "ABSENT" => trades[p].volume = InWindow(entered[p])
                                /\ InWindow(entered[p]) > 0 => InWindow(left[p]) < InWindow(entered[p])
      BY <1>1, <2>3 DEF UnseenIsGone, Newcomer, Gone, broker
    <3>1. CASE poll.live[p] > 0 \/ Gone(p)
      BY <1>1, <3>1 DEF IInv, UnseenIsGone
    <3>2. CASE ~(poll.live[p] > 0) /\ ~Gone(p)
      <4>1. Newcomer(p) /\ (trades[p].status # "ABSENT" => trades[p].volume = poll.opened[p])
        BY <1>1, <3>2 DEF IInv, UnseenIsGone
      <4>2. poll.opened[p] = 0
        BY <1>1 DEF IInv, DealsAreReal, Nothing
      <4>3. trades[p].status = "ABSENT"
        BY <4>1, <4>2 DEF IInv, RowsAreReal
      <4>4. InWindow(entered[p]) > 0 => InWindow(left[p]) < InWindow(entered[p])
        BY <1>1, <2>1, <3>2, <4>1, AllOutIsGone DEF Volume
      <4> QED BY <3>2, <4>1, <4>3, <4>4
    <3> QED BY <3>1, <3>2
  <2>6. ListsHold'
    BY <2>3 DEF ListsHold
  <2> QED BY <1>1, <2>2, <2>4, <2>5, <2>6, SameBroker DEF IInv
<1>3. CASE /\ faults < MaxFaults /\ faults' = faults + 1
           /\ poll' = [poll EXCEPT !.phase = "pending", !.todo = requests, !.missed = TRUE]
  <2>1. /\ poll'.phase = "pending" /\ poll'.moment = poll.moment /\ poll'.live = poll.live
        /\ poll'.opened = poll.opened /\ poll'.gone = poll.gone
    BY <1>3 DEF IInv, TypeOK, Poll
  <2>2. TypeOK'
    <3>1. poll' \in Poll
      BY <1>3 DEF IInv, TypeOK, Poll, Phase
    <3> QED BY <1>1, <1>3, <3>1 DEF IInv, TypeOK, broker
  <2>3. DealsAreReal'
    BY <1>1, <2>1 DEF IInv, DealsAreReal, broker
  <2>4. UnseenIsGone'
    BY <1>1, <2>1 DEF IInv, UnseenIsGone, Newcomer, Gone, broker
  <2>5. ListsHold'
    BY <2>1 DEF ListsHold
  <2> QED BY <1>1, <2>2, <2>3, <2>4, <2>5, SameBroker DEF IInv
<1> QED BY <1>2, <1>3 DEF ReadDeals
-----------------------------------------------------------------------------
(* The writes: each is about one row, and takes its position off the list.   *)

\* What becomes of the row of p: it stays as it is; it is written, of a position that
\* is there; it gets on with what the window shows; or it is closed.
Created(p, v) ==
    /\ trades[p].status = "ABSENT" /\ v > 0 /\ v \in Volume /\ entered[p][clock] > 0
    /\ poll.live[p] > 0 \/ v = poll.opened[p]
    /\ trades' = [trades EXCEPT ![p] = Opened(v)]

Advanced(p) ==
    /\ trades[p].status \in {"OPEN", "PARTIALLY_CLOSED"} /\ Recorded(p) > trades[p].closed
    /\ trades' = [trades EXCEPT ![p].status = "PARTIALLY_CLOSED", ![p].closed = Recorded(p)]

Shut(p) ==
    /\ trades[p].status \in {"OPEN", "PARTIALLY_CLOSED"}
    /\ ~(poll.live[p] > 0) /\ poll.gone[p] >= trades[p].volume
    /\ trades' = [trades EXCEPT ![p].status = "CLOSED", ![p].closed = Recorded(p)]

Kept == trades' = trades

Writes(p) == Kept \/ (\E v \in Volume : Created(p, v)) \/ Advanced(p) \/ Shut(p)

Frame(p) ==
    /\ poll.phase # "idle" /\ p \in poll.todo /\ Finished(p)
    /\ requests' \in SUBSET requests
    /\ UNCHANGED <<broker, lastSync, faults>>

\* Numbers.
LEMMA Volumes ==
    ASSUME TypeOK, NEW p \in Position
    PROVE  /\ trades[p] \in Row /\ trades[p].volume \in Nat /\ trades[p].closed \in Nat
           /\ trades[p].volume \in Volume /\ trades[p].closed \in Volume
           /\ poll.gone[p] \in Volume /\ poll.gone[p] \in Nat
           /\ poll.opened[p] \in Volume /\ poll.opened[p] \in Nat
           /\ poll.live[p] \in Volume /\ poll.live[p] \in Nat
<1>1. trades[p] \in Row /\ poll.gone[p] \in Volume /\ poll.opened[p] \in Volume /\ poll.live[p] \in Volume
  BY DEF TypeOK, Poll
<1>2. trades[p].volume \in Volume /\ trades[p].closed \in Volume
  BY <1>1 DEF Row
<1> QED BY <1>1, <1>2, MonitorAssumption DEF Volume

LEMMA RecordedBounds ==
    ASSUME TypeOK, NEW p \in Position
    PROVE  /\ Recorded(p) \in Volume /\ Recorded(p) <= trades[p].volume
           /\ Recorded(p) <= poll.gone[p]
           /\ poll.gone[p] >= trades[p].volume => Recorded(p) = trades[p].volume
BY Volumes DEF Recorded

\* The row that a write leaves, and the others.
LEMMA WritesRows ==
    ASSUME IInv, NEW p \in Position, Writes(p)
    PROVE  /\ trades' \in [Position -> Row]
           /\ \A q \in Position \ {p} : trades'[q] = trades[q]
           /\ trades'[p].closed >= trades[p].closed
           /\ trades[p].status = "CLOSED" => trades'[p] = trades[p]
           /\ trades[p].status = "PARTIALLY_CLOSED" => trades'[p].status # "OPEN"
<1> USE MonitorAssumption
<1>1. TypeOK /\ trades \in [Position -> Row]
  BY DEF IInv, TypeOK
<1>2. CASE Kept
  BY <1>1, <1>2, Volumes DEF Kept
<1>3. CASE \E v \in Volume : Created(p, v)
  <2>1. PICK v \in Volume : Created(p, v)
    BY <1>3
  <2>2. Opened(v) \in Row
    BY DEF Opened, Row, Volume
  <2>3. trades'[p] = Opened(v) /\ trades[p] = NoTrade
    BY <1>1, <2>1 DEF Created, IInv, RowsAreReal
  <2> QED BY <1>1, <2>1, <2>2, <2>3 DEF Created, Opened, NoTrade
<1>4. CASE Advanced(p)
  <2>1. [trades[p] EXCEPT !.status = "PARTIALLY_CLOSED", !.closed = Recorded(p)] \in Row
    BY <1>1, Volumes, RecordedBounds DEF Row
  <2> QED BY <1>1, <1>4, <2>1, Volumes, RecordedBounds DEF Advanced, Row, Volume
<1>5. CASE Shut(p)
  <2>1. [trades[p] EXCEPT !.status = "CLOSED", !.closed = Recorded(p)] \in Row
    BY <1>1, Volumes, RecordedBounds DEF Row
  <2>2. trades[p].closed <= trades[p].volume
    BY <1>1, Volumes DEF Row
  <2> QED BY <1>1, <1>5, <2>1, <2>2, Volumes, RecordedBounds DEF Shut, Row, Volume
<1> QED BY <1>2, <1>3, <1>4, <1>5 DEF Writes

LEMMA WritesKeep ==
    ASSUME IInv, NEW p \in Position, Writes(p), Frame(p)
    PROVE  IInv'
<1> USE MonitorAssumption
<1>0. TypeOK
  BY DEF IInv
<1>1. /\ UNCHANGED <<broker, lastSync, faults>> /\ requests' \in SUBSET Pending
      /\ poll' = [poll EXCEPT !.todo = @ \ {p}]
  BY DEF Frame, Finished, IInv, TypeOK
<1>2. /\ poll'.phase = poll.phase /\ poll'.moment = poll.moment /\ poll'.live = poll.live
      /\ poll'.opened = poll.opened /\ poll'.gone = poll.gone /\ poll'.todo = poll.todo \ {p}
      /\ poll' \in Poll
  BY <1>1 DEF IInv, TypeOK, Poll
<1>3. TypeOK'
  BY <1>1, <1>2, WritesRows DEF IInv, TypeOK, broker
<1>4. BooksAreKept' /\ DealsAreReal'
  BY <1>1, <1>2 DEF IInv, BooksAreKept, DealsAreReal, broker
<1>5. RowsAreReal'
  <2> SUFFICES ASSUME NEW q \in Position
               PROVE  IF trades'[q].status = "ABSENT" THEN trades'[q] = NoTrade
                      ELSE trades'[q].volume > 0 /\ entered[q][clock] > 0
    BY <1>1 DEF RowsAreReal, broker
  <2>1. CASE q # p \/ Kept
    BY <2>1, WritesRows DEF IInv, RowsAreReal, Kept
  <2>2. CASE q = p /\ \E v \in Volume : Created(p, v)
    <3>1. PICK v \in Volume : Created(p, v)
      BY <2>2
    <3>2. trades'[p] = Opened(v) /\ v > 0 /\ entered[p][clock] > 0
      BY <1>0, <3>1 DEF Created, TypeOK
    <3> QED BY <2>2, <3>2 DEF Opened
  <2>3. CASE q = p /\ (Advanced(p) \/ Shut(p))
    <3>1. trades'[p].volume = trades[p].volume /\ trades'[p].status # "ABSENT"
          /\ trades[p].status # "ABSENT"
      BY <1>0, <2>3, Volumes DEF Advanced, Shut, TypeOK, Row
    <3> QED BY <2>3, <3>1 DEF IInv, RowsAreReal
  <2> QED BY <2>1, <2>2, <2>3 DEF Writes
<1>6. UnseenIsGone'
  <2> SUFFICES ASSUME poll.phase # "idle", NEW q \in Position, ~(poll.live[q] > 0), ~Gone(q)
               PROVE  trades'[q].status # "ABSENT" => trades'[q].volume = poll.opened[q]
    <3>1. \A q \in Position : (Gone(q))' = Gone(q) /\ (Newcomer(q))' = Newcomer(q)
      BY <1>1, <1>2 DEF Gone, Newcomer, broker
    <3> QED BY <1>1, <1>2, <3>1 DEF IInv, UnseenIsGone, broker
  <2>0. trades[q].status # "ABSENT" => trades[q].volume = poll.opened[q]
    BY DEF IInv, UnseenIsGone
  <2>1. CASE q # p \/ Kept
    BY <2>0, <2>1, WritesRows DEF Kept
  <2>2. CASE q = p /\ \E v \in Volume : Created(p, v)
    <3>1. PICK v \in Volume : Created(p, v)
      BY <2>2
    <3>2. trades'[p] = Opened(v) /\ v = poll.opened[p]
      BY <1>0, <2>2, <3>1 DEF Created, TypeOK
    <3> QED BY <2>2, <3>2 DEF Opened
  <2>3. CASE q = p /\ (Advanced(p) \/ Shut(p))
    <3>1. trades'[p].volume = trades[p].volume /\ trades[p].status # "ABSENT"
      BY <1>0, <2>3, Volumes DEF Advanced, Shut, TypeOK, Row
    <3> QED BY <2>0, <2>3, <3>1
  <2> QED BY <2>1, <2>2, <2>3 DEF Writes
<1>7. ListsHold'
  BY <1>2, WritesRows DEF IInv, ListsHold, OpenTrades
<1>8. ClosedIsGone'
  <2> SUFFICES ASSUME NEW q \in Position, trades'[q].status = "CLOSED"
               PROVE  entered[q][clock] > 0 /\ Live(q) = 0
    BY <1>1 DEF ClosedIsGone, Live, broker
  <2>1. CASE q # p \/ Kept
    BY <2>1, WritesRows DEF IInv, ClosedIsGone, Kept
  <2>2. CASE q = p /\ \E v \in Volume : Created(p, v)
    <3>1. trades'[p].status = "OPEN"
      BY <1>0, <2>2 DEF Created, Opened, TypeOK
    <3> QED BY <2>2, <3>1
  <2>4. CASE q = p /\ Advanced(p)
    <3>1. trades[p] \in Row /\ p \in Position
      BY <1>0, Volumes
    <3>2. trades'[p].status = "PARTIALLY_CLOSED"
      BY <1>0, <2>4, <3>1 DEF Advanced, TypeOK, Row
    <3> QED BY <2>4, <3>2
  <2>3. CASE q = p /\ Shut(p)
    <3>1. trades[p].volume > 0
      BY <2>3 DEF IInv, RowsAreReal, Shut
    <3>2. Gone(p)
      BY <2>3, <3>1, <1>0, Volumes DEF IInv, UnseenIsGone, Shut, Frame
    <3> QED BY <1>0, <2>3, <3>2, Deals DEF Gone, Live, Volume
  <2> QED BY <2>1, <2>2, <2>3, <2>4 DEF Writes
<1>9. NoExitCountedTwice'
  <2> SUFFICES ASSUME NEW q \in Position
               PROVE  trades'[q].closed <= left[q][clock]
    BY <1>1 DEF NoExitCountedTwice, broker
  <2>1. CASE q # p \/ Kept
    BY <2>1, WritesRows DEF IInv, NoExitCountedTwice, Kept
  <2>2. CASE q = p /\ \E v \in Volume : Created(p, v)
    BY <1>0, <2>2, Deals DEF Created, Opened, TypeOK, Volume
  <2>3. CASE q = p /\ (Advanced(p) \/ Shut(p))
    <3>1. trades'[p].closed = Recorded(p)
      BY <1>0, <2>3, Volumes DEF Advanced, Shut, TypeOK, Row
    <3>2. poll.gone[p] <= left[p][clock]
      BY DEF IInv, DealsAreReal
    <3>3. left[p][clock] \in Nat
      BY <1>0, Deals DEF Volume
    <3> QED BY <1>0, <2>3, <3>1, <3>2, <3>3, RecordedBounds, Volumes DEF Volume
  <2> QED BY <2>1, <2>2, <2>3 DEF Writes
<1> QED BY <1>3, <1>4, <1>5, <1>6, <1>7, <1>8, <1>9 DEF IInv
LEMMA ResolvePendingWrites ==
    ASSUME IInv, NEW p \in Position, ResolvePending(p)
    PROVE  Writes(p) /\ Frame(p)
<1> USE MonitorAssumption
<1>1. Frame(p)
  BY DEF ResolvePending, Frame, broker
<1>2. CASE trades' = trades
  BY <1>1, <1>2 DEF Writes, Kept
<1>3. CASE /\ poll.opened[p] > 0 /\ trades[p].status = "ABSENT"
           /\ trades' = [trades EXCEPT ![p] = Opened(poll.opened[p])]
  <2>1. poll.opened[p] \in Volume /\ poll.opened[p] \in Nat
    BY Volumes DEF IInv
  <2>2. entered[p][clock] \in Nat
    BY Deals DEF IInv, Volume
  <2>3. entered[p][clock] > 0
    BY <1>3, <2>1, <2>2 DEF IInv, DealsAreReal
  <2>4. Created(p, poll.opened[p])
    BY <1>3, <2>1, <2>3 DEF Created
  <2> QED BY <1>1, <2>1, <2>4 DEF Writes
<1> QED BY <1>1, <1>2, <1>3 DEF ResolvePending

LEMMA ImportWrites ==
    ASSUME IInv, NEW p \in Position, Import(p)
    PROVE  Writes(p) /\ Frame(p)
<1>1. Frame(p)
  BY DEF Import, Frame, broker
<1>2. CASE trades' = trades
  BY <1>1, <1>2 DEF Writes, Kept
<1>3. CASE /\ trades[p].status = "ABSENT"
           /\ trades' = [trades EXCEPT ![p] = Opened(poll.live[p])]
  <2>1. poll.live[p] \in Volume
    BY Volumes DEF IInv
  <2>2. poll.live[p] > 0
    BY DEF Import, IInv, ListsHold
  <2>3. entered[p][clock] > 0
    BY <2>2 DEF Import, IInv, UnseenIsGone
  <2>4. Created(p, poll.live[p])
    BY <1>3, <2>1, <2>2, <2>3 DEF Created
  <2> QED BY <1>1, <2>1, <2>4 DEF Writes
<1> QED BY <1>1, <1>2, <1>3 DEF Import

\* What a loop over open trades writes as progress.
LEMMA ProgressWrites ==
    ASSUME NEW p \in Position, trades[p].status \in {"OPEN", "PARTIALLY_CLOSED"},
           Progress(p, "PARTIALLY_CLOSED")
    PROVE  Writes(p)
BY DEF Progress, Writes, Kept, Advanced

LEMMA CloseVanishedWrites ==
    ASSUME IInv, NEW p \in Position, CloseVanished(p)
    PROVE  Writes(p) /\ Frame(p)
<1> USE MonitorAssumption
<1>1. Frame(p)
  BY DEF CloseVanished, Frame, broker
<1>2. trades[p].status \in {"OPEN", "PARTIALLY_CLOSED"}
  BY DEF CloseVanished, IInv, ListsHold, OpenTrades
<1>3. CASE trades' = trades
  BY <1>1, <1>3 DEF Writes, Kept
<1>4. CASE Progress(p, "PARTIALLY_CLOSED")
  BY <1>1, <1>2, <1>4, ProgressWrites
<1>5. CASE /\ ~(poll.live[p] > 0) /\ ~(poll.gone[p] < trades[p].volume)
           /\ trades' = [trades EXCEPT ![p].status = "CLOSED", ![p].closed = Recorded(p)]
  <2>1. poll.gone[p] >= trades[p].volume
    BY <1>5, Volumes DEF IInv
  <2> QED BY <1>1, <1>2, <1>5, <2>1 DEF Writes, Shut
<1> QED BY <1>1, <1>3, <1>4, <1>5 DEF CloseVanished

LEMMA PartialCloseWrites ==
    ASSUME IInv, NEW p \in Position, PartialClose(p)
    PROVE  Writes(p) /\ Frame(p)
<1>1. Frame(p)
  BY DEF PartialClose, Frame, broker
<1>2. trades[p].status \in {"OPEN", "PARTIALLY_CLOSED"}
  BY DEF PartialClose, IInv, ListsHold, OpenTrades
<1>3. CASE trades' = trades
  BY <1>1, <1>3 DEF Writes, Kept
<1>4. CASE Progress(p, "PARTIALLY_CLOSED")
  BY <1>1, <1>2, <1>4, ProgressWrites
<1> QED BY <1>1, <1>3, <1>4 DEF PartialClose

\* So each of the monitor's writes is one of a row.
LEMMA WriteWrites ==
    ASSUME IInv, NEW p \in Position, Write(p)
    PROVE  Writes(p) /\ Frame(p)
BY ResolvePendingWrites, ImportWrites, CloseVanishedWrites, PartialCloseWrites DEF Write
-----------------------------------------------------------------------------
(* The rest of the poll.                                                     *)

LEMMA LoopsKeep == IInv /\ Loops => IInv'
<1> SUFFICES ASSUME IInv, Loops PROVE IInv'
  OBVIOUS
<1> USE MonitorAssumption
<1>1. UNCHANGED <<broker, requests, trades, lastSync, faults>>
  BY DEF Loops, NextLoop
<1>2. PICK to \in {"import", "close", "partial"}, list \in SUBSET Position :
         /\ poll.phase \in {"pending", "import", "close"}
         /\ poll' = [poll EXCEPT !.phase = to, !.todo = list]
         /\ to = "import" => list = {p \in Position : poll.live[p] > 0}
         /\ to # "import" => list = OpenTrades
  BY DEF Loops, NextLoop, OpenTrades
<1>3. /\ poll'.phase = to /\ poll'.todo = list
      /\ poll'.moment = poll.moment /\ poll'.live = poll.live
      /\ poll'.opened = poll.opened /\ poll'.gone = poll.gone
      /\ poll' \in Poll
  BY <1>2 DEF IInv, TypeOK, Poll, Phase
<1>4. TypeOK'
  BY <1>1, <1>3 DEF IInv, TypeOK, broker
<1>5. DealsAreReal'
  BY <1>1, <1>2, <1>3 DEF IInv, DealsAreReal, broker
<1>6. UnseenIsGone'
  BY <1>1, <1>2, <1>3 DEF IInv, UnseenIsGone, Newcomer, Gone, broker
<1>7. ListsHold'
  BY <1>1, <1>2, <1>3 DEF ListsHold, OpenTrades
<1> QED BY <1>1, <1>4, <1>5, <1>6, <1>7, SameBroker DEF IInv

\* A poll that ends, fails or dies leaves nothing behind that a later one believes.
LEMMA IdleKeeps ==
    ASSUME IInv, poll' = Idle(poll.missed), UNCHANGED <<broker, requests, trades>>,
           faults' \in 0..MaxFaults,
           lastSync' \in {lastSync, None} \/ (poll.phase # "idle" /\ lastSync' = poll.moment)
    PROVE  IInv'
<1> USE MonitorAssumption
<1>1. /\ poll'.phase = "idle" /\ poll'.gone = Nothing /\ poll'.opened = Nothing
      /\ poll' \in Poll
  BY DEF IInv, TypeOK, Poll, Idle, Phase, Instant, Volume, Nothing
<1>2. lastSync' \in Instant \cup {None} /\ (lastSync' # None => lastSync' <= clock)
  BY DEF IInv, TypeOK, Poll, DealsAreReal
<1>3. TypeOK'
  BY <1>1, <1>2 DEF IInv, TypeOK, broker
<1>4. DealsAreReal'
  <2>1. \A p \in Position : 0 <= left[p][clock] /\ 0 <= entered[p][clock]
    BY Deals DEF IInv, Volume
  <2> QED BY <1>1, <1>2, <2>1 DEF DealsAreReal, Nothing, broker
<1>5. UnseenIsGone' /\ ListsHold'
  BY <1>1 DEF UnseenIsGone, ListsHold
<1> QED BY <1>3, <1>4, <1>5, SameBroker DEF IInv

LEMMA EndPollKeeps == IInv /\ EndPoll => IInv'
<1> SUFFICES ASSUME IInv, EndPoll PROVE IInv'
  OBVIOUS
<1>1. /\ poll' = Idle(poll.missed) /\ UNCHANGED <<broker, requests, trades>>
      /\ poll.phase # "idle" /\ lastSync' = poll.moment /\ faults' \in 0..MaxFaults
  BY DEF EndPoll, IInv, TypeOK
<1> QED BY <1>1, IdleKeeps

LEMMA PollFailsKeeps == IInv /\ PollFails => IInv'
<1> SUFFICES ASSUME IInv, PollFails PROVE IInv'
  OBVIOUS
<1>1. faults' \in 0..MaxFaults
  BY MonitorAssumption DEF PollFails, IInv, TypeOK
<1> QED BY <1>1, IdleKeeps DEF PollFails

LEMMA RestartKeeps == IInv /\ Restart => IInv'
<1> SUFFICES ASSUME IInv, Restart PROVE IInv'
  OBVIOUS
<1>1. faults' \in 0..MaxFaults
  BY MonitorAssumption DEF Restart, IInv, TypeOK
<1> QED BY <1>1, IdleKeeps DEF Restart
-----------------------------------------------------------------------------
(* The theorems.                                                             *)

LEMMA InitInv == Init => IInv
<1> SUFFICES ASSUME Init PROVE IInv
  OBVIOUS
<1> USE MonitorAssumption
<1>1. 0 \in Instant /\ 0 \in Volume /\ NoTrade \in Row /\ Nothing \in [Position -> Volume]
  BY DEF Instant, Volume, NoTrade, Row, Nothing
<1>2. /\ poll.phase = "idle" /\ poll.gone = Nothing /\ poll.opened = Nothing
      /\ poll \in Poll
  BY <1>1 DEF Init, Idle, Poll, Phase
<1>3. \A p \in Position :
         trades[p] = NoTrade /\ trades[p].status = "ABSENT" /\ trades[p].closed = 0
  BY DEF Init, NoTrade
<1>4. \A p \in Position, t \in Instant : entered[p][t] = 0 /\ left[p][t] = 0
  BY DEF Init
<1>5. clock = 0 /\ clock \in Instant /\ lastSync = None
  BY <1>1 DEF Init
<1>6. \A p \in Position : /\ entered[p][clock] = 0 /\ left[p][clock] = 0
                          /\ poll.gone[p] = 0 /\ poll.opened[p] = 0
  BY <1>2, <1>4, <1>5 DEF Nothing
<1>7. TypeOK
  <2>1. /\ entered \in [Position -> [Instant -> Volume]]
        /\ left \in [Position -> [Instant -> Volume]]
        /\ trades \in [Position -> Row]
    BY <1>1 DEF Init
  <2>2. orders \in SUBSET Pending /\ requests \in SUBSET Pending /\ faults \in 0..MaxFaults
    BY DEF Init
  <2> QED BY <1>2, <1>5, <2>1, <2>2 DEF TypeOK
<1>8. BooksAreKept
  <2> SUFFICES ASSUME NEW p \in Position PROVE Book(entered[p], left[p], clock)
    BY DEF BooksAreKept
  <2>1. \A t \in Instant : entered[p][t] = 0 /\ left[p][t] = 0
    BY <1>4
  <2> QED BY <1>5, <2>1 DEF Book
<1>9. RowsAreReal
  BY <1>3 DEF RowsAreReal
<1>10. DealsAreReal
  BY <1>2, <1>5, <1>6 DEF DealsAreReal
<1>11. UnseenIsGone /\ ListsHold
  BY <1>2 DEF UnseenIsGone, ListsHold
<1>12. ClosedIsGone
  BY <1>3 DEF ClosedIsGone
<1>13. NoExitCountedTwice
  <2> SUFFICES ASSUME NEW p \in Position PROVE trades[p].closed <= left[p][clock]
    BY DEF NoExitCountedTwice
  <2>1. trades[p].closed = 0 /\ left[p][clock] = 0
    BY <1>3, <1>6
  <2> QED BY <2>1
<1> QED BY <1>7, <1>8, <1>9, <1>10, <1>11, <1>12, <1>13 DEF IInv

LEMMA NextInv == IInv /\ [Next]_vars => IInv'
<1> SUFFICES ASSUME IInv, [Next]_vars PROVE IInv'
  OBVIOUS
<1>1. CASE (\E p \in Position : Broker(p)) \/ Tick
  BY <1>1, BrokerKeeps
<1>2. CASE ReadPositions \/ ReadOrders \/ ReadDeals
  BY <1>2, ReadPositionsKeeps, ReadOrdersKeeps, ReadDealsKeeps
<1>3. CASE \E p \in Position : Write(p)
  <2>1. PICK p \in Position : Write(p)
    BY <1>3
  <2>2. Writes(p) /\ Frame(p)
    BY <2>1, WriteWrites
  <2> QED BY <2>2, WritesKeep
<1>4. CASE Loops \/ EndPoll
  BY <1>4, LoopsKeep, EndPollKeeps
<1>5. CASE PollFails \/ Restart
  BY <1>5, PollFailsKeeps, RestartKeeps
<1>6. CASE UNCHANGED vars
  BY <1>6 DEF vars, broker, IInv, TypeOK, BooksAreKept, RowsAreReal, DealsAreReal, UnseenIsGone,
              Newcomer, Gone, ListsHold, OpenTrades, ClosedIsGone, Live, NoExitCountedTwice
<1> QED BY <1>1, <1>2, <1>3, <1>4, <1>5, <1>6 DEF Next, Monitor

\* The inductive invariant holds always: the reads of a poll, of different moments,
\* never make it believe that a position is gone which is not.
THEOREM Invariance == Spec => []IInv
BY InitInv, NextInv, PTL DEF Spec

\* The types hold; a row never has more closed than its volume.
THEOREM TypesHold == Spec => []TypeOK
<1>1. IInv => TypeOK
  BY DEF IInv
<1> QED BY Invariance, <1>1, PTL

\* A trade that _close_vanished closes has left the broker whole and stays away, in
\* whatever order the broker moves between the poll's reads and its writes.
THEOREM ClosedForGood == Spec => []ClosedIsGone
<1>1. IInv => ClosedIsGone
  BY DEF IInv
<1> QED BY Invariance, <1>1, PTL

\* However the deal windows overlap and whatever fails or restarts, the recorded
\* closed volume is never more than what left.
THEOREM NothingTwice == Spec => []NoExitCountedTwice
<1>1. IInv => NoExitCountedTwice
  BY DEF IInv
<1> QED BY Invariance, <1>1, PTL

\* No step takes recorded progress back, changes a CLOSED trade or reopens one that
\* was partially closed: _record_partial writes new progress only.
THEOREM ProgressStays == Spec => ProgressIsKept
<1>1. IInv /\ [Next]_vars =>
        [\A p \in Position :
           /\ trades'[p].closed >= trades[p].closed
           /\ trades[p].status = "CLOSED" => trades'[p] = trades[p]
           /\ trades[p].status = "PARTIALLY_CLOSED" => trades'[p].status # "OPEN"]_vars
  <2> SUFFICES ASSUME IInv, Next, NEW q \in Position
               PROVE  /\ trades'[q].closed >= trades[q].closed
                      /\ trades[q].status = "CLOSED" => trades'[q] = trades[q]
                      /\ trades[q].status = "PARTIALLY_CLOSED" => trades'[q].status # "OPEN"
    OBVIOUS
  <2>1. trades[q].closed \in Nat
    BY Volumes DEF IInv
  <2>2. CASE trades' = trades
    BY <2>1, <2>2
  <2>3. CASE \E p \in Position : Write(p)
    <3>1. PICK p \in Position : Write(p)
      BY <2>3
    <3>2. Writes(p)
      BY <3>1, WriteWrites
    <3>3. CASE q = p
      BY <3>2, <3>3, WritesRows
    <3>4. CASE q # p
      <4>1. trades'[q] = trades[q]
        BY <3>2, <3>4, WritesRows
      <4> QED BY <2>1, <4>1
    <3> QED BY <3>3, <3>4
  <2>4. (\E p \in Position : Write(p)) \/ trades' = trades
    BY DEF Next, Broker, Enters, OrderLeaves, Leaves, Tick, Monitor, ReadPositions, ReadOrders,
           ReadDeals, Loops, NextLoop, EndPoll, PollFails, Restart
  <2> QED BY <2>2, <2>3, <2>4
<1> QED BY Invariance, <1>1, PTL DEF Spec, ProgressIsKept
=============================================================================
