------------------------ MODULE AnnouncementsProofs ------------------------
(***************************************************************************)
(* What holds of Discord's announcements for any bots, any things to say   *)
(* and any window of three ticks or more: nothing is said twice, nothing   *)
(* new is missed, a reminder is about an alert that fired, and a card that *)
(* can be edited shows its setup as it is.                                 *)
(***************************************************************************)
EXTENDS Announcements, TLAPS

Kinds == {"detection", "alert", "setup", "journey", "outcome"}

\* What a notification's id tells.
LEMMA ItemShape ==
    /\ \A i \in Item : i[1] \in Kinds
    /\ \A d \in Detection : <<"detection", d>> \in Item /\ <<"detection", d>>[1] = "detection"
    /\ \A a \in Alert : <<"alert", a>> \in Item /\ <<"alert", a>>[1] = "alert"
    /\ \A j \in Journey : <<"journey", j>> \in Item /\ <<"outcome", j>> \in Item
    /\ \A i \in Item : i[1] = "alert" => i[2] \in Alert /\ i = <<"alert", i[2]>>
    /\ \A i \in Item : i[1] = "setup" => i[2] \in Setup /\ i = Card(i[2])
BY DEF Item, Of, Kinds, Card

LEMMA CardShape ==
    /\ \A s \in Setup : Card(s) \in Item /\ Card(s)[1] = "setup"
    /\ \A s, t \in Setup : Card(s) = Card(t) => s = t
BY DEF Item, Of, Card

LEMMA WindowFacts ==
    /\ Window \in Nat /\ Window >= 3 /\ Old \in Nat /\ Late \in Nat
    /\ Old = Window + 2 /\ Late = Window + 3
    /\ None \notin Int
BY AnnouncementsAssumption DEF Old, Late

\* The parts of a sweep.
LEMMA PartsShape ==
    /\ Len(Parts) = 4
    /\ Parts[1] = "detection" /\ Parts[2] = "alert" /\ Parts[3] = "setup"
    /\ Parts[4] = "outcome"
    /\ \A p \in 1..4 : Parts[p] \in Kinds \ {"journey"}
    /\ \A p, q \in 1..4 : Parts[p] = Parts[q] => p = q
BY DEF Parts, Kinds

BotState ==
    [pc : {"down", "idle", "next", "root", "send", "record", "mark", "edit"},
     part : 1..4, lag : 0..1, todo : SUBSET Item, item : Item \cup {None},
     seen : [Setup -> 0..LastVersion]]

AgeTypes == age \in [Item -> (0..Late) \cup {None}] /\ version \in [Setup -> 0..LastVersion]
RowTypes == /\ rows \in [Item -> [claimed : BOOLEAN, failed : BOOLEAN, message : BOOLEAN]]
            /\ posts \in [Item -> Nat] /\ card \in [Setup -> 0..LastVersion]
BotTypes == bot \in [Bot -> BotState]
RestTypes == swept \subseteq Bot /\ troubles \in 0..MaxTroubles

LEMMA TypeParts ==
    TypeOK <=> AlertsTypeOK /\ AgeTypes /\ RowTypes /\ BotTypes /\ RestTypes
BY PartsShape DEF TypeOK, AgeTypes, RowTypes, BotTypes, RestTypes, BotState

(***************************************************************************)
(* What a step does to the bots: at most one of them moves, but for Tick.  *)
(***************************************************************************)

\* The new state of the bot that moves, by the operators the actions use.
Gone(x, pc, i) == [x EXCEPT !.pc = pc, !.item = i, !.todo = @ \ {i}]
Left(x) == [x EXCEPT !.pc = "next", !.item = None]
Listing(x, part) == [x EXCEPT !.pc = "next", !.part = part, !.todo = Due(part, x.lag),
                              !.seen = IF Parts[part] = "setup" THEN version ELSE Unseen]

\* Only b moves, to x.
Becomes(b, x) == bot' = [bot EXCEPT ![b] = x]

LEMMA BotMoves ==
    ASSUME BotTypes, NEW b \in Bot
    PROVE  /\ \A pc, i : Goes(b, pc, i) => Becomes(b, Gone(bot[b], pc, i))
           /\ Leaves(b) => Becomes(b, Left(bot[b]))
           /\ \A part : Lists(b, part) => Becomes(b, Listing(bot[b], part))
           /\ Raises(b) => Becomes(b, Asleep)
BY DEF Goes, Leaves, Lists, Raises, Becomes, Gone, Left, Listing, BotTypes, BotState

LEMMA Becoming ==
    ASSUME BotTypes, NEW b \in Bot, NEW x, Becomes(b, x)
    PROVE  /\ bot'[b] = x
           /\ \A c \in Bot \ {b} : bot'[c] = bot[c]
           /\ x \in BotState => BotTypes'
BY DEF Becomes, BotTypes

LEMMA AsleepState == Asleep \in BotState /\ [Asleep EXCEPT !.pc = "down"] \in BotState
BY PartsShape, AnnouncementsAssumption DEF Asleep, BotState, Unseen

LEMMA GoneState ==
    ASSUME NEW x \in BotState, NEW i \in Item,
           NEW pc \in {"root", "send", "record", "mark", "edit"}
    PROVE  /\ Gone(x, pc, i) \in BotState
           /\ Gone(x, pc, i).pc = pc /\ Gone(x, pc, i).item = i
           /\ Gone(x, pc, i).todo = x.todo \ {i} /\ Gone(x, pc, i).part = x.part
           /\ Gone(x, pc, i).lag = x.lag /\ Gone(x, pc, i).seen = x.seen
BY DEF Gone, BotState

LEMMA LeftState ==
    ASSUME NEW x \in BotState
    PROVE  /\ Left(x) \in BotState
           /\ Left(x).pc = "next" /\ Left(x).item = None
           /\ Left(x).todo = x.todo /\ Left(x).part = x.part
           /\ Left(x).lag = x.lag /\ Left(x).seen = x.seen
BY DEF Left, BotState

LEMMA ListingState ==
    ASSUME NEW x \in BotState, NEW part \in 1..4, version \in [Setup -> 0..LastVersion]
    PROVE  /\ Listing(x, part) \in BotState
           /\ Listing(x, part).pc = "next" /\ Listing(x, part).item = x.item
           /\ Listing(x, part).todo = Due(part, x.lag) /\ Listing(x, part).part = part
           /\ Listing(x, part).lag = x.lag
           /\ Listing(x, part).seen = IF Parts[part] = "setup" THEN version ELSE Unseen
<1>1. Due(part, x.lag) \in SUBSET Item
  BY DEF Due
<1>2. (IF Parts[part] = "setup" THEN version ELSE Unseen) \in [Setup -> 0..LastVersion]
  BY AnnouncementsAssumption DEF Unseen
<1> QED
  BY <1>1, <1>2 DEF Listing, BotState

(***************************************************************************)
(* The steps, by what they change.                                         *)
(***************************************************************************)

World == \/ \E d \in Detection : Detect(d)
         \/ \E s \in Setup : SetupChanges(s)
         \/ \E j \in Journey : JourneyCloses(j)
         \/ AlertStep

\* A sweep begins or comes to its next part, takes up one thing, posts, notes what came of
\* it, or edits; and what ends a sweep, at its end or before.
Listings(b) == StartSweep(b) \/ NextPart(b)
Takes(b) == \E i \in Item : OpenThread(b, i) \/ Claim(b, i) \/ Claimless(b, i)
Posts(b) == PostRoot(b) \/ Send(b) \/ SendFails(b)
Notes(b) == Record(b) \/ Mark(b)
Edits(b) == Edit(b) \/ EditFails(b)
Ends(b) == \/ EndSweep(b) \/ ReadRaises(b) \/ PrepareRaises(b) \/ WriteRaises(b) \/ Crash(b)
           \/ Restart(b)
BotStep(b) == Listings(b) \/ Takes(b) \/ Posts(b) \/ Notes(b) \/ Edits(b) \/ Ends(b)

LEMMA Steps == Next <=> World \/ Tick \/ \E b \in Bot : BotStep(b)
BY DEF Next, World, BotStep, Sweep, Listings, Takes, Posts, Notes, Edits, Ends

\* A bot does not make the things it speaks of.
LEMMA BotFrame ==
    ASSUME NEW b \in Bot, BotStep(b)
    PROVE  UNCHANGED <<alert, watcher, age, version>>
<1>1. CASE Listings(b)
  BY <1>1 DEF Listings, StartSweep, NextPart, alerts, sources
<1>2. CASE Takes(b)
  BY <1>2 DEF Takes, OpenThread, Claim, Claimless, alerts, sources
<1>3. CASE Posts(b)
  BY <1>3 DEF Posts, PostRoot, Send, SendFails, alerts, sources
<1>4. CASE Notes(b) \/ Edits(b)
  BY <1>4 DEF Notes, Edits, Record, Mark, Edit, EditFails, alerts, sources
<1>5. CASE Ends(b)
  BY <1>5 DEF Ends, EndSweep, ReadRaises, PrepareRaises, WriteRaises, Crash, Restart, alerts,
     sources
<1> QED
  BY <1>1, <1>2, <1>3, <1>4, <1>5 DEF BotStep

\* What ends a sweep says nothing.
LEMMA EndsFrame ==
    ASSUME NEW b \in Bot, Ends(b), RestTypes
    PROVE  /\ UNCHANGED <<rows, posts, card>>
           /\ Becomes(b, Asleep) \/ Becomes(b, [Asleep EXCEPT !.pc = "down"])
           /\ \/ swept' = swept \cup {b} /\ EndSweep(b)
              \/ swept' \subseteq swept
           /\ RestTypes' /\ troubles' >= troubles
<1> USE AnnouncementsAssumption DEF RestTypes, Raises, Becomes, discord
<1>1. CASE EndSweep(b)
  BY <1>1 DEF EndSweep
<1>2. CASE ReadRaises(b) \/ WriteRaises(b)
  BY <1>2 DEF ReadRaises, WriteRaises
<1>3. CASE PrepareRaises(b)
  BY <1>3 DEF PrepareRaises
<1>4. CASE Crash(b)
  BY <1>4 DEF Crash
<1>5. CASE Restart(b)
  BY <1>5 DEF Restart
<1> QED
  BY <1>1, <1>2, <1>3, <1>4, <1>5 DEF Ends

\* What the world does is not about bots.
LEMMA WorldFrame == World => UNCHANGED <<rows, posts, card, bot, swept, troubles>>
BY DEF World, Detect, SetupChanges, JourneyCloses, AlertStep, discord

(***************************************************************************)
(* Types.                                                                  *)
(***************************************************************************)

LEMMA AlertsTypes ==
    ASSUME AlertsTypeOK, AlertsNext \/ AlertsAge
    PROVE  AlertsTypeOK'
<1> USE AlertsAssumption DEF AlertsTypeOK
<1>1. ASSUME NEW a \in Alert, Arm(a) \/ Cancel(a)
      PROVE  AlertsTypeOK'
  BY <1>1 DEF Arm, Cancel, Settled
<1>2. ASSUME NEW o \in Observer, BeginPass(o, "check") \/ BeginPass(o, "expire")
      PROVE  AlertsTypeOK'
  BY <1>2 DEF BeginPass, Armed
<1>3. ASSUME NEW o \in Observer, EndPass(o)
      PROVE  AlertsTypeOK'
  BY <1>3 DEF EndPass, AtRest
<1>4. ASSUME NEW o \in Observer, NEW a \in Alert, NotCrossed(o, a) \/ FireRefused(o, a)
      PROVE  AlertsTypeOK'
  BY <1>4 DEF NotCrossed, FireRefused, AtRest
<1>5. ASSUME NEW o \in Observer, NEW a \in Alert, Fire(o, a) \/ Expire(o, a)
      PROVE  AlertsTypeOK'
  <2>1. watcher' = [watcher EXCEPT ![o].todo = @ \ {a}]
    BY <1>5 DEF Fire, Expire
  <2>2. watcher' \in [Observer -> [pass : {"none", "check", "expire"}, todo : SUBSET Alert]]
    BY <2>1
  <2>3. \E status \in {"FIRED", "EXPIRED"} : alert' \in {alert, [alert EXCEPT ![a] = Settled(status)]}
    BY <1>5 DEF Fire, Expire
  <2>4. alert' \in [Alert -> [status : {"ABSENT", "ARMED", "FIRED", "CANCELLED", "EXPIRED"},
                              left : 0..Ttl]]
    BY <2>3 DEF Settled
  <2> QED
    BY <2>2, <2>4
<1>6. CASE AlertsAge
  <2>1. /\ UNCHANGED watcher
        /\ alert' = [a \in Alert |->
                [alert[a] EXCEPT !.left = IF @ = 0 THEN 0 ELSE @ - 1]]
    BY <1>6 DEF AlertsAge
  <2>2. ASSUME NEW a \in Alert
        PROVE  alert'[a] \in [status : {"ABSENT", "ARMED", "FIRED", "CANCELLED", "EXPIRED"},
                              left : 0..Ttl]
    <3>1. alert'[a] = [alert[a] EXCEPT !.left = IF @ = 0 THEN 0 ELSE @ - 1]
      BY <2>1, <2>2
    <3>2. alert[a].left \in 0..Ttl
      BY <2>2
    <3>3. (IF alert[a].left = 0 THEN 0 ELSE alert[a].left - 1) \in 0..Ttl
      <4>1. \A n \in 0..Ttl : (IF n = 0 THEN 0 ELSE n - 1) \in 0..Ttl
        OBVIOUS
      <4> QED
        BY <3>2, <4>1
    <3> QED
      BY <2>2, <3>1, <3>3
  <2> QED
    BY <2>1, <2>2
<1> QED
  BY <1>1, <1>2, <1>3, <1>4, <1>5, <1>6 DEF AlertsNext

\* An alert that has fired stays fired.
LEMMA FiredStays ==
    ASSUME AlertsTypeOK, AlertsNext \/ AlertsAge, NEW a \in Alert,
           alert[a].status = "FIRED"
    PROVE  alert'[a].status = "FIRED"
<1> USE DEF AlertsTypeOK
<1>1. ASSUME NEW c \in Alert, Arm(c) \/ Cancel(c)
      PROVE  alert'[a].status = "FIRED"
  BY <1>1 DEF Arm, Cancel, Settled, StillArmed
<1>2. ASSUME NEW o \in Observer, NEW c \in Alert, Fire(o, c) \/ Expire(o, c)
      PROVE  alert'[a].status = "FIRED"
  BY <1>2 DEF Fire, Expire, Settled, StillArmed
<1>3. CASE AlertsAge
  BY <1>3 DEF AlertsAge
<1> QED
  BY <1>1, <1>2, <1>3
     DEF AlertsNext, BeginPass, EndPass, NotCrossed, FireRefused

\* How the ages and versions move while the clock stands: a thing comes, too late or new,
\* or is renewed by a change.
LEMMA WorldAges ==
    ASSUME AlertsTypeOK, AgeTypes, World
    PROVE  /\ AgeTypes'
           /\ \A i \in Item : age'[i] \in {age[i], 0, Late}
           /\ \A i \in Item : i[1] = "journey" => age'[i] = age[i]
           /\ \A i \in Item : i[1] = "alert" /\ age'[i] # age[i] => alert'[i[2]].status = "FIRED"
           /\ \A s \in Setup : version'[s] = version[s] \/ age'[Card(s)] = 0
           /\ \A s \in Setup : age'[Card(s)] \in {age[Card(s)], 0}
           /\ AlertsNext \/ UNCHANGED <<alert, watcher>>
<1> USE ItemShape, CardShape, WindowFacts DEF AgeTypes
<1>1. ASSUME NEW d \in Detection, Detect(d)
      PROVE  /\ \E t \in {0, Late} : age' = [age EXCEPT ![<<"detection", d>>] = t]
             /\ UNCHANGED <<alert, watcher, version>>
  BY <1>1 DEF Detect, alerts
<1>2. ASSUME NEW s \in Setup, SetupChanges(s)
      PROVE  /\ version' = [version EXCEPT ![s] = @ + 1] /\ version[s] < LastVersion
             /\ age' = [age EXCEPT ![Card(s)] = 0] /\ UNCHANGED <<alert, watcher>>
  BY <1>2 DEF SetupChanges, alerts, Card
<1>3. ASSUME NEW j \in Journey, JourneyCloses(j)
      PROVE  age' = [age EXCEPT ![<<"outcome", j>>] = 0] /\ UNCHANGED <<alert, watcher, version>>
  BY <1>3 DEF JourneyCloses, alerts
<1>4. CASE AlertStep
  <2>1. /\ UNCHANGED version /\ AlertsNext
        /\ age' = [i \in Item |-> IF i[1] = "alert" /\ age[i] = None
                                     /\ alert'[i[2]].status = "FIRED" THEN 0 ELSE age[i]]
    BY <1>4 DEF AlertStep
  <2> QED
    BY <2>1
<1>5. ASSUME NEW d \in Detection, Detect(d)
      PROVE  /\ AgeTypes' /\ \A i \in Item : age'[i] \in {age[i], 0, Late}
             /\ \A i \in Item : i[1] # "detection" => age'[i] = age[i]
  <2>1. PICK t \in {0, Late} : age' = [age EXCEPT ![<<"detection", d>>] = t]
    BY <1>1, <1>5
  <2>2. t \in 0..Late /\ <<"detection", d>> \in Item /\ <<"detection", d>>[1] = "detection"
    BY <1>5
  <2>3. /\ age' \in [Item -> 0..Late \cup {None}] /\ UNCHANGED version
        /\ \A i \in Item : i # <<"detection", d>> => age'[i] = age[i]
        /\ age'[<<"detection", d>>] = t
    BY <1>1, <1>5, <2>1, <2>2
  <2> QED
    BY <2>1, <2>2, <2>3
<1>6. ASSUME NEW s \in Setup, SetupChanges(s)
      PROVE  /\ AgeTypes' /\ \A i \in Item : age'[i] \in {age[i], 0}
             /\ \A i \in Item : i[1] # "setup" => age'[i] = age[i]
             /\ \A t \in Setup : version'[t] = version[t] \/ age'[Card(t)] = 0
  BY <1>2, <1>6, AnnouncementsAssumption
<1>7. ASSUME NEW j \in Journey, JourneyCloses(j)
      PROVE  /\ AgeTypes' /\ \A i \in Item : age'[i] \in {age[i], 0}
             /\ \A i \in Item : i[1] # "outcome" => age'[i] = age[i]
  <2>1. /\ age' = [age EXCEPT ![<<"outcome", j>>] = 0] /\ UNCHANGED version
        /\ <<"outcome", j>> \in Item /\ <<"outcome", j>>[1] = "outcome"
    BY <1>3, <1>7
  <2>2. /\ age' \in [Item -> 0..Late \cup {None}]
        /\ \A i \in Item : i # <<"outcome", j>> => age'[i] = age[i]
        /\ age'[<<"outcome", j>>] = 0
    BY <2>1
  <2> QED
    BY <2>1, <2>2
<1> QED
  BY <1>1, <1>2, <1>3, <1>4, <1>5, <1>6, <1>7 DEF World

LEMMA LaggingState ==
    ASSUME NEW x \in BotState
    PROVE  LET y == [x EXCEPT !.lag = 1] IN
           /\ y \in BotState /\ y.lag = 1
           /\ y.pc = x.pc /\ y.part = x.part /\ y.todo = x.todo /\ y.item = x.item
           /\ y.seen = x.seen
BY DEF BotState

\* A tick makes everything older and every sweep under way one that spans a tick.
LEMMA TickFacts ==
    ASSUME AlertsTypeOK, AgeTypes, BotTypes, RestTypes, Tick
    PROVE  /\ UNCHANGED <<version, rows, posts, card, troubles>>
           /\ swept = Bot /\ swept' = {} /\ AlertsAge
           /\ AgeTypes' /\ BotTypes' /\ RestTypes'
           /\ \A i \in Item : age'[i] = IF age[i] \in {None, Old, Late} THEN age[i]
                                                                        ELSE age[i] + 1
           /\ \A b \in Bot :
                 /\ bot'[b].pc = bot[b].pc /\ bot'[b].part = bot[b].part
                 /\ bot'[b].todo = bot[b].todo /\ bot'[b].item = bot[b].item
                 /\ bot'[b].seen = bot[b].seen
                 /\ bot'[b].lag = IF Sweeping(b) THEN 1 ELSE bot[b].lag
<1>1. /\ UNCHANGED <<version, rows, posts, card, troubles>>
      /\ swept = Bot /\ swept' = {} /\ AlertsAge
  BY DEF Tick, discord
<1>2. \A i \in Item : age'[i] = IF age[i] \in {None, Old, Late} THEN age[i] ELSE age[i] + 1
  BY DEF Tick
<1>3. age' = [i \in Item |-> age'[i]]
  BY DEF Tick
<1>4. ASSUME NEW i \in Item
      PROVE  age'[i] \in (0..Late) \cup {None}
  BY <1>2, <1>4, WindowFacts DEF AgeTypes
<1>5. AgeTypes'
  BY <1>1, <1>3, <1>4 DEF AgeTypes
<1>6. bot' = [b \in Bot |-> IF ~Sweeping(b) THEN bot[b] ELSE [bot[b] EXCEPT !.lag = 1]]
  BY DEF Tick, Sweeping, At
<1>7. ASSUME NEW b \in Bot
      PROVE  /\ bot'[b] \in BotState
             /\ bot'[b].pc = bot[b].pc /\ bot'[b].part = bot[b].part
             /\ bot'[b].todo = bot[b].todo /\ bot'[b].item = bot[b].item
             /\ bot'[b].seen = bot[b].seen
             /\ bot'[b].lag = IF Sweeping(b) THEN 1 ELSE bot[b].lag
  <2>1. CASE Sweeping(b)
    <3>1. bot'[b] = [bot[b] EXCEPT !.lag = 1]
      BY <1>6, <1>7, <2>1
    <3> QED
      BY <1>7, <2>1, <3>1, LaggingState DEF BotTypes
  <2>2. CASE ~Sweeping(b)
    BY <1>6, <1>7, <2>2 DEF BotTypes
  <2> QED
    BY <2>1, <2>2
<1>8. BotTypes'
  BY <1>6, <1>7 DEF BotTypes
<1> QED
  BY <1>1, <1>2, <1>5, <1>7, <1>8 DEF RestTypes

\* The lists a sweep makes: its first, or the one of its next part.
LEMMA ListingsShape ==
    ASSUME BotTypes, AgeTypes, NEW b \in Bot, Listings(b)
    PROVE  /\ UNCHANGED <<rows, posts, card, swept, troubles>>
           /\ BotTypes'
           /\ \E part \in 1..4 :
                 /\ Becomes(b, Listing(bot[b], part))
                 /\ \/ At(b, "idle") /\ part = 1
                    \/ At(b, "next") /\ bot[b].todo = {} /\ part = bot[b].part + 1
<1>1. /\ UNCHANGED <<rows, posts, card, swept, troubles>>
      /\ \/ At(b, "idle") /\ Lists(b, 1)
         \/ At(b, "next") /\ bot[b].todo = {} /\ bot[b].part < 4 /\ Lists(b, bot[b].part + 1)
  BY PartsShape DEF Listings, StartSweep, NextPart, discord
<1>2. bot[b] \in BotState /\ bot[b].part \in 1..4
  BY DEF BotTypes, BotState
<1>3. PICK part \in 1..4 :
          /\ Lists(b, part)
          /\ \/ At(b, "idle") /\ part = 1
             \/ At(b, "next") /\ bot[b].todo = {} /\ part = bot[b].part + 1
  BY <1>1, <1>2
<1>4. Becomes(b, Listing(bot[b], part))
  BY <1>3, BotMoves
<1>5. BotTypes'
  BY <1>2, <1>4, Becoming, ListingState DEF AgeTypes
<1> QED
  BY <1>1, <1>3, <1>4, <1>5

\* What one claim changes.
ClaimsFor(i) ==
    /\ ~rows[i].claimed
    /\ rows' = [rows EXCEPT ![i].claimed = TRUE]

LEMMA ClaimsForShape ==
    ASSUME RowTypes, NEW i \in Item, ClaimsFor(i)
    PROVE  /\ rows' \in [Item -> [claimed : BOOLEAN, failed : BOOLEAN, message : BOOLEAN]]
           /\ rows'[i].claimed /\ \A j \in Item \ {i} : rows'[j] = rows[j]
           /\ \A j \in Item : rows'[j].message = rows[j].message
           /\ \A j \in Item : rows[j].claimed => rows'[j].claimed
<1>1. /\ rows'[i] = [rows[i] EXCEPT !.claimed = TRUE]
      /\ \A j \in Item \ {i} : rows'[j] = rows[j]
      /\ rows' = [j \in Item |-> rows'[j]]
  BY DEF ClaimsFor, RowTypes
<1>2. /\ rows'[i] \in [claimed : BOOLEAN, failed : BOOLEAN, message : BOOLEAN]
      /\ rows'[i].claimed = TRUE /\ rows'[i].message = rows[i].message
  BY <1>1 DEF RowTypes
<1> QED
  BY <1>1, <1>2 DEF RowTypes

\* What becomes of one thing of a sweep's list.
LEMMA TakesShape ==
    ASSUME BotTypes, NEW b \in Bot, Takes(b)
    PROVE  /\ UNCHANGED <<posts, card, swept, troubles>>
           /\ At(b, "next")
           /\ \E i \in Item \cap bot[b].todo :
                 \/ \E j \in Item :
                       /\ i[1] = "detection" /\ j[1] = "journey"
                       /\ ClaimsFor(j) /\ Becomes(b, Gone(bot[b], "root", j))
                 \/ ClaimsFor(i) /\ Becomes(b, Gone(bot[b], "send", i))
                 \/ /\ rows[i].claimed /\ UNCHANGED rows
                    /\ Editable(i) /\ Becomes(b, Gone(bot[b], "edit", i))
                 \/ /\ rows[i].claimed /\ UNCHANGED rows
                    /\ ~Editable(i) /\ Becomes(b, [bot[b] EXCEPT !.todo = @ \ {i}])
<1>1. PICK i \in Item : OpenThread(b, i) \/ Claim(b, i) \/ Claimless(b, i)
  BY DEF Takes
<1>2. /\ UNCHANGED <<posts, card, swept, troubles>>
      /\ At(b, "next") /\ i \in bot[b].todo
  BY <1>1 DEF OpenThread, Claim, Claimless, discord
<1>3. CASE OpenThread(b, i)
  <2>1. PICK r \in Roots(i) : ~rows[r].claimed /\ Claimed(r) /\ Goes(b, "root", r)
    BY <1>3 DEF OpenThread, Claimable
  <2>2. i[1] = "detection" /\ \E j \in {JourneyOf[i[2]]} \ {None} : r = <<"journey", j>>
    BY <2>1 DEF Roots, Of
  <2>3. i[2] \in Detection
    BY <2>2 DEF Item, Of
  <2>4. r \in Item /\ r[1] = "journey"
    BY <2>2, <2>3, AnnouncementsAssumption DEF Item, Of
  <2>5. Becomes(b, Gone(bot[b], "root", r))
    BY <2>1, BotMoves
  <2> QED
    BY <1>2, <2>1, <2>2, <2>4, <2>5 DEF Claimed, ClaimsFor
<1>4. CASE Claim(b, i)
  <2>1. ~rows[i].claimed /\ Claimed(i) /\ Goes(b, "send", i)
    BY <1>4 DEF Claim, Claimable
  <2>2. Becomes(b, Gone(bot[b], "send", i))
    BY <2>1, BotMoves
  <2> QED
    BY <1>2, <2>1, <2>2 DEF Claimed, ClaimsFor
<1>5. CASE Claimless(b, i)
  <2>1. rows[i].claimed /\ UNCHANGED rows
    BY <1>5 DEF Claimless
  <2>2. CASE Editable(i)
    <3>1. Goes(b, "edit", i)
      BY <1>5, <2>2 DEF Claimless
    <3>2. Becomes(b, Gone(bot[b], "edit", i))
      BY <3>1, BotMoves
    <3> QED
      BY <1>2, <2>1, <2>2, <3>2
  <2>3. CASE ~Editable(i)
    <3>1. bot' = [bot EXCEPT ![b].todo = @ \ {i}]
      BY <1>5, <2>3 DEF Claimless
    <3>2. Becomes(b, [bot[b] EXCEPT !.todo = @ \ {i}])
      BY <3>1 DEF Becomes
    <3> QED
      BY <1>2, <2>1, <2>3, <3>2
  <2> QED
    BY <2>2, <2>3
<1> QED
  BY <1>1, <1>3, <1>4, <1>5

LEMMA SkippedState ==
    ASSUME NEW x \in BotState, NEW i
    PROVE  /\ [x EXCEPT !.todo = @ \ {i}] \in BotState
           /\ [x EXCEPT !.todo = @ \ {i}].pc = x.pc /\ [x EXCEPT !.todo = @ \ {i}].item = x.item
           /\ [x EXCEPT !.todo = @ \ {i}].todo = x.todo \ {i}
           /\ [x EXCEPT !.todo = @ \ {i}].part = x.part /\ [x EXCEPT !.todo = @ \ {i}].lag = x.lag
           /\ [x EXCEPT !.todo = @ \ {i}].seen = x.seen
BY DEF BotState

\* What a post changes: the message may be there, and a card then shows what the sweep saw.
Written(b, i) ==
    \/ posts' = [posts EXCEPT ![i] = @ + 1] /\ card' = Shown(b)
    \/ UNCHANGED <<posts, card>>

LEMMA PostsShape ==
    ASSUME BotTypes, NEW b \in Bot, Posts(b)
    PROVE  LET i == bot[b].item IN
           /\ UNCHANGED <<swept, troubles>>
           /\ \/ /\ At(b, "root") /\ Becomes(b, Left(bot[b])) /\ UNCHANGED card
                 /\ posts' \in {posts, [posts EXCEPT ![i] = @ + 1]}
                 /\ \/ rows' = [rows EXCEPT ![i].message = TRUE]
                    \/ rows' = [rows EXCEPT ![i].failed = TRUE]
              \/ /\ At(b, "send") /\ UNCHANGED rows
                 /\ posts' = [posts EXCEPT ![i] = @ + 1] /\ card' = Shown(b)
                 /\ i[1] = "setup" /\ Becomes(b, Gone(bot[b], "record", i))
              \/ /\ At(b, "send") /\ UNCHANGED rows
                 /\ posts' = [posts EXCEPT ![i] = @ + 1] /\ card' = Shown(b)
                 /\ i[1] # "setup" /\ Becomes(b, Left(bot[b]))
              \/ /\ At(b, "send") /\ UNCHANGED rows /\ Written(b, i)
                 /\ Becomes(b, Gone(bot[b], "mark", i))
<1>1. CASE PostRoot(b)
  BY <1>1, BotMoves DEF PostRoot
<1>2. CASE Send(b)
  BY <1>2, BotMoves DEF Send
<1>3. CASE SendFails(b)
  BY <1>3, BotMoves DEF SendFails, Written, discord
<1> QED
  BY <1>1, <1>2, <1>3 DEF Posts

LEMMA NotesShape ==
    ASSUME BotTypes, NEW b \in Bot, Notes(b)
    PROVE  LET i == bot[b].item IN
           /\ UNCHANGED <<posts, card, swept, troubles>>
           /\ Becomes(b, Left(bot[b]))
           /\ \/ At(b, "record") /\ rows' = [rows EXCEPT ![i].message = TRUE]
              \/ At(b, "mark") /\ rows' = [rows EXCEPT ![i].failed = TRUE]
BY BotMoves DEF Notes, Record, Mark, discord

LEMMA EditsShape ==
    ASSUME BotTypes, NEW b \in Bot, Edits(b)
    PROVE  LET i == bot[b].item IN
           /\ UNCHANGED <<posts, rows, swept>> /\ At(b, "edit")
           /\ \/ card' = Shown(b) /\ Becomes(b, Left(bot[b])) /\ UNCHANGED troubles
              \/ /\ UNCHANGED card /\ Becomes(b, Gone(bot[b], "mark", i))
                 /\ troubles' = troubles + 1 /\ troubles < MaxTroubles
<1>1. CASE Edit(b)
  BY <1>1, BotMoves DEF Edit
<1>2. CASE EditFails(b)
  BY <1>2, BotMoves DEF EditFails, discord
<1> QED
  BY <1>1, <1>2 DEF Edits

\* What a note changes.
LEMMA NotedRows ==
    ASSUME RowTypes, NEW i \in Item,
           \/ rows' = [rows EXCEPT ![i].message = TRUE]
           \/ rows' = [rows EXCEPT ![i].failed = TRUE]
    PROVE  /\ rows' \in [Item -> [claimed : BOOLEAN, failed : BOOLEAN, message : BOOLEAN]]
           /\ \A j \in Item : rows'[j].claimed <=> rows[j].claimed
           /\ \A j \in Item \ {i} : rows'[j] = rows[j]
           /\ rows' = [rows EXCEPT ![i].failed = TRUE] => rows'[i].message = rows[i].message
BY DEF RowTypes

\* What a card shows after a post or an edit.
LEMMA ShownCards ==
    ASSUME BotTypes, RowTypes, NEW b \in Bot
    PROVE  /\ Shown(b) \in [Setup -> 0..LastVersion]
           /\ \A s \in Setup : Shown(b)[s] = IF bot[b].item = Card(s) THEN bot[b].seen[s]
                                                                     ELSE card[s]
BY DEF Shown, BotTypes, BotState, RowTypes, Card

LEMMA PostedTypes ==
    ASSUME RowTypes, NEW i \in Item, posts' \in {posts, [posts EXCEPT ![i] = @ + 1]}
    PROVE  /\ posts' \in [Item -> Nat]
           /\ \A j \in Item \ {i} : posts'[j] = posts[j]
           /\ posts'[i] \in {posts[i], posts[i] + 1}
BY DEF RowTypes

\* Every variable keeps its type.
LEMMA BotStepTypes ==
    ASSUME TypeOK, PostInv, NEW b \in Bot, BotStep(b)
    PROVE  TypeOK'
<1>1. AlertsTypeOK /\ AgeTypes /\ RowTypes /\ BotTypes /\ RestTypes
  BY TypeParts
<1>2. AlertsTypeOK' /\ AgeTypes'
  BY <1>1, BotFrame DEF AlertsTypeOK, AgeTypes
<1>. SUFFICES RowTypes' /\ BotTypes' /\ RestTypes'
  BY <1>2, PartsShape DEF TypeOK, AgeTypes, RowTypes, BotTypes, RestTypes, BotState
<1>3. bot[b] \in BotState
  BY <1>1 DEF BotTypes
<1>4. ~(bot[b].pc \in {"down", "idle", "next"}) => bot[b].item \in Item
  BY DEF PostInv
<1>5. CASE Listings(b)
  BY <1>1, <1>5, ListingsShape DEF RowTypes, RestTypes
<1>6. CASE Takes(b)
  <2>1. UNCHANGED <<posts, card, swept, troubles>>
    BY <1>1, <1>6, TakesShape
  <2>2. PICK i \in Item \cap bot[b].todo :
                 \/ \E j \in Item :
                       /\ i[1] = "detection" /\ j[1] = "journey"
                       /\ ClaimsFor(j) /\ Becomes(b, Gone(bot[b], "root", j))
                 \/ ClaimsFor(i) /\ Becomes(b, Gone(bot[b], "send", i))
                 \/ /\ rows[i].claimed /\ UNCHANGED rows
                    /\ Editable(i) /\ Becomes(b, Gone(bot[b], "edit", i))
                 \/ /\ rows[i].claimed /\ UNCHANGED rows
                    /\ ~Editable(i) /\ Becomes(b, [bot[b] EXCEPT !.todo = @ \ {i}])
    BY <1>1, <1>6, TakesShape
  <2>3. BotTypes'
    <3>1. PICK x \in BotState : Becomes(b, x)
      BY <1>3, <2>2, GoneState, SkippedState
    <3> QED
      BY <1>1, <3>1, Becoming
  <2>4. RowTypes'
    BY <1>1, <2>1, <2>2, ClaimsForShape DEF RowTypes
  <2> QED
    BY <1>1, <2>1, <2>3, <2>4 DEF RestTypes
<1>7. CASE Posts(b)
  <2>1. bot[b].item \in Item
    BY <1>1, <1>4, <1>7, PostsShape DEF At
  <2>2. BotTypes'
    <3>1. PICK x \in BotState : Becomes(b, x)
      BY <1>1, <1>3, <1>7, <2>1, PostsShape, GoneState, LeftState
    <3> QED
      BY <1>1, <3>1, Becoming
  <2>3. rows' \in [Item -> [claimed : BOOLEAN, failed : BOOLEAN, message : BOOLEAN]]
    BY <1>1, <1>7, <2>1, PostsShape, NotedRows DEF RowTypes
  <2>4. posts' \in [Item -> Nat]
    BY <1>1, <1>7, <2>1, PostsShape, PostedTypes DEF RowTypes, Written
  <2>5. card' \in [Setup -> 0..LastVersion]
    BY <1>1, <1>7, PostsShape, ShownCards DEF RowTypes, Written
  <2> QED
    BY <1>1, <1>7, <2>2, <2>3, <2>4, <2>5, PostsShape DEF RestTypes, RowTypes
<1>8. CASE Notes(b)
  <2>1. bot[b].item \in Item
    BY <1>1, <1>4, <1>8, NotesShape DEF At
  <2>2. BotTypes'
    BY <1>1, <1>3, <1>8, NotesShape, Becoming, LeftState
  <2>3. RowTypes'
    BY <1>1, <1>8, <2>1, NotesShape, NotedRows DEF RowTypes
  <2> QED
    BY <1>1, <1>8, <2>2, <2>3, NotesShape DEF RestTypes
<1>9. CASE Edits(b)
  <2>1. bot[b].item \in Item
    BY <1>1, <1>4, <1>9, EditsShape DEF At
  <2>2. BotTypes'
    BY <1>1, <1>3, <1>9, <2>1, EditsShape, Becoming, LeftState, GoneState
  <2>3. card' \in [Setup -> 0..LastVersion]
    BY <1>1, <1>9, EditsShape, ShownCards DEF RowTypes
  <2>4. RowTypes'
    BY <1>1, <1>9, <2>3, EditsShape DEF RowTypes
  <2>5. RestTypes'
    BY <1>1, <1>9, EditsShape, AnnouncementsAssumption DEF RestTypes
  <2> QED
    BY <2>2, <2>4, <2>5
<1>10. CASE Ends(b)
  <2>1. RestTypes' /\ UNCHANGED <<rows, posts, card>>
    BY <1>1, <1>10, EndsFrame
  <2>2. BotTypes'
    BY <1>1, <1>10, EndsFrame, Becoming, AsleepState
  <2> QED
    BY <1>1, <2>1, <2>2 DEF RowTypes
<1> QED
  BY <1>5, <1>6, <1>7, <1>8, <1>9, <1>10 DEF BotStep

LEMMA TypeStep ==
    ASSUME TypeOK, PostInv, Next
    PROVE  TypeOK'
<1>1. AlertsTypeOK /\ AgeTypes /\ RowTypes /\ BotTypes /\ RestTypes
  BY TypeParts
<1>2. CASE World
  <2>1. AgeTypes' /\ AlertsTypeOK'
    BY <1>1, <1>2, WorldAges, AlertsTypes DEF AlertsTypeOK
  <2>2. RowTypes' /\ BotTypes' /\ RestTypes'
    BY <1>1, <1>2, WorldFrame DEF RowTypes, BotTypes, RestTypes
  <2> QED
    BY <2>1, <2>2, PartsShape
       DEF TypeOK, AgeTypes, RowTypes, BotTypes, RestTypes, BotState
<1>3. CASE Tick
  <2>1. AlertsTypeOK' /\ AgeTypes' /\ BotTypes' /\ RestTypes'
    BY <1>1, <1>3, TickFacts, AlertsTypes
  <2>2. RowTypes'
    BY <1>1, <1>3, TickFacts DEF RowTypes
  <2> QED
    BY <2>1, <2>2, PartsShape
       DEF TypeOK, AgeTypes, RowTypes, BotTypes, RestTypes, BotState
<1> QED
  BY <1>2, <1>3, BotStepTypes, Steps

(***************************************************************************)
(* The same, by the fields of the bot that moves.                          *)
(***************************************************************************)

\* Within a sweep's part, only what the bot is at and what it has still to do change.
Moved(b, pc, i, todo) ==
    /\ bot'[b].pc = pc /\ bot'[b].item = i /\ bot'[b].todo = todo
    /\ bot'[b].part = bot[b].part /\ bot'[b].lag = bot[b].lag /\ bot'[b].seen = bot[b].seen
    /\ \A c \in Bot \ {b} : bot'[c] = bot[c]

LEMMA GoneMoves ==
    ASSUME BotTypes, NEW b \in Bot, NEW i \in Item,
           NEW pc \in {"root", "send", "record", "mark", "edit"},
           Becomes(b, Gone(bot[b], pc, i))
    PROVE  Moved(b, pc, i, bot[b].todo \ {i})
<1>1. bot[b] \in BotState
  BY DEF BotTypes
<1>2. /\ bot'[b] = Gone(bot[b], pc, i)
      /\ \A c \in Bot \ {b} : bot'[c] = bot[c]
  BY Becoming
<1>3. LET y == Gone(bot[b], pc, i) IN
      /\ y.pc = pc /\ y.item = i /\ y.todo = bot[b].todo \ {i} /\ y.part = bot[b].part
      /\ y.lag = bot[b].lag /\ y.seen = bot[b].seen
  BY <1>1 DEF Gone, BotState
<1> QED
  BY <1>2, <1>3 DEF Moved

LEMMA LeftMoves ==
    ASSUME BotTypes, NEW b \in Bot, Becomes(b, Left(bot[b]))
    PROVE  Moved(b, "next", None, bot[b].todo)
<1>1. bot[b] \in BotState
  BY DEF BotTypes
<1>2. /\ bot'[b] = Left(bot[b])
      /\ \A c \in Bot \ {b} : bot'[c] = bot[c]
  BY Becoming
<1> QED
  BY <1>1, <1>2, LeftState DEF Moved

LEMMA ListingsMove ==
    ASSUME BotTypes, AgeTypes, NEW b \in Bot, Listings(b)
    PROVE  \E part \in 1..4 :
              /\ \/ At(b, "idle") /\ part = 1
                 \/ At(b, "next") /\ bot[b].todo = {} /\ part = bot[b].part + 1
              /\ bot'[b].pc = "next" /\ bot'[b].part = part
              /\ bot'[b].todo = Due(part, bot[b].lag) /\ bot'[b].lag = bot[b].lag
              /\ bot'[b].seen = IF Parts[part] = "setup" THEN version ELSE Unseen
              /\ \A c \in Bot \ {b} : bot'[c] = bot[c]
<1>1. bot[b] \in BotState
  BY DEF BotTypes
<1>2. PICK part \in 1..4 :
          /\ Becomes(b, Listing(bot[b], part))
          /\ \/ At(b, "idle") /\ part = 1
             \/ At(b, "next") /\ bot[b].todo = {} /\ part = bot[b].part + 1
  BY ListingsShape
<1>3. /\ bot'[b] = Listing(bot[b], part)
      /\ \A c \in Bot \ {b} : bot'[c] = bot[c]
  BY <1>2, Becoming
<1> QED
  BY <1>1, <1>2, <1>3, ListingState DEF AgeTypes

LEMMA TakesMove ==
    ASSUME BotTypes, NEW b \in Bot, Takes(b)
    PROVE  \E i \in Item \cap bot[b].todo :
              \/ \E j \in Item :
                    /\ i[1] = "detection" /\ j[1] = "journey" /\ ClaimsFor(j)
                    /\ Moved(b, "root", j, bot[b].todo \ {j})
              \/ ClaimsFor(i) /\ Moved(b, "send", i, bot[b].todo \ {i})
              \/ /\ rows[i].claimed /\ UNCHANGED rows /\ Editable(i)
                 /\ Moved(b, "edit", i, bot[b].todo \ {i})
              \/ /\ rows[i].claimed /\ UNCHANGED rows /\ ~Editable(i)
                 /\ Moved(b, "next", bot[b].item, bot[b].todo \ {i})
<1>1. PICK i \in Item \cap bot[b].todo :
                 \/ \E j \in Item :
                       /\ i[1] = "detection" /\ j[1] = "journey"
                       /\ ClaimsFor(j) /\ Becomes(b, Gone(bot[b], "root", j))
                 \/ ClaimsFor(i) /\ Becomes(b, Gone(bot[b], "send", i))
                 \/ /\ rows[i].claimed /\ UNCHANGED rows
                    /\ Editable(i) /\ Becomes(b, Gone(bot[b], "edit", i))
                 \/ /\ rows[i].claimed /\ UNCHANGED rows
                    /\ ~Editable(i) /\ Becomes(b, [bot[b] EXCEPT !.todo = @ \ {i}])
  BY TakesShape
<1>2. Becomes(b, [bot[b] EXCEPT !.todo = @ \ {i}]) =>
          Moved(b, "next", bot[b].item, bot[b].todo \ {i})
  <2> HAVE Becomes(b, [bot[b] EXCEPT !.todo = @ \ {i}])
  <2>1. bot[b] \in BotState /\ bot[b].pc = "next"
    BY TakesShape DEF BotTypes, At
  <2>2. /\ bot'[b] = [bot[b] EXCEPT !.todo = @ \ {i}]
        /\ \A c \in Bot \ {b} : bot'[c] = bot[c]
    BY Becoming
  <2> QED
    BY <2>1, <2>2, SkippedState DEF Moved
<1> QED
  BY <1>1, <1>2, GoneMoves

LEMMA PostsMove ==
    ASSUME BotTypes, NEW b \in Bot, Posts(b), bot[b].item \in Item
    PROVE  LET i == bot[b].item IN
           /\ At(b, "root") \/ At(b, "send")
           /\ posts' \in {posts, [posts EXCEPT ![i] = @ + 1]}
           /\ \/ /\ At(b, "root") /\ Moved(b, "next", None, bot[b].todo) /\ UNCHANGED card
                 /\ \/ rows' = [rows EXCEPT ![i].message = TRUE]
                    \/ rows' = [rows EXCEPT ![i].failed = TRUE]
              \/ /\ At(b, "send") /\ UNCHANGED rows /\ card' = Shown(b)
                 /\ \/ i[1] = "setup" /\ Moved(b, "record", i, bot[b].todo \ {i})
                    \/ i[1] # "setup" /\ Moved(b, "next", None, bot[b].todo)
              \/ /\ At(b, "send") /\ UNCHANGED rows /\ card' \in {card, Shown(b)}
                 /\ Moved(b, "mark", i, bot[b].todo \ {i})
BY PostsShape, GoneMoves, LeftMoves DEF Written

LEMMA NotesMove ==
    ASSUME BotTypes, NEW b \in Bot, Notes(b)
    PROVE  Moved(b, "next", None, bot[b].todo)
BY NotesShape, LeftMoves

LEMMA EditsMove ==
    ASSUME BotTypes, NEW b \in Bot, Edits(b), bot[b].item \in Item
    PROVE  \/ /\ card' = Shown(b) /\ UNCHANGED troubles
              /\ Moved(b, "next", None, bot[b].todo)
           \/ /\ UNCHANGED card /\ troubles' = troubles + 1 /\ troubles < MaxTroubles
              /\ Moved(b, "mark", bot[b].item, bot[b].todo \ {bot[b].item})
BY EditsShape, GoneMoves, LeftMoves

LEMMA EndsMove ==
    ASSUME BotTypes, RestTypes, NEW b \in Bot, Ends(b)
    PROVE  /\ bot'[b].pc \in {"idle", "down"} /\ bot'[b].todo = {} /\ bot'[b].lag = 0
           /\ \A c \in Bot \ {b} : bot'[c] = bot[c]
BY EndsFrame, Becoming DEF Asleep

(***************************************************************************)
(* One post for each claim.                                                *)
(***************************************************************************)

Busy(b) == ~(bot[b].pc \in {"down", "idle", "next"})

\* PostInv, apart: of the rows, of a bot in the middle of something, of two of them.
PostRows == \A i \in Item : posts[i] <= 1 /\ (~rows[i].claimed => posts[i] = 0 /\ ~rows[i].message)
PostBots == \A b \in Bot : Busy(b) =>
               /\ bot[b].item \in Item /\ rows[bot[b].item].claimed
               /\ At(b, "root") \/ At(b, "send") => posts[bot[b].item] = 0
               /\ At(b, "edit") => rows[bot[b].item].message
PostOne == \A b \in Bot, i \in Item : Posting(b, i) =>
               /\ ~rows[i].message
               /\ \A c \in Bot : Posting(c, i) => c = b

LEMMA PostParts == PostInv <=> PostRows /\ PostBots /\ PostOne
BY DEF PostInv, PostRows, PostBots, PostOne, Busy

\* A step that posts nothing and starts nothing.
LEMMA PostStutter ==
    ASSUME PostInv, UNCHANGED <<rows, posts>>,
           \A b \in Bot : \/ bot'[b].pc \in {"down", "idle", "next"}
                          \/ bot'[b].pc = bot[b].pc /\ bot'[b].item = bot[b].item
    PROVE  PostInv'
<1> USE PostParts DEF PostRows, PostBots, PostOne, Busy, At, Posting
<1>1. \A b \in Bot, i \in Item : Posting(b, i)' => Posting(b, i)
  OBVIOUS
<1>2. PostRows'
  OBVIOUS
<1>3. PostBots'
  OBVIOUS
<1>4. PostOne'
  BY <1>1
<1> QED
  BY <1>2, <1>3, <1>4 DEF PostInv

\* A claim puts one thing into one sweep's hands.
LEMMA PostClaim ==
    ASSUME PostInv, RowTypes, NEW b \in Bot, ~Busy(b), NEW k \in Item, ClaimsFor(k),
           UNCHANGED posts, \A c \in Bot \ {b} : bot'[c] = bot[c],
           bot'[b].pc \in {"root", "send"}, bot'[b].item = k
    PROVE  PostInv'
<1> USE PostParts DEF Busy, At, Posting
<1>1. /\ \A i \in Item : rows[i].claimed => rows'[i].claimed
      /\ \A i \in Item : rows'[i].message = rows[i].message
      /\ \A i \in Item \ {k} : rows'[i] = rows[i]
      /\ rows'[k].claimed
  BY ClaimsForShape
<1>2. ~rows[k].claimed /\ posts[k] = 0 /\ ~rows[k].message
  BY DEF ClaimsFor, PostRows
<1>3. \A c \in Bot : ~Posting(c, k)
  BY <1>2 DEF PostBots
<1>4. PostRows'
  BY <1>1, <1>2 DEF PostRows
<1>5. PostBots'
  <2> SUFFICES ASSUME NEW c \in Bot, Busy(c)'
               PROVE  (/\ bot[c].item \in Item /\ rows[bot[c].item].claimed
                       /\ At(c, "root") \/ At(c, "send") => posts[bot[c].item] = 0
                       /\ At(c, "edit") => rows[bot[c].item].message)'
    BY DEF PostBots
  <2>1. CASE c = b
    BY <1>1, <1>2, <2>1
  <2>2. CASE c # b
    BY <1>1, <2>2 DEF PostBots
  <2> QED
    BY <2>1, <2>2
<1>6. PostOne'
  <2> SUFFICES ASSUME NEW c \in Bot, NEW i \in Item, Posting(c, i)'
               PROVE  ~rows'[i].message /\ \A d \in Bot : Posting(d, i)' => d = c
    BY DEF PostOne
  <2>1. CASE i = k
    BY <1>1, <1>2, <1>3, <2>1
  <2>2. CASE i # k
    <3>1. c # b
      BY <2>2
    <3>2. Posting(c, i)
      BY <3>1
    <3>3. \A d \in Bot : Posting(d, i)' => Posting(d, i)
      BY <2>2
    <3> QED
      BY <1>1, <3>2, <3>3 DEF PostOne
  <2> QED
    BY <2>1, <2>2
<1> QED
  BY <1>4, <1>5, <1>6 DEF PostInv, PostRows, PostBots, PostOne

\* A bot that posts, or notes what came of it, is the only one with that thing.
LEMMA PostDone ==
    ASSUME PostInv, RowTypes, NEW b \in Bot, Busy(b),
           \A c \in Bot \ {b} : bot'[c] = bot[c],
           \/ bot'[b].pc = "next"
           \/ bot'[b].pc = "mark" /\ bot'[b].item = bot[b].item
           \/ At(b, "send") /\ bot'[b].pc = "record" /\ bot'[b].item = bot[b].item,
           \/ UNCHANGED posts
           \/ /\ At(b, "root") \/ At(b, "send")
              /\ posts' \in {posts, [posts EXCEPT ![bot[b].item] = @ + 1]},
           \/ UNCHANGED rows
           \/ rows' = [rows EXCEPT ![bot[b].item].failed = TRUE]
           \/ /\ rows' = [rows EXCEPT ![bot[b].item].message = TRUE]
              /\ At(b, "root") \/ At(b, "record")
              /\ bot'[b].pc = "next"
    PROVE  PostInv'
<1> USE PostParts DEF Busy, At, Posting
<1> DEFINE k == bot[b].item
<1>1. k \in Item /\ rows[k].claimed
  BY DEF PostBots
<1>2. /\ \A i \in Item : rows'[i].claimed <=> rows[i].claimed
      /\ \A i \in Item \ {k} : rows'[i] = rows[i]
      /\ rows[k].message => rows'[k].message
      /\ rows'[k].message => \/ rows[k].message
                             \/ Posting(b, k) /\ bot'[b].pc = "next"
  <2>1. CASE UNCHANGED rows
    BY <2>1
  <2>2. CASE rows' = [rows EXCEPT ![k].failed = TRUE]
    BY <1>1, <2>2, NotedRows
  <2>3. CASE rows' = [rows EXCEPT ![k].message = TRUE] /\ (At(b, "root") \/ At(b, "record"))
             /\ bot'[b].pc = "next"
    <3>1. rows'[k].message = TRUE
      BY <1>1, <2>3 DEF RowTypes
    <3> QED
      BY <1>1, <2>3, <3>1, NotedRows
  <2> QED
    BY <2>1, <2>2, <2>3
<1>3. /\ \A i \in Item \ {k} : posts'[i] = posts[i]
      /\ posts'[k] # posts[k] => /\ At(b, "root") \/ At(b, "send")
                                 /\ posts'[k] = 1
  <2>1. CASE UNCHANGED posts
    BY <2>1
  <2>2. CASE (At(b, "root") \/ At(b, "send"))
             /\ posts' \in {posts, [posts EXCEPT ![k] = @ + 1]}
    <3>1. posts[k] = 0
      BY <2>2 DEF PostBots
    <3> QED
      BY <1>1, <2>2, <3>1, PostedTypes
  <2> QED
    BY <2>1, <2>2
<1> HIDE DEF k
<1>4. PostRows'
  BY <1>1, <1>2, <1>3 DEF PostRows
<1>5. PostBots'
  <2> SUFFICES ASSUME NEW c \in Bot, Busy(c)'
               PROVE  (/\ bot[c].item \in Item /\ rows[bot[c].item].claimed
                       /\ At(c, "root") \/ At(c, "send") => posts[bot[c].item] = 0
                       /\ At(c, "edit") => rows[bot[c].item].message)'
    BY DEF PostBots
  <2>1. CASE c = b
    BY <1>1, <1>2, <2>1 DEF k
  <2>2. CASE c # b
    <3>1. /\ bot[c].item \in Item /\ rows[bot[c].item].claimed
          /\ At(c, "root") \/ At(c, "send") => posts[bot[c].item] = 0
          /\ At(c, "edit") => rows[bot[c].item].message
          /\ bot'[c] = bot[c]
      BY <2>2 DEF PostBots
    <3>2. (At(c, "root") \/ At(c, "send")) /\ bot[c].item = k =>
            ~(At(b, "root") \/ At(b, "send"))
      BY <1>1, <2>2 DEF PostOne, k
    <3>3. rows'[bot[c].item].claimed
      BY <1>2, <3>1
    <3>4. At(c, "root") \/ At(c, "send") => posts'[bot[c].item] = 0
      BY <1>3, <3>1, <3>2
    <3>5. At(c, "edit") => rows'[bot[c].item].message
      BY <1>2, <3>1
    <3> QED
      BY <3>1, <3>3, <3>4, <3>5
  <2> QED
    BY <2>1, <2>2
<1>6. PostOne'
  <2> SUFFICES ASSUME NEW c \in Bot, NEW i \in Item, Posting(c, i)'
               PROVE  ~rows'[i].message /\ \A d \in Bot : Posting(d, i)' => d = c
    BY DEF PostOne
  <2>1. \A d \in Bot : Posting(d, i)' => Posting(d, i)
    BY DEF k
  <2>2. ~rows[i].message /\ \A d \in Bot : Posting(d, i)' => d = c
    BY <2>1 DEF PostOne
  <2>3. ~rows'[i].message
    <3>1. CASE i # k
      BY <1>2, <2>2, <3>1
    <3>2. CASE i = k
      <4>1. Posting(b, k) => c = b
        BY <1>1, <2>1, <3>2 DEF PostOne
      <4>2. ~(Posting(b, k) /\ bot'[b].pc = "next")
        BY <4>1
      <4> QED
        BY <1>2, <2>2, <3>2, <4>2
    <3> QED
      BY <3>1, <3>2
  <2> QED
    BY <2>2, <2>3
<1> QED
  BY <1>4, <1>5, <1>6 DEF PostInv, PostRows, PostBots, PostOne

LEMMA PostStep ==
    ASSUME TypeOK, PostInv, Next
    PROVE  PostInv'
<1>1. AlertsTypeOK /\ AgeTypes /\ RowTypes /\ BotTypes /\ RestTypes
  BY TypeParts
<1>2. CASE World
  BY <1>2, WorldFrame, PostStutter
<1>3. CASE Tick
  BY <1>1, <1>3, TickFacts, PostStutter
<1>4. ASSUME NEW b \in Bot, BotStep(b)
      PROVE  PostInv'
  <2>1. bot[b] \in BotState
    BY <1>1 DEF BotTypes
  <2>2. CASE Listings(b)
    BY <1>1, <2>2, ListingsShape, ListingsMove, PostStutter
  <2>3. CASE Takes(b)
    <3>1. PICK i \in Item \cap bot[b].todo :
              \/ \E j \in Item :
                    /\ i[1] = "detection" /\ j[1] = "journey" /\ ClaimsFor(j)
                    /\ Moved(b, "root", j, bot[b].todo \ {j})
              \/ ClaimsFor(i) /\ Moved(b, "send", i, bot[b].todo \ {i})
              \/ /\ rows[i].claimed /\ UNCHANGED rows /\ Editable(i)
                 /\ Moved(b, "edit", i, bot[b].todo \ {i})
              \/ /\ rows[i].claimed /\ UNCHANGED rows /\ ~Editable(i)
                 /\ Moved(b, "next", bot[b].item, bot[b].todo \ {i})
      BY <1>1, <2>3, TakesMove
    <3>2. UNCHANGED posts /\ ~Busy(b) /\ bot[b].pc = "next"
      BY <1>1, <2>3, TakesShape DEF Busy, At
    <3>3. ASSUME NEW k \in Item, ClaimsFor(k), NEW pc \in {"root", "send"},
                 Moved(b, pc, k, bot[b].todo \ {k})
          PROVE  PostInv'
      BY <1>1, <3>2, <3>3, PostClaim DEF Moved
    <3>4. CASE rows[i].claimed /\ UNCHANGED rows /\ Editable(i)
               /\ Moved(b, "edit", i, bot[b].todo \ {i})
      <4>1. /\ bot'[b].pc = "edit" /\ bot'[b].item = i
            /\ \A c \in Bot \ {b} : bot'[c] = bot[c]
        BY <3>4 DEF Moved
      <4>2. \A c \in Bot, j \in Item : Posting(c, j)' => Posting(c, j)
        BY <4>1 DEF Posting
      <4>3. rows[i].message
        BY <3>4 DEF Editable
      <4>4. PostBots'
        BY <3>2, <3>4, <4>1, <4>3, PostParts DEF PostBots, Busy, At
      <4> QED
        BY <3>2, <3>4, <4>2, <4>4, PostParts DEF PostInv, PostRows, PostBots, PostOne, Busy
    <3>5. CASE rows[i].claimed /\ UNCHANGED rows
               /\ Moved(b, "next", bot[b].item, bot[b].todo \ {i})
      BY <3>2, <3>5, PostStutter DEF Moved
    <3> QED
      BY <3>1, <3>3, <3>4, <3>5
  <2>4. CASE Posts(b) \/ Notes(b) \/ Edits(b)
    <3>1. Busy(b) /\ bot[b].item \in Item
      BY <1>1, <2>4, PostsShape, NotesShape, EditsShape, PostParts DEF Busy, At, PostBots
    <3>2. CASE Posts(b)
      BY <1>1, <3>1, <3>2, PostsMove, PostDone DEF Moved
    <3>3. CASE Notes(b)
      BY <1>1, <3>1, <3>3, NotesShape, NotesMove, PostDone DEF Moved
    <3>4. CASE Edits(b)
      BY <1>1, <3>1, <3>4, EditsShape, EditsMove, PostDone DEF Moved
    <3> QED
      BY <2>4, <3>2, <3>3, <3>4
  <2>5. CASE Ends(b)
    BY <1>1, <2>5, EndsFrame, EndsMove, PostStutter
  <2> QED
    BY <1>4, <2>2, <2>3, <2>4, <2>5 DEF BotStep
<1> QED
  BY <1>2, <1>3, <1>4, Steps

(***************************************************************************)
(* What a sweep is about.                                                  *)
(***************************************************************************)

\* SweepInv, apart: of a bot, of the things.
SweepOf(b) ==
    /\ ~Sweeping(b) => bot[b].todo = {} /\ bot[b].lag = 0
    /\ b \in swept => bot[b].lag = 0
    /\ \A i \in bot[b].todo : i[1] = Parts[bot[b].part] /\ age[i] # None
    /\ At(b, "root") => bot[b].item[1] = "journey"
    /\ bot[b].pc \in {"send", "record", "mark", "edit"} =>
           bot[b].item[1] = Parts[bot[b].part]
    /\ At(b, "record") \/ At(b, "edit") => bot[b].item[1] = "setup"
SweepItems == \A i \in Item : IF i[1] = "journey" THEN age[i] = None
                                                  ELSE rows[i].claimed => age[i] # None

LEMMA SweepParts == SweepInv <=> (\A b \in Bot : SweepOf(b)) /\ SweepItems
BY DEF SweepInv, SweepOf, SweepItems

\* A bot that does not move.
LEMMA SweepOther ==
    ASSUME BotTypes, NEW c \in Bot, SweepOf(c), bot'[c] = bot[c], c \in swept' => c \in swept,
           \A i \in Item : age[i] # None => age'[i] # None
    PROVE  SweepOf(c)'
<1>1. bot[c].todo \subseteq Item
  BY DEF BotTypes, BotState
<1> QED
  BY <1>1 DEF SweepOf, Sweeping, At

\* A bot that goes on with its sweep's part.
LEMMA SweepMoved ==
    ASSUME BotTypes, NEW b \in Bot, SweepOf(b), NEW pc \in {"next", "root", "send", "record", "mark", "edit"},
           NEW i, NEW todo \in SUBSET bot[b].todo, Moved(b, pc, i, todo),
           UNCHANGED <<age, swept>>,
           pc = "root" => i[1] = "journey",
           pc \in {"send", "record", "mark", "edit"} => i[1] = Parts[bot[b].part],
           pc \in {"record", "edit"} => i[1] = "setup"
    PROVE  SweepOf(b)'
<1>1. Sweeping(b)'
  BY DEF Moved, Sweeping, At
<1> QED
  BY <1>1 DEF SweepOf, Moved, At

LEMMA SweepStep ==
    ASSUME TypeOK, PostInv, SweepInv, Next
    PROVE  SweepInv'
<1>1. AlertsTypeOK /\ AgeTypes /\ RowTypes /\ BotTypes /\ RestTypes
  BY TypeParts
<1>2. (\A b \in Bot : SweepOf(b)) /\ SweepItems
  BY SweepParts
<1> SUFFICES (\A b \in Bot : SweepOf(b)') /\ SweepItems'
  BY DEF SweepInv, SweepOf, SweepItems
<1>3. CASE World
  <2>1. UNCHANGED <<rows, bot, swept>>
    BY <1>3, WorldFrame
  <2>2. /\ \A i \in Item : age[i] # None => age'[i] # None
        /\ \A i \in Item : i[1] = "journey" => age'[i] = age[i]
    BY <1>1, <1>3, WorldAges, WindowFacts
  <2>3. \A b \in Bot : SweepOf(b)'
    BY <1>1, <1>2, <2>1, <2>2, SweepOther
  <2>4. SweepItems'
    BY <1>2, <2>1, <2>2 DEF SweepItems
  <2> QED
    BY <2>3, <2>4
<1>4. CASE Tick
  <2>1. \A i \in Item : age'[i] = None <=> age[i] = None
    BY <1>1, <1>4, TickFacts, WindowFacts DEF AgeTypes
  <2>2. UNCHANGED rows /\ swept' = {}
    BY <1>1, <1>4, TickFacts
  <2>3. SweepItems'
    BY <1>2, <2>1, <2>2 DEF SweepItems
  <2>4. ASSUME NEW b \in Bot
        PROVE  SweepOf(b)'
    <3>1. /\ bot'[b].pc = bot[b].pc /\ bot'[b].part = bot[b].part
          /\ bot'[b].todo = bot[b].todo /\ bot'[b].item = bot[b].item
          /\ bot'[b].lag = IF Sweeping(b) THEN 1 ELSE bot[b].lag
      BY <1>1, <1>4, <2>4, TickFacts
    <3>2. bot[b].todo \subseteq Item /\ SweepOf(b)
      BY <1>1, <1>2, <2>4 DEF BotTypes, BotState
    <3> QED
      BY <2>1, <2>2, <3>1, <3>2 DEF SweepOf, Sweeping, At
  <2> QED
    BY <2>3, <2>4
<1>5. ASSUME NEW b \in Bot, BotStep(b)
      PROVE  (\A c \in Bot : SweepOf(c)') /\ SweepItems'
  <2>1. UNCHANGED <<age, version>>
    BY <1>5, BotFrame
  <2>2. bot[b] \in BotState /\ SweepOf(b)
    BY <1>1, <1>2, <1>5 DEF BotTypes
  <2>3. ASSUME \A c \in Bot \ {b} : bot'[c] = bot[c], UNCHANGED swept
        PROVE  \A c \in Bot \ {b} : SweepOf(c)'
    BY <1>1, <1>2, <2>1, <2>3, SweepOther
  <2>4. (\A i \in Item : rows'[i].claimed <=> rows[i].claimed) => SweepItems'
    BY <1>2, <2>1 DEF SweepItems
  <2>5. CASE Listings(b)
    <3>1. UNCHANGED <<rows, swept>>
      BY <1>1, <2>5, ListingsShape
    <3>2. PICK part \in 1..4 :
              /\ bot'[b].pc = "next" /\ bot'[b].part = part
              /\ bot'[b].todo = Due(part, bot[b].lag) /\ bot'[b].lag = bot[b].lag
              /\ \A c \in Bot \ {b} : bot'[c] = bot[c]
      BY <1>1, <2>5, ListingsMove
    <3>3. \A i \in Due(part, bot[b].lag) : i[1] = Parts[part] /\ age[i] # None
      BY DEF Due
    <3>4. SweepOf(b)'
      BY <2>1, <2>2, <3>1, <3>2, <3>3 DEF SweepOf, Sweeping, At
    <3> QED
      BY <2>3, <2>4, <3>1, <3>2, <3>4
  <2>6. CASE Takes(b)
    <3>1. UNCHANGED swept
      BY <1>1, <2>6, TakesShape
    <3>2. PICK i \in Item \cap bot[b].todo :
              \/ \E j \in Item :
                    /\ i[1] = "detection" /\ j[1] = "journey" /\ ClaimsFor(j)
                    /\ Moved(b, "root", j, bot[b].todo \ {j})
              \/ ClaimsFor(i) /\ Moved(b, "send", i, bot[b].todo \ {i})
              \/ /\ rows[i].claimed /\ UNCHANGED rows /\ Editable(i)
                 /\ Moved(b, "edit", i, bot[b].todo \ {i})
              \/ /\ rows[i].claimed /\ UNCHANGED rows /\ ~Editable(i)
                 /\ Moved(b, "next", bot[b].item, bot[b].todo \ {i})
      BY <1>1, <2>6, TakesMove
    <3>3. i[1] = Parts[bot[b].part] /\ age[i] # None
      BY <2>2, <3>2 DEF SweepOf
    <3>4. ASSUME NEW j \in Item, j[1] = "journey", ClaimsFor(j),
                 Moved(b, "root", j, bot[b].todo \ {j})
          PROVE  SweepOf(b)' /\ SweepItems' /\ \A c \in Bot \ {b} : bot'[c] = bot[c]
      <4>1. SweepOf(b)'
        BY <1>1, <2>1, <2>2, <3>1, <3>4, SweepMoved
      <4>2. SweepItems'
        BY <1>1, <1>2, <2>1, <3>4, ClaimsForShape DEF SweepItems
      <4> QED
        BY <3>4, <4>1, <4>2 DEF Moved
    <3>5. ASSUME ClaimsFor(i), Moved(b, "send", i, bot[b].todo \ {i})
          PROVE  SweepOf(b)' /\ SweepItems' /\ \A c \in Bot \ {b} : bot'[c] = bot[c]
      <4>1. SweepOf(b)'
        BY <1>1, <2>1, <2>2, <3>1, <3>3, <3>5, SweepMoved
      <4>2. SweepItems'
        BY <1>1, <1>2, <2>1, <3>3, <3>5, ClaimsForShape DEF SweepItems
      <4> QED
        BY <3>5, <4>1, <4>2 DEF Moved
    <3>6. ASSUME UNCHANGED rows, Editable(i), Moved(b, "edit", i, bot[b].todo \ {i})
          PROVE  SweepOf(b)' /\ SweepItems' /\ \A c \in Bot \ {b} : bot'[c] = bot[c]
      <4>1. SweepOf(b)'
        BY <1>1, <2>1, <2>2, <3>1, <3>3, <3>6, SweepMoved DEF Editable
      <4> QED
        BY <2>4, <3>6, <4>1 DEF Moved
    <3>7. ASSUME UNCHANGED rows, Moved(b, "next", bot[b].item, bot[b].todo \ {i})
          PROVE  SweepOf(b)' /\ SweepItems' /\ \A c \in Bot \ {b} : bot'[c] = bot[c]
      <4>1. SweepOf(b)'
        BY <1>1, <2>1, <2>2, <3>1, <3>7, SweepMoved
      <4> QED
        BY <2>4, <3>7, <4>1 DEF Moved
    <3>8. SweepOf(b)' /\ SweepItems' /\ \A c \in Bot \ {b} : bot'[c] = bot[c]
      BY <3>2, <3>4, <3>5, <3>6, <3>7
    <3> QED
      BY <2>3, <3>1, <3>8
  <2>7. CASE Posts(b) \/ Notes(b) \/ Edits(b)
    <3>1. UNCHANGED swept /\ Busy(b) /\ bot[b].item \in Item
      BY <1>1, <2>7, PostsShape, NotesShape, EditsShape, PostParts DEF Busy, At, PostBots
    <3>2. SweepItems'
      BY <1>1, <2>4, <2>7, <3>1, PostsMove, NotesShape, EditsShape, NotedRows
    <3>3. SweepOf(b)' /\ \A c \in Bot \ {b} : bot'[c] = bot[c]
      <4>1. ASSUME Moved(b, "next", None, bot[b].todo)
            PROVE  SweepOf(b)' /\ \A c \in Bot \ {b} : bot'[c] = bot[c]
        <5>1. SweepOf(b)'
          BY <1>1, <2>1, <2>2, <3>1, <4>1, SweepMoved
        <5> QED
          BY <4>1, <5>1 DEF Moved
      <4>2. ASSUME At(b, "send") \/ At(b, "edit"), NEW pc \in {"record", "mark"},
                   Moved(b, pc, bot[b].item, bot[b].todo \ {bot[b].item}),
                   pc = "record" => bot[b].item[1] = "setup"
            PROVE  SweepOf(b)' /\ \A c \in Bot \ {b} : bot'[c] = bot[c]
        <5>1. bot[b].item[1] = Parts[bot[b].part]
          BY <2>2, <4>2 DEF SweepOf, At
        <5>2. SweepOf(b)'
          BY <1>1, <2>1, <2>2, <3>1, <4>2, <5>1, SweepMoved
        <5> QED
          BY <4>2, <5>2 DEF Moved
      <4>3. CASE Posts(b)
        BY <1>1, <3>1, <4>1, <4>2, <4>3, PostsMove
      <4>4. CASE Notes(b)
        BY <1>1, <4>1, <4>4, NotesMove
      <4>5. CASE Edits(b)
        BY <1>1, <3>1, <4>1, <4>2, <4>5, EditsMove, EditsShape
      <4> QED
        BY <2>7, <4>3, <4>4, <4>5
    <3> QED
      BY <2>3, <3>1, <3>2, <3>3
  <2>8. CASE Ends(b)
    <3>1. UNCHANGED rows /\ swept' \subseteq swept \cup {b}
      BY <1>1, <2>8, EndsFrame
    <3>2. /\ bot'[b].pc \in {"idle", "down"} /\ bot'[b].todo = {} /\ bot'[b].lag = 0
          /\ \A c \in Bot \ {b} : bot'[c] = bot[c]
      BY <1>1, <2>8, EndsMove
    <3>3. SweepOf(b)'
      BY <3>2 DEF SweepOf, Sweeping, At
    <3>4. \A c \in Bot \ {b} : SweepOf(c)'
      BY <1>1, <1>2, <2>1, <3>1, <3>2, SweepOther
    <3> QED
      BY <2>4, <3>1, <3>3, <3>4
  <2> QED
    BY <1>5, <2>5, <2>6, <2>7, <2>8 DEF BotStep
<1> QED
  BY <1>3, <1>4, <1>5, Steps

(***************************************************************************)
(* Alerts, and what is new.                                                *)
(***************************************************************************)

LEMMA FiredStep ==
    ASSUME TypeOK, FiredInv, Next
    PROVE  FiredInv'
<1>1. AlertsTypeOK /\ AgeTypes /\ BotTypes /\ RestTypes
  BY TypeParts
<1> SUFFICES ASSUME NEW a \in Alert, age'[<<"alert", a>>] # None
             PROVE  alert'[a].status = "FIRED"
  BY DEF FiredInv
<1>2. <<"alert", a>> \in Item /\ <<"alert", a>>[1] = "alert" /\ <<"alert", a>>[2] = a
  BY ItemShape
<1>3. age[<<"alert", a>>] # None => alert[a].status = "FIRED"
  BY DEF FiredInv
<1>4. CASE World
  <2>1. CASE age'[<<"alert", a>>] = age[<<"alert", a>>]
    BY <1>1, <1>3, <1>4, <2>1, WorldAges, FiredStays
  <2>2. CASE age'[<<"alert", a>>] # age[<<"alert", a>>]
    <3>1. \A i \in Item : i[1] = "alert" /\ age'[i] # age[i] => alert'[i[2]].status = "FIRED"
      BY <1>1, <1>4, WorldAges
    <3> QED
      BY <1>2, <2>2, <3>1
  <2> QED
    BY <2>1, <2>2
<1>5. CASE Tick
  <2>1. age[<<"alert", a>>] # None /\ AlertsAge
    BY <1>1, <1>2, <1>5, TickFacts
  <2> QED
    BY <1>1, <1>3, <2>1, FiredStays
<1>6. CASE \E b \in Bot : BotStep(b)
  BY <1>3, <1>6, BotFrame
<1> QED
  BY <1>4, <1>5, <1>6, Steps

\* What a bot takes off its list has its row.
LEMMA GoesOn ==
    ASSUME TypeOK, PostInv, NEW b \in Bot, Takes(b) \/ Posts(b) \/ Notes(b) \/ Edits(b)
    PROVE  /\ UNCHANGED swept /\ \A c \in Bot \ {b} : bot'[c] = bot[c]
           /\ bot'[b].part = bot[b].part /\ bot'[b].lag = bot[b].lag
           /\ bot'[b].seen = bot[b].seen /\ Sweeping(b) /\ Sweeping(b)'
           /\ bot'[b].todo \subseteq bot[b].todo
           /\ \A i \in bot[b].todo \ bot'[b].todo : rows'[i].claimed
           /\ \A i \in Item : rows[i].claimed => rows'[i].claimed
<1>1. RowTypes /\ BotTypes
  BY TypeParts
<1>2. CASE Takes(b)
  <2>1. UNCHANGED swept /\ At(b, "next")
    BY <1>1, <1>2, TakesShape
  <2>2. PICK i \in Item \cap bot[b].todo :
              \/ \E j \in Item :
                    /\ i[1] = "detection" /\ j[1] = "journey" /\ ClaimsFor(j)
                    /\ Moved(b, "root", j, bot[b].todo \ {j})
              \/ ClaimsFor(i) /\ Moved(b, "send", i, bot[b].todo \ {i})
              \/ /\ rows[i].claimed /\ UNCHANGED rows /\ Editable(i)
                 /\ Moved(b, "edit", i, bot[b].todo \ {i})
              \/ /\ rows[i].claimed /\ UNCHANGED rows /\ ~Editable(i)
                 /\ Moved(b, "next", bot[b].item, bot[b].todo \ {i})
    BY <1>1, <1>2, TakesMove
  <2>3. PICK k \in Item, pc \in {"root", "send", "edit", "next"}, j \in Item \cup {None} :
          /\ Moved(b, pc, j, bot[b].todo \ {k})
          /\ ClaimsFor(k) \/ (rows[k].claimed /\ UNCHANGED rows)
    <3>1. bot[b].item \in Item \cup {None}
      BY <1>1 DEF BotTypes, BotState
    <3> QED
      BY <2>2, <3>1
  <2>4. rows'[k].claimed /\ \A l \in Item : rows[l].claimed => rows'[l].claimed
    BY <1>1, <2>3, ClaimsForShape
  <2> QED
    BY <2>1, <2>3, <2>4 DEF Moved, Sweeping, At
<1>3. CASE Posts(b) \/ Notes(b) \/ Edits(b)
  <2>1. /\ UNCHANGED swept /\ Busy(b) /\ bot[b].item \in Item
        /\ rows[bot[b].item].claimed
    BY <1>1, <1>3, PostsShape, NotesShape, EditsShape, PostParts DEF Busy, At, PostBots
  <2>2. \A i \in Item : rows'[i].claimed <=> rows[i].claimed
    BY <1>1, <1>3, <2>1, PostsMove, NotesShape, EditsShape, NotedRows
  <2>3. \/ Moved(b, "next", None, bot[b].todo)
        \/ \E pc \in {"record", "mark"} :
              Moved(b, pc, bot[b].item, bot[b].todo \ {bot[b].item})
    BY <1>1, <1>3, <2>1, PostsMove, NotesMove, EditsMove
  <2>4. Sweeping(b)
    BY <2>1 DEF Busy, Sweeping, At
  <2> QED
    BY <2>1, <2>2, <2>3, <2>4 DEF Moved, Sweeping, At
<1> QED
  BY <1>2, <1>3

\* FreshInv of one thing.
Fresh(i) == ~rows[i].claimed /\ age[i] \notin {None, Late}
FreshOf(b, i) == Sweeping(b) /\ BeganAfter(b, i) => ToCome(b, i)
FreshItem(i) == Fresh(i) => /\ age[i] <= 2
                            /\ age[i] = 2 => swept = {}
                            /\ \A b \in Bot : FreshOf(b, i)

\* Everything there is to say belongs to one part of a sweep.
LEMMA ComesTo ==
    ASSUME TypeOK, SweepItems, NEW i \in Item, age[i] # None
    PROVE  \E p \in 1..4 : Parts[p] = i[1]
BY ItemShape, PartsShape DEF SweepItems, Kinds

LEMMA Lasting ==
    ASSUME NEW b \in Bot, bot'[b].todo = bot[b].todo, bot'[b].part = bot[b].part, NEW i \in Item
    PROVE  ToCome(b, i)' <=> ToCome(b, i)
BY DEF ToCome

\* A list holds what its part is about, until it is older than the window.
LEMMA ListingKeeps ==
    ASSUME TypeOK, SweepItems, NEW b \in Bot, Listings(b), NEW i \in Item, age[i] # None,
           age[i] <= Window, At(b, "idle") \/ ToCome(b, i)
    PROVE  ToCome(b, i)'
<1>1. AgeTypes /\ BotTypes
  BY TypeParts
<1>2. PICK part \in 1..4 :
          /\ \/ At(b, "idle") /\ part = 1
             \/ At(b, "next") /\ bot[b].todo = {} /\ part = bot[b].part + 1
          /\ bot'[b].part = part /\ bot'[b].todo = Due(part, bot[b].lag)
  BY <1>1, ListingsMove
<1>3. PICK p \in 1..4 : Parts[p] = i[1]
  BY ComesTo
<1>4. p >= part
  <2>1. CASE At(b, "idle") /\ part = 1
    BY <2>1
  <2>2. CASE At(b, "next") /\ bot[b].todo = {} /\ part = bot[b].part + 1
    <3>1. PICK q \in 1..4 : Parts[q] = i[1] /\ bot[b].part < q
      BY <2>2, PartsShape DEF ToCome, At
    <3>2. q = p
      BY <1>3, <3>1, PartsShape
    <3>3. bot[b].part \in 1..4
      BY <1>1 DEF BotTypes, BotState
    <3> QED
      BY <2>2, <3>1, <3>2, <3>3
  <2> QED
    BY <1>2, <2>1, <2>2
<1>5. CASE p = part
  <2>1. bot[b].lag \in 0..1 /\ age[i] \in 0..Late
    BY <1>1 DEF BotTypes, BotState, AgeTypes
  <2>2. i \in Due(part, bot[b].lag)
    BY <1>3, <1>5, <2>1, WindowFacts DEF Due
  <2> QED
    BY <1>2, <2>2 DEF ToCome
<1>6. CASE p > part
  BY <1>2, <1>3, <1>6, PartsShape DEF ToCome
<1> QED
  BY <1>4, <1>5, <1>6

LEMMA FreshStep ==
    ASSUME TypeOK, PostInv, SweepInv, FreshInv, Next
    PROVE  FreshInv'
<1>1. AlertsTypeOK /\ AgeTypes /\ RowTypes /\ BotTypes /\ RestTypes
  BY TypeParts
<1>2. (\A b \in Bot : SweepOf(b)) /\ SweepItems
  BY SweepParts
<1> SUFFICES ASSUME NEW i \in Item, Fresh(i)'
             PROVE  /\ age'[i] <= 2
                    /\ age'[i] = 2 => swept' = {}
                    /\ \A b \in Bot : FreshOf(b, i)'
  BY DEF FreshInv, Fresh, FreshOf
<1>3. FreshItem(i)
  BY DEF FreshInv, FreshItem, Fresh, FreshOf
<1>4. age[i] \in (0..Late) \cup {None} /\ age'[i] # None /\ age'[i] # Late /\ ~rows'[i].claimed
  BY <1>1 DEF AgeTypes, Fresh
<1>5. CASE World
  <2>1. UNCHANGED <<rows, bot, swept>>
    BY <1>5, WorldFrame
  <2>2. age'[i] \in {age[i], 0, Late}
    BY <1>1, <1>5, WorldAges
  <2>3. CASE age'[i] = 0
    BY <2>3 DEF FreshOf, BeganAfter
  <2>4. CASE age'[i] = age[i]
    <3>1. Fresh(i)
      BY <1>4, <2>1, <2>4 DEF Fresh
    <3> QED
      BY <1>3, <2>1, <2>4, <3>1 DEF FreshItem, FreshOf, BeganAfter, ToCome, Sweeping, At
  <2> QED
    BY <1>4, <2>2, <2>3, <2>4
<1>6. CASE Tick
  <2>1. /\ UNCHANGED rows /\ swept = Bot /\ swept' = {}
        /\ age'[i] = IF age[i] \in {None, Old, Late} THEN age[i] ELSE age[i] + 1
    BY <1>1, <1>6, TickFacts
  <2>2. Fresh(i)
    BY <1>4, <2>1 DEF Fresh
  <2>3. age[i] \in 0..1
    BY <1>3, <1>4, <2>1, <2>2, AnnouncementsAssumption, WindowFacts DEF FreshItem, Fresh
  <2>4. age'[i] = age[i] + 1
    BY <2>1, <2>3, WindowFacts
  <2>5. ASSUME NEW b \in Bot
        PROVE  FreshOf(b, i)'
    <3>1. /\ bot'[b].part = bot[b].part /\ bot'[b].todo = bot[b].todo
          /\ Sweeping(b)' <=> Sweeping(b)
          /\ Sweeping(b) => bot'[b].lag = 1
      BY <1>1, <1>6, <2>5, TickFacts DEF Sweeping, At
    <3>2. bot[b].lag = 0
      BY <1>2, <2>1, <2>5 DEF SweepOf
    <3> SUFFICES ASSUME Sweeping(b)', BeganAfter(b, i)'
                 PROVE  ToCome(b, i)'
      BY DEF FreshOf
    <3>3. age[i] = 1
      BY <2>3, <2>4, <3>1 DEF BeganAfter
    <3>4. BeganAfter(b, i)
      BY <3>2, <3>3, WindowFacts DEF BeganAfter
    <3>5. ToCome(b, i)
      BY <1>3, <2>2, <2>5, <3>1, <3>4 DEF FreshItem, FreshOf
    <3> QED
      BY <2>5, <3>1, <3>5, Lasting
  <2> QED
    BY <2>1, <2>3, <2>4, <2>5
<1>7. ASSUME NEW b \in Bot, BotStep(b)
      PROVE  /\ age'[i] <= 2
             /\ age'[i] = 2 => swept' = {}
             /\ \A c \in Bot : FreshOf(c, i)'
  <2>1. UNCHANGED age
    BY <1>7, BotFrame
  <2>2. ASSUME ~rows[i].claimed, \A c \in Bot \ {b} : bot'[c] = bot[c], FreshOf(b, i)'
        PROVE  age'[i] <= 2 /\ \A c \in Bot : FreshOf(c, i)'
    <3>1. Fresh(i)
      BY <1>4, <2>1, <2>2 DEF Fresh
    <3>2. \A c \in Bot \ {b} : FreshOf(c, i)'
      BY <1>3, <2>1, <2>2, <3>1 DEF FreshItem, FreshOf, BeganAfter, ToCome, Sweeping, At
    <3> QED
      BY <1>3, <2>1, <2>2, <3>1, <3>2 DEF FreshItem
  <2>3. ASSUME ~rows[i].claimed
        PROVE  /\ age[i] <= 2 /\ (age[i] = 2 => swept = {}) /\ FreshOf(b, i)
    <3>1. Fresh(i)
      BY <1>4, <2>1, <2>3 DEF Fresh
    <3> QED
      BY <1>3, <1>7, <3>1 DEF FreshItem
  <2>4. CASE Listings(b)
    <3>1. UNCHANGED <<rows, swept>>
      BY <1>1, <2>4, ListingsShape
    <3>2. /\ At(b, "idle") \/ At(b, "next")
          /\ bot'[b].lag = bot[b].lag
          /\ \A c \in Bot \ {b} : bot'[c] = bot[c]
      BY <1>1, <2>4, ListingsMove
    <3>3. age[i] # None /\ age[i] <= Window
      BY <1>4, <2>1, <2>3, <3>1, WindowFacts
    <3>4. FreshOf(b, i)'
      <4> SUFFICES ASSUME BeganAfter(b, i)'
                   PROVE  ToCome(b, i)'
        BY DEF FreshOf
      <4>1. At(b, "idle") \/ ToCome(b, i)
        BY <1>4, <2>1, <2>3, <3>1, <3>2 DEF FreshOf, BeganAfter, Sweeping, At
      <4> QED
        BY <1>2, <2>4, <3>3, <4>1, ListingKeeps
    <3> QED
      BY <1>4, <2>1, <2>2, <2>3, <3>1, <3>2, <3>4
  <2>5. CASE Takes(b) \/ Posts(b) \/ Notes(b) \/ Edits(b)
    <3>1. /\ UNCHANGED swept /\ \A c \in Bot \ {b} : bot'[c] = bot[c]
          /\ bot'[b].part = bot[b].part /\ bot'[b].lag = bot[b].lag /\ Sweeping(b)
          /\ \A j \in bot[b].todo \ bot'[b].todo : rows'[j].claimed
          /\ \A j \in Item : rows[j].claimed => rows'[j].claimed
      BY <2>5, GoesOn
    <3>2. ~rows[i].claimed
      BY <1>4, <3>1
    <3>3. FreshOf(b, i)'
      BY <1>4, <2>1, <2>3, <3>1, <3>2 DEF FreshOf, BeganAfter, ToCome
    <3> QED
      BY <2>1, <2>2, <2>3, <3>1, <3>2, <3>3
  <2>6. CASE Ends(b)
    <3>1. UNCHANGED rows
      BY <1>1, <2>6, EndsFrame
    <3>2. /\ bot'[b].pc \in {"idle", "down"}
          /\ \A c \in Bot \ {b} : bot'[c] = bot[c]
      BY <1>1, <2>6, EndsMove
    <3>3. FreshOf(b, i)'
      BY <3>2 DEF FreshOf, Sweeping, At
    <3>4. ASSUME age'[i] = 2
          PROVE  swept' = {}
      <4>1. ~EndSweep(b)
        <5> SUFFICES ASSUME EndSweep(b)
                     PROVE  FALSE
          OBVIOUS
        <5>1. At(b, "next") /\ bot[b].todo = {} /\ bot[b].part = 4
          BY PartsShape DEF EndSweep
        <5>2. ToCome(b, i)
          BY <1>4, <2>1, <2>3, <3>1, <3>4, <5>1 DEF FreshOf, BeganAfter, Sweeping, At
        <5> QED
          BY <5>1, <5>2, PartsShape DEF ToCome
      <4> QED
        BY <1>1, <1>4, <2>1, <2>3, <2>6, <3>1, <3>4, <4>1, EndsFrame
    <3> QED
      BY <1>4, <2>2, <3>1, <3>2, <3>3, <3>4
  <2> QED
    BY <1>7, <2>4, <2>5, <2>6 DEF BotStep
<1> QED
  BY <1>5, <1>6, <1>7, Steps

(***************************************************************************)
(* Cards.                                                                  *)
(***************************************************************************)

\* SeenInv of one sweep and one card.
SeenOf(b, s) ==
    Sweeping(b) /\ Parts[bot[b].part] = "setup" /\ BeganAfter(b, Card(s)) =>
        bot[b].seen[s] = version[s]
SentOf(b, s) == At(b, "record") /\ bot[b].item = Card(s) => card[s] = bot[b].seen[s]

LEMMA SeenParts == SeenInv <=> \A b \in Bot, s \in Setup : SeenOf(b, s) /\ SentOf(b, s)
BY DEF SeenInv, SeenOf, SentOf

\* A card is written by the one sweep that has it, with what that sweep has seen.
LEMMA CardWrites ==
    ASSUME TypeOK, PostInv, NEW b \in Bot, BotStep(b), NEW s \in Setup, card'[s] # card[s]
    PROVE  /\ bot[b].item = Card(s) /\ card'[s] = bot[b].seen[s] /\ UNCHANGED rows
           /\ \/ Posts(b) /\ At(b, "send")
              \/ Edits(b) /\ At(b, "edit")
<1>1. RowTypes /\ BotTypes /\ RestTypes /\ AgeTypes
  BY TypeParts
<1>2. card' # card
  OBVIOUS
<1>3. card' = Shown(b) => bot[b].item = Card(s) /\ card'[s] = bot[b].seen[s]
  BY <1>1, ShownCards
<1>4. ~Listings(b) /\ ~Takes(b) /\ ~Notes(b) /\ ~Ends(b)
  BY <1>1, <1>2, ListingsShape, TakesShape, NotesShape, EndsFrame
<1>5. CASE Posts(b)
  BY <1>1, <1>2, <1>3, <1>5, PostsShape DEF Written
<1>6. CASE Edits(b)
  BY <1>1, <1>2, <1>3, <1>6, EditsShape
<1> QED
  BY <1>4, <1>5, <1>6 DEF BotStep

\* The message of a card is known when its sender has recorded it.
LEMMA MessageWrites ==
    ASSUME TypeOK, PostInv, SweepInv, NEW b \in Bot, BotStep(b), NEW s \in Setup,
           rows'[Card(s)].message, ~rows[Card(s)].message
    PROVE  Notes(b) /\ At(b, "record") /\ bot[b].item = Card(s)
<1>1. RowTypes /\ BotTypes /\ RestTypes /\ AgeTypes
  BY TypeParts
<1>2. rows' # rows /\ Card(s) \in Item /\ Card(s)[1] = "setup"
  BY CardShape
<1>3. ~Listings(b) /\ ~Edits(b) /\ ~Ends(b)
  BY <1>1, <1>2, ListingsShape, EditsShape, EndsFrame
<1>4. ~Takes(b)
  BY <1>1, <1>2, TakesShape, ClaimsForShape
<1>5. Busy(b) => bot[b].item \in Item
  BY PostParts DEF PostBots
<1>6. SweepOf(b)
  BY SweepParts
<1>7. ~Posts(b)
  <2> SUFFICES ASSUME Posts(b)
               PROVE  FALSE
    OBVIOUS
  <2>1. /\ At(b, "root")
        /\ \/ rows' = [rows EXCEPT ![bot[b].item].message = TRUE]
           \/ rows' = [rows EXCEPT ![bot[b].item].failed = TRUE]
    BY <1>1, <1>2, PostsShape
  <2>2. bot[b].item \in Item /\ bot[b].item # Card(s)
    BY <1>2, <1>5, <1>6, <2>1 DEF SweepOf, Busy, At
  <2> QED
    BY <1>1, <1>2, <2>1, <2>2, NotedRows
<1>8. CASE Notes(b)
  <2>1. \/ At(b, "record") /\ rows' = [rows EXCEPT ![bot[b].item].message = TRUE]
        \/ At(b, "mark") /\ rows' = [rows EXCEPT ![bot[b].item].failed = TRUE]
    BY <1>1, <1>8, NotesShape
  <2>2. bot[b].item \in Item
    BY <1>5, <2>1 DEF Busy, At
  <2>3. bot[b].item = Card(s)
    BY <1>1, <1>2, <2>1, <2>2, NotedRows
  <2>4. ~(rows' = [rows EXCEPT ![bot[b].item].failed = TRUE])
    BY <1>1, <1>2, <2>2, <2>3, NotedRows
  <2> QED
    BY <1>8, <2>1, <2>3, <2>4
<1> QED
  BY <1>3, <1>4, <1>7, <1>8 DEF BotStep

LEMMA SeenStep ==
    ASSUME TypeOK, PostInv, SweepInv, SeenInv, Next
    PROVE  SeenInv'
<1>1. AlertsTypeOK /\ AgeTypes /\ RowTypes /\ BotTypes /\ RestTypes
  BY TypeParts
<1>2. (\A b \in Bot : SweepOf(b)) /\ SweepItems
  BY SweepParts
<1> SUFFICES ASSUME NEW c \in Bot, NEW s \in Setup
             PROVE  SeenOf(c, s)' /\ SentOf(c, s)'
  BY DEF SeenInv, SeenOf, SentOf
<1>3. SeenOf(c, s) /\ SentOf(c, s)
  BY SeenParts
<1>4. Card(s) \in Item /\ age[Card(s)] \in (0..Late) \cup {None}
  BY <1>1, CardShape DEF AgeTypes
<1>5. CASE World
  <2>1. UNCHANGED <<card, bot>>
    BY <1>5, WorldFrame
  <2>2. /\ version'[s] = version[s] \/ age'[Card(s)] = 0
        /\ age'[Card(s)] \in {age[Card(s)], 0}
    BY <1>1, <1>5, WorldAges
  <2>3. BeganAfter(c, Card(s))' => BeganAfter(c, Card(s)) /\ version'[s] = version[s]
    BY <2>1, <2>2 DEF BeganAfter
  <2> QED
    BY <1>3, <2>1, <2>3 DEF SeenOf, SentOf, Sweeping, At
<1>6. CASE Tick
  <2>1. /\ UNCHANGED <<version, card>> /\ swept = Bot
        /\ age'[Card(s)] = IF age[Card(s)] \in {None, Old, Late} THEN age[Card(s)]
                                                                  ELSE age[Card(s)] + 1
        /\ bot'[c].pc = bot[c].pc /\ bot'[c].part = bot[c].part
        /\ bot'[c].item = bot[c].item /\ bot'[c].seen = bot[c].seen
        /\ bot'[c].lag = IF Sweeping(c) THEN 1 ELSE bot[c].lag
    BY <1>1, <1>4, <1>6, TickFacts
  <2>2. bot[c].lag = 0
    BY <1>2, <2>1 DEF SweepOf
  <2>3. Sweeping(c) /\ BeganAfter(c, Card(s))' => BeganAfter(c, Card(s))
    BY <1>4, <2>1, <2>2, WindowFacts DEF BeganAfter
  <2> QED
    BY <1>3, <2>1, <2>3 DEF SeenOf, SentOf, Sweeping, At
<1>7. ASSUME NEW b \in Bot, BotStep(b)
      PROVE  SeenOf(c, s)' /\ SentOf(c, s)'
  <2>1. UNCHANGED <<age, version>>
    BY <1>7, BotFrame
  <2>2. CASE bot'[c] = bot[c]
    <3>1. SeenOf(c, s)'
      BY <1>3, <2>1, <2>2 DEF SeenOf, BeganAfter, Sweeping, At
    <3>2. ASSUME At(c, "record"), bot[c].item = Card(s), card'[s] # card[s]
          PROVE  FALSE
      <4>1. bot[b].item = Card(s) /\ (At(b, "send") \/ At(b, "edit"))
        BY <1>7, <3>2, CardWrites
      <4>2. Posting(c, Card(s)) /\ ~rows[Card(s)].message /\ b # c
        BY <1>4, <3>2, <4>1, PostParts DEF PostOne, Posting, At
      <4>3. ~At(b, "edit")
        BY <4>1, <4>2, PostParts DEF PostBots, Busy, At
      <4>4. Posting(b, Card(s))
        BY <4>1, <4>3 DEF Posting, At
      <4> QED
        BY <1>4, <4>2, <4>4, PostParts DEF PostOne
    <3>3. SentOf(c, s)'
      BY <1>3, <2>2, <3>2 DEF SentOf, At
    <3> QED
      BY <3>1, <3>3
  <2>3. CASE Listings(b) /\ c = b
    <3>1. /\ bot'[c].pc = "next"
          /\ Parts[bot'[c].part] = "setup" => bot'[c].seen = version
      BY <1>1, <2>3, ListingsMove
    <3> QED
      BY <2>1, <3>1 DEF SeenOf, SentOf, At
  <2>4. CASE (Takes(b) \/ Posts(b) \/ Notes(b) \/ Edits(b)) /\ c = b
    <3>1. /\ bot'[c].part = bot[c].part /\ bot'[c].lag = bot[c].lag
          /\ bot'[c].seen = bot[c].seen /\ Sweeping(c)
      BY <2>4, GoesOn
    <3>2. SeenOf(c, s)'
      BY <1>3, <2>1, <3>1 DEF SeenOf, BeganAfter
    <3>3. SentOf(c, s)'
      <4> SUFFICES ASSUME bot'[c].pc = "record", bot'[c].item = Card(s)
                   PROVE  card'[s] = bot'[c].seen[s]
        BY DEF SentOf, At
      <4>1. ~Takes(c)
        BY <1>1, TakesMove, TakesShape DEF Moved, At
      <4>2. ~Notes(c)
        BY <1>1, <4>1, NotesMove DEF Moved
      <4>3. Busy(c) /\ bot[c].item \in Item
        BY <1>1, <2>4, <4>1, <4>2, PostsShape, EditsShape, PostParts DEF Busy, At, PostBots
      <4>4. ~Edits(c)
        BY <1>1, <4>3, EditsMove DEF Moved
      <4>5. card' = Shown(c) /\ bot'[c].item = bot[c].item
        BY <1>1, <2>4, <4>1, <4>2, <4>3, <4>4, PostsMove DEF Moved
      <4> QED
        BY <1>1, <3>1, <4>5, ShownCards
    <3> QED
      BY <3>2, <3>3
  <2>5. CASE Ends(b) /\ c = b
    <3>1. bot'[c].pc \in {"idle", "down"}
      BY <1>1, <2>5, EndsMove
    <3> QED
      BY <3>1 DEF SeenOf, SentOf, Sweeping, At
  <2>6. c # b => bot'[c] = bot[c]
    BY <1>1, <1>7, GoesOn, ListingsMove, EndsMove DEF BotStep
  <2> QED
    BY <1>7, <2>2, <2>3, <2>4, <2>5, <2>6 DEF BotStep
<1> QED
  BY <1>5, <1>6, <1>7, Steps

\* How a card comes to be stale after the first tick: a sweep that spans it wrote what it
\* had seen before the change.
LEMMA StaleStep ==
    ASSUME TypeOK, PostInv, SweepInv, SeenInv, NEW b \in Bot, BotStep(b), NEW s \in Setup,
           Stale(s)', age[Card(s)] \in 1..Late
    PROVE  \/ Stale(s) /\ card'[s] = card[s]
           \/ age[Card(s)] = 1 /\ bot'[b].lag = 1
<1>1. RowTypes /\ BotTypes /\ RestTypes /\ AgeTypes
  BY TypeParts
<1>2. UNCHANGED <<age, version>> /\ rows'[Card(s)].message /\ card'[s] # version[s]
  BY BotFrame DEF Stale
<1>3. SweepOf(b) /\ SeenOf(b, s) /\ SentOf(b, s) /\ bot[b] \in BotState
  BY <1>1, SweepParts, SeenParts DEF BotTypes
<1>4. Card(s) \in Item /\ Card(s)[1] = "setup"
  BY CardShape
<1>5. ASSUME At(b, "record") \/ At(b, "edit"), bot[b].item = Card(s),
             bot[b].seen[s] # version[s], Notes(b) \/ Edits(b)
      PROVE  age[Card(s)] = 1 /\ bot'[b].lag = 1
  <2>1. Sweeping(b) /\ Parts[bot[b].part] = "setup"
    BY <1>3, <1>4, <1>5 DEF SweepOf, Sweeping, At
  <2>2. ~BeganAfter(b, Card(s))
    BY <1>3, <1>5, <2>1 DEF SeenOf
  <2>3. bot[b].lag \in 0..1
    BY <1>3 DEF BotState
  <2>4. age[Card(s)] = 1 /\ bot[b].lag = 1
    BY <2>2, <2>3, WindowFacts DEF BeganAfter
  <2> QED
    BY <1>5, <2>4, GoesOn
<1>6. CASE card'[s] # card[s]
  <2>1. /\ bot[b].item = Card(s) /\ card'[s] = bot[b].seen[s] /\ UNCHANGED rows
        /\ \/ Posts(b) /\ At(b, "send")
           \/ Edits(b) /\ At(b, "edit")
    BY <1>6, CardWrites
  <2>2. ~At(b, "send")
    BY <1>2, <1>4, <2>1, PostParts DEF PostOne, Posting, At
  <2> QED
    BY <1>2, <1>5, <2>1, <2>2
<1>7. CASE card'[s] = card[s] /\ ~rows[Card(s)].message
  <2>1. Notes(b) /\ At(b, "record") /\ bot[b].item = Card(s)
    BY <1>2, <1>7, MessageWrites
  <2>2. bot[b].seen[s] # version[s]
    BY <1>2, <1>3, <1>7, <2>1 DEF SentOf
  <2> QED
    BY <1>5, <2>1, <2>2
<1>8. CASE card'[s] = card[s] /\ rows[Card(s)].message
  BY <1>2, <1>8 DEF Stale
<1> QED
  BY <1>6, <1>7, <1>8

\* How a sweep passes a card that has its message: by editing it, or failing to.
LEMMA PassesBy ==
    ASSUME TypeOK, PostInv, SweepInv, NEW b \in Bot, BotStep(b), NEW s \in Setup,
           rows[Card(s)].message, age[Card(s)] \in 1..Window, ~Passed(b, s), Passed(b, s)'
    PROVE  /\ At(b, "edit") /\ bot[b].item = Card(s) /\ Edits(b)
           /\ card'[s] = bot[b].seen[s] \/ troubles' = troubles + 1
<1>1. RowTypes /\ BotTypes /\ RestTypes /\ AgeTypes
  BY TypeParts
<1>2. Card(s) \in Item /\ Card(s)[1] = "setup"
  BY CardShape
<1>3. SweepOf(b) /\ SweepItems /\ rows[Card(s)].claimed
  BY <1>2, SweepParts, PostParts DEF PostRows
<1>4. /\ Sweeping(b)' /\ ~ToCome(b, Card(s))'
      /\ ~(bot'[b].pc = "edit" /\ bot'[b].item = Card(s))
  BY DEF Passed, At
<1>5. Sweeping(b) => ToCome(b, Card(s)) \/ (At(b, "edit") /\ bot[b].item = Card(s))
  BY DEF Passed
<1>6. ~Listings(b)
  <2> SUFFICES ASSUME Listings(b)
               PROVE  FALSE
    OBVIOUS
  <2>1. At(b, "idle") \/ At(b, "next")
    BY <1>1, ListingsMove
  <2>2. At(b, "idle") \/ ToCome(b, Card(s))
    BY <1>5, <2>1 DEF Sweeping, At
  <2>3. age[Card(s)] # None /\ age[Card(s)] <= Window
    BY WindowFacts
  <2> QED
    BY <1>2, <1>3, <1>4, <2>2, <2>3, ListingKeeps
<1>7. ~Ends(b)
  BY <1>1, <1>4, EndsMove DEF Sweeping, At
<1>8. ASSUME Takes(b) \/ Posts(b) \/ Notes(b) \/ Edits(b), ToCome(b, Card(s))
      PROVE  Card(s) \in bot[b].todo \ bot'[b].todo
  BY <1>4, <1>8, GoesOn DEF ToCome
<1>9. ~Takes(b)
  <2> SUFFICES ASSUME Takes(b)
               PROVE  FALSE
    OBVIOUS
  <2>1. At(b, "next")
    BY <1>1, TakesShape
  <2>2. Card(s) \in bot[b].todo \ bot'[b].todo
    BY <1>5, <1>8, <2>1 DEF Sweeping, At
  <2>3. PICK i \in Item \cap bot[b].todo :
              \/ \E j \in Item :
                    /\ i[1] = "detection" /\ j[1] = "journey" /\ ClaimsFor(j)
                    /\ Moved(b, "root", j, bot[b].todo \ {j})
              \/ ClaimsFor(i) /\ Moved(b, "send", i, bot[b].todo \ {i})
              \/ /\ rows[i].claimed /\ UNCHANGED rows /\ Editable(i)
                 /\ Moved(b, "edit", i, bot[b].todo \ {i})
              \/ /\ rows[i].claimed /\ UNCHANGED rows /\ ~Editable(i)
                 /\ Moved(b, "next", bot[b].item, bot[b].todo \ {i})
    BY <1>1, TakesMove
  <2>4. ~ClaimsFor(Card(s)) /\ Editable(Card(s))
    BY <1>2, <1>3 DEF ClaimsFor, Editable
  <2> QED
    BY <1>4, <2>2, <2>3, <2>4 DEF Moved
<1>10. ASSUME Posts(b) \/ Notes(b)
       PROVE  FALSE
  <2>1. Busy(b) /\ bot[b].item \in Item /\ ~At(b, "edit")
    BY <1>1, <1>10, PostsShape, NotesShape, PostParts DEF Busy, At, PostBots
  <2>2. Card(s) \in bot[b].todo \ bot'[b].todo
    BY <1>5, <1>8, <1>10, <2>1 DEF Busy, Sweeping, At
  <2>3. ~Notes(b)
    BY <1>1, <2>2, NotesMove DEF Moved
  <2>4. /\ At(b, "root") \/ At(b, "send")
        /\ bot'[b].todo = bot[b].todo \/ bot'[b].todo = bot[b].todo \ {bot[b].item}
    BY <1>1, <1>10, <2>1, <2>3, PostsMove DEF Moved
  <2>5. bot[b].item = Card(s)
    BY <2>2, <2>4
  <2> QED
    BY <1>2, <2>4, <2>5, PostParts DEF PostOne, Posting, At
<1>11. CASE Edits(b)
  <2>1. At(b, "edit") /\ bot[b].item \in Item
    BY <1>1, <1>11, EditsShape, PostParts DEF Busy, At, PostBots
  <2>2. /\ bot'[b].todo = bot[b].todo \/ bot'[b].todo = bot[b].todo \ {bot[b].item}
        /\ card' = Shown(b) \/ troubles' = troubles + 1
    BY <1>1, <1>11, <2>1, EditsMove DEF Moved
  <2>3. bot[b].item = Card(s)
    BY <1>5, <1>8, <1>11, <2>1, <2>2 DEF Sweeping, At
  <2> QED
    BY <1>1, <1>11, <2>1, <2>2, <2>3, ShownCards
<1> QED
  BY <1>6, <1>7, <1>9, <1>10, <1>11 DEF BotStep

\* The cost of a stale card, by its terms.
SweptOne(b) == IF b \in swept THEN 1 ELSE 0
PassedOne(b, s) == IF Passed(b, s) THEN 1 ELSE 0

CostIsTerms ==
    \A b \in Bot, s \in Setup :
        /\ Cost(b, s) = age[Card(s)] - 2 + SweptOne(b) + PassedOne(b, s)
        /\ SweptOne(b) \in 0..1 /\ PassedOne(b, s) \in 0..1
        /\ b \in swept <=> SweptOne(b) = 1
        /\ Passed(b, s) <=> PassedOne(b, s) = 1

LEMMA CostTerms == CostIsTerms
<1> SUFFICES ASSUME NEW b \in Bot, NEW s \in Setup
             PROVE  /\ Cost(b, s) = age[Card(s)] - 2 + SweptOne(b) + PassedOne(b, s)
                    /\ SweptOne(b) \in 0..1 /\ PassedOne(b, s) \in 0..1
                    /\ b \in swept <=> SweptOne(b) = 1
                    /\ Passed(b, s) <=> PassedOne(b, s) = 1
  BY DEF CostIsTerms
<1>1. SweptOne(b) \in 0..1 /\ (b \in swept <=> SweptOne(b) = 1)
  BY DEF SweptOne
<1>2. PassedOne(b, s) \in 0..1
  BY DEF PassedOne
<1>3. Passed(b, s) <=> PassedOne(b, s) = 1
  <2>1. CASE Passed(b, s)
    BY <2>1 DEF PassedOne
  <2>2. CASE ~Passed(b, s)
    BY <2>2 DEF PassedOne
  <2> QED
    BY <2>1, <2>2
<1>4. Cost(b, s) = age[Card(s)] - 2 + SweptOne(b) + PassedOne(b, s)
  BY DEF Cost, SweptOne, PassedOne
<1> QED
  BY <1>1, <1>2, <1>3, <1>4

LEMMA CostMoves ==
    ASSUME NEW b \in Bot, NEW s \in Setup, age[Card(s)] \in Nat, age'[Card(s)] \in Nat
    PROVE  /\ Cost(b, s) \in Int /\ Cost(b, s)' \in Int
           /\ UNCHANGED age /\ (b \in swept' => b \in swept) => Cost(b, s)' <= Cost(b, s) + 1
           /\ UNCHANGED age /\ (b \in swept' => b \in swept) /\ (Passed(b, s)' => Passed(b, s))
                  => Cost(b, s)' <= Cost(b, s)
           /\ UNCHANGED age /\ Passed(b, s) /\ ~Passed(b, s)' => Cost(b, s)' <= Cost(b, s)
           /\ /\ age'[Card(s)] = age[Card(s)] + 1 /\ b \in swept /\ swept' = {}
              /\ Passed(b, s)' => Passed(b, s)
              => Cost(b, s)' <= Cost(b, s)
<1>1. /\ Cost(b, s) = age[Card(s)] - 2 + SweptOne(b) + PassedOne(b, s)
      /\ SweptOne(b) \in 0..1 /\ PassedOne(b, s) \in 0..1
      /\ b \in swept <=> SweptOne(b) = 1
      /\ Passed(b, s) <=> PassedOne(b, s) = 1
  BY CostTerms DEF CostIsTerms
<1>2. /\ Cost(b, s)' = age'[Card(s)] - 2 + SweptOne(b)' + PassedOne(b, s)'
      /\ SweptOne(b)' \in 0..1 /\ PassedOne(b, s)' \in 0..1
      /\ b \in swept' <=> SweptOne(b)' = 1
      /\ Passed(b, s)' <=> PassedOne(b, s)' = 1
  <2>1. CostIsTerms'
    BY CostTerms, PTL
  <2> QED
    BY <2>1 DEF CostIsTerms
<1> QED
  BY <1>1, <1>2

\* CardInv of one card.
CardOf(s) == Stale(s) /\ age[Card(s)] # None =>
    /\ age[Card(s)] = 1 => \E b \in Bot : Passed(b, s) /\ bot[b].lag = 0 => troubles >= 1
    /\ age[Card(s)] \in 2..Window => \E b \in Bot : troubles >= Cost(b, s)
    /\ age[Card(s)] > Window => troubles >= Window - 1

\* A bot that is not the one that moves pays as it paid.
LEMMA PassedOther ==
    ASSUME NEW c \in Bot, bot'[c] = bot[c], NEW s \in Setup
    PROVE  Passed(c, s)' <=> Passed(c, s)
BY DEF Passed, Sweeping, ToCome, At

\* Failures keep up with the cost of a card that stays stale, whoever moves.
LEMMA CostStep ==
    ASSUME TypeOK, PostInv, SweepInv, SeenInv, NEW b \in Bot, BotStep(b), NEW s \in Setup,
           Stale(s), Stale(s)', card'[s] = card[s], NEW c \in Bot
    PROVE  /\ troubles' >= troubles
           /\ age[Card(s)] = 1 /\ (Passed(c, s) /\ bot[c].lag = 0 => troubles >= 1) =>
                  (Passed(c, s)' /\ bot'[c].lag = 0 => troubles' >= 1)
           /\ age[Card(s)] \in 2..Window /\ troubles >= Cost(c, s) => troubles' >= Cost(c, s)'
<1>1. RowTypes /\ BotTypes /\ RestTypes /\ AgeTypes
  BY TypeParts
<1>2. UNCHANGED <<age, version>> /\ rows[Card(s)].message /\ card'[s] # version[s]
  BY BotFrame DEF Stale
<1>3. SweepOf(b) /\ SeenOf(b, s) /\ bot[b] \in BotState
  BY <1>1, SweepParts, SeenParts DEF BotTypes
<1>4. Card(s) \in Item /\ Card(s)[1] = "setup" /\ troubles \in Nat
  BY <1>1, CardShape, AnnouncementsAssumption DEF RestTypes
<1>5. troubles' \in Nat /\ troubles' >= troubles
  <2>1. CASE Ends(b)
    BY <1>1, <1>4, <2>1, EndsFrame, AnnouncementsAssumption DEF RestTypes
  <2>2. CASE Edits(b)
    BY <1>1, <1>4, <2>2, EditsShape
  <2>3. CASE Listings(b) \/ Takes(b) \/ Posts(b) \/ Notes(b)
    <3>1. UNCHANGED troubles
      BY <1>1, <2>3, ListingsShape, TakesShape, PostsShape, NotesShape
    <3> QED
      BY <1>4, <3>1
  <2> QED
    BY <2>1, <2>2, <2>3 DEF BotStep
<1>6. bot'[b].lag = bot[b].lag \/ ~Passed(b, s)'
  <2>1. CASE Ends(b)
    BY <1>1, <2>1, EndsMove DEF Passed, Sweeping, At
  <2> QED
    BY <1>1, <2>1, GoesOn, ListingsMove DEF BotStep
<1>7. /\ c # b => bot'[c] = bot[c] /\ (c \in swept' => c \in swept)
      /\ ~Ends(b) => UNCHANGED swept
  BY <1>1, GoesOn, ListingsMove, ListingsShape, EndsMove, EndsFrame DEF BotStep
\* A sweep that passes the card now has failed to edit it, unless it began before the change.
<1>8. ASSUME age[Card(s)] \in 1..Window, ~Passed(b, s), Passed(b, s)', BeganAfter(b, Card(s))
      PROVE  troubles' = troubles + 1
  <2>1. /\ At(b, "edit") /\ bot[b].item = Card(s)
        /\ card'[s] = bot[b].seen[s] \/ troubles' = troubles + 1
    BY <1>2, <1>8, PassesBy
  <2>2. Sweeping(b) /\ Parts[bot[b].part] = "setup"
    BY <1>3, <1>4, <2>1 DEF SweepOf, Sweeping, At
  <2>3. bot[b].seen[s] = version[s]
    BY <1>3, <1>8, <2>2 DEF SeenOf
  <2> QED
    BY <1>2, <2>1, <2>3
<1>9. ASSUME age[Card(s)] = 1, Passed(c, s) /\ bot[c].lag = 0 => troubles >= 1,
             Passed(c, s)', bot'[c].lag = 0
      PROVE  troubles' >= 1
  <2>1. CASE c # b
    BY <1>4, <1>5, <1>7, <1>9, <2>1, PassedOther
  <2>2. CASE c = b /\ Passed(b, s)
    BY <1>4, <1>5, <1>6, <1>9, <2>2
  <2>3. CASE c = b /\ ~Passed(b, s)
    <3>1. BeganAfter(b, Card(s)) /\ age[Card(s)] \in 1..Window
      BY <1>6, <1>9, <2>3, WindowFacts DEF BeganAfter
    <3> QED
      BY <1>4, <1>8, <1>9, <2>3, <3>1
  <2> QED
    BY <2>1, <2>2, <2>3
<1>10. ASSUME age[Card(s)] \in 2..Window, troubles >= Cost(c, s)
       PROVE  troubles' >= Cost(c, s)'
  <2>1. age[Card(s)] \in Nat /\ age'[Card(s)] \in Nat
    BY <1>2, <1>10, WindowFacts
  <2>2. /\ Cost(c, s) \in Int /\ Cost(c, s)' \in Int
        /\ (c \in swept' => c \in swept) => Cost(c, s)' <= Cost(c, s) + 1
        /\ (c \in swept' => c \in swept) /\ (Passed(c, s)' => Passed(c, s))
               => Cost(c, s)' <= Cost(c, s)
        /\ Passed(c, s) /\ ~Passed(c, s)' => Cost(c, s)' <= Cost(c, s)
    BY <1>2, <2>1, CostMoves
  <2>3. CASE c # b
    <3>1. (c \in swept' => c \in swept) /\ (Passed(c, s)' => Passed(c, s))
      BY <1>7, <2>3, PassedOther
    <3> QED
      BY <1>4, <1>5, <1>10, <2>2, <3>1
  <2>4. CASE c = b /\ Ends(b)
    <3>1. ~Passed(b, s)'
      BY <1>1, <2>4, EndsMove DEF Passed, Sweeping, At
    <3>2. CASE EndSweep(b)
      <4>1. At(b, "next") /\ bot[b].todo = {} /\ bot[b].part = 4
        BY <3>2, PartsShape DEF EndSweep
      <4>2. Passed(b, s)
        BY <4>1, PartsShape DEF Passed, Sweeping, ToCome, At
      <4> QED
        BY <1>4, <1>5, <1>10, <2>2, <2>4, <3>1, <4>2
    <3>3. CASE ~EndSweep(b)
      <4>1. c \in swept' => c \in swept
        BY <1>1, <2>4, <3>3, EndsFrame
      <4> QED
        BY <1>4, <1>5, <1>10, <2>2, <2>4, <3>1, <4>1
    <3> QED
      BY <3>2, <3>3
  <2>5. CASE c = b /\ ~Ends(b)
    <3>1. c \in swept' => c \in swept
      BY <1>7, <2>5
    <3>2. CASE Passed(b, s)' => Passed(b, s)
      BY <1>4, <1>5, <1>10, <2>2, <2>5, <3>1, <3>2
    <3>3. CASE Passed(b, s)' /\ ~Passed(b, s)
      <4>1. BeganAfter(b, Card(s)) /\ age[Card(s)] \in 1..Window
        BY <1>10, WindowFacts DEF BeganAfter
      <4>2. troubles' = troubles + 1
        BY <1>8, <3>3, <4>1
      <4> QED
        BY <1>4, <1>10, <2>2, <3>1, <4>2
    <3> QED
      BY <3>2, <3>3
  <2> QED
    BY <2>3, <2>4, <2>5
<1> QED
  BY <1>5, <1>9, <1>10

LEMMA CardStep ==
    ASSUME TypeOK, PostInv, SweepInv, SeenInv, CardInv, Next
    PROVE  CardInv'
<1>1. AlertsTypeOK /\ AgeTypes /\ RowTypes /\ BotTypes /\ RestTypes
  BY TypeParts
<1> SUFFICES ASSUME NEW s \in Setup, Stale(s)', age'[Card(s)] # None
             PROVE  /\ age'[Card(s)] = 1 =>
                           \E b \in Bot : Passed(b, s)' /\ bot'[b].lag = 0 => troubles' >= 1
                    /\ age'[Card(s)] \in 2..Window => \E b \in Bot : troubles' >= Cost(b, s)'
                    /\ age'[Card(s)] > Window => troubles' >= Window - 1
  BY DEF CardInv
<1>2. CardOf(s)
  BY DEF CardInv, CardOf
<1>3. /\ Card(s) \in Item /\ age[Card(s)] \in (0..Late) \cup {None} /\ troubles \in Nat
  BY <1>1, CardShape, AnnouncementsAssumption DEF AgeTypes, RestTypes
<1>4. CASE World
  <2>1. UNCHANGED <<rows, card, bot, swept, troubles>>
    BY <1>4, WorldFrame
  <2>2. /\ version'[s] = version[s] \/ age'[Card(s)] = 0
        /\ age'[Card(s)] \in {age[Card(s)], 0}
    BY <1>1, <1>4, WorldAges
  <2>3. CASE age'[Card(s)] = 0
    BY <2>3, WindowFacts
  <2>4. CASE age'[Card(s)] = age[Card(s)] /\ version'[s] = version[s]
    <3>1. Stale(s) /\ age[Card(s)] # None
      BY <2>1, <2>4 DEF Stale
    <3>2. \A b \in Bot : Passed(b, s)' <=> Passed(b, s)
      BY <2>1, PassedOther
    <3>3. \A b \in Bot : Cost(b, s)' = Cost(b, s)
      <4>1. ASSUME NEW b \in Bot
            PROVE  Cost(b, s)' = Cost(b, s)
        <5>1. PassedOne(b, s)' = PassedOne(b, s)
          BY <3>2, <4>1 DEF PassedOne
        <5>2. SweptOne(b)' = SweptOne(b)
          BY <2>1 DEF SweptOne
        <5>3. CostIsTerms /\ CostIsTerms'
          BY CostTerms, PTL
        <5> QED
          BY <2>4, <4>1, <5>1, <5>2, <5>3 DEF CostIsTerms
      <4> QED
        BY <4>1
    <3> QED
      BY <1>2, <2>1, <2>4, <3>1, <3>2, <3>3 DEF CardOf
  <2> QED
    BY <2>2, <2>3, <2>4
<1>5. CASE Tick
  <2>1. /\ UNCHANGED <<version, rows, card, troubles>> /\ swept = Bot /\ swept' = {}
        /\ age'[Card(s)] = IF age[Card(s)] \in {None, Old, Late} THEN age[Card(s)]
                                                                 ELSE age[Card(s)] + 1
    BY <1>1, <1>3, <1>5, TickFacts
  <2>2. Stale(s) /\ age[Card(s)] \in 0..Late
    BY <1>3, <2>1 DEF Stale
  <2>3. ASSUME NEW b \in Bot
        PROVE  /\ Passed(b, s)' <=> Passed(b, s)
               /\ Passed(b, s)' => bot'[b].lag = 1
               /\ bot[b].lag = 0
    <3>1. /\ bot'[b].pc = bot[b].pc /\ bot'[b].part = bot[b].part
          /\ bot'[b].todo = bot[b].todo /\ bot'[b].item = bot[b].item
          /\ bot'[b].lag = IF Sweeping(b) THEN 1 ELSE bot[b].lag
      BY <1>1, <1>5, <2>3, TickFacts
    <3>2. bot[b].lag = 0
      BY <2>1, <2>3, SweepParts DEF SweepOf
    <3> QED
      BY <3>1, <3>2 DEF Passed, Sweeping, ToCome, At
  <2>4. CASE age[Card(s)] = 0
    <3>1. age'[Card(s)] = 1
      BY <2>1, <2>4, WindowFacts
    <3>2. \E b \in Bot : Passed(b, s)' /\ bot'[b].lag = 0 => troubles' >= 1
      BY <2>3, AnnouncementsAssumption
    <3> QED
      BY <3>1, <3>2, WindowFacts
  <2>5. CASE age[Card(s)] = 1
    <3>1. age'[Card(s)] = 2 /\ age[Card(s)] # None
      BY <2>1, <2>5, WindowFacts
    <3>2. PICK b \in Bot : Passed(b, s) /\ bot[b].lag = 0 => troubles >= 1
      BY <1>2, <2>2, <2>5, <3>1 DEF CardOf
    <3>3. Passed(b, s)' => troubles' >= 1
      BY <2>1, <2>3, <3>2
    <3>4. /\ Cost(b, s)' = 0 + SweptOne(b)' + PassedOne(b, s)'
          /\ SweptOne(b)' = 0 /\ PassedOne(b, s)' \in 0..1
          /\ PassedOne(b, s)' = 1 => Passed(b, s)'
      <4>1. CostIsTerms'
        BY CostTerms, PTL
      <4>2. b \notin swept'
        BY <2>1
      <4> QED
        BY <3>1, <4>1, <4>2 DEF CostIsTerms
    <3>5. troubles' >= Cost(b, s)'
      BY <1>3, <2>1, <3>3, <3>4
    <3> QED
      BY <3>1, <3>5, WindowFacts
  <2>6. CASE age[Card(s)] \in 2..Window
    <3>1. /\ age'[Card(s)] = age[Card(s)] + 1 /\ age[Card(s)] # None
          /\ age[Card(s)] \in Nat /\ age'[Card(s)] \in Nat
      BY <2>1, <2>6, WindowFacts
    <3>2. PICK b \in Bot : troubles >= Cost(b, s)
      BY <1>2, <2>2, <2>6, <3>1 DEF CardOf
    <3>3. Cost(b, s) \in Int /\ Cost(b, s)' \in Int /\ Cost(b, s)' <= Cost(b, s)
      BY <2>1, <2>3, <3>1, CostMoves
    <3>4. troubles' >= Cost(b, s)'
      BY <1>3, <2>1, <3>2, <3>3
    <3>5. Cost(b, s) >= age[Card(s)] - 1
      <4>1. SweptOne(b) = 1 /\ PassedOne(b, s) \in 0..1
            /\ Cost(b, s) = age[Card(s)] - 2 + SweptOne(b) + PassedOne(b, s)
        BY <2>1, CostTerms DEF CostIsTerms
      <4> QED
        BY <3>1, <4>1
    <3>6. age'[Card(s)] > Window => troubles' >= Window - 1
      BY <1>3, <2>1, <2>6, <3>1, <3>2, <3>3, <3>5, WindowFacts
    <3> QED
      BY <2>6, <3>1, <3>4, <3>6, WindowFacts
  <2>7. CASE age[Card(s)] > Window
    <3>1. troubles >= Window - 1 /\ age'[Card(s)] > Window
      BY <1>2, <2>1, <2>2, <2>7, WindowFacts DEF CardOf
    <3> QED
      BY <2>1, <3>1, WindowFacts
  <2> QED
    BY <2>2, <2>4, <2>5, <2>6, <2>7, WindowFacts
<1>6. ASSUME NEW b \in Bot, BotStep(b)
      PROVE  /\ age'[Card(s)] = 1 =>
                    \E c \in Bot : Passed(c, s)' /\ bot'[c].lag = 0 => troubles' >= 1
             /\ age'[Card(s)] \in 2..Window => \E c \in Bot : troubles' >= Cost(c, s)'
             /\ age'[Card(s)] > Window => troubles' >= Window - 1
  <2>1. UNCHANGED age
    BY <1>6, BotFrame
  <2>2. CASE age[Card(s)] = 0
    BY <2>1, <2>2, WindowFacts
  <2>3. CASE age[Card(s)] \in 1..Late
    <3>1. CASE Stale(s) /\ card'[s] = card[s]
      <4>1. troubles' >= troubles /\ troubles' \in Int
        <5>1. RestTypes'
          BY <1>1, <1>6, TypeStep, Steps, TypeParts DEF TypeOK, RestTypes
        <5> QED
          BY <1>6, <3>1, <5>1, CostStep, AnnouncementsAssumption DEF RestTypes
      <4>2. age[Card(s)] # None
        BY <2>1
      <4>3. CASE age[Card(s)] = 1
        <5>1. PICK c \in Bot : Passed(c, s) /\ bot[c].lag = 0 => troubles >= 1
          BY <1>2, <3>1, <4>2, <4>3 DEF CardOf
        <5>2. Passed(c, s)' /\ bot'[c].lag = 0 => troubles' >= 1
          BY <1>6, <3>1, <4>3, <5>1, CostStep
        <5> QED
          BY <2>1, <4>3, <5>2, WindowFacts
      <4>4. CASE age[Card(s)] \in 2..Window
        <5>1. PICK c \in Bot : troubles >= Cost(c, s)
          BY <1>2, <3>1, <4>2, <4>4 DEF CardOf
        <5>2. troubles' >= Cost(c, s)'
          BY <1>6, <3>1, <4>4, <5>1, CostStep
        <5> QED
          BY <2>1, <4>4, <5>2, WindowFacts
      <4>5. CASE age[Card(s)] > Window
        <5>1. troubles >= Window - 1
          BY <1>2, <3>1, <4>2, <4>5 DEF CardOf
        <5> QED
          BY <1>3, <2>1, <4>1, <4>5, <5>1, WindowFacts
      <4> QED
        BY <2>3, <4>3, <4>4, <4>5, WindowFacts
    <3>2. CASE age[Card(s)] = 1 /\ bot'[b].lag = 1
      <4>1. \E c \in Bot : Passed(c, s)' /\ bot'[c].lag = 0 => troubles' >= 1
        BY <1>6, <3>2
      <4> QED
        BY <2>1, <3>2, <4>1, WindowFacts
    <3> QED
      BY <1>6, <2>3, <3>1, <3>2, StaleStep
  <2> QED
    BY <1>3, <2>1, <2>2, <2>3, WindowFacts
<1> QED
  BY <1>4, <1>5, <1>6, Steps

(***************************************************************************)
(* The theorems.                                                           *)
(***************************************************************************)

LEMMA InitOK == Init => IInv
<1> SUFFICES ASSUME Init
             PROVE  IInv
  OBVIOUS
<1>1. /\ age = [i \in Item |-> None] /\ version = [s \in Setup |-> 0]
      /\ rows = [i \in Item |-> NoRow]
      /\ posts = [i \in Item |-> 0] /\ card = [s \in Setup |-> 0]
      /\ bot = [b \in Bot |-> Asleep] /\ swept = {} /\ troubles = 0
      /\ LastVersion \in Nat /\ MaxTroubles \in Nat
  BY AnnouncementsAssumption DEF Init
<1>2. \A b \in Bot : /\ bot[b] = Asleep /\ bot[b].pc = "idle" /\ bot[b].todo = {}
                     /\ bot[b].lag = 0
  BY <1>1 DEF Asleep
<1>3. \A i \in Item : /\ age[i] = None /\ posts[i] = 0
                      /\ ~rows[i].claimed /\ ~rows[i].failed /\ ~rows[i].message
  BY <1>1 DEF NoRow
<1>4. TypeOK
  <2>1. AlertsTypeOK
    BY AlertsAssumption DEF Init, AlertsInit, AlertsTypeOK, Unarmed, AtRest
  <2>2. AgeTypes
    BY <1>1 DEF AgeTypes
  <2>3. RowTypes
    BY <1>1 DEF RowTypes, NoRow
  <2>4. BotTypes /\ RestTypes
    BY <1>1, AsleepState DEF BotTypes, RestTypes
  <2> QED
    BY <2>1, <2>2, <2>3, <2>4, TypeParts
<1>5. PostInv
  BY <1>2, <1>3 DEF PostInv, Posting, At
<1>6. SweepInv
  BY <1>1, <1>2, <1>3 DEF SweepInv, Sweeping, At
<1>7. FiredInv /\ FreshInv
  BY <1>3, ItemShape DEF FiredInv, FreshInv
<1>8. SeenInv
  BY <1>2 DEF SeenInv, Sweeping, At
<1>9. CardInv
  BY <1>3, CardShape DEF CardInv, Stale
<1> QED
  BY <1>4, <1>5, <1>6, <1>7, <1>8, <1>9 DEF IInv

LEMMA NextOK == IInv /\ [Next]_vars => IInv'
<1>1. ASSUME IInv, Next
      PROVE  IInv'
  BY <1>1, TypeStep, PostStep, SweepStep, FiredStep, FreshStep, SeenStep, CardStep DEF IInv
<1>2. ASSUME IInv, UNCHANGED vars
      PROVE  IInv'
  <2> USE <1>2 DEF IInv, vars, alerts, sources, discord
  <2>1. TypeOK'
    BY DEF TypeOK, AlertsTypeOK
  <2>2. PostInv' /\ SweepInv'
    BY DEF PostInv, SweepInv, Posting, Sweeping, At
  <2>3. FiredInv' /\ FreshInv' /\ SeenInv'
    BY DEF FiredInv, FreshInv, SeenInv, BeganAfter, ToCome, Sweeping, At
  <2>4. CardInv'
    BY DEF CardInv, Stale, Cost, Passed, ToCome, Sweeping, At
  <2> QED
    BY <2>1, <2>2, <2>3, <2>4
<1> QED
  BY <1>1, <1>2

\* The inductive invariant, along every behaviour.
THEOREM Invariance == Spec => []IInv
BY InitOK, NextOK, PTL DEF Spec

\* Rows, messages, cards and sweeps keep their types, however the bots interleave and fail.
THEOREM TypeCorrect == Spec => []TypeOK
<1>1. IInv => TypeOK
  BY DEF IInv
<1> QED
  BY <1>1, Invariance, PTL

\* notifier.py claims before it posts: whatever bots race, crash, restart or fail to hear
\* Discord's answer, nothing is said twice.
THEOREM SaidOnce == Spec => []PostedOnce
<1>1. IInv => PostedOnce
  BY DEF IInv, PostInv, PostedOnce
<1> QED
  BY <1>1, Invariance, PTL

\* Nothing says of an alert that its user has cancelled, or that has expired, that it fired.
THEOREM RemindersAreTrue == Spec => []ReminderIsTrue
<1>1. ASSUME IInv
      PROVE  ReminderIsTrue
  <2> SUFFICES ASSUME NEW a \in Alert, posts[<<"alert", a>>] > 0
               PROVE  alert[a].status = "FIRED"
    BY DEF ReminderIsTrue
  <2>1. <<"alert", a>> \in Item /\ <<"alert", a>>[1] = "alert"
    BY ItemShape
  <2>2. rows[<<"alert", a>>].claimed
    BY <1>1, <2>1 DEF IInv, PostInv
  <2>3. age[<<"alert", a>>] # None
    BY <1>1, <2>1, <2>2, SweepParts DEF IInv, SweepItems
  <2> QED
    BY <1>1, <2>3 DEF IInv, FiredInv
<1> QED
  BY <1>1, Invariance, PTL

\* A window of three sweeps or more (the notifier's window is far longer) is enough for
\* everything new to be claimed, however many sweeps are cut short.
THEOREM NothingNewIsMissed == Spec => []NewIsAnnounced
<1>1. ASSUME IInv
      PROVE  NewIsAnnounced
  <2> SUFFICES ASSUME NEW i \in Item, age[i] = Old, ~rows[i].claimed
               PROVE  FALSE
    BY DEF NewIsAnnounced
  <2>1. age[i] \notin {None, Late} /\ ~(age[i] <= 2)
    BY WindowFacts
  <2> QED
    BY <1>1, <2>1 DEF IInv, FreshInv
<1> QED
  BY <1>1, Invariance, PTL

\* A card that is known by its message shows its setup as it is once the setup has rested
\* for a window, when there are fewer failures than the sweeps the window holds for sure.
THEOREM CardsAreCurrent ==
    ASSUME MaxTroubles < Window - 1
    PROVE  Spec => []CardShowsLast
<1>1. ASSUME IInv
      PROVE  CardShowsLast
  <2> SUFFICES ASSUME NEW s \in Setup, age[Card(s)] = Old, Stale(s)
               PROVE  FALSE
    BY DEF CardShowsLast, Card, Stale
  <2>1. age[Card(s)] # None /\ age[Card(s)] > Window
    BY WindowFacts
  <2>2. troubles >= Window - 1
    BY <1>1, <2>1 DEF IInv, CardInv
  <2>3. troubles \in 0..MaxTroubles /\ MaxTroubles \in Nat
    BY <1>1, AnnouncementsAssumption DEF IInv, TypeOK
  <2> QED
    BY <2>2, <2>3, WindowFacts
<1> QED
  BY <1>1, Invariance, PTL

(***************************************************************************)
(* What is said implements AtMostOnce.                                     *)
(***************************************************************************)

\* A card whose message is about to be recorded was posted.
SentIsPosted == \A b \in Bot : At(b, "record") => posts[bot[b].item] = 1

\* One message is posted, where there was none.
PostsTo(b) == posts' = [posts EXCEPT ![bot[b].item] = 1]

LEMMA FirstPost ==
    ASSUME TypeOK, PostInv, NEW b \in Bot, Posts(b)
    PROVE  /\ bot[b].item \in Item /\ rows[bot[b].item].claimed /\ posts[bot[b].item] = 0
           /\ UNCHANGED posts \/ PostsTo(b)
           /\ \/ UNCHANGED rows
              \/ rows' = [rows EXCEPT ![bot[b].item].message = TRUE] /\ PostsTo(b)
              \/ rows' = [rows EXCEPT ![bot[b].item].failed = TRUE]
           /\ \A c \in Bot \ {b} : bot'[c] = bot[c]
           /\ bot'[b].pc = "record" => PostsTo(b) /\ bot'[b].item = bot[b].item
<1>1. BotTypes /\ RowTypes
  BY TypeParts
<1> DEFINE k == bot[b].item
<1>2. At(b, "root") \/ At(b, "send")
  BY DEF Posts, PostRoot, Send, SendFails
<1>3. k \in Item /\ rows[k].claimed /\ posts[k] = 0
  BY <1>2 DEF PostInv, At
<1>4. posts' = [posts EXCEPT ![k] = @ + 1] => PostsTo(b)
  BY <1>3 DEF PostsTo
<1>5. CASE PostRoot(b)
  <2>1. Moved(b, "next", None, bot[b].todo)
    BY <1>1, <1>5, BotMoves, LeftMoves DEF PostRoot
  <2>2. UNCHANGED posts \/ PostsTo(b)
    BY <1>4, <1>5 DEF PostRoot
  <2>3. \/ rows' = [rows EXCEPT ![k].message = TRUE] /\ PostsTo(b)
        \/ rows' = [rows EXCEPT ![k].failed = TRUE]
    BY <1>4, <1>5 DEF PostRoot
  <2> QED
    BY <1>3, <2>1, <2>2, <2>3 DEF Moved
<1>6. CASE Send(b)
  <2>1. PostsTo(b) /\ UNCHANGED rows
    BY <1>4, <1>6 DEF Send
  <2>2. Becomes(b, Gone(bot[b], "record", k)) \/ Becomes(b, Left(bot[b]))
    BY <1>1, <1>6, BotMoves DEF Send
  <2>3. Moved(b, "record", k, bot[b].todo \ {k}) \/ Moved(b, "next", None, bot[b].todo)
    BY <1>1, <1>3, <2>2, GoneMoves, LeftMoves
  <2> QED
    BY <1>3, <2>1, <2>3 DEF Moved
<1>7. CASE SendFails(b)
  <2>1. UNCHANGED rows /\ (UNCHANGED posts \/ PostsTo(b))
    BY <1>4, <1>7 DEF SendFails, discord
  <2>2. Moved(b, "mark", k, bot[b].todo \ {k})
    BY <1>1, <1>3, <1>7, BotMoves, GoneMoves DEF SendFails
  <2> QED
    BY <1>3, <2>1, <2>2 DEF Moved
<1> QED
  BY <1>5, <1>6, <1>7 DEF Posts

LEMMA SentIsPostedStep ==
    ASSUME TypeOK, PostInv, SentIsPosted, Next
    PROVE  SentIsPosted'
<1>1. AlertsTypeOK /\ AgeTypes /\ RowTypes /\ BotTypes /\ RestTypes
  BY TypeParts
<1>2. CASE World
  BY <1>2, WorldFrame DEF SentIsPosted, At
<1>3. CASE Tick
  BY <1>1, <1>3, TickFacts DEF SentIsPosted, At
<1>4. ASSUME NEW b \in Bot, UNCHANGED posts, bot'[b].pc # "record",
             \A c \in Bot \ {b} : bot'[c] = bot[c]
      PROVE  SentIsPosted'
  BY <1>4 DEF SentIsPosted, At
<1>5. ASSUME NEW b \in Bot, BotStep(b)
      PROVE  SentIsPosted'
  <2>1. CASE Listings(b)
    BY <1>1, <1>4, <2>1, ListingsShape, ListingsMove
  <2>2. CASE Takes(b)
    <3>1. bot'[b].pc # "record" /\ \A c \in Bot \ {b} : bot'[c] = bot[c]
      BY <1>1, <2>2, TakesMove DEF Moved
    <3>2. UNCHANGED posts
      BY <1>1, <2>2, TakesShape
    <3> QED
      BY <1>4, <3>1, <3>2
  <2>3. CASE Posts(b)
    <3>0. posts \in [Item -> Nat]
      BY <1>1 DEF RowTypes
    <3>1. ASSUME NEW c \in Bot \ {b}, At(c, "record")
          PROVE  posts'[bot[c].item] = posts[bot[c].item]
      <4>1. posts[bot[c].item] = 1 /\ bot[c].item \in Item
        BY <3>1 DEF SentIsPosted, PostInv, At
      <4>2. bot[c].item # bot[b].item
        <5>1. posts[bot[b].item] = 0
          BY <2>3, FirstPost
        <5> QED
          BY <4>1, <5>1
      <4> QED
        BY <2>3, <3>0, <4>1, <4>2, FirstPost DEF PostsTo
    <3>2. ASSUME bot'[b].pc = "record"
          PROVE  posts'[bot'[b].item] = 1
      <4>1. PostsTo(b) /\ bot'[b].item = bot[b].item /\ bot[b].item \in Item
        BY <2>3, <3>2, FirstPost
      <4> QED
        BY <3>0, <4>1 DEF PostsTo
    <3>3. \A c \in Bot \ {b} : bot'[c] = bot[c]
      BY <2>3, FirstPost
    <3> QED
      BY <3>1, <3>2, <3>3 DEF SentIsPosted, At
  <2>4. CASE Notes(b)
    BY <1>1, <1>4, <2>4, NotesShape, NotesMove DEF Moved
  <2>5. CASE Edits(b)
    <3>1. bot[b].item \in Item
      BY <1>1, <2>5, EditsShape DEF PostInv, At
    <3>2. bot'[b].pc # "record" /\ \A c \in Bot \ {b} : bot'[c] = bot[c]
      BY <1>1, <2>5, <3>1, EditsMove DEF Moved
    <3>3. UNCHANGED posts
      BY <1>1, <2>5, EditsShape
    <3> QED
      BY <1>4, <3>2, <3>3
  <2>6. CASE Ends(b)
    BY <1>1, <1>4, <2>6, EndsFrame, EndsMove
  <2> QED
    BY <1>5, <2>1, <2>2, <2>3, <2>4, <2>5, <2>6 DEF BotStep
<1> QED
  BY <1>2, <1>3, <1>5, Steps

LEMMA ContractInit == Init => Contract!Init /\ SentIsPosted
BY DEF Init, Contract!Init, ClaimedItems, Recorded, NoRow, SentIsPosted, At, Asleep

\* One thing's row, over a step.
LEMMA OneRow ==
    ASSUME RowTypes, NEW k \in Item
    PROVE  /\ ClaimsFor(k) => ClaimedItems' = ClaimedItems \cup {k} /\ Recorded' = Recorded
           /\ rows' = [rows EXCEPT ![k].message = TRUE] =>
                  ClaimedItems' = ClaimedItems /\ Recorded' = Recorded \cup {k}
           /\ rows' = [rows EXCEPT ![k].failed = TRUE] =>
                  ClaimedItems' = ClaimedItems /\ Recorded' = Recorded
<1>1. ASSUME ClaimsFor(k)
      PROVE  ClaimedItems' = ClaimedItems \cup {k} /\ Recorded' = Recorded
  BY <1>1, ClaimsForShape DEF ClaimedItems, Recorded
<1>2. ASSUME rows' = [rows EXCEPT ![k].message = TRUE]
      PROVE  ClaimedItems' = ClaimedItems /\ Recorded' = Recorded \cup {k}
  <2>1. rows'[k].message = TRUE
    BY <1>2 DEF RowTypes
  <2> QED
    BY <1>2, <2>1, NotedRows DEF ClaimedItems, Recorded
<1>3. ASSUME rows' = [rows EXCEPT ![k].failed = TRUE]
      PROVE  ClaimedItems' = ClaimedItems /\ Recorded' = Recorded
  <2>1. rows'[k].message = rows[k].message
    BY <1>3, NotedRows
  <2> QED
    BY <1>3, <2>1, NotedRows DEF ClaimedItems, Recorded
<1> QED
  BY <1>1, <1>2, <1>3

LEMMA ContractStep ==
    ASSUME TypeOK, PostInv, SentIsPosted, Next
    PROVE  [Contract!Next]_<<ClaimedItems, posts, Recorded>>
<1>1. AlertsTypeOK /\ AgeTypes /\ RowTypes /\ BotTypes /\ RestTypes
  BY TypeParts
<1>2. UNCHANGED rows => UNCHANGED <<ClaimedItems, Recorded>>
  BY DEF ClaimedItems, Recorded
<1>3. CASE World
  BY <1>2, <1>3, WorldFrame
<1>4. CASE Tick
  BY <1>1, <1>2, <1>4, TickFacts
<1>5. ASSUME NEW b \in Bot, BotStep(b)
      PROVE  Contract!Next \/ UNCHANGED <<ClaimedItems, posts, Recorded>>
  <2> DEFINE k == bot[b].item
  <2>1. CASE Listings(b) \/ Edits(b) \/ Ends(b)
    <3>1. UNCHANGED <<rows, posts>>
      BY <1>1, <2>1, ListingsShape, EditsShape, EndsFrame
    <3> QED
      BY <1>2, <3>1
  <2>2. CASE Takes(b)
    <3>1. UNCHANGED posts /\ (UNCHANGED rows \/ \E i \in Item : ClaimsFor(i))
      BY <1>1, <2>2, TakesShape
    <3>2. ASSUME NEW i \in Item, ClaimsFor(i)
          PROVE  Contract!Next
      <4>1. i \notin ClaimedItems
        BY <3>2 DEF ClaimsFor, ClaimedItems
      <4>2. Contract!Claim(i)
        BY <1>1, <3>1, <3>2, <4>1, OneRow DEF Contract!Claim
      <4> QED
        BY <4>2 DEF Contract!Next
    <3> QED
      BY <1>2, <3>1, <3>2
  <2>3. CASE Posts(b)
    <3>1. k \in Item /\ k \in ClaimedItems /\ posts[k] = 0
      BY <2>3, FirstPost DEF ClaimedItems
    <3>2. UNCHANGED posts \/ PostsTo(b)
      BY <2>3, FirstPost
    <3>3. /\ UNCHANGED ClaimedItems
          /\ \/ UNCHANGED Recorded
             \/ Recorded' = Recorded \cup {k} /\ PostsTo(b)
      <4>1. CASE UNCHANGED rows
        BY <1>2, <4>1
      <4>2. CASE rows' = [rows EXCEPT ![k].message = TRUE] /\ PostsTo(b)
        BY <1>1, <3>1, <4>2, OneRow
      <4>3. CASE rows' = [rows EXCEPT ![k].failed = TRUE]
        BY <1>1, <3>1, <4>3, OneRow
      <4> QED
        BY <2>3, <4>1, <4>2, <4>3, FirstPost
    <3>4. CASE PostsTo(b)
      <4>1. Contract!Do(k)
        BY <3>1, <3>3, <3>4 DEF Contract!Do, PostsTo
      <4> QED
        BY <3>1, <4>1 DEF Contract!Next
    <3> QED
      BY <3>2, <3>3, <3>4
  <2>4. CASE Notes(b)
    <3>1. UNCHANGED posts /\ (At(b, "record") \/ At(b, "mark"))
      BY <1>1, <2>4, NotesShape
    <3>2. k \in Item
      BY <3>1 DEF PostInv, At
    <3>3. CASE At(b, "record") /\ rows' = [rows EXCEPT ![k].message = TRUE]
      <4>1. posts[k] = 1
        BY <3>3 DEF SentIsPosted
      <4>2. Contract!Learn(k)
        BY <1>1, <3>1, <3>2, <3>3, <4>1, OneRow DEF Contract!Learn
      <4> QED
        BY <3>2, <4>2 DEF Contract!Next
    <3>4. CASE rows' = [rows EXCEPT ![k].failed = TRUE]
      BY <1>1, <3>1, <3>2, <3>4, OneRow
    <3> QED
      BY <1>1, <2>4, <3>3, <3>4, NotesShape
  <2> QED
    BY <1>5, <2>1, <2>2, <2>3, <2>4 DEF BotStep
<1> QED
  BY <1>3, <1>4, <1>5, Steps

\* Whatever comes to be said, and however many bots race, fail, die and come back to say it,
\* is a behaviour of AtMostOnce (notifier.py over repositories/notifications.py).
THEOREM NotificationsImplement == Spec => ImplementsAtMostOnce
<1>1. ASSUME IInv, SentIsPosted, [Next]_vars
      PROVE  SentIsPosted' /\ [Contract!Next]_<<ClaimedItems, posts, Recorded>>
  <2>1. CASE Next
    BY <1>1, <2>1, SentIsPostedStep, ContractStep DEF IInv
  <2>2. CASE UNCHANGED vars
    BY <1>1, <2>2 DEF vars, discord, SentIsPosted, At, ClaimedItems, Recorded
  <2> QED
    BY <1>1, <2>1, <2>2
<1>2. SentIsPosted /\ IInv /\ [Next]_vars => SentIsPosted'
  BY <1>1
<1>3. SentIsPosted /\ IInv /\ [Next]_vars => [Contract!Next]_<<ClaimedItems, posts, Recorded>>
  BY <1>1
<1> QED
  BY <1>2, <1>3, ContractInit, Invariance, PTL DEF Spec, ImplementsAtMostOnce, Contract!Spec
=============================================================================
