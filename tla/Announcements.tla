--------------------------- MODULE Announcements ---------------------------
(***************************************************************************)
(* What Aureon says in Discord and how often                               *)
(* (aureon/discord/notifier.py over                                        *)
(* aureon/storage/postgres/repositories/notifications.py): detections,     *)
(* reminders of the alerts that fired, one live card for each setup, one   *)
(* thread for each EMA journey and its outcome.  A sweep looks at what is  *)
(* not older than a window, claims each thing by inserting its row, and    *)
(* posts it after.  Several bots may run.                                  *)
(***************************************************************************)
EXTENDS Alerts, FiniteSetsExt, Sequences

CONSTANTS
    Detection, Setup, Journey, Bot, None,
    JourneyOf,      \* Detection -> the journey it belongs to, or None
    Window,         \* how far a sweep looks back, in ticks
    LastVersion,    \* bound on the changes of a setup
    Weight,         \* kind of thing -> what one of it adds to the load
    MaxLoad,        \* bound on the load
    MaxTroubles     \* bound on bots that die, and reads, writes and edits that fail

\* Notification ids: the kind and what it is about.
Of(kind, refs) == {<<kind, r>> : r \in refs}
Item == Of("detection", Detection) \cup Of("alert", Alert) \cup Of("setup", Setup)
            \cup Of("journey", Journey) \cup Of("outcome", Journey)

ASSUME AnnouncementsAssumption ==
    /\ Bot # {}
    /\ JourneyOf \in [Detection -> Journey \cup {None}] /\ None \notin Journey /\ None \notin Int
    /\ Window \in Nat /\ Window >= 3
    /\ {LastVersion, MaxLoad, MaxTroubles} \subseteq Nat

VARIABLES
    age,        \* item -> how old what it carries is, or None
    version,    \* Setup -> how often it has changed
    rows,       \* item -> its notification
    posts,      \* item -> the messages in Discord
    card,       \* Setup -> the version its card shows
    bot,        \* Bot -> its sweep
    swept,      \* the bots that have made a whole sweep since the clock moved
    troubles

alerts == <<alert, watcher>>
sources == <<age, version>>
discord == <<posts, card>>
vars == <<alerts, sources, rows, discord, bot, swept, troubles>>

\* Ages beyond it are not told apart, but for what was old when it came.
Old == Window + 2
Late == Old + 1

NoRow == [claimed |-> FALSE, failed |-> FALSE, message |-> FALSE]
Parts == <<"detection", "alert", "setup", "outcome">>
Unseen == [s \in Setup |-> 0]
Asleep == [pc |-> "idle", part |-> 1, lag |-> 0, todo |-> {}, item |-> None, seen |-> Unseen]

TypeOK ==
    /\ AlertsTypeOK
    /\ age \in [Item -> (0..Late) \cup {None}] /\ version \in [Setup -> 0..LastVersion]
    /\ rows \in [Item -> [claimed : BOOLEAN, failed : BOOLEAN, message : BOOLEAN]]
    /\ posts \in [Item -> Nat] /\ card \in [Setup -> 0..LastVersion]
    /\ bot \in [Bot -> [pc : {"down", "idle", "next", "root", "send", "record", "mark", "edit"},
                        part : 1..Len(Parts), lag : 0..1, todo : SUBSET Item,
                        item : Item \cup {None}, seen : [Setup -> 0..LastVersion]]]
    /\ swept \subseteq Bot /\ troubles \in 0..MaxTroubles

Init ==
    /\ AlertsInit
    /\ age = [i \in Item |-> None] /\ version = [s \in Setup |-> 0]
    /\ rows = [i \in Item |-> NoRow]
    /\ posts = [i \in Item |-> 0] /\ card = [s \in Setup |-> 0]
    /\ bot = [b \in Bot |-> Asleep] /\ swept = {} /\ troubles = 0

-----------------------------------------------------------------------------
(* What there is to say.                                                     *)

\* How much of it there has been.
Load(i) ==
    CASE i[1] = "setup" -> version[i[2]] * Weight["setup"]
      [] i[1] = "journey" ->
             IF \E d \in Detection : JourneyOf[d] = i[2] /\ age[<<"detection", d>>] # None
             THEN Weight["journey"] ELSE 0
      [] i[1] = "alert" -> IF alert[i[2]] = Unarmed THEN 0 ELSE Weight["alert"]
      [] OTHER -> IF age[i] = None THEN 0 ELSE Weight[i[1]]

RoomFor(more) == MapThenSumSet(Load, Item) + more <= MaxLoad

\* A candle's detection reaches the store through the outbox, perhaps too late.
Detect(d) ==
    /\ age[<<"detection", d>>] = None 
    /\ RoomFor(Weight["detection"] + IF JourneyOf[d] = None THEN 0 ELSE Weight["journey"])
    /\ \E t \in {0, Late} : age' = [age EXCEPT ![<<"detection", d>>] = t]
    /\ UNCHANGED <<alerts, version, rows, discord, bot, swept, troubles>>

SetupChanges(s) ==
    /\ version[s] < LastVersion /\ RoomFor(Weight["setup"])
    /\ version' = [version EXCEPT ![s] = @ + 1]
    /\ age' = [age EXCEPT ![<<"setup", s>>] = 0]
    /\ UNCHANGED <<alerts, rows, discord, bot, swept, troubles>>

JourneyCloses(j) ==
    /\ age[<<"outcome", j>>] = None /\ RoomFor(Weight["outcome"])
    /\ age' = [age EXCEPT ![<<"outcome", j>>] = 0]
    /\ UNCHANGED <<alerts, version, rows, discord, bot, swept, troubles>>

\* The users and the observer, with their alerts.
AlertStep ==
    /\ AlertsNext
    /\ Armed' \subseteq Armed \/ RoomFor(Weight["alert"])
    /\ age' = [i \in Item |->
           IF i[1] = "alert" /\ age[i] = None /\ alert'[i[2]].status = "FIRED" THEN 0 ELSE age[i]]
    /\ UNCHANGED <<version, rows, discord, bot, swept, troubles>>

At(b, pc) == bot[b].pc = pc

\* A sweep, every five seconds, is far shorter than the window, and so is the time it takes
\* to start a bot again.
Tick ==
    /\ swept = Bot
    /\ AlertsAge
    /\ age' = [i \in Item |-> IF age[i] \in {None, Old, Late} THEN age[i] ELSE age[i] + 1]
    /\ bot' = [b \in Bot |-> IF At(b, "down") \/ At(b, "idle") THEN bot[b]
                                                          ELSE [bot[b] EXCEPT !.lag = 1]]
    /\ swept' = {}
    /\ UNCHANGED <<version, rows, discord, troubles>>

-----------------------------------------------------------------------------
(* A sweep.                                                                  *)

Goes(b, pc, i) == bot' = [bot EXCEPT ![b].pc = pc, ![b].item = i, ![b].todo = @ \ {i}]
\* On to the next item.
Leaves(b) == bot' = [bot EXCEPT ![b].pc = "next", ![b].item = None]
\* run() logs what a sweep raised, and sweeps again.
Raises(b) == bot' = [bot EXCEPT ![b] = Asleep]

\* Mutant of Due: it looks back no farther than its last sweep.
DueSinceLast(part, lag) == {i \in Item : i[1] = Parts[part] /\ age[i] = 0}

\* What was not older than the window when the sweep began.
Due(part, lag) ==
    {i \in Item : i[1] = Parts[part] /\ age[i] # None /\ age[i] <= Window + lag}

\* The setups are read as they are now.
Lists(b, part) ==
    bot' = [bot EXCEPT ![b] = [@ EXCEPT
        !.pc = "next", !.part = part, !.todo = Due(part, bot[b].lag),
        !.seen = IF Parts[part] = "setup" THEN version ELSE Unseen]]

StartSweep(b) ==
    /\ At(b, "idle") /\ Lists(b, 1)
    /\ UNCHANGED <<alerts, sources, rows, discord, swept, troubles>>

NextPart(b) ==
    /\ At(b, "next") /\ bot[b].todo = {} /\ bot[b].part < Len(Parts)
    /\ Lists(b, bot[b].part + 1)
    /\ UNCHANGED <<alerts, sources, rows, discord, swept, troubles>>

EndSweep(b) ==
    /\ At(b, "next") /\ bot[b].todo = {} /\ bot[b].part = Len(Parts)
    /\ Raises(b) /\ swept' = swept \cup {b}
    /\ UNCHANGED <<alerts, sources, rows, discord, troubles>>

\* A read of the store that fails before anything is claimed.
ReadRaises(b) ==
    /\ At(b, "next") /\ troubles < MaxTroubles
    /\ troubles' = troubles + 1 /\ Raises(b)
    /\ UNCHANGED <<alerts, sources, rows, discord, swept>>

\* Mutant of Claimable: a row that is there already does not refuse the claim.
ClaimableAlways(i) == TRUE

\* claim() inserts the row; the collision is the answer.
Claimable(i) == ~rows[i].claimed

Claimed(i) == rows' = [rows EXCEPT ![i].claimed = TRUE]

\* The journey whose thread a detection belongs in.
Roots(i) == IF i[1] = "detection" THEN Of("journey", {JourneyOf[i[2]]} \ {None}) ELSE {}

\* _ensure_journey_thread(): the first detection opens the journey's thread.
OpenThread(b, i) ==
    /\ At(b, "next") /\ i \in bot[b].todo
    /\ \E r \in Roots(i) : Claimable(r) /\ Claimed(r) /\ Goes(b, "root", r)
    /\ UNCHANGED <<alerts, sources, discord, swept, troubles>>

\* Whether or not the thread could be made, the detection is posted, there or in the channel.
PostRoot(b) ==
    LET r == bot[b].item IN
    /\ At(b, "root") /\ Leaves(b)
    /\ \/ /\ posts' = [posts EXCEPT ![r] = @ + 1]
          /\ rows' = [rows EXCEPT ![r].message = TRUE]
       \/ /\ posts' \in {posts, [posts EXCEPT ![r] = @ + 1]}
          /\ rows' = [rows EXCEPT ![r].failed = TRUE]
    /\ UNCHANGED <<alerts, sources, card, swept, troubles>>

Claim(b, i) ==
    /\ At(b, "next") /\ i \in bot[b].todo
    /\ Claimable(i) /\ \A r \in Roots(i) : ~Claimable(r)
    /\ Claimed(i) /\ Goes(b, "send", i)
    /\ UNCHANGED <<alerts, sources, discord, swept, troubles>>

\* Mutant of Editable: a card is said once, as everything else is.
EditableNever(i) == FALSE

\* The card of a setup, when it is known by its message.
Editable(i) == i[1] = "setup" /\ rows[i].message

\* A row that is there is left alone, or its card edited.
Claimless(b, i) ==
    /\ At(b, "next") /\ i \in bot[b].todo
    /\ rows[i].claimed /\ \A r \in Roots(i) : ~Claimable(r)
    /\ IF Editable(i)
       THEN Goes(b, "edit", i)
       ELSE bot' = [bot EXCEPT ![b].todo = @ \ {i}]
    /\ UNCHANGED <<alerts, sources, rows, discord, swept, troubles>>

\* Mutant of PrepareRaises: the claim is given back, to be tried again.
PrepareRaisesUnclaimed(b) ==
    /\ At(b, "send") /\ bot[b].item[1] \in {"detection", "outcome"}
    /\ Raises(b)
    /\ rows' = [rows EXCEPT ![bot[b].item] = NoRow]
    /\ UNCHANGED <<alerts, sources, discord, swept, troubles>>

\* Consensus, context, confidence, chart: read after the claim, outside the try.
PrepareRaises(b) ==
    /\ At(b, "send") /\ bot[b].item[1] \in {"detection", "outcome"}
    /\ Raises(b)
    /\ UNCHANGED <<alerts, sources, rows, discord, swept, troubles>>

Shown(b) == [s \in Setup |-> IF bot[b].item = <<"setup", s>> THEN bot[b].seen[s] ELSE card[s]]

Send(b) ==
    /\ At(b, "send")
    /\ posts' = [posts EXCEPT ![bot[b].item] = @ + 1] /\ card' = Shown(b)
    /\ IF bot[b].item[1] = "setup" THEN Goes(b, "record", bot[b].item) ELSE Leaves(b)
    /\ UNCHANGED <<alerts, sources, rows, swept, troubles>>

\* Discord answered with an error, or not at all: the message may be there.
SendFails(b) ==
    /\ At(b, "send") /\ Goes(b, "mark", bot[b].item)
    /\ \/ posts' = [posts EXCEPT ![bot[b].item] = @ + 1] /\ card' = Shown(b)
       \/ UNCHANGED discord
    /\ UNCHANGED <<alerts, sources, rows, swept, troubles>>

Record(b) ==
    /\ At(b, "record") /\ Leaves(b)
    /\ rows' = [rows EXCEPT ![bot[b].item].message = TRUE]
    /\ UNCHANGED <<alerts, sources, discord, swept, troubles>>

\* mark_failed(): the row stays.
Mark(b) ==
    /\ At(b, "mark") /\ Leaves(b)
    /\ rows' = [rows EXCEPT ![bot[b].item].failed = TRUE]
    /\ UNCHANGED <<alerts, sources, discord, swept, troubles>>

\* Either write may fail: the sweep ends, and the message's id is lost.
WriteRaises(b) ==
    /\ bot[b].pc \in {"record", "mark"} /\ troubles < MaxTroubles
    /\ troubles' = troubles + 1 /\ Raises(b)
    /\ UNCHANGED <<alerts, sources, rows, discord, swept>>

Edit(b) ==
    /\ At(b, "edit") /\ Leaves(b)
    /\ card' = Shown(b)
    /\ UNCHANGED <<alerts, sources, rows, posts, swept, troubles>>

EditFails(b) ==
    /\ At(b, "edit") /\ Goes(b, "mark", bot[b].item) /\ troubles < MaxTroubles
    /\ troubles' = troubles + 1
    /\ UNCHANGED <<alerts, sources, rows, discord, swept>>

\* A bot dies with its sweep, and what it claimed stays claimed.
Crash(b) ==
    /\ ~At(b, "down") /\ troubles < MaxTroubles
    /\ troubles' = troubles + 1
    /\ bot' = [bot EXCEPT ![b] = [Asleep EXCEPT !.pc = "down"]]
    /\ UNCHANGED <<alerts, sources, rows, discord, swept>>

Restart(b) ==
    /\ At(b, "down")
    /\ bot' = [bot EXCEPT ![b] = Asleep] /\ swept' = swept \ {b}
    /\ UNCHANGED <<alerts, sources, rows, discord, troubles>>

-----------------------------------------------------------------------------

Sweep(b) ==
    \/ StartSweep(b) \/ NextPart(b) \/ EndSweep(b)
    \/ \E i \in Item : OpenThread(b, i) \/ Claim(b, i) \/ Claimless(b, i)
    \/ PostRoot(b) \/ PrepareRaises(b) \/ Send(b) \/ SendFails(b)
    \/ Record(b) \/ Mark(b) \/ Edit(b)

Next ==
    \/ \E d \in Detection : Detect(d)
    \/ \E s \in Setup : SetupChanges(s)
    \/ \E j \in Journey : JourneyCloses(j)
    \/ AlertStep \/ Tick
    \/ \E b \in Bot : \/ Sweep(b) \/ ReadRaises(b) \/ WriteRaises(b) \/ EditFails(b)
                      \/ Crash(b) \/ Restart(b)

Spec == Init /\ [][Next]_vars

\* A bot's loop goes on, whatever a sweep raises; one that died is started again.
FairSpec == Spec /\ \A b \in Bot : WF_vars(Sweep(b) \/ Restart(b))

-----------------------------------------------------------------------------

\* "One thing Discord said, so it cannot say it twice" (models/alerts.py): whatever bots
\* race, crash, restart or fail to hear Discord's answer.
PostedOnce == \A i \in Item : posts[i] <= 1

\* What is said implements AtMostOnce: one bot claims a thing, for good; it is posted at most
\* once and only then; and a message that is on record was posted.
ClaimedItems == {i \in Item : rows[i].claimed}
Recorded == {i \in Item : rows[i].message}

Contract == INSTANCE AtMostOnce WITH
    claimed <- ClaimedItems, times <- posts, known <- Recorded

ImplementsAtMostOnce == Contract!Spec

\* A reminder is about an alert that was answered and nothing else: it is not one that its
\* user has cancelled, or that has expired, before or after.
ReminderIsTrue == \A a \in Alert : posts[<<"alert", a>>] > 0 => alert[a].status = "FIRED"

\* Whatever is new is taken up before the window has passed, though every sweep may be cut
\* short, by a death, a read or something that cannot be prepared.
NewIsAnnounced == \A i \in Item : age[i] = Old => rows[i].claimed

\* A setup that has not changed for a window has a card that shows it as it is, once a
\* message is known: though sweeps hold older versions of it, edit in any order, and fail to.
CardShowsLast ==
    \A s \in Setup :
        age[<<"setup", s>>] = Old /\ rows[<<"setup", s>>].message => card[s] = version[s]

\* Sweeps come to their end again and again: the claim that is never retried keeps one
\* thing that cannot be prepared from holding up the rest for ever.
SweepsGoOn == \A b \in Bot : []<>(b \in swept)

-----------------------------------------------------------------------------
(* The inductive strengthening of the safety properties.                     *)

Sweeping(b) == ~At(b, "down") /\ ~At(b, "idle")

\* A claim whose message is not known yet: it is in one sweep's hands.
Posting(b, i) == bot[b].pc \in {"root", "send", "record"} /\ bot[b].item = i

\* What was claimed is posted by the one that claimed it, and once.
PostInv ==
    /\ \A i \in Item : posts[i] <= 1 /\ (~rows[i].claimed => posts[i] = 0 /\ ~rows[i].message)
    /\ \A b \in Bot : ~(bot[b].pc \in {"down", "idle", "next"}) =>
           /\ bot[b].item \in Item /\ rows[bot[b].item].claimed
           /\ At(b, "root") \/ At(b, "send") => posts[bot[b].item] = 0
           /\ At(b, "edit") => rows[bot[b].item].message
    /\ \A b \in Bot, i \in Item : Posting(b, i) =>
           /\ ~rows[i].message
           /\ \A c \in Bot : Posting(c, i) => c = b

\* A sweep's part is about what it says, a sweep that spans a tick is not the one its bot
\* has finished since, and nothing but a thread is claimed before there is something to say.
SweepInv ==
    /\ \A b \in Bot :
        /\ ~Sweeping(b) => bot[b].todo = {} /\ bot[b].lag = 0
        /\ b \in swept => bot[b].lag = 0
        /\ \A i \in bot[b].todo : i[1] = Parts[bot[b].part] /\ age[i] # None
        /\ At(b, "root") => bot[b].item[1] = "journey"
        /\ bot[b].pc \in {"send", "record", "mark", "edit"} =>
               bot[b].item[1] = Parts[bot[b].part]
        /\ At(b, "record") \/ At(b, "edit") => bot[b].item[1] = "setup"
    /\ \A i \in Item : IF i[1] = "journey" THEN age[i] = None
                                           ELSE rows[i].claimed => age[i] # None

\* Only what has fired has something to say.
FiredInv == \A a \in Alert : age[<<"alert", a>>] # None => alert[a].status = "FIRED"

\* The sweep has still to come to it.
ToCome(b, i) ==
    \/ i \in bot[b].todo
    \/ \E p \in 1..Len(Parts) : Parts[p] = i[1] /\ bot[b].part < p

\* What i carries was there when the sweep under way began: a sweep spans one tick at most,
\* and lag tells whether it has.
BeganAfter(b, i) == age[i] # None /\ (age[i] >= 2 \/ (age[i] = 1 /\ bot[b].lag = 0))

\* Two ticks after it came, a thing not yet claimed is before every sweep, and none has
\* been finished since: there is no third tick.
FreshInv ==
    \A i \in Item : ~rows[i].claimed /\ age[i] \notin {None, Late} =>
        /\ age[i] <= 2
        /\ age[i] = 2 => swept = {}
        /\ \A b \in Bot : Sweeping(b) /\ BeganAfter(b, i) => ToCome(b, i)

Card(s) == <<"setup", s>>
Stale(s) == rows[Card(s)].message /\ card[s] # version[s]

\* The sweep has seen to the card, well or not.
Passed(b, s) ==
    /\ Sweeping(b) /\ ~ToCome(b, Card(s))
    /\ ~(At(b, "edit") /\ bot[b].item = Card(s))

\* A sweep that began after the change knows the change; one that has sent a card and does
\* not know its message yet is the last that touched it.
SeenInv ==
    \A b \in Bot, s \in Setup :
        /\ Sweeping(b) /\ Parts[bot[b].part] = "setup" /\ BeganAfter(b, Card(s)) =>
               bot[b].seen[s] = version[s]
        /\ At(b, "record") /\ bot[b].item = Card(s) => card[s] = bot[b].seen[s]

\* How many failures it took to keep a card stale: one bot, the last that wrote an older
\* version, has failed to write the newer one in each of its sweeps.
Cost(b, s) == age[Card(s)] - 2 + (IF b \in swept THEN 1 ELSE 0)
                               + (IF Passed(b, s) THEN 1 ELSE 0)

CardInv ==
    \A s \in Setup : Stale(s) /\ age[Card(s)] # None =>
        /\ age[Card(s)] = 1 =>
               \E b \in Bot : Passed(b, s) /\ bot[b].lag = 0 => troubles >= 1
        /\ age[Card(s)] \in 2..Window => \E b \in Bot : troubles >= Cost(b, s)
        /\ age[Card(s)] > Window => troubles >= Window - 1

IInv == TypeOK /\ PostInv /\ SweepInv /\ FiredInv /\ FreshInv /\ SeenInv /\ CardInv
=============================================================================
