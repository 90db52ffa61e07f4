------------------------------- MODULE Alerts -------------------------------
(***************************************************************************)
(* Price alerts: the rows a user arms and cancels                          *)
(* (aureon/storage/postgres/repositories/alerts.py) and the observer's     *)
(* watcher, which answers them from its quotes and expires them as candles *)
(* close (aureon/services/alert_watcher.py).  Whether a quote has crossed  *)
(* a level is free.                                                        *)
(***************************************************************************)
EXTENDS Integers

CONSTANTS
    Alert, Observer,
    Ttl         \* how long an alert stays armed

ASSUME AlertsAssumption == Ttl \in Nat

VARIABLES
    alert,      \* Alert -> its row, with what is left of its time
    watcher     \* Observer -> the pass under way, over the alerts it has read

Unarmed == [status |-> "ABSENT", left |-> 0]
AtRest == [pass |-> "none", todo |-> {}]

AlertsTypeOK ==
    /\ alert \in [Alert -> [status : {"ABSENT", "ARMED", "FIRED", "CANCELLED", "EXPIRED"},
                            left : 0..Ttl]]
    /\ watcher \in [Observer -> [pass : {"none", "check", "expire"}, todo : SUBSET Alert]]

AlertsInit ==
    /\ alert = [a \in Alert |-> Unarmed]
    /\ watcher = [o \in Observer |-> AtRest]

Settled(status) == [status |-> status, left |-> 0]

Armed == {a \in Alert : alert[a].status = "ARMED"}

\* Mutant of StillArmed: the row is written as it was read.
StillArmedNever(a) == TRUE

\* Every transition looks at the row again, under its lock.
StillArmed(a) == alert[a].status = "ARMED"

Arm(a) ==
    /\ alert[a].status = "ABSENT"
    /\ alert' = [alert EXCEPT ![a] = [status |-> "ARMED", left |-> Ttl]]
    /\ UNCHANGED watcher

Cancel(a) ==
    /\ alert[a].status # "ABSENT" /\ StillArmed(a)
    /\ alert' = [alert EXCEPT ![a] = Settled("CANCELLED")]
    /\ UNCHANGED watcher

\* check() and expire_due() read first, and write each alert later.  A pass that reads
\* nothing does nothing.
BeginPass(o, pass) ==
    LET todo == {a \in Armed : pass = "check" \/ alert[a].left = 0} IN
    /\ watcher[o].pass = "none" /\ todo # {}
    /\ watcher' = [watcher EXCEPT ![o] = [pass |-> pass, todo |-> todo]]
    /\ UNCHANGED alert

NotCrossed(o, a) ==
    /\ watcher[o].pass = "check" /\ a \in watcher[o].todo
    /\ watcher' = [watcher EXCEPT ![o].todo = @ \ {a}]
    /\ UNCHANGED alert

\* fire() does not look at the alert's expiry.
Fire(o, a) ==
    /\ watcher[o].pass = "check" /\ a \in watcher[o].todo /\ StillArmed(a)
    /\ alert' = [alert EXCEPT ![a] = Settled("FIRED")]
    /\ watcher' = [watcher EXCEPT ![o].todo = @ \ {a}]

\* The store's own AlertClaimRejected is not the class check() catches: the poll ends.
FireRefused(o, a) ==
    /\ watcher[o].pass = "check" /\ a \in watcher[o].todo /\ ~StillArmed(a)
    /\ watcher' = [watcher EXCEPT ![o] = AtRest]
    /\ UNCHANGED alert

\* A lost race is skipped here: expire_due() catches the class of its own module.
Expire(o, a) ==
    /\ watcher[o].pass = "expire" /\ a \in watcher[o].todo
    /\ alert' = IF StillArmed(a) THEN [alert EXCEPT ![a] = Settled("EXPIRED")] ELSE alert
    /\ watcher' = [watcher EXCEPT ![o].todo = @ \ {a}]

EndPass(o) ==
    /\ watcher[o].pass # "none" /\ watcher[o].todo = {}
    /\ watcher' = [watcher EXCEPT ![o] = AtRest]
    /\ UNCHANGED alert

\* An hour of the clock; a poll takes far less.
AlertsAge ==
    /\ \A o \in Observer : watcher[o] = AtRest
    /\ alert' = [a \in Alert |-> [alert[a] EXCEPT !.left = IF @ = 0 THEN 0 ELSE @ - 1]]
    /\ UNCHANGED watcher

AlertsNext ==
    \/ \E a \in Alert : Arm(a) \/ Cancel(a)
    \/ \E o \in Observer :
          \/ BeginPass(o, "check") \/ BeginPass(o, "expire") \/ EndPass(o)
          \/ \E a \in Alert : NotCrossed(o, a) \/ Fire(o, a) \/ FireRefused(o, a) \/ Expire(o, a)
=============================================================================
