------------------------------- MODULE Guard --------------------------------
(***************************************************************************)
(* Guard: the last check before money moves                                *)
(* (aureon/execution/execution_guard.py, ExecutionWorker._guard), run by   *)
(* several executors beside the operators' switch, the humans who trade by *)
(* hand and the broker that fills and closes.  A request is claimed once;  *)
(* Execution models the claim.  Of the twenty rules three are kept, the    *)
(* switch and the two limits on positions; the others may refuse anything. *)
(***************************************************************************)
EXTENDS Integers, FiniteSets

CONSTANTS
    Executor,
    Market, Pending,        \* confirmed requests for either kind of order
    Symbol,
    SymbolOf,               \* the symbol of each request
    MaxAureonPositions,     \* max_aureon_positions_per_symbol
    MaxOpenPositions,       \* max_open_positions
    MaxManual,              \* bound on the positions opened by hand
    None

Request == Market \cup Pending

ASSUME GuardAssumption ==
    /\ IsFiniteSet(Executor) /\ Executor # {} /\ IsFiniteSet(Request) /\ Market \cap Pending = {}
    /\ SymbolOf \in [Request -> Symbol]
    /\ MaxAureonPositions \in Nat /\ MaxOpenPositions \in Nat /\ MaxManual \in Nat
    /\ None \notin Request /\ None \notin Executor

VARIABLES
    enabled,    \* settings.trading_enabled
    confirmed,  \* the requests nobody has claimed
    worker,     \* each executor's step, the request in its hands and the switch as it read it
    place,      \* where a request's order is: nowhere, on the wire, in the book, a position
    manual,     \* positions opened by hand
    barred,     \* history: claimed while the switch was off, which has been off since
    adrift      \* history: the orders whose sender did not wait for them

vars == <<enabled, confirmed, worker, place, manual, barred, adrift>>

Idle == [step |-> "idle", at |-> None, on |-> FALSE]

TypeOK ==
    /\ enabled \in BOOLEAN
    /\ confirmed \subseteq Request
    /\ worker \in [Executor -> [step : {"idle", "claimed", "settings", "allowed", "sent"},
                                at : Request \cup {None}, on : BOOLEAN]]
    /\ place \in [Request -> {"nowhere", "wire", "resting", "open", "gone"}]
    /\ manual \in 0..MaxManual
    /\ barred \subseteq Request /\ adrift \subseteq Request

Init ==
    /\ enabled = FALSE /\ confirmed = Request /\ worker = [e \in Executor |-> Idle]
    /\ place = [r \in Request |-> "nowhere"] /\ manual = 0
    /\ barred = {} /\ adrift = {}

-----------------------------------------------------------------------------
(* The operators' switch, and the broker's side.                             *)

Disable ==
    /\ enabled' = FALSE
    /\ UNCHANGED <<confirmed, worker, place, manual, barred, adrift>>

\* The button of a screen that may have been open for a while: nobody compares versions.
Enable ==
    /\ enabled' = TRUE /\ barred' = {}
    /\ UNCHANGED <<confirmed, worker, place, manual, adrift>>

ByHand ==
    /\ manual' \in {manual - 1, manual + 1} \cap (0..MaxManual)
    /\ UNCHANGED <<enabled, confirmed, worker, place, barred, adrift>>

Moves(r, from, to) ==
    /\ place[r] = from /\ place' = [place EXCEPT ![r] = to]
    /\ UNCHANGED <<enabled, confirmed, worker, manual, barred, adrift>>

BrokerTakes(r) == Moves(r, "wire", IF r \in Market THEN "open" ELSE "resting")
BrokerRefuses(r) == Moves(r, "wire", "gone")
RestingFills(r) == Moves(r, "resting", "open")
RestingLeaves(r) == Moves(r, "resting", "gone")
PositionCloses(r) == Moves(r, "open", "gone")

-----------------------------------------------------------------------------
(* An executor.                                                              *)

At(e, step) == worker[e].step = step
Holds(e) == worker[e].at

Claim(e, r) ==
    /\ At(e, "idle") /\ r \in confirmed
    /\ confirmed' = confirmed \ {r}
    /\ worker' = [worker EXCEPT ![e] = [step |-> "claimed", at |-> r, on |-> FALSE]]
    /\ barred' = IF enabled THEN barred ELSE barred \cup {r}
    /\ UNCHANGED <<enabled, place, manual, adrift>>

\* Mutant of ReadsSwitch: a read that fails keeps trading on.
ReadsSwitchOpen(on) == on \in {enabled, TRUE}

\* Settings that cannot be read are the default ones, which do not trade.
ReadsSwitch(on) == on \in {enabled, FALSE}

ReadSettings(e) ==
    /\ At(e, "claimed")
    /\ \E on \in BOOLEAN :
        ReadsSwitch(on) /\ worker' = [worker EXCEPT ![e].step = "settings", ![e].on = on]
    /\ UNCHANGED <<enabled, confirmed, place, manual, barred, adrift>>

Positions == {r \in Request : place[r] = "open"}
OnSymbol(r) == {q \in Positions : SymbolOf[q] = SymbolOf[r]}

\* Mutant of WithinLimits: the limit itself passes.
WithinLimitsAt(r) ==
    /\ Cardinality(OnSymbol(r)) <= MaxAureonPositions
    /\ Cardinality(Positions) + manual < MaxOpenPositions

\* Resting orders are not positions, and positions opened by hand are on nobody's account.
WithinLimits(r) ==
    /\ Cardinality(OnSymbol(r)) < MaxAureonPositions
    /\ Cardinality(Positions) + manual < MaxOpenPositions

\* The positions are read, and the verdict given on them.
Allow(e) ==
    /\ At(e, "settings") /\ worker[e].on /\ WithinLimits(Holds(e))
    /\ worker' = [worker EXCEPT ![e].step = "allowed"]
    /\ UNCHANGED <<enabled, confirmed, place, manual, barred, adrift>>

\* Another rule, positions that cannot be read, a lease lost at the stamp, a crash: nothing is sent.
Leave(e) ==
    /\ worker[e].step \in {"claimed", "settings", "allowed"}
    /\ worker' = [worker EXCEPT ![e] = Idle]
    /\ UNCHANGED <<enabled, confirmed, place, manual, barred, adrift>>

Send(e) ==
    /\ At(e, "allowed")
    /\ place' = [place EXCEPT ![Holds(e)] = "wire"]
    /\ worker' = [worker EXCEPT ![e].step = "sent"]
    /\ UNCHANGED <<enabled, confirmed, manual, barred, adrift>>

Answered(e) ==
    /\ At(e, "sent") /\ place[Holds(e)] # "wire"
    /\ worker' = [worker EXCEPT ![e] = Idle]
    /\ UNCHANGED <<enabled, confirmed, place, manual, barred, adrift>>

\* The send raises, or the executor dies: the order may still arrive.
Unanswered(e) ==
    /\ At(e, "sent") /\ place[Holds(e)] = "wire"
    /\ worker' = [worker EXCEPT ![e] = Idle] /\ adrift' = adrift \cup {Holds(e)}
    /\ UNCHANGED <<enabled, confirmed, place, manual, barred>>

Next ==
    \/ Disable \/ Enable \/ ByHand
    \/ \E r \in Request : BrokerTakes(r) \/ BrokerRefuses(r) \/ RestingFills(r)
                          \/ RestingLeaves(r) \/ PositionCloses(r)
    \/ \E e \in Executor : ReadSettings(e) \/ Allow(e) \/ Leave(e) \/ Send(e)
                           \/ Answered(e) \/ Unanswered(e)
    \/ \E e \in Executor, r \in Request : Claim(e, r)

Spec == Init /\ [][Next]_vars

-----------------------------------------------------------------------------

\* "V1 never pyramids": what the guard let through on one symbol is within the limit, but for
\* one order of every other executor that read the positions before the order showed.  Resting
\* orders, which fill unasked, and orders whose answer was lost come on top.
OnlyRacesPyramid ==
    \A s \in Symbol :
        Cardinality({r \in Positions \cap Market : SymbolOf[r] = s /\ r \notin adrift})
            <= MaxAureonPositions - 1 + Cardinality(Executor)

\* /trading disable blocks the very next attempt: no order leaves for a request claimed with
\* the switch off, unless it was turned on again in between.
DisableBlocksTheNext ==
    [][\A r \in Request : place[r] = "nowhere" /\ place'[r] = "wire" => r \notin barred]_vars
=============================================================================
