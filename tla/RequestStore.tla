---------------------------- MODULE RequestStore ----------------------------
(***************************************************************************)
(* One row of trade_requests and what each method of                       *)
(* aureon/storage/postgres/repositories/trade_requests.py makes of it.     *)
(* Every method runs in one transaction on a locked row, so a method is an *)
(* operator from the row and the instant it ran at to the new row, and a   *)
(* step of a module that EXTENDS this one applies it atomically.           *)
(*                                                                         *)
(* Only the fields a decision reads are kept: prices, volumes, the symbol, *)
(* ids and messages are not.  Requester and presser are not told apart:    *)
(* both the confirmation view and the store refuse anyone else, and a      *)
(* refusal changes nothing.                                                *)
(***************************************************************************)
EXTENDS RequestStates

CONSTANTS
    Request,      \* request ids
    Executor,     \* executor processes (executor_instance_id)
    None,         \* SQL NULL
    Ttl,          \* confirmation_ttl_seconds
    LeaseTime     \* lease_seconds

\* The codes reconciliation gives a request it gives up on.
NotFound == "RECONCILIATION_NOT_FOUND"
Ambiguous == "RECONCILIATION_AMBIGUOUS"

ASSUME NoneIsFresh == None \notin Nat \cup Request \cup Executor \cup {NotFound, Ambiguous}
ASSUME DurationsAreNat == Ttl \in Nat /\ LeaseTime \in Nat

Kind == {"market", "pending"}         \* order_type.is_pending
Instant == Nat \cup {None}

\* The failure code of a row; other codes are not kept apart from NULL.
Failure == {None, NotFound, Ambiguous}

TradeRequest ==
    [status     : StoredStatus,
     kind       : Kind,
     expiresAt  : Instant,             \* confirmation deadline
     holder     : Executor \cup {None},\* executor_instance_id
     leaseUntil : Instant,             \* lease_expires_at
     startedAt  : Instant,             \* execution_started_at
     token      : BOOLEAN,             \* comment_token has been stamped
     failure    : Failure,
     unsized    : BOOLEAN]            \* FILLED, with filled_volume NULL

NoRow == [status |-> "ABSENT", kind |-> "market", expiresAt |-> None,
          holder |-> None, leaseUntil |-> None, startedAt |-> None,
          token |-> FALSE, failure |-> None, unsized |-> FALSE]

\* create: a new request always starts in REQUESTED.
Created(k) == [NoRow EXCEPT !.status = "REQUESTED", !.kind = k]

\* confirm: only from REQUESTED; a repeat on a CONFIRMED row is a no-op.
MayConfirm(q) == q.status = "REQUESTED"
Confirmed(q, now) == [q EXCEPT !.status = "CONFIRMED", !.expiresAt = now + Ttl]

\* Mutant of ConfirmationExpired: the last instant still counts.
ExpiredTooLate(q, now) == q.expiresAt # None /\ now > q.expiresAt

\* TradeRequest.confirmation_expired and TradeRequest.lease_held_by.
ConfirmationExpired(q, now) == q.expiresAt # None /\ now >= q.expiresAt
LeaseHeldBy(q, e, now) == q.holder = e /\ q.leaseUntil # None /\ now < q.leaseUntil

\* The stamp the worker writes with resolve(EXECUTING) before it sends.
Stamped(q) == [q EXCEPT !.token = TRUE]

\* Mutants: a claim takes over a request in flight, or one cancelled meanwhile;
\* the stale mark is rolled back.
MayClaimInFlight(q, now) == q.status \in {"CONFIRMED", "EXECUTING"}
                            /\ ~ConfirmationExpired(q, now)
MayClaimCancelled(q, now) == q.status \in {"CONFIRMED", "CANCELLED"}
                             /\ ~ConfirmationExpired(q, now)
StaleMarkLost(q) == q

\* claim (_apply_claim): a live confirmation is taken under a lease, a stale
\* one is marked FAILED_STALE and the mark is committed.
MayClaim(q, now) == q.status = "CONFIRMED" /\ ~ConfirmationExpired(q, now)
IsStale(q, now) == q.status = "CONFIRMED" /\ ConfirmationExpired(q, now)
Claimed(q, e, now) == [q EXCEPT !.status = "EXECUTING", !.holder = e,
                                !.leaseUntil = now + LeaseTime, !.startedAt = now]
MarkedStale(q) == [q EXCEPT !.status = "FAILED_STALE"]

\* renew_lease: refuses a lease that has already run out.
MayRenew(q, e, now) == LeaseHeldBy(q, e, now)
Renewed(q, now) == [q EXCEPT !.leaseUntil = now + LeaseTime]

\* Mutant of Accepts: the transition table is not consulted.
AcceptsAnything(q, s) == q.status # s \/ s \notin Terminal

\* resolve, past the lease check.  Every caller sends updates or a failure
\* message, so the "nothing to write" return is never the one taken: a change
\* of status needs an edge of the table, and a write that keeps the status
\* needs the status not to be terminal.
Accepts(q, s) == IF q.status = s THEN s \notin Terminal
                                 ELSE s \in NextStatuses(q.status)
Resolved(q, s) == [q EXCEPT !.status = s]

\* ... and the same by the worker, which may not know how much was filled.
Recorded(q, s, u) == [q EXCEPT !.status = s, !.unsized = u]

\* resolve with reconciliation=False.
HolderMayResolve(q, e, s, now) == LeaseHeldBy(q, e, now) /\ Accepts(q, s)
=============================================================================
