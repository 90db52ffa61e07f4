--------------------------- MODULE RequestStates ---------------------------
(***************************************************************************)
(* The lifecycle of a trade request: the statuses of                       *)
(* aureon/models/enums.py (TradeRequestStatus), the table of legal         *)
(* transitions (TRADE_REQUEST_TRANSITIONS) and the statuses nothing may    *)
(* leave (TERMINAL_REQUEST_STATUSES).  "ABSENT" stands for a request id    *)
(* that has no row yet.                                                    *)
(***************************************************************************)
EXTENDS Naturals

Status == {"REQUESTED", "CONFIRMED", "EXECUTING", "RECONCILING", "PENDING",
           "PARTIALLY_FILLED", "FILLED", "CANCELLED", "EXPIRED", "FAILED",
           "FAILED_STALE", "FAILED_RECONCILIATION"}

StoredStatus == Status \cup {"ABSENT"}

\* The statuses a request may move to from s, one line per row of the table.
NextStatuses(s) ==
    CASE s = "REQUESTED"   -> {"CONFIRMED", "CANCELLED", "EXPIRED"}
      [] s = "CONFIRMED"   -> {"EXECUTING", "CANCELLED", "FAILED_STALE", "FAILED"}
      [] s = "EXECUTING"   -> {"FILLED", "PARTIALLY_FILLED", "PENDING", "FAILED",
                               "FAILED_RECONCILIATION", "RECONCILING"}
      [] s = "RECONCILING" -> {"FILLED", "PARTIALLY_FILLED", "PENDING",
                               "FAILED_RECONCILIATION"}
      [] s = "PENDING"     -> {"FILLED", "PARTIALLY_FILLED", "CANCELLED", "EXPIRED",
                               "FAILED_RECONCILIATION"}
      [] s = "PARTIALLY_FILLED" -> {"FILLED", "PARTIALLY_FILLED", "CANCELLED",
                                    "EXPIRED", "FAILED_RECONCILIATION"}
      [] OTHER -> {}

Terminal == {"FILLED", "CANCELLED", "EXPIRED", "FAILED", "FAILED_STALE",
             "FAILED_RECONCILIATION"}

\* Statuses in which no executor has taken the request yet.
Unclaimed == {"ABSENT", "REQUESTED", "CONFIRMED"}

\* The statuses ReconciliationService.reconcile_all lists.
SweptStatuses == {"EXECUTING", "PENDING", "PARTIALLY_FILLED"}
=============================================================================
