---------------------------- MODULE OpsRegister ----------------------------
(***************************************************************************)
(* The register of operational conditions (aureon/services/ops_events.py): *)
(* a caller says what is true now, and only a change is announced.  The    *)
(* stored row is what makes "once" survive a restart.                      *)
(***************************************************************************)
EXTENDS Naturals

Row == [active : BOOLEAN, onsets : Nat]

\* No row is a row that was never active.
NoRow == [active |-> FALSE, onsets |-> 0]

\* Mutant of WasActive: the register trusts the process, which has just started.
WasActiveNever(row, readable) == FALSE

\* A register that cannot be read is taken for one without the row.
WasActive(row, readable) == readable /\ row.active

\* What observe() announces: at most one edge.
Edge(row, active, readable) ==
    IF WasActive(row, readable) = active THEN {}
    ELSE IF active THEN {"onset"} ELSE {"recovery"}

\* The row observe() leaves: a failed write is swallowed, and the edge announced even so.
Recorded(row, active, readable, writable) ==
    IF Edge(row, active, readable) = {} \/ ~writable THEN row
    ELSE [active |-> active,
          onsets |-> (IF readable THEN row.onsets ELSE 0) + (IF active THEN 1 ELSE 0)]
=============================================================================
