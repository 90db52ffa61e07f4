---------------------------- MODULE ExitManager ----------------------------
(***************************************************************************)
(* DeterministicExitManager.assess (aureon/management/exit_manager.py) and *)
(* the guardian it asks (profit_guardian.py), as a function of the stored  *)
(* state, one quote and what the market looks like.  Prices are moves from *)
(* the entry in the trade's favour, so both directions read the same.      *)
(* Agent 14's protection floor is MinimumLock, as the manager builds it.   *)
(***************************************************************************)
EXTENDS Integers

CONSTANTS
    ActivationMove, MinimumLock, TrailPercent, TightenPercent,
    TightenGiveback, EmergencyGiveback, ExecutableBuffer,
    InitialStop     \* the trade's first stop; far below every quote, it is none

ASSUME ExitPolicy ==
    /\ {ActivationMove, MinimumLock, TrailPercent, TightenPercent} \subseteq Nat
    /\ {TightenGiveback, EmergencyGiveback, ExecutableBuffer} \subseteq Nat
    /\ MinimumLock < ActivationMove
    /\ 0 < TrailPercent /\ TrailPercent <= TightenPercent /\ TightenPercent < 100
    /\ InitialStop \in Int /\ InitialStop < 0

Phase == {"OPEN", "PROTECTION_PENDING", "PROTECTED", "TRAILING", "EXIT_PENDING", "CLOSED"}

\* Mutant of ManagementTransitions: trailing again after the exit was requested.
TransitionsReopened ==
    [p \in Phase |-> IF p = "CLOSED" THEN {} ELSE Phase \ {"OPEN"}]

ManagementTransitions == [p \in Phase |->
    CASE p = "OPEN" -> Phase \ {"OPEN"}
      [] p = "PROTECTION_PENDING" -> {"PROTECTED", "TRAILING", "EXIT_PENDING", "CLOSED"}
      [] p = "PROTECTED" -> {"TRAILING", "EXIT_PENDING", "CLOSED"}
      [] p = "TRAILING" -> {"EXIT_PENDING", "CLOSED"}
      [] p = "EXIT_PENDING" -> {"CLOSED"}
      [] p = "CLOSED" -> {}]

\* What is kept between two quotes.  protection_activated and trail_activated
\* are set by the same quote, so one field stands for both.
State == [phase : Phase, stop : Int, peak : Nat, trailing : BOOLEAN]
Opened == [phase |-> "OPEN", stop |-> InitialStop, peak |-> 0, trailing |-> FALSE]

\* What the caller sees besides the quote: a structural invalidation, and
\* whether two or more market-health conditions weaken.
View == [invalid : BOOLEAN, weak : BOOLEAN]

Higher(a, b) == IF a >= b THEN a ELSE b
Lower(a, b) == IF a <= b THEN a ELSE b

Seen(s, move) == [s EXCEPT !.peak = Higher(@, move)]
Giveback(s, move) == s.peak - move

\* The guardian's emergency: much given back, and weakness or next to nothing left.
Emergency(s, move, view) ==
    /\ s.peak >= ActivationMove
    /\ Giveback(s, move) >= EmergencyGiveback
    /\ view.weak \/ move <= MinimumLock

\* Hard risk, the ratcheted stop, the structure, the guardian, in that order.
MustExit(s, move, view) ==
    \/ move <= InitialStop
    \/ s.stop # InitialStop /\ move <= s.stop
    \/ view.invalid
    \/ Emergency(s, move, view)

Percent(s, move, view) ==
    IF Giveback(s, move) >= TightenGiveback \/ view.weak THEN TightenPercent ELSE TrailPercent

\* The tighter of the floor and the trail, kept off the executable quote.
ProposedStop(s, move, view) ==
    Lower(Higher(MinimumLock, (s.peak * Percent(s, move, view)) \div 100),
          move - ExecutableBuffer)

\* Mutant of Ratcheted: the proposal of the moment replaces the stop.
Unratcheted(s, move, view) ==
    IF s.peak < ActivationMove THEN s
    ELSE [s EXCEPT !.stop = ProposedStop(s, move, view), !.trailing = TRUE]

\* The ratchet: from the activation move on, a tighter proposal becomes the stop.
Ratcheted(s, move, view) ==
    IF s.peak < ActivationMove \/ ProposedStop(s, move, view) <= s.stop THEN s
    ELSE [s EXCEPT !.stop = ProposedStop(s, move, view), !.trailing = TRUE]

NextPhase(s) ==
    IF s.trailing THEN "TRAILING"
    ELSE IF s.phase = "OPEN" /\ s.peak \in 1..(ActivationMove - 1) THEN "PROTECTION_PENDING"
    ELSE s.phase

\* The state a quote leads to.
Assessed(s, move, view) ==
    LET seen == Seen(s, move)
        kept == Ratcheted(seen, move, view)
    IN  IF MustExit(seen, move, view) THEN [seen EXCEPT !.phase = "EXIT_PENDING"]
        ELSE [kept EXCEPT !.phase = NextPhase(kept)]

\* assert_management_transition raises otherwise, and the quote is forgotten.
MayAssess(s, move, view) ==
    LET to == Assessed(s, move, view).phase
    IN  s.phase = to \/ to \in ManagementTransitions[s.phase]
=============================================================================
