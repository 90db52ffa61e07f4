------------------------------ MODULE Outcomes ------------------------------
(***************************************************************************)
(* The outcome tracker (aureon/evaluation/outcome_tracker.py): what is     *)
(* measured after a detection, candle by candle.  Candles are numbered by  *)
(* their open time, one number per timeframe.  Two of a rule's horizons    *)
(* are kept: one that ends after `Horizon' candles, as those that end with *)
(* the minute, the session or the day do, and the one that ends when the   *)
(* same agent detects the opposite.                                        *)
(***************************************************************************)
EXTENDS Naturals

CONSTANTS
    Horizon,    \* candles in the horizon that counts them
    Tolerance   \* DEFAULT_GAP_TOLERANCE_TIMEFRAMES

ASSUME OutcomeAssumption == Horizon \in Nat \ {0} /\ Tolerance \in Nat

HorizonStatus == {"pending", "complete", "invalid"}

\* last is 0 until the first candle after the detection fixes the reference;
\* measured is a history field: the candles the counting horizon was made of.
Evaluation(candles) ==
    [tracked : BOOLEAN, bars : HorizonStatus, cross : HorizonStatus,
     seen : 0..Horizon, last : {0} \cup candles, measured : SUBSET candles]

Untracked == [tracked |-> FALSE, bars |-> "pending", cross |-> "pending",
              seen |-> 0, last |-> 0, measured |-> {}]

\* track().
Started(e) == [e EXCEPT !.tracked = TRUE]

StillOpen(e) == e.tracked /\ "pending" \in {e.bars, e.cross}

\* Mutant of GapBefore: gaps are not looked for.
GapNever(e, c) == FALSE

\* _gap_before(): nothing is before the first candle that is measured.
GapBefore(e, c) == e.last # 0 /\ c > e.last + 1 + Tolerance

\* _apply(): a gap invalidates every horizon that is open.
Measured(e, c) ==
    IF GapBefore(e, c)
    THEN [e EXCEPT !.last = c,
                   !.bars = IF @ = "pending" THEN "invalid" ELSE @,
                   !.cross = IF @ = "pending" THEN "invalid" ELSE @]
    ELSE IF e.bars = "pending"
    THEN [e EXCEPT !.last = c, !.seen = @ + 1, !.measured = @ \cup {c},
                   !.bars = IF e.seen + 1 >= Horizon THEN "complete" ELSE @]
    ELSE [e EXCEPT !.last = c]

\* on_detection(): the opposite was detected, after the reference was fixed.
Crossed(e) == [e EXCEPT !.cross = "complete"]
CrossEnds(e) == StillOpen(e) /\ e.last # 0 /\ e.cross = "pending"
=============================================================================
