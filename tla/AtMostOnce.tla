----------------------------- MODULE AtMostOnce -----------------------------
(***************************************************************************)
(* What a row that is claimed before the deed promises, whoever works on   *)
(* it: one claims it, and for good; the deed is done at most once and only *)
(* after the claim; and what is on record as done was done.  A claim whose *)
(* holder failed is not tried again, done or not.                          *)
(***************************************************************************)
EXTENDS Naturals

CONSTANT Item
VARIABLES
    claimed,    \* the items somebody has claimed
    times,      \* how often the deed was done for each
    known       \* those on record as done

Init == claimed = {} /\ times = [i \in Item |-> 0] /\ known = {}

Claim(i) ==
    /\ i \notin claimed /\ claimed' = claimed \cup {i}
    /\ UNCHANGED <<times, known>>

\* The record may be made with the deed or after it, or never.
Do(i) ==
    /\ i \in claimed /\ times[i] = 0
    /\ times' = [times EXCEPT ![i] = 1]
    /\ known' \in {known, known \cup {i}}
    /\ UNCHANGED claimed

Learn(i) ==
    /\ times[i] = 1 /\ known' = known \cup {i}
    /\ UNCHANGED <<claimed, times>>

Next == \E i \in Item : Claim(i) \/ Do(i) \/ Learn(i)

Spec == Init /\ [][Next]_<<claimed, times, known>>
=============================================================================
