-------------------------- MODULE MCAnnouncements --------------------------
(* Instances of Announcements for TLC: one of each kind of thing to say.     *)
EXTENDS Announcements, TLC

CONSTANTS d1, d2, j1

\* One detection in a journey and one in none.
Journeys == (d1 :> j1) @@ (d2 :> None)

\* Two of a setup's changes and the detection outside a journey come together; the others,
\* alone.
Weights == [kind \in {"detection", "alert", "setup", "journey", "outcome"} |->
                IF kind \in {"alert", "outcome"} THEN 2 ELSE 1]
=============================================================================
