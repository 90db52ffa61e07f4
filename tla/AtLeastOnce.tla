---------------------------- MODULE AtLeastOnce ----------------------------
(***************************************************************************)
(* What a durable outbox promises: an item that was accepted stays with    *)
(* the sender until the receiver has it, and is let go of only then.  It   *)
(* may reach the receiver more than once, and nothing else reaches it.     *)
(***************************************************************************)
CONSTANT Item
VARIABLES
    accepted,   \* every item the sender ever took charge of
    held,       \* those it has not let go of
    received    \* what the receiver has

Init == accepted = {} /\ held = {} /\ received = {}

Accept(items) ==
    /\ accepted' = accepted \cup items
    /\ held' = held \cup (items \ accepted)
    /\ UNCHANGED received

Transmit(i) ==
    /\ i \in held
    /\ received' = received \cup {i}
    /\ UNCHANGED <<accepted, held>>

LetGo(i) ==
    /\ i \in held \cap received
    /\ held' = held \ {i}
    /\ UNCHANGED <<accepted, received>>

Next == \/ \E items \in SUBSET Item : Accept(items)
        \/ \E i \in Item : Transmit(i) \/ LetGo(i)

Spec == Init /\ [][Next]_<<accepted, held, received>>
=============================================================================
