------------------------------ MODULE OneOrder ------------------------------
(***************************************************************************)
(* What the execution path promises, whoever runs it: a request is asked   *)
(* for, a human authorises it, one executor takes it, and at most one      *)
(* order comes of it.  A request that was withdrawn or went stale before   *)
(* it was taken never becomes an order.                                    *)
(***************************************************************************)
EXTENDS Naturals

CONSTANT Request
VARIABLES stage, orders

Stages == {"asked", "authorised", "taken", "withdrawn"}

Init == /\ stage = [r \in Request |-> "asked"]
        /\ orders = [r \in Request |-> 0]

Move(r, from, to) ==
    /\ stage[r] = from
    /\ stage' = [stage EXCEPT ![r] = to]
    /\ UNCHANGED orders

Authorise(r) == Move(r, "asked", "authorised")
Withdraw(r)  == Move(r, "asked", "withdrawn") \/ Move(r, "authorised", "withdrawn")
Take(r)      == Move(r, "authorised", "taken")

Place(r) ==
    /\ stage[r] = "taken" /\ orders[r] = 0
    /\ orders' = [orders EXCEPT ![r] = 1]
    /\ UNCHANGED stage

Next == \E r \in Request : Authorise(r) \/ Withdraw(r) \/ Take(r) \/ Place(r)

Spec == Init /\ [][Next]_<<stage, orders>>
=============================================================================
