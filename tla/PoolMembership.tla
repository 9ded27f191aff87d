--------------------------- MODULE PoolMembership ---------------------------
(* What enrolment promises about one account, with no locks and no claims:   *)
(* it is in no pool or in one, and comes from one into another only by way   *)
(* of being in none.                                                         *)
CONSTANT Pools

VARIABLE place  \* the pools that have a row of the account

Init == place = {}

Enrol(k) ==
    /\ place = {}
    /\ place' = {k}

Leave(k) ==
    /\ place = {k}
    /\ place' = {}

Next == \E k \in Pools : Enrol(k) \/ Leave(k)

Spec == Init /\ [][Next]_place
=============================================================================
