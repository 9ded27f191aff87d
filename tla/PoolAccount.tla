---------------------------- MODULE PoolAccount ----------------------------
(* What the warm-up promises the pool about one account, with no phases, no   *)
(* plans and no sessions: it becomes READY once and supply once, becomes the  *)
(* main of a client from supply only, and is supply when it is replaced.      *)
VARIABLE stage

Stages == {"warming", "ready", "supply", "main"}

Init == stage = "warming"

Turns(from, to) == stage = from /\ stage' = to

Ready   == Turns("warming", "ready")
Rotate  == Turns("ready", "supply")
Lend    == Turns("supply", "main")
Return  == Turns("main", "supply")

Next == Ready \/ Rotate \/ Lend \/ Return

Spec == Init /\ [][Next]_stage
=============================================================================
