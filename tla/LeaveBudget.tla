---------------------------- MODULE LeaveBudget ----------------------------
(* What the leave queue promises about the chats of a pool, with no passes,   *)
(* no timers and no batches: an account leaves as many as it owes, and no     *)
(* more in a day than the cap allows in every life of the process.  Chats are *)
(* counted, not named.  A debt may be forgotten, but comes from a scan only.  *)
EXTENDS Naturals

CONSTANTS
    Mobiles,
    Batch,      \* chats a scan finds in one go
    LeaveBatch, \* chats in hand at most when a scan looks again
    LeaveCap    \* chats an account may leave in a day

VARIABLES
    owed,   \* chats an account is still to leave
    gone,   \* chats it was made to leave today
    lives   \* restarts of the process today

Zero == [m \in Mobiles |-> 0]

Init == owed = Zero /\ gone = Zero /\ lives = 0

Owe(m, n) ==
    /\ owed[m] <= LeaveBatch
    /\ owed' = [owed EXCEPT ![m] = @ + n]
    /\ UNCHANGED <<gone, lives>>

Leave(m, n) ==
    /\ n <= owed[m] /\ gone[m] + n <= LeaveCap * (1 + lives)
    /\ owed' = [owed EXCEPT ![m] = @ - n]
    /\ gone' = [gone EXCEPT ![m] = @ + n]
    /\ UNCHANGED lives

\* An account is dead, has used up its day, or has no room in the map.
Forget(m, n) ==
    /\ n < owed[m]
    /\ owed' = [owed EXCEPT ![m] = n]
    /\ UNCHANGED <<gone, lives>>

Restart ==
    /\ owed' = Zero /\ lives' = lives + 1
    /\ UNCHANGED gone

NewDay ==
    /\ gone' = Zero /\ lives' = 0
    /\ UNCHANGED owed

Next ==
    \/ \E m \in Mobiles : \/ \E n \in 1 .. Batch : Owe(m, n)
                          \/ \E n \in 1 .. owed[m] : Leave(m, n)
                          \/ \E n \in 0 .. owed[m] : Forget(m, n)
    \/ Restart \/ NewDay

Spec == Init /\ [][Next]_<<owed, gone, lives>>
=============================================================================
