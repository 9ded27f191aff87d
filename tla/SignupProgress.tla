--------------------------- MODULE SignupProgress ---------------------------
(* What signing a phone in promises a caller, with no locks, no timers and   *)
(* no connections: one sign-in at a time, opened by a code, which at most    *)
(* goes on to ask for the password, and a new one only after its end.        *)
CONSTANTS Sessions, None

VARIABLES
    open,   \* the sign-in of the phone
    awaits  \* what it waits for

Init == open = None /\ awaits = "nothing"

Open(s) ==
    /\ open = None
    /\ open' = s /\ awaits' = "code"

AskPassword ==
    /\ awaits = "code"
    /\ awaits' = "password" /\ open' = open

Close ==
    /\ open # None
    /\ open' = None /\ awaits' = "nothing"

Next == (\E s \in Sessions : Open(s)) \/ AskPassword \/ Close

Spec == Init /\ [][Next]_<<open, awaits>>
=============================================================================
