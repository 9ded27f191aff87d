--------------------------- MODULE MainAssignment ---------------------------
(* What the swap promises about its two collections, with no saga: the main  *)
(* of a client and the reservation of its account change in one step, and    *)
(* nothing but that step reserves an account.                                *)
CONSTANTS Clients, Mobiles, InitMain

VARIABLES
    main,  \* the account every client runs on
    held   \* the reserved accounts

Init ==
    /\ main = InitMain
    /\ held = {InitMain[c] : c \in Clients}

\* A client moves to an account no other client runs on.
Switch(c, m) ==
    /\ \A d \in Clients \ {c} : main[d] # m
    /\ main' = [main EXCEPT ![c] = m]
    /\ held' = (held \ {main[c]}) \cup {m}

\* A reservation is lost: the account was expired, or put back as supply.
Drop(m) ==
    /\ m \in held
    /\ held' = held \ {m}
    /\ UNCHANGED main

Next ==
    \/ \E c \in Clients, m \in Mobiles : Switch(c, m)
    \/ \E m \in Mobiles : Drop(m)

Spec == Init /\ [][Next]_<<main, held>>
=============================================================================
