---------------------------- MODULE MCClientSwap ----------------------------
(* Small instances of ClientSwap: two processes, two clients with one main   *)
(* each and one to three spares, which belong to the first client.           *)
EXTENDS ClientSwap, TLC

CONSTANTS p1, p2, c1, c2, m1, m2, m3, m4, m5

MCMain      == (c1 :> m1) @@ (c2 :> m2)
MCOwner3    == (m1 :> c1) @@ (m2 :> c2) @@ (m3 :> c1)
MCOwner5    == MCOwner3 @@ (m4 :> c1) @@ (m5 :> c1)
MCSiblings  == (c1 :> "x") @@ (c2 :> "x")
MCStrangers == (c1 :> "x") @@ (c2 :> "y")

MCSymmetry == Permutations(Procs)
=============================================================================
