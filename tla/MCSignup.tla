------------------------------ MODULE MCSignup ------------------------------
(* Bounded instances of Signup for TLC.                                    *)
EXTENDS Signup

Symmetry == Permutations(Sessions) \cup Permutations(Clients)
=============================================================================
