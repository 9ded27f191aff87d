------------------------ MODULE MCConnectionManager ------------------------
(* Small instances of ConnectionManager: a few calls for one or two mobiles. *)
EXTENDS ConnectionManager, TLC

MCSymmetry == Permutations(Calls) \cup Permutations(Mobiles)
=============================================================================
