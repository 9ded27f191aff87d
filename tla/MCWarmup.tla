----------------------------- MODULE MCWarmup -----------------------------
(* Instances of Warmup for TLC: the gaps and thresholds of warmup-phases.ts   *)
(* scaled down with their order kept.                                         *)
EXTENDS Warmup, TLC

CONSTANTS p1, p2

MCThreshold == [settling |-> 1, identity |-> 4, growing |-> 9, maturing |-> 10,
                ready |-> 11]
MCGap == [step |-> 1, auth |-> 2, username |-> 2, growing |-> 1]
MCLegacy == {{}, {"set_2fa", "delete_photos"}}
MCSymmetry == Permutations(Procs)
MCDone == {Steps \ {"upload_photo"}}
===========================================================================
