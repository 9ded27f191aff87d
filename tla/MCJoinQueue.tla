---------------------------- MODULE MCJoinQueue ----------------------------
(* Instances of JoinQueue for TLC.                                            *)
EXTENDS JoinQueue, TLC

CONSTANTS m1, m2, s1, s2, r1

(* A midnight or a restart in one behaviour, not both.                        *)
MCBound == days + restarts <= 1

MCSymmetry == Permutations(Mobiles) \cup Permutations(Slots)
=============================================================================
