------------------------- MODULE MCSwapMaintenance -------------------------
(* A small instance of SwapMaintenance.                                       *)
EXTENDS SwapMaintenance, TLC
=============================================================================
