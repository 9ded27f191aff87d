------------------------- MODULE MCSessionCreation -------------------------
(* Two requests of one mobile at once, answered and asked again for ever.  *)
EXTENDS SessionCreation
=============================================================================
