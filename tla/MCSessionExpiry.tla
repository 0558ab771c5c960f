--------------------------- MODULE MCSessionExpiry ---------------------------
(* Instances of SessionExpiry for TLC.                                     *)
EXTENDS SessionExpiry, TLC
=============================================================================
