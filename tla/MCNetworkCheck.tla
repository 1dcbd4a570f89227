--------------------------- MODULE MCNetworkCheck ---------------------------
(* Small instances of NetworkCheck for TLC.                                *)
EXTENDS NetworkCheck
=============================================================================
