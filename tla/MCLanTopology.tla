--------------------------- MODULE MCLanTopology ---------------------------
(* An instance of LanTopology for TLC.                                     *)
EXTENDS LanTopology
=============================================================================
