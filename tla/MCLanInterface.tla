--------------------------- MODULE MCLanInterface ---------------------------
(* Values of the constants of LanInterface for TLC. *)
EXTENDS LanInterface
=============================================================================
