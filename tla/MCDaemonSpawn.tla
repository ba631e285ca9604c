--------------------------- MODULE MCDaemonSpawn ---------------------------
(* Values of the constants of DaemonSpawn for TLC. *)
EXTENDS DaemonSpawn, TLC

DaemonSymmetry == Permutations(Daemon)
=============================================================================
