---------------------------- MODULE MCBackupRun ----------------------------
(* Values of the constants of BackupRun for TLC. *)
EXTENDS BackupRun, TLC

(* Sound: the runs check invariants only.                                  *)
Symmetry == Permutations(Account) \cup Permutations(Schedule) \cup Permutations(Process)
=============================================================================
