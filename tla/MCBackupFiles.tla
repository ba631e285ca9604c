--------------------------- MODULE MCBackupFiles ---------------------------
(* Values of the constants of BackupFiles for TLC. *)
EXTENDS BackupFiles
=============================================================================
