--------------------------- MODULE MCDiskDaemon ---------------------------
(* Values of the constants of DiskDaemon for TLC. *)
EXTENDS DiskDaemon

Jobs == {"format_disk", "add_to_lvm"}
Quiet == {"add_to_lvm"}
AllFaults == FaultKind
=============================================================================
