-------------------------- MODULE MCDiskProgress --------------------------
(* Values of the constants of DiskProgress for TLC. *)
EXTENDS DiskProgress

RaidJob == {"create_raid"}
LvmJob == {"add_to_lvm"}
Loud == {"die", "interrupt"}
FailsQuietly == {"quiet"}
=============================================================================
