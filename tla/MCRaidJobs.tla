----------------------------- MODULE MCRaidJobs -----------------------------
(* Values of the constants of RaidJobs for TLC. *)
EXTENDS RaidJobs

AnyStep == Step \ {"done"}
NotKill == Event \ {"kill"}
=============================================================================
