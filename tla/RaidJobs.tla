------------------------------ MODULE RaidJobs ------------------------------
(***************************************************************************)
(* The scripts of the disk jobs in diskdaemon.pl (create_raid,             *)
(* restore_raid_broken_external, restore_raid_broken_internal,             *)
(* format_disk and add_to_lvm) and what they do to the system: the swap    *)
(* and the services they stop and start again, /home and /etc/fstab, the   *)
(* logical volume "lv" that holds /home at first, and the array "md" that  *)
(* holds it afterwards.  "int" is the internal disk, /dev/sda with its     *)
(* partition sda2, "ext" the external one with its first partition.        *)
(*                                                                         *)
(* A step is one command of diskmanager, or of the system, with the check  *)
(* of its result.  A failing command ends the job; what has been done by   *)
(* then is not undone.  A failing command has no effect but for a          *)
(* partition table that may be written.  Nobody looks at the result of a   *)
(* command started with system(): one that fails, or does half of its      *)
(* work, is missed and the job goes on.  Between any two steps the power   *)
(* may fail, the worker may be killed, and the user may mount or unmount   *)
(* the external disk on the disk page, which does not ask whether a job    *)
(* runs.                                                                   *)
(***************************************************************************)
EXTENDS Naturals, Sequences

CONSTANTS
  Flaky,    \* the steps whose command may fail for reasons of its own
  Events,   \* the events of the environment that may happen
  Budget    \* bounds how many jobs and events there are

Job == {"create_raid", "restore_external", "restore_internal", "format_disk", "add_to_lvm"}

Event == {"mount", "umount", "reboot", "kill", "new_external", "new_internal"}

Disk == {"int", "ext"}

(* The order of the commands.  A step that unmounts is passed over         *)
(* together with the one that removes the fstab entry when there is        *)
(* nothing to unmount.                                                     *)
Script ==
  [create_raid |-> <<
     "swapoff", "umount_ext", "forget_ext", "partition_raid", "list_lvs",
     "stop_services", "backup", "umount_home", "forget_home",
     "lvremove", "vgremove", "pvremove", "type_int", "next_md", "create_md",
     "mdadm_conf", "format_md", "add_fstab", "mount", "restore", "start_services", "swapon",
     "done" >>,
   restore_external |-> <<
     "swapoff", "partition_raid", "add_ext", "swapon", "done" >>,
   restore_internal |-> <<
     "swapoff", "list_lvs", "stop_services", "umount_home", "forget_home",
     "umount_ext", "forget_ext", "lvremove", "vgremove", "pvremove",
     "type_int", "assemble", "add_int", "mdadm_conf", "add_fstab", "mount",
     "start_services", "swapon", "done" >>,
   format_disk |-> << "partition_raw", "format_ext", "done" >>,
   add_to_lvm |-> <<
     "partition_lvm", "pvcreate", "vgextend", "lvextend", "extend_fs", "done" >>]

Step == UNION {{Script[j][i] : i \in 1..Len(Script[j])} : j \in Job}

(* The commands whose result no script looks at: system(), the mdadm whose *)
(* words are written to mdadm.conf, and md assemble, which reports success *)
(* whatever mdadm says.  The file itself may fail to be read or written.   *)
Unseen == {"swapoff", "swapon", "stop_services", "start_services", "backup", "restore",
           "mdadm_conf"}

Unchecked == (Unseen \ {"mdadm_conf"}) \cup {"create_md", "assemble", "done"}

ASSUME RaidAssumption ==
  /\ Flaky \subseteq Step
  /\ Events \subseteq Event
  /\ Budget \in Nat

VARIABLES
  job,       \* the job whose script runs, or "none"
  at,        \* the position in its script
  devices,   \* @devices: the physical volumes of the logical volume
  outcome,   \* how the last job ended, and at which step
  stray,     \* a job was stopped with /home unmounted and still in fstab
  bare,      \* a job was stopped between the old /home and the new
  missed,    \* the commands of the last job that failed unseen
  sys,       \* the running system and its files
  disk,      \* what is on the disks
  budget     \* what is left of Budget

jobVars == <<job, at, devices, outcome, stray, bare, missed>>
vars == <<jobVars, sys, disk, budget>>

Results == {"none", "ok", "died", "quiet", "cut"}

TypeOK ==
  /\ job \in Job \cup {"none"}
  /\ at \in Nat
  /\ job # "none" => at \in 1..Len(Script[job])
  /\ devices \subseteq Disk
  /\ stray \in BOOLEAN /\ bare \in BOOLEAN
  /\ missed \subseteq Unseen
  /\ outcome \in [result : Results, job : Job \cup {"none"}, step : Step \cup {"none"}]
  /\ sys \in [swap : BOOLEAN, services : {"up", "some", "down"}, conf : BOOLEAN, bkup : BOOLEAN,
              mounted : SUBSET {"lv", "md", "ext", "extern"},
              fstab : SUBSET {"lv", "md", "ext", "uuid"}]
  /\ disk \in [pvs : SUBSET Disk, vg : SUBSET Disk, lv : SUBSET Disk,
               super : SUBSET Disk, array : SUBSET Disk, fs : BOOLEAN,
               type : [Disk -> {"raw", "raid", "lvm"}]]
  /\ budget \in 0..Budget

(* sys.mounted: what is mounted, lv and md on /home, the external disk     *)
(* below /home/storage by the disk page ("extern") or elsewhere ("ext").   *)
(* sys.fstab: the devices in /etc/fstab; the disk page enters the external *)
(* disk by its UUID.                                                       *)
(* disk.pvs, vg, lv: the disks with a physical volume, those of the volume *)
(* group and those the logical volume spans.  disk.super, array, fs: the   *)
(* disks with a superblock of the array, those it runs on, and whether it  *)
(* is formatted.  disk.type: the type in the partition table.              *)
FreshSystem == [swap |-> TRUE, services |-> "up", conf |-> FALSE, bkup |-> FALSE,
                mounted |-> {"lv"}, fstab |-> {"lv"}]

FreshDisks == [pvs |-> {"int"}, vg |-> {"int"}, lv |-> {"int"},
               super |-> {}, array |-> {}, fs |-> FALSE,
               type |-> [int |-> "lvm", ext |-> "raw"]]

Nothing == [result |-> "none", job |-> "none", step |-> "none"]

(* A system as installed; a disk with an entry in fstab from before the    *)
(* disk page entered them by UUID is a disk, too.                          *)
Init ==
  /\ job = "none"
  /\ at = 1
  /\ devices = {}
  /\ outcome = Nothing
  /\ stray = FALSE /\ bare = FALSE
  /\ missed = {}
  /\ \/ sys = FreshSystem
     \/ sys = [FreshSystem EXCEPT !.mounted = {"lv", "ext"}, !.fstab = {"lv", "ext"}]
  /\ disk = FreshDisks
  /\ budget = Budget

-----------------------------------------------------------------------------
Doing(s) == job # "none" /\ Script[job][at] = s

(* From the removal of the entry of the volume to that of the array's, or, *)
(* as the array of a recovery may turn out not to be formatted, the mount. *)
BetweenHomes ==
  \/ job = "create_raid" /\ at \in 10..18
  \/ job = "restore_internal" /\ at \in 6..16

Advance(n) ==
  /\ at' = at + n
  /\ bare' = (bare /\ ~Doing("mount"))
  /\ UNCHANGED <<job, outcome, stray, missed, budget>>

ExtMounted == sys.mounted \cap {"ext", "extern"} # {}

ExtInUse == ExtMounted \/ "ext" \in disk.array \/ "ext" \in disk.lv

(* When the command of a step cannot do what it is asked to: a mount below *)
(* /home keeps it from being unmounted, an entry by UUID is not found by   *)
(* the name of the device, a disk in use is not formatted.                 *)
Impossible ==
  [umount_home |-> {"lv", "extern"} \subseteq sys.mounted,
   forget_ext |-> "ext" \notin sys.fstab,
   forget_home |-> "lv" \notin sys.fstab,
   format_ext |-> ExtInUse,
   lvremove |-> disk.lv = {} \/ "lv" \in sys.mounted,
   vgremove |-> disk.vg = {} \/ disk.lv # {},
   pvremove |-> ~ (devices \subseteq disk.pvs \ disk.vg),
   format_md |-> disk.array = {},
   add_fstab |-> disk.array = {} \/ "md" \in sys.fstab,
   mount |-> disk.array = {} \/ ~disk.fs,
   add_ext |-> disk.array = {} \/ ExtInUse,
   add_int |-> disk.array = {} \/ "int" \in disk.array \cup disk.vg,
   pvcreate |-> ExtInUse \/ "ext" \in disk.vg,
   vgextend |-> disk.vg = {} \/ "ext" \notin disk.pvs,
   lvextend |-> disk.lv = {} \/ "ext" \notin disk.vg]

Refused(s) == s \in DOMAIN Impossible /\ Impossible[s]

(* The partition table that a command writes.  The one partition of the    *)
(* external disk lies where it lay, and what is in it is still there.      *)
Retyped ==
  [partition_raid |-> [disk EXCEPT !.type.ext = "raid"],
   partition_raw |-> [disk EXCEPT !.type.ext = "raw"],
   partition_lvm |-> [disk EXCEPT !.type.ext = "lvm"],
   type_int |-> [disk EXCEPT !.type.int = "raid"]]

(* A step that changes the system, and one that changes the disks.         *)
System(s, new) ==
  /\ Doing(s) /\ ~Refused(s)
  /\ sys' = new
  /\ Advance(1)
  /\ UNCHANGED <<disk, devices>>

Storage(s, new) ==
  /\ Doing(s) /\ ~Refused(s)
  /\ disk' = new
  /\ Advance(1)
  /\ UNCHANGED <<sys, devices>>

(* The job dies, into its catch block; add_to_lvm returns.                 *)
End(result, s) ==
  /\ job' = "none"
  /\ outcome' = [result |-> result, job |-> job, step |-> s]
  /\ stray' = (stray \/ s = "forget_home")
  /\ bare' = (bare \/ BetweenHomes)
  /\ UNCHANGED <<at, devices, missed, sys, budget>>

(* The kernel, which may refuse a new table of a disk in use, is told of   *)
(* it after it has been written.                                           *)
TableRefused(s) == s \in DOMAIN Retyped /\ s # "type_int" /\ ExtInUse

CommandFails ==
  \E s \in Step \ Unchecked :
    /\ Doing(s)
    /\ \/ Refused(s) \/ TableRefused(s)
       \/ s \in Flaky
    /\ End(IF job = "add_to_lvm" THEN "quiet" ELSE "died", s)
    /\ disk' \in {disk} \cup {Retyped[t] : t \in {s} \cap DOMAIN Retyped}

(* What a command leaves that fails and is not looked at: what there was,  *)
(* or half of what it should.  The copy back of /bkup ends with rm -rf.    *)
LeftBy ==
  [swapoff |-> {sys},
   swapon |-> {sys},
   stop_services |-> {sys, [sys EXCEPT !.services = IF @ = "down" THEN @ ELSE "some"]},
   start_services |-> {sys, [sys EXCEPT !.services = IF @ = "up" THEN @ ELSE "some"]},
   backup |-> {sys, [sys EXCEPT !.bkup = TRUE]},
   restore |-> {sys, [sys EXCEPT !.bkup = FALSE]},
   mdadm_conf |-> {[sys EXCEPT !.conf = FALSE]}]

CommandMissed ==
  \E s \in Unseen \cap Flaky :
    /\ Doing(s)
    /\ at' = at + 1
    /\ missed' = missed \cup {s}
    /\ sys' \in LeftBy[s]
    /\ budget > 0 /\ budget' = budget - 1
    /\ UNCHANGED <<job, outcome, stray, bare, devices, disk>>

(* Mutant: the last command falls through to the one after it.             *)
SucceedFallsThrough == Doing("done") /\ Advance(1) /\ UNCHANGED <<devices, sys, disk>>

Succeed == Doing("done") /\ End("ok", "done") /\ UNCHANGED disk

-----------------------------------------------------------------------------
(* Steps on the running system.                                            *)
SwapOff == System("swapoff", [sys EXCEPT !.swap = FALSE])
SwapOn == System("swapon", [sys EXCEPT !.swap = TRUE])
(* Mutant: the services are asked to stop by a wrong name.          *)
StopNoServices == System("stop_services", sys)

StopServices == System("stop_services", [sys EXCEPT !.services = "down"])
StartServices == System("start_services", [sys EXCEPT !.services = "up"])
Backup == System("backup", [sys EXCEPT !.bkup = TRUE])
Restore == System("restore", [sys EXCEPT !.bkup = FALSE])
MdadmConf == System("mdadm_conf", [sys EXCEPT !.conf = disk.array # {}])

Umount(s, mounts) ==
  /\ mounts \cap sys.mounted # {}
  /\ System(s, [sys EXCEPT !.mounted = @ \ mounts])

(* Not mounted: neither unmounted nor removed from fstab.                  *)
PassOver(s, mounts) ==
  /\ Doing(s)
  /\ mounts \cap sys.mounted = {}
  /\ Advance(2)
  /\ UNCHANGED <<sys, disk, devices>>

UmountOrPassOver(s, mounts) == Umount(s, mounts) \/ PassOver(s, mounts)

UmountExt == UmountOrPassOver("umount_ext", {"ext", "extern"})
UmountHome == UmountOrPassOver("umount_home", {"lv"})
ForgetExt == System("forget_ext", [sys EXCEPT !.fstab = @ \ {"ext"}])
(* Mutant: the entry of the volume is looked for under its other name.     *)
ForgetNothing == System("forget_home", sys)

ForgetHome == System("forget_home", [sys EXCEPT !.fstab = @ \ {"lv"}])
(* Mutant: the entry is added without a save of the table.                 *)
AddUnsaved == System("add_fstab", sys)

AddFsTab == System("add_fstab", [sys EXCEPT !.fstab = @ \cup {"md"}])
(* Mutant: the result of the mount is not looked at.                       *)
MountUnchecked ==
  System("mount", [sys EXCEPT !.mounted = @ \cup {"md"}]) \/ System("mount", sys)

Mount == System("mount", [sys EXCEPT !.mounted = @ \cup {"md"}])

(* Steps on the disks.                                                     *)
Repartition(s) == Storage(s, Retyped[s])

PartitionRaid == Repartition("partition_raid")
PartitionRaw == Repartition("partition_raw")
PartitionLvm == Repartition("partition_lvm")
TypeInt == Repartition("type_int")

FormatExt ==
  Storage("format_ext", [disk EXCEPT !.super = @ \ {"ext"}, !.pvs = @ \ {"ext"},
                                     !.vg = @ \ {"ext"}])

ListLvs ==
  /\ Doing("list_lvs")
  /\ devices' = disk.lv
  /\ Advance(1)
  /\ UNCHANGED <<sys, disk>>

LvRemove == Storage("lvremove", [disk EXCEPT !.lv = {}])
VgRemove == Storage("vgremove", [disk EXCEPT !.vg = {}])
PvRemove == Storage("pvremove", [disk EXCEPT !.pvs = @ \ devices])
NextMd == Storage("next_md", disk)

(* mdadm --create by system(): the script goes on if it fails.             *)
CreateMd ==
  \/ /\ ~ExtInUse
     /\ Storage("create_md", [disk EXCEPT !.array = Disk, !.super = Disk, !.fs = FALSE,
                                           !.pvs = {}])
  \/ /\ "create_md" \in Flaky \/ ExtInUse
     /\ Storage("create_md", disk)

FormatMd == Storage("format_md", [disk EXCEPT !.fs = TRUE])

(* md assemble reports success whatever mdadm says.                        *)
Assemble ==
  \/ Storage("assemble", [disk EXCEPT !.array = IF @ = {} THEN disk.super ELSE @])
  \/ "assemble" \in Flaky /\ Storage("assemble", disk)

AddTo(s, d) ==
  Storage(s, [disk EXCEPT !.array = @ \cup {d}, !.super = @ \cup {d}])

AddExt == AddTo("add_ext", "ext")
AddInt == AddTo("add_int", "int")

PvCreate ==
  Storage("pvcreate", [disk EXCEPT !.pvs = @ \cup {"ext"}, !.super = @ \ {"ext"}])
VgExtend == Storage("vgextend", [disk EXCEPT !.vg = @ \cup {"ext"}])
LvExtend == Storage("lvextend", [disk EXCEPT !.lv = disk.vg])
ExtendFs == Storage("extend_fs", disk)

-----------------------------------------------------------------------------
(* The disk pages offer a job when they find the disks fit for it.  To     *)
(* them a disk belongs to an array when it runs one or its partition is of *)
(* type raid, whether there is an array on it or not; only mounts below    *)
(* /home/storage, where the disk page mounts, keep a job from being        *)
(* offered.  What they found may be out of date when the job gets to work. *)
InArray(d) == disk.type[d] = "raid" \/ d \in disk.array
InVolume(d) == disk.type[d] = "lvm" \/ d \in disk.pvs
GotMounts == "extern" \in sys.mounted

Offered(j) ==
  \/ j = "create_raid" /\ disk.array = {} /\ ~GotMounts
  \/ j = "restore_external" /\ InArray("int") /\ "ext" \notin disk.array
  \/ j = "restore_internal" /\ ~InArray("int") /\ InArray("ext") /\ ~GotMounts
  \/ j = "format_disk" /\ ~ExtInUse
  \/ /\ j = "add_to_lvm" /\ disk.lv # {}
     /\ ~ExtMounted /\ ~InArray("ext") /\ ~InVolume("ext")

Spend == budget > 0 /\ budget' = budget - 1

Start(j) ==
  /\ job = "none"
  /\ Offered(j)
  /\ Spend
  /\ job' = j
  /\ at' = 1
  /\ devices' = {}
  /\ outcome' = Nothing
  /\ missed' = {}
  /\ UNCHANGED <<stray, bare, sys, disk>>

Happens(e) == e \in Events /\ Spend

(* mount_partition: an entry by UUID is made first and stays if the mount  *)
(* fails; what has no UUID is mounted without one.  An entry of the device *)
(* takes mount to its own place.                                           *)
MountExternal ==
  /\ Happens("mount")
  /\ ~ExtMounted /\ ~InArray("ext") /\ ~InVolume("ext")
  /\ \/ sys' = [sys EXCEPT !.mounted = @ \cup {IF "ext" \in sys.fstab THEN "ext"
                                                                      ELSE "extern"},
                           !.fstab = @ \cup {"uuid"}]
     \/ sys' = [sys EXCEPT !.fstab = @ \cup {"uuid"}]
     \/ sys' = [sys EXCEPT !.mounted = @ \cup {"extern"}]
  /\ UNCHANGED <<jobVars, disk>>

(* umount_partition: the entry of the mount goes with it.                  *)
UmountExternal ==
  /\ Happens("umount")
  /\ \E place \in {"ext", "extern"} \cap sys.mounted :
       sys' = [sys EXCEPT !.mounted = @ \ {place},
                          !.fstab = @ \ {IF place = "ext" THEN "ext" ELSE "uuid"}]
  /\ UNCHANGED <<jobVars, disk>>

(* The job has come to an end without its daemon's or its own doing.       *)
CutShort ==
  /\ job' = "none"
  /\ outcome' = IF job = "none" THEN outcome
                ELSE [result |-> "cut", job |-> job, step |-> Script[job][at]]
  /\ bare' = (bare \/ BetweenHomes)
  /\ UNCHANGED <<at, devices, missed>>

KillWorker ==
  /\ Happens("kill")
  /\ job # "none"
  /\ CutShort
  /\ stray' = (stray \/ Doing("forget_home"))
  /\ UNCHANGED <<sys, disk>>

(* The system boots: an array is put together from what is there, what     *)
(* fstab names is mounted, swap and services are started.  An entry of the *)
(* external disk may be that of a disk which is no longer attached.        *)
Mountable(d, array) ==
  CASE d = "lv" -> disk.lv # {}
    [] d = "md" -> array # {} /\ disk.fs
    [] OTHER -> "ext" \notin disk.super \cup disk.pvs

Reboot ==
  /\ Happens("reboot")
  /\ CutShort
  /\ stray' = (stray /\ disk.lv = {})
  /\ disk' = [disk EXCEPT !.array = disk.super]
  /\ \E gone \in SUBSET {"ext", "uuid"} :
       sys' = [sys EXCEPT !.swap = TRUE, !.services = "up",
                          !.mounted = {IF d = "uuid" THEN "extern" ELSE d :
                                        d \in {f \in sys.fstab \ gone :
                                                Mountable(f, disk.super)}}]

(* An external disk is exchanged for an empty one.                         *)
NewExternal ==
  /\ Happens("new_external")
  /\ job = "none"
  /\ "ext" \notin disk.vg /\ ~ExtMounted
  /\ disk' = [disk EXCEPT !.pvs = @ \ {"ext"}, !.type.ext = "raw",
                          !.super = @ \ {"ext"}, !.array = @ \ {"ext"}]
  /\ outcome' = Nothing
  /\ UNCHANGED <<job, at, devices, stray, bare, missed, sys>>

(* A new internal disk means a new installation.  The old external disk is *)
(* attached before it boots, and its array is then put together, or after. *)
NewInternal ==
  /\ Happens("new_internal")
  /\ job = "none"
  /\ disk.super = Disk
  /\ sys' = FreshSystem
  /\ \E array \in {{}, {"ext"}} :
       disk' = [FreshDisks EXCEPT !.super = {"ext"}, !.array = array, !.fs = disk.fs,
                                  !.type.ext = "raid"]
  /\ outcome' = Nothing
  /\ stray' = FALSE /\ bare' = FALSE
  /\ UNCHANGED <<job, at, devices, missed>>

SystemStep ==
  \/ SwapOff \/ SwapOn \/ StopServices \/ StartServices \/ Backup \/ Restore
  \/ MdadmConf \/ UmountExt \/ UmountHome \/ ForgetExt \/ ForgetHome
  \/ AddFsTab \/ Mount

StorageStep ==
  \/ PartitionRaid \/ PartitionRaw \/ PartitionLvm \/ FormatExt \/ ListLvs
  \/ LvRemove \/ VgRemove \/ PvRemove \/ TypeInt \/ NextMd \/ CreateMd \/ FormatMd
  \/ Assemble \/ AddExt \/ AddInt \/ PvCreate \/ VgExtend \/ LvExtend \/ ExtendFs

Environment ==
  \/ MountExternal \/ UmountExternal \/ KillWorker \/ Reboot
  \/ NewExternal \/ NewInternal

Next ==
  \/ \E j \in Job : Start(j)
  \/ SystemStep \/ StorageStep \/ CommandFails \/ CommandMissed \/ Succeed
  \/ Environment

Spec == Init /\ [][Next]_vars

-----------------------------------------------------------------------------
Home == sys.mounted \cap {"lv", "md"}

(* A power cut at any step of any job, also of one that runs again what an *)
(* earlier one left half done, boots into a system with a /home: what is   *)
(* mounted there is in fstab, and what is in fstab can be mounted.  The    *)
(* one time at which it does not is between the removal of the entry of    *)
(* the volume and the entry, or the mount, of the array; a job that ends   *)
(* there leaves it so until another comes to the mount.                    *)
BootsWithHome ==
  /\ Home \subseteq sys.fstab
  /\ \/ BetweenHomes \/ bare
     \/ \E d \in {"lv", "md"} \cap sys.fstab : Mountable(d, disk.super)

(* fstab names no /home that is gone, unless a job was stopped after it    *)
(* unmounted /home and before it removed the entry, and another was run    *)
(* before the system booted: that one finds nothing mounted, and removes   *)
(* no entry.                                                               *)
FsTabIsTrue ==
  /\ "lv" \in sys.fstab /\ disk.lv = {} => stray
  /\ "md" \in sys.fstab => disk.super # {}

(* The services never lose /home under them: it goes only when they are    *)
(* down, in whatever order jobs, failures and reboots come, unless a       *)
(* command that this very job used to stop them failed, which it does not  *)
(* look at.                                                                *)
HomeGoesQuietly ==
  [][(Home # {} /\ Home' = {}) =>
       sys.services = "down" \/ "stop_services" \in missed]_vars

(* A job that reports success has put back all it has taken away, but for  *)
(* what a command of its own failed to put back unseen, and /home is on    *)
(* the array, now and after the next boot, whatever failed unseen.         *)
DoneIsComplete ==
  (outcome.result = "ok" /\ outcome.job \in {"create_raid", "restore_internal"}) =>
    /\ sys.swap \/ "swapon" \in missed
    /\ sys.services = "up" \/ "start_services" \in missed
    /\ sys.conf \/ "mdadm_conf" \in missed
    /\ outcome.job = "create_raid" => (~sys.bkup \/ "restore" \in missed)
    /\ Home = {"md"} /\ "md" \in sys.fstab
    /\ disk.super = Disk /\ disk.fs

(* "Select which external disk to recover RAID data from", "add a new      *)
(* external disk to existing RAID array": a recovery removes /home only if *)
(* there is an array to recover it from, and repartitions a disk only if   *)
(* the array, with the data of /home on it, runs without that disk.        *)
RecoveryHasArray ==
  [][/\ job = "restore_internal" /\ disk.lv # {} /\ disk'.lv = {} => disk.super # {}
     /\ (/\ job = "restore_external" /\ Doing("partition_raid") /\ at' # at
         /\ disk.super # {} /\ disk.fs) => disk.array # {}]_vars
=============================================================================
