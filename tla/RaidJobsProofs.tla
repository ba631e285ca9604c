--------------------------- MODULE RaidJobsProofs ---------------------------
(***************************************************************************)
(* Proofs about RaidJobs, for any set of steps that may fail, any events,  *)
(* and any number of jobs and events.                                      *)
(***************************************************************************)
EXTENDS RaidJobs, TLAPS

(* What is mounted on /home is named in fstab.                             *)
HomeNamed == Home \subseteq sys.fstab

(* What fstab names can be mounted when the system boots.                  *)
HomeBoots ==
  \/ BetweenHomes \/ bare
  \/ "lv" \in sys.fstab /\ disk.lv # {}
  \/ "md" \in sys.fstab /\ disk.fs

(* What is mounted on /home is there, and the array is one of disks that   *)
(* know of it; the internal disk does if fstab names the array.            *)
HomeIsThere ==
  /\ "lv" \in sys.mounted => disk.lv # {}
  /\ "md" \in sys.mounted => "int" \in disk.array /\ disk.fs
  /\ "md" \in sys.fstab => "int" \in disk.super
  /\ disk.array \subseteq disk.super

(* An entry of the volume that is not mounted was left by a stopped job.   *)
ForgetsHome ==
  \/ job = "create_raid" /\ at = 9
  \/ job = "restore_internal" /\ at = 5

EntryIsMounted ==
  "lv" \in sys.fstab /\ "lv" \notin sys.mounted /\ ~ForgetsHome => stray

(* The services are down, or failed to be stopped unseen.                  *)
Quiet == sys.services = "down" \/ "stop_services" \in missed

(* What create_raid has reached at each of its commands.                   *)
Created ==
  job = "create_raid" =>
    /\ at \in 7..21 => Quiet
    /\ at = 9 => "lv" \notin sys.mounted
    /\ at \geq 11 => disk.lv = {}
    /\ at \leq 15 => disk.array = {}
    /\ disk.array = {} \/ (disk.array = Disk /\ disk.super = Disk)
    /\ at \geq 17 => sys.conf \/ "mdadm_conf" \in missed \/ disk.array = {}
    /\ at \geq 18 => disk.array = Disk /\ disk.fs
    /\ at \geq 19 => "md" \in sys.fstab
    /\ at \leq 19 => "md" \notin sys.mounted
    /\ at \geq 20 => "md" \in sys.mounted
    /\ at \geq 21 => ~sys.bkup \/ "restore" \in missed
    /\ at \geq 22 => sys.services = "up" \/ "start_services" \in missed
    /\ at \geq 23 => sys.swap \/ "swapon" \in missed

(* And restore_raid_broken_internal at each of its own.                    *)
Restored ==
  job = "restore_internal" =>
    /\ at \in 4..17 => Quiet
    /\ at = 5 => "lv" \notin sys.mounted
    /\ at \geq 9 => disk.lv = {}
    /\ at \geq 14 => disk.super = Disk /\ "int" \in disk.array
    /\ at \geq 15 => sys.conf \/ "mdadm_conf" \in missed
    /\ at \geq 16 => "md" \in sys.fstab
    /\ at \geq 17 => "md" \in sys.mounted
    /\ at \geq 18 => sys.services = "up" \/ "start_services" \in missed
    /\ at \geq 19 => sys.swap \/ "swapon" \in missed

(* A success stands for as long as it is the outcome.                      *)
Complete ==
  /\ job # "none" => outcome = Nothing
  /\ (outcome.result = "ok" /\ outcome.job \in {"create_raid", "restore_internal"}) =>
       disk.lv = {}

Safe == HomeNamed /\ HomeBoots /\ FsTabIsTrue /\ HomeIsThere /\ EntryIsMounted

Inv == TypeOK /\ Safe /\ Created /\ Restored /\ Complete /\ DoneIsComplete

-----------------------------------------------------------------------------
(* The scripts, command by command.                                        *)
LEMMA CreateScript ==
  /\ Len(Script["create_raid"]) = 23
  /\ Script["create_raid"][1] = "swapoff"
  /\ Script["create_raid"][2] = "umount_ext"
  /\ Script["create_raid"][3] = "forget_ext"
  /\ Script["create_raid"][4] = "partition_raid"
  /\ Script["create_raid"][5] = "list_lvs"
  /\ Script["create_raid"][6] = "stop_services"
  /\ Script["create_raid"][7] = "backup"
  /\ Script["create_raid"][8] = "umount_home"
  /\ Script["create_raid"][9] = "forget_home"
  /\ Script["create_raid"][10] = "lvremove"
  /\ Script["create_raid"][11] = "vgremove"
  /\ Script["create_raid"][12] = "pvremove"
  /\ Script["create_raid"][13] = "type_int"
  /\ Script["create_raid"][14] = "next_md"
  /\ Script["create_raid"][15] = "create_md"
  /\ Script["create_raid"][16] = "mdadm_conf"
  /\ Script["create_raid"][17] = "format_md"
  /\ Script["create_raid"][18] = "add_fstab"
  /\ Script["create_raid"][19] = "mount"
  /\ Script["create_raid"][20] = "restore"
  /\ Script["create_raid"][21] = "start_services"
  /\ Script["create_raid"][22] = "swapon"
  /\ Script["create_raid"][23] = "done"
BY DEF Script

(* The script of restore_raid_broken_external.                             *)
LEMMA ExtendScript ==
  /\ Len(Script["restore_external"]) = 5
  /\ Script["restore_external"][1] = "swapoff"
  /\ Script["restore_external"][2] = "partition_raid"
  /\ Script["restore_external"][3] = "add_ext"
  /\ Script["restore_external"][4] = "swapon"
  /\ Script["restore_external"][5] = "done"
BY DEF Script

(* The script of restore_raid_broken_internal.                             *)
LEMMA RestoreScript ==
  /\ Len(Script["restore_internal"]) = 19
  /\ Script["restore_internal"][1] = "swapoff"
  /\ Script["restore_internal"][2] = "list_lvs"
  /\ Script["restore_internal"][3] = "stop_services"
  /\ Script["restore_internal"][4] = "umount_home"
  /\ Script["restore_internal"][5] = "forget_home"
  /\ Script["restore_internal"][6] = "umount_ext"
  /\ Script["restore_internal"][7] = "forget_ext"
  /\ Script["restore_internal"][8] = "lvremove"
  /\ Script["restore_internal"][9] = "vgremove"
  /\ Script["restore_internal"][10] = "pvremove"
  /\ Script["restore_internal"][11] = "type_int"
  /\ Script["restore_internal"][12] = "assemble"
  /\ Script["restore_internal"][13] = "add_int"
  /\ Script["restore_internal"][14] = "mdadm_conf"
  /\ Script["restore_internal"][15] = "add_fstab"
  /\ Script["restore_internal"][16] = "mount"
  /\ Script["restore_internal"][17] = "start_services"
  /\ Script["restore_internal"][18] = "swapon"
  /\ Script["restore_internal"][19] = "done"
BY DEF Script

(* The script of format_disk.                                              *)
LEMMA FormatScript ==
  /\ Len(Script["format_disk"]) = 3
  /\ Script["format_disk"][1] = "partition_raw"
  /\ Script["format_disk"][2] = "format_ext"
  /\ Script["format_disk"][3] = "done"
BY DEF Script

(* The script of add_to_lvm.                                               *)
LEMMA GrowScript ==
  /\ Len(Script["add_to_lvm"]) = 6
  /\ Script["add_to_lvm"][1] = "partition_lvm"
  /\ Script["add_to_lvm"][2] = "pvcreate"
  /\ Script["add_to_lvm"][3] = "vgextend"
  /\ Script["add_to_lvm"][4] = "lvextend"
  /\ Script["add_to_lvm"][5] = "extend_fs"
  /\ Script["add_to_lvm"][6] = "done"
BY DEF Script

(* Which command a position stands for.                                    *)
LEMMA CreatePlaces ==
  ASSUME job = "create_raid", at \in 1..23
  PROVE
         /\ (Doing("swapoff") <=> at = 1) /\ (Doing("umount_ext") <=> at = 2)
         /\ (Doing("forget_ext") <=> at = 3)
         /\ (Doing("partition_raid") <=> at = 4)
         /\ (Doing("list_lvs") <=> at = 5)
         /\ (Doing("stop_services") <=> at = 6)
         /\ (Doing("backup") <=> at = 7) /\ (Doing("umount_home") <=> at = 8)
         /\ (Doing("forget_home") <=> at = 9)
         /\ (Doing("lvremove") <=> at = 10)
         /\ (Doing("vgremove") <=> at = 11)
         /\ (Doing("pvremove") <=> at = 12)
         /\ (Doing("type_int") <=> at = 13) /\ (Doing("next_md") <=> at = 14)
         /\ (Doing("create_md") <=> at = 15)
         /\ (Doing("mdadm_conf") <=> at = 16)
         /\ (Doing("format_md") <=> at = 17)
         /\ (Doing("add_fstab") <=> at = 18) /\ (Doing("mount") <=> at = 19)
         /\ (Doing("restore") <=> at = 20)
         /\ (Doing("start_services") <=> at = 21)
         /\ (Doing("swapon") <=> at = 22) /\ (Doing("done") <=> at = 23)
         /\ ~Doing("add_ext") /\ ~Doing("assemble") /\ ~Doing("add_int")
         /\ ~Doing("partition_raw") /\ ~Doing("format_ext")
         /\ ~Doing("partition_lvm") /\ ~Doing("pvcreate")
         /\ ~Doing("vgextend") /\ ~Doing("lvextend") /\ ~Doing("extend_fs")
BY CreateScript DEF Doing

(* The same of restore_raid_broken_external.                               *)
LEMMA ExtendPlaces ==
  ASSUME job = "restore_external", at \in 1..5
  PROVE
         /\ (Doing("swapoff") <=> at = 1)
         /\ (Doing("partition_raid") <=> at = 2)
         /\ (Doing("add_ext") <=> at = 3) /\ (Doing("swapon") <=> at = 4)
         /\ (Doing("done") <=> at = 5) /\ ~Doing("umount_ext")
         /\ ~Doing("forget_ext") /\ ~Doing("list_lvs")
         /\ ~Doing("stop_services") /\ ~Doing("backup")
         /\ ~Doing("umount_home") /\ ~Doing("forget_home")
         /\ ~Doing("lvremove") /\ ~Doing("vgremove") /\ ~Doing("pvremove")
         /\ ~Doing("type_int") /\ ~Doing("next_md") /\ ~Doing("create_md")
         /\ ~Doing("mdadm_conf") /\ ~Doing("format_md")
         /\ ~Doing("add_fstab") /\ ~Doing("mount") /\ ~Doing("restore")
         /\ ~Doing("start_services") /\ ~Doing("assemble")
         /\ ~Doing("add_int") /\ ~Doing("partition_raw")
         /\ ~Doing("format_ext") /\ ~Doing("partition_lvm")
         /\ ~Doing("pvcreate") /\ ~Doing("vgextend") /\ ~Doing("lvextend")
         /\ ~Doing("extend_fs")
BY ExtendScript DEF Doing

(* The same of restore_raid_broken_internal.                               *)
LEMMA RestorePlaces ==
  ASSUME job = "restore_internal", at \in 1..19
  PROVE
         /\ (Doing("swapoff") <=> at = 1) /\ (Doing("list_lvs") <=> at = 2)
         /\ (Doing("stop_services") <=> at = 3)
         /\ (Doing("umount_home") <=> at = 4)
         /\ (Doing("forget_home") <=> at = 5)
         /\ (Doing("umount_ext") <=> at = 6)
         /\ (Doing("forget_ext") <=> at = 7)
         /\ (Doing("lvremove") <=> at = 8) /\ (Doing("vgremove") <=> at = 9)
         /\ (Doing("pvremove") <=> at = 10)
         /\ (Doing("type_int") <=> at = 11)
         /\ (Doing("assemble") <=> at = 12) /\ (Doing("add_int") <=> at = 13)
         /\ (Doing("mdadm_conf") <=> at = 14)
         /\ (Doing("add_fstab") <=> at = 15) /\ (Doing("mount") <=> at = 16)
         /\ (Doing("start_services") <=> at = 17)
         /\ (Doing("swapon") <=> at = 18) /\ (Doing("done") <=> at = 19)
         /\ ~Doing("partition_raid") /\ ~Doing("backup") /\ ~Doing("next_md")
         /\ ~Doing("create_md") /\ ~Doing("format_md") /\ ~Doing("restore")
         /\ ~Doing("add_ext") /\ ~Doing("partition_raw")
         /\ ~Doing("format_ext") /\ ~Doing("partition_lvm")
         /\ ~Doing("pvcreate") /\ ~Doing("vgextend") /\ ~Doing("lvextend")
         /\ ~Doing("extend_fs")
BY RestoreScript DEF Doing

(* The same of format_disk.                                                *)
LEMMA FormatPlaces ==
  ASSUME job = "format_disk", at \in 1..3
  PROVE
         /\ (Doing("partition_raw") <=> at = 1)
         /\ (Doing("format_ext") <=> at = 2) /\ (Doing("done") <=> at = 3)
         /\ ~Doing("swapoff") /\ ~Doing("umount_ext") /\ ~Doing("forget_ext")
         /\ ~Doing("partition_raid") /\ ~Doing("list_lvs")
         /\ ~Doing("stop_services") /\ ~Doing("backup")
         /\ ~Doing("umount_home") /\ ~Doing("forget_home")
         /\ ~Doing("lvremove") /\ ~Doing("vgremove") /\ ~Doing("pvremove")
         /\ ~Doing("type_int") /\ ~Doing("next_md") /\ ~Doing("create_md")
         /\ ~Doing("mdadm_conf") /\ ~Doing("format_md")
         /\ ~Doing("add_fstab") /\ ~Doing("mount") /\ ~Doing("restore")
         /\ ~Doing("start_services") /\ ~Doing("swapon") /\ ~Doing("add_ext")
         /\ ~Doing("assemble") /\ ~Doing("add_int")
         /\ ~Doing("partition_lvm") /\ ~Doing("pvcreate")
         /\ ~Doing("vgextend") /\ ~Doing("lvextend") /\ ~Doing("extend_fs")
BY FormatScript DEF Doing

(* The same of add_to_lvm.                                                 *)
LEMMA GrowPlaces ==
  ASSUME job = "add_to_lvm", at \in 1..6
  PROVE
         /\ (Doing("partition_lvm") <=> at = 1)
         /\ (Doing("pvcreate") <=> at = 2) /\ (Doing("vgextend") <=> at = 3)
         /\ (Doing("lvextend") <=> at = 4) /\ (Doing("extend_fs") <=> at = 5)
         /\ (Doing("done") <=> at = 6) /\ ~Doing("swapoff")
         /\ ~Doing("umount_ext") /\ ~Doing("forget_ext")
         /\ ~Doing("partition_raid") /\ ~Doing("list_lvs")
         /\ ~Doing("stop_services") /\ ~Doing("backup")
         /\ ~Doing("umount_home") /\ ~Doing("forget_home")
         /\ ~Doing("lvremove") /\ ~Doing("vgremove") /\ ~Doing("pvremove")
         /\ ~Doing("type_int") /\ ~Doing("next_md") /\ ~Doing("create_md")
         /\ ~Doing("mdadm_conf") /\ ~Doing("format_md")
         /\ ~Doing("add_fstab") /\ ~Doing("mount") /\ ~Doing("restore")
         /\ ~Doing("start_services") /\ ~Doing("swapon") /\ ~Doing("add_ext")
         /\ ~Doing("assemble") /\ ~Doing("add_int")
         /\ ~Doing("partition_raw") /\ ~Doing("format_ext")
BY GrowScript DEF Doing

(* Where each command stands in the scripts that replace /home.            *)
LEMMA Where ==
  ASSUME TypeOK
  PROVE
    /\ Doing("swapoff") =>
           /\ (job = "create_raid" => at = 1)
           /\ (job = "restore_internal" => at = 1)
    /\ Doing("umount_ext") =>
           /\ (job = "create_raid" => at = 2)
           /\ (job = "restore_internal" => at = 6)
           /\ job \in {"create_raid", "restore_internal"}
    /\ Doing("forget_ext") =>
           /\ (job = "create_raid" => at = 3)
           /\ (job = "restore_internal" => at = 7)
           /\ job \in {"create_raid", "restore_internal"}
    /\ Doing("partition_raid") =>
           /\ (job = "create_raid" => at = 4)
           /\ job # "restore_internal"
    /\ Doing("list_lvs") =>
           /\ (job = "create_raid" => at = 5)
           /\ (job = "restore_internal" => at = 2)
           /\ job \in {"create_raid", "restore_internal"}
    /\ Doing("stop_services") =>
           /\ (job = "create_raid" => at = 6)
           /\ (job = "restore_internal" => at = 3)
           /\ job \in {"create_raid", "restore_internal"}
    /\ Doing("backup") =>
           /\ (job = "create_raid" => at = 7)
           /\ job # "restore_internal"
           /\ job \in {"create_raid", "restore_internal"}
    /\ Doing("umount_home") =>
           /\ (job = "create_raid" => at = 8)
           /\ (job = "restore_internal" => at = 4)
           /\ job \in {"create_raid", "restore_internal"}
    /\ Doing("forget_home") =>
           /\ (job = "create_raid" => at = 9)
           /\ (job = "restore_internal" => at = 5)
           /\ job \in {"create_raid", "restore_internal"}
    /\ Doing("lvremove") =>
           /\ (job = "create_raid" => at = 10)
           /\ (job = "restore_internal" => at = 8)
           /\ job \in {"create_raid", "restore_internal"}
    /\ Doing("vgremove") =>
           /\ (job = "create_raid" => at = 11)
           /\ (job = "restore_internal" => at = 9)
           /\ job \in {"create_raid", "restore_internal"}
    /\ Doing("pvremove") =>
           /\ (job = "create_raid" => at = 12)
           /\ (job = "restore_internal" => at = 10)
           /\ job \in {"create_raid", "restore_internal"}
    /\ Doing("type_int") =>
           /\ (job = "create_raid" => at = 13)
           /\ (job = "restore_internal" => at = 11)
           /\ job \in {"create_raid", "restore_internal"}
    /\ Doing("next_md") =>
           /\ (job = "create_raid" => at = 14)
           /\ job # "restore_internal"
           /\ job \in {"create_raid", "restore_internal"}
    /\ Doing("create_md") =>
           /\ (job = "create_raid" => at = 15)
           /\ job # "restore_internal"
           /\ job \in {"create_raid", "restore_internal"}
    /\ Doing("mdadm_conf") =>
           /\ (job = "create_raid" => at = 16)
           /\ (job = "restore_internal" => at = 14)
           /\ job \in {"create_raid", "restore_internal"}
    /\ Doing("format_md") =>
           /\ (job = "create_raid" => at = 17)
           /\ job # "restore_internal"
           /\ job \in {"create_raid", "restore_internal"}
    /\ Doing("add_fstab") =>
           /\ (job = "create_raid" => at = 18)
           /\ (job = "restore_internal" => at = 15)
           /\ job \in {"create_raid", "restore_internal"}
    /\ Doing("mount") =>
           /\ (job = "create_raid" => at = 19)
           /\ (job = "restore_internal" => at = 16)
           /\ job \in {"create_raid", "restore_internal"}
    /\ Doing("restore") =>
           /\ (job = "create_raid" => at = 20)
           /\ job # "restore_internal"
           /\ job \in {"create_raid", "restore_internal"}
    /\ Doing("start_services") =>
           /\ (job = "create_raid" => at = 21)
           /\ (job = "restore_internal" => at = 17)
           /\ job \in {"create_raid", "restore_internal"}
    /\ Doing("swapon") =>
           /\ (job = "create_raid" => at = 22)
           /\ (job = "restore_internal" => at = 18)
    /\ Doing("done") =>
           /\ (job = "create_raid" => at = 23)
           /\ (job = "restore_internal" => at = 19)
    /\ Doing("add_ext") =>
           /\ job # "create_raid"
           /\ job # "restore_internal"
    /\ Doing("assemble") =>
           /\ job # "create_raid"
           /\ (job = "restore_internal" => at = 12)
           /\ job \in {"create_raid", "restore_internal"}
    /\ Doing("add_int") =>
           /\ job # "create_raid"
           /\ (job = "restore_internal" => at = 13)
           /\ job \in {"create_raid", "restore_internal"}
    /\ Doing("partition_raw") =>
           /\ job # "create_raid"
           /\ job # "restore_internal"
    /\ Doing("format_ext") =>
           /\ job # "create_raid"
           /\ job # "restore_internal"
    /\ Doing("partition_lvm") =>
           /\ job # "create_raid"
           /\ job # "restore_internal"
    /\ Doing("pvcreate") =>
           /\ job # "create_raid"
           /\ job # "restore_internal"
    /\ Doing("vgextend") =>
           /\ job # "create_raid"
           /\ job # "restore_internal"
    /\ Doing("lvextend") =>
           /\ job # "create_raid"
           /\ job # "restore_internal"
    /\ Doing("extend_fs") =>
           /\ job # "create_raid"
           /\ job # "restore_internal"
<1>1. CASE job = "none"
  BY <1>1 DEF Doing
<1>2. CASE job = "create_raid"
  BY <1>2, CreatePlaces, CreateScript DEF TypeOK
<1>3. CASE job = "restore_external"
  BY <1>3, ExtendPlaces, ExtendScript DEF TypeOK
<1>4. CASE job = "restore_internal"
  BY <1>4, RestorePlaces, RestoreScript DEF TypeOK
<1>5. CASE job = "format_disk"
  BY <1>5, FormatPlaces, FormatScript DEF TypeOK
<1>6. CASE job = "add_to_lvm"
  BY <1>6, GrowPlaces, GrowScript DEF TypeOK
<1> QED
  BY <1>1, <1>2, <1>3, <1>4, <1>5, <1>6 DEF TypeOK, Job

(* A command that is not the last is followed by another.                  *)
LEMMA Follows ==
  ASSUME TypeOK, NEW s, Doing(s), s # "done"
  PROVE  job \in Job /\ at \in Nat /\ at + 1 \in 1..Len(Script[job])
<1>1. /\ job \in Job /\ at \in 1..Len(Script[job]) /\ at \in Nat
      /\ Script[job][at] = s
  BY DEF TypeOK, Doing
<1>2. /\ Len(Script[job]) \in Nat /\ Script[job][Len(Script[job])] = "done"
  <2>1. CASE job = "create_raid"       BY <2>1, CreateScript
  <2>2. CASE job = "restore_external"  BY <2>2, ExtendScript
  <2>3. CASE job = "restore_internal"  BY <2>3, RestoreScript
  <2>4. CASE job = "format_disk"       BY <2>4, FormatScript
  <2>5. CASE job = "add_to_lvm"        BY <2>5, GrowScript
  <2> QED  BY <1>1, <2>1, <2>2, <2>3, <2>4, <2>5 DEF Job
<1> QED
  BY <1>1, <1>2

(* Where a job stops being between the old /home and the new.              *)
Arrives ==
  \/ job = "create_raid" /\ at = 19
  \/ job = "restore_internal" /\ at = 16

(* What every command that is done leaves alone.                           *)
LEMMA AdvanceKeeps ==
  ASSUME TypeOK, NEW n, Advance(n)
  PROVE  /\ job' = job /\ at' = at + n
         /\ outcome' = outcome /\ stray' = stray /\ budget' = budget
         /\ missed' = missed /\ bare' \in BOOLEAN /\ (bare => bare' \/ Arrives)
BY Where DEF Advance, TypeOK, Arrives

(* A command is done, and the next one follows.                            *)
LEMMA Moves ==
  ASSUME TypeOK, NEW s, Doing(s), s # "done", Advance(1)
  PROVE  /\ job \in Job /\ job' = job /\ at' = at + 1 /\ at \in Nat
         /\ at' \in 1..Len(Script[job'])
         /\ outcome' = outcome /\ stray' = stray /\ budget' = budget
         /\ missed' = missed /\ bare' \in BOOLEAN /\ (bare => bare' \/ Arrives)
BY Follows, AdvanceKeeps

(* After the commands that may be passed over there are two more.          *)
LEMMA MovesTwo ==
  ASSUME TypeOK, Doing("umount_ext") \/ Doing("umount_home"), Advance(2)
  PROVE  /\ job \in {"create_raid", "restore_internal"} /\ job' = job
         /\ at' = at + 2 /\ at \in Nat /\ at' \in 1..Len(Script[job'])
         /\ outcome' = outcome /\ stray' = stray /\ budget' = budget
         /\ missed' = missed /\ bare' \in BOOLEAN /\ (bare => bare' \/ Arrives)
<1>1. job \in Job /\ at \in 1..Len(Script[job]) /\ at \in Nat
  BY DEF TypeOK, Doing
<1>0. /\ job' = job /\ at' = at + 2
      /\ outcome' = outcome /\ stray' = stray /\ budget' = budget
      /\ missed' = missed /\ bare' \in BOOLEAN /\ (bare => bare' \/ Arrives)
  BY AdvanceKeeps
<1>2. CASE job = "create_raid"
  BY <1>0, <1>1, <1>2, CreatePlaces, CreateScript
<1>3. CASE job = "restore_internal"
  BY <1>0, <1>1, <1>3, RestorePlaces, RestoreScript
<1>4. CASE job = "restore_external"
  BY <1>1, <1>4, ExtendPlaces, ExtendScript
<1>5. CASE job = "format_disk"
  BY <1>1, <1>5, FormatPlaces, FormatScript
<1>6. CASE job = "add_to_lvm"
  BY <1>1, <1>6, GrowPlaces, GrowScript
<1> QED
  BY <1>1, <1>2, <1>3, <1>4, <1>5, <1>6 DEF Job

-----------------------------------------------------------------------------
SysType ==
  [swap : BOOLEAN, services : {"up", "some", "down"}, conf : BOOLEAN, bkup : BOOLEAN,
   mounted : SUBSET {"lv", "md", "ext", "extern"},
   fstab : SUBSET {"lv", "md", "ext", "uuid"}]

DiskType ==
  [pvs : SUBSET Disk, vg : SUBSET Disk, lv : SUBSET Disk, super : SUBSET Disk,
   array : SUBSET Disk, fs : BOOLEAN, type : [Disk -> {"raw", "raid", "lvm"}]]

(* What the invariant says of the system, left as it is.                   *)
SameSys ==
  /\ sys'.swap = sys.swap /\ sys'.services = sys.services /\ sys'.bkup = sys.bkup
  /\ sys'.conf = sys.conf
  /\ sys'.mounted = sys.mounted /\ sys'.fstab = sys.fstab

SameDisk ==
  /\ disk'.lv = disk.lv /\ disk'.super = disk.super
  /\ disk'.array = disk.array /\ disk'.fs = disk.fs

(* A step of a script that is not the last.                                *)
Steps(n) ==
  /\ job \in Job /\ job' = job /\ at \in Nat /\ at' = at + n
  /\ at' \in 1..Len(Script[job'])
  /\ outcome' = outcome /\ stray' = stray /\ budget' = budget
  /\ missed' = missed /\ bare' \in BOOLEAN /\ (bare => bare' \/ Arrives)
  /\ sys' \in SysType /\ disk' \in DiskType /\ devices' \subseteq Disk

(* A job that runs has no outcome yet.                                     *)
LEMMA NoOutcome ==
  ASSUME Inv, job # "none", job' = job, outcome' = outcome
  PROVE  Complete' /\ DoneIsComplete'
BY DEF Inv, Complete, DoneIsComplete, Nothing

(* A command leaves everything within its types, and no outcome.           *)
LEMMA StepType ==
  ASSUME Inv, NEW n, Steps(n)
  PROVE  TypeOK' /\ Complete' /\ DoneIsComplete'
<1>1. TypeOK'
  BY DEF Steps, Inv, TypeOK, SysType, DiskType
<1>2. job # "none"
  BY DEF Steps, Job
<1> QED
  BY <1>1, <1>2, NoOutcome DEF Steps

(* Every command of a script keeps the invariant.                          *)
LEMMA SystemStepInv ==
  ASSUME Inv, SystemStep
  PROVE  Inv'
<1>1. CASE SwapOff
  <2>1. Steps(1)
    BY <1>1, Moves DEF Inv, TypeOK, SwapOff, System, Steps, SysType, DiskType, Disk
  <2>2. (job = "create_raid" => at = 1) /\ (job = "restore_internal" => at = 1)
    BY <1>1, Where DEF Inv, SwapOff, System
  <2>3. /\ sys'.swap = FALSE /\ sys'.services = sys.services
        /\ sys'.conf = sys.conf
        /\ sys'.bkup = sys.bkup /\ sys'.mounted = sys.mounted
        /\ sys'.fstab = sys.fstab /\ SameDisk
    BY <1>1 DEF Inv, TypeOK, SwapOff, System, SameSys, SameDisk
  <2>4. Safe'
    BY <2>1, <2>2, <2>3, SMTT(30) DEF Inv, Safe, HomeNamed, HomeBoots, BetweenHomes,
       Arrives, FsTabIsTrue, HomeIsThere, EntryIsMounted, ForgetsHome, Created,
       Restored, Quiet, Home, Steps, SameSys, SameDisk, Disk
  <2>5. Created' /\ Restored'
    BY <2>1, <2>2, <2>3, SMTT(30) DEF Inv, Safe, HomeNamed, FsTabIsTrue, HomeIsThere,
       Created, Restored, Quiet, Home, Steps, SameSys, SameDisk, Disk
  <2> QED
    BY <2>1, <2>4, <2>5, StepType DEF Inv
<1>2. CASE SwapOn
  <2>1. Steps(1)
    BY <1>2, Moves DEF Inv, TypeOK, SwapOn, System, Steps, SysType, DiskType, Disk
  <2>2. (job = "create_raid" => at = 22) /\ (job = "restore_internal" => at = 18)
    BY <1>2, Where DEF Inv, SwapOn, System
  <2>3. /\ sys'.swap = TRUE /\ sys'.services = sys.services
        /\ sys'.conf = sys.conf
        /\ sys'.bkup = sys.bkup /\ sys'.mounted = sys.mounted
        /\ sys'.fstab = sys.fstab /\ SameDisk
    BY <1>2 DEF Inv, TypeOK, SwapOn, System, SameSys, SameDisk
  <2>4. Safe'
    BY <2>1, <2>2, <2>3, SMTT(30) DEF Inv, Safe, HomeNamed, HomeBoots, BetweenHomes,
       Arrives, FsTabIsTrue, HomeIsThere, EntryIsMounted, ForgetsHome, Created,
       Restored, Quiet, Home, Steps, SameSys, SameDisk, Disk
  <2>5. Created' /\ Restored'
    BY <2>1, <2>2, <2>3, SMTT(30) DEF Inv, Safe, HomeNamed, FsTabIsTrue, HomeIsThere,
       Created, Restored, Quiet, Home, Steps, SameSys, SameDisk, Disk
  <2> QED
    BY <2>1, <2>4, <2>5, StepType DEF Inv
<1>3. CASE StopServices
  <2>1. Steps(1)
    BY <1>3, Moves DEF Inv, TypeOK, StopServices, System, Steps, SysType, DiskType, Disk
  <2>2. /\ (job = "create_raid" => at = 6)
        /\ (job = "restore_internal" => at = 3)
        /\ job \in {"create_raid", "restore_internal"}
    BY <1>3, Where DEF Inv, StopServices, System
  <2>3. /\ sys'.swap = sys.swap /\ sys'.services = "down"
        /\ sys'.conf = sys.conf
        /\ sys'.bkup = sys.bkup /\ sys'.mounted = sys.mounted
        /\ sys'.fstab = sys.fstab /\ SameDisk
    BY <1>3 DEF Inv, TypeOK, StopServices, System, SameSys, SameDisk
  <2>4. Safe'
    BY <2>1, <2>2, <2>3, SMTT(30) DEF Inv, Safe, HomeNamed, HomeBoots, BetweenHomes,
       Arrives, FsTabIsTrue, HomeIsThere, EntryIsMounted, ForgetsHome, Created,
       Restored, Quiet, Home, Steps, SameSys, SameDisk, Disk
  <2>5. Created' /\ Restored'
    BY <2>1, <2>2, <2>3, SMTT(30) DEF Inv, Safe, HomeNamed, FsTabIsTrue, HomeIsThere,
       Created, Restored, Quiet, Home, Steps, SameSys, SameDisk, Disk
  <2> QED
    BY <2>1, <2>4, <2>5, StepType DEF Inv
<1>4. CASE StartServices
  <2>1. Steps(1)
    BY <1>4, Moves DEF Inv, TypeOK, StartServices, System, Steps, SysType, DiskType,
       Disk
  <2>2. /\ (job = "create_raid" => at = 21)
        /\ (job = "restore_internal" => at = 17)
        /\ job \in {"create_raid", "restore_internal"}
    BY <1>4, Where DEF Inv, StartServices, System
  <2>3. /\ sys'.swap = sys.swap /\ sys'.services = "up"
        /\ sys'.conf = sys.conf /\ sys'.bkup = sys.bkup
        /\ sys'.mounted = sys.mounted /\ sys'.fstab = sys.fstab /\ SameDisk
    BY <1>4 DEF Inv, TypeOK, StartServices, System, SameSys, SameDisk
  <2>4. Safe'
    BY <2>1, <2>2, <2>3, SMTT(30) DEF Inv, Safe, HomeNamed, HomeBoots, BetweenHomes,
       Arrives, FsTabIsTrue, HomeIsThere, EntryIsMounted, ForgetsHome, Created,
       Restored, Quiet, Home, Steps, SameSys, SameDisk, Disk
  <2>5. Created' /\ Restored'
    BY <2>1, <2>2, <2>3, SMTT(30) DEF Inv, Safe, HomeNamed, FsTabIsTrue, HomeIsThere,
       Created, Restored, Quiet, Home, Steps, SameSys, SameDisk, Disk
  <2> QED
    BY <2>1, <2>4, <2>5, StepType DEF Inv
<1>5. CASE Backup
  <2>1. Steps(1)
    BY <1>5, Moves DEF Inv, TypeOK, Backup, System, Steps, SysType, DiskType, Disk
  <2>2. /\ (job = "create_raid" => at = 7)
        /\ job # "restore_internal"
        /\ job \in {"create_raid", "restore_internal"}
    BY <1>5, Where DEF Inv, Backup, System
  <2>3. /\ sys'.swap = sys.swap /\ sys'.services = sys.services
        /\ sys'.conf = sys.conf
        /\ sys'.bkup = TRUE /\ sys'.mounted = sys.mounted
        /\ sys'.fstab = sys.fstab /\ SameDisk
    BY <1>5 DEF Inv, TypeOK, Backup, System, SameSys, SameDisk
  <2>4. Safe'
    BY <2>1, <2>2, <2>3, SMTT(30) DEF Inv, Safe, HomeNamed, HomeBoots, BetweenHomes,
       Arrives, FsTabIsTrue, HomeIsThere, EntryIsMounted, ForgetsHome, Created,
       Restored, Quiet, Home, Steps, SameSys, SameDisk, Disk
  <2>5. Created' /\ Restored'
    BY <2>1, <2>2, <2>3, SMTT(30) DEF Inv, Safe, HomeNamed, FsTabIsTrue, HomeIsThere,
       Created, Restored, Quiet, Home, Steps, SameSys, SameDisk, Disk
  <2> QED
    BY <2>1, <2>4, <2>5, StepType DEF Inv
<1>6. CASE Restore
  <2>1. Steps(1)
    BY <1>6, Moves DEF Inv, TypeOK, Restore, System, Steps, SysType, DiskType, Disk
  <2>2. /\ (job = "create_raid" => at = 20)
        /\ job # "restore_internal"
        /\ job \in {"create_raid", "restore_internal"}
    BY <1>6, Where DEF Inv, Restore, System
  <2>3. /\ sys'.swap = sys.swap /\ sys'.services = sys.services
        /\ sys'.conf = sys.conf
        /\ sys'.bkup = FALSE /\ sys'.mounted = sys.mounted
        /\ sys'.fstab = sys.fstab /\ SameDisk
    BY <1>6 DEF Inv, TypeOK, Restore, System, SameSys, SameDisk
  <2>4. Safe'
    BY <2>1, <2>2, <2>3, SMTT(30) DEF Inv, Safe, HomeNamed, HomeBoots, BetweenHomes,
       Arrives, FsTabIsTrue, HomeIsThere, EntryIsMounted, ForgetsHome, Created,
       Restored, Quiet, Home, Steps, SameSys, SameDisk, Disk
  <2>5. Created' /\ Restored'
    BY <2>1, <2>2, <2>3, SMTT(30) DEF Inv, Safe, HomeNamed, FsTabIsTrue, HomeIsThere,
       Created, Restored, Quiet, Home, Steps, SameSys, SameDisk, Disk
  <2> QED
    BY <2>1, <2>4, <2>5, StepType DEF Inv
<1>7. CASE MdadmConf
  <2>1. Steps(1)
    BY <1>7, Moves DEF Inv, TypeOK, MdadmConf, System, Steps, SysType, DiskType, Disk
  <2>2. /\ (job = "create_raid" => at = 16)
        /\ (job = "restore_internal" => at = 14)
        /\ job \in {"create_raid", "restore_internal"}
    BY <1>7, Where DEF Inv, MdadmConf, System
  <2>3. /\ sys'.swap = sys.swap /\ sys'.services = sys.services
        /\ (sys'.conf <=> disk.array # {})
        /\ sys'.bkup = sys.bkup /\ sys'.mounted = sys.mounted
        /\ sys'.fstab = sys.fstab /\ SameDisk
    BY <1>7 DEF Inv, TypeOK, MdadmConf, System, SameSys, SameDisk
  <2>4. Safe'
    BY <2>1, <2>2, <2>3, SMTT(30) DEF Inv, Safe, HomeNamed, HomeBoots, BetweenHomes,
       Arrives, FsTabIsTrue, HomeIsThere, EntryIsMounted, ForgetsHome, Created,
       Restored, Quiet, Home, Steps, SameSys, SameDisk, Disk
  <2>5. Created' /\ Restored'
    BY <2>1, <2>2, <2>3, SMTT(30) DEF Inv, Safe, HomeNamed, FsTabIsTrue, HomeIsThere,
       Created, Restored, Quiet, Home, Steps, SameSys, SameDisk, Disk
  <2> QED
    BY <2>1, <2>4, <2>5, StepType DEF Inv
<1>8. CASE UmountExt
  <2>1. CASE Umount("umount_ext", {"ext", "extern"})
    <3>1. Steps(1)
      BY <2>1, Moves DEF Inv, TypeOK, Umount, System, Steps, SysType, DiskType, Disk
    <3>2. /\ (job = "create_raid" => at = 2)
          /\ (job = "restore_internal" => at = 6)
          /\ job \in {"create_raid", "restore_internal"}
      BY <2>1, Where DEF Inv, Umount, System
    <3>3. /\ sys'.swap = sys.swap /\ sys'.services = sys.services
          /\ sys'.conf = sys.conf
          /\ sys'.bkup = sys.bkup /\ sys'.fstab = sys.fstab
          /\ sys'.mounted = sys.mounted \ {"ext", "extern"} /\ SameDisk
      BY <2>1 DEF Inv, TypeOK, Umount, System, SameSys, SameDisk, Disk
    <3>4. Safe'
      BY <3>1, <3>2, <3>3, SMTT(30) DEF Inv, Safe, HomeNamed, HomeBoots, BetweenHomes,
         Arrives, FsTabIsTrue, HomeIsThere, EntryIsMounted, ForgetsHome, Created,
         Restored, Quiet, Home, Steps, SameSys, SameDisk, Disk
    <3>5. Created' /\ Restored'
      BY <3>1, <3>2, <3>3, SMTT(30) DEF Inv, Safe, HomeNamed, FsTabIsTrue, HomeIsThere,
         Created, Restored, Quiet, Home, Steps, SameSys, SameDisk, Disk
    <3> QED
      BY <3>1, <3>4, <3>5, StepType DEF Inv
  <2>2. CASE PassOver("umount_ext", {"ext", "extern"})
    <3>1. Steps(2)
      BY <2>2, MovesTwo DEF Inv, TypeOK, PassOver, Steps, SysType, DiskType, Disk
    <3>2. /\ (job = "create_raid" => at = 2)
          /\ (job = "restore_internal" => at = 6)
          /\ job \in {"create_raid", "restore_internal"}
      BY <2>2, Where DEF Inv, PassOver
    <3>3. SameSys /\ SameDisk
      BY <2>2 DEF Inv, TypeOK, PassOver, SameSys, SameDisk, Disk
    <3>4. Safe'
      BY <3>1, <3>2, <3>3, SMTT(30) DEF Inv, Safe, HomeNamed, HomeBoots, BetweenHomes,
         Arrives, FsTabIsTrue, HomeIsThere, EntryIsMounted, ForgetsHome, Created,
         Restored, Quiet, Home, Steps, SameSys, SameDisk, Disk
    <3>5. Created' /\ Restored'
      BY <3>1, <3>2, <3>3, SMTT(30) DEF Inv, Safe, HomeNamed, FsTabIsTrue, HomeIsThere,
         Created, Restored, Quiet, Home, Steps, SameSys, SameDisk, Disk
    <3> QED
      BY <3>1, <3>4, <3>5, StepType DEF Inv
  <2> QED
    BY <1>8, <2>1, <2>2 DEF UmountExt, UmountOrPassOver
<1>9. CASE UmountHome
  <2>1. CASE Umount("umount_home", {"lv"})
    <3>1. Steps(1)
      BY <2>1, Moves DEF Inv, TypeOK, Umount, System, Steps, SysType, DiskType, Disk
    <3>2. /\ (job = "create_raid" => at = 8)
          /\ (job = "restore_internal" => at = 4)
          /\ job \in {"create_raid", "restore_internal"}
      BY <2>1, Where DEF Inv, Umount, System
    <3>3. /\ sys'.swap = sys.swap /\ sys'.services = sys.services
          /\ sys'.conf = sys.conf
          /\ sys'.bkup = sys.bkup /\ sys'.fstab = sys.fstab
          /\ sys'.mounted = sys.mounted \ {"lv"} /\ SameDisk
      BY <2>1 DEF Inv, TypeOK, Umount, System, SameSys, SameDisk, Disk
    <3>4. Safe'
      BY <3>1, <3>2, <3>3, SMTT(30) DEF Inv, Safe, HomeNamed, HomeBoots, BetweenHomes,
         Arrives, FsTabIsTrue, HomeIsThere, EntryIsMounted, ForgetsHome, Created,
         Restored, Quiet, Home, Steps, SameSys, SameDisk, Disk
    <3>5. Created' /\ Restored'
      BY <3>1, <3>2, <3>3, SMTT(30) DEF Inv, Safe, HomeNamed, FsTabIsTrue, HomeIsThere,
         Created, Restored, Quiet, Home, Steps, SameSys, SameDisk, Disk
    <3> QED
      BY <3>1, <3>4, <3>5, StepType DEF Inv
  <2>2. CASE PassOver("umount_home", {"lv"})
    <3>1. Steps(2)
      BY <2>2, MovesTwo DEF Inv, TypeOK, PassOver, Steps, SysType, DiskType, Disk
    <3>2. /\ (job = "create_raid" => at = 8)
          /\ (job = "restore_internal" => at = 4)
          /\ job \in {"create_raid", "restore_internal"}
      BY <2>2, Where DEF Inv, PassOver
    <3>3. "lv" \notin sys.mounted /\ SameSys /\ SameDisk
      BY <2>2 DEF Inv, TypeOK, PassOver, SameSys, SameDisk, Disk
    <3>4. Safe'
      BY <3>1, <3>2, <3>3, SMTT(30) DEF Inv, Safe, HomeNamed, HomeBoots, BetweenHomes,
         Arrives, FsTabIsTrue, HomeIsThere, EntryIsMounted, ForgetsHome, Created,
         Restored, Quiet, Home, Steps, SameSys, SameDisk, Disk
    <3>5. Created' /\ Restored'
      BY <3>1, <3>2, <3>3, SMTT(30) DEF Inv, Safe, HomeNamed, FsTabIsTrue, HomeIsThere,
         Created, Restored, Quiet, Home, Steps, SameSys, SameDisk, Disk
    <3> QED
      BY <3>1, <3>4, <3>5, StepType DEF Inv
  <2> QED
    BY <1>9, <2>1, <2>2 DEF UmountHome, UmountOrPassOver
<1>10. CASE ForgetExt
  <2>1. Steps(1)
    BY <1>10, Moves DEF Inv, TypeOK, ForgetExt, System, Steps, SysType, DiskType, Disk
  <2>2. /\ (job = "create_raid" => at = 3)
        /\ (job = "restore_internal" => at = 7)
        /\ job \in {"create_raid", "restore_internal"}
    BY <1>10, Where DEF Inv, ForgetExt, System
  <2>3. /\ sys'.swap = sys.swap /\ sys'.services = sys.services
        /\ sys'.conf = sys.conf
        /\ sys'.bkup = sys.bkup /\ sys'.mounted = sys.mounted
        /\ sys'.fstab = sys.fstab \ {"ext"} /\ SameDisk
    BY <1>10 DEF Inv, TypeOK, ForgetExt, System, SameSys, SameDisk
  <2>4. Safe'
    BY <2>1, <2>2, <2>3, SMTT(30) DEF Inv, Safe, HomeNamed, HomeBoots, BetweenHomes,
       Arrives, FsTabIsTrue, HomeIsThere, EntryIsMounted, ForgetsHome, Created,
       Restored, Quiet, Home, Steps, SameSys, SameDisk, Disk
  <2>5. Created' /\ Restored'
    BY <2>1, <2>2, <2>3, SMTT(30) DEF Inv, Safe, HomeNamed, FsTabIsTrue, HomeIsThere,
       Created, Restored, Quiet, Home, Steps, SameSys, SameDisk, Disk
  <2> QED
    BY <2>1, <2>4, <2>5, StepType DEF Inv
<1>11. CASE ForgetHome
  <2>1. Steps(1)
    BY <1>11, Moves DEF Inv, TypeOK, ForgetHome, System, Steps, SysType, DiskType, Disk
  <2>2. /\ (job = "create_raid" => at = 9)
        /\ (job = "restore_internal" => at = 5)
        /\ job \in {"create_raid", "restore_internal"}
    BY <1>11, Where DEF Inv, ForgetHome, System
  <2>3. /\ sys'.swap = sys.swap /\ sys'.services = sys.services
        /\ sys'.conf = sys.conf
        /\ sys'.bkup = sys.bkup /\ sys'.mounted = sys.mounted
        /\ sys'.fstab = sys.fstab \ {"lv"} /\ SameDisk
    BY <1>11 DEF Inv, TypeOK, ForgetHome, System, SameSys, SameDisk
  <2>4. Safe'
    BY <2>1, <2>2, <2>3, SMTT(30) DEF Inv, Safe, HomeNamed, HomeBoots, BetweenHomes,
       Arrives, FsTabIsTrue, HomeIsThere, EntryIsMounted, ForgetsHome, Created,
       Restored, Quiet, Home, Steps, SameSys, SameDisk, Disk
  <2>5. Created' /\ Restored'
    BY <2>1, <2>2, <2>3, SMTT(30) DEF Inv, Safe, HomeNamed, FsTabIsTrue, HomeIsThere,
       Created, Restored, Quiet, Home, Steps, SameSys, SameDisk, Disk
  <2> QED
    BY <2>1, <2>4, <2>5, StepType DEF Inv
<1>12. CASE AddFsTab
  <2>1. Steps(1)
    BY <1>12, Moves DEF Inv, TypeOK, AddFsTab, System, Steps, SysType, DiskType, Disk
  <2>2. /\ (job = "create_raid" => at = 18)
        /\ (job = "restore_internal" => at = 15)
        /\ job \in {"create_raid", "restore_internal"}
    BY <1>12, Where DEF Inv, AddFsTab, System
  <2>3. /\ sys'.swap = sys.swap /\ sys'.services = sys.services
        /\ sys'.conf = sys.conf
        /\ sys'.bkup = sys.bkup /\ sys'.mounted = sys.mounted
        /\ sys'.fstab = sys.fstab \cup {"md"} /\ SameDisk
        /\ disk.array # {}
    BY <1>12 DEF Inv, TypeOK, AddFsTab, System, SameSys, SameDisk, Refused, Impossible,
       ExtInUse
  <2>4. Safe'
    BY <2>1, <2>2, <2>3, SMTT(30) DEF Inv, Safe, HomeNamed, HomeBoots, BetweenHomes,
       Arrives, FsTabIsTrue, HomeIsThere, EntryIsMounted, ForgetsHome, Created,
       Restored, Quiet, Home, Steps, SameSys, SameDisk, Disk
  <2>5. Created' /\ Restored'
    BY <2>1, <2>2, <2>3, SMTT(30) DEF Inv, Safe, HomeNamed, FsTabIsTrue, HomeIsThere,
       Created, Restored, Quiet, Home, Steps, SameSys, SameDisk, Disk
  <2> QED
    BY <2>1, <2>4, <2>5, StepType DEF Inv
<1>13. CASE Mount
  <2>1. Steps(1)
    BY <1>13, Moves DEF Inv, TypeOK, Mount, System, Steps, SysType, DiskType, Disk
  <2>2. /\ (job = "create_raid" => at = 19)
        /\ (job = "restore_internal" => at = 16)
        /\ job \in {"create_raid", "restore_internal"}
    BY <1>13, Where DEF Inv, Mount, System
  <2>3. /\ sys'.swap = sys.swap /\ sys'.services = sys.services
        /\ sys'.conf = sys.conf
        /\ sys'.bkup = sys.bkup /\ sys'.mounted = sys.mounted \cup {"md"}
        /\ sys'.fstab = sys.fstab /\ SameDisk
        /\ disk.array # {} /\ disk.fs
    BY <1>13 DEF Inv, TypeOK, Mount, System, SameSys, SameDisk, Refused, Impossible,
       ExtInUse
  <2>4. Safe'
    BY <2>1, <2>2, <2>3, SMTT(30) DEF Inv, Safe, HomeNamed, HomeBoots, BetweenHomes,
       Arrives, FsTabIsTrue, HomeIsThere, EntryIsMounted, ForgetsHome, Created,
       Restored, Quiet, Home, Steps, SameSys, SameDisk, Disk
  <2>5. Created' /\ Restored'
    BY <2>1, <2>2, <2>3, SMTT(30) DEF Inv, Safe, HomeNamed, FsTabIsTrue, HomeIsThere,
       Created, Restored, Quiet, Home, Steps, SameSys, SameDisk, Disk
  <2> QED
    BY <2>1, <2>4, <2>5, StepType DEF Inv
<1> QED
  BY <1>1, <1>2, <1>3, <1>4, <1>5, <1>6, <1>7, <1>8, <1>9, <1>10, <1>11, <1>12, <1>13
     DEF SystemStep

(* And so does every command on the disks.                                 *)
LEMMA StorageStepInv ==
  ASSUME Inv, StorageStep
  PROVE  Inv'
<1>1. CASE PartitionRaid
  <2>1. Steps(1)
    BY <1>1, Moves DEF Inv, TypeOK, PartitionRaid, Storage, Repartition, Retyped, Steps,
       SysType, DiskType, Disk
  <2>2. (job = "create_raid" => at = 4) /\ job # "restore_internal"
    BY <1>1, Where DEF Inv, PartitionRaid, Storage, Repartition, Retyped
  <2>3. SameSys /\ SameDisk
    BY <1>1 DEF Inv, TypeOK, PartitionRaid, Storage, Repartition, Retyped, SameSys,
       SameDisk
  <2>4. Safe'
    BY <2>1, <2>2, <2>3, SMTT(30) DEF Inv, Safe, HomeNamed, HomeBoots, BetweenHomes,
       Arrives, FsTabIsTrue, HomeIsThere, EntryIsMounted, ForgetsHome, Created,
       Restored, Quiet, Home, Steps, SameSys, SameDisk, Disk
  <2>5. Created' /\ Restored'
    BY <2>1, <2>2, <2>3, SMTT(30) DEF Inv, Safe, HomeNamed, FsTabIsTrue, HomeIsThere,
       Created, Restored, Quiet, Home, Steps, SameSys, SameDisk, Disk
  <2> QED
    BY <2>1, <2>4, <2>5, StepType DEF Inv
<1>2. CASE PartitionRaw
  <2>1. Steps(1)
    BY <1>2, Moves DEF Inv, TypeOK, PartitionRaw, Storage, Repartition, Retyped, Steps,
       SysType, DiskType, Disk
  <2>2. job # "create_raid" /\ job # "restore_internal"
    BY <1>2, Where DEF Inv, PartitionRaw, Storage, Repartition, Retyped
  <2>3. SameSys /\ SameDisk
    BY <1>2 DEF Inv, TypeOK, PartitionRaw, Storage, Repartition, Retyped, SameSys,
       SameDisk
  <2>4. Safe'
    BY <2>1, <2>2, <2>3, SMTT(30) DEF Inv, Safe, HomeNamed, HomeBoots, BetweenHomes,
       Arrives, FsTabIsTrue, HomeIsThere, EntryIsMounted, ForgetsHome, Created,
       Restored, Quiet, Home, Steps, SameSys, SameDisk, Disk
  <2>5. Created' /\ Restored'
    BY <2>1, <2>2, <2>3, SMTT(30) DEF Inv, Safe, HomeNamed, FsTabIsTrue, HomeIsThere,
       Created, Restored, Quiet, Home, Steps, SameSys, SameDisk, Disk
  <2> QED
    BY <2>1, <2>4, <2>5, StepType DEF Inv
<1>3. CASE PartitionLvm
  <2>1. Steps(1)
    BY <1>3, Moves DEF Inv, TypeOK, PartitionLvm, Storage, Repartition, Retyped, Steps,
       SysType, DiskType, Disk
  <2>2. job # "create_raid" /\ job # "restore_internal"
    BY <1>3, Where DEF Inv, PartitionLvm, Storage, Repartition, Retyped
  <2>3. SameSys /\ SameDisk
    BY <1>3 DEF Inv, TypeOK, PartitionLvm, Storage, Repartition, Retyped, SameSys,
       SameDisk
  <2>4. Safe'
    BY <2>1, <2>2, <2>3, SMTT(30) DEF Inv, Safe, HomeNamed, HomeBoots, BetweenHomes,
       Arrives, FsTabIsTrue, HomeIsThere, EntryIsMounted, ForgetsHome, Created,
       Restored, Quiet, Home, Steps, SameSys, SameDisk, Disk
  <2>5. Created' /\ Restored'
    BY <2>1, <2>2, <2>3, SMTT(30) DEF Inv, Safe, HomeNamed, FsTabIsTrue, HomeIsThere,
       Created, Restored, Quiet, Home, Steps, SameSys, SameDisk, Disk
  <2> QED
    BY <2>1, <2>4, <2>5, StepType DEF Inv
<1>4. CASE FormatExt
  <2>1. Steps(1)
    BY <1>4, Moves DEF Inv, TypeOK, FormatExt, Storage, Steps, SysType, DiskType, Disk
  <2>2. job # "create_raid" /\ job # "restore_internal"
    BY <1>4, Where DEF Inv, FormatExt, Storage
  <2>3. /\ disk'.lv = disk.lv /\ disk'.super = disk.super \ {"ext"}
        /\ disk'.array = disk.array /\ disk'.fs = disk.fs /\ SameSys
        /\ "ext" \notin disk.array
    BY <1>4 DEF Inv, TypeOK, FormatExt, Storage, SameSys, SameDisk, Refused, Impossible,
       ExtInUse
  <2>4. Safe'
    BY <2>1, <2>2, <2>3, SMTT(30) DEF Inv, Safe, HomeNamed, HomeBoots, BetweenHomes,
       Arrives, FsTabIsTrue, HomeIsThere, EntryIsMounted, ForgetsHome, Created,
       Restored, Quiet, Home, Steps, SameSys, SameDisk, Disk
  <2>5. Created' /\ Restored'
    BY <2>1, <2>2, <2>3, SMTT(30) DEF Inv, Safe, HomeNamed, FsTabIsTrue, HomeIsThere,
       Created, Restored, Quiet, Home, Steps, SameSys, SameDisk, Disk
  <2> QED
    BY <2>1, <2>4, <2>5, StepType DEF Inv
<1>5. CASE ListLvs
  <2>1. Steps(1)
    BY <1>5, Moves DEF Inv, TypeOK, ListLvs, Steps, SysType, DiskType, Disk
  <2>2. /\ (job = "create_raid" => at = 5)
        /\ (job = "restore_internal" => at = 2)
        /\ job \in {"create_raid", "restore_internal"}
    BY <1>5, Where DEF Inv, ListLvs
  <2>3. SameSys /\ SameDisk
    BY <1>5 DEF Inv, TypeOK, ListLvs, SameSys, SameDisk
  <2>4. Safe'
    BY <2>1, <2>2, <2>3, SMTT(30) DEF Inv, Safe, HomeNamed, HomeBoots, BetweenHomes,
       Arrives, FsTabIsTrue, HomeIsThere, EntryIsMounted, ForgetsHome, Created,
       Restored, Quiet, Home, Steps, SameSys, SameDisk, Disk
  <2>5. Created' /\ Restored'
    BY <2>1, <2>2, <2>3, SMTT(30) DEF Inv, Safe, HomeNamed, FsTabIsTrue, HomeIsThere,
       Created, Restored, Quiet, Home, Steps, SameSys, SameDisk, Disk
  <2> QED
    BY <2>1, <2>4, <2>5, StepType DEF Inv
<1>6. CASE LvRemove
  <2>1. Steps(1)
    BY <1>6, Moves DEF Inv, TypeOK, LvRemove, Storage, Steps, SysType, DiskType, Disk
  <2>2. /\ (job = "create_raid" => at = 10)
        /\ (job = "restore_internal" => at = 8)
        /\ job \in {"create_raid", "restore_internal"}
    BY <1>6, Where DEF Inv, LvRemove, Storage
  <2>3. /\ disk'.lv = {} /\ disk'.super = disk.super
        /\ disk'.array = disk.array /\ disk'.fs = disk.fs /\ SameSys
        /\ "lv" \notin sys.mounted
    BY <1>6 DEF Inv, TypeOK, LvRemove, Storage, SameSys, SameDisk, Refused, Impossible,
       ExtInUse
  <2>4. Safe'
    BY <2>1, <2>2, <2>3, SMTT(30) DEF Inv, Safe, HomeNamed, HomeBoots, BetweenHomes,
       Arrives, FsTabIsTrue, HomeIsThere, EntryIsMounted, ForgetsHome, Created,
       Restored, Quiet, Home, Steps, SameSys, SameDisk, Disk
  <2>5. Created' /\ Restored'
    BY <2>1, <2>2, <2>3, SMTT(30) DEF Inv, Safe, HomeNamed, FsTabIsTrue, HomeIsThere,
       Created, Restored, Quiet, Home, Steps, SameSys, SameDisk, Disk
  <2> QED
    BY <2>1, <2>4, <2>5, StepType DEF Inv
<1>7. CASE VgRemove
  <2>1. Steps(1)
    BY <1>7, Moves DEF Inv, TypeOK, VgRemove, Storage, Steps, SysType, DiskType, Disk
  <2>2. /\ (job = "create_raid" => at = 11)
        /\ (job = "restore_internal" => at = 9)
        /\ job \in {"create_raid", "restore_internal"}
    BY <1>7, Where DEF Inv, VgRemove, Storage
  <2>3. SameSys /\ SameDisk
    BY <1>7 DEF Inv, TypeOK, VgRemove, Storage, SameSys, SameDisk
  <2>4. Safe'
    BY <2>1, <2>2, <2>3, SMTT(30) DEF Inv, Safe, HomeNamed, HomeBoots, BetweenHomes,
       Arrives, FsTabIsTrue, HomeIsThere, EntryIsMounted, ForgetsHome, Created,
       Restored, Quiet, Home, Steps, SameSys, SameDisk, Disk
  <2>5. Created' /\ Restored'
    BY <2>1, <2>2, <2>3, SMTT(30) DEF Inv, Safe, HomeNamed, FsTabIsTrue, HomeIsThere,
       Created, Restored, Quiet, Home, Steps, SameSys, SameDisk, Disk
  <2> QED
    BY <2>1, <2>4, <2>5, StepType DEF Inv
<1>8. CASE PvRemove
  <2>1. Steps(1)
    BY <1>8, Moves DEF Inv, TypeOK, PvRemove, Storage, Steps, SysType, DiskType, Disk
  <2>2. /\ (job = "create_raid" => at = 12)
        /\ (job = "restore_internal" => at = 10)
        /\ job \in {"create_raid", "restore_internal"}
    BY <1>8, Where DEF Inv, PvRemove, Storage
  <2>3. SameSys /\ SameDisk
    BY <1>8 DEF Inv, TypeOK, PvRemove, Storage, SameSys, SameDisk
  <2>4. Safe'
    BY <2>1, <2>2, <2>3, SMTT(30) DEF Inv, Safe, HomeNamed, HomeBoots, BetweenHomes,
       Arrives, FsTabIsTrue, HomeIsThere, EntryIsMounted, ForgetsHome, Created,
       Restored, Quiet, Home, Steps, SameSys, SameDisk, Disk
  <2>5. Created' /\ Restored'
    BY <2>1, <2>2, <2>3, SMTT(30) DEF Inv, Safe, HomeNamed, FsTabIsTrue, HomeIsThere,
       Created, Restored, Quiet, Home, Steps, SameSys, SameDisk, Disk
  <2> QED
    BY <2>1, <2>4, <2>5, StepType DEF Inv
<1>9. CASE TypeInt
  <2>1. Steps(1)
    BY <1>9, Moves DEF Inv, TypeOK, TypeInt, Storage, Repartition, Retyped, Steps,
       SysType, DiskType, Disk
  <2>2. /\ (job = "create_raid" => at = 13)
        /\ (job = "restore_internal" => at = 11)
        /\ job \in {"create_raid", "restore_internal"}
    BY <1>9, Where DEF Inv, TypeInt, Storage, Repartition, Retyped
  <2>3. SameSys /\ SameDisk
    BY <1>9 DEF Inv, TypeOK, TypeInt, Storage, Repartition, Retyped, SameSys, SameDisk
  <2>4. Safe'
    BY <2>1, <2>2, <2>3, SMTT(30) DEF Inv, Safe, HomeNamed, HomeBoots, BetweenHomes,
       Arrives, FsTabIsTrue, HomeIsThere, EntryIsMounted, ForgetsHome, Created,
       Restored, Quiet, Home, Steps, SameSys, SameDisk, Disk
  <2>5. Created' /\ Restored'
    BY <2>1, <2>2, <2>3, SMTT(30) DEF Inv, Safe, HomeNamed, FsTabIsTrue, HomeIsThere,
       Created, Restored, Quiet, Home, Steps, SameSys, SameDisk, Disk
  <2> QED
    BY <2>1, <2>4, <2>5, StepType DEF Inv
<1>10. CASE NextMd
  <2>1. Steps(1)
    BY <1>10, Moves DEF Inv, TypeOK, NextMd, Storage, Steps, SysType, DiskType, Disk
  <2>2. /\ (job = "create_raid" => at = 14)
        /\ job # "restore_internal"
        /\ job \in {"create_raid", "restore_internal"}
    BY <1>10, Where DEF Inv, NextMd, Storage
  <2>3. SameSys /\ SameDisk
    BY <1>10 DEF Inv, TypeOK, NextMd, Storage, SameSys, SameDisk
  <2>4. Safe'
    BY <2>1, <2>2, <2>3, SMTT(30) DEF Inv, Safe, HomeNamed, HomeBoots, BetweenHomes,
       Arrives, FsTabIsTrue, HomeIsThere, EntryIsMounted, ForgetsHome, Created,
       Restored, Quiet, Home, Steps, SameSys, SameDisk, Disk
  <2>5. Created' /\ Restored'
    BY <2>1, <2>2, <2>3, SMTT(30) DEF Inv, Safe, HomeNamed, FsTabIsTrue, HomeIsThere,
       Created, Restored, Quiet, Home, Steps, SameSys, SameDisk, Disk
  <2> QED
    BY <2>1, <2>4, <2>5, StepType DEF Inv
<1>11. CASE CreateMd
  <2>1. CASE Storage("create_md", [disk EXCEPT !.array = Disk, !.super = Disk,
                                              !.fs = FALSE, !.pvs = {}])
    <3>1. Steps(1)
      BY <2>1, Moves DEF Inv, TypeOK, Storage, Steps, SysType, DiskType, Disk
    <3>2. /\ (job = "create_raid" => at = 15)
          /\ job # "restore_internal"
          /\ job \in {"create_raid", "restore_internal"}
      BY <2>1, Where DEF Inv, Storage
    <3>3. /\ disk'.lv = disk.lv /\ disk'.super = Disk /\ disk'.array = Disk
          /\ disk'.fs = FALSE /\ SameSys
      BY <2>1 DEF Inv, TypeOK, Storage, SameSys, SameDisk, Disk
    <3>4. Safe'
      BY <3>1, <3>2, <3>3, SMTT(30) DEF Inv, Safe, HomeNamed, HomeBoots, BetweenHomes,
         Arrives, FsTabIsTrue, HomeIsThere, EntryIsMounted, ForgetsHome, Created,
         Restored, Quiet, Home, Steps, SameSys, SameDisk, Disk
    <3>5. Created' /\ Restored'
      BY <3>1, <3>2, <3>3, SMTT(30) DEF Inv, Safe, HomeNamed, FsTabIsTrue, HomeIsThere,
         Created, Restored, Quiet, Home, Steps, SameSys, SameDisk, Disk
    <3> QED
      BY <3>1, <3>4, <3>5, StepType DEF Inv
  <2>2. CASE Storage("create_md", disk)
    <3>1. Steps(1)
      BY <2>2, Moves DEF Inv, TypeOK, Storage, Steps, SysType, DiskType, Disk
    <3>2. /\ (job = "create_raid" => at = 15)
          /\ job # "restore_internal"
          /\ job \in {"create_raid", "restore_internal"}
      BY <2>2, Where DEF Inv, Storage
    <3>3. SameSys /\ SameDisk
      BY <2>2 DEF Inv, TypeOK, Storage, SameSys, SameDisk, Disk
    <3>4. Safe'
      BY <3>1, <3>2, <3>3, SMTT(30) DEF Inv, Safe, HomeNamed, HomeBoots, BetweenHomes,
         Arrives, FsTabIsTrue, HomeIsThere, EntryIsMounted, ForgetsHome, Created,
         Restored, Quiet, Home, Steps, SameSys, SameDisk, Disk
    <3>5. Created' /\ Restored'
      BY <3>1, <3>2, <3>3, SMTT(30) DEF Inv, Safe, HomeNamed, FsTabIsTrue, HomeIsThere,
         Created, Restored, Quiet, Home, Steps, SameSys, SameDisk, Disk
    <3> QED
      BY <3>1, <3>4, <3>5, StepType DEF Inv
  <2> QED
    BY <1>11, <2>1, <2>2 DEF CreateMd
<1>12. CASE FormatMd
  <2>1. Steps(1)
    BY <1>12, Moves DEF Inv, TypeOK, FormatMd, Storage, Steps, SysType, DiskType, Disk
  <2>2. /\ (job = "create_raid" => at = 17)
        /\ job # "restore_internal"
        /\ job \in {"create_raid", "restore_internal"}
    BY <1>12, Where DEF Inv, FormatMd, Storage
  <2>3. /\ disk'.lv = disk.lv /\ disk'.super = disk.super
        /\ disk'.array = disk.array /\ disk'.fs = TRUE /\ SameSys
        /\ disk.array # {}
    BY <1>12 DEF Inv, TypeOK, FormatMd, Storage, SameSys, SameDisk, Refused, Impossible,
       ExtInUse
  <2>4. Safe'
    BY <2>1, <2>2, <2>3, SMTT(30) DEF Inv, Safe, HomeNamed, HomeBoots, BetweenHomes,
       Arrives, FsTabIsTrue, HomeIsThere, EntryIsMounted, ForgetsHome, Created,
       Restored, Quiet, Home, Steps, SameSys, SameDisk, Disk
  <2>5. Created' /\ Restored'
    BY <2>1, <2>2, <2>3, SMTT(30) DEF Inv, Safe, HomeNamed, FsTabIsTrue, HomeIsThere,
       Created, Restored, Quiet, Home, Steps, SameSys, SameDisk, Disk
  <2> QED
    BY <2>1, <2>4, <2>5, StepType DEF Inv
<1>13. CASE Assemble
  <2>1. CASE Storage("assemble", [disk EXCEPT !.array =
                                             IF @ = {} THEN disk.super ELSE @])
    <3>1. Steps(1)
      BY <2>1, Moves DEF Inv, TypeOK, Storage, Steps, SysType, DiskType, Disk
    <3>2. /\ job # "create_raid"
          /\ (job = "restore_internal" => at = 12)
          /\ job \in {"create_raid", "restore_internal"}
      BY <2>1, Where DEF Inv, Storage
    <3>3. /\ disk'.lv = disk.lv /\ disk'.super = disk.super /\ disk'.fs = disk.fs
          /\ disk'.array = (IF disk.array = {} THEN disk.super ELSE disk.array)
          /\ SameSys
      BY <2>1 DEF Inv, TypeOK, Storage, SameSys, SameDisk, Disk
    <3>4. Safe'
      BY <3>1, <3>2, <3>3, SMTT(30) DEF Inv, Safe, HomeNamed, HomeBoots, BetweenHomes,
         Arrives, FsTabIsTrue, HomeIsThere, EntryIsMounted, ForgetsHome, Created,
         Restored, Quiet, Home, Steps, SameSys, SameDisk, Disk
    <3>5. Created' /\ Restored'
      BY <3>1, <3>2, <3>3, SMTT(30) DEF Inv, Safe, HomeNamed, FsTabIsTrue, HomeIsThere,
         Created, Restored, Quiet, Home, Steps, SameSys, SameDisk, Disk
    <3> QED
      BY <3>1, <3>4, <3>5, StepType DEF Inv
  <2>2. CASE Storage("assemble", disk)
    <3>1. Steps(1)
      BY <2>2, Moves DEF Inv, TypeOK, Storage, Steps, SysType, DiskType, Disk
    <3>2. /\ job # "create_raid"
          /\ (job = "restore_internal" => at = 12)
          /\ job \in {"create_raid", "restore_internal"}
      BY <2>2, Where DEF Inv, Storage
    <3>3. SameSys /\ SameDisk
      BY <2>2 DEF Inv, TypeOK, Storage, SameSys, SameDisk, Disk
    <3>4. Safe'
      BY <3>1, <3>2, <3>3, SMTT(30) DEF Inv, Safe, HomeNamed, HomeBoots, BetweenHomes,
         Arrives, FsTabIsTrue, HomeIsThere, EntryIsMounted, ForgetsHome, Created,
         Restored, Quiet, Home, Steps, SameSys, SameDisk, Disk
    <3>5. Created' /\ Restored'
      BY <3>1, <3>2, <3>3, SMTT(30) DEF Inv, Safe, HomeNamed, FsTabIsTrue, HomeIsThere,
         Created, Restored, Quiet, Home, Steps, SameSys, SameDisk, Disk
    <3> QED
      BY <3>1, <3>4, <3>5, StepType DEF Inv
  <2> QED
    BY <1>13, <2>1, <2>2 DEF Assemble
<1>14. CASE AddExt
  <2>1. Steps(1)
    BY <1>14, Moves DEF Inv, TypeOK, AddExt, Storage, AddTo, Steps, SysType, DiskType,
       Disk
  <2>2. job # "create_raid" /\ job # "restore_internal"
    BY <1>14, Where DEF Inv, AddExt, Storage, AddTo
  <2>3. /\ disk'.lv = disk.lv /\ disk'.super = disk.super \cup {"ext"}
        /\ disk'.array = disk.array \cup {"ext"} /\ disk'.fs = disk.fs
        /\ SameSys
        /\ disk.array # {}
    BY <1>14 DEF Inv, TypeOK, AddExt, Storage, AddTo, SameSys, SameDisk, Refused,
       Impossible, ExtInUse
  <2>4. Safe'
    BY <2>1, <2>2, <2>3, SMTT(30) DEF Inv, Safe, HomeNamed, HomeBoots, BetweenHomes,
       Arrives, FsTabIsTrue, HomeIsThere, EntryIsMounted, ForgetsHome, Created,
       Restored, Quiet, Home, Steps, SameSys, SameDisk, Disk
  <2>5. Created' /\ Restored'
    BY <2>1, <2>2, <2>3, SMTT(30) DEF Inv, Safe, HomeNamed, FsTabIsTrue, HomeIsThere,
       Created, Restored, Quiet, Home, Steps, SameSys, SameDisk, Disk
  <2> QED
    BY <2>1, <2>4, <2>5, StepType DEF Inv
<1>15. CASE AddInt
  <2>1. Steps(1)
    BY <1>15, Moves DEF Inv, TypeOK, AddInt, Storage, AddTo, Steps, SysType, DiskType,
       Disk
  <2>2. /\ job # "create_raid"
        /\ (job = "restore_internal" => at = 13)
        /\ job \in {"create_raid", "restore_internal"}
    BY <1>15, Where DEF Inv, AddInt, Storage, AddTo
  <2>3. /\ disk'.lv = disk.lv /\ disk'.super = disk.super \cup {"int"}
        /\ disk'.array = disk.array \cup {"int"} /\ disk'.fs = disk.fs
        /\ SameSys
        /\ disk.array # {} /\ "int" \notin disk.array
        /\ disk.array \subseteq Disk /\ disk.super \subseteq Disk
    BY <1>15 DEF Inv, TypeOK, AddInt, Storage, AddTo, SameSys, SameDisk, Refused,
       Impossible, ExtInUse
  <2>4. Safe'
    BY <2>1, <2>2, <2>3, SMTT(30) DEF Inv, Safe, HomeNamed, HomeBoots, BetweenHomes,
       Arrives, FsTabIsTrue, HomeIsThere, EntryIsMounted, ForgetsHome, Created,
       Restored, Quiet, Home, Steps, SameSys, SameDisk, Disk
  <2>5. Created' /\ Restored'
    BY <2>1, <2>2, <2>3, SMTT(30) DEF Inv, Safe, HomeNamed, FsTabIsTrue, HomeIsThere,
       Created, Restored, Quiet, Home, Steps, SameSys, SameDisk, Disk
  <2> QED
    BY <2>1, <2>4, <2>5, StepType DEF Inv
<1>16. CASE PvCreate
  <2>1. Steps(1)
    BY <1>16, Moves DEF Inv, TypeOK, PvCreate, Storage, Steps, SysType, DiskType, Disk
  <2>2. job # "create_raid" /\ job # "restore_internal"
    BY <1>16, Where DEF Inv, PvCreate, Storage
  <2>3. /\ disk'.lv = disk.lv /\ disk'.super = disk.super \ {"ext"}
        /\ disk'.array = disk.array /\ disk'.fs = disk.fs /\ SameSys
        /\ "ext" \notin disk.array
    BY <1>16 DEF Inv, TypeOK, PvCreate, Storage, SameSys, SameDisk, Refused, Impossible,
       ExtInUse
  <2>4. Safe'
    BY <2>1, <2>2, <2>3, SMTT(30) DEF Inv, Safe, HomeNamed, HomeBoots, BetweenHomes,
       Arrives, FsTabIsTrue, HomeIsThere, EntryIsMounted, ForgetsHome, Created,
       Restored, Quiet, Home, Steps, SameSys, SameDisk, Disk
  <2>5. Created' /\ Restored'
    BY <2>1, <2>2, <2>3, SMTT(30) DEF Inv, Safe, HomeNamed, FsTabIsTrue, HomeIsThere,
       Created, Restored, Quiet, Home, Steps, SameSys, SameDisk, Disk
  <2> QED
    BY <2>1, <2>4, <2>5, StepType DEF Inv
<1>17. CASE VgExtend
  <2>1. Steps(1)
    BY <1>17, Moves DEF Inv, TypeOK, VgExtend, Storage, Steps, SysType, DiskType, Disk
  <2>2. job # "create_raid" /\ job # "restore_internal"
    BY <1>17, Where DEF Inv, VgExtend, Storage
  <2>3. SameSys /\ SameDisk
    BY <1>17 DEF Inv, TypeOK, VgExtend, Storage, SameSys, SameDisk
  <2>4. Safe'
    BY <2>1, <2>2, <2>3, SMTT(30) DEF Inv, Safe, HomeNamed, HomeBoots, BetweenHomes,
       Arrives, FsTabIsTrue, HomeIsThere, EntryIsMounted, ForgetsHome, Created,
       Restored, Quiet, Home, Steps, SameSys, SameDisk, Disk
  <2>5. Created' /\ Restored'
    BY <2>1, <2>2, <2>3, SMTT(30) DEF Inv, Safe, HomeNamed, FsTabIsTrue, HomeIsThere,
       Created, Restored, Quiet, Home, Steps, SameSys, SameDisk, Disk
  <2> QED
    BY <2>1, <2>4, <2>5, StepType DEF Inv
<1>18. CASE LvExtend
  <2>1. Steps(1)
    BY <1>18, Moves DEF Inv, TypeOK, LvExtend, Storage, Steps, SysType, DiskType, Disk
  <2>2. job # "create_raid" /\ job # "restore_internal"
    BY <1>18, Where DEF Inv, LvExtend, Storage
  <2>3. /\ disk'.lv = disk.vg /\ disk'.super = disk.super
        /\ disk'.array = disk.array /\ disk'.fs = disk.fs /\ SameSys
        /\ disk.lv # {} /\ "ext" \in disk.vg
    BY <1>18 DEF Inv, TypeOK, LvExtend, Storage, SameSys, SameDisk, Refused, Impossible,
       ExtInUse
  <2>4. Safe'
    BY <2>1, <2>2, <2>3, SMTT(30) DEF Inv, Safe, HomeNamed, HomeBoots, BetweenHomes,
       Arrives, FsTabIsTrue, HomeIsThere, EntryIsMounted, ForgetsHome, Created,
       Restored, Quiet, Home, Steps, SameSys, SameDisk, Disk
  <2>5. Created' /\ Restored'
    BY <2>1, <2>2, <2>3, SMTT(30) DEF Inv, Safe, HomeNamed, FsTabIsTrue, HomeIsThere,
       Created, Restored, Quiet, Home, Steps, SameSys, SameDisk, Disk
  <2> QED
    BY <2>1, <2>4, <2>5, StepType DEF Inv
<1>19. CASE ExtendFs
  <2>1. Steps(1)
    BY <1>19, Moves DEF Inv, TypeOK, ExtendFs, Storage, Steps, SysType, DiskType, Disk
  <2>2. job # "create_raid" /\ job # "restore_internal"
    BY <1>19, Where DEF Inv, ExtendFs, Storage
  <2>3. SameSys /\ SameDisk
    BY <1>19 DEF Inv, TypeOK, ExtendFs, Storage, SameSys, SameDisk
  <2>4. Safe'
    BY <2>1, <2>2, <2>3, SMTT(30) DEF Inv, Safe, HomeNamed, HomeBoots, BetweenHomes,
       Arrives, FsTabIsTrue, HomeIsThere, EntryIsMounted, ForgetsHome, Created,
       Restored, Quiet, Home, Steps, SameSys, SameDisk, Disk
  <2>5. Created' /\ Restored'
    BY <2>1, <2>2, <2>3, SMTT(30) DEF Inv, Safe, HomeNamed, FsTabIsTrue, HomeIsThere,
       Created, Restored, Quiet, Home, Steps, SameSys, SameDisk, Disk
  <2> QED
    BY <2>1, <2>4, <2>5, StepType DEF Inv
<1> QED
  BY <1>1, <1>2, <1>3, <1>4, <1>5, <1>6, <1>7, <1>8, <1>9, <1>10, <1>11, <1>12, <1>13,
     <1>14, <1>15, <1>16, <1>17, <1>18, <1>19 DEF StorageStep

-----------------------------------------------------------------------------
(* The system and the disks as installed are within their types.           *)
LEMMA Fresh ==
  /\ FreshSystem \in SysType /\ FreshDisks \in DiskType
  /\ FreshSystem.mounted = {"lv"} /\ FreshSystem.fstab = {"lv"}
  /\ FreshDisks.lv = {"int"} /\ FreshDisks.super = {} /\ FreshDisks.array = {}
BY DEF FreshSystem, FreshDisks, SysType, DiskType, Disk

(* A system as installed.                                                  *)
LEMMA InitInv ==
  ASSUME Init
  PROVE  Inv
<1>1. /\ job = "none" /\ at = 1 /\ devices = {} /\ outcome = Nothing /\ stray = FALSE
      /\ bare = FALSE /\ missed = {}
      /\ disk = FreshDisks /\ budget = Budget
  BY DEF Init
<1>2. /\ sys \in SysType /\ "lv" \in sys.mounted /\ "lv" \in sys.fstab
      /\ "md" \notin sys.mounted /\ "md" \notin sys.fstab
  <2>1. CASE sys = FreshSystem
    BY <2>1, Fresh
  <2>2. CASE sys = [FreshSystem EXCEPT !.mounted = {"lv", "ext"}, !.fstab = {"lv", "ext"}]
    BY <2>2, Fresh DEF SysType
  <2> QED
    BY <2>1, <2>2 DEF Init
<1>3. TypeOK
  <2>1. outcome \in [result : Results, job : Job \cup {"none"}, step : Step \cup {"none"}]
    BY <1>1 DEF Nothing, Results
  <2>2. budget \in 0..Budget
    BY <1>1, RaidAssumption
  <2>3. disk \in DiskType
    BY <1>1, Fresh
  <2> QED
    BY <1>1, <1>2, <2>1, <2>2, <2>3 DEF TypeOK, SysType, DiskType
<1> QED
  BY <1>1, <1>2, <1>3, Fresh DEF Inv, Safe, HomeNamed, HomeBoots, BetweenHomes,
     FsTabIsTrue, HomeIsThere, EntryIsMounted, Created, Restored, Complete,
     DoneIsComplete, Home, Nothing

(* A command is one of Step.                                               *)
LEMMA CommandIsStep ==
  ASSUME TypeOK, job # "none"
  PROVE  Script[job][at] \in Step
BY DEF TypeOK, Step

(* A job that ends, or is ended, and leaves the system as it is.           *)
LEMMA EndInv ==
  ASSUME Inv, job # "none", job' = "none", SameSys, SameDisk,
         ForgetsHome /\ ~stray => stray', stray => stray',
         bare' = (bare \/ BetweenHomes)
  PROVE  Safe' /\ Created' /\ Restored'
BY DEF Inv, Safe, HomeNamed, HomeBoots, BetweenHomes, FsTabIsTrue, HomeIsThere,
   EntryIsMounted, ForgetsHome, Created, Restored, Quiet, Home, SameSys, SameDisk

(* Where the entry of the volume is removed, as the script names it.       *)
LEMMA ForgetsHomeDoes ==
  ASSUME TypeOK, ForgetsHome
  PROVE  Script[job][at] = "forget_home"
BY CreateScript, RestoreScript DEF ForgetsHome

(* A failing command ends the job; of the disks only a type has changed.   *)
LEMMA CommandFailsInv ==
  ASSUME Inv, CommandFails
  PROVE  Inv'
<1>1. PICK s \in Step \ Unchecked :
        /\ Doing(s)
        /\ End(IF job = "add_to_lvm" THEN "quiet" ELSE "died", s)
        /\ disk' \in {disk} \cup {Retyped[t] : t \in {s} \cap DOMAIN Retyped}
  BY DEF CommandFails
<1>2. disk' \in DiskType /\ SameDisk
  BY <1>1 DEF Inv, TypeOK, Retyped, DiskType, SameDisk, Disk
<1>3. /\ sys' = sys /\ job \in Job /\ job' = "none" /\ at' = at /\ devices' = devices
      /\ budget' = budget /\ stray' = (stray \/ s = "forget_home")
      /\ bare' = (bare \/ BetweenHomes) /\ missed' = missed
      /\ outcome'.result \in {"died", "quiet"} /\ stray' \in BOOLEAN
      /\ outcome' \in [result : Results, job : Job \cup {"none"}, step : Step \cup {"none"}]
  BY <1>1 DEF End, Inv, TypeOK, Doing, Results
<1>4. TypeOK'
  BY <1>2, <1>3 DEF Inv, TypeOK, DiskType, BetweenHomes
<1>5. Safe' /\ Created' /\ Restored'
  BY <1>1, <1>2, <1>3, ForgetsHomeDoes, EndInv DEF Inv, SameSys, Doing
<1>6. Complete' /\ DoneIsComplete'
  BY <1>3 DEF Complete, DoneIsComplete
<1> QED
  BY <1>4, <1>5, <1>6 DEF Inv

(* A job comes to its end with all it has taken away put back.             *)
LEMMA SucceedInv ==
  ASSUME Inv, Succeed
  PROVE  Inv'
<1>1. /\ sys' = sys /\ disk' = disk /\ job \in Job /\ job' = "none" /\ at' = at
      /\ devices' = devices /\ budget' = budget /\ stray' = stray
      /\ bare' = (bare \/ BetweenHomes) /\ missed' = missed
      /\ outcome' = [result |-> "ok", job |-> job, step |-> "done"]
  BY DEF Succeed, End, Inv, TypeOK, Doing
<1>2. "done" \in Step
  BY CommandIsStep DEF Inv, Succeed, Doing
<1>3. (job = "create_raid" => at = 23) /\ (job = "restore_internal" => at = 19)
  BY Where DEF Inv, Succeed
<1>4. TypeOK'
  BY <1>1, <1>2 DEF Inv, TypeOK, Results, BetweenHomes
<1>5. Safe' /\ Created' /\ Restored'
  BY <1>1, <1>3, EndInv DEF Inv, SameSys, SameDisk, ForgetsHome, Job
<1>6. ASSUME job \in {"create_raid", "restore_internal"}
      PROVE  /\ sys.swap \/ "swapon" \in missed
             /\ sys.services = "up" \/ "start_services" \in missed
             /\ sys.conf \/ "mdadm_conf" \in missed
             /\ job = "create_raid" => ~sys.bkup \/ "restore" \in missed
             /\ disk.lv = {} /\ disk.super = Disk
             /\ Home = {"md"} /\ "md" \in sys.fstab /\ disk.fs
  <2>1. /\ sys.swap \/ "swapon" \in missed
        /\ sys.services = "up" \/ "start_services" \in missed
        /\ sys.conf \/ "mdadm_conf" \in missed
        /\ job = "create_raid" => ~sys.bkup \/ "restore" \in missed
        /\ "md" \in sys.mounted /\ disk.lv = {} /\ disk.super = Disk
    BY <1>3, <1>6 DEF Inv, Created, Restored, Disk
  <2>2. Home = {"md"} /\ "md" \in sys.fstab /\ disk.fs
    BY <2>1 DEF Inv, Safe, HomeNamed, HomeIsThere, Home
  <2> QED
    BY <2>1, <2>2
<1>7. Complete' /\ DoneIsComplete'
  BY <1>1, <1>6 DEF Complete, DoneIsComplete, Home
<1> QED
  BY <1>4, <1>5, <1>7 DEF Inv

(* A command fails, nobody looks, and the job goes on.                     *)
LEMMA CommandMissedInv ==
  ASSUME Inv, CommandMissed
  PROVE  Inv'
<1>1. PICK s \in Unseen :
        /\ Doing(s) /\ at' = at + 1 /\ missed' = missed \cup {s} /\ sys' \in LeftBy[s]
        /\ budget > 0 /\ budget' = budget - 1
        /\ UNCHANGED <<job, outcome, stray, bare, devices, disk>>
  BY DEF CommandMissed
<1>2. job \in Job /\ at \in Nat /\ at' \in 1..Len(Script[job'])
  BY <1>1, Follows DEF Inv, Unseen
<1>3. sys \in SysType
  BY DEF Inv, TypeOK, SysType
<1>4. /\ sys' \in SysType /\ sys'.mounted = sys.mounted /\ sys'.fstab = sys.fstab
      /\ sys'.swap = sys.swap
      /\ s # "stop_services" /\ s # "start_services" => sys'.services = sys.services
      /\ sys.services = "down" /\ s = "stop_services" => sys'.services = "down"
      /\ s # "mdadm_conf" => sys'.conf = sys.conf
      /\ s # "backup" /\ s # "restore" => sys'.bkup = sys.bkup
  <2>1. CASE s \in {"swapoff", "swapon"}  BY <1>1, <1>3, <2>1 DEF LeftBy
  <2>2. CASE s = "stop_services"          BY <1>1, <1>3, <2>2 DEF LeftBy, SysType
  <2>3. CASE s = "start_services"         BY <1>1, <1>3, <2>3 DEF LeftBy, SysType
  <2>4. CASE s = "backup"                 BY <1>1, <1>3, <2>4 DEF LeftBy, SysType
  <2>5. CASE s = "restore"                BY <1>1, <1>3, <2>5 DEF LeftBy, SysType
  <2>6. CASE s = "mdadm_conf"             BY <1>1, <1>3, <2>6 DEF LeftBy, SysType
  <2> QED
    BY <2>1, <2>2, <2>3, <2>4, <2>5, <2>6 DEF Unseen
<1>5. budget' \in 0..Budget
  BY <1>1, RaidAssumption DEF Inv, TypeOK
<1>6. TypeOK'
  BY <1>1, <1>2, <1>4, <1>5 DEF Inv, TypeOK, SysType
<1>7. /\ job = "create_raid" =>
           <<s, at>> \in {<<"swapoff", 1>>, <<"stop_services", 6>>, <<"backup", 7>>,
                         <<"mdadm_conf", 16>>, <<"restore", 20>>,
                         <<"start_services", 21>>, <<"swapon", 22>>}
      /\ job = "restore_internal" =>
           <<s, at>> \in {<<"swapoff", 1>>, <<"stop_services", 3>>, <<"mdadm_conf", 14>>,
                         <<"start_services", 17>>, <<"swapon", 18>>}
  BY <1>1, Where DEF Inv, Unseen
<1>8. Safe'
  BY <1>1, <1>2, <1>4, <1>7 DEF Inv, Safe, HomeNamed, HomeBoots, BetweenHomes,
     FsTabIsTrue, HomeIsThere, EntryIsMounted, ForgetsHome, Home
<1>9. Created'
  <2>1. ASSUME job = "create_raid", s = "mdadm_conf"
        PROVE  Created'
    BY <1>1, <1>2, <1>4, <1>7, <2>1 DEF Inv, Created, Quiet
  <2>2. ASSUME job = "create_raid", s \in {"swapoff", "backup"}
        PROVE  Created'
    BY <1>1, <1>2, <1>4, <1>7, <2>2 DEF Inv, Created, Quiet
  <2>3. ASSUME job = "create_raid", s \in {"stop_services", "start_services"}
        PROVE  Created'
    BY <1>1, <1>2, <1>4, <1>7, <2>3 DEF Inv, Created, Quiet
  <2>4. ASSUME job = "create_raid", s \in {"restore", "swapon"}
        PROVE  Created'
    BY <1>1, <1>2, <1>4, <1>7, <2>4 DEF Inv, Created, Quiet
  <2>5. CASE job # "create_raid"
    BY <1>1, <2>5 DEF Created
  <2> QED
    BY <2>1, <2>2, <2>3, <2>4, <2>5 DEF Unseen
<1>10. Restored'
  BY <1>1, <1>2, <1>4, <1>7 DEF Inv, Restored, Quiet
<1>11. Complete' /\ DoneIsComplete'
  BY <1>1, <1>2, NoOutcome DEF Job
<1> QED
  BY <1>6, <1>8, <1>9, <1>10, <1>11 DEF Inv

(* The disk pages start a job when none runs.                              *)
LEMMA StartInv ==
  ASSUME Inv, NEW j \in Job, Start(j)
  PROVE  Inv'
<1>1. /\ sys' = sys /\ disk' = disk /\ job = "none" /\ job' = j /\ at' = 1
      /\ devices' = {} /\ stray' = stray /\ outcome' = Nothing
      /\ bare' = bare /\ missed' = {}
      /\ (j = "create_raid" => disk.array = {})
  BY DEF Start, Offered
<1>2. budget' \in 0..Budget
  BY RaidAssumption DEF Start, Spend, Inv, TypeOK
<1>3. 1 \in 1..Len(Script[j])
  <2>1. CASE j = "create_raid"       BY <2>1, CreateScript
  <2>2. CASE j = "restore_external"  BY <2>2, ExtendScript
  <2>3. CASE j = "restore_internal"  BY <2>3, RestoreScript
  <2>4. CASE j = "format_disk"       BY <2>4, FormatScript
  <2>5. CASE j = "add_to_lvm"        BY <2>5, GrowScript
  <2> QED  BY <2>1, <2>2, <2>3, <2>4, <2>5 DEF Job
<1>4. TypeOK'
  BY <1>1, <1>2, <1>3 DEF Inv, TypeOK, Nothing, Results
<1>5. Safe' /\ Created' /\ Restored'
  BY <1>1 DEF Inv, Safe, HomeNamed, HomeBoots, BetweenHomes, FsTabIsTrue, HomeIsThere,
     EntryIsMounted, ForgetsHome, Created, Restored, Quiet, Home
<1>6. Complete' /\ DoneIsComplete'
  BY <1>1 DEF Complete, DoneIsComplete, Nothing
<1> QED
  BY <1>4, <1>5, <1>6 DEF Inv

-----------------------------------------------------------------------------
(* The disk page touches neither /home nor its entries.                    *)
LEMMA PageInv ==
  ASSUME Inv, MountExternal \/ UmountExternal
  PROVE  Inv'
<1>1. /\ job' = job /\ at' = at /\ devices' = devices /\ outcome' = outcome
      /\ stray' = stray /\ bare' = bare /\ missed' = missed /\ disk' = disk
  BY DEF MountExternal, UmountExternal, jobVars
<1>2. budget' \in 0..Budget
  <2>1. Spend
    BY DEF MountExternal, UmountExternal, Happens
  <2> QED
    BY <2>1, RaidAssumption DEF Spend, Inv, TypeOK
<1>3. sys \in SysType
  BY DEF Inv, TypeOK, SysType
<1>4. /\ sys' \in SysType
      /\ sys'.swap = sys.swap /\ sys'.services = sys.services /\ sys'.bkup = sys.bkup
      /\ sys'.conf = sys.conf
      /\ sys'.mounted \cap {"lv", "md"} = sys.mounted \cap {"lv", "md"}
      /\ sys'.fstab \cap {"lv", "md"} = sys.fstab \cap {"lv", "md"}
  <2>1. CASE MountExternal
    <3>1. CASE sys' = [sys EXCEPT !.fstab = @ \cup {"uuid"}]
      BY <1>3, <3>1 DEF SysType
    <3>2. CASE sys' = [sys EXCEPT !.mounted = @ \cup {"extern"}]
      BY <1>3, <3>2 DEF SysType
    <3>3. ASSUME NEW place \in {"ext", "extern"},
                 sys' = [sys EXCEPT !.mounted = @ \cup {place}, !.fstab = @ \cup {"uuid"}]
          PROVE  /\ sys' \in SysType
                 /\ sys'.swap = sys.swap /\ sys'.services = sys.services
                 /\ sys'.bkup = sys.bkup /\ sys'.conf = sys.conf
                 /\ sys'.mounted \cap {"lv", "md"} = sys.mounted \cap {"lv", "md"}
                 /\ sys'.fstab \cap {"lv", "md"} = sys.fstab \cap {"lv", "md"}
      BY <1>3, <3>3 DEF SysType
    <3> QED
      BY <2>1, <3>1, <3>2, <3>3 DEF MountExternal
  <2>2. CASE UmountExternal
    <3>1. PICK place \in {"ext", "extern"} :
            sys' = [sys EXCEPT !.mounted = @ \ {place},
                               !.fstab = @ \ {IF place = "ext" THEN "ext" ELSE "uuid"}]
      BY <2>2 DEF UmountExternal
    <3> QED
      BY <1>3, <3>1 DEF SysType
  <2> QED
    BY <2>1, <2>2
<1>5. /\ "lv" \in sys'.mounted <=> "lv" \in sys.mounted
      /\ "md" \in sys'.mounted <=> "md" \in sys.mounted
      /\ "lv" \in sys'.fstab <=> "lv" \in sys.fstab
      /\ "md" \in sys'.fstab <=> "md" \in sys.fstab
  BY <1>4
<1>6. TypeOK'
  BY <1>1, <1>2, <1>4 DEF Inv, TypeOK, SysType
<1>7. Safe' /\ Created' /\ Restored'
  BY <1>1, <1>4, <1>5 DEF Inv, Safe, HomeNamed, HomeBoots, BetweenHomes, FsTabIsTrue,
     HomeIsThere, EntryIsMounted, ForgetsHome, Created, Restored, Quiet, Home
<1>8. Complete' /\ DoneIsComplete'
  BY <1>1, <1>4, <1>5 DEF Inv, Complete, DoneIsComplete, Home
<1> QED
  BY <1>6, <1>7, <1>8 DEF Inv

(* A job that is cut short has not succeeded.                              *)
LEMMA CutOutcome ==
  ASSUME Inv, CutShort
  PROVE  /\ job' = "none" /\ at' = at /\ devices' = devices
         /\ outcome' \in [result : Results, job : Job \cup {"none"}, step : Step \cup {"none"}]
         /\ outcome'.result = "ok" => job = "none" /\ outcome' = outcome
         /\ bare' = (bare \/ BetweenHomes) /\ bare' \in BOOLEAN /\ missed' = missed
<1>1. job # "none" => Script[job][at] \in Step
  BY CommandIsStep DEF Inv
<1> QED
  BY <1>1 DEF CutShort, Inv, TypeOK, Results, BetweenHomes

(* A worker that is killed leaves the system where it was.                 *)
LEMMA KillWorkerInv ==
  ASSUME Inv, KillWorker
  PROVE  Inv'
<1>1. /\ job # "none" /\ CutShort /\ sys' = sys /\ disk' = disk
      /\ stray' = (stray \/ Doing("forget_home"))
  BY DEF KillWorker
<1>2. budget' \in 0..Budget
  BY RaidAssumption DEF KillWorker, Happens, Spend, Inv, TypeOK
<1>3. TypeOK'
  BY <1>1, <1>2, CutOutcome DEF Inv, TypeOK
<1>4. Safe' /\ Created' /\ Restored'
  BY <1>1, ForgetsHomeDoes, CutOutcome, EndInv DEF Inv, SameSys, SameDisk, Doing
<1>5. Complete' /\ DoneIsComplete'
  BY <1>1, CutOutcome DEF Complete, DoneIsComplete
<1> QED
  BY <1>3, <1>4, <1>5 DEF Inv

(* What is mounted on /home after a boot.                                  *)
LEMMA RebootMounts ==
  ASSUME Inv, Reboot
  PROVE  /\ sys' \in SysType /\ sys'.swap = TRUE /\ sys'.services = "up"
         /\ sys'.bkup = sys.bkup
         /\ sys'.conf = sys.conf /\ sys'.fstab = sys.fstab
         /\ "lv" \in sys'.mounted <=> "lv" \in sys.fstab /\ disk.lv # {}
         /\ "md" \in sys'.mounted <=> "md" \in sys.fstab /\ disk.super # {} /\ disk.fs
<1>1. PICK gone \in SUBSET {"ext", "uuid"} :
        sys' = [sys EXCEPT !.swap = TRUE, !.services = "up",
                           !.mounted = {IF d = "uuid" THEN "extern" ELSE d :
                                         d \in {f \in sys.fstab \ gone :
                                                 Mountable(f, disk.super)}}]
  BY DEF Reboot
<1> DEFINE named == {f \in sys.fstab \ gone : Mountable(f, disk.super)}
           mounts == {IF d = "uuid" THEN "extern" ELSE d : d \in named}
<1>2. sys.fstab \subseteq {"lv", "md", "ext", "uuid"} /\ sys \in SysType
  BY DEF Inv, TypeOK, SysType
<1>3. /\ "lv" \in named <=> "lv" \in sys.fstab /\ disk.lv # {}
      /\ "md" \in named <=> "md" \in sys.fstab /\ disk.super # {} /\ disk.fs
  BY <1>1 DEF Mountable
<1>4. /\ mounts \in SUBSET {"lv", "md", "ext", "extern"}
      /\ "lv" \in mounts <=> "lv" \in named
      /\ "md" \in mounts <=> "md" \in named
  BY <1>2
<1> HIDE DEF mounts, named
<1>5. sys' = [sys EXCEPT !.swap = TRUE, !.services = "up", !.mounted = mounts]
  BY <1>1 DEF mounts, named
<1> QED
  BY <1>2, <1>3, <1>4, <1>5 DEF SysType

(* After a boot the system has what fstab and the disks hold.              *)
LEMMA RebootInv ==
  ASSUME Inv, Reboot
  PROVE  Inv'
<1>1. /\ CutShort /\ stray' = (stray /\ disk.lv = {})
      /\ disk' = [disk EXCEPT !.array = disk.super]
  BY DEF Reboot
<1>2. budget' \in 0..Budget
  BY RaidAssumption DEF Reboot, Happens, Spend, Inv, TypeOK
<1>3. /\ disk' \in DiskType /\ disk'.lv = disk.lv /\ disk'.super = disk.super
      /\ disk'.array = disk.super /\ disk'.fs = disk.fs
  BY <1>1 DEF Inv, TypeOK, DiskType
<1>4. TypeOK'
  BY <1>1, <1>2, <1>3, RebootMounts, CutOutcome DEF Inv, TypeOK, SysType, DiskType
<1>5. Safe'
  <2>1. HomeNamed'
    BY RebootMounts DEF HomeNamed, Home
  <2>2. FsTabIsTrue' /\ EntryIsMounted'
    BY <1>1, <1>3, RebootMounts DEF Inv, Safe, FsTabIsTrue, EntryIsMounted
  <2>3. HomeIsThere'
    BY <1>3, RebootMounts DEF Inv, Safe, HomeIsThere
  <2>4. HomeBoots'
    BY <1>1, <1>3, RebootMounts, CutOutcome DEF Inv, Safe, HomeBoots
  <2> QED
    BY <2>1, <2>2, <2>3, <2>4 DEF Safe
<1>6. Created' /\ Restored'
  BY <1>1, CutOutcome DEF Created, Restored
<1>7. ASSUME outcome'.result = "ok", outcome'.job \in {"create_raid", "restore_internal"}
      PROVE  /\ disk'.lv = {} /\ sys'.swap /\ sys'.services = "up"
             /\ sys'.conf \/ "mdadm_conf" \in missed'
             /\ outcome'.job = "create_raid" => ~sys'.bkup \/ "restore" \in missed'
             /\ Home' = {"md"} /\ "md" \in sys'.fstab
             /\ disk'.super = Disk /\ disk'.fs
  <2>1. /\ outcome' = outcome /\ disk.lv = {} /\ "md" \in sys.fstab /\ disk.super = Disk
        /\ disk.fs
        /\ sys.conf \/ "mdadm_conf" \in missed
        /\ outcome.job = "create_raid" => ~sys.bkup \/ "restore" \in missed
    BY <1>1, <1>7, CutOutcome DEF Inv, Complete, DoneIsComplete
  <2>2. "md" \in sys'.mounted /\ "lv" \notin sys'.mounted
    BY <2>1, RebootMounts DEF Disk
  <2> QED
    BY <1>1, <1>3, <2>1, <2>2, RebootMounts, CutOutcome DEF Home
<1>8. Complete' /\ DoneIsComplete'
  BY <1>1, <1>7, CutOutcome DEF Complete, DoneIsComplete
<1> QED
  BY <1>4, <1>5, <1>6, <1>8 DEF Inv

(* An exchange of the external disk leaves /home alone.                    *)
LEMMA NewExternalInv ==
  ASSUME Inv, NewExternal
  PROVE  Inv'
<1>1. /\ job = "none" /\ job' = job /\ at' = at /\ devices' = devices /\ stray' = stray
      /\ bare' = bare /\ missed' = missed /\ sys' = sys /\ outcome' = Nothing
  BY DEF NewExternal
<1>2. budget' \in 0..Budget
  BY RaidAssumption DEF NewExternal, Happens, Spend, Inv, TypeOK
<1>3. /\ disk' \in DiskType /\ disk'.lv = disk.lv /\ disk'.super = disk.super \ {"ext"}
      /\ disk'.array = disk.array \ {"ext"} /\ disk'.fs = disk.fs
  BY DEF NewExternal, Inv, TypeOK, DiskType, Disk
<1>4. TypeOK'
  BY <1>1, <1>2, <1>3 DEF Inv, TypeOK, DiskType, Nothing, Results
<1>5. Safe'
  BY <1>1, <1>3 DEF Inv, Safe, HomeNamed, HomeBoots, BetweenHomes, FsTabIsTrue,
     HomeIsThere, EntryIsMounted, ForgetsHome, Home
<1>6. Created' /\ Restored' /\ Complete' /\ DoneIsComplete'
  BY <1>1 DEF Created, Restored, Complete, DoneIsComplete, Nothing
<1> QED
  BY <1>4, <1>5, <1>6 DEF Inv

(* A new internal disk is a new installation.                              *)
LEMMA NewInternalInv ==
  ASSUME Inv, NewInternal
  PROVE  Inv'
<1>1. /\ job = "none" /\ job' = job /\ at' = at /\ devices' = devices /\ stray' = FALSE
      /\ bare' = FALSE /\ missed' = missed /\ sys' = FreshSystem /\ outcome' = Nothing
  BY DEF NewInternal
<1>2. budget' \in 0..Budget
  BY RaidAssumption DEF NewInternal, Happens, Spend, Inv, TypeOK
<1>3. /\ disk' \in DiskType /\ disk'.lv = {"int"} /\ disk'.super = {"ext"}
      /\ disk'.array \subseteq {"ext"}
  <2>1. PICK array \in {{}, {"ext"}} :
          disk' = [FreshDisks EXCEPT !.super = {"ext"}, !.array = array, !.fs = disk.fs,
                                     !.type.ext = "raid"]
    BY DEF NewInternal
  <2> QED
    BY <2>1, Fresh DEF Inv, TypeOK, DiskType, Disk
<1>4. TypeOK'
  BY <1>1, <1>2, <1>3 DEF Inv, TypeOK, FreshSystem, DiskType, Nothing, Results
<1>5. Safe'
  BY <1>1, <1>3 DEF Safe, HomeNamed, HomeBoots, BetweenHomes, FsTabIsTrue, HomeIsThere,
     EntryIsMounted, FreshSystem, Home
<1>6. Created' /\ Restored' /\ Complete' /\ DoneIsComplete'
  BY <1>1 DEF Created, Restored, Complete, DoneIsComplete, Nothing
<1> QED
  BY <1>4, <1>5, <1>6 DEF Inv

-----------------------------------------------------------------------------
(* Every step keeps the invariant.                                         *)
LEMMA NextInv ==
  ASSUME Inv, [Next]_vars
  PROVE  Inv'
<1>1. CASE \E j \in Job : Start(j)  BY <1>1, StartInv
<1>2. CASE SystemStep               BY <1>2, SystemStepInv
<1>3. CASE StorageStep              BY <1>3, StorageStepInv
<1>4. CASE CommandFails             BY <1>4, CommandFailsInv
<1>5. CASE Succeed                  BY <1>5, SucceedInv
<1>6. CASE CommandMissed            BY <1>6, CommandMissedInv
<1>7. CASE Environment
  BY <1>7, PageInv, KillWorkerInv, RebootInv, NewExternalInv, NewInternalInv DEF
     Environment
<1>8. CASE UNCHANGED vars
  BY <1>8 DEF vars, jobVars, Inv, TypeOK, Quiet, Safe, HomeNamed, HomeBoots,
     BetweenHomes, FsTabIsTrue, HomeIsThere, EntryIsMounted, ForgetsHome, Created,
     Restored, Complete, DoneIsComplete, Home
<1> QED
  BY <1>1, <1>2, <1>3, <1>4, <1>5, <1>6, <1>7, <1>8 DEF Next

(* The invariant holds in every behaviour.                                 *)
LEMMA Invariance == Spec => []Inv
<1>1. Init => Inv
  BY InitInv
<1>2. Inv /\ [Next]_vars => Inv'
  BY NextInv
<1> QED
  BY <1>1, <1>2, PTL DEF Spec

(* No script leaves the system in a state outside its types, and each goes *)
(* on as long as it has commands.                                          *)
THEOREM TypeCorrect == Spec => []TypeOK
<1>1. Inv => TypeOK
  BY DEF Inv
<1> QED
  BY <1>1, Invariance, PTL

(* A power cut at any command of any job, after any number of jobs that    *)
(* died, were killed or were cut short, boots into a system with a /home,  *)
(* but for the time between the old and the new, and what a job leaves     *)
(* that ends there.                                                        *)
THEOREM BootsWithHomeHolds == Spec => []BootsWithHome
<1>1. Inv => BootsWithHome
  <2>1. ASSUME Inv, "md" \in sys.fstab, disk.fs
        PROVE  Mountable("md", disk.super)
    BY <2>1 DEF Inv, Safe, HomeIsThere, Mountable
  <2>2. ASSUME Inv, disk.lv # {}
        PROVE  Mountable("lv", disk.super)
    BY <2>2 DEF Mountable
  <2> QED
    BY <2>1, <2>2 DEF Inv, Safe, HomeNamed, HomeBoots, BootsWithHome
<1> QED
  BY <1>1, Invariance, PTL

(* An entry of /etc/fstab names a /home that is there, but for the one     *)
(* interruption that stray stands for.                                     *)
THEOREM FsTabIsTrueHolds == Spec => []FsTabIsTrue
<1>1. Inv => FsTabIsTrue
  BY DEF Inv, Safe
<1> QED
  BY <1>1, Invariance, PTL

(* create_raid and restore_raid_broken_internal report success only with   *)
(* /home on the array, in fstab too, whatever failed unseen, and all they  *)
(* stopped started again, unless that failed unseen.                       *)
THEOREM DoneIsCompleteHolds == Spec => []DoneIsComplete
<1>1. Inv => DoneIsComplete
  BY DEF Inv
<1> QED
  BY <1>1, Invariance, PTL

(* Whatever leaves no /home mounted finds the services stopped, or not     *)
(* stopped by the one command that should have.                            *)
LEMMA HomeStays ==
  ASSUME Inv, [Next]_vars, Home # {}, ~Quiet
  PROVE  Home' # {}
<1>1. CASE SystemStep
  <2>1. CASE UmountHome
    <3>1. CASE Umount("umount_home", {"lv"})
      BY <3>1, Where DEF Inv, Created, Restored, Umount, System
    <3>2. CASE PassOver("umount_home", {"lv"})
      BY <3>2 DEF PassOver, Home
    <3> QED
      BY <2>1, <3>1, <3>2 DEF UmountHome, UmountOrPassOver
  <2>2. CASE UmountExt
    <3>1. CASE Umount("umount_ext", {"ext", "extern"})
      BY <3>1 DEF Inv, TypeOK, Umount, System, Home
    <3>2. CASE PassOver("umount_ext", {"ext", "extern"})
      BY <3>2 DEF PassOver, Home
    <3> QED
      BY <2>2, <3>1, <3>2 DEF UmountExt, UmountOrPassOver
  <2>3. CASE Mount
    BY <2>3 DEF Mount, System, Inv, TypeOK, Home
  <2>4. CASE \/ SwapOff \/ SwapOn \/ StopServices \/ StartServices \/ Backup \/ Restore
             \/ MdadmConf \/ ForgetExt \/ ForgetHome \/ AddFsTab
    BY <2>4 DEF SwapOff, SwapOn, StopServices, StartServices, Backup, Restore,
       MdadmConf, ForgetExt, ForgetHome, AddFsTab, System, Inv, TypeOK, Home
  <2> QED
    BY <1>1, <2>1, <2>2, <2>3, <2>4 DEF SystemStep
<1>2. CASE StorageStep
  <2>1. sys' = sys
    BY <1>2 DEF StorageStep, Storage, PartitionRaid, PartitionRaw, PartitionLvm,
       TypeInt, Repartition, FormatExt, ListLvs, LvRemove, VgRemove, PvRemove, NextMd,
       CreateMd, FormatMd, Assemble, AddExt, AddInt, AddTo, PvCreate, VgExtend,
       LvExtend, ExtendFs
  <2> QED
    BY <2>1 DEF Home
<1>3. CASE (\E j \in Job : Start(j)) \/ CommandFails \/ Succeed
  BY <1>3 DEF Start, CommandFails, Succeed, End, Home
<1>4. CASE Environment
  <2>1. CASE MountExternal
    BY <2>1 DEF MountExternal, Inv, TypeOK, Home
  <2>2. CASE UmountExternal
    BY <2>2 DEF UmountExternal, Inv, TypeOK, Home
  <2>3. CASE KillWorker \/ NewExternal
    BY <2>3 DEF KillWorker, NewExternal, Home
  <2>4. CASE Reboot
    BY <2>4, RebootMounts DEF Inv, Safe, HomeNamed, HomeIsThere, Home
  <2>5. CASE NewInternal
    BY <2>5 DEF NewInternal, FreshSystem, Home
  <2> QED
    BY <1>4, <2>1, <2>2, <2>3, <2>4, <2>5 DEF Environment
<1>5. CASE CommandMissed
  BY <1>5 DEF CommandMissed, LeftBy, Unseen, Inv, TypeOK, Home
<1>6. CASE UNCHANGED vars
  BY <1>6 DEF vars, Home
<1> QED
  BY <1>1, <1>2, <1>3, <1>4, <1>5, <1>6 DEF Next

(* The services never lose /home under them, in whatever order jobs,       *)
(* failures and reboots come, unless the job's own command to stop them    *)
(* failed unseen.                                                          *)
THEOREM HomeGoesQuietlyHolds == Spec => HomeGoesQuietly
<1>1. Inv /\ [Next]_vars => [(Home # {} /\ Home' = {}) => Quiet]_vars
  BY HomeStays
<1> QED
  BY <1>1, Invariance, PTL DEF Spec, HomeGoesQuietly, Quiet
=============================================================================
