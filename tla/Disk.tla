-------------------------------- MODULE Disk --------------------------------
(***************************************************************************)
(* pkg/managers/disk.go: LVM and file systems.  Plan looks at the host     *)
(* once, gives entries that name a tag instead of a device the raw disks   *)
(* of that moment, and lists the commands to run; Apply runs them in order *)
(* and stops at the first that fails; Rollback runs the undo commands of   *)
(* those that worked, backwards, and stops at the first that fails.        *)
(*                                                                         *)
(* A disk is absent, raw, a physical volume ("pv"), or holds somebody's    *)
(* data.  Disks are numbered in the order of their names.  A probe of the  *)
(* discovery may fail, which Plan does not notice; a command may fail.     *)
(***************************************************************************)
EXTENDS Naturals, Sequences, FiniteSets, SequencesExt

CONSTANTS
  D,           \* number of whole disks
  VG, LV, FS,  \* volume groups, logical volumes (group/name), file system types
  NoFS, NoVG, Tagged,
  Layouts,     \* disk_layout sections: sequences of [dev, vg, lvs]; dev = Tagged for tag:
  WantFS,      \* WantFS[l]: the file system type the manifest gives volume l
  MaxRuns,     \* bound: processes
  MaxFaults    \* bound: probes and commands that fail for an outside reason

Dev == 1 .. D

ASSUME DiskAssumption ==
  /\ D \in Nat
  /\ NoFS \notin FS /\ NoVG \notin VG /\ Tagged \notin Dev
  /\ Layouts \subseteq Seq([dev : Dev \union {Tagged}, vg : VG, lvs : Seq(LV)])
  /\ \A y \in Layouts : \A i, j \in DOMAIN y :
       y[i].vg # y[j].vg => ToSet(y[i].lvs) \intersect ToSet(y[j].lvs) = {}
  /\ WantFS \in [LV -> FS]
  /\ MaxRuns \in Nat /\ MaxFaults \in Nat

VARIABLES
  layout,    \* the manifest's disk_layout
  reformat,  \* --reformat-filesystems
  disk,      \* disk[d]: "absent", "raw", "data" or "pv"
  group,     \* group[d]: the volume group a physical volume belongs to
  vgs, lvs,  \* the existing volume groups and logical volumes
  fs,        \* fs[l]: the type of the file system on l
  fstab,     \* the volumes with a line in /etc/fstab
  mounted,   \* the volumes mounted at their mount points
  pc,        \* "idle", "planned", "applying", "undoing"
  plan,      \* the changes Plan returned
  next,      \* the index of the next change Apply runs
  applied,   \* ApplyResult.Applied
  verb, ret, \* what the process did last, and what it returned
  runs, faults,
  born       \* history: the host and the number of faults when the process started

lvm     == <<disk, group, vgs, lvs>>
host    == <<lvm, fs, fstab, mounted>>
input   == <<layout, reformat>>
process == <<pc, plan, next, applied, verb, ret>>
vars    == <<input, host, process, runs, faults, born>>

Fault == faults < MaxFaults /\ faults' = faults + 1

HostNow == [disk |-> disk, group |-> group, vgs |-> vgs, lvs |-> lvs, fs |-> fs,
            fstab |-> fstab, mounted |-> mounted]

----------------------------------------------------------------------------
(* discover: what Plan sees.  A probe that fails reads as "there is none". *)

\* Whole disks without partitions, file system or LVM signature.
RawDisks == {d \in Dev : disk[d] = "raw"}

Seen == [pvs |-> {d \in Dev : disk[d] = "pv"}, vgs |-> vgs, lvs |-> lvs, fs |-> fs,
         fstab |-> fstab, mounted |-> mounted, raw |-> RawDisks,
         present |-> {d \in Dev : disk[d] # "absent"}]

Blank(l) == [fs EXCEPT ![l] = NoFS]

\* pvs, vgs, lvs, findmnt, reading fstab, lsblk, the test for a device, blkid.
SeenAmiss ==
  {[Seen EXCEPT !.pvs = {}], [Seen EXCEPT !.vgs = {}],
   [Seen EXCEPT !.lvs = {}, !.fs = [l \in LV |-> NoFS]],
   [Seen EXCEPT !.mounted = {}], [Seen EXCEPT !.fstab = {}], [Seen EXCEPT !.raw = {}],
   [Seen EXCEPT !.present = {}]}
  \union {[Seen EXCEPT !.fs = Blank(l)] : l \in lvs}

----------------------------------------------------------------------------
(* PlanLayout and planDisk. *)

Smallest(S, k) == CHOOSE d \in S : Cardinality({e \in S : e <= d}) = k

TaggedUpTo(i) == Cardinality({j \in 1 .. i : layout[j].dev = Tagged})

\* The device a tag gets: raw disks are given out in order of name and of
\* entry; 0 when the pool is empty.
FromPool(see, i) ==
  IF TaggedUpTo(i) > Cardinality(see.raw) THEN 0 ELSE Smallest(see.raw, TaggedUpTo(i))

DeviceOf(see, i) == IF layout[i].dev = Tagged THEN FromPool(see, i) ELSE layout[i].dev

Only(condition, change) == IF condition THEN <<change>> ELSE <<>>

\* Mutant: an existing file system of another type is made anew unasked.
NeverRefuses(see, l) == FALSE

\* An existing file system of another type is not made anew unasked.
Refused(see, l) == see.fs[l] \notin {NoFS, WantFS[l]} /\ ~reformat

\* Mutant: a file system is planned only together with its volume.
MkfsOnlyWhenNew(see, l) ==
  Only(l \notin see.lvs, [op |-> "lvcreate", on |-> l])
  \o Only(l \notin see.lvs /\ see.fs[l] # WantFS[l], [op |-> "mkfs", on |-> l])
  \o Only(l \notin see.fstab, [op |-> "fstab", on |-> l])
  \o Only(l \notin see.mounted, [op |-> "mount", on |-> l])

PlanVolume(see, l) ==
  Only(l \notin see.lvs, [op |-> "lvcreate", on |-> l])
  \o Only(see.fs[l] # WantFS[l], [op |-> "mkfs", on |-> l])
  \o Only(l \notin see.fstab, [op |-> "fstab", on |-> l])
  \o Only(l \notin see.mounted, [op |-> "mount", on |-> l])

PlanEntry(see, i) ==
  LET d == DeviceOf(see, i)
      e == layout[i]
  IN  IF d \notin see.present THEN <<[op |-> "error", on |-> d]>>
      ELSE Only(d \notin see.pvs, [op |-> "pvcreate", on |-> d])
           \o Only(e.vg \notin see.vgs, [op |-> "vgcreate", on |-> <<e.vg, d>>])
           \o FlattenSeq([k \in DOMAIN e.lvs |-> PlanVolume(see, e.lvs[k])])

\* No raw disk for a tag, or a file system that may not be touched.
PlanErrs(see) ==
  \E i \in DOMAIN layout :
    \/ DeviceOf(see, i) = 0
    \/ DeviceOf(see, i) \in see.present /\ \E k \in DOMAIN layout[i].lvs : Refused(see, layout[i].lvs[k])

Changes(see) == FlattenSeq([i \in DOMAIN layout |-> PlanEntry(see, i)])

Plan ==
  /\ pc = "idle" /\ verb = "none"
  /\ \E see \in {Seen} \union SeenAmiss :
       /\ IF see = Seen THEN UNCHANGED faults ELSE Fault
       /\ IF PlanErrs(see)
            THEN ret' = "error" /\ pc' = "idle" /\ verb' = "plan" /\ UNCHANGED plan
            ELSE ret' = "ok" /\ pc' = "planned" /\ verb' = "plan" /\ plan' = Changes(see)
  /\ UNCHANGED <<input, host, next, applied, runs, born>>

----------------------------------------------------------------------------
(* Apply: the commands of diskChangeCmd, on LVM as it is. *)

BeginApply ==
  /\ pc = "planned"
  /\ pc' = "applying" /\ verb' = "apply" /\ next' = 1
  /\ UNCHANGED <<input, host, plan, applied, ret, runs, faults, born>>

Home(l) == {layout[i].vg : i \in {j \in DOMAIN layout : l \in ToSet(layout[j].lvs)}}

\* pvcreate -f takes any disk that is not in a group, vgcreate a physical
\* volume without a group, lvcreate a new name in a group, mkfs a volume that
\* is not mounted, mount a volume with a file system and an fstab line.
Works(c) ==
  CASE c.op = "pvcreate" -> disk[c.on] # "absent" /\ group[c.on] = NoVG
    [] c.op = "vgcreate" -> c.on[1] \notin vgs /\ disk[c.on[2]] = "pv" /\ group[c.on[2]] = NoVG
    [] c.op = "lvcreate" -> c.on \notin lvs /\ Home(c.on) \subseteq vgs
    [] c.op = "mkfs"     -> c.on \in lvs \ mounted
    [] c.op = "fstab"    -> TRUE
    [] c.op = "mount"    -> c.on \in (lvs \intersect fstab) \ mounted /\ fs[c.on] = WantFS[c.on]
    [] OTHER -> FALSE

Does(c) ==
  /\ disk' = IF c.op = "pvcreate" THEN [disk EXCEPT ![c.on] = "pv"] ELSE disk
  /\ group' = IF c.op = "vgcreate" THEN [group EXCEPT ![c.on[2]] = c.on[1]] ELSE group
  /\ vgs' = IF c.op = "vgcreate" THEN vgs \union {c.on[1]} ELSE vgs
  /\ lvs' = IF c.op = "lvcreate" THEN lvs \union {c.on} ELSE lvs
  /\ fs' = IF c.op = "mkfs" THEN [fs EXCEPT ![c.on] = WantFS[c.on]] ELSE fs
  /\ fstab' = IF c.op = "fstab" THEN fstab \union {c.on} ELSE fstab
  /\ mounted' = IF c.op = "mount" THEN mounted \union {c.on} ELSE mounted

ApplyChange ==
  /\ pc = "applying" /\ next <= Len(plan)
  /\ Works(plan[next])
  /\ Does(plan[next])
  /\ applied' = Append(applied, plan[next])
  /\ next' = next + 1
  /\ UNCHANGED <<input, pc, plan, verb, ret, runs, faults, born>>

\* Mutant: the failed change is recorded with the applied ones.
RecordsFailed ==
  /\ pc = "applying" /\ next <= Len(plan)
  /\ \/ ~Works(plan[next]) /\ UNCHANGED <<host, faults>>
     \/ Works(plan[next]) /\ Fault /\ (UNCHANGED host \/ Does(plan[next]))
  /\ applied' = Append(applied, plan[next])
  /\ pc' = "idle" /\ ret' = "error"
  /\ UNCHANGED <<input, plan, next, verb, runs, born>>

\* A command that fails may have done its work, or may not.
ApplyStops ==
  /\ pc = "applying" /\ next <= Len(plan)
  /\ \/ ~Works(plan[next]) /\ UNCHANGED <<host, faults>>
     \/ Works(plan[next]) /\ Fault /\ (UNCHANGED host \/ Does(plan[next]))
  /\ pc' = "idle" /\ ret' = "error"
  /\ UNCHANGED <<input, plan, next, applied, verb, runs, born>>

ApplyReturns ==
  /\ pc = "applying" /\ next > Len(plan)
  /\ pc' = "idle" /\ ret' = "ok"
  /\ UNCHANGED <<input, host, plan, next, applied, verb, runs, faults, born>>

----------------------------------------------------------------------------
(* Rollback of what this process applied; next counts down. *)

\* Mutant: the last applied change is left out.
BeginRollbackTooLow ==
  /\ pc = "idle" /\ verb = "apply"
  /\ pc' = "undoing" /\ verb' = "rollback" /\ ret' = "ok"
  /\ next' = IF applied = <<>> THEN 0 ELSE Len(applied) - 1
  /\ UNCHANGED <<input, host, plan, applied, runs, faults, born>>

BeginRollback ==
  /\ pc = "idle" /\ verb = "apply"
  /\ pc' = "undoing" /\ verb' = "rollback" /\ ret' = "ok"
  /\ next' = Len(applied)
  /\ UNCHANGED <<input, host, plan, applied, runs, faults, born>>

UndoWorks(c) ==
  CASE c.op = "pvcreate" -> disk[c.on] = "pv"
    [] c.op = "vgcreate" -> c.on[1] \in vgs /\ \A l \in mounted : c.on[1] \notin Home(l)
    [] c.op = "lvcreate" -> c.on \in lvs \ mounted
    [] c.op = "mount"    -> c.on \in mounted
    [] OTHER -> TRUE

\* vgremove -ff takes the group's volumes with it, pvremove -ff a group's disk.
Undoes(c) ==
  /\ disk' = IF c.op = "pvcreate" THEN [disk EXCEPT ![c.on] = "raw"] ELSE disk
  /\ group' = IF c.op = "vgcreate" THEN [d \in Dev |-> IF group[d] = c.on[1] THEN NoVG ELSE group[d]]
              ELSE IF c.op = "pvcreate" THEN [group EXCEPT ![c.on] = NoVG]
              ELSE group
  /\ vgs' = IF c.op = "vgcreate" THEN vgs \ {c.on[1]} ELSE vgs
  /\ lvs' = IF c.op = "lvcreate" THEN lvs \ {c.on}
            ELSE IF c.op = "vgcreate" THEN {l \in lvs : c.on[1] \notin Home(l)}
            ELSE lvs
  /\ fs' = [l \in LV |-> IF l \in lvs' THEN fs[l] ELSE NoFS]
  /\ fstab' = IF c.op = "fstab" THEN fstab \ {c.on} ELSE fstab
  /\ mounted' = IF c.op = "mount" THEN mounted \ {c.on} ELSE mounted

\* A new file system has no undo command.
UndoChange ==
  /\ pc = "undoing" /\ next > 0
  /\ UndoWorks(applied[next]) /\ Undoes(applied[next])
  /\ next' = next - 1
  /\ UNCHANGED <<input, pc, plan, applied, verb, ret, runs, faults, born>>

UndoStops ==
  /\ pc = "undoing" /\ next > 0
  /\ \/ ~UndoWorks(applied[next]) /\ UNCHANGED <<host, faults>>
     \/ /\ UndoWorks(applied[next]) /\ applied[next].op # "mkfs" /\ Fault
        /\ UNCHANGED host \/ Undoes(applied[next])
  /\ pc' = "idle" /\ ret' = "error"
  /\ UNCHANGED <<input, plan, next, applied, verb, runs, born>>

RollbackReturns ==
  /\ pc = "undoing" /\ next = 0
  /\ pc' = "idle"
  /\ UNCHANGED <<input, host, plan, next, applied, verb, ret, runs, faults, born>>

----------------------------------------------------------------------------

NothingYet ==
  /\ disk \in [Dev -> {"absent", "raw", "data"}]
  /\ group = [d \in Dev |-> NoVG] /\ vgs = {} /\ lvs = {}
  /\ fs = [l \in LV |-> NoFS]

\* A volume of the first entry as an earlier hand left it, with any file system.
VolumeFound(d, l, type) ==
  /\ layout # <<>> /\ layout[1].dev \in {d, Tagged} /\ l \in ToSet(layout[1].lvs)
  /\ disk \in {f \in [Dev -> {"raw", "data", "pv"}] : \A x \in Dev : f[x] = "pv" <=> x = d}
  /\ group = [x \in Dev |-> IF x = d THEN layout[1].vg ELSE NoVG]
  /\ vgs = {layout[1].vg} /\ lvs = {l}
  /\ fs = [x \in LV |-> IF x = l THEN type ELSE NoFS]

Init ==
  /\ layout \in Layouts /\ reformat \in BOOLEAN
  /\ \/ NothingYet
     \/ \E d \in Dev, l \in LV, type \in FS \union {NoFS} : VolumeFound(d, l, type)
  /\ fstab = {} /\ mounted = {}
  /\ pc = "idle" /\ plan = <<>> /\ next = 0 /\ applied = <<>> /\ verb = "none" /\ ret = "ok"
  /\ runs = 1 /\ faults = 0
  /\ born = [host |-> HostNow, faults |-> 0]

\* The process ends or is killed, and another one starts.
Restart ==
  /\ verb # "none" /\ runs < MaxRuns
  /\ runs' = runs + 1
  /\ pc' = "idle" /\ plan' = <<>> /\ next' = 0 /\ applied' = <<>> /\ verb' = "none" /\ ret' = "ok"
  /\ reformat' \in BOOLEAN
  /\ born' = [host |-> HostNow, faults |-> faults]
  /\ UNCHANGED <<layout, host, faults>>

Next ==
  \/ Plan \/ BeginApply \/ ApplyChange \/ ApplyStops \/ ApplyReturns
  \/ BeginRollback \/ UndoChange \/ UndoStops \/ RollbackReturns
  \/ Restart

Spec == Init /\ [][Next]_vars

----------------------------------------------------------------------------
(* Properties. *)

Change == [op : {"pvcreate", "error"}, on : Dev]
          \union [op : {"vgcreate"}, on : VG \X Dev]
          \union [op : {"lvcreate", "mkfs", "fstab", "mount"}, on : LV]

\* The variables keep their shapes, and LVM its own: only physical volumes are
\* in groups, and only volumes are mounted.
TypeOK ==
  /\ layout \in Layouts /\ reformat \in BOOLEAN
  /\ disk \in [Dev -> {"absent", "raw", "data", "pv"}]
  /\ group \in [Dev -> VG \union {NoVG}]
  /\ vgs \subseteq VG /\ lvs \subseteq LV /\ fs \in [LV -> FS \union {NoFS}]
  /\ fstab \subseteq LV /\ mounted \subseteq lvs
  /\ pc \in {"idle", "planned", "applying", "undoing"}
  /\ plan \in Seq(Change) /\ applied \in Seq(Change)
  /\ next \in Nat /\ ret \in {"ok", "error"} /\ runs \in Nat /\ faults \in Nat
  /\ \A d \in Dev : group[d] # NoVG => disk[d] = "pv"

Named == {layout[i].dev : i \in DOMAIN layout} \ {Tagged}
Undisturbed == faults = born.faults

\* A process that saw the host as it is destroys nobody's data: a disk with
\* data is taken only when the manifest names it, and a file system is made
\* over another one only when the operator asked for it.
DataKept ==
  Undisturbed =>
    /\ \A d \in Dev \ Named : born.host.disk[d] = "data" => disk[d] = "data"
    /\ \A l \in LV : born.host.fs[l] # NoFS /\ ~reformat => fs[l] = born.host.fs[l]

\* Whatever fails, and whenever Rollback gives up, what LVM had when the
\* process started is still there ("LVs that existed before the run are never
\* touched"): no undo command belongs to a volume found by the process.  A line
\* of fstab is safe only if Plan could read the file: else the append, which
\* did nothing, is undone like any other.
FoundIsKept ==
  /\ born.host.lvs \subseteq lvs
  /\ born.host.vgs \subseteq vgs
  /\ born.host.mounted \subseteq mounted
  /\ Undisturbed => born.host.fstab \subseteq fstab
  /\ \A d \in Dev : born.host.group[d] # NoVG => group[d] = born.host.group[d]

\* The plan claims no device twice.  (A disk that one entry names and a tag of an
\* earlier one was resolved to is claimed by both.)
ClaimsAreDistinct ==
  \A i, j \in DOMAIN plan :
    plan[i].op = "pvcreate" /\ plan[i] = plan[j] => i = j

\* A Rollback during which and before which nothing failed for an outside
\* reason succeeds and takes back every physical volume, group, volume,
\* fstab line and mount, also when Apply had stopped half way, unless the plan
\* had claimed one device twice.
RollbackRestores ==
  pc = "idle" /\ verb = "rollback" /\ Undisturbed /\ ClaimsAreDistinct =>
    /\ ret = "ok"
    /\ group = born.host.group /\ vgs = born.host.vgs /\ lvs = born.host.lvs
    /\ fstab = born.host.fstab /\ mounted = born.host.mounted
    /\ \A d \in Dev : disk[d] = "pv" <=> born.host.disk[d] = "pv"

Volumes == UNION {ToSet(layout[i].lvs) : i \in DOMAIN layout}

\* The manifest names a present disk of its own for every entry and group, and
\* every volume once, and asks for no other file system than there is.
Feasible ==
  /\ \A i \in DOMAIN layout :
       /\ layout[i].dev # Tagged /\ disk[layout[i].dev] # "absent"
       /\ IsInjective(layout[i].lvs)
       /\ \A j \in DOMAIN layout :
            layout[j].dev = layout[i].dev \/ layout[j].vg = layout[i].vg => i = j
  /\ \A l \in Volumes : born.host.fs[l] \in {NoFS, WantFS[l]}

\* An Apply in which nothing fails for an outside reason brings a feasible
\* layout about, wherever an earlier process was stopped.
RetryConverges ==
  pc = "idle" /\ verb = "apply" /\ Undisturbed /\ Feasible =>
    /\ ret = "ok"
    /\ Volumes \subseteq lvs \intersect mounted \intersect fstab
    /\ \A l \in Volumes : fs[l] = WantFS[l]
=============================================================================
