------------------------------- MODULE Mounts -------------------------------
(***************************************************************************)
(* The dir manager (dir.go) and the mount manager (mount.go) on one tree   *)
(* of directories, called in that order by the orchestrator: both plan,    *)
(* then both apply; Rollback goes the other way.                           *)
(*                                                                         *)
(* The mount table is a sequence, the newest mount last: a mount covers    *)
(* what lay at its point and below it until it is taken off again.  A      *)
(* place is a directory within a file system; what a path means depends on *)
(* the mounts that cover it.                                               *)
(***************************************************************************)
EXTENDS Naturals, Sequences, SequencesExt, TLC

CONSTANTS
  Points,    \* the paths at hand
  Above,     \* the paths above a path
  Sources,   \* what can be mounted
  Type,      \* "nfs", "cifs", "bind" or "tmpfs"
  Vaulted,   \* the shares whose manifest names credentials in the vault
  Foreign,   \* sources that only others mount
  Root,      \* the file system of the host, and the top of any file system
  Plain,     \* the owner of a directory nobody has given one
  Owners,
  Unset,     \* no owner declared
  Manifests, \* what may be declared: [dirs, mounts]
  Hosts,     \* what the host may be like at first
  MaxRuns,   \* bound: processes
  MaxVerbs,  \* bound: Apply and Rollback calls per process
  MaxFaults, \* bound: commands that fail
  MaxEdits   \* bound: mounts that others make or remove

ASSUME MountsAssumption ==
  /\ Above \in [Points -> SUBSET Points] /\ \A p \in Points : p \notin Above[p]
  /\ Type \in [Sources -> {"nfs", "cifs", "bind", "tmpfs"}]
  /\ Vaulted \subseteq Sources /\ Foreign \subseteq Sources
  /\ MaxRuns \in Nat /\ MaxVerbs \in Nat /\ MaxFaults \in Nat /\ MaxEdits \in Nat

VARIABLES
  host,     \* [table, owner, creds, fstab]
  desired,  \* the manifest
  pc,       \* "idle", "plan", "apply", "undo"
  todo,     \* the changes still to apply, or those still to undo
  applied,  \* the changes recorded for Rollback, per manager
  verb, ret, verbs,
  runs, faults, edits,
  since,    \* history: faults and edits when the verb began
  born,     \* history: the host, faults and edits when the process started
  undone    \* history: the Rollback calls of the process

process == <<desired, pc, todo, applied, verb, ret, verbs>>
counts  == <<runs, faults, edits>>
vars    == <<host, process, counts, since, born, undone>>

----------------------------------------------------------------------------
(* The tree. *)

\* The mounts that decide what a path means: those at it and above it.
Over(t, p) == {i \in DOMAIN t : t[i].point \in Above[p] \union {p}}
At(t, p)   == {i \in DOMAIN t : t[i].point = p}
Newest(S)   == CHOOSE i \in S : \A j \in S : j <= i

\* The place a path leads to.
Place(t, p) ==
  IF Over(t, p) = {} THEN <<Root, p>>
  ELSE LET m == t[Newest(Over(t, p))]
       IN  <<m.fs, IF m.point = p THEN Root ELSE p>>

Exists(h, p) == Place(h.table, p) \in DOMAIN h.owner

\* mkdir -p
MkdirP(h, p) ==
  [h EXCEPT !.owner = @ @@ [o \in {Place(h.table, q) : q \in Above[p] \union {p}} |-> Plain]]

Chown(h, p, o) == [h EXCEPT !.owner[Place(h.table, p)] = o]

\* A tmpfs is a new file system each time.
Instance(t, s) ==
  IF Type[s] # "tmpfs" THEN s
  ELSE <<s, CHOOSE n \in 1 .. Len(t) + 1 : \A i \in DOMAIN t : t[i].fs # <<s, n>>>>

DoMount(h, p, s) ==
  LET fs == Instance(h.table, s)
  IN  [h EXCEPT !.table = Append(@, [point |-> p, source |-> s, fs |-> fs]),
                !.owner = @ @@ (<<fs, Root>> :> Plain)]

\* umount finds the mount a path leads to, unless another one is on top of it.
CanUmount(h, p) ==
  /\ At(h.table, p) # {}
  /\ \A j \in DOMAIN h.table :
       j > Newest(At(h.table, p)) =>
         h.table[j].point \notin Above[p] /\ p \notin Above[h.table[j].point]

DoUmount(h, p) ==
  LET i  == Newest(At(h.table, p))
      fs == h.table[i].fs
      gone == {o \in DOMAIN h.owner : Type[h.table[i].source] = "tmpfs" /\ o[1] = fs}
  IN  [h EXCEPT !.table = RemoveAt(@, i),
                !.owner = [o \in DOMAIN @ \ gone |-> @[o]]]

\* rmdir takes an empty directory that nothing is mounted on.
CanRmdir(h, p) ==
  LET o == Place(h.table, p)
  IN  /\ o \in DOMAIN h.owner /\ o[2] = p
      /\ \A q \in Points : p \in Above[q] => <<o[1], q>> \notin DOMAIN h.owner

DoRmdir(h, p) ==
  [h EXCEPT !.owner = [o \in DOMAIN @ \ {Place(h.table, p)} |-> @[o]]]

----------------------------------------------------------------------------
(* Plan. *)

\* Plan of one directory; missed: FileExists answered "no" to an error.
dirDrift(d, cur) == d.owner # Unset /\ d.owner # cur

DirChange(h, d, missed) ==
  IF missed \/ ~Exists(h, d.point)
    THEN <<[mgr |-> "dir", op |-> "create", point |-> d.point, owner |-> d.owner]>>
  ELSE IF dirDrift(d, h.owner[Place(h.table, d.point)])
    THEN <<[mgr |-> "dir", op |-> "update", point |-> d.point, owner |-> d.owner]>>
  ELSE <<>>

DirChanges(h, missed) ==
  FlattenSeq([i \in DOMAIN desired.dirs |-> DirChange(h, desired.dirs[i], i \in missed)])

\* What findmnt calls the source of the newest mount at a point.  Of a bind mount
\* it names the device and the directory within it, never the declared path.
Shows(t, p, s) ==
  At(t, p) # {} /\ t[Newest(At(t, p))].source = s /\ Type[s] # "bind"

\* A tmpfs counts as mounted when anything is.
IsMounted(t, m) ==
  IF Type[m.source] = "tmpfs" THEN At(t, m.point) # {} ELSE Shows(t, m.point, m.source)

\* The text of fstab is searched for the source and the beginning of a path.
InFstab(fstab, m) ==
  \E l \in fstab : l.source = m.source /\ m.point \in Above[l.point] \union {l.point}

\* Mutant: a mount is planned whatever findmnt says.
AlwaysMount(t, fstab, m) ==
  LET change(op) == [mgr |-> "mount", op |-> op, point |-> m.point, source |-> m.source]
      when(c, op) == IF c THEN <<change(op)>> ELSE <<>>
  IN  when(Type[m.source] = "cifs", "creds") \o when(TRUE, "mount")
      \o when(m.persistent /\ ~InFstab(fstab, m), "fstab")

\* Credentials are written anew by every Apply.
planMount(t, fstab, m) ==
  LET change(op) == [mgr |-> "mount", op |-> op, point |-> m.point, source |-> m.source]
      when(c, op) == IF c THEN <<change(op)>> ELSE <<>>
  IN  when(Type[m.source] = "cifs", "creds") \o when(~IsMounted(t, m), "mount")
      \o when(m.persistent /\ ~InFstab(fstab, m), "fstab")

MountChanges(t, fstab) ==
  FlattenSeq([i \in DOMAIN desired.mounts |-> planMount(t, fstab, desired.mounts[i])])

----------------------------------------------------------------------------
(* What the commands of one change do. *)

Credentials(h, s, c) == [h EXCEPT !.creds[s] = c]

\* mount -t cifs reads the credentials file.
Mountable(h, s) == Type[s] = "cifs" => h.creds[s] = "good"

\* The hosts that the commands of a change lead to, one after the other, up to
\* the one that cannot be carried out.  The command that adds a line to fstab
\* never can: its quotes end before the line begins, so grep waits for the line
\* on an empty input, fails, and is not followed by the echo.
Stages(h, c) ==
  CASE c.op = "create" ->
         <<h, MkdirP(h, c.point)>>
         \o IF c.owner = Unset THEN <<>> ELSE <<Chown(MkdirP(h, c.point), c.point, c.owner)>>
    [] c.op = "update" ->
         <<h>> \o IF Exists(h, c.point) THEN <<Chown(h, c.point, c.owner)>> ELSE <<>>
    [] c.op = "creds" ->
         <<h>> \o IF c.source \in Vaulted
                    THEN <<Credentials(h, c.source, "torn"), Credentials(h, c.source, "good")>>
                    ELSE <<>>
    [] c.op = "mount" ->
         <<h, MkdirP(h, c.point)>>
         \o IF Mountable(h, c.source) THEN <<DoMount(MkdirP(h, c.point), c.point, c.source)>> ELSE <<>>
    [] c.op = "fstab" -> <<h>>

Works(h, c) ==
  CASE c.op = "create" -> TRUE
    [] c.op = "update" -> Exists(h, c.point)
    [] c.op = "creds"  -> c.source \in Vaulted
    [] c.op = "mount"  -> Mountable(h, c.source)
    [] c.op = "fstab"  -> FALSE

----------------------------------------------------------------------------

Begin ==
  /\ pc' = "idle" /\ todo' = <<>> /\ applied' = [dir |-> <<>>, mount |-> <<>>]
  /\ verb' = "none" /\ ret' = "ok" /\ verbs' = 0
  /\ since' = [faults |-> faults', edits |-> edits']
  /\ born' = [host |-> host', faults |-> faults', edits |-> edits'] /\ undone' = 0

Init ==
  /\ host \in Hosts
  /\ desired \in Manifests
  /\ pc = "idle" /\ todo = <<>> /\ applied = [dir |-> <<>>, mount |-> <<>>]
  /\ verb = "none" /\ ret = "ok" /\ verbs = 0
  /\ runs = 1 /\ faults = 0 /\ edits = 0
  /\ since = [faults |-> 0, edits |-> 0]
  /\ born = [host |-> host, faults |-> 0, edits |-> 0] /\ undone = 0

\* The process ends, or is killed between two commands, and another one starts
\* with the same manifest.
Restart ==
  /\ runs < MaxRuns /\ runs' = runs + 1
  /\ host' \in IF pc = "apply" /\ todo # <<>> THEN Range(Stages(host, Head(todo))) ELSE {host}
  /\ UNCHANGED <<desired, faults, edits>>
  /\ Begin

Fault   == faults < MaxFaults /\ faults' = faults + 1
NoFault == UNCHANGED faults

Call(v) ==
  /\ pc = "idle" /\ verbs < MaxVerbs
  /\ verbs' = verbs + 1 /\ verb' = v
  /\ since' = [faults |-> faults, edits |-> edits]

PlanDirs ==
  /\ Call("apply") /\ pc' = "plan" /\ ret' = "ok"
  /\ \/ NoFault /\ todo' = DirChanges(host, {})
     \/ Fault /\ \E i \in DOMAIN desired.dirs : todo' = DirChanges(host, {i})
  /\ UNCHANGED <<host, desired, applied, runs, edits, born, undone>>

\* stat fails: Plan returns an error, and nothing is applied.
PlanFails ==
  /\ Call("apply") /\ Fault
  /\ \E i \in DOMAIN desired.dirs : Exists(host, desired.dirs[i].point)
  /\ ret' = "error" /\ UNCHANGED <<pc, todo>>
  /\ UNCHANGED <<host, desired, applied, runs, edits, born, undone>>

\* findmnt or the read of fstab may fail; either counts as "nothing there".
PlanMounts ==
  /\ pc = "plan" /\ pc' = "apply"
  /\ \/ NoFault /\ todo' = todo \o MountChanges(host.table, host.fstab)
     \/ Fault /\ \/ todo' = todo \o MountChanges(<<>>, host.fstab)
                 \/ todo' = todo \o MountChanges(host.table, {})
  /\ UNCHANGED <<host, desired, applied, verb, ret, verbs, runs, edits, since, born, undone>>

----------------------------------------------------------------------------
(* Apply. *)

StepRest == UNCHANGED <<desired, verb, verbs, runs, edits, since, born, undone>>

Record(c) == applied' = [applied EXCEPT ![c.mgr] = Append(@, c)]

ApplyChange ==
  /\ pc = "apply" /\ todo # <<>> /\ Works(host, Head(todo)) /\ NoFault
  /\ host' = Last(Stages(host, Head(todo)))
  /\ Record(Head(todo)) /\ todo' = Tail(todo)
  /\ UNCHANGED <<pc, ret>> /\ StepRest

\* The commands of the change do not all succeed, for a reason of the host's or
\* because the last one that was started fails.
Breaks(c) ==
  \/ ~Works(host, c) /\ NoFault /\ host' = Last(Stages(host, c))
  \/ Fault /\ host' \in Range(Stages(host, c))

\* The dir manager notes the failure and goes on.
DirFails ==
  /\ pc = "apply" /\ todo # <<>> /\ Head(todo).mgr = "dir"
  /\ Breaks(Head(todo))
  /\ todo' = Tail(todo) /\ ret' = "failed"
  /\ UNCHANGED <<pc, applied>> /\ StepRest

\* Mutant: the change that failed is recorded as well.
MountFailsRecorded ==
  /\ pc = "apply" /\ todo # <<>> /\ Head(todo).mgr = "mount"
  /\ Breaks(Head(todo))
  /\ pc' = "idle" /\ todo' = <<>> /\ ret' = "error" /\ Record(Head(todo))
  /\ StepRest

\* The mount manager stops and returns the error.
MountFails ==
  /\ pc = "apply" /\ todo # <<>> /\ Head(todo).mgr = "mount"
  /\ Breaks(Head(todo))
  /\ pc' = "idle" /\ todo' = <<>> /\ ret' = "error"
  /\ UNCHANGED applied /\ StepRest

ApplyReturns ==
  /\ pc = "apply" /\ todo = <<>>
  /\ pc' = "idle" /\ NoFault
  /\ UNCHANGED <<host, todo, applied, ret>> /\ StepRest

----------------------------------------------------------------------------
(* Rollback: the mount manager first, each from its newest change. *)

\* Mutant: from the oldest change to the newest.
BeginForward ==
  /\ Call("rollback") /\ pc' = "undo" /\ ret' = "ok"
  /\ todo' = applied.mount \o applied.dir /\ undone' = undone + 1
  /\ UNCHANGED <<host, desired, applied, counts, born>>

BeginRollback ==
  /\ Call("rollback") /\ pc' = "undo" /\ ret' = "ok"
  /\ todo' = Reverse(applied.dir \o applied.mount) /\ undone' = undone + 1
  /\ UNCHANGED <<host, desired, applied, counts, born>>

CanUndo(h, c) ==
  CASE c.op = "mount"  -> CanUmount(h, c.point)
    [] c.op = "create" -> CanRmdir(h, c.point)
    [] OTHER           -> TRUE

\* rm -f for credentials, sed for a line of fstab (and for those it begins like);
\* a change of owner is not undone.
Undone(h, c) ==
  CASE c.op = "mount"  -> DoUmount(h, c.point)
    [] c.op = "creds"  -> Credentials(h, c.source, "none")
    [] c.op = "create" -> DoRmdir(h, c.point)
    [] c.op = "fstab"  -> [h EXCEPT !.fstab = {l \in @ : ~InFstab({l}, c)}]
    [] c.op = "update" -> h

Undo ==
  /\ pc = "undo" /\ todo # <<>> /\ CanUndo(host, Head(todo)) /\ NoFault
  /\ host' = Undone(host, Head(todo)) /\ todo' = Tail(todo)
  /\ UNCHANGED <<pc, ret, applied>> /\ StepRest

CannotUndo(c) ==
  \/ ~CanUndo(host, c) /\ NoFault /\ UNCHANGED host
  \/ Fault /\ \/ UNCHANGED host
              \/ CanUndo(host, c) /\ host' = Undone(host, c)

\* The error of a rmdir is swallowed.
UndoDirFails ==
  /\ pc = "undo" /\ todo # <<>> /\ Head(todo).op = "create"
  /\ CannotUndo(Head(todo)) /\ todo' = Tail(todo)
  /\ UNCHANGED <<pc, ret, applied>> /\ StepRest

\* The mount manager gives up; the orchestrator goes on with the dir manager.
UndoMountFails ==
  /\ pc = "undo" /\ todo # <<>> /\ Head(todo).mgr = "mount"
  /\ CannotUndo(Head(todo))
  /\ todo' = SelectSeq(todo, LAMBDA c : c.mgr = "dir") /\ ret' = "error"
  /\ UNCHANGED <<pc, applied>> /\ StepRest

RollbackReturns ==
  /\ pc = "undo" /\ todo = <<>>
  /\ pc' = "idle" /\ NoFault
  /\ UNCHANGED <<host, todo, applied, ret>> /\ StepRest

----------------------------------------------------------------------------
(* Others. *)

Edit ==
  /\ edits < MaxEdits /\ edits' = edits + 1
  /\ UNCHANGED <<process, runs, faults, since, born, undone>>

SomebodyMounts(p, s) == Exists(host, p) /\ host' = DoMount(host, p, s) /\ Edit

SomebodyUnmounts(p) == CanUmount(host, p) /\ host' = DoUmount(host, p) /\ Edit

Next ==
  \/ PlanDirs \/ PlanFails \/ PlanMounts
  \/ ApplyChange \/ DirFails \/ MountFails \/ ApplyReturns
  \/ BeginRollback \/ Undo \/ UndoDirFails \/ UndoMountFails \/ RollbackReturns
  \/ Restart
  \/ \E p \in Points : SomebodyUnmounts(p) \/ \E s \in Foreign : SomebodyMounts(p, s)

Spec == Init /\ [][Next]_vars

----------------------------------------------------------------------------
(* Properties. *)

Returned(v) == pc = "idle" /\ verb = v

\* The variables keep their shapes: each mount has a point and a file system with
\* a top, and what is left to undo is what was recorded.
TypeOK ==
  /\ \A i \in DOMAIN host.table :
       /\ host.table[i].point \in Points /\ host.table[i].source \in Sources
       /\ <<host.table[i].fs, Root>> \in DOMAIN host.owner
  /\ \A o \in DOMAIN host.owner : host.owner[o] \in Owners \union {Plain}
  /\ host.creds \in [Sources -> {"none", "torn", "good"}]
  /\ pc \in {"idle", "plan", "apply", "undo"} /\ ret \in {"ok", "failed", "error"}
  /\ pc = "undo" => ToSet(todo) \subseteq ToSet(applied.dir) \union ToSet(applied.mount)
  /\ \A mgr \in {"dir", "mount"} : \A i \in DOMAIN applied[mgr] : applied[mgr][i].mgr = mgr

\* A mount that was there when the process started is never taken off: whatever
\* findmnt failed to show, whatever was mounted on top of it and whatever failed,
\* one Rollback takes off no more than was put on since.
FoundMountsKept ==
  edits = born.edits /\ undone <= 1 => IsPrefix(born.host.table, host.table)

\* After an Apply that returned without an error, nothing failing and nobody else
\* at work, the next Plan of the mount manager has nothing left but credentials
\* and bind mounts, and one of the dir manager only directories that a mount of
\* the manifest covers.
CleanApplySettles ==
  Returned("apply") /\ ret = "ok" /\ faults = since.faults /\ edits = since.edits =>
    /\ \A c \in ToSet(MountChanges(host.table, host.fstab)) :
         c.op = "creds" \/ Type[c.source] = "bind"
    /\ \A c \in ToSet(DirChanges(host, {})) :
         \E i \in DOMAIN desired.mounts :
           desired.mounts[i].point \in Above[c.point] \union {c.point}

ParentsFirst ==
  \A i, j \in DOMAIN desired.dirs :
    desired.dirs[i].point \in Above[desired.dirs[j].point] => i < j

\* Rollback of a process that met no failure takes off every mount the process
\* made, nested ones too, and, after a single Apply, every directory the dir
\* manager created unless it holds something else.  (After two Applies a directory
\* of the second may lie on a mount of the first, which goes before it; a parent
\* declared after its child is not empty yet when its turn comes.)
RollbackUncovers ==
  /\ Returned("rollback") /\ undone = 1
  /\ faults = born.faults /\ edits = born.edits
  => /\ host.table = born.host.table
     /\ verbs = 2 /\ ParentsFirst =>
          \A i \in DOMAIN applied.dir :
            applied.dir[i].op = "create" /\ Exists(host, applied.dir[i].point) =>
              \E q \in Points : applied.dir[i].point \in Above[q] /\ Exists(host, q)

\* docs/config-reference.md: "persistent: true # add to /etc/fstab".
PersistentIsInFstab ==
  Returned("apply") /\ faults = born.faults /\ edits = born.edits =>
    \A i \in DOMAIN desired.mounts :
      desired.mounts[i].persistent =>
        \E l \in host.fstab : l.source = desired.mounts[i].source /\ l.point = desired.mounts[i].point
=============================================================================
