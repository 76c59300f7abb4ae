------------------------------ MODULE OwnedFile ------------------------------
(***************************************************************************)
(* Three managers own one file each and write it as a whole:               *)
(*   sysctl (sysctl.go)    /etc/sysctl.d/99-linuxctl.conf, then sysctl -p  *)
(*   limits (limits.go)    /etc/security/limits.d/99-linuxctl.conf         *)
(*   sshd   (ssh_auth.go)  /etc/ssh/sshd_config.d/99-linuxctl.conf, then   *)
(*                         sshd -t, and a reload when that is content      *)
(* A file is the sequence of its lines, the empty one has none.  What the  *)
(* file sets is in effect on the host (live) only once it has been loaded. *)
(* A write that fails leaves some of the first lines.                      *)
(***************************************************************************)
EXTENDS Naturals, Sequences, SequencesExt, TLC

CONSTANTS
  Header,     \* the comment line at the top of a file linuxctl writes
  Absent,     \* "file" when there is none
  Default,    \* the value of a key nobody has set
  KeyOrder,   \* the keys, sorted
  Values,
  Refused,    \* keys the running kernel does not know, or sshd -t rejects
  Manifests,  \* what the manifests at hand declare: functions from keys to values
  Files,      \* what the file may hold at first
  MaxRuns,    \* bound: processes
  MaxVerbs,   \* bound: Apply and Rollback calls per process
  MaxFaults,  \* bound: commands that fail
  MaxEdits    \* bound: changes by other actors

Keys == ToSet(KeyOrder)
Line == {Header} \union (Keys \X Values)
File == {Absent} \union Seq(Line)

ASSUME OwnedFileAssumption ==
  /\ Header \notin Keys \X Values /\ Absent \notin Seq(Line)
  /\ KeyOrder \in Seq(Keys) /\ Refused \subseteq Keys
  /\ \A d \in Manifests : DOMAIN d \subseteq Keys /\ \A k \in DOMAIN d : d[k] \in Values
  /\ Files \subseteq File
  /\ MaxRuns \in Nat /\ MaxVerbs \in Nat /\ MaxFaults \in Nat /\ MaxEdits \in Nat

VARIABLES
  kind,     \* which of the three managers: "sysctl", "limits", "sshd"
  file, live,
  desired,  \* what the manifest declares
  pc,       \* "idle", "write", "load", "test", "remove", "undo", "reload"
  before,   \* the content Plan saw
  applied,  \* the contents recorded for Rollback
  left,     \* how many of them Rollback has still to put back
  verb, ret, verbs,
  runs, faults, edits,
  since,    \* history: faults and edits when the verb began
  born,     \* history: file, live, faults and edits when the process started
  clean,    \* history: whether no Apply of this process has failed
  killed,   \* history: whether a process was killed within a verb
  stranded  \* history: whether the last Apply to touch the file failed to write or
            \* to remove it, or was killed before it had done so and tested it

process == <<desired, pc, before, applied, left, verb, ret, verbs>>
counts  == <<runs, faults, edits>>
vars    == <<kind, file, live, process, counts, since, born, clean, killed, stranded>>

----------------------------------------------------------------------------
(* What a file says, and what loading it does. *)

Lines(f) == IF f = Absent THEN <<>> ELSE f

Settings(f, k) == {i \in DOMAIN Lines(f) : Lines(f)[i] # Header /\ Lines(f)[i][1] = k}
Sets(f, k)     == Settings(f, k) # {}

FirstValue(f, k) == Lines(f)[CHOOSE i \in Settings(f, k) : \A j \in Settings(f, k) : i <= j][2]
LastValue(f, k)  == Lines(f)[CHOOSE i \in Settings(f, k) : \A j \in Settings(f, k) : j <= i][2]

\* Plan takes the last value a key is given.
Says(f, k, v) == Sets(f, k) /\ LastValue(f, k) = v

\* A line for every declared key, in the order of the keys.
render(d) ==
  <<Header>> \o FlattenSeq([i \in 1 .. Len(KeyOrder) |->
    IF KeyOrder[i] \in DOMAIN d THEN <<<<KeyOrder[i], d[KeyOrder[i]]>>>> ELSE <<>>])

\* sysctl -p sets every key of the file that the kernel knows and leaves the others.
SysctlLoads == [k \in Keys |-> IF Sets(file, k) /\ k \notin Refused THEN LastValue(file, k) ELSE live[k]]

\* A reload of sshd reads the configuration from scratch, and the first value counts.
SshdLoads == [k \in Keys |-> IF Sets(file, k) THEN FirstValue(file, k) ELSE Default]

\* Both sysctl -p and sshd -t end with an error when a line is not to their liking.
Accepted(f) == \A k \in Refused : ~Sets(f, k)

SetsOnce(f) == \A k \in Keys : \A i, j \in Settings(f, k) : i = j

Leftovers(content) == {file} \union {SubSeq(content, 1, n) : n \in 0 .. Len(content)}

----------------------------------------------------------------------------

\* sshd runs with a drop-in that it accepts and that sets no key twice.
Init ==
  /\ kind \in {"sysctl", "limits", "sshd"}
  /\ file \in Files /\ (kind = "sshd" => Accepted(file) /\ SetsOnce(file))
  /\ live = [k \in Keys |-> IF Sets(file, k) /\ k \notin Refused THEN LastValue(file, k) ELSE Default]
  /\ desired \in Manifests
  /\ pc = "idle" /\ before = <<>> /\ applied = <<>> /\ left = 0
  /\ verb = "none" /\ ret = "ok" /\ verbs = 0
  /\ runs = 1 /\ faults = 0 /\ edits = 0
  /\ since = [faults |-> 0, edits |-> 0]
  /\ born = [file |-> file, live |-> live, faults |-> 0, edits |-> 0]
  /\ clean = TRUE /\ killed = FALSE /\ stranded = FALSE

\* The process ends, or is killed wherever it is, and another one starts, maybe
\* with a new manifest.  A write it was at may be done in part.
Restart ==
  /\ runs < MaxRuns /\ runs' = runs + 1
  /\ file' \in CASE pc = "write" -> Leftovers(render(desired))
                 [] pc = "undo" /\ kind # "sshd" /\ left > 0 -> Leftovers(applied[left])
                 [] OTHER -> {file}
  /\ killed' = (killed \/ pc # "idle") /\ clean' = TRUE
  /\ stranded' = (stranded \/ pc \in {"write", "test", "remove"})
  /\ desired' \in Manifests
  /\ pc' = "idle" /\ before' = <<>> /\ applied' = <<>> /\ left' = 0
  /\ verb' = "none" /\ ret' = "ok" /\ verbs' = 0
  /\ since' = [faults |-> faults, edits |-> edits]
  /\ born' = [file |-> file', live |-> live, faults |-> faults, edits |-> edits]
  /\ UNCHANGED <<kind, live, faults, edits>>

Fault   == faults < MaxFaults /\ faults' = faults + 1
NoFault == UNCHANGED faults

Return(result) == pc' = "idle" /\ ret' = result

Call(v) ==
  /\ pc = "idle" /\ verbs < MaxVerbs
  /\ verbs' = verbs + 1 /\ verb' = v
  /\ since' = [faults |-> faults, edits |-> edits]

----------------------------------------------------------------------------
(* Plan. *)

\* A sysctl key is out of sync also when its value cannot be read.
LiveDrift(d) == {k \in DOMAIN d : k \in Refused \/ live[k] # d[k]}

\* Mutant: only the file counts.
FileDrifts(content) ==
  /\ DOMAIN desired # {}
  /\ IF kind = "sshd" THEN \E k \in DOMAIN desired : ~Says(content, k, desired[k])
                      ELSE content # render(desired)

\* Whether Plan lists a change when it reads this content.  sysctl and limits
\* compare the text, sshd the values of the declared keys.
Drifts(content) ==
  /\ DOMAIN desired # {}
  /\ CASE kind = "sysctl" -> content # render(desired) \/ LiveDrift(desired) # {}
       [] kind = "limits" -> content # render(desired)
       [] kind = "sshd"   -> \E k \in DOMAIN desired : ~Says(content, k, desired[k])

Planned(content) ==
  IF Drifts(content)
    THEN pc' = "write" /\ before' = content /\ UNCHANGED ret
    ELSE Return("ok") /\ UNCHANGED before

PlanRest == UNCHANGED <<kind, file, live, desired, applied, left, runs, edits, born, clean, killed, stranded>>

Plan ==
  /\ Call("apply") /\ NoFault
  /\ Planned(Lines(file))
  /\ PlanRest

\* FileExists answers "no" to every error: the file counts as not there.  A
\* sysctl -n that fails makes its key one that is out of sync.
PlanMistakes ==
  /\ Call("apply") /\ Fault
  /\ \/ kind # "sshd" /\ Planned(<<>>)
     \/ /\ kind = "sysctl" /\ DOMAIN desired # {}
        /\ pc' = "write" /\ before' = Lines(file) /\ UNCHANGED ret
  /\ PlanRest

PlanFails ==
  /\ Call("apply") /\ Fault
  /\ Return("error") /\ UNCHANGED before
  /\ PlanRest

----------------------------------------------------------------------------
(* Apply. *)

VerbRest ==
  /\ clean' = (clean /\ ret' # "failed")
  /\ stranded' = IF pc \in {"write", "remove"} THEN faults' # faults ELSE stranded
  /\ UNCHANGED <<kind, desired, before, verb, verbs, runs, edits, since, born, killed>>

Done   == Return("ok") /\ applied' = Append(applied, before)
Failed == Return("failed") /\ UNCHANGED applied

Write ==
  /\ pc = "write" /\ NoFault
  /\ file' = render(desired)
  /\ CASE kind = "sysctl" -> pc' = "load" /\ UNCHANGED <<ret, applied>>
       [] kind = "limits" -> Done
       [] kind = "sshd"   -> pc' = "test" /\ UNCHANGED <<ret, applied>>
  /\ UNCHANGED <<live, left>> /\ VerbRest

WriteFails ==
  /\ pc = "write" /\ Fault
  /\ file' \in Leftovers(render(desired))
  /\ Failed
  /\ UNCHANGED <<live, left>> /\ VerbRest

\* sysctl -p
SysctlLoad ==
  /\ kind = "sysctl" /\ pc = "load" /\ NoFault
  /\ live' = SysctlLoads
  /\ IF Accepted(file) THEN Done ELSE Failed
  /\ UNCHANGED <<file, left>> /\ VerbRest

SysctlLoadFails ==
  /\ kind = "sysctl" /\ pc = "load" /\ Fault
  /\ Failed
  /\ UNCHANGED <<file, live, left>> /\ VerbRest

\* Mutant: what sshd -t rejects stays in place.
KeepRejected ==
  /\ pc = "test" /\ NoFault
  /\ IF Accepted(file) THEN pc' = "load" /\ UNCHANGED <<ret, applied>> ELSE Failed
  /\ UNCHANGED <<file, live, left>> /\ VerbRest

\* sshd -t
SshdTest ==
  /\ pc = "test" /\ NoFault
  /\ pc' = IF Accepted(file) THEN "load" ELSE "remove"
  /\ UNCHANGED <<file, live, left, applied, ret>> /\ VerbRest

SshdTestFails ==
  /\ pc = "test" /\ Fault
  /\ pc' = "remove"
  /\ UNCHANGED <<file, live, left, applied, ret>> /\ VerbRest

\* rm -f, whose result is thrown away
SshdRemove ==
  /\ pc = "remove"
  /\ \/ NoFault /\ file' = Absent
     \/ Fault /\ UNCHANGED file
  /\ Failed
  /\ UNCHANGED <<live, left>> /\ VerbRest

\* systemctl reload sshd || systemctl reload ssh || true
SshdReload ==
  /\ kind = "sshd" /\ pc = "load"
  /\ \/ NoFault /\ live' = SshdLoads
     \/ Fault /\ UNCHANGED live
  /\ Done
  /\ UNCHANGED <<file, left>> /\ VerbRest

SshdReloadLost ==
  /\ kind = "sshd" /\ pc = "load" /\ Fault
  /\ Failed
  /\ UNCHANGED <<file, live, left>> /\ VerbRest

----------------------------------------------------------------------------
(* Rollback, from the newest recorded change to the oldest. *)

BeginRollback ==
  /\ Call("rollback")
  /\ pc' = "undo" /\ left' = Len(applied)
  /\ UNCHANGED <<kind, file, live, desired, before, applied, ret, counts, born, clean, killed, stranded>>

StepBack == pc' = "undo" /\ left' = left - 1 /\ UNCHANGED ret

\* Nothing was there before: rm -f, and an error is thrown away.
UndoByRemoval ==
  /\ pc = "undo" /\ left > 0 /\ kind # "sshd" /\ applied[left] = <<>>
  /\ \/ NoFault /\ file' = Absent
     \/ Fault /\ UNCHANGED file
  /\ StepBack
  /\ UNCHANGED <<live, applied>> /\ VerbRest

UndoByWriting ==
  /\ pc = "undo" /\ left > 0 /\ kind # "sshd" /\ applied[left] # <<>>
  /\ \/ /\ NoFault /\ file' = applied[left]
        /\ IF kind = "sysctl" THEN pc' = "reload" /\ UNCHANGED <<left, ret>> ELSE StepBack
     \/ /\ Fault /\ file' \in Leftovers(applied[left])
        /\ Return("error") /\ UNCHANGED left
  /\ UNCHANGED <<live, applied>> /\ VerbRest

\* Whatever was there before, the drop-in goes.
UndoDropIn ==
  /\ pc = "undo" /\ left > 0 /\ kind = "sshd"
  /\ \/ NoFault /\ file' = Absent /\ pc' = "reload" /\ UNCHANGED <<left, ret>>
     \/ Fault /\ UNCHANGED <<file, left>> /\ Return("error")
  /\ UNCHANGED <<live, applied>> /\ VerbRest

\* Mutant: the restored file is not loaded.
UndoOnlyFile ==
  /\ pc = "reload" /\ NoFault
  /\ StepBack
  /\ UNCHANGED <<file, live, applied>> /\ VerbRest

\* Loading what was restored; its result is thrown away.
UndoLoads ==
  /\ pc = "reload"
  /\ \/ NoFault /\ live' = IF kind = "sysctl" THEN SysctlLoads ELSE SshdLoads
     \/ Fault /\ UNCHANGED live
  /\ StepBack
  /\ UNCHANGED <<file, applied>> /\ VerbRest

RollbackReturns ==
  /\ pc = "undo" /\ left = 0
  /\ Return("ok") /\ NoFault
  /\ UNCHANGED <<file, live, applied, left>> /\ VerbRest

----------------------------------------------------------------------------
(* Other actors. *)

Edited ==
  /\ edits < MaxEdits /\ edits' = edits + 1
  /\ UNCHANGED <<kind, process, runs, faults, since, born, clean, killed, stranded>>

\* Somebody runs sysctl -w.
SetLive(k, v) ==
  /\ kind = "sysctl" /\ k \notin Refused /\ live[k] # v
  /\ live' = [live EXCEPT ![k] = v]
  /\ Edited /\ UNCHANGED file

\* Somebody writes one more line into the file, or removes it.
EditFile ==
  /\ file # Absent
  /\ file' \in {Absent} \union {Append(file, <<k, v>>) : k \in Keys \ Refused, v \in Values}
  /\ Edited /\ UNCHANGED live

Next ==
  \/ Plan \/ PlanMistakes \/ PlanFails \/ Write \/ WriteFails
  \/ SysctlLoad \/ SysctlLoadFails
  \/ SshdTest \/ SshdTestFails \/ SshdRemove \/ SshdReload \/ SshdReloadLost
  \/ BeginRollback \/ UndoByRemoval \/ UndoByWriting \/ UndoDropIn \/ UndoLoads \/ RollbackReturns
  \/ Restart \/ EditFile \/ \E k \in Keys, v \in Values : SetLive(k, v)

Spec == Init /\ [][Next]_vars

----------------------------------------------------------------------------
(* Properties. *)

Idle(v) == pc = "idle" /\ verb = v /\ ret = "ok"

\* The variables keep their shapes, and Rollback stays within the record.
TypeOK ==
  /\ kind \in {"sysctl", "limits", "sshd"} /\ file \in File
  /\ live \in [Keys -> Values \union {Default}]
  /\ desired \in Manifests
  /\ pc \in {"idle", "write", "load", "test", "remove", "undo", "reload"}
  /\ before \in Seq(Line) /\ \A i \in DOMAIN applied : applied[i] \in Seq(Line)
  /\ left <= Len(applied) /\ (pc = "reload" => left > 0)
  /\ verb \in {"none", "apply", "rollback"} /\ ret \in {"ok", "error", "failed"}

\* An Apply that returned without an error, whatever it had to do and whatever
\* failed or was cut short before it, leaves every declared value in the file,
\* and a sysctl value in the running kernel as well.  sshd runs with it when also
\* no reload was lost and nobody else wrote the drop-in.
AppliedIsInEffect ==
  Idle("apply") /\ edits = since.edits =>
    \A k \in DOMAIN desired :
      /\ Says(file, k, desired[k])
      /\ \/ kind = "sysctl"
         \/ kind = "sshd" /\ faults = 0 /\ edits = 0 /\ ~killed
         => live[k] = desired[k]

\* If every Apply succeeded, Rollback of sysctl and limits puts the file back as
\* the process found it, and the values that file sets are in effect again.  (A
\* sysctl -p that failed leaves a file that no Rollback knows of.)
RollbackRestores ==
  /\ kind # "sshd" /\ Idle("rollback") /\ clean
  /\ faults = born.faults /\ edits = born.edits
  => /\ Lines(file) = Lines(born.file)
     /\ kind = "sysctl" =>
          \A k \in Keys \ Refused :
            Sets(born.file, k) /\ born.live[k] = LastValue(born.file, k) => live[k] = born.live[k]

\* A drop-in that sshd -t rejects is left behind for sshd's next restart to fail
\* on only where the command that wrote or removed it failed - a write that fails
\* returns with neither the test nor the rm - or linuxctl was killed between the
\* two.  It stays no longer than until a later Apply's write or rm succeeds, and
\* no other failure, no kill elsewhere, no edit and no Rollback leaves one.
DropInIsAccepted ==
  kind = "sshd" /\ pc \in {"idle", "undo", "reload"} /\ ~stranded => Accepted(file)
=============================================================================
