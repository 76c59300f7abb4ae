------------------------------ MODULE HostsFile ------------------------------
(***************************************************************************)
(* pkg/managers/hosts.go: the block of /etc/hosts between two markers.     *)
(* Plan compares the block with the declared entries; Apply reads the file *)
(* again, puts the declared block behind everything that is outside the    *)
(* old one, and writes the file as a whole; Rollback does the same with    *)
(* the block Plan saw.  Other actors edit the file at any time, and a      *)
(* write may leave only the first part of what it should have written.     *)
(*                                                                         *)
(* The file is the sequence of lines strings.Split makes of it: one that   *)
(* ends in a newline has a last line that is blank.                        *)
(***************************************************************************)
EXTENDS Naturals, Sequences, SequencesExt

CONSTANTS
  Begin, End, Blank,  \* the two marker lines, and an empty one
  Entries,            \* lines renderBlock makes of declared entries
  Others,             \* every other line
  Clash,              \* <<o, e>> when line o gives a name of entry e another address
  Blocks,             \* what the manifests at hand declare, as rendered
  Bodies,             \* what /etc/hosts may hold at first
  MaxRuns,            \* bound: processes
  MaxVerbs,           \* bound: Apply and Rollback calls per process
  MaxFaults,          \* bound: reads and writes that fail
  MaxEdits            \* bound: edits by other actors

Line == {Begin, End, Blank} \union Entries \union Others

ASSUME HostsAssumption ==
  /\ Begin # End /\ Blank \notin {Begin, End}
  /\ {Begin, End, Blank} \intersect (Entries \union Others) = {}
  /\ Entries \intersect Others = {}
  /\ Blocks \subseteq Seq(Entries)
  /\ Bodies \subseteq Seq(Line)
  /\ Clash \subseteq Others \X Entries
  /\ MaxRuns \in Nat /\ MaxVerbs \in Nat /\ MaxFaults \in Nat /\ MaxEdits \in Nat

VARIABLES
  file,     \* /etc/hosts
  desired,  \* the block the manifest declares
  pc,       \* "idle", "planned", "writing", "undoing", "rewriting"
  change,   \* the planned change: the blocks before and after, and its hazard
  outside,  \* the lines outside the block, as Apply or Rollback last read them
  applied,  \* the changes recorded for Rollback
  left,     \* how many of them Rollback has still to reverse
  verb, ret, verbs,
  runs, faults, edits,
  theirs,   \* history: the other lines, as their owners or a failed write left them
  raced,    \* history: whether somebody edited the file after it was last read
  since,    \* history: faults and edits when the verb began
  born      \* history: the file, faults and edits when the process started

process == <<desired, pc, change, outside, applied, left, verb, ret, verbs>>
counts  == <<runs, faults, edits>>
vars    == <<file, process, counts, theirs, raced, since, born>>

----------------------------------------------------------------------------
(* The lines of a file and its block. *)

IndicesOf(lines, l) == {i \in DOMAIN lines : lines[i] = l}
Largest(S)  == CHOOSE i \in S : \A j \in S : j <= i
Smallest(S) == CHOOSE i \in S : \A j \in S : i <= j

\* Mutant: the scan keeps the first begin marker.
FirstBegin(lines) == Smallest(IndicesOf(lines, Begin))

\* The scan of extractBlock lets a later begin marker replace an earlier one,
\* and keeps the first end marker it meets after any of them.
LastBegin(lines) == Largest(IndicesOf(lines, Begin))

Ends(lines) == {i \in IndicesOf(lines, End) : \E j \in IndicesOf(lines, Begin) : j < i}

HasBlock(lines) == Ends(lines) # {} /\ LastBegin(lines) < Smallest(Ends(lines))

extractBlock(lines) ==
  IF HasBlock(lines)
    THEN SubSeq(lines, LastBegin(lines) + 1, Smallest(Ends(lines)) - 1)
    ELSE <<>>

\* A block that ends is the last thing marked, and no line of others is in it.
WellMarked(lines) ==
  \A i \in Ends(lines) :
    /\ \A k \in DOMAIN lines : k > i => lines[k] \notin {Begin, End}
    /\ ToSet(extractBlock(lines)) \subseteq Entries \union {Blank}

\* What linuxctl and others at work around its block make of a file.  With two
\* blocks, or one that ends twice, Plan finds none and Apply adds another.
ASSUME BodiesAssumption == \A lines \in Bodies : WellMarked(lines)

\* Mutant: what follows the block is forgotten.
OnlyBefore(lines) ==
  IF HasBlock(lines) THEN SubSeq(lines, 1, LastBegin(lines) - 1) ELSE lines

outsideBlock(lines) ==
  IF HasBlock(lines)
    THEN SubSeq(lines, 1, LastBegin(lines) - 1)
         \o SubSeq(lines, Smallest(Ends(lines)) + 1, Len(lines))
    ELSE lines

\* strings.TrimRight(s, "\n") drops the blank lines at the end.
TrimBlanks(lines) ==
  LET text == {i \in DOMAIN lines : lines[i] # Blank}
  IN  IF text = {} THEN <<>> ELSE SubSeq(lines, 1, Largest(text))

mergeHosts(lines, block) == TrimBlanks(lines) \o <<Begin>> \o block \o <<End, Blank>>

Naming(lines, e) == {i \in DOMAIN lines : lines[i] = e \/ <<lines[i], e>> \in Clash}

\* The first line that has a name of e gives it another address.
findConflict(lines, e) ==
  Naming(lines, e) # {} /\ lines[Smallest(Naming(lines, e))] # e

Hazard(block) ==
  IF \E e \in ToSet(block) : findConflict(outsideBlock(file), e) THEN "warn" ELSE "none"

NoChange == [before |-> <<>>, after |-> <<>>, hazard |-> "none"]

\* What a write that fails may leave: the old file, or the first lines of the new.
Leftovers(content) ==
  {file} \union {SubSeq(content, 1, k) \o <<Blank>> : k \in 0 .. Len(content)}

\* The lines that are not linuxctl's, in their order.
OtherLines(lines) ==
  LET kept[i \in 0 .. Len(lines)] ==
        IF i = 0 THEN <<>>
        ELSE IF lines[i] \in Others THEN Append(kept[i - 1], lines[i]) ELSE kept[i - 1]
  IN  kept[Len(lines)]

----------------------------------------------------------------------------

Start ==
  /\ desired' \in Blocks
  /\ pc' = "idle" /\ change' = NoChange /\ outside' = <<>>
  /\ applied' = <<>> /\ left' = 0 /\ verb' = "none" /\ ret' = "ok" /\ verbs' = 0
  /\ raced' = FALSE /\ since' = [faults |-> faults, edits |-> edits]
  /\ born' = [file |-> file', faults |-> faults, edits |-> edits]

Init ==
  /\ file \in Bodies
  /\ desired \in Blocks
  /\ pc = "idle" /\ change = NoChange /\ outside = <<>>
  /\ applied = <<>> /\ left = 0 /\ verb = "none" /\ ret = "ok" /\ verbs = 0
  /\ runs = 1 /\ faults = 0 /\ edits = 0
  /\ theirs = OtherLines(file) /\ raced = FALSE
  /\ since = [faults |-> 0, edits |-> 0]
  /\ born = [file |-> file, faults |-> 0, edits |-> 0]

\* The process ends or is killed, and another one starts, maybe with a new manifest.
Restart ==
  /\ runs < MaxRuns /\ runs' = runs + 1
  /\ pc \notin {"writing", "rewriting"}
  /\ UNCHANGED <<file, faults, edits, theirs>>
  /\ Start

\* It is killed while it writes.
Kill ==
  /\ runs < MaxRuns /\ runs' = runs + 1
  /\ pc \in {"writing", "rewriting"}
  /\ LET block == IF pc = "writing" THEN change.after ELSE applied[left].before
     IN  file' \in Leftovers(mergeHosts(outside, block))
  /\ theirs' = OtherLines(file')
  /\ Start
  /\ UNCHANGED <<faults, edits>>

Fault == faults < MaxFaults /\ faults' = faults + 1

Return(result) ==
  /\ pc' = "idle" /\ ret' = result
  /\ UNCHANGED <<desired, verb, verbs>>

----------------------------------------------------------------------------
(* Plan and Apply. *)

Call(v) ==
  /\ pc = "idle" /\ verbs < MaxVerbs
  /\ verbs' = verbs + 1 /\ verb' = v
  /\ since' = [faults |-> faults, edits |-> edits]

\* Mutant: the change does not carry the block it replaces.
PlanForgets ==
  /\ Call("apply")
  /\ IF extractBlock(file) = desired
       THEN pc' = "idle" /\ ret' = "ok" /\ change' = NoChange
       ELSE /\ pc' = "planned" /\ UNCHANGED ret
            /\ change' = [before |-> <<>>, after |-> desired, hazard |-> Hazard(desired)]
  /\ UNCHANGED <<file, desired, outside, applied, left, counts, theirs, raced, born>>

Plan ==
  /\ Call("apply")
  /\ IF extractBlock(file) = desired
       THEN pc' = "idle" /\ ret' = "ok" /\ change' = NoChange
       ELSE /\ pc' = "planned" /\ UNCHANGED ret
            /\ change' = [before |-> extractBlock(file), after |-> desired, hazard |-> Hazard(desired)]
  /\ UNCHANGED <<file, desired, outside, applied, left, counts, theirs, raced, born>>

PlanFails ==
  /\ Call("apply") /\ Fault
  /\ pc' = "idle" /\ ret' = "error"
  /\ UNCHANGED <<file, desired, change, outside, applied, left, runs, edits, theirs, raced, born>>

ApplyReads ==
  /\ pc = "planned"
  /\ pc' = "writing" /\ outside' = outsideBlock(file) /\ raced' = FALSE
  /\ UNCHANGED <<file, desired, change, applied, left, verb, ret, verbs, counts, theirs, since, born>>

ApplyCannotRead ==
  /\ pc = "planned" /\ Fault
  /\ Return("failed")
  /\ UNCHANGED <<file, change, outside, applied, left, runs, edits, theirs, raced, since, born>>

\* An edit made since the read is overwritten, whatever it was.
ApplyWrites ==
  /\ pc = "writing"
  /\ file' = mergeHosts(outside, change.after)
  /\ theirs' = IF raced THEN OtherLines(file') ELSE theirs
  /\ applied' = Append(applied, change)
  /\ Return("ok")
  /\ UNCHANGED <<change, outside, left, counts, raced, since, born>>

ApplyCannotWrite ==
  /\ pc = "writing" /\ Fault
  /\ file' \in Leftovers(mergeHosts(outside, change.after))
  /\ theirs' = OtherLines(file')
  /\ Return("failed")
  /\ UNCHANGED <<change, outside, applied, left, runs, edits, raced, since, born>>

----------------------------------------------------------------------------
(* Rollback; the orchestrator calls it only when something is recorded. *)

BeginRollback ==
  /\ Call("rollback")
  /\ pc' = "undoing" /\ left' = Len(applied)
  /\ UNCHANGED <<file, desired, change, outside, applied, ret, counts, theirs, raced, born>>

UndoReads ==
  /\ pc = "undoing" /\ left > 0
  /\ pc' = "rewriting" /\ outside' = outsideBlock(file) /\ raced' = FALSE
  /\ UNCHANGED <<file, desired, change, applied, left, verb, ret, verbs, counts, theirs, since, born>>

UndoWrites ==
  /\ pc = "rewriting"
  /\ file' = mergeHosts(outside, applied[left].before)
  /\ theirs' = IF raced THEN OtherLines(file') ELSE theirs
  /\ pc' = "undoing" /\ left' = left - 1
  /\ UNCHANGED <<desired, change, outside, applied, verb, ret, verbs, counts, raced, since, born>>

UndoFails ==
  /\ \/ pc = "undoing" /\ left > 0 /\ UNCHANGED <<file, theirs>>
     \/ /\ pc = "rewriting"
        /\ file' \in Leftovers(mergeHosts(outside, applied[left].before))
        /\ theirs' = OtherLines(file')
  /\ Fault
  /\ Return("error")
  /\ UNCHANGED <<change, outside, applied, left, runs, edits, raced, since, born>>

RollbackReturns ==
  /\ pc = "undoing" /\ left = 0
  /\ Return("ok")
  /\ UNCHANGED <<file, change, outside, applied, left, counts, theirs, raced, since, born>>

----------------------------------------------------------------------------
(* Other actors: an administrator, cloud-init, another tool. *)

InsideBlock(i) == HasBlock(file) /\ LastBegin(file) < i /\ i <= Smallest(Ends(file))

Edited ==
  /\ edits < MaxEdits /\ edits' = edits + 1
  /\ theirs' = OtherLines(file')
  /\ raced' = TRUE
  /\ UNCHANGED <<process, runs, faults, since, born>>

\* A line of theirs is put anywhere outside the block.
AddLine(l, i) ==
  /\ ~InsideBlock(i)
  /\ file' = InsertAt(file, i, l)
  /\ Edited

\* A line that is no marker is taken away, their own or one of the block.
DropLine(i) ==
  /\ file[i] \in Entries \union Others
  /\ file' = RemoveAt(file, i)
  /\ Edited

Next ==
  \/ Plan \/ PlanFails \/ ApplyReads \/ ApplyCannotRead \/ ApplyWrites \/ ApplyCannotWrite
  \/ BeginRollback \/ UndoReads \/ UndoWrites \/ UndoFails \/ RollbackReturns
  \/ Restart \/ Kill
  \/ \E i \in DOMAIN file : DropLine(i) \/ \E l \in Others : AddLine(l, i)

Spec == Init /\ [][Next]_vars

----------------------------------------------------------------------------
(* Properties. *)

Block == Seq(Entries)

\* The variables keep their shapes, and Rollback stays within the record.
TypeOK ==
  /\ file \in Seq(Line) /\ desired \in Blocks
  /\ pc \in {"idle", "planned", "writing", "undoing", "rewriting"}
  /\ change.after \in Block /\ change.before \in Seq(Line)
  /\ outside \in Seq(Line)
  /\ \A i \in DOMAIN applied : applied[i].after \in Block
  /\ pc = "rewriting" => left \in DOMAIN applied
  /\ verb \in {"none", "apply", "rollback"} /\ ret \in {"ok", "error", "failed"}
  /\ theirs \in Seq(Others) /\ raced \in BOOLEAN

\* "Lines outside the sandwich are never touched": over any sequence of
\* applies and rollbacks the lines that are not linuxctl's stay, all of them
\* and in their order, except an edit made between the read and the write of
\* one change, and what a write that failed cut off.
OthersKept == OtherLines(file) = theirs

\* The resolver takes the first line that has a name: each line that gives a
\* name of e another address comes after one that is e.
Resolves(e) == \A i \in DOMAIN file : <<file[i], e>> \in Clash => \E j \in 1 .. i : file[j] = e

\* An Apply that failed nothing leaves a file the next Plan finds in order, if
\* nobody edits it meanwhile: also when an earlier write was cut short in the
\* middle of the block and left a begin marker without its end.  If it wrote the
\* block, and its plan carried no warning, every declared name has the declared
\* address.  An Apply that finds the block up to date promises nothing of the
\* kind: Plan returns before it looks for a line of others in front of the block,
\* so one that was warned of once, or was added since, goes unsaid.
ApplyConverges ==
  pc = "idle" /\ verb = "apply" /\ ret = "ok" /\ edits = since.edits =>
    /\ extractBlock(file) = desired
    /\ change.after = desired /\ change.hazard = "none" => \A d \in ToSet(desired) : Resolves(d)

\* After an Apply and a Rollback of one process without a failure or an edit,
\* the block is the one the process found, and so is everything around it.
RollbackRestores ==
  /\ pc = "idle" /\ verb = "rollback" /\ ret = "ok"
  /\ faults = born.faults /\ edits = born.edits
  => /\ extractBlock(file) = extractBlock(born.file)
     /\ TrimBlanks(outsideBlock(file)) = TrimBlanks(outsideBlock(born.file))
=============================================================================
