---------------------------- MODULE Orchestrator ----------------------------
(***************************************************************************)
(* The cross-manager pipeline of pkg/apply/orchestrator.go.  One linuxctl  *)
(* process plans every manager first, then lets each manager execute its   *)
(* own plan in order, and rolls back what it remembers in reverse order.   *)
(*                                                                         *)
(* A manager is known by its position 1..N in the order resolveManagers    *)
(* returns.  What a manager does is kept to the contract its Plan, Apply   *)
(* and Rollback loops in pkg/managers share: the changes it may plan, how  *)
(* it meets a failing change, and which changes its Rollback reverses.     *)
(* The host is the set of changes in effect on it.  A command may fail,    *)
(* with or without having done its work; the process may be killed; other  *)
(* actors may change the host between any two steps (no lock is taken).    *)
(***************************************************************************)
EXTENDS Naturals, Sequences, SequencesExt

CONSTANTS
  N,               \* number of managers
  Change,          \* every change some manager may plan
  Wanted,          \* Wanted[m]: m's changes, in the order its Plan lists them
  Provides,        \* what else comes into effect with a change
  Hides,           \* what stops being in effect with a change
  Needs,           \* what must be in effect for a change's command to work
  Exclusive,       \* changes whose command fails when they are in effect already
  Quiet,           \* changes whose probe, when it fails, reads as "not in effect"
  Undoable,        \* changes their manager's Rollback has a command for
  StopsAtFailure,  \* managers whose Apply returns an error at the first failed change
  SwallowsUndo,    \* managers whose Rollback ignores a failed undo command
  Probes,          \* managers whose Apply first asks the host something
  Reloads,         \* managers whose Apply ends with a reload that may fail
  Shared,          \* changes other actors make or take back as well
  MaxVerbs,        \* bound: calls of Plan, Apply, Verify, Rollback per process
  MaxFaults,       \* bound: commands that fail for an outside reason
  MaxDrifts        \* bound: changes other actors make to the host

Manager == 1 .. N

ASSUME OrchestratorAssumption ==
  /\ N \in Nat \ {0}
  /\ Wanted \in [Manager -> Seq(Change)]
  /\ \A m1, m2 \in Manager :
        m1 # m2 => ToSet(Wanted[m1]) \cap ToSet(Wanted[m2]) = {}
  /\ Provides \in [Change -> SUBSET Change]
  /\ Hides \in [Change -> SUBSET Change]
  /\ Needs \in [Change -> SUBSET Change]
  /\ Exclusive \subseteq Change
  /\ Quiet \subseteq Change
  /\ Undoable \subseteq Change
  /\ StopsAtFailure \subseteq Manager
  /\ SwallowsUndo \subseteq Manager
  /\ Probes \subseteq Manager
  /\ Reloads \subseteq Manager
  /\ Shared \subseteq Change
  /\ MaxVerbs \in Nat
  /\ MaxFaults \in Nat
  /\ MaxDrifts \in Nat

VARIABLES
  host,     \* the changes in effect on the host
  opts,     \* DryRun and ContinueOnError, fixed when the orchestrator is made
  applied,  \* o.applied: per manager, the changes Rollback will reverse
  pc,       \* where the process is
  verb,     \* the verb in progress, or the last one
  cur,      \* the manager whose turn it is
  plan,     \* PlanResult.ByManager
  todo,     \* the planned changes of cur its Apply has not come to yet
  res,      \* the ApplyResult of cur: what it applied, skipped and failed
  merr,     \* whether cur's Apply is about to return an error
  agg,      \* the aggregated ApplyResult of the last Apply
  left,     \* how many changes of cur its Rollback still has to look at
  rerr,     \* whether some manager's Rollback has returned an error
  ret,      \* what the last verb returned
  verbs,    \* verbs called in this process
  faults,   \* commands that have failed for an outside reason
  drifts,   \* changes other actors have made
  born,     \* history: host, faults and drifts when this process started
  missed    \* history: what failed probes have hidden from this process

control == <<pc, verb, cur, plan, ret, verbs>>
work    == <<todo, res, merr, agg>>
undoing == <<left, rerr>>
world   == <<faults, drifts>>
history == <<born, missed>>
vars    == <<host, opts, applied, control, work, undoing, world, history>>

Options    == [dryRun : BOOLEAN, continueOnError : BOOLEAN]
Result     == [applied : Seq(Change), skipped : SUBSET Change, failed : SUBSET Change]
Aggregate  == [applied : SUBSET Change, skipped : SUBSET Change, failed : SUBSET Change]
NoChanges  == [m \in Manager |-> {}]
NoResult   == [applied |-> <<>>, skipped |-> {}, failed |-> {}]
EmptyAgg   == [applied |-> {}, skipped |-> {}, failed |-> {}]

----------------------------------------------------------------------------
(* What a change does to the host, and when its command works. *)

AfterEffect(h, c) == ((h \union {c}) \union Provides[c]) \ Hides[c]

CommandWorks(c) ==
  /\ Needs[c] \subseteq host
  /\ c \in Exclusive => c \notin host

\* Hosts whose own tools would not let a needed thing go: no user without its group.
Consistent(h) == \A d \in h : Needs[d] \subseteq h

\* A group still has members, a volume is still mounted, a directory is not empty.
InUse(c) == \E d \in host \cap Undoable : c \in Needs[d]

UndoWorks(c) ==
  /\ ~InUse(c)
  /\ c \in Exclusive => c \in host

----------------------------------------------------------------------------
(* A process: apply.New, then a sequence of verbs. *)

Fresh ==
  /\ opts' \in Options
  /\ applied' = [m \in Manager |-> <<>>]
  /\ pc' = "idle" /\ verb' = "none" /\ cur' = 0 /\ ret' = "ok" /\ verbs' = 0
  /\ plan' = NoChanges /\ todo' = {} /\ res' = NoResult /\ merr' = FALSE
  /\ agg' = EmptyAgg /\ left' = 0 /\ rerr' = FALSE
  /\ born' = [host |-> host, faults |-> faults, drifts |-> drifts] /\ missed' = {}

Init ==
  /\ host \in {h \in SUBSET Change : Consistent(h)}
  /\ opts \in Options
  /\ applied = [m \in Manager |-> <<>>]
  /\ pc = "idle" /\ verb = "none" /\ cur = 0 /\ ret = "ok" /\ verbs = 0
  /\ plan = NoChanges /\ todo = {} /\ res = NoResult /\ merr = FALSE
  /\ agg = EmptyAgg /\ left = 0 /\ rerr = FALSE
  /\ faults = 0 /\ drifts = 0
  /\ born = [host |-> host, faults |-> 0, drifts |-> 0] /\ missed = {}

\* The process ends or is killed, and the next invocation makes a new orchestrator.
Restart == Fresh /\ UNCHANGED <<host, world>>

Return(result) ==
  /\ pc' = "idle"
  /\ ret' = result
  /\ UNCHANGED <<verb, cur, plan, verbs>>

----------------------------------------------------------------------------
(* Plan, Diff and Verify read; Apply starts with the same pass. *)

Begin(v) ==
  /\ pc = "idle"
  /\ verbs < MaxVerbs
  /\ verbs' = verbs + 1
  /\ pc' = "planning" /\ verb' = v /\ cur' = 1 /\ plan' = NoChanges
  /\ agg' = IF v = "apply" THEN EmptyAgg ELSE agg
  /\ UNCHANGED <<host, opts, applied, todo, res, merr, undoing, ret, world, history>>

\* Mutant: the desired state is planned without looking at the host.
PlanBlindly ==
  /\ pc = "planning" /\ cur \in Manager
  /\ plan' = [plan EXCEPT ![cur] = ToSet(Wanted[cur])]
  /\ cur' = cur + 1
  /\ UNCHANGED <<host, opts, applied, pc, verb, ret, verbs, work, undoing, world, history>>

PlanManager ==
  /\ pc = "planning" /\ cur \in Manager
  /\ plan' = [plan EXCEPT ![cur] = ToSet(Wanted[cur]) \ host]
  /\ cur' = cur + 1
  /\ UNCHANGED <<host, opts, applied, pc, verb, ret, verbs, work, undoing, world, history>>

\* Probes of one manager fail and their failure reads as "not there": getent and
\* rpm -q exit non-zero for what is missing, and for a lost session as well.
PlanOverlooks ==
  /\ pc = "planning" /\ cur \in Manager
  /\ faults < MaxFaults /\ faults' = faults + 1
  /\ \E hid \in SUBSET (ToSet(Wanted[cur]) \cap host \cap Quiet) :
        /\ hid # {}
        /\ plan' = [plan EXCEPT ![cur] = ToSet(Wanted[cur]) \ (host \ hid)]
        /\ missed' = missed \union hid
  /\ cur' = cur + 1
  /\ UNCHANGED <<host, opts, applied, pc, verb, ret, verbs, work, undoing, drifts, born>>

\* A probe of one manager fails: the whole pass is given up, nothing was changed.
PlanFails ==
  /\ pc = "planning" /\ cur \in Manager
  /\ faults < MaxFaults /\ faults' = faults + 1
  /\ Return("error")
  /\ UNCHANGED <<host, opts, applied, work, undoing, drifts, history>>

PlanReturns ==
  /\ pc = "planning" /\ cur = N + 1 /\ verb = "plan"
  /\ Return("ok")
  /\ UNCHANGED <<host, opts, applied, work, undoing, world, history>>

----------------------------------------------------------------------------
(* Apply: each manager executes its own plan, in order. *)

\* cur's Apply is called with its planned changes; no plan is an empty one.
Enter(m) ==
  /\ cur' = m
  /\ todo' = IF m \in Manager THEN plan[m] ELSE {}
  /\ res' = NoResult
  /\ merr' = FALSE

BeginApplying ==
  /\ pc = "planning" /\ cur = N + 1 /\ verb = "apply"
  /\ pc' = "applying"
  /\ Enter(1)
  /\ UNCHANGED <<host, opts, applied, verb, plan, ret, verbs, agg, undoing, world, history>>

\* The first change of cur's plan its loop has not come to.
IsNext(c) ==
  \E i \in DOMAIN Wanted[cur] :
     /\ c = Wanted[cur][i] /\ c \in todo
     /\ \A j \in DOMAIN Wanted[cur] : Wanted[cur][j] \in todo => i <= j

Running == pc = "applying" /\ cur \in Manager /\ ~merr

DryRunManager ==
  /\ Running /\ opts.dryRun /\ todo # {}
  /\ res' = [res EXCEPT !.skipped = todo]
  /\ todo' = {}
  /\ UNCHANGED <<host, opts, applied, control, merr, agg, undoing, world, history>>

\* Mutant: the loop forgets to look at the dry-run flag.
AppliesInDryRun(c) ==
  /\ Running /\ IsNext(c)
  /\ CommandWorks(c)
  /\ host' = AfterEffect(host, c)
  /\ res' = [res EXCEPT !.applied = Append(@, c)]
  /\ todo' = todo \ {c}
  /\ UNCHANGED <<opts, applied, control, merr, agg, undoing, world, history>>

ApplySucceeds(c) ==
  /\ Running /\ ~opts.dryRun /\ IsNext(c)
  /\ CommandWorks(c)
  /\ host' = AfterEffect(host, c)
  /\ res' = [res EXCEPT !.applied = Append(@, c)]
  /\ todo' = todo \ {c}
  /\ UNCHANGED <<opts, applied, control, merr, agg, undoing, world, history>>

\* A change of several commands may fail after the ones that did the work.
ApplyFails(c) ==
  /\ Running /\ ~opts.dryRun /\ IsNext(c)
  /\ \/ ~CommandWorks(c) /\ UNCHANGED <<host, faults>>
     \/ /\ CommandWorks(c) /\ faults < MaxFaults
        /\ faults' = faults + 1
        /\ host' \in {host, AfterEffect(host, c)}
  /\ res' = [res EXCEPT !.failed = @ \union {c}]
  /\ todo' = todo \ {c}
  /\ merr' = (cur \in StopsAtFailure)
  /\ UNCHANGED <<opts, applied, control, agg, undoing, drifts, history>>

\* Distribution or firewall backend cannot be told: no change is tried.
ProbeFails ==
  /\ Running /\ ~opts.dryRun /\ cur \in Probes
  /\ todo # {} /\ res = NoResult
  /\ faults < MaxFaults /\ faults' = faults + 1
  /\ merr' = TRUE
  /\ UNCHANGED <<host, opts, applied, control, todo, res, agg, undoing, drifts, history>>

\* Every change has been tried, then firewall-cmd --reload fails.
ReloadFails ==
  /\ Running /\ ~opts.dryRun /\ cur \in Reloads
  /\ todo = {} /\ res.applied # <<>>
  /\ faults < MaxFaults /\ faults' = faults + 1
  /\ merr' = TRUE
  /\ UNCHANGED <<host, opts, applied, control, todo, res, agg, undoing, drifts, history>>

\* Mutant: the manager's error is returned before its result is recorded.
ReturnsBeforeRecording ==
  /\ pc = "applying" /\ cur \in Manager
  /\ todo = {} \/ merr
  /\ agg' = [applied |-> agg.applied \union ToSet(res.applied),
             skipped |-> agg.skipped \union res.skipped,
             failed  |-> agg.failed \union res.failed]
  /\ \/ /\ merr /\ ~opts.continueOnError
        /\ Return("error")
        /\ todo' = {} /\ res' = NoResult /\ merr' = FALSE
        /\ UNCHANGED applied
     \/ /\ ~merr \/ opts.continueOnError
        /\ Enter(cur + 1)
        /\ applied' = [applied EXCEPT ![cur] = @ \o res.applied]
        /\ UNCHANGED <<pc, verb, plan, ret, verbs>>
  /\ UNCHANGED <<host, opts, undoing, world, history>>

\* Mutant: ContinueOnError is read the wrong way round.
StopsWhenToldToContinue ==
  /\ pc = "applying" /\ cur \in Manager
  /\ todo = {} \/ merr
  /\ applied' = [applied EXCEPT ![cur] = @ \o res.applied]
  /\ agg' = [applied |-> agg.applied \union ToSet(res.applied),
             skipped |-> agg.skipped \union res.skipped,
             failed  |-> agg.failed \union res.failed]
  /\ \/ /\ merr /\ opts.continueOnError
        /\ Return("error")
        /\ todo' = {} /\ res' = NoResult /\ merr' = FALSE
     \/ /\ ~merr \/ ~opts.continueOnError
        /\ Enter(cur + 1)
        /\ UNCHANGED <<pc, verb, plan, ret, verbs>>
  /\ UNCHANGED <<host, opts, undoing, world, history>>

\* What was applied is recorded whether or not the manager returned an error.
ManagerReturns ==
  /\ pc = "applying" /\ cur \in Manager
  /\ todo = {} \/ merr
  /\ applied' = [applied EXCEPT ![cur] = @ \o res.applied]
  /\ agg' = [applied |-> agg.applied \union ToSet(res.applied),
             skipped |-> agg.skipped \union res.skipped,
             failed  |-> agg.failed \union res.failed]
  /\ \/ /\ merr /\ ~opts.continueOnError
        /\ Return("error")
        /\ todo' = {} /\ res' = NoResult /\ merr' = FALSE
     \/ /\ ~merr \/ opts.continueOnError
        /\ Enter(cur + 1)
        /\ UNCHANGED <<pc, verb, plan, ret, verbs>>
  /\ UNCHANGED <<host, opts, undoing, world, history>>

ApplyReturns ==
  /\ pc = "applying" /\ cur = N + 1
  /\ Return("ok")
  /\ UNCHANGED <<host, opts, applied, work, undoing, world, history>>

----------------------------------------------------------------------------
(* Rollback: the managers in reverse, each undoing its changes in reverse. *)

BeginRollback ==
  /\ pc = "idle"
  /\ verbs < MaxVerbs
  /\ verbs' = verbs + 1
  /\ pc' = "undoing" /\ verb' = "rollback" /\ cur' = N
  /\ left' = Len(applied[N]) /\ rerr' = FALSE
  /\ UNCHANGED <<host, opts, applied, plan, ret, work, world, history>>

Undoing == pc = "undoing" /\ cur \in Manager /\ left > 0

\* Mutant: a manager's changes are undone in the order they were made.
FirstMade == applied[cur][Len(applied[cur]) - left + 1]

\* The change a manager's Rollback looks at: the last one it has not seen.
LastMade == applied[cur][left]

UndoSkips ==
  /\ Undoing /\ LastMade \notin Undoable
  /\ left' = left - 1
  /\ UNCHANGED <<host, opts, applied, control, work, rerr, world, history>>

UndoSucceeds ==
  /\ Undoing
  /\ LastMade \in Undoable /\ UndoWorks(LastMade)
  /\ host' = host \ {LastMade}
  /\ left' = left - 1
  /\ UNCHANGED <<opts, applied, control, work, rerr, world, history>>

\* Mutant: a manager that does not ignore a failed undo command tries it again.
UndoFailsAndRetries ==
  /\ Undoing
  /\ LastMade \in Undoable
  /\ \/ ~UndoWorks(LastMade) /\ UNCHANGED <<host, faults>>
     \/ /\ UndoWorks(LastMade) /\ faults < MaxFaults
        /\ faults' = faults + 1
        /\ host' \in {host, host \ {LastMade}}
  /\ IF cur \in SwallowsUndo
       THEN left' = left - 1 /\ UNCHANGED rerr
       ELSE rerr' = TRUE /\ UNCHANGED left
  /\ UNCHANGED <<opts, applied, control, work, drifts, history>>

UndoFails ==
  /\ Undoing
  /\ LastMade \in Undoable
  /\ \/ ~UndoWorks(LastMade) /\ UNCHANGED <<host, faults>>
     \/ /\ UndoWorks(LastMade) /\ faults < MaxFaults
        /\ faults' = faults + 1
        /\ host' \in {host, host \ {LastMade}}
  /\ IF cur \in SwallowsUndo
       THEN left' = left - 1 /\ UNCHANGED rerr
       ELSE left' = 0 /\ rerr' = TRUE
  /\ UNCHANGED <<opts, applied, control, work, drifts, history>>

\* Mutant: the count is taken from the record of the manager just finished.
RollbackNextMiscounts ==
  /\ pc = "undoing" /\ cur \in Manager /\ left = 0
  /\ cur' = cur - 1
  /\ left' = IF cur > 1 THEN Len(applied[cur]) ELSE 0
  /\ UNCHANGED <<host, opts, applied, pc, verb, plan, ret, verbs, work, rerr, world, history>>

RollbackNext ==
  /\ pc = "undoing" /\ cur \in Manager /\ left = 0
  /\ cur' = cur - 1
  /\ left' = IF cur > 1 THEN Len(applied[cur - 1]) ELSE 0
  /\ UNCHANGED <<host, opts, applied, pc, verb, plan, ret, verbs, work, rerr, world, history>>

\* The record is kept: a second Rollback goes through it again.
RollbackReturns ==
  /\ pc = "undoing" /\ cur = 0
  /\ Return(IF rerr THEN "error" ELSE "ok")
  /\ UNCHANGED <<host, opts, applied, work, undoing, world, history>>

----------------------------------------------------------------------------
(* Another actor on the host: an administrator, a second linuxctl. *)

Drift(c) ==
  /\ drifts < MaxDrifts
  /\ drifts' = drifts + 1
  /\ host' \in {h \in {host \union {c}, host \ {c}} : Consistent(h)}
  /\ UNCHANGED <<opts, applied, control, work, undoing, faults, history>>

Step ==
  \/ PlanManager \/ PlanOverlooks \/ PlanFails \/ PlanReturns
  \/ BeginApplying \/ DryRunManager \/ ProbeFails \/ ReloadFails
  \/ ManagerReturns \/ ApplyReturns
  \/ \E c \in Change : ApplySucceeds(c) \/ ApplyFails(c)
  \/ UndoSkips \/ UndoSucceeds \/ UndoFails \/ RollbackNext \/ RollbackReturns

Next ==
  \/ Begin("plan") \/ Begin("apply") \/ BeginRollback
  \/ Step
  \/ Restart
  \/ \E c \in Shared : Drift(c)

\* A verb in progress goes on, provided that every command of the session
\* returns: the verb's context never ends by itself (deadlineCtx sets no
\* deadline).  Nothing makes a user call a verb, or another actor act.
Spec == Init /\ [][Next]_vars /\ WF_vars(Step)

----------------------------------------------------------------------------
(* Properties. *)

Verb == {"none", "plan", "apply", "rollback"}

\* The variables keep the shapes the Go types give them.
TypeOK ==
  /\ host \subseteq Change
  /\ opts \in Options
  /\ applied \in [Manager -> Seq(Change)]
  /\ pc \in {"idle", "planning", "applying", "undoing"} /\ verb \in Verb
  /\ cur \in 0 .. N + 1
  /\ plan \in [Manager -> SUBSET Change] /\ todo \subseteq Change
  /\ res \in Result
  /\ agg \in Aggregate
  /\ merr \in BOOLEAN /\ rerr \in BOOLEAN /\ ret \in {"ok", "error"}
  /\ left \in Nat /\ verbs \in Nat /\ faults \in Nat /\ drifts \in Nat
  /\ pc = "undoing" /\ cur \in Manager => left <= Len(applied[cur])
  /\ born \in [host : SUBSET Change, faults : Nat, drifts : Nat]
  /\ missed \subseteq Change

Of(m) == ToSet(Wanted[m])
Recorded == ToSet(res.applied) \union UNION {ToSet(applied[m]) : m \in Manager}
SideEffects(S) == UNION {Provides[c] : c \in S}
NothingHides == \A c \in Change : Hides[c] = {}
NobodyElse == drifts = born.drifts
Touched == agg.applied \union agg.failed

\* Once a manager that stops at its first failure (disk, mount) has reported
\* one, no change of a later manager is applied or even tried in that Apply,
\* unless the run was asked to continue on errors (TestOrchestrator_Apply_StopOnError).
FailureStopsTheRest ==
  verb = "apply" /\ ~opts.continueOnError =>
    \A m \in StopsAtFailure, c \in agg.failed :
      c \in Of(m) =>
        \A later \in Manager :
          later > m => Of(later) \cap (Touched \union ToSet(res.applied) \union res.failed) = {}

\* An Apply that returns no error, and was not told to swallow errors, has put
\* every planned change in exactly one of Applied, Skipped and Failed: with
\* managers of either style, a change cannot slip through between plan and result.
AccountedFor ==
  /\ agg.applied \cap agg.failed = {}
  /\ agg.skipped \cap Touched = {}
  /\ pc = "idle" /\ verb = "apply" /\ ret = "ok" /\ ~opts.continueOnError =>
       UNION {plan[m] : m \in Manager} = agg.applied \union agg.skipped \union agg.failed

\* After the first Apply of a process, whatever came into effect on the host
\* is recorded for Rollback or reported as failed, or is a side effect of such
\* a change: also when a manager stopped half way or its final reload failed.
\* And every planned change is accounted for.
NoSilentChange ==
  /\ AccountedFor
  /\ pc = "idle" /\ verb = "apply" /\ verbs = 1 /\ NobodyElse =>
       LET known == Recorded \union agg.failed
       IN  host \ born.host \subseteq known \union SideEffects(known)

\* As long as nobody else changes the host, no sequence of Plan, Apply and
\* Rollback of one process takes away a thing that was there when it started,
\* although the record is never cleared and Rollback may run it again.  The one
\* loss: a thing that a failed probe of this very process hid, which is planned,
\* made once more without complaint, recorded, and so undone.  What groupadd or
\* lvcreate would refuse to make twice is safe even then.
NothingOfOthersLost ==
  NobodyElse /\ NothingHides => born.host \ (missed \ Exclusive) \subseteq host

\* c is planned before d: by an earlier manager (defaultOrder), or earlier in the
\* list of the same manager's Plan.
ComesBefore(c, d) ==
  \/ \E m1, m2 \in Manager : m1 < m2 /\ c \in Of(m1) /\ d \in Of(m2)
  \/ \E m \in Manager : \E i \in DOMAIN Wanted[m] :
        /\ c = Wanted[m][i] /\ d \in Of(m)
        /\ \A j \in 1 .. i : Wanted[m][j] # d

\* The changes some manager may plan.
Planned == UNION {Of(m) : m \in Manager}

\* The managers are ordered by what their changes need: whatever a change stands
\* on is planned before it, unless its command would find that it exists.
NeedsComeFirst ==
  \A d \in Planned : \A c \in Needs[d] \cap Planned \cap Undoable :
     c \notin Exclusive => ComesBefore(c, d)

\* What comes along with a change brings what it stands on with it, too; and
\* what of that a later manager plans as well, its command finds to exist (a
\* package's post-install creates a user and the group, groupadd then fails).
CompanionsStand ==
  \A e \in Planned : \A p \in Provides[e] \cap Undoable : \A c \in Needs[p] \cap Undoable :
     /\ c \in Provides[e]
     /\ c \in Planned => c \in Exclusive /\ ComesBefore(e, c)

\* When no command failed for an outside reason and nobody else acted, a
\* Rollback after an Apply without failures succeeds and leaves no change in
\* effect that its managers can undo, except side effects of other changes:
\* reverse order is what keeps every undo command free of "still in use".
RollbackRestores ==
  /\ pc = "idle" /\ verb = "rollback" /\ verbs = 2 /\ agg.failed = {}
  /\ NobodyElse /\ faults = born.faults /\ NothingHides
  => /\ ret = "ok"
     /\ (host \ born.host) \cap Undoable \subseteq SideEffects(Change)

\* Every verb comes to an end: no manager's loop waits for a change it has
\* dropped, and a failed undo command does not hold the rollback up.
VerbReturns == pc # "idle" ~> pc = "idle"

\* The promise to the host's owner: see ManagedHost.
Host == INSTANCE ManagedHost WITH
  mode <- IF pc = "applying" /\ ~opts.dryRun THEN "writing"
          ELSE IF pc = "undoing" THEN "undoing" ELSE "idle",
  mine <- Recorded

KeepsHostPromise == Host!Spec
=============================================================================
