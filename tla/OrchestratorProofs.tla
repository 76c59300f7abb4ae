------------------------- MODULE OrchestratorProofs -------------------------
(***************************************************************************)
(* What holds of the orchestrator for any number of managers, any changes, *)
(* any effects and any bounds; of Rollback, for effects that agree with    *)
(* the order of the managers.                                              *)
(***************************************************************************)
EXTENDS Orchestrator, SequenceTheorems, TLAPS

-----------------------------------------------------------------------------
(* Sequences. *)

\* The elements of a sequence over S are in S (o.applied, r.Applied).
LEMMA ToSetType ==
  ASSUME NEW S, NEW s \in Seq(S)
  PROVE  ToSet(s) \subseteq S
BY RangeOfSeq DEF ToSet, Range

\* Concatenating two sequences puts their elements together.
LEMMA ToSetConcat ==
  ASSUME NEW S, NEW s \in Seq(S), NEW t \in Seq(S)
  PROVE  ToSet(s \o t) = ToSet(s) \union ToSet(t)
<1>1. Range(s \o t) = Range(s) \union Range(t)
  BY RangeConcatenation
<1>. QED
  BY <1>1, Zenon DEF ToSet, Range

\* Appending c adds c to the elements.
LEMMA ToSetAppend ==
  ASSUME NEW S, NEW s \in Seq(S), NEW c \in S
  PROVE  ToSet(Append(s, c)) = ToSet(s) \union {c}
<1>1. Append(s, c) = s \o <<c>>
  BY AppendIsConcat
<1>2. <<c>> \in Seq(S) /\ ToSet(<<c>>) = {c}
  <2>1. <<c>> \in Seq(S) /\ DOMAIN <<c>> = {1} /\ <<c>>[1] = c
    OBVIOUS
  <2>. QED
    BY <2>1, Zenon DEF ToSet
<1>3. ToSet(s \o <<c>>) = ToSet(s) \union ToSet(<<c>>)
  BY <1>2, ToSetConcat
<1>4. ToSet(s \o <<c>>) = ToSet(s) \union {c}
  BY <1>2, <1>3, Zenon
<1>. QED
  BY <1>1, <1>4, Zenon

\* The empty sequence has no elements.
LEMMA ToSetEmpty == ToSet(<<>>) = {}
BY DEF ToSet

\* The changes a manager may plan are changes.
LEMMA OfType == \A m \in Manager : Of(m) \subseteq Change
BY ToSetType, OrchestratorAssumption DEF Of

-----------------------------------------------------------------------------
(* Type correctness. *)

\* The empty results have the types of results.
LEMMA EmptyTypes ==
  /\ NoResult \in Result
  /\ EmptyAgg \in Aggregate
  /\ NoChanges \in [Manager -> SUBSET Change]
  /\ [m \in Manager |-> <<>>] \in [Manager -> Seq(Change)]
<1>1. <<>> \in Seq(Change)
  BY EmptySeq
<1>. QED
  BY <1>1 DEF NoResult, EmptyAgg, NoChanges, Result, Aggregate

\* The variables start typed.
LEMMA InitTypeOK == Init => TypeOK
<1> SUFFICES ASSUME Init PROVE TypeOK
  OBVIOUS
<1>1. host \subseteq Change /\ born \in [host : SUBSET Change, faults : Nat, drifts : Nat]
  BY DEF Init
<1>2. applied \in [Manager -> Seq(Change)] /\ res \in Result /\ agg \in Aggregate
        /\ plan \in [Manager -> SUBSET Change]
  BY EmptyTypes DEF Init
<1>3. merr \in BOOLEAN /\ rerr \in BOOLEAN
  BY Zenon DEF Init
<1>. QED
  BY <1>1, <1>2, <1>3, OrchestratorAssumption DEF Init, TypeOK, Verb

\* Every step keeps the types.
LEMMA StepTypeOK == TypeOK /\ [Next]_vars => TypeOK'
<1> SUFFICES ASSUME TypeOK, [Next]_vars
             PROVE  TypeOK'
  OBVIOUS
<1> USE OrchestratorAssumption DEF TypeOK, Verb, control, work, undoing, world, history
<1>0. /\ \A m \in Manager : Len(applied[m]) \in Nat
      /\ \A m \in Manager : m \in Nat /\ m + 1 \in 0 .. N + 1 /\ m - 1 \in 0 .. N + 1
      /\ 1 \in Manager /\ N \in Manager
  BY LenProperties DEF Manager
<1>1. ASSUME NEW v \in {"plan", "apply"}, Begin(v)
      PROVE  TypeOK'
  BY <1>1, EmptyTypes DEF Begin
<1>2. CASE PlanManager
  <2>1. ToSet(Wanted[cur]) \subseteq Change
    BY <1>2, ToSetType DEF PlanManager
  <2>. QED
    BY <1>0, <1>2, <2>1 DEF PlanManager
<1>22. CASE PlanOverlooks
  <2>1. PICK hid \in SUBSET Change :
          /\ plan' = [plan EXCEPT ![cur] = ToSet(Wanted[cur]) \ (host \ hid)]
          /\ missed' = missed \union hid
    BY <1>22 DEF PlanOverlooks
  <2>2. ToSet(Wanted[cur]) \subseteq Change /\ plan' \in [Manager -> SUBSET Change]
    <3>1. ToSet(Wanted[cur]) \subseteq Change
      BY <1>22, ToSetType DEF PlanOverlooks
    <3>. QED
      BY <2>1, <3>1
  <2>3. cur' \in 0 .. N + 1 /\ faults' \in Nat /\ pc = "planning" /\ missed' \subseteq Change
    BY <1>0, <1>22, <2>1 DEF PlanOverlooks
  <2>. QED
    BY <1>22, <2>2, <2>3 DEF PlanOverlooks
<1>3. CASE PlanFails
  BY <1>3 DEF PlanFails, Return
<1>4. CASE PlanReturns
  BY <1>4 DEF PlanReturns, Return
<1>5. CASE BeginApplying
  <2>1. res' = NoResult /\ merr' = FALSE /\ cur' = 1 /\ todo' = plan[1]
    BY <1>0, <1>5 DEF BeginApplying, Enter
  <2>2. merr' \in BOOLEAN
    BY <2>1, Zenon
  <2>. QED
    BY <1>0, <1>5, <2>1, <2>2, EmptyTypes DEF BeginApplying
<1>6. CASE DryRunManager
  <2>1. res' \in Result
    BY <1>6 DEF DryRunManager, Result
  <2>. QED
    BY <1>6, <2>1 DEF DryRunManager, Running
<1>7. ASSUME NEW c \in Change, ApplySucceeds(c)
      PROVE  TypeOK'
  <2>1. host' \subseteq Change
    BY <1>7 DEF ApplySucceeds, AfterEffect
  <2>2. res.applied \in Seq(Change)
    BY DEF Result
  <2>3. Append(res.applied, c) \in Seq(Change)
    BY <2>2, AppendProperties
  <2>4. res' \in Result
    BY <1>7, <2>3 DEF ApplySucceeds, Result
  <2>. QED
    BY <1>7, <2>1, <2>4 DEF ApplySucceeds, Running
<1>8. ASSUME NEW c \in Change, ApplyFails(c)
      PROVE  TypeOK'
  <2>1. host' \subseteq Change /\ faults' \in Nat
    BY <1>8 DEF ApplyFails, AfterEffect
  <2>2. merr' \in BOOLEAN
    BY <1>8 DEF ApplyFails
  <2>3. res' \in Result
    BY <1>8 DEF ApplyFails, Result
  <2>. QED
    BY <1>8, <2>1, <2>2, <2>3 DEF ApplyFails, Running
<1>9. CASE ProbeFails
  BY <1>9 DEF ProbeFails, Running
<1>10. CASE ReloadFails
  BY <1>10 DEF ReloadFails, Running
<1>11. CASE ManagerReturns
  <2>0. res.applied \in Seq(Change) /\ cur \in Manager
    BY <1>11 DEF ManagerReturns, Result
  <2>1. applied[cur] \o res.applied \in Seq(Change)
    BY <2>0, ConcatProperties
  <2>2. applied' \in [Manager -> Seq(Change)]
    BY <1>11, <2>1 DEF ManagerReturns
  <2>3. ToSet(res.applied) \subseteq Change
    BY <2>0, ToSetType
  <2>4. agg' \in Aggregate
    BY <1>11, <2>3 DEF ManagerReturns, Aggregate, Result
  <2>5. CASE merr /\ ~opts.continueOnError
    BY <1>11, <2>2, <2>4, <2>5, EmptyTypes DEF ManagerReturns, Return
  <2>6. CASE ~merr \/ opts.continueOnError
    <3>1. Enter(cur + 1) /\ pc' = pc /\ verb' = verb /\ plan' = plan /\ ret' = ret /\ verbs' = verbs
      BY <1>11, <2>6 DEF ManagerReturns
    <3>2. cur' \in 0 .. N + 1 /\ todo' \subseteq Change /\ merr' = FALSE /\ res' = NoResult
      BY <1>0, <2>0, <3>1 DEF Enter
    <3>3. pc = "applying"
      BY <1>11 DEF ManagerReturns
    <3>. QED
      BY <1>11, <2>2, <2>4, <3>1, <3>2, <3>3, EmptyTypes DEF ManagerReturns
  <2>. QED
    BY <1>11, <2>5, <2>6 DEF ManagerReturns
<1>12. CASE ApplyReturns
  BY <1>12 DEF ApplyReturns, Return
<1>13. CASE BeginRollback
  <2>1. left' \in Nat /\ left' = Len(applied'[cur']) /\ cur' \in 0 .. N + 1
    BY <1>0, <1>13 DEF BeginRollback
  <2>2. rerr' \in BOOLEAN
    BY <1>13, Zenon DEF BeginRollback
  <2>. QED
    BY <1>13, <2>1, <2>2 DEF BeginRollback
<1>14. CASE UndoSkips
  BY <1>0, <1>14 DEF UndoSkips, Undoing
<1>15. CASE UndoSucceeds
  BY <1>0, <1>15 DEF UndoSucceeds, Undoing
<1>16. CASE UndoFails
  <2>1. host' \subseteq Change /\ faults' \in Nat
    BY <1>16 DEF UndoFails
  <2>2. left' \in Nat /\ left' <= left
    BY <1>16 DEF UndoFails, Undoing
  <2>3. rerr' \in BOOLEAN
    BY <1>16 DEF UndoFails
  <2>4. left <= Len(applied[cur]) /\ UNCHANGED <<applied, pc, cur>>
    BY <1>16 DEF UndoFails, Undoing
  <2>5. cur \in Manager => left' <= Len(applied'[cur'])
    BY <1>0, <2>2, <2>4
  <2>. QED
    BY <1>16, <2>1, <2>2, <2>3, <2>4, <2>5 DEF UndoFails, Undoing
<1>17. CASE RollbackNext
  <2>1. cur' \in 0 .. N + 1 /\ left' \in Nat
    BY <1>0, <1>17 DEF RollbackNext, Manager
  <2>2. cur' \in Manager => left' <= Len(applied'[cur'])
    BY <1>0, <1>17 DEF RollbackNext, Manager
  <2>. QED
    BY <1>17, <2>1, <2>2 DEF RollbackNext
<1>18. CASE RollbackReturns
  BY <1>18 DEF RollbackReturns, Return
<1>19. CASE Restart
  <2>1. /\ res' \in Result /\ agg' \in Aggregate
        /\ plan' \in [Manager -> SUBSET Change] /\ applied' \in [Manager -> Seq(Change)]
    BY <1>19, EmptyTypes DEF Restart, Fresh
  <2>2. born' \in [host : SUBSET Change, faults : Nat, drifts : Nat]
    BY <1>19 DEF Restart, Fresh
  <2>3. merr' \in BOOLEAN /\ rerr' \in BOOLEAN
    BY <1>19, Zenon DEF Restart, Fresh
  <2>. QED
    BY <1>19, <2>1, <2>2, <2>3 DEF Restart, Fresh
<1>20. ASSUME NEW c \in Shared, Drift(c)
       PROVE  TypeOK'
  BY <1>20, OrchestratorAssumption DEF Drift
<1>21. CASE UNCHANGED vars
  BY <1>21 DEF vars
<1>. QED
  BY <1>1, <1>2, <1>3, <1>4, <1>5, <1>6, <1>7, <1>8, <1>9, <1>10, <1>11, <1>12,
     <1>13, <1>14, <1>15, <1>16, <1>17, <1>18, <1>19, <1>20, <1>21, <1>22
     DEF Next, Step

\* In every reachable state the variables have their types.
THEOREM TypeCorrect == Spec => []TypeOK
<1>. QED
  BY InitTypeOK, StepTypeOK, PTL DEF Spec

\* Moving a manager's result into the record keeps what is remembered.
LEMMA RecordedMoves ==
  ASSUME TypeOK, cur \in Manager,
         applied' = [applied EXCEPT ![cur] = @ \o res.applied], res' = NoResult
  PROVE  Recorded' = Recorded
<1>1. applied \in [Manager -> Seq(Change)] /\ res.applied \in Seq(Change)
  BY DEF TypeOK, Result
<1>2. \A m \in Manager : applied'[m] = IF m = cur THEN applied[m] \o res.applied ELSE applied[m]
  BY <1>1
<1>3. ToSet(applied'[cur]) = ToSet(applied[cur]) \union ToSet(res.applied)
  BY <1>1, <1>2, ToSetConcat
<1>4. ToSet(res'.applied) = {}
  BY ToSetEmpty DEF NoResult
<1>. QED
  BY <1>2, <1>3, <1>4 DEF Recorded

\* A change an undo command is run for is one the record holds.
LEMMA UndoneIsRecorded ==
  ASSUME TypeOK, Undoing
  PROVE  LastMade \in Recorded
<1>1. /\ cur \in Manager /\ applied[cur] \in Seq(Change)
      /\ left \in 1 .. Len(applied[cur])
  BY DEF TypeOK, Undoing
<1>2. LastMade \in ToSet(applied[cur])
  BY <1>1 DEF ToSet, LastMade
<1>. QED
  BY <1>1, <1>2 DEF Recorded

-----------------------------------------------------------------------------
(* What was on the host when the process started stays on it. *)

\* What a failed probe hid, and a command makes a second time without complaint.
Losable == missed \ Exclusive

\* While nobody else acts, nothing the process plans, works on or remembers
\* was in effect when it started, but for what a failed probe hid; of that, it
\* remembers only what its command did not find to exist.
OwnInv ==
  /\ born.drifts <= drifts
  /\ NobodyElse /\ NothingHides =>
       /\ born.host \subseteq host \union Losable
       /\ todo \cap born.host \subseteq missed
       /\ ToSet(res.applied) \cap born.host \subseteq Losable
       /\ \A m \in Manager : /\ plan[m] \cap born.host \subseteq missed
                             /\ ToSet(applied[m]) \cap born.host \subseteq Losable

\* Nothing is applied at the start.
LEMMA InitOwn == Init => OwnInv
BY ToSetEmpty DEF Init, OwnInv, NoResult, NoChanges

\* Every step keeps each call to its own changes.
LEMMA StepOwn == TypeOK /\ TypeOK' /\ OwnInv /\ [Next]_vars => OwnInv'
<1> SUFFICES ASSUME TypeOK, TypeOK', OwnInv, [Next]_vars
             PROVE  OwnInv'
  OBVIOUS
<1> USE DEF control, work, undoing, world, history, NobodyElse
<1>0. /\ drifts \in Nat /\ born.drifts \in Nat /\ host \subseteq Change
      /\ res.applied \in Seq(Change)
      /\ applied \in [Manager -> Seq(Change)]
  BY DEF TypeOK, Result
<1>1. ASSUME NEW v \in {"plan", "apply"}, Begin(v)
      PROVE  OwnInv'
  BY <1>1 DEF Begin, OwnInv, Losable, NoChanges
<1>2. CASE PlanManager
  <2>1. ASSUME NEW m \in Manager
        PROVE  plan'[m] = plan[m] \/ plan'[m] \cap host = {}
    BY <1>2 DEF PlanManager, TypeOK
  <2>. QED
    BY <1>2, <2>1 DEF PlanManager, OwnInv, Losable
<1>21. CASE PlanOverlooks
  <2>1. PICK hid \in SUBSET Change :
          /\ plan' = [plan EXCEPT ![cur] = ToSet(Wanted[cur]) \ (host \ hid)]
          /\ missed' = missed \union hid
    BY <1>0, <1>21 DEF PlanOverlooks
  <2>2. UNCHANGED <<host, drifts, born, todo, res, applied>> /\ plan \in [Manager -> SUBSET Change]
    BY <1>21 DEF PlanOverlooks, TypeOK
  <2>3. ASSUME NEW m \in Manager
        PROVE  plan'[m] = plan[m] \/ plan'[m] \cap host \subseteq hid
    BY <2>1, <2>2
  <2>. QED
    BY <2>1, <2>2, <2>3 DEF OwnInv, Losable
<1>3. CASE PlanFails
  BY <1>3 DEF PlanFails, Return, OwnInv, Losable
<1>4. CASE PlanReturns
  BY <1>4 DEF PlanReturns, Return, OwnInv, Losable
<1>5. CASE BeginApplying
  BY <1>5, ToSetEmpty DEF BeginApplying, Enter, OwnInv, Losable, NoResult
<1>6. CASE DryRunManager
  <2>1. res'.applied = res.applied
    BY <1>6 DEF DryRunManager, TypeOK, Result
  <2>. QED
    BY <1>6, <2>1 DEF DryRunManager, OwnInv, Losable
<1>7. ASSUME NEW c \in Change, ApplySucceeds(c)
      PROVE  OwnInv'
  <2>1. c \in todo /\ todo' = todo \ {c} /\ UNCHANGED <<drifts, born, plan, applied>>
    BY <1>7 DEF ApplySucceeds, IsNext
  <2>2. NothingHides => host \subseteq host'
    BY <1>0, <1>7 DEF ApplySucceeds, AfterEffect, NothingHides
  <2>3. res'.applied = Append(res.applied, c)
    BY <1>7 DEF ApplySucceeds, TypeOK, Result
  <2>4. ToSet(res'.applied) = ToSet(res.applied) \union {c}
    BY <1>0, <2>3, ToSetAppend
  <2>5. c \in Exclusive => c \notin host
    BY <1>7 DEF ApplySucceeds, CommandWorks
  <2>6. missed' = missed
    BY <1>7 DEF ApplySucceeds
  <2>. QED
    BY <2>1, <2>2, <2>4, <2>5, <2>6 DEF OwnInv, Losable
<1>8. ASSUME NEW c \in Change, ApplyFails(c)
      PROVE  OwnInv'
  <2>1. todo' \subseteq todo /\ UNCHANGED <<drifts, born, missed, plan, applied>>
    BY <1>8 DEF ApplyFails
  <2>2. NothingHides => host \subseteq host'
    BY <1>0, <1>8 DEF ApplyFails, AfterEffect, NothingHides
  <2>3. res'.applied = res.applied
    BY <1>8 DEF ApplyFails, TypeOK, Result
  <2>. QED
    BY <2>1, <2>2, <2>3 DEF OwnInv, Losable
<1>9. CASE ProbeFails
  BY <1>9 DEF ProbeFails, OwnInv, Losable
<1>10. CASE ReloadFails
  BY <1>10 DEF ReloadFails, OwnInv, Losable
<1>11. CASE ManagerReturns
  <2>1. ASSUME NEW m \in Manager
        PROVE  ToSet(applied'[m]) \subseteq ToSet(applied[m]) \union ToSet(res.applied)
    <3>1. m = cur => ToSet(applied'[m]) = ToSet(applied[m]) \union ToSet(res.applied)
      BY <1>0, <1>11, ToSetConcat DEF ManagerReturns
    <3>2. m # cur => applied'[m] = applied[m]
      BY <1>0, <1>11 DEF ManagerReturns
    <3>. QED
      BY <3>1, <3>2
  <2>2. /\ UNCHANGED <<host, drifts, born, missed, plan>> /\ res' = NoResult
        /\ todo' = {} \/ \E m \in Manager : todo' = plan[m]
    BY <1>11 DEF ManagerReturns, Enter, Return
  <2>3. ToSet(res'.applied) = {}
    BY <2>2, ToSetEmpty DEF NoResult
  <2>. QED
    BY <2>1, <2>2, <2>3 DEF OwnInv, Losable
<1>12. CASE ApplyReturns
  BY <1>12 DEF ApplyReturns, Return, OwnInv, Losable
<1>13. CASE BeginRollback
  BY <1>13 DEF BeginRollback, OwnInv, Losable
<1>14. CASE UndoSkips
  BY <1>14 DEF UndoSkips, OwnInv, Losable
<1>15. CASE UndoSucceeds \/ UndoFails
  <2>1. LastMade \in ToSet(applied[cur]) /\ cur \in Manager
    BY <1>0, <1>15, LenProperties DEF UndoSucceeds, UndoFails, Undoing, TypeOK, ToSet, LastMade
  <2>2. host' = host \/ host' = host \ {LastMade}
    BY <1>15 DEF UndoSucceeds, UndoFails
  <2>3. UNCHANGED <<applied, plan, todo, res, born, missed, drifts>>
    BY <1>15 DEF UndoSucceeds, UndoFails
  <2>. QED
    BY <2>1, <2>2, <2>3 DEF OwnInv, Losable
<1>16. CASE RollbackNext
  BY <1>16 DEF RollbackNext, OwnInv, Losable
<1>17. CASE RollbackReturns
  BY <1>17 DEF RollbackReturns, Return, OwnInv, Losable
<1>18. CASE Restart
  BY <1>0, <1>18, ToSetEmpty DEF Restart, Fresh, OwnInv, Losable, NoResult, NoChanges
<1>19. ASSUME NEW c \in Shared, Drift(c)
       PROVE  OwnInv'
  BY <1>0, <1>19 DEF Drift, OwnInv, Losable
<1>20. CASE UNCHANGED vars
  BY <1>20 DEF vars, OwnInv, Losable, NothingHides
<1>. QED
  BY <1>1, <1>2, <1>3, <1>4, <1>5, <1>6, <1>7, <1>8, <1>9, <1>10, <1>11, <1>12,
     <1>13, <1>14, <1>15, <1>16, <1>17, <1>18, <1>19, <1>20, <1>21 DEF Next, Step

\* As long as nobody else changes the host and no change hides another one, no
\* sequence of verbs of a process takes away what was in effect when it
\* started, however often Rollback runs through the record and whichever probes
\* fail, but for what a failed probe hid and its command made once more.
THEOREM OthersAreSafe == Spec => []NothingOfOthersLost
<1>1. OwnInv => NothingOfOthersLost
  BY DEF OwnInv, NothingOfOthersLost, Losable
<1>. QED
  BY <1>1, InitOwn, StepOwn, TypeCorrect, PTL DEF Spec

-----------------------------------------------------------------------------
(* A manager that stops at its first failure stops the run. *)

\* The changes the manager whose turn it is may be working on.
OfCur == IF cur \in Manager THEN Of(cur) ELSE {}

\* Between managers: later ones are untouched, and no stopping manager has
\* failed, for the run would have returned.  Within a manager: it works only
\* on its own changes, and a stopping one that failed is about to return.
StopInv ==
  /\ pc # "applying" => todo = {} /\ res = NoResult
  /\ \A m \in Manager : plan[m] \subseteq Of(m)
  /\ pc = "planning" /\ verb = "apply" => agg = EmptyAgg
  /\ pc = "applying" =>
       /\ verb = "apply"
       /\ todo \subseteq OfCur /\ ToSet(res.applied) \subseteq OfCur /\ res.failed \subseteq OfCur
       /\ cur \notin Manager => res = NoResult
       /\ \A m \in Manager : m >= cur => Of(m) \cap Touched = {}
       /\ ~opts.continueOnError => \A m \in StopsAtFailure : Of(m) \cap agg.failed = {}
       /\ ~merr => \A m \in StopsAtFailure : Of(m) \cap res.failed = {}
  /\ FailureStopsTheRest

\* No change belongs to two managers.
LEMMA OwnersDiffer ==
  ASSUME NEW m1 \in Manager, NEW m2 \in Manager, m1 # m2
  PROVE  Of(m1) \cap Of(m2) = {}
BY OrchestratorAssumption DEF Of

\* No apply has stopped at the start.
LEMMA InitStop == Init => StopInv
BY ToSetEmpty
   DEF Init, StopInv, FailureStopsTheRest, NoResult, NoChanges, EmptyAgg

\* Every step keeps the stop where the failure was.
LEMMA StepStop == TypeOK /\ TypeOK' /\ StopInv /\ [Next]_vars => StopInv'
<1> SUFFICES ASSUME TypeOK, TypeOK', StopInv, [Next]_vars
             PROVE  StopInv'
  OBVIOUS
<1> USE DEF control, work, undoing, world, history, Touched
<1>0. /\ cur \in 0 .. N + 1 /\ N \in Nat /\ StopsAtFailure \subseteq Manager
      /\ res \in Result /\ agg \in Aggregate /\ res.applied \in Seq(Change)
      /\ ToSet(NoResult.applied) = {} /\ NoResult.failed = {}
      /\ EmptyAgg.applied = {} /\ EmptyAgg.failed = {}
      /\ 1 \in Manager
  <2>1. /\ cur \in 0 .. N + 1 /\ N \in Nat /\ StopsAtFailure \subseteq Manager
        /\ res \in Result /\ agg \in Aggregate /\ 1 \in Manager
    BY OrchestratorAssumption DEF TypeOK, Manager
  <2>2. res.applied \in Seq(Change)
    BY <2>1 DEF Result
  <2>3. NoResult.applied = <<>> /\ NoResult.failed = {}
    BY DEF NoResult
  <2>4. EmptyAgg.applied = {} /\ EmptyAgg.failed = {}
    BY DEF EmptyAgg
  <2>. QED
    BY <2>1, <2>2, <2>3, <2>4, ToSetEmpty
<1>1. ASSUME NEW v \in {"plan", "apply"}, Begin(v)
      PROVE  StopInv'
  BY <1>0, <1>1 DEF Begin, StopInv, FailureStopsTheRest, NoChanges
<1>2. CASE PlanManager
  <2>1. \A m \in Manager : plan'[m] \subseteq Of(m)
    BY <1>2 DEF PlanManager, StopInv, TypeOK, Of
  <2>. QED
    BY <1>0, <1>2, <2>1 DEF PlanManager, StopInv, FailureStopsTheRest
<1>19. CASE PlanOverlooks
  <2>1. PICK hid \in SUBSET Change :
          plan' = [plan EXCEPT ![cur] = ToSet(Wanted[cur]) \ (host \ hid)]
    BY <1>19, OfType DEF PlanOverlooks, Of, TypeOK
  <2>2. plan \in [Manager -> SUBSET Change]
    BY DEF TypeOK
  <2>3. \A m \in Manager : plan'[m] \subseteq Of(m)
    BY <2>1, <2>2 DEF StopInv, Of
  <2>. QED
    BY <1>0, <1>19, <2>3 DEF PlanOverlooks, StopInv, FailureStopsTheRest
<1>3. CASE PlanFails
  BY <1>0, <1>3 DEF PlanFails, Return, StopInv, FailureStopsTheRest
<1>4. CASE PlanReturns
  BY <1>0, <1>4 DEF PlanReturns, Return, StopInv, FailureStopsTheRest
<1>5. CASE BeginApplying
  <2>1. /\ pc = "planning" /\ verb = "apply" /\ agg = EmptyAgg /\ agg' = agg /\ verb' = verb
        /\ res' = NoResult /\ cur' = 1 /\ todo' = plan[1] /\ plan' = plan /\ pc' = "applying"
    BY <1>0, <1>5 DEF BeginApplying, Enter, StopInv
  <2>2. todo' \subseteq OfCur'
    BY <1>0, <2>1 DEF OfCur, StopInv
  <2>. QED
    BY <1>0, <2>1, <2>2 DEF StopInv, FailureStopsTheRest
<1>6. CASE DryRunManager
  <2>1. /\ res'.applied = res.applied /\ res'.failed = res.failed /\ todo' = {}
        /\ pc = "applying" /\ cur \in Manager /\ UNCHANGED <<pc, verb, cur, plan, merr, agg, opts>>
    BY <1>0, <1>6 DEF DryRunManager, Running, Result
  <2>. QED
    BY <1>0, <2>1 DEF StopInv, FailureStopsTheRest, OfCur
<1>7. ASSUME NEW c \in Change, ApplySucceeds(c)
      PROVE  StopInv'
  <2>1. /\ c \in todo /\ todo' = todo \ {c} /\ pc = "applying" /\ cur \in Manager
        /\ UNCHANGED <<pc, verb, cur, plan, merr, agg, opts>>
    BY <1>7 DEF ApplySucceeds, Running, IsNext
  <2>2. res'.applied = Append(res.applied, c) /\ res'.failed = res.failed
    BY <1>0, <1>7 DEF ApplySucceeds, Result
  <2>3. ToSet(res'.applied) = ToSet(res.applied) \union {c}
    BY <1>0, <2>2, ToSetAppend
  <2>4. verb = "apply" /\ (~opts.continueOnError =>
              \A m \in StopsAtFailure : Of(m) \cap agg.failed = {})
    BY <2>1 DEF StopInv
  <2>5. FailureStopsTheRest'
    BY <2>1, <2>4 DEF FailureStopsTheRest
  <2>6. c \in OfCur
    BY <2>1 DEF StopInv
  <2>. QED
    BY <1>0, <2>1, <2>2, <2>3, <2>5, <2>6 DEF StopInv, OfCur
<1>8. ASSUME NEW c \in Change, ApplyFails(c)
      PROVE  StopInv'
  <2>1. /\ c \in todo /\ todo' = todo \ {c} /\ pc = "applying" /\ cur \in Manager
        /\ UNCHANGED <<pc, verb, cur, plan, agg, opts>>
        /\ ~merr /\ merr' = (cur \in StopsAtFailure)
    BY <1>8 DEF ApplyFails, Running, IsNext
  <2>2. res'.applied = res.applied /\ res'.failed = res.failed \union {c}
    BY <1>0, <1>8 DEF ApplyFails, Result
  <2>3. c \in Of(cur) /\ OfCur = Of(cur)
    BY <2>1 DEF StopInv, OfCur
  <2>4. verb = "apply" /\ (~opts.continueOnError =>
              \A m \in StopsAtFailure : Of(m) \cap agg.failed = {})
    BY <2>1 DEF StopInv
  <2>5. FailureStopsTheRest'
    BY <2>1, <2>4 DEF FailureStopsTheRest
  <2>6. ~merr' => \A m \in StopsAtFailure : Of(m) \cap res'.failed = {}
    <3>1. ASSUME ~merr', NEW m \in StopsAtFailure
          PROVE  c \notin Of(m)
      BY <1>0, <2>1, <2>3, <3>1, OwnersDiffer
    <3>. QED
      BY <2>1, <2>2, <3>1 DEF StopInv
  <2>. QED
    BY <1>0, <2>1, <2>2, <2>3, <2>5, <2>6 DEF StopInv, OfCur
<1>9. CASE ProbeFails \/ ReloadFails
  <2>1. /\ merr' = TRUE /\ pc = "applying"
        /\ UNCHANGED <<pc, verb, cur, plan, todo, res, agg, opts>>
    BY <1>9 DEF ProbeFails, ReloadFails, Running
  <2>. QED
    BY <1>0, <2>1 DEF StopInv, FailureStopsTheRest, OfCur
<1>10. CASE ManagerReturns
  <2>1. /\ pc = "applying" /\ cur \in Manager /\ verb = "apply" /\ OfCur = Of(cur)
        /\ UNCHANGED <<verb, plan, opts>> /\ res' = NoResult
    BY <1>10 DEF ManagerReturns, StopInv, OfCur, Enter, Return
  <2>2. /\ agg'.failed = agg.failed \union res.failed
        /\ agg'.applied = agg.applied \union ToSet(res.applied)
    BY <1>10 DEF ManagerReturns
  <2>3. \A m \in Manager : m > cur => Of(m) \cap Touched' = {}
    <3>1. ASSUME NEW m \in Manager, m > cur
          PROVE  Of(m) \cap Of(cur) = {} /\ Of(m) \cap Touched = {}
      <4>1. m # cur /\ m >= cur
        BY <2>1, <3>1 DEF Manager
      <4>. QED
        BY <2>1, <4>1, OwnersDiffer DEF StopInv
    <3>2. Touched' \subseteq Touched \union Of(cur)
      BY <2>1, <2>2 DEF StopInv
    <3>. QED
      BY <3>1, <3>2
  <2>4. CASE merr /\ ~opts.continueOnError
    <3>1. pc' = "idle" /\ todo' = {} /\ cur' = cur
      BY <1>10, <2>4 DEF ManagerReturns, Return
    <3>2. FailureStopsTheRest'
      <4> SUFFICES ASSUME NEW m \in StopsAtFailure, NEW c \in agg'.failed, c \in Of(m),
                          NEW later \in Manager, later > m
                   PROVE  Of(later) \cap Touched' = {}
        BY <1>0, <2>1 DEF FailureStopsTheRest
      <4>1. m \in Manager /\ c \in res.failed
        BY <1>0, <2>1, <2>2, <2>4 DEF StopInv
      <4>2. m = cur
        BY <2>1, <4>1, OwnersDiffer DEF StopInv
      <4>. QED
        BY <2>3, <4>2
    <3>. QED
      BY <1>0, <2>1, <3>1, <3>2 DEF StopInv
  <2>5. CASE ~(merr /\ ~opts.continueOnError)
    <3>1. /\ pc' = "applying" /\ cur' = cur + 1
          /\ todo' = IF cur + 1 \in Manager THEN plan[cur + 1] ELSE {}
      BY <1>10, <2>1, <2>5 DEF ManagerReturns, Enter
    <3>2. todo' \subseteq OfCur'
      BY <2>1, <3>1 DEF StopInv, OfCur
    <3>3. \A m \in Manager : m >= cur' => Of(m) \cap Touched' = {}
      BY <2>1, <2>3, <3>1 DEF Manager
    <3>4. ~opts.continueOnError => \A m \in StopsAtFailure : Of(m) \cap agg'.failed = {}
      BY <2>1, <2>2, <2>5 DEF StopInv
    <3>5. FailureStopsTheRest'
      BY <2>1, <3>4 DEF FailureStopsTheRest
    <3>. QED
      BY <1>0, <2>1, <3>1, <3>2, <3>3, <3>4, <3>5 DEF StopInv
  <2>. QED
    BY <2>4, <2>5
<1>11. CASE ApplyReturns
  <2>1. /\ pc = "applying" /\ cur \notin Manager /\ pc' = "idle"
        /\ UNCHANGED <<verb, plan, agg, opts, todo, res>>
    BY <1>0, <1>11 DEF ApplyReturns, Return, Manager
  <2>2. todo = {} /\ res = NoResult
    BY <2>1 DEF StopInv, OfCur
  <2>. QED
    BY <1>0, <1>11, <2>1, <2>2 DEF StopInv, FailureStopsTheRest
<1>12. CASE BeginRollback
  BY <1>12 DEF BeginRollback, StopInv, FailureStopsTheRest
<1>13. CASE UndoSkips \/ UndoSucceeds \/ UndoFails
  BY <1>13 DEF UndoSkips, UndoSucceeds, UndoFails, Undoing, StopInv, FailureStopsTheRest
<1>14. CASE RollbackNext
  BY <1>14 DEF RollbackNext, StopInv, FailureStopsTheRest
<1>15. CASE RollbackReturns
  BY <1>15 DEF RollbackReturns, Return, StopInv, FailureStopsTheRest
<1>16. CASE Restart
  BY <1>0, <1>16 DEF Restart, Fresh, StopInv, FailureStopsTheRest, NoChanges
<1>17. ASSUME NEW c \in Shared, Drift(c)
       PROVE  StopInv'
  BY <1>17 DEF Drift, StopInv, FailureStopsTheRest, OfCur
<1>18. CASE UNCHANGED vars
  BY <1>18 DEF vars, StopInv, FailureStopsTheRest, OfCur
<1>. QED
  BY <1>1, <1>2, <1>3, <1>4, <1>5, <1>6, <1>7, <1>8, <1>9, <1>10, <1>11, <1>12,
     <1>13, <1>14, <1>15, <1>16, <1>17, <1>18, <1>19 DEF Next, Step

\* For any managers: after a failed change of a manager that stops at failures,
\* no later manager has touched the host in that Apply.
THEOREM StopsAfterFailure == Spec => []FailureStopsTheRest
<1>1. StopInv => FailureStopsTheRest
  BY DEF StopInv
<1>. QED
  BY <1>1, InitStop, StepStop, TypeCorrect, PTL DEF Spec

-----------------------------------------------------------------------------
(* No change goes unsaid. *)

\* What a result or an aggregate lists, and what a manager has not come to.
Listed(r) == r.skipped \union r.failed \union r.applied
Reported == ToSet(res.applied) \union res.skipped \union res.failed

\* Each change of the managers before cur is in one part of the aggregate, each
\* of cur's in what is still to do or in one part of its result.
AccountInv ==
  /\ AccountedFor
  /\ pc = "undoing" => verb = "rollback"
  /\ pc = "applying" =>
       /\ todo # {} => res.skipped = {}
       /\ todo \cap Reported = {}
       /\ ToSet(res.applied) \cap res.failed = {}
       /\ res.skipped \cap (ToSet(res.applied) \union res.failed) = {}
       /\ res.skipped \subseteq OfCur
       /\ \A m \in Manager : m >= cur => Of(m) \cap agg.skipped = {}
       /\ Listed(agg) \subseteq UNION {plan[m] : m \in Manager}
       /\ cur \in Manager => plan[cur] = todo \union Reported
       /\ ~opts.continueOnError => \A m \in Manager : m < cur => plan[m] \subseteq Listed(agg)

\* Everything that Apply did or tried, as far as it has come.
Known == Recorded \union agg.failed \union res.failed

\* Until the first verb is over, and when that is an Apply, nothing has come
\* into effect that is not known.
SilentInv ==
  /\ verbs = 0 => verb = "none"
  /\ verbs = 0 /\ NobodyElse => host = born.host
  /\ pc # "idle" => verbs > 0
  /\ verb = "apply" /\ verbs = 1 /\ NobodyElse =>
       host \ born.host \subseteq Known \union SideEffects(Known)

\* Nothing is accounted for wrongly before the first verb.
LEMMA InitAccount == Init => AccountInv /\ SilentInv
BY DEF Init, AccountInv, SilentInv, AccountedFor, EmptyAgg, NobodyElse, Touched

\* Only calling a verb, and another actor, act while the process is idle, and
\* only Apply's steps change what it reports.
LEMMA AccountFrame ==
  ASSUME [Next]_vars
  PROVE  \/ UNCHANGED <<pc, verb, cur, plan, ret, todo, res, agg, opts>>
         \/ \E v \in {"plan", "apply"} : Begin(v)
         \/ PlanManager \/ PlanOverlooks \/ PlanFails \/ PlanReturns \/ BeginApplying \/ DryRunManager
         \/ \E c \in Change : ApplySucceeds(c) \/ ApplyFails(c)
         \/ ProbeFails \/ ReloadFails \/ ManagerReturns \/ ApplyReturns
         \/ BeginRollback \/ RollbackNext \/ RollbackReturns \/ Restart
BY Zenon DEF Next, Step, UndoSkips, UndoSucceeds, UndoFails, Drift, vars, control, work

\* Every step keeps the account.
LEMMA StepAccount == TypeOK /\ TypeOK' /\ StopInv /\ AccountInv /\ [Next]_vars => AccountInv'
<1> SUFFICES ASSUME TypeOK, TypeOK', StopInv, AccountInv, [Next]_vars
             PROVE  AccountInv'
  OBVIOUS
<1> USE DEF control, work, undoing, world, history, Touched
<1>0. /\ cur \in 0 .. N + 1 /\ N \in Nat /\ 1 \in Manager
      /\ res \in Result /\ agg \in Aggregate /\ res.applied \in Seq(Change)
      /\ plan \in [Manager -> SUBSET Change]
      /\ ToSet(NoResult.applied) = {} /\ NoResult.failed = {} /\ NoResult.skipped = {}
      /\ EmptyAgg.applied = {} /\ EmptyAgg.failed = {} /\ EmptyAgg.skipped = {}
  <2>1. cur \in 0 .. N + 1 /\ N \in Nat /\ res \in Result /\ agg \in Aggregate /\ 1 \in Manager
          /\ plan \in [Manager -> SUBSET Change]
    BY OrchestratorAssumption DEF TypeOK, Manager
  <2>. QED
    BY <2>1, ToSetEmpty DEF Result, NoResult, EmptyAgg
<1>1. CASE UNCHANGED <<pc, verb, cur, plan, ret, todo, res, agg, opts>>
  BY <1>1 DEF AccountInv, AccountedFor, Reported, Listed, OfCur
<1>2. ASSUME NEW v \in {"plan", "apply"}, Begin(v)
      PROVE  AccountInv'
  BY <1>0, <1>2 DEF Begin, AccountInv, AccountedFor
<1>3. CASE PlanManager \/ PlanOverlooks \/ PlanFails \/ PlanReturns
  BY <1>3 DEF PlanManager, PlanOverlooks, PlanFails, PlanReturns, Return, AccountInv, AccountedFor
<1>4. CASE BeginApplying
  <2>1. /\ pc = "planning" /\ verb = "apply" /\ agg = EmptyAgg /\ agg' = agg /\ opts' = opts
        /\ res' = NoResult /\ cur' = 1 /\ todo' = plan[1] /\ plan' = plan /\ pc' = "applying"
    BY <1>0, <1>4 DEF BeginApplying, Enter, StopInv
  <2>2. \A m \in Manager : ~(m < 1)
    BY DEF Manager
  <2>. QED
    BY <1>0, <2>1, <2>2 DEF AccountInv, AccountedFor, Reported, Listed
<1>5. CASE DryRunManager
  <2>1. /\ pc = "applying" /\ cur \in Manager /\ todo # {} /\ todo' = {}
        /\ UNCHANGED <<pc, verb, cur, plan, merr, agg, opts, ret>>
    BY <1>5 DEF DryRunManager, Running
  <2>2. res'.applied = res.applied /\ res'.failed = res.failed /\ res'.skipped = todo
    BY <1>0, <1>5 DEF DryRunManager, Result
  <2>. QED
    BY <1>0, <2>1, <2>2 DEF AccountInv, AccountedFor, Reported, Listed, OfCur, StopInv
<1>6. ASSUME NEW c \in Change, ApplySucceeds(c)
      PROVE  AccountInv'
  <2>1. /\ c \in todo /\ todo' = todo \ {c} /\ pc = "applying" /\ cur \in Manager
        /\ UNCHANGED <<pc, verb, cur, plan, merr, agg, opts, ret>>
    BY <1>6 DEF ApplySucceeds, Running, IsNext
  <2>2. res'.failed = res.failed /\ res'.skipped = res.skipped /\ res'.applied = Append(res.applied, c)
    BY <1>0, <1>6 DEF ApplySucceeds, Result
  <2>3. ToSet(res'.applied) = ToSet(res.applied) \union {c}
    BY <1>0, <2>2, ToSetAppend
  <2>. QED
    BY <1>0, <2>1, <2>2, <2>3 DEF AccountInv, AccountedFor, Reported, Listed, OfCur
<1>7. ASSUME NEW c \in Change, ApplyFails(c)
      PROVE  AccountInv'
  <2>1. /\ c \in todo /\ todo' = todo \ {c} /\ pc = "applying" /\ cur \in Manager
        /\ UNCHANGED <<pc, verb, cur, plan, agg, opts, ret>>
    BY <1>7 DEF ApplyFails, Running, IsNext
  <2>2. /\ res'.failed = res.failed \union {c} /\ res'.skipped = res.skipped
        /\ res'.applied = res.applied
    BY <1>0, <1>7 DEF ApplyFails, Result
  <2>. QED
    BY <1>0, <2>1, <2>2 DEF AccountInv, AccountedFor, Reported, Listed, OfCur
<1>8. CASE ProbeFails \/ ReloadFails
  <2>1. pc = "applying" /\ UNCHANGED <<pc, verb, cur, plan, todo, res, agg, opts, ret>>
    BY <1>8 DEF ProbeFails, ReloadFails, Running
  <2>. QED
    BY <2>1 DEF AccountInv, AccountedFor, Reported, Listed, OfCur
<1>9. CASE ManagerReturns
  <2>1. /\ pc = "applying" /\ cur \in Manager /\ verb = "apply" /\ OfCur = Of(cur)
        /\ UNCHANGED <<verb, plan, opts>> /\ res' = NoResult
        /\ todo = {} \/ merr
    BY <1>9 DEF ManagerReturns, StopInv, OfCur, Enter, Return
  <2>2. /\ agg'.failed = agg.failed \union res.failed
        /\ agg'.applied = agg.applied \union ToSet(res.applied)
        /\ agg'.skipped = agg.skipped \union res.skipped
    BY <1>9 DEF ManagerReturns
  <2>3. Reported \subseteq Of(cur) /\ Reported \subseteq plan[cur]
    BY <2>1 DEF AccountInv, StopInv, Reported
  <2>4. Of(cur) \cap Listed(agg) = {}
    BY <2>1, <1>0 DEF AccountInv, StopInv, Listed
  <2>5. /\ agg'.applied \cap agg'.failed = {}
        /\ agg'.skipped \cap Touched' = {}
    BY <2>1, <2>2, <2>3, <2>4 DEF AccountInv, AccountedFor, Reported, Listed
  <2>6. Listed(agg') = Listed(agg) \union Reported
    BY <2>2 DEF Listed, Reported
  <2>7. CASE merr /\ ~opts.continueOnError
    <3>1. pc' = "idle" /\ ret' = "error"
      BY <1>9, <2>7 DEF ManagerReturns, Return
    <3>. QED
      BY <2>5, <3>1 DEF AccountInv, AccountedFor
  <2>8. CASE ~(merr /\ ~opts.continueOnError)
    <3>1. /\ pc' = "applying" /\ cur' = cur + 1
          /\ todo' = IF cur + 1 \in Manager THEN plan[cur + 1] ELSE {}
      BY <1>9, <2>1, <2>8 DEF ManagerReturns, Enter
    <3>2. Reported' = {} /\ res'.skipped = {}
      BY <1>0, <2>1 DEF Reported
    <3>3. ASSUME NEW m \in Manager, m >= cur'
          PROVE  Of(m) \cap agg'.skipped = {}
      <4>1. m >= cur /\ m # cur
        BY <2>1, <3>1, <3>3 DEF Manager
      <4>2. Of(m) \cap Of(cur) = {} /\ Of(m) \cap agg.skipped = {}
        BY <2>1, <4>1, OwnersDiffer DEF AccountInv
      <4>. QED
        BY <2>2, <2>3, <4>2 DEF Reported
    <3>4. Listed(agg') \subseteq UNION {plan[m] : m \in Manager}
      BY <2>1, <2>3, <2>6 DEF AccountInv
    <3>5. ~opts.continueOnError => \A m \in Manager : m < cur' => plan[m] \subseteq Listed(agg')
      <4> SUFFICES ASSUME ~opts.continueOnError, NEW m \in Manager, m < cur'
                   PROVE  plan[m] \subseteq Listed(agg')
        OBVIOUS
      <4>1. CASE m = cur
        BY <2>1, <2>6, <2>8, <4>1 DEF AccountInv
      <4>2. CASE m # cur
        <5>1. m < cur
          BY <2>1, <3>1, <4>2 DEF Manager
        <5>. QED
          BY <2>1, <2>6, <5>1 DEF AccountInv
      <4>. QED
        BY <4>1, <4>2
    <3>6. ToSet(res'.applied) = {} /\ res'.failed = {}
      BY <1>0, <2>1
    <3>. QED
      BY <2>1, <2>5, <3>1, <3>2, <3>3, <3>4, <3>5, <3>6 DEF AccountInv, AccountedFor
  <2>. QED
    BY <2>7, <2>8
<1>10. CASE ApplyReturns
  <2>1. /\ pc = "applying" /\ cur = N + 1 /\ pc' = "idle"
        /\ UNCHANGED <<verb, plan, agg, opts>>
    BY <1>10 DEF ApplyReturns, Return
  <2>2. \A m \in Manager : m < cur
    BY <1>0, <2>1 DEF Manager
  <2>3. ~opts.continueOnError => UNION {plan[m] : m \in Manager} = Listed(agg)
    BY <2>1, <2>2 DEF AccountInv
  <2>. QED
    BY <2>1, <2>3 DEF AccountInv, AccountedFor, Listed
<1>11. CASE BeginRollback \/ RollbackNext \/ RollbackReturns
  <2>1. pc' # "applying" /\ (pc' # "idle" \/ verb' # "apply") /\ agg' = agg
          /\ (pc' = "undoing" => verb' = "rollback")
    BY <1>11 DEF BeginRollback, RollbackNext, RollbackReturns, Return, AccountInv
  <2>. QED
    BY <2>1 DEF AccountInv, AccountedFor
<1>12. CASE Restart
  BY <1>0, <1>12 DEF Restart, Fresh, AccountInv, AccountedFor
<1>. QED
  BY <1>1, <1>2, <1>3, <1>4, <1>5, <1>6, <1>7, <1>8, <1>9, <1>10, <1>11, <1>12, AccountFrame

-----------------------------------------------------------------------------

\* Every step keeps what is known of the first Apply.
LEMMA StepSilent ==
  TypeOK /\ TypeOK' /\ OwnInv /\ StopInv /\ AccountInv /\ SilentInv /\ [Next]_vars => SilentInv'
<1> SUFFICES ASSUME TypeOK, TypeOK', OwnInv, StopInv, AccountInv, SilentInv, [Next]_vars
             PROVE  SilentInv'
  OBVIOUS
<1> USE DEF control, work, undoing, world, history, NobodyElse
<1>0. /\ verbs \in Nat /\ drifts \in Nat /\ born.drifts \in Nat /\ born.drifts <= drifts
      /\ res \in Result /\ agg \in Aggregate /\ res.applied \in Seq(Change)
  BY DEF TypeOK, OwnInv, Result
<1>1. ASSUME UNCHANGED <<host, verb, verbs, drifts, born, Known>>,
             pc' = pc \/ pc' = "idle" \/ verbs > 0
      PROVE  SilentInv'
  BY <1>0, <1>1 DEF SilentInv, SideEffects
<1>2. ASSUME NEW c \in Change, ApplySucceeds(c) \/ ApplyFails(c)
      PROVE  SilentInv'
  <2>1. /\ pc = "applying" /\ UNCHANGED <<pc, verb, verbs, drifts, born, applied, agg>>
        /\ host' \in {host, AfterEffect(host, c)}
    BY <1>2 DEF ApplySucceeds, ApplyFails, Running
  <2>2. Known' = Known \union {c}
    <3>1. CASE ApplySucceeds(c)
      <4>1. res'.applied = Append(res.applied, c) /\ res'.failed = res.failed
        BY <1>0, <3>1 DEF ApplySucceeds, Result
      <4>2. ToSet(res'.applied) = ToSet(res.applied) \union {c}
        BY <1>0, <4>1, ToSetAppend
      <4>. QED
        BY <2>1, <4>1, <4>2 DEF Known, Recorded
    <3>2. CASE ApplyFails(c)
      <4>1. res'.applied = res.applied /\ res'.failed = res.failed \union {c}
        BY <1>0, <3>2 DEF ApplyFails, Result
      <4>. QED
        BY <2>1, <4>1 DEF Known, Recorded
    <3>. QED
      BY <1>2, <3>1, <3>2
  <2>3. host' \ host \subseteq {c} \union Provides[c]
    BY <2>1 DEF AfterEffect
  <2>4. SideEffects(Known) \union Provides[c] \subseteq SideEffects(Known')
    BY <2>2 DEF SideEffects
  <2>5. verbs # 0
    BY <2>1 DEF SilentInv
  <2>6. verb = "apply" /\ verbs = 1 /\ NobodyElse =>
          host' \ born.host \subseteq Known' \union SideEffects(Known')
    BY <2>2, <2>3, <2>4 DEF SilentInv
  <2>. QED
    BY <1>0, <2>1, <2>5, <2>6 DEF SilentInv
<1>3. ASSUME NEW v \in {"plan", "apply"}, Begin(v)
      PROVE  SilentInv'
  <2>1. UNCHANGED <<host, drifts, born>> /\ verbs' = verbs + 1
    BY <1>3 DEF Begin
  <2>2. verbs' = 1 => verbs = 0
    BY <1>0, <2>1
  <2>. QED
    BY <1>0, <2>1, <2>2 DEF SilentInv
<1>4. CASE ManagerReturns
  <2>1. /\ pc = "applying" /\ cur \in Manager /\ res' = NoResult
        /\ applied' = [applied EXCEPT ![cur] = @ \o res.applied]
        /\ agg'.failed = agg.failed \union res.failed
        /\ UNCHANGED <<host, verb, verbs, drifts, born>>
        /\ pc' \in {"applying", "idle"}
    BY <1>4 DEF ManagerReturns, Return, Enter
  <2>2. Recorded' = Recorded
    BY <2>1, RecordedMoves
  <2>3. Known' = Known
    BY <2>1, <2>2 DEF Known, NoResult
  <2>. QED
    BY <1>1, <2>1, <2>3
<1>5. CASE DryRunManager \/ ProbeFails \/ ReloadFails
  <2>1. /\ res'.applied = res.applied /\ res'.failed = res.failed
        /\ UNCHANGED <<host, applied, agg, pc, verb, verbs, drifts, born>>
    BY <1>0, <1>5 DEF DryRunManager, ProbeFails, ReloadFails, Result
  <2>2. Known' = Known
    BY <2>1 DEF Known, Recorded
  <2>. QED
    BY <1>1, <2>1, <2>2
<1>6. CASE PlanManager \/ PlanOverlooks \/ PlanFails \/ PlanReturns \/ ApplyReturns \/ UndoSkips
             \/ RollbackNext \/ RollbackReturns
  <2>1. /\ UNCHANGED <<host, applied, res, agg, verb, verbs, drifts, born>>
        /\ pc' = pc \/ pc' = "idle"
    BY <1>6 DEF PlanManager, PlanOverlooks, PlanFails, PlanReturns, ApplyReturns, UndoSkips, RollbackNext,
                RollbackReturns, Return
  <2>2. Known' = Known
    BY <2>1 DEF Known, Recorded
  <2>. QED
    BY <1>1, <2>1, <2>2
<1>7. CASE BeginApplying
  <2>1. /\ UNCHANGED <<host, applied, agg, verb, verbs, drifts, born>>
        /\ pc = "planning" /\ res' = NoResult
    BY <1>7 DEF BeginApplying, Enter
  <2>2. res' = res /\ verbs > 0
    BY <2>1 DEF StopInv, SilentInv
  <2>3. Known' = Known
    BY <2>1, <2>2 DEF Known, Recorded
  <2>. QED
    BY <1>1, <2>1, <2>2, <2>3
<1>8. CASE UndoSucceeds \/ UndoFails
  <2>1. pc = "undoing" /\ UNCHANGED <<pc, verb, verbs>>
    BY <1>8 DEF UndoSucceeds, UndoFails, Undoing
  <2>. QED
    BY <1>0, <2>1 DEF SilentInv, AccountInv
<1>9. CASE BeginRollback
  BY <1>0, <1>9 DEF BeginRollback, SilentInv
<1>10. CASE Restart
  BY <1>10 DEF Restart, Fresh, SilentInv
<1>11. ASSUME NEW c \in Shared, Drift(c)
       PROVE  SilentInv'
  <2>1. drifts' # born'.drifts /\ UNCHANGED <<pc, verb, verbs>>
    BY <1>0, <1>11 DEF Drift
  <2>. QED
    BY <2>1 DEF SilentInv
<1>12. CASE UNCHANGED vars
  BY <1>1, <1>12 DEF vars, Known, Recorded
<1>. QED
  BY <1>2, <1>3, <1>4, <1>5, <1>6, <1>7, <1>8, <1>9, <1>10, <1>11, <1>12 DEF Next, Step

\* For any managers: an Apply that returns no error has every planned change in
\* one of its three lists, and whatever the first Apply of a process brought into
\* effect is recorded for Rollback, reported as failed, or follows from that.
THEOREM NothingUnsaid == Spec => []NoSilentChange
<1>1. StopInv /\ AccountInv /\ SilentInv => NoSilentChange
  <2>1. res.failed = {} /\ StopInv /\ SilentInv /\ pc = "idle" /\ verb = "apply" /\ verbs = 1 /\ NobodyElse
          => LET known == Recorded \union agg.failed
             IN  host \ born.host \subseteq known \union SideEffects(known)
    <3>1. res.failed = {} => Known = Recorded \union agg.failed
      BY DEF Known
    <3>. QED
      BY <3>1 DEF SilentInv
  <2>2. StopInv /\ pc = "idle" => res.failed = {}
    BY DEF StopInv, NoResult
  <2>. QED
    BY <2>1, <2>2 DEF NoSilentChange, AccountInv
<1>. QED
  BY <1>1, InitAccount, StepAccount, StepSilent, InitStop, StepStop, InitOwn, StepOwn,
     TypeCorrect, PTL DEF Spec

-----------------------------------------------------------------------------
(* Rollback goes back the way Apply came. *)

\* c being planned before d excludes that d is planned before c.
LEMMA OneBefore ==
  ASSUME NEW c, NEW d, ComesBefore(c, d)
  PROVE  ~ComesBefore(d, c)
<1> SUFFICES ASSUME ComesBefore(d, c)
             PROVE  FALSE
  OBVIOUS
<1>1. PICK mc \in Manager, md \in Manager :
        /\ c \in Of(mc) /\ d \in Of(md) /\ mc <= md
        /\ mc = md => \E i \in DOMAIN Wanted[mc] :
             c = Wanted[mc][i] /\ \A j \in 1 .. i : Wanted[mc][j] # d
  <2>1. CASE \E m1, m2 \in Manager : m1 < m2 /\ c \in Of(m1) /\ d \in Of(m2)
    BY <2>1 DEF Manager
  <2>2. ASSUME NEW m \in Manager, NEW i \in DOMAIN Wanted[m], c = Wanted[m][i], d \in Of(m),
               \A j \in 1 .. i : Wanted[m][j] # d
        PROVE  c \in Of(m) /\ m <= m
    BY <2>2 DEF Of, ToSet, Manager
  <2>. QED
    BY <2>1, <2>2 DEF ComesBefore
<1>2. PICK nd \in Manager, nc \in Manager :
        /\ d \in Of(nd) /\ c \in Of(nc) /\ nd <= nc
        /\ nd = nc => \E i \in DOMAIN Wanted[nd] :
             d = Wanted[nd][i] /\ \A j \in 1 .. i : Wanted[nd][j] # c
  <2>1. CASE \E m1, m2 \in Manager : m1 < m2 /\ d \in Of(m1) /\ c \in Of(m2)
    BY <2>1 DEF Manager
  <2>2. ASSUME NEW m \in Manager, NEW i \in DOMAIN Wanted[m], d = Wanted[m][i], c \in Of(m),
               \A j \in 1 .. i : Wanted[m][j] # c
        PROVE  d \in Of(m) /\ m <= m
    BY <2>2 DEF Of, ToSet, Manager
  <2>. QED
    BY <2>1, <2>2 DEF ComesBefore
<1>3. mc = nc /\ md = nd
  BY <1>1, <1>2, OwnersDiffer
<1>4. mc = md
  BY <1>1, <1>2, <1>3 DEF Manager
<1>5. PICK i \in DOMAIN Wanted[mc] : c = Wanted[mc][i] /\ \A j \in 1 .. i : Wanted[mc][j] # d
  BY <1>1, <1>4
<1>6. PICK k \in DOMAIN Wanted[mc] : d = Wanted[mc][k] /\ \A j \in 1 .. k : Wanted[mc][j] # c
  BY <1>2, <1>3, <1>4
<1>7. i \in Nat \ {0} /\ k \in Nat \ {0}
  BY <1>5, <1>6, OrchestratorAssumption, LenProperties
<1>8. k <= i => FALSE
  BY <1>5, <1>6, <1>7
<1>9. i <= k => FALSE
  BY <1>5, <1>6, <1>7
<1>. QED
  BY <1>7, <1>8, <1>9

\* The change a manager's Apply comes to is planned before those still to do.
LEMMA NextComesBefore ==
  ASSUME TypeOK, cur \in Manager, todo \subseteq Of(cur), NEW c, IsNext(c),
         NEW d \in todo, d # c
  PROVE  ComesBefore(c, d)
<1>1. PICK i \in DOMAIN Wanted[cur] :
        /\ c = Wanted[cur][i] /\ c \in todo
        /\ \A j \in DOMAIN Wanted[cur] : Wanted[cur][j] \in todo => i <= j
  BY DEF IsNext
<1>2. Wanted[cur] \in Seq(Change) /\ DOMAIN Wanted[cur] = 1 .. Len(Wanted[cur])
        /\ Len(Wanted[cur]) \in Nat
  BY OrchestratorAssumption, LenProperties
<1>3. \A j \in 1 .. i : Wanted[cur][j] # d
  <2> SUFFICES ASSUME NEW j \in 1 .. i, Wanted[cur][j] = d
               PROVE  FALSE
    OBVIOUS
  <2>1. j \in DOMAIN Wanted[cur] /\ j <= i
    BY <1>1, <1>2
  <2>2. i <= j
    BY <1>1, <2>1
  <2>3. j = i
    BY <1>1, <1>2, <2>1, <2>2
  <2>. QED
    BY <1>1, <2>3
<1>. QED
  BY <1>1, <1>3 DEF ComesBefore

\* What earlier managers plan is planned before what later ones do.
LEMMA EarlierComesBefore ==
  ASSUME NEW m1 \in Manager, NEW m2 \in Manager, m1 < m2, NEW c \in Of(m1), NEW d \in Of(m2)
  PROVE  ComesBefore(c, d)
BY DEF ComesBefore

\* c went into effect before d, and d's command did not find itself done.
GoesBefore(c, d) ==
  /\ ComesBefore(c, d)
  /\ d \in Exclusive => d \notin Needs[c] \union Provides[c]

\* Each element of s goes before those behind it.
InOrder(s) == \A i, j \in DOMAIN s : i < j => GoesBefore(s[i], s[j])

\* What can be undone stands on nothing undoable that is missing.
Standing(h) == \A d \in h \cap Undoable : Needs[d] \cap Undoable \subseteq h

\* A process that so far has had one Apply at most, nothing failing in it and
\* nobody else acting, and perhaps a Rollback after it.
Undisturbed ==
  /\ NobodyElse /\ faults = born.faults /\ NothingHides
  /\ agg.failed = {} /\ res.failed = {}
  /\ verbs <= 1 \/ (verbs = 2 /\ verb = "rollback")

\* Rollback is past the i-th recorded change of the manager m.
Undone(m, i) == m > cur \/ (m = cur /\ i > left)

\* No command leaves something without what it stands on.
StandInv == NothingHides => Standing(host) /\ Standing(born.host)

\* A probe that hides something is one that failed.
MissInv == born.faults <= faults /\ (missed # {} => born.faults < faults)

\* Nothing is recorded before the first Apply.
FirstInv ==
  /\ born.faults <= faults
  /\ verbs = 0 => pc = "idle" /\ agg = EmptyAgg
  /\ verbs = 0 \/ (verbs = 1 /\ (verb # "apply" \/ pc = "planning")) => Recorded = {}

\* The record is all that came into effect, in the order it was planned, and no
\* recorded change was in effect when it was made.
OrderInv == Undisturbed =>
  /\ host \subseteq born.host \union Recorded \union SideEffects(Recorded)
  /\ \A x \in Recorded : x \in Exclusive => x \notin Needs[x]
  /\ \A m \in Manager : InOrder(applied[m]) /\ ToSet(applied[m]) \subseteq Of(m)
  /\ \A m1, m2 \in Manager : m1 < m2 =>
       \A x \in ToSet(applied[m1]), y \in ToSet(applied[m2]) : GoesBefore(x, y)
  /\ pc = "applying" =>
       /\ InOrder(res.applied)
       /\ \A m \in Manager : m >= cur => applied[m] = <<>>
       /\ \A m \in Manager : \A x \in ToSet(applied[m]), y \in ToSet(res.applied) : GoesBefore(x, y)
       /\ \A x \in Recorded, y \in todo : ComesBefore(x, y)
  /\ verbs <= 1 => \A x \in Recorded : {x} \union Needs[x] \union Provides[x] \subseteq host

\* The Rollback after it has taken back what it is past, and nothing else.
BackInv == Undisturbed /\ verbs = 2 =>
  /\ pc \in {"undoing", "idle"} /\ ~rerr
  /\ pc = "idle" => cur = 0 /\ ret = "ok"
  /\ \A m \in Manager : \A i \in DOMAIN applied[m] :
       IF Undone(m, i) THEN applied[m][i] \in Undoable => applied[m][i] \notin host
       ELSE applied[m][i] \in host

-----------------------------------------------------------------------------

\* A change that works leaves nothing without what it stands on.
LEMMA EffectStands ==
  ASSUME TypeOK, CompanionsStand, NothingHides, Standing(host),
         NEW c \in Planned, CommandWorks(c)
  PROVE  Standing(AfterEffect(host, c))
<1>1. AfterEffect(host, c) = (host \union {c}) \union Provides[c]
  <2>1. c \in Change
    BY OfType DEF Planned
  <2>. QED
    BY <2>1 DEF AfterEffect, NothingHides
<1>2. ASSUME NEW d \in AfterEffect(host, c) \cap Undoable
      PROVE  Needs[d] \cap Undoable \subseteq AfterEffect(host, c)
  <2>1. CASE d \in host
    BY <1>1, <2>1 DEF Standing
  <2>2. CASE d = c
    BY <1>1, <2>2 DEF CommandWorks
  <2>3. CASE d \in Provides[c]
    BY <1>1, <1>2, <2>3 DEF CompanionsStand
  <2>. QED
    BY <1>1, <1>2, <2>1, <2>2, <2>3
<1>. QED
  BY <1>2 DEF Standing

\* Taking back what nothing stands on leaves nothing without what it stands on.
LEMMA UndoStands ==
  ASSUME Standing(host), NEW c, UndoWorks(c)
  PROVE  Standing(host \ {c})
BY DEF Standing, UndoWorks, InUse

\* A host whose own tools keep it whole is one.
LEMMA ConsistentStands ==
  ASSUME NEW h, Consistent(h)
  PROVE  Standing(h)
BY DEF Consistent, Standing

\* The host starts whole.
LEMMA InitStand == Init => StandInv
BY ConsistentStands DEF Init, StandInv

\* No step leaves something without what it stands on.
LEMMA StepStand ==
  ASSUME CompanionsStand
  PROVE  TypeOK /\ StopInv /\ StandInv /\ [Next]_vars => StandInv'
<1> SUFFICES ASSUME TypeOK, StopInv, StandInv, [Next]_vars
             PROVE  StandInv'
  OBVIOUS
<1> USE DEF control, work, undoing, world, history
<1>0. ASSUME UNCHANGED <<host, born>>
      PROVE  StandInv'
  BY <1>0 DEF StandInv, NothingHides
<1>1. ASSUME NEW c \in Change, ApplySucceeds(c) \/ ApplyFails(c)
      PROVE  StandInv'
  <2>1. /\ host' = host \/ (host' = AfterEffect(host, c) /\ CommandWorks(c))
        /\ born' = born /\ c \in todo /\ pc = "applying" /\ cur \in Manager
    BY <1>1 DEF ApplySucceeds, ApplyFails, IsNext, Running
  <2>2. c \in Planned
    BY <2>1 DEF StopInv, OfCur, Planned
  <2>3. NothingHides /\ host' # host => Standing(host')
    BY <2>1, <2>2, EffectStands DEF StandInv
  <2>. QED
    BY <2>1, <2>3 DEF StandInv, NothingHides
<1>2. CASE UndoSucceeds \/ UndoFails
  <2>1. /\ host' = host \/ (host' = host \ {LastMade} /\ UndoWorks(LastMade))
        /\ born' = born
    BY <1>2 DEF UndoSucceeds, UndoFails
  <2>2. NothingHides /\ host' # host => Standing(host')
    BY <2>1, UndoStands DEF StandInv
  <2>. QED
    BY <2>1, <2>2 DEF StandInv, NothingHides
<1>3. ASSUME NEW c \in Shared, Drift(c)
      PROVE  StandInv'
  <2>1. Consistent(host') /\ born' = born
    BY <1>3 DEF Drift
  <2>2. Standing(host')
    BY <2>1, ConsistentStands
  <2>. QED
    BY <2>1, <2>2 DEF StandInv, NothingHides
<1>4. CASE Restart
  <2>1. host' = host /\ born'.host = host
    BY <1>4 DEF Restart, Fresh
  <2>. QED
    BY <2>1 DEF StandInv, NothingHides
<1>5. CASE Begin("plan") \/ Begin("apply") \/ BeginRollback
  BY <1>0, <1>5 DEF Begin, BeginRollback
<1>6. CASE PlanManager \/ PlanOverlooks \/ PlanFails \/ PlanReturns \/ BeginApplying \/ DryRunManager
             \/ ProbeFails \/ ReloadFails \/ ManagerReturns \/ ApplyReturns
  BY <1>0, <1>6 DEF PlanManager, PlanOverlooks, PlanFails, PlanReturns, BeginApplying, DryRunManager,
     ProbeFails, ReloadFails, ManagerReturns, ApplyReturns
<1>7. CASE UndoSkips \/ RollbackNext \/ RollbackReturns
  BY <1>0, <1>7 DEF UndoSkips, RollbackNext, RollbackReturns
<1>8. CASE UNCHANGED vars
  BY <1>0, <1>8 DEF vars
<1>. QED
  BY <1>1, <1>2, <1>3, <1>4, <1>5, <1>6, <1>7, <1>8 DEF Next, Step

-----------------------------------------------------------------------------

\* A process starts with an empty record.
LEMMA InitFirst == Init => FirstInv
BY ToSetEmpty DEF Init, FirstInv, Recorded, NoResult

\* Only an Apply past its planning adds to the record.
LEMMA StepFirst == TypeOK /\ TypeOK' /\ StopInv /\ FirstInv /\ [Next]_vars => FirstInv'
<1> SUFFICES ASSUME TypeOK, TypeOK', StopInv, FirstInv, [Next]_vars
             PROVE  FirstInv'
  OBVIOUS
<1> USE DEF control, work, undoing, world, history
<1>0. verbs \in Nat /\ faults \in Nat /\ born.faults \in Nat
  BY DEF TypeOK
<1>00. UNCHANGED <<applied, res>> => Recorded' = Recorded
  BY DEF Recorded
<1>1. ASSUME NEW v \in {"plan", "apply"}, Begin(v)
      PROVE  FirstInv'
  BY <1>0, <1>00, <1>1 DEF Begin, FirstInv
<1>2. CASE BeginRollback
  BY <1>0, <1>00, <1>2 DEF BeginRollback, FirstInv
<1>3. ASSUME pc # "idle", UNCHANGED <<verbs, verb, Recorded, born>>, pc' = pc \/ pc' = "idle",
             faults' \in {faults, faults + 1}
      PROVE  FirstInv'
  BY <1>0, <1>3 DEF FirstInv
<1>4. ASSUME pc = "applying", UNCHANGED <<verbs, verb, born>>, pc' \in {"applying", "idle"},
             faults' \in {faults, faults + 1}
      PROVE  FirstInv'
  BY <1>0, <1>4 DEF FirstInv, StopInv
<1>5. CASE PlanManager \/ PlanOverlooks \/ PlanFails \/ PlanReturns
  BY <1>00, <1>3, <1>5 DEF PlanManager, PlanOverlooks, PlanFails, PlanReturns, Return
<1>6. CASE BeginApplying
  BY <1>0, <1>6 DEF BeginApplying, FirstInv
<1>7. CASE DryRunManager \/ ProbeFails \/ ReloadFails \/ ManagerReturns \/ ApplyReturns
  BY <1>4, <1>7 DEF DryRunManager, ProbeFails, ReloadFails, Running, ManagerReturns, ApplyReturns,
     Return
<1>8. ASSUME NEW c \in Change, ApplySucceeds(c) \/ ApplyFails(c)
      PROVE  FirstInv'
  BY <1>4, <1>8 DEF ApplySucceeds, ApplyFails, Running
<1>9. CASE UndoSkips \/ UndoSucceeds \/ UndoFails \/ RollbackNext \/ RollbackReturns
  BY <1>00, <1>3, <1>9 DEF UndoSkips, UndoSucceeds, UndoFails, Undoing, RollbackNext,
     RollbackReturns, Return
<1>10. CASE Restart
  <2>1. ToSet(res'.applied) = {} /\ \A m \in Manager : ToSet(applied'[m]) = {}
    BY <1>10, ToSetEmpty DEF Restart, Fresh, NoResult
  <2>. QED
    BY <1>0, <1>10, <2>1 DEF Restart, Fresh, FirstInv, Recorded
<1>11. ASSUME NEW c \in Shared, Drift(c)
       PROVE  FirstInv'
  BY <1>00, <1>11 DEF Drift, FirstInv
<1>12. CASE UNCHANGED vars
  BY <1>00, <1>12 DEF vars, FirstInv
<1>. QED
  BY <1>1, <1>2, <1>5, <1>6, <1>7, <1>8, <1>9, <1>10, <1>11, <1>12 DEF Next, Step

-----------------------------------------------------------------------------

\* Adding c at the end of what goes before it keeps the order.
LEMMA AppendInOrder ==
  ASSUME NEW s \in Seq(Change), NEW c \in Change, InOrder(s),
         \A x \in ToSet(s) : GoesBefore(x, c)
  PROVE  InOrder(Append(s, c))
<1>1. Len(s) \in Nat /\ DOMAIN s = 1 .. Len(s) /\ \A i \in 1 .. Len(s) : s[i] \in ToSet(s)
  BY LenProperties DEF ToSet
<1>2. /\ DOMAIN Append(s, c) = 1 .. Len(s) + 1
      /\ Append(s, c)[Len(s) + 1] = c
      /\ \A i \in 1 .. Len(s) : Append(s, c)[i] = s[i]
  BY <1>1, AppendProperties, LenProperties
<1> SUFFICES ASSUME NEW i \in DOMAIN Append(s, c), NEW j \in DOMAIN Append(s, c), i < j
             PROVE  GoesBefore(Append(s, c)[i], Append(s, c)[j])
  BY DEF InOrder
<1>3. i \in 1 .. Len(s) /\ Append(s, c)[i] = s[i]
  BY <1>1, <1>2
<1>4. CASE j \in 1 .. Len(s)
  BY <1>1, <1>2, <1>3, <1>4 DEF InOrder
<1>5. CASE j = Len(s) + 1
  BY <1>1, <1>2, <1>3, <1>5
<1>. QED
  BY <1>1, <1>2, <1>4, <1>5

\* A sequence without elements is the empty one.
LEMMA NoneThenEmpty ==
  ASSUME NEW s \in Seq(Change), ToSet(s) = {}
  PROVE  s = <<>>
<1>1. Len(s) \in Nat /\ DOMAIN s = 1 .. Len(s) /\ \A i \in 1 .. Len(s) : s[i] \in ToSet(s)
  BY LenProperties DEF ToSet
<1>2. Len(s) = 0
  BY <1>1
<1>. QED
  BY <1>2, EmptySeq

\* What an Apply carries out goes into effect after everything recorded.
LEMMA ApplyOrder ==
  ASSUME TypeOK, StopInv, FirstInv, OrderInv, NEW c \in Change, ApplySucceeds(c)
  PROVE  OrderInv'
<1> SUFFICES ASSUME Undisturbed'
             PROVE  OrderInv'
  BY DEF OrderInv
<1> USE DEF control, work, undoing, world, history
<1>1. /\ pc = "applying" /\ pc' = pc /\ cur \in Manager /\ cur' = cur /\ c \in todo /\ IsNext(c)
      /\ todo' = todo \ {c} /\ CommandWorks(c) /\ host' = AfterEffect(host, c)
      /\ UNCHANGED <<applied, born, agg, drifts, faults, verbs, verb>>
  BY DEF ApplySucceeds, Running, IsNext
<1>2. verb = "apply" /\ todo \subseteq Of(cur) /\ ToSet(res.applied) \subseteq Of(cur)
  BY <1>1 DEF StopInv, OfCur
<1>3. res.applied \in Seq(Change) /\ res'.applied = Append(res.applied, c) /\ res'.failed = res.failed
  BY DEF ApplySucceeds, TypeOK, Result
<1>4. Undisturbed /\ verbs <= 1
  BY <1>1, <1>2, <1>3 DEF Undisturbed, NobodyElse, NothingHides
<1>5. ToSet(res'.applied) = ToSet(res.applied) \union {c} /\ Recorded' = Recorded \union {c}
  <2>1. ToSet(res'.applied) = ToSet(res.applied) \union {c}
    BY <1>3, ToSetAppend
  <2>. QED
    BY <1>1, <2>1 DEF Recorded
<1>6. host' = (host \union {c}) \union Provides[c]
  BY <1>1, <1>4 DEF AfterEffect, Undisturbed, NothingHides
<1>7. ASSUME NEW x \in Recorded
      PROVE  GoesBefore(x, c)
  <2>1. ComesBefore(x, c)
    BY <1>1, <1>4 DEF OrderInv
  <2>2. Needs[x] \union Provides[x] \subseteq host
    BY <1>4 DEF OrderInv
  <2>3. c \in Exclusive => c \notin host
    BY <1>1 DEF CommandWorks
  <2>. QED
    BY <2>1, <2>2, <2>3 DEF GoesBefore
<1>8. InOrder(res'.applied)
  <2>1. InOrder(res.applied) /\ \A x \in ToSet(res.applied) : GoesBefore(x, c)
    BY <1>1, <1>4, <1>7 DEF OrderInv, Recorded
  <2>. QED
    BY <1>3, <2>1, AppendInOrder
<1>9. \A m \in Manager : \A x \in ToSet(applied'[m]), y \in ToSet(res'.applied) : GoesBefore(x, y)
  <2>1. \A m \in Manager : \A x \in ToSet(applied[m]) : x \in Recorded
    BY DEF Recorded
  <2>2. \A m \in Manager : \A x \in ToSet(applied[m]), y \in ToSet(res.applied) : GoesBefore(x, y)
    BY <1>1, <1>4 DEF OrderInv
  <2>. QED
    BY <1>1, <1>5, <1>7, <2>1, <2>2
<1>10. \A x \in Recorded', y \in todo' : ComesBefore(x, y)
  <2>1. \A x \in Recorded, y \in todo : ComesBefore(x, y)
    BY <1>1, <1>4 DEF OrderInv
  <2>2. \A y \in todo : y # c => ComesBefore(c, y)
    BY <1>1, <1>2, NextComesBefore
  <2>. QED
    BY <1>1, <1>5, <2>1, <2>2
<1>11. \A x \in Recorded' : /\ x \in Exclusive => x \notin Needs[x]
                            /\ {x} \union Needs[x] \union Provides[x] \subseteq host'
  <2>1. \A x \in Recorded : /\ x \in Exclusive => x \notin Needs[x]
                            /\ {x} \union Needs[x] \union Provides[x] \subseteq host
    BY <1>4 DEF OrderInv
  <2>2. /\ c \in Exclusive => c \notin Needs[c]
        /\ {c} \union Needs[c] \union Provides[c] \subseteq host'
    BY <1>1, <1>6 DEF CommandWorks
  <2>. QED
    BY <1>5, <1>6, <2>1, <2>2
<1>12. host' \subseteq born'.host \union Recorded' \union SideEffects(Recorded')
  <2>1. host \subseteq born.host \union Recorded \union SideEffects(Recorded)
    BY <1>4 DEF OrderInv
  <2>2. SideEffects(Recorded) \union Provides[c] \subseteq SideEffects(Recorded')
    BY <1>5 DEF SideEffects
  <2>. QED
    BY <1>1, <1>5, <1>6, <2>1, <2>2
<1>13. /\ \A m \in Manager : InOrder(applied'[m]) /\ ToSet(applied'[m]) \subseteq Of(m)
       /\ \A m1, m2 \in Manager : m1 < m2 =>
            \A x \in ToSet(applied'[m1]), y \in ToSet(applied'[m2]) : GoesBefore(x, y)
       /\ \A m \in Manager : m >= cur' => applied'[m] = <<>>
  BY <1>1, <1>4, Zenon DEF OrderInv
<1>. QED
  BY <1>8, <1>9, <1>10, <1>11, <1>12, <1>13 DEF OrderInv

\* Taking over a manager's result adds what it made at the end of the record.
LEMMA ReturnOrder ==
  ASSUME TypeOK, StopInv, FirstInv, OrderInv, ManagerReturns
  PROVE  OrderInv'
<1> SUFFICES ASSUME Undisturbed'
             PROVE  OrderInv'
  BY DEF OrderInv
<1> USE DEF control, work, undoing, world, history
<1>1. /\ pc = "applying" /\ cur \in Manager /\ res' = NoResult
      /\ applied' = [applied EXCEPT ![cur] = @ \o res.applied]
      /\ agg'.failed = agg.failed \union res.failed
      /\ UNCHANGED <<host, born, drifts, faults, verbs, verb, plan>>
      /\ pc' # "applying" \/ (cur' = cur + 1 /\ todo' = IF cur' \in Manager THEN plan[cur'] ELSE {})
  BY DEF ManagerReturns, Return, Enter
<1>2. /\ verb = "apply" /\ ToSet(res.applied) \subseteq Of(cur)
      /\ \A m \in Manager : plan[m] \subseteq Of(m)
  BY <1>1 DEF StopInv, OfCur
<1>3. /\ res.applied \in Seq(Change) /\ applied \in [Manager -> Seq(Change)]
      /\ cur \in Nat /\ Manager \subseteq Nat
  BY <1>1 DEF TypeOK, Result, Manager
<1>4. Undisturbed /\ verbs <= 1
  BY <1>1, <1>2 DEF Undisturbed, NobodyElse, NothingHides
<1>5. Recorded' = Recorded
  BY <1>1, RecordedMoves
<1>6. applied'[cur] = res.applied /\ \A m \in Manager : m # cur => applied'[m] = applied[m]
  <2>1. applied[cur] = <<>>
    BY <1>1, <1>3, <1>4 DEF OrderInv
  <2>2. <<>> \o res.applied = res.applied
    BY <1>3, ConcatEmptySeq
  <2>. QED
    BY <1>1, <1>3, <2>1, <2>2
<1>7. \A m \in Manager : m > cur => applied'[m] = <<>>
  BY <1>1, <1>3, <1>4, <1>6 DEF OrderInv
<1>8. ASSUME NEW m \in Manager
      PROVE  InOrder(applied'[m]) /\ ToSet(applied'[m]) \subseteq Of(m)
  <2>1. CASE m = cur
    BY <1>1, <1>2, <1>4, <1>6, <2>1 DEF OrderInv
  <2>2. CASE m # cur
    BY <1>4, <1>6, <2>2 DEF OrderInv
  <2>. QED
    BY <2>1, <2>2
<1>9. ASSUME NEW m1 \in Manager, NEW m2 \in Manager, m1 < m2,
             NEW x \in ToSet(applied'[m1]), NEW y \in ToSet(applied'[m2])
      PROVE  GoesBefore(x, y)
  <2>1. m1 <= cur /\ m2 <= cur
    <3>1. applied'[m1] # <<>> /\ applied'[m2] # <<>>
      BY <1>9, ToSetEmpty
    <3>. QED
      BY <1>3, <1>7, <3>1
  <2>2. x \in ToSet(applied[m1])
    BY <1>3, <1>6, <1>9, <2>1
  <2>3. CASE m2 = cur
    BY <1>1, <1>4, <1>6, <1>9, <2>2, <2>3 DEF OrderInv
  <2>4. CASE m2 # cur
    BY <1>4, <1>6, <1>9, <2>2, <2>4 DEF OrderInv
  <2>. QED
    BY <2>3, <2>4
<1>10. ASSUME pc' = "applying"
       PROVE  /\ InOrder(res'.applied)
              /\ \A m \in Manager : m >= cur' => applied'[m] = <<>>
              /\ \A m \in Manager : \A x \in ToSet(applied'[m]), y \in ToSet(res'.applied) : GoesBefore(x, y)
              /\ \A x \in Recorded', y \in todo' : ComesBefore(x, y)
  <2>1. cur' = cur + 1 /\ todo' = IF cur' \in Manager THEN plan[cur'] ELSE {}
    BY <1>1, <1>10
  <2>2. ToSet(res'.applied) = {} /\ res'.applied = <<>>
    BY <1>1, ToSetEmpty DEF NoResult
  <2>3. InOrder(res'.applied)
    BY <2>2, EmptySeq DEF InOrder
  <2>4. \A m \in Manager : m >= cur' => applied'[m] = <<>>
    BY <1>3, <1>7, <2>1
  <2>5. ASSUME NEW x \in Recorded', NEW y \in todo'
        PROVE  ComesBefore(x, y)
    <3>1. cur' \in Manager /\ y \in Of(cur')
      BY <1>2, <2>1, <2>5
    <3>2. PICK m \in Manager : x \in ToSet(applied'[m])
      BY <2>2, <2>5 DEF Recorded
    <3>3. m < cur'
      <4>1. applied'[m] # <<>>
        BY <3>2, ToSetEmpty
      <4>. QED
        BY <1>3, <2>1, <2>4, <3>1, <4>1
    <3>4. x \in Of(m)
      BY <1>8, <3>2
    <3>. QED
      BY <3>1, <3>3, <3>4, EarlierComesBefore
  <2>. QED
    BY <2>2, <2>3, <2>4, <2>5
<1>11. /\ host' \subseteq born'.host \union Recorded' \union SideEffects(Recorded')
       /\ \A x \in Recorded' : x \in Exclusive => x \notin Needs[x]
       /\ \A x \in Recorded' : {x} \union Needs[x] \union Provides[x] \subseteq host'
  BY <1>1, <1>4, <1>5 DEF OrderInv, SideEffects
<1>. QED
  BY <1>8, <1>9, <1>10, <1>11 DEF OrderInv

\* What an Apply does not carry out changes neither the record nor the order.
LEMMA OrderFrame ==
  ASSUME UNCHANGED <<host, born, applied>>, res'.applied = res.applied,
         Undisturbed' => Undisturbed /\ verbs' >= verbs,
         pc' = "applying" => pc = "applying" /\ cur' = cur /\ todo' \subseteq todo,
         verbs \in Nat, verbs' \in Nat, OrderInv
  PROVE  OrderInv'
<1>1. Recorded' = Recorded
  BY DEF Recorded
<1> SUFFICES ASSUME Undisturbed'
             PROVE  OrderInv'
  BY DEF OrderInv
<1>2. Undisturbed /\ (verbs' <= 1 => verbs <= 1)
  OBVIOUS
<1>. QED
  BY <1>1, <1>2 DEF OrderInv, SideEffects

\* A process starts with nothing in the order.
LEMMA FreshOrder ==
  ASSUME applied = [m \in Manager |-> <<>>], res = NoResult, pc = "idle", host = born.host
  PROVE  OrderInv
<1>1. /\ ToSet(res.applied) = {}
      /\ \A m \in Manager : applied[m] = <<>> /\ ToSet(applied[m]) = {} /\ InOrder(applied[m])
  BY ToSetEmpty, EmptySeq DEF NoResult, InOrder
<1>2. Recorded = {}
  BY <1>1 DEF Recorded
<1>. QED
  BY <1>1, <1>2 DEF OrderInv

\* While the first verb plans, nothing is recorded.
LEMMA NothingYet ==
  ASSUME FirstInv, pc = "planning", verbs = 1
  PROVE  Recorded = {}
BY DEF FirstInv

\* The record stays in the order of the Apply.
LEMMA StepOrder ==
  TypeOK /\ TypeOK' /\ StopInv /\ OwnInv /\ AccountInv /\ FirstInv /\ OrderInv /\ [Next]_vars
    => OrderInv'
<1> SUFFICES ASSUME TypeOK, TypeOK', StopInv, OwnInv, AccountInv, FirstInv, OrderInv, [Next]_vars
             PROVE  OrderInv'
  OBVIOUS
<1> USE DEF control, work, undoing, world, history
<1>0. /\ verbs \in Nat /\ verbs' \in Nat /\ faults \in Nat /\ drifts \in Nat
      /\ born.faults \in Nat /\ born.drifts \in Nat
      /\ born.faults <= faults /\ born.drifts <= drifts
  BY DEF TypeOK, FirstInv, OwnInv
<1>1. ASSUME NEW v \in {"plan", "apply"}, Begin(v)
      PROVE  OrderInv'
  <2>1. /\ pc = "idle" /\ pc' = "planning" /\ verbs' = verbs + 1 /\ verb' = v
        /\ UNCHANGED <<host, born, applied, res, faults, drifts>>
    BY <1>1 DEF Begin
  <2>2. Undisturbed' => verbs = 0
    BY <1>0, <1>1, <2>1 DEF Undisturbed
  <2>3. Undisturbed' => Undisturbed
    BY <2>1, <2>2 DEF Undisturbed, FirstInv, EmptyAgg, NobodyElse, NothingHides
  <2>. QED
    BY <1>0, <2>1, <2>3, OrderFrame
<1>2. CASE BeginRollback
  <2>1. /\ pc' = "undoing" /\ verbs' = verbs + 1
        /\ UNCHANGED <<host, born, applied, res, agg, faults, drifts>>
    BY <1>2 DEF BeginRollback
  <2>2. Undisturbed' => Undisturbed
    BY <1>0, <2>1 DEF Undisturbed, NobodyElse, NothingHides
  <2>. QED
    BY <1>0, <2>1, <2>2, OrderFrame
<1>3. CASE PlanManager \/ PlanOverlooks \/ PlanFails \/ PlanReturns \/ ApplyReturns \/ UndoSkips
             \/ RollbackNext \/ RollbackReturns
  <2>1. /\ UNCHANGED <<host, born, applied, res, agg, verbs, verb, drifts>>
        /\ pc' # "applying" /\ faults' \in {faults, faults + 1}
    BY <1>3 DEF PlanManager, PlanOverlooks, PlanFails, PlanReturns, ApplyReturns, UndoSkips, Undoing,
                RollbackNext, RollbackReturns, Return
  <2>2. Undisturbed' => Undisturbed
    BY <1>0, <2>1 DEF Undisturbed, NobodyElse, NothingHides
  <2>. QED
    BY <1>0, <2>1, <2>2, OrderFrame
<1>4. CASE BeginApplying
  <2>1. /\ pc = "planning" /\ verb = "apply" /\ verb' = verb /\ verbs' = verbs /\ res' = NoResult
        /\ UNCHANGED <<host, born, applied, agg, faults, drifts>>
    BY <1>4 DEF BeginApplying, Enter
  <2>2. ASSUME Undisturbed'
        PROVE  Undisturbed /\ verbs = 1
    BY <1>0, <2>1, <2>2 DEF Undisturbed, NobodyElse, NothingHides, FirstInv, StopInv, NoResult
  <2>3. ASSUME Undisturbed'
        PROVE  Recorded = {} /\ Recorded' = {} /\ \A m \in Manager : applied[m] = <<>>
    <3>1. Recorded = {}
      <4>1. verbs = 1
        BY <2>2, <2>3
      <4>. QED
        BY <2>1, <4>1, NothingYet
    <3>2. \A m \in Manager : applied[m] \in Seq(Change) /\ ToSet(applied[m]) = {}
      <4>1. \A m \in Manager : applied[m] \in Seq(Change)
        BY DEF TypeOK
      <4>2. \A m \in Manager : \A x : x \notin ToSet(applied[m])
        BY <3>1, Zenon DEF Recorded
      <4>. QED
        BY <4>1, <4>2
    <3>3. ToSet(res'.applied) = {}
      BY <2>1, ToSetEmpty DEF NoResult
    <3>. QED
      BY <2>1, <3>1, <3>2, <3>3, NoneThenEmpty DEF Recorded
  <2>4. InOrder(res'.applied) /\ ToSet(res'.applied) = {}
    BY <2>1, ToSetEmpty, EmptySeq DEF NoResult, InOrder
  <2>. QED
    BY <2>1, <2>2, <2>3, <2>4 DEF OrderInv, SideEffects
<1>5. CASE DryRunManager \/ ProbeFails \/ ReloadFails
  <2>1. /\ UNCHANGED <<host, born, applied, agg, verbs, verb, drifts, pc, cur>>
        /\ faults' \in {faults, faults + 1} /\ todo' \subseteq todo
        /\ res'.applied = res.applied /\ res'.failed = res.failed
    BY <1>5 DEF DryRunManager, ProbeFails, ReloadFails, TypeOK, Result
  <2>2. Undisturbed' => Undisturbed
    BY <1>0, <2>1 DEF Undisturbed, NobodyElse, NothingHides
  <2>. QED
    BY <1>0, <2>1, <2>2, OrderFrame
<1>6. ASSUME NEW c \in Change, ApplySucceeds(c)
      PROVE  OrderInv'
  BY <1>6, ApplyOrder
<1>7. ASSUME NEW c \in Change, ApplyFails(c)
      PROVE  OrderInv'
  <2>1. c \in res'.failed
    BY <1>7 DEF ApplyFails, TypeOK, Result
  <2>. QED
    BY <2>1 DEF OrderInv, Undisturbed
<1>8. CASE ManagerReturns
  BY <1>8, ReturnOrder
<1>9. CASE UndoSucceeds \/ UndoFails
  <2>1. /\ pc = "undoing" /\ pc' = pc /\ Undoing /\ host' \subseteq host
        /\ faults' \in {faults, faults + 1}
        /\ UNCHANGED <<born, applied, res, agg, verbs, verb, drifts>>
    BY <1>9 DEF UndoSucceeds, UndoFails, Undoing
  <2>2. Undisturbed' => Undisturbed
    BY <1>0, <2>1 DEF Undisturbed, NobodyElse, NothingHides
  <2>3. ~(verbs <= 1)
    <3>1. LastMade \in Recorded /\ verb = "rollback"
      BY <2>1, UndoneIsRecorded DEF AccountInv
    <3>. QED
      BY <1>0, <3>1 DEF FirstInv
  <2>4. Recorded' = Recorded
    BY <2>1 DEF Recorded
  <2>. QED
    BY <2>1, <2>2, <2>3, <2>4 DEF OrderInv, SideEffects
<1>10. CASE Restart
  <2>1. /\ applied' = [m \in Manager |-> <<>>] /\ res' = NoResult /\ pc' = "idle"
        /\ host' = born'.host
    BY <1>10 DEF Restart, Fresh
  <2>2. /\ ToSet(res'.applied) = {}
        /\ \A m \in Manager : applied'[m] = <<>> /\ ToSet(applied'[m]) = {} /\ InOrder(applied'[m])
    BY <2>1, ToSetEmpty, EmptySeq DEF NoResult, InOrder
  <2>3. Recorded' = {}
    BY <2>2 DEF Recorded
  <2>. QED
    BY <2>1, <2>2, <2>3 DEF OrderInv
<1>11. ASSUME NEW c \in Shared, Drift(c)
       PROVE  OrderInv'
  <2>1. drifts' # born'.drifts
    BY <1>0, <1>11 DEF Drift
  <2>. QED
    BY <2>1 DEF OrderInv, Undisturbed, NobodyElse
<1>12. CASE UNCHANGED vars
  BY <1>0, <1>12, OrderFrame DEF vars, Undisturbed, NobodyElse, NothingHides
<1>. QED
  BY <1>1, <1>2, <1>3, <1>4, <1>5, <1>6, <1>7, <1>8, <1>9, <1>10, <1>11, <1>12 DEF Next, Step

-----------------------------------------------------------------------------

\* Of two recorded changes the one that was made first goes before the other.
LEMMA RecordOrder ==
  ASSUME TypeOK, OrderInv, Undisturbed,
         NEW m \in Manager, NEW i \in DOMAIN applied[m],
         NEW n \in Manager, NEW j \in DOMAIN applied[n], m < n \/ (m = n /\ i < j)
  PROVE  GoesBefore(applied[m][i], applied[n][j])
<1>1. CASE m = n
  BY <1>1 DEF OrderInv, InOrder, Manager
<1>2. CASE m < n
  <2>1. applied[m][i] \in ToSet(applied[m]) /\ applied[n][j] \in ToSet(applied[n])
    BY DEF ToSet
  <2>. QED
    BY <1>2, <2>1 DEF OrderInv
<1>. QED
  BY <1>1, <1>2

\* At the start no probe has failed.
LEMMA InitMiss == Init => MissInv
BY DEF Init, MissInv

\* Only a probe that fails hides something.
LEMMA StepMiss == TypeOK /\ MissInv /\ [Next]_vars => MissInv'
<1> SUFFICES ASSUME TypeOK, MissInv, [Next]_vars
             PROVE  MissInv'
  OBVIOUS
<1>0. faults \in Nat /\ born.faults \in Nat
  BY DEF TypeOK
<1>1. \/ UNCHANGED <<born, missed>> /\ faults' \in {faults, faults + 1}
      \/ PlanOverlooks
      \/ Restart
  BY DEF Next, Step, Begin, PlanManager, PlanFails, PlanReturns, BeginApplying, DryRunManager,
     ApplySucceeds, ApplyFails, ProbeFails, ReloadFails, ManagerReturns, ApplyReturns,
     BeginRollback, UndoSkips, UndoSucceeds, UndoFails, RollbackNext, RollbackReturns, Drift,
     vars, history, world
<1>2. CASE UNCHANGED <<born, missed>> /\ faults' \in {faults, faults + 1}
  BY <1>0, <1>2 DEF MissInv
<1>3. CASE PlanOverlooks
  BY <1>0, <1>3 DEF PlanOverlooks, MissInv
<1>4. CASE Restart
  BY <1>0, <1>4 DEF Restart, Fresh, MissInv, world
<1>. QED
  BY <1>1, <1>2, <1>3, <1>4

\* With nothing going wrong, a change Rollback comes to can be taken back: what
\* stands on it went into effect after it and is gone.
LEMMA UndoAlwaysWorks ==
  ASSUME NeedsComeFirst, CompanionsStand, TypeOK, StopInv, OwnInv, StandInv, MissInv, OrderInv,
         BackInv, Undisturbed, verbs = 2, Undoing, LastMade \in Undoable
  PROVE  UndoWorks(LastMade)
<1>1. PICK c : c = applied[cur][left]
  OBVIOUS
<1>2. /\ pc = "undoing" /\ cur \in Manager /\ left \in DOMAIN applied[cur] /\ left \in Nat
      /\ res = NoResult
  BY LenProperties DEF Undoing, TypeOK, StopInv
<1>3. c \in ToSet(applied[cur]) /\ c \in Undoable /\ LastMade = c /\ c \in Of(cur)
  BY <1>1, <1>2 DEF ToSet, LastMade, OrderInv
<1>4. c \in host
  BY <1>1, <1>2 DEF BackInv, Undone, Manager
<1>50. missed = {}
  <2>1. faults \in Nat /\ faults = born.faults
    BY DEF TypeOK, Undisturbed
  <2>. QED
    BY <2>1 DEF MissInv
<1>5. c \in Recorded /\ c \in Planned /\ c \notin born.host
  BY <1>2, <1>3, <1>50 DEF Recorded, Planned, OwnInv, Losable, Undisturbed
<1>6. ~ComesBefore(c, c)
  BY OneBefore
<1>7. ASSUME NEW d \in host \cap Undoable, c \in Needs[d]
      PROVE  FALSE
  <2>1. d \in born.host \/ d \in Recorded \/ \E e \in Recorded : d \in Provides[e]
    BY <1>7 DEF OrderInv, SideEffects
  <2>2. \A x \in Recorded : \E m \in Manager : \E i \in DOMAIN applied[m] :
          x = applied[m][i] /\ x \in Planned
    <3> SUFFICES ASSUME NEW x \in Recorded
                 PROVE  \E m \in Manager : \E i \in DOMAIN applied[m] : x = applied[m][i] /\ x \in Planned
      OBVIOUS
    <3>1. ToSet(res.applied) = {}
      BY <1>2, ToSetEmpty DEF NoResult
    <3>2. PICK m \in Manager : x \in ToSet(applied[m])
      BY <3>1 DEF Recorded
    <3>3. PICK i \in DOMAIN applied[m] : x = applied[m][i]
      BY <3>2 DEF ToSet
    <3>4. x \in Planned
      BY <3>2 DEF OrderInv, Planned
    <3>. QED
      BY <3>3, <3>4
  <2>3. CASE d \in born.host
    BY <1>3, <1>5, <1>7, <2>3 DEF StandInv, Standing, Undisturbed
  <2>4. CASE d \in Recorded
    <3>1. PICK m \in Manager : \E i \in DOMAIN applied[m] : d = applied[m][i] /\ d \in Planned
      BY <2>2, <2>4
    <3>2. PICK i \in DOMAIN applied[m] : d = applied[m][i] /\ d \in Planned
      BY <3>1
    <3>3. ~Undone(m, i)
      BY <1>7, <3>2 DEF BackInv
    <3>4. i \in Nat /\ m \in Nat /\ cur \in Nat
      BY <1>2, LenProperties DEF TypeOK, Manager
    <3>5. d = c \/ GoesBefore(d, c)
      BY <1>1, <1>2, <3>2, <3>3, <3>4, RecordOrder DEF Undone
    <3>6. c \in Exclusive
      <4> SUFFICES ASSUME c \notin Exclusive PROVE FALSE
        OBVIOUS
      <4>1. ComesBefore(c, d)
        BY <1>3, <1>5, <1>7, <3>2 DEF NeedsComeFirst
      <4>2. ~ComesBefore(d, c)
        BY <4>1, OneBefore
      <4>. QED
        BY <1>6, <3>5, <4>1, <4>2 DEF GoesBefore
    <3>7. d # c
      BY <1>5, <1>7, <3>6 DEF OrderInv
    <3>. QED
      BY <1>7, <3>5, <3>6, <3>7 DEF GoesBefore
  <2>5. ASSUME NEW e \in Recorded, d \in Provides[e]
        PROVE  FALSE
    <3>1. PICK m \in Manager : \E i \in DOMAIN applied[m] : e = applied[m][i] /\ e \in Planned
      BY <2>2, <2>5
    <3>2. PICK i \in DOMAIN applied[m] : e = applied[m][i] /\ e \in Planned
      BY <3>1
    <3>3. c \in Provides[e] /\ c \in Exclusive /\ ComesBefore(e, c)
      BY <1>3, <1>5, <1>7, <2>5, <3>2 DEF CompanionsStand
    <3>4. e # c /\ ~GoesBefore(e, c) /\ ~GoesBefore(c, e)
      <4>1. ~ComesBefore(c, e)
        BY <3>3, OneBefore
      <4>. QED
        BY <1>6, <3>3, <4>1 DEF GoesBefore
    <3>5. i \in Nat /\ m \in Nat /\ cur \in Nat
      BY <1>2, LenProperties DEF TypeOK, Manager
    <3>6. m = cur /\ i = left
      <4>1. ~(m < cur \/ (m = cur /\ i < left))
        BY <1>1, <1>2, <3>2, <3>4, RecordOrder
      <4>2. ~(cur < m \/ (cur = m /\ left < i))
        BY <1>1, <1>2, <3>2, <3>4, RecordOrder
      <4>. QED
        BY <1>2, <3>5, <4>1, <4>2
    <3>. QED
      BY <1>1, <3>2, <3>4, <3>6
  <2>. QED
    BY <2>1, <2>3, <2>4, <2>5
<1>. QED
  BY <1>3, <1>4, <1>7 DEF UndoWorks, InUse

\* BackInv is kept by what leaves the host, the record and the place in it alone.
LEMMA BackFrame ==
  ASSUME UNCHANGED <<host, applied, left, cur, pc, rerr, ret>>,
         Undisturbed' /\ verbs' = 2 => Undisturbed /\ verbs = 2, BackInv
  PROVE  BackInv'
BY DEF BackInv, Undone

\* The counters are numbers, and those of failures and drifts only grow.
LEMMA CountTypes ==
  ASSUME TypeOK, FirstInv, OwnInv
  PROVE  /\ verbs \in Nat /\ faults \in Nat /\ drifts \in Nat /\ left \in Nat
         /\ cur \in Nat /\ N \in Nat /\ N \in Manager /\ Manager \subseteq Nat
         /\ born.faults \in Nat /\ born.drifts \in Nat
         /\ born.faults <= faults /\ born.drifts <= drifts
<1>1. N \in Nat /\ N \in Manager /\ Manager \subseteq Nat
  BY OrchestratorAssumption DEF Manager
<1>2. /\ verbs \in Nat /\ faults \in Nat /\ drifts \in Nat /\ left \in Nat /\ cur \in Nat
      /\ born.faults \in Nat /\ born.drifts \in Nat
  BY <1>1 DEF TypeOK
<1>3. born.faults <= faults /\ born.drifts <= drifts
  BY DEF FirstInv, OwnInv
<1>. QED
  BY <1>1, <1>2, <1>3, Zenon

\* Each manager has a sequence of changes in the record.
LEMMA RecordTypes ==
  ASSUME TypeOK
  PROVE  /\ applied \in [Manager -> Seq(Change)]
         /\ \A m \in Manager : DOMAIN applied[m] = 1 .. Len(applied[m]) /\ Len(applied[m]) \in Nat
<1>1. applied \in [Manager -> Seq(Change)]
  BY DEF TypeOK
<1>2. ASSUME NEW m \in Manager
      PROVE  DOMAIN applied[m] = 1 .. Len(applied[m]) /\ Len(applied[m]) \in Nat
  BY <1>1, LenProperties
<1>. QED
  BY <1>1, <1>2

\* Rollback takes back what it comes to, and only that.
LEMMA StepBack ==
  ASSUME NeedsComeFirst, CompanionsStand
  PROVE  TypeOK /\ TypeOK' /\ StopInv /\ OwnInv /\ AccountInv /\ StandInv /\ MissInv /\ FirstInv
           /\ OrderInv /\ BackInv /\ [Next]_vars => BackInv'
<1> SUFFICES ASSUME TypeOK, TypeOK', StopInv, OwnInv, AccountInv, StandInv, MissInv, FirstInv,
                    OrderInv, BackInv, [Next]_vars
             PROVE  BackInv'
  OBVIOUS
<1> USE DEF control, work, undoing, world, history
<1>0. /\ verbs \in Nat /\ faults \in Nat /\ drifts \in Nat /\ left \in Nat /\ Manager \subseteq Nat
      /\ cur \in Nat /\ N \in Nat /\ N \in Manager
      /\ born.faults \in Nat /\ born.drifts \in Nat
      /\ born.faults <= faults /\ born.drifts <= drifts
      /\ applied \in [Manager -> Seq(Change)]
      /\ \A m \in Manager : DOMAIN applied[m] = 1 .. Len(applied[m]) /\ Len(applied[m]) \in Nat
  BY CountTypes, RecordTypes, Zenon
<1>1. ASSUME ~Undisturbed' \/ verbs' # 2
      PROVE  BackInv'
  BY <1>1 DEF BackInv
<1>2. ASSUME NEW v \in {"plan", "apply"}, Begin(v)
      PROVE  BackInv'
  BY <1>0, <1>1, <1>2 DEF Begin, Undisturbed
<1>3. CASE BeginRollback
  <2>1. /\ pc' = "undoing" /\ cur' = N /\ left' = Len(applied[N]) /\ ~rerr'
        /\ verbs' = verbs + 1 /\ pc = "idle"
        /\ UNCHANGED <<host, born, applied, res, agg, faults, drifts>>
    BY <1>3 DEF BeginRollback
  <2>2. ASSUME Undisturbed', verbs' = 2
        PROVE  \A m \in Manager : \A i \in DOMAIN applied'[m] :
                 ~(m > cur' \/ (m = cur' /\ i > left')) /\ applied'[m][i] \in host'
    <3>1. Undisturbed /\ verbs = 1
      BY <1>0, <2>1, <2>2 DEF Undisturbed, NobodyElse, NothingHides
    <3>2. \A x \in Recorded : x \in host
      BY <3>1 DEF OrderInv
    <3>3. \A m \in Manager : \A i \in DOMAIN applied[m] : applied[m][i] \in Recorded
      BY DEF Recorded, ToSet
    <3>4. \A m \in Manager : m <= N
      BY DEF Manager
    <3>. QED
      BY <1>0, <2>1, <3>2, <3>3, <3>4
  <2>. QED
    BY <2>1, <2>2 DEF BackInv, Undone
<1>4. CASE PlanManager \/ PlanOverlooks \/ PlanFails \/ PlanReturns \/ BeginApplying
  <2>1. /\ pc = "planning" /\ UNCHANGED <<born, drifts, verb, verbs, agg>>
        /\ faults' \in {faults, faults + 1}
    BY <1>4 DEF PlanManager, PlanOverlooks, PlanFails, PlanReturns, BeginApplying, Return
  <2>2. res.failed = {}
    BY <2>1 DEF StopInv, NoResult
  <2>3. Undisturbed' => Undisturbed
    BY <1>0, <2>1, <2>2 DEF Undisturbed, NobodyElse, NothingHides
  <2>4. ~(Undisturbed /\ verbs = 2)
    BY <2>1 DEF BackInv
  <2>. QED
    BY <1>1, <2>1, <2>3, <2>4
<1>5. ASSUME pc = "applying", UNCHANGED <<verb, verbs>>
      PROVE  BackInv'
  BY <1>1, <1>5 DEF Undisturbed, StopInv
<1>6. CASE DryRunManager \/ ProbeFails \/ ReloadFails \/ ManagerReturns \/ ApplyReturns
  BY <1>5, <1>6 DEF DryRunManager, ProbeFails, ReloadFails, ManagerReturns, ApplyReturns, Running,
     Return, Enter
<1>7. ASSUME NEW c \in Change, ApplySucceeds(c) \/ ApplyFails(c)
      PROVE  BackInv'
  BY <1>5, <1>7 DEF ApplySucceeds, ApplyFails, Running
<1>8. CASE UndoSkips \/ UndoSucceeds
  <2>1. /\ Undoing /\ left' = left - 1 /\ pc = "undoing" /\ cur \in Manager /\ left \in 1 .. Len(applied[cur])
        /\ UNCHANGED <<applied, cur, pc, rerr, born, drifts, faults, agg, res, verb, verbs>>
        /\ host' = (IF LastMade \in Undoable THEN host \ {LastMade} ELSE host)
    BY <1>0, <1>8 DEF UndoSkips, UndoSucceeds, Undoing, TypeOK
  <2> SUFFICES ASSUME Undisturbed', verbs' = 2
               PROVE  BackInv'
    BY <1>1
  <2>2. Undisturbed /\ verbs = 2
    BY <2>1 DEF Undisturbed, NobodyElse, NothingHides
  <2>3. ASSUME NEW m \in Manager, NEW i \in DOMAIN applied[m]
        PROVE  IF m > cur \/ (m = cur /\ i > left')
               THEN applied[m][i] \in Undoable => applied[m][i] \notin host'
               ELSE applied[m][i] \in host'
    <3>1. CASE m = cur /\ i = left
      <4>1. applied[m][i] = LastMade
        BY <3>1 DEF LastMade
      <4>. QED
        BY <1>0, <2>1, <3>1, <4>1
    <3>2. CASE ~(m = cur /\ i = left)
      <4>1. i \in Nat /\ m \in Nat
        BY <1>0
      <4>2. left \in DOMAIN applied[cur] /\ applied[cur][left] = LastMade
        BY <1>0, <2>1 DEF LastMade
      <4>3. CASE m > cur \/ (m = cur /\ i > left')
        <5>1. Undone(m, i)
          BY <1>0, <2>1, <3>2, <4>1, <4>3 DEF Undone
        <5>2. applied[m][i] \in Undoable => applied[m][i] \notin host
          BY <2>2, <5>1 DEF BackInv
        <5>. QED
          BY <2>1, <4>3, <5>2
      <4>4. CASE ~(m > cur \/ (m = cur /\ i > left'))
        <5>1. ~Undone(m, i) /\ (m < cur \/ (m = cur /\ i < left))
          BY <1>0, <2>1, <3>2, <4>1, <4>4 DEF Undone
        <5>2. applied[m][i] \in host
          BY <2>2, <5>1 DEF BackInv
        <5>3. GoesBefore(applied[m][i], LastMade)
          BY <2>1, <2>2, <4>2, <5>1, RecordOrder
        <5>4. applied[m][i] # LastMade
          BY <5>3, OneBefore DEF GoesBefore
        <5>. QED
          BY <2>1, <4>4, <5>2, <5>4
      <4>. QED
        BY <4>3, <4>4
    <3>. QED
      BY <3>1, <3>2
  <2>4. ~rerr'
    BY <2>1, <2>2 DEF BackInv
  <2>. QED
    BY <2>1, <2>3, <2>4 DEF BackInv, Undone
<1>9. CASE UndoFails
  <2> SUFFICES ASSUME Undisturbed', verbs' = 2
               PROVE  FALSE
    BY <1>1
  <2>1. /\ Undoing /\ LastMade \in Undoable /\ faults' \in {faults, faults + 1}
        /\ UNCHANGED <<born, drifts, agg, res, verb, verbs>>
        /\ faults' = faults => ~UndoWorks(LastMade)
    BY <1>0, <1>9 DEF UndoFails
  <2>2. Undisturbed /\ verbs = 2 /\ faults' = faults
    BY <1>0, <2>1 DEF Undisturbed, NobodyElse, NothingHides
  <2>3. UndoWorks(LastMade)
    BY <2>1, <2>2, UndoAlwaysWorks
  <2>. QED
    BY <2>1, <2>2, <2>3
<1>10. CASE RollbackNext
  <2>1. /\ pc = "undoing" /\ cur \in Manager /\ left = 0 /\ cur' = cur - 1
        /\ left' = IF cur > 1 THEN Len(applied[cur - 1]) ELSE 0
        /\ UNCHANGED <<host, born, applied, pc, verb, verbs, agg, res, rerr, faults, drifts>>
    BY <1>10 DEF RollbackNext
  <2> SUFFICES ASSUME Undisturbed', verbs' = 2
               PROVE  BackInv'
    BY <1>1
  <2>2. Undisturbed /\ verbs = 2
    BY <2>1 DEF Undisturbed, NobodyElse, NothingHides
  <2>3. ASSUME NEW m \in Manager, NEW i \in DOMAIN applied[m]
        PROVE  (m > cur' \/ (m = cur' /\ i > left')) <=> Undone(m, i)
    <3>1. i \in 1 .. Len(applied[m]) /\ m \in Nat /\ m >= 1
      BY <1>0 DEF Manager
    <3>2. cur > 1 => left' = Len(applied[cur'])
      BY <2>1
    <3>. QED
      BY <1>0, <2>1, <3>1, <3>2 DEF Undone
  <2>4. \A m \in Manager : \A i \in DOMAIN applied[m] :
          IF Undone(m, i) THEN applied[m][i] \in Undoable => applied[m][i] \notin host
          ELSE applied[m][i] \in host
    BY <2>2 DEF BackInv
  <2>5. \A m \in Manager : \A i \in DOMAIN applied'[m] :
          IF m > cur' \/ (m = cur' /\ i > left')
          THEN applied'[m][i] \in Undoable => applied'[m][i] \notin host'
          ELSE applied'[m][i] \in host'
    BY <2>1, <2>3, <2>4
  <2>6. ~rerr'
    BY <2>1, <2>2 DEF BackInv
  <2>. QED
    BY <2>1, <2>5, <2>6 DEF BackInv, Undone
<1>11. CASE RollbackReturns
  <2>1. /\ pc = "undoing" /\ cur = 0 /\ pc' = "idle" /\ ret' = (IF rerr THEN "error" ELSE "ok")
        /\ UNCHANGED <<host, born, applied, cur, left, verb, verbs, agg, res, rerr, faults, drifts>>
    BY <1>11 DEF RollbackReturns, Return
  <2>2. Undisturbed' => Undisturbed
    BY <2>1 DEF Undisturbed, NobodyElse, NothingHides
  <2>. QED
    BY <2>1, <2>2 DEF BackInv, Undone
<1>12. CASE Restart
  BY <1>1, <1>12 DEF Restart, Fresh
<1>13. ASSUME NEW c \in Shared, Drift(c)
       PROVE  BackInv'
  BY <1>0, <1>1, <1>13 DEF Drift, Undisturbed, NobodyElse
<1>14. CASE UNCHANGED vars
  BY <1>14, BackFrame DEF vars, Undisturbed, NobodyElse, NothingHides
<1>. QED
  BY <1>2, <1>3, <1>4, <1>6, <1>7, <1>8, <1>9, <1>10, <1>11, <1>12, <1>13, <1>14 DEF Next, Step

\* Whatever the managers are, provided that they are ordered by what their
\* changes need and that what comes along with a change stands by itself: a
\* Rollback after an Apply without failures returns without an error and takes
\* back every change that can be taken back.
THEOREM RollbackTakesBack ==
  ASSUME NeedsComeFirst, CompanionsStand
  PROVE  Spec => []RollbackRestores
<1>1. TypeOK /\ StopInv /\ OrderInv /\ BackInv => RollbackRestores
  <2> SUFFICES ASSUME TypeOK, StopInv, OrderInv, BackInv,
                      pc = "idle", verb = "rollback", verbs = 2, agg.failed = {},
                      NobodyElse, faults = born.faults, NothingHides
               PROVE  ret = "ok" /\ (host \ born.host) \cap Undoable \subseteq SideEffects(Change)
    BY DEF RollbackRestores
  <2>1. res = NoResult
    BY DEF StopInv
  <2>2. Undisturbed
    BY <2>1 DEF Undisturbed, NoResult
  <2>3. ret = "ok" /\ cur = 0
    BY <2>2 DEF BackInv
  <2>4. ASSUME NEW x \in (host \ born.host) \cap Undoable
        PROVE  x \in SideEffects(Change)
    <3>1. x \in Recorded \union SideEffects(Recorded)
      BY <2>2, <2>4 DEF OrderInv
    <3>2. x \notin Recorded
      <4> SUFFICES ASSUME x \in Recorded PROVE FALSE
        OBVIOUS
      <4>1. ToSet(res.applied) = {}
        BY <2>1, ToSetEmpty DEF NoResult
      <4>2. PICK m \in Manager : x \in ToSet(applied[m])
        BY <4>1 DEF Recorded
      <4>3. PICK i \in DOMAIN applied[m] : x = applied[m][i]
        BY <4>2 DEF ToSet
      <4>4. Undone(m, i)
        BY <2>3 DEF Undone, Manager
      <4>. QED
        BY <2>2, <2>4, <4>3, <4>4 DEF BackInv
    <3>3. Recorded \subseteq Change
      BY <2>1, ToSetType, ToSetEmpty DEF Recorded, NoResult, TypeOK
    <3>. QED
      BY <3>1, <3>2, <3>3 DEF SideEffects
  <2>. QED
    BY <2>3, <2>4
<1>2. Init => OrderInv /\ BackInv
  BY FreshOrder DEF Init, BackInv
<1>3. Init => /\ OwnInv /\ StopInv /\ AccountInv /\ StandInv /\ MissInv /\ FirstInv
              /\ OrderInv /\ BackInv
  BY <1>2, InitOwn, InitStop, InitAccount, InitStand, InitMiss, InitFirst
<1>4. TypeOK /\ TypeOK' /\ OwnInv /\ StopInv /\ AccountInv /\ StandInv /\ MissInv /\ FirstInv
        /\ OrderInv /\ BackInv /\ [Next]_vars
        => (/\ OwnInv /\ StopInv /\ AccountInv /\ StandInv /\ MissInv /\ FirstInv
            /\ OrderInv /\ BackInv)'
  BY StepOwn, StepStop, StepAccount, StepStand, StepMiss, StepFirst, StepOrder, StepBack
<1>. QED
  BY <1>1, <1>3, <1>4, TypeCorrect, PTL DEF Spec

-----------------------------------------------------------------------------
(* The orchestrator keeps the promise of ManagedHost. *)

Mode == IF pc = "applying" /\ ~opts.dryRun THEN "writing"
        ELSE IF pc = "undoing" THEN "undoing" ELSE "idle"

\* The hosts start as the abstract host does.
LEMMA InitHost == Init => Host!Init
<1> SUFFICES ASSUME Init PROVE Host!Init
  OBVIOUS
<1>1. ToSet(res.applied) = {} /\ \A m \in Manager : ToSet(applied[m]) = {}
  BY ToSetEmpty DEF Init, NoResult
<1>2. Recorded = {}
  BY <1>1 DEF Recorded
<1>. QED
  BY <1>2 DEF Init, Host!Init

\* Every step is a step of the abstract host, or none.
LEMMA StepHost == TypeOK /\ StopInv /\ [Next]_vars => [Host!Next]_(Host!vars)
<1> SUFFICES ASSUME TypeOK, StopInv, [Next]_vars
             PROVE  [Host!Next]_(Host!vars)
  OBVIOUS
<1> USE DEF control, work, undoing, world, history
<1>0. ASSUME UNCHANGED <<host, Mode, Recorded, drifts>>
      PROVE  [Host!Next]_(Host!vars)
  BY <1>0 DEF Mode, Host!vars
<1>00. ASSUME UNCHANGED <<applied, res>>
       PROVE  Recorded' = Recorded
  BY <1>00 DEF Recorded
<1>1. ASSUME NEW v \in {"plan", "apply"}, Begin(v)
      PROVE  [Host!Next]_(Host!vars)
  <2>1. Mode' = Mode
    BY <1>1 DEF Begin, Mode
  <2>. QED
    BY <1>0, <1>00, <1>1, <2>1 DEF Begin
<1>2. CASE PlanManager \/ PlanOverlooks \/ PlanFails \/ PlanReturns
  <2>1. Mode' = Mode /\ UNCHANGED <<host, applied, res, drifts>>
    BY <1>2 DEF PlanManager, PlanOverlooks, PlanFails, PlanReturns, Return, Mode
  <2>. QED
    BY <1>0, <1>00, <2>1
<1>3. CASE BeginApplying
  <2>1. UNCHANGED <<host, applied, res, drifts>>
    BY <1>3 DEF BeginApplying, Enter, StopInv
  <2>2. Mode = "idle" /\ Mode' \in {"idle", "writing"}
    BY <1>3 DEF BeginApplying, Mode
  <2>3. CASE Mode' = "idle"
    BY <1>0, <1>00, <2>1, <2>2, <2>3
  <2>4. CASE Mode' = "writing"
    <3>1. Recorded' = Recorded
      BY <1>00, <2>1
    <3>2. Host!Begin
      BY <2>1, <2>2, <2>4, <3>1 DEF Mode, Host!Begin
    <3>. QED
      BY <3>2 DEF Host!Next
  <2>. QED
    BY <2>2, <2>3, <2>4
<1>4. CASE DryRunManager \/ ProbeFails \/ ReloadFails
  <2>1. res'.applied = res.applied /\ UNCHANGED <<host, applied, drifts, pc, opts>>
    BY <1>4 DEF DryRunManager, ProbeFails, ReloadFails, TypeOK, Result
  <2>2. Recorded' = Recorded /\ Mode' = Mode
    BY <2>1 DEF Recorded, Mode
  <2>. QED
    BY <1>0, <2>1, <2>2
<1>5. ASSUME NEW c \in Change, ApplySucceeds(c)
      PROVE  [Host!Next]_(Host!vars)
  <2>1. /\ Mode = "writing" /\ Mode' = "writing" /\ host' = AfterEffect(host, c)
        /\ UNCHANGED <<applied, drifts>>
    BY <1>5 DEF ApplySucceeds, Running, Mode
  <2>2. res.applied \in Seq(Change) /\ res'.applied = Append(res.applied, c)
    BY <1>5 DEF ApplySucceeds, TypeOK, Result
  <2>3. ToSet(res'.applied) = ToSet(res.applied) \union {c}
    BY <2>2, ToSetAppend
  <2>4. Recorded' = Recorded \union {c}
    BY <2>1, <2>3 DEF Recorded
  <2>5. Host!Write(c)
    BY <2>1, <2>4 DEF Mode, Host!Write, AfterEffect, Host!AfterEffect
  <2>. QED
    BY <2>5 DEF Host!Next
<1>6. ASSUME NEW c \in Change, ApplyFails(c)
      PROVE  [Host!Next]_(Host!vars)
  <2>1. /\ Mode = "writing" /\ Mode' = "writing" /\ host' \in {host, AfterEffect(host, c)}
        /\ UNCHANGED <<applied, drifts>>
    BY <1>6 DEF ApplyFails, Running, Mode
  <2>2. res'.applied = res.applied
    BY <1>6 DEF ApplyFails, TypeOK, Result
  <2>3. Recorded' = Recorded
    BY <2>1, <2>2 DEF Recorded
  <2>4. CASE host' = host
    BY <1>0, <2>1, <2>3, <2>4
  <2>5. CASE host' = AfterEffect(host, c)
    <3>1. Host!Write(c)
      BY <2>1, <2>3, <2>5 DEF Mode, Host!Write, AfterEffect, Host!AfterEffect
    <3>. QED
      BY <3>1 DEF Host!Next
  <2>. QED
    BY <2>1, <2>4, <2>5
<1>7. CASE ManagerReturns
  <2>1. /\ cur \in Manager /\ pc = "applying" /\ pc' \in {"applying", "idle"}
        /\ applied' = [applied EXCEPT ![cur] = @ \o res.applied] /\ res' = NoResult
        /\ UNCHANGED <<host, drifts, opts>>
    BY <1>7 DEF ManagerReturns, Return, Enter
  <2>2. Recorded' = Recorded
    BY <2>1, RecordedMoves
  <2>3. CASE Mode' = Mode
    BY <1>0, <2>1, <2>2, <2>3
  <2>4. CASE Mode' # Mode
    <3>1. Mode = "writing" /\ Mode' = "idle"
      BY <2>1, <2>4 DEF Mode
    <3>2. Host!End
      BY <2>1, <2>2, <3>1 DEF Mode, Host!End
    <3>. QED
      BY <3>2 DEF Host!Next
  <2>. QED
    BY <2>3, <2>4
<1>8. CASE ApplyReturns \/ RollbackReturns
  <2>1. /\ pc' = "idle" /\ pc \in {"applying", "undoing"}
        /\ UNCHANGED <<host, applied, res, drifts>>
    BY <1>8 DEF ApplyReturns, RollbackReturns, Return
  <2>2. Mode' = "idle" /\ Recorded' = Recorded
    BY <1>00, <2>1 DEF Mode
  <2>3. CASE Mode = "idle"
    BY <1>0, <2>1, <2>2, <2>3
  <2>4. CASE Mode # "idle"
    <3>1. Host!End
      BY <2>1, <2>2, <2>4 DEF Mode, Host!End
    <3>. QED
      BY <3>1 DEF Host!Next
  <2>. QED
    BY <2>3, <2>4
<1>9. CASE BeginRollback
  <2>1. Mode = "idle" /\ Mode' = "undoing" /\ UNCHANGED <<host, applied, res, drifts>>
    BY <1>9 DEF BeginRollback, Mode
  <2>2. Host!Begin
    BY <1>00, <2>1 DEF Mode, Host!Begin
  <2>. QED
    BY <2>2 DEF Host!Next
<1>10. CASE UndoSkips \/ RollbackNext
  <2>1. UNCHANGED <<host, applied, res, drifts, pc, opts>>
    BY <1>10 DEF UndoSkips, RollbackNext
  <2>. QED
    BY <1>0, <1>00, <2>1 DEF Mode
<1>11. CASE UndoSucceeds \/ UndoFails
  <2> DEFINE c == LastMade
  <2>1. /\ Undoing /\ UNCHANGED <<applied, res, drifts, pc, opts>>
        /\ host' \in {host, host \ {c}}
    BY <1>11 DEF UndoSucceeds, UndoFails
  <2>2. c \in Recorded /\ c \in Change
    <3>1. /\ cur \in Manager /\ applied[cur] \in Seq(Change)
          /\ left \in 1 .. Len(applied[cur])
      BY <2>1 DEF TypeOK, Undoing
    <3>. QED
      BY <2>1, <3>1, UndoneIsRecorded DEF LastMade
  <2>3. Mode = "undoing" /\ Mode' = Mode /\ Recorded' = Recorded
    BY <1>00, <2>1 DEF Mode, Undoing
  <2>4. CASE host' = host
    BY <1>0, <2>1, <2>3, <2>4
  <2>5. CASE host' = host \ {c}
    <3>1. Host!Undo(c)
      BY <2>1, <2>2, <2>3, <2>5 DEF Mode, Host!Undo
    <3>. QED
      BY <2>2, <3>1 DEF Host!Next
  <2>. QED
    BY <2>1, <2>4, <2>5
<1>12. CASE Restart
  <2>1. /\ pc' = "idle" /\ applied' = [m \in Manager |-> <<>>] /\ res' = NoResult
        /\ UNCHANGED <<host, drifts>>
    BY <1>12 DEF Restart, Fresh
  <2>2. ToSet(res'.applied) = {} /\ \A m \in Manager : ToSet(applied'[m]) = {}
    BY <2>1, ToSetEmpty DEF NoResult
  <2>3. Recorded' = {}
    BY <2>2 DEF Recorded
  <2>4. Host!Restart
    BY <2>1, <2>3 DEF Host!Restart
  <2>. QED
    BY <2>4 DEF Host!Next
<1>13. ASSUME NEW c \in Shared, Drift(c)
       PROVE  [Host!Next]_(Host!vars)
  <2>1. /\ UNCHANGED <<applied, res, pc, opts>> /\ drifts' = drifts + 1
        /\ host' \in {host \union {c}, host \ {c}}
    BY <1>13 DEF Drift
  <2>2. Mode' = Mode /\ Recorded' = Recorded
    BY <1>00, <2>1 DEF Mode
  <2>3. Host!Drift(c)
    BY <2>1, <2>2 DEF Mode, Host!Drift
  <2>. QED
    BY <1>13, <2>3, OrchestratorAssumption DEF Host!Next
<1>14. CASE UNCHANGED vars
  BY <1>0, <1>00, <1>14 DEF vars, Mode
<1>. QED
  BY <1>1, <1>2, <1>3, <1>4, <1>5, <1>6, <1>7, <1>8, <1>9, <1>10, <1>11, <1>12,
     <1>13, <1>14 DEF Next, Step

\* Whatever the managers are, a linuxctl process keeps the promise of
\* ManagedHost: planning and dry runs leave the host alone, applying only puts
\* changes in effect, and rolling back takes away only what this process made.
THEOREM HostPromiseKept == Spec => KeepsHostPromise
<1>. QED
  BY InitHost, StepHost, TypeCorrect, InitStop, StepStop, PTL
     DEF Spec, KeepsHostPromise, Host!Spec
=============================================================================
