------------------------------- MODULE System -------------------------------
(***************************************************************************)
(* The package, selinux, network and service managers (package.go,         *)
(* selinux.go, network.go, service.go) on one host, called in that order   *)
(* by the orchestrator: all plan, then all apply; Rollback goes the other  *)
(* way.  They meet in the units that packages ship, and in what a reboot   *)
(* makes of the settings they store: a mode, a static name and enabled     *)
(* units become the mode, the name and the units that are running.         *)
(***************************************************************************)
EXTENDS Naturals, Sequences, FiniteSets, SequencesExt, TLC

CONSTANTS
  Packages,
  Needs,     \* the packages a package needs, directly or not
  Units,
  ShippedBy, \* the package that brings a unit
  Booleans,  \* of SELinux
  Names,     \* host names
  Resolvers, \* what resolv.conf may say of servers and search
  Nothing,   \* resolv.conf says nothing of them
  Unset,     \* not declared
  Manifests, \* what may be declared: [install, remove, services, mode, booleans, name, dns]
  Hosts,     \* what the host may be like at first
  MaxRuns,   \* bound: processes
  MaxVerbs,  \* bound: Apply and Rollback calls per process
  MaxFaults, \* bound: commands and queries that fail
  MaxEdits   \* bound: things that others do to the host

Modes == {"enforcing", "permissive", "disabled"}

ASSUME SystemAssumption ==
  /\ Needs \in [Packages -> SUBSET Packages]
  /\ \A p \in Packages : p \notin Needs[p] /\ \A q \in Needs[p] : Needs[q] \subseteq Needs[p]
  /\ ShippedBy \in [Units -> Packages]
  /\ Nothing \notin Resolvers /\ Unset \notin Names \union Resolvers \union Modes
  /\ MaxRuns \in Nat /\ MaxVerbs \in Nat /\ MaxFaults \in Nat /\ MaxEdits \in Nat

VARIABLES
  host,     \* [installed, unit, config, running, on, static, transient, dns]
  locked,   \* another program holds the lock of the package database
  desired,  \* the manifest
  pc,       \* "idle", "apply", "undo"
  todo,     \* the changes still to carry out, in Apply or in Rollback
  tries,    \* failed attempts at the first of them
  applied,  \* the changes recorded for Rollback, per manager
  verb, ret, verbs,
  runs, faults, edits,
  born,     \* history: the host, the lock, faults and edits when the process started
  undone,   \* history: the Rollback calls of the process
  blind     \* history: the queries of the process that were not answered

process == <<desired, pc, todo, tries, applied, verb, ret, verbs>>
history == <<born, undone, blind>>
counts  == <<runs, faults, edits>>
vars    == <<host, locked, process, counts, history>>

Managers == <<"package", "selinux", "network", "service">>

----------------------------------------------------------------------------
(* Packages, and the units they bring. *)

Absent == [file |-> "absent", active |-> FALSE]
Fresh  == [file |-> "disabled", active |-> FALSE]

WithNeeds(S)   == S \union UNION {Needs[p] : p \in S}
Dependents(S)  == S \union {p \in Packages : Needs[p] \intersect S # {}}
ShippedIn(S)   == {u \in Units : ShippedBy[u] \in S}

\* The package tools install what a package needs and remove what needs it.
Install(h, S) ==
  LET new == WithNeeds(S) \ h.installed
  IN  [h EXCEPT !.installed = @ \union new,
                !.unit = [u \in Units |-> IF u \in ShippedIn(new) THEN Fresh ELSE @[u]]]

Uninstall(h, S) ==
  LET gone == Dependents(S) \intersect h.installed
  IN  [h EXCEPT !.installed = @ \ gone,
                !.unit = [u \in Units |-> IF u \in ShippedIn(gone) THEN Absent ELSE @[u]]]

----------------------------------------------------------------------------
(* Plan. A query in B is not answered. *)

Queries ==
  ({"package"} \X Packages) \union ({"is-enabled", "is-active"} \X Units)
  \union {<<"hostname", Unset>>, <<"resolv.conf", Unset>>}

\* Mutant: whatever is declared is to be installed.
NeverInstalled(h, B, p) == FALSE

\* Any error of the query counts as "no".
isInstalled(h, B, p) == p \in h.installed /\ <<"package", p>> \notin B

\* One command for all packages to be installed, then one for those to be removed.
PackageChanges(h, B) ==
  LET create == {p \in desired.install : ~isInstalled(h, B, p)}
      delete == {p \in desired.remove : isInstalled(h, B, p)}
      batch(op, S) == IF S = {} THEN <<>> ELSE <<[mgr |-> "package", op |-> op, names |-> S]>>
  IN  batch("install", create) \o batch("remove", delete)


\* The configuration file is read, and getenforce asked only if that says nothing.
readMode(h) == IF h.config \in Modes THEN h.config ELSE IF h.running \in Modes THEN h.running ELSE Unset

SELinuxChanges(h) ==
  (IF desired.mode \in {Unset, readMode(h)} THEN <<>>
   ELSE <<[mgr |-> "selinux", op |-> "mode", before |-> readMode(h), after |-> desired.mode]>>)
  \o SetToSeq({[mgr |-> "selinux", op |-> "boolean", key |-> b, on |-> desired.booleans[b]] :
                b \in {k \in DOMAIN desired.booleans : desired.booleans[k] # (k \in h.on)}})

\* The name in force, or the stored one if it cannot be had.
currentHostname(h, B) == IF <<"hostname", Unset>> \in B THEN h.static ELSE h.transient

\* A file that cannot be read counts as empty.
currentResolvConf(h, B) == IF <<"resolv.conf", Unset>> \in B THEN Nothing ELSE h.dns

NetworkChanges(h, B) ==
  LET change(op, cur, want) ==
        IF want \in {Unset, cur} THEN <<>>
        ELSE <<[mgr |-> "network", op |-> op, before |-> cur, after |-> want]>>
  IN  change("hostname", currentHostname(h, B), desired.name)
      \o change("resolv.conf", currentResolvConf(h, B), desired.dns)

\* When is-enabled does not answer, status still says whether the unit is there.
observe(h, B, u) ==
  LET file == IF <<"is-enabled", u>> \in B THEN "unknown" ELSE h.unit[u].file
  IN  [exists  |-> h.unit[u].file # "absent",
       masked  |-> file = "masked",
       enabled |-> file = "enabled",
       active  |-> h.unit[u].active /\ <<"is-active", u>> \notin B]

ServiceChange(h, B, s) ==
  LET obs == observe(h, B, s.unit)
      change(op) == [mgr |-> "service", op |-> op, unit |-> s.unit, masked |-> obs.masked]
      when(c, op) == IF c THEN <<change(op)>> ELSE <<>>
  IN  IF ~obs.exists THEN <<change("error")>>
      ELSE when(s.enabled /\ ~obs.enabled, "enable") \o when(~s.enabled /\ obs.enabled, "disable")
           \o when(s.state = "running" /\ ~obs.active, "start")
           \o when(s.state = "stopped" /\ obs.active, "stop")

ServiceChanges(h, B) ==
  FlattenSeq([i \in DOMAIN desired.services |-> ServiceChange(h, B, desired.services[i])])

Changes(h, B) ==
  PackageChanges(h, B) \o SELinuxChanges(h) \o NetworkChanges(h, B) \o ServiceChanges(h, B)

----------------------------------------------------------------------------
(* What the commands of one change do. *)

\* setenforce is left out on the way to and from "disabled".
SetsEnforce(c) == c.after # "disabled" /\ c.before # "disabled"

\* Mutant: the file is not written.
RuntimeOnly(h, c) ==
  <<h>> \o IF SetsEnforce(c) /\ h.running # "disabled" THEN <<[h EXCEPT !.running = c.after]>> ELSE <<>>

\* setenforce, then sed: the hosts they lead to, as far as they get.  Neither
\* succeeds where there is no SELinux, nor setenforce where it is disabled.
ModeStages(h, c) ==
  CASE h.config \notin Modes -> <<h>>
    [] h.config \in Modes /\ ~SetsEnforce(c) -> <<h, [h EXCEPT !.config = c.after]>>
    [] h.config \in Modes /\ SetsEnforce(c) /\ h.running = "disabled" -> <<h>>
    [] h.config \in Modes /\ SetsEnforce(c) /\ h.running # "disabled" ->
         <<h, [h EXCEPT !.running = c.after], [h EXCEPT !.running = c.after, !.config = c.after]>>

HasUnit(h, u) == h.unit[u].file # "absent"

SetFile(h, u, f) == [h EXCEPT !.unit[u].file = IF @ = "static" THEN @ ELSE f]

\* The hosts that the commands of a change lead to, one after the other, up to the
\* one that cannot be carried out; a write of resolv.conf empties the file first.
Stages(h, c) ==
  <<h>> \o
  CASE c.op = "install"     -> <<Install(h, c.names)>>
    [] c.op = "remove"      -> <<Uninstall(h, c.names)>>
    [] c.op = "mode"        -> Tail(ModeStages(h, c))
    [] c.op = "boolean"     -> <<[h EXCEPT !.on = IF c.on THEN @ \union {c.key} ELSE @ \ {c.key}]>>
    [] c.op = "hostname"    -> <<[h EXCEPT !.static = c.after, !.transient = c.after]>>
    [] c.op = "resolv.conf" -> <<[h EXCEPT !.dns = Nothing], [h EXCEPT !.dns = c.after]>>
    [] c.op = "enable"      -> <<SetFile(h, c.unit, "enabled")>>
    [] c.op = "disable"     -> <<SetFile(h, c.unit, "disabled")>>
    [] c.op = "start"       -> <<[h EXCEPT !.unit[c.unit].active = TRUE]>>
    [] c.op = "stop"        -> <<[h EXCEPT !.unit[c.unit].active = FALSE]>>
    [] c.op = "error"       -> <<>>

Works(h, c) ==
  CASE c.op = "mode" -> h.config \in Modes /\ (SetsEnforce(c) => h.running # "disabled")
    [] c.op = "boolean" -> h.running \in Modes \ {"disabled"}
    [] c.op \in {"enable", "start"} -> HasUnit(h, c.unit) /\ ~c.masked /\ h.unit[c.unit].file # "masked"
    [] c.op \in {"disable", "stop"} -> HasUnit(h, c.unit) /\ ~c.masked
    [] c.op = "error" -> FALSE
    [] OTHER -> TRUE

\* The attempts a command gets: three against the lock of the package database,
\* two to start or stop a unit, though not in Rollback.
Attempts(c) ==
  IF c.mgr = "package" THEN 3
  ELSE IF c.op \in {"start", "stop"} /\ pc = "apply" THEN 2 ELSE 1

----------------------------------------------------------------------------

NoChanges == [package |-> <<>>, selinux |-> <<>>, network |-> <<>>, service |-> <<>>]

Begin ==
  /\ pc' = "idle" /\ todo' = <<>> /\ tries' = 0 /\ applied' = NoChanges
  /\ verb' = "none" /\ ret' = "ok" /\ verbs' = 0
  /\ born' = [host |-> host', locked |-> locked', faults |-> faults', edits |-> edits'] /\ undone' = 0 /\ blind' = {}

Init ==
  /\ host \in Hosts /\ locked = FALSE
  /\ desired \in Manifests
  /\ pc = "idle" /\ todo = <<>> /\ tries = 0 /\ applied = NoChanges
  /\ verb = "none" /\ ret = "ok" /\ verbs = 0
  /\ runs = 1 /\ faults = 0 /\ edits = 0
  /\ born = [host |-> host, locked |-> FALSE, faults |-> 0, edits |-> 0] /\ undone = 0 /\ blind = {}

\* The hosts a process leaves behind that is killed where it stands.
CutOff ==
  IF pc # "idle" /\ todo # <<>> /\ Works(host, Head(todo)) /\ ~(locked /\ Head(todo).mgr = "package")
  THEN ToSet(Stages(host, Head(todo))) ELSE {host}

\* The process ends, or is killed, and another one starts with the same manifest.
Restart ==
  /\ runs < MaxRuns /\ runs' = runs + 1
  /\ host' \in CutOff
  /\ UNCHANGED <<locked, desired, faults, edits>>
  /\ Begin

\* The host comes up from what is stored.  A disabled, static or masked unit stays
\* down, and a process that was at work on the host is gone, or has lost it.
Booted(h) ==
  [h EXCEPT !.running = h.config, !.transient = h.static,
            !.unit = [u \in Units |-> [@[u] EXCEPT !.active = h.unit[u].file = "enabled"]]]

Reboot ==
  /\ runs < MaxRuns /\ runs' = runs + 1
  /\ \E h \in CutOff : host' = Booted(h)
  /\ locked' = FALSE /\ UNCHANGED <<desired, faults, edits>>
  /\ Begin

Fault   == faults < MaxFaults /\ faults' = faults + 1
NoFault == UNCHANGED faults

Call(v) ==
  /\ pc = "idle" /\ verbs < MaxVerbs
  /\ verbs' = verbs + 1 /\ verb' = v /\ tries' = 0

Plan ==
  /\ Call("apply") /\ pc' = "apply" /\ ret' = "ok"
  /\ \E B \in {{}} \union {{q} : q \in Queries} :
       /\ IF B = {} THEN NoFault ELSE Fault
       /\ todo' = Changes(host, B) /\ blind' = blind \union B
  /\ UNCHANGED <<host, locked, desired, applied, runs, edits, born, undone>>

\* Queries whose errors are passed on: /etc/os-release until it was read once, the
\* mode and the booleans of SELinux, both ways to learn the name.
PlanFails ==
  /\ Call("apply") /\ Fault
  /\ \/ desired.install \union desired.remove # {} /\ verbs = 0
     \/ desired.mode # Unset \/ DOMAIN desired.booleans # {} \/ desired.name # Unset
  /\ ret' = "error"
  /\ UNCHANGED <<pc, todo, host, locked, desired, applied, runs, edits, history>>

----------------------------------------------------------------------------
(* Apply and Rollback carry out changes alike. *)

Working(c) == pc \in {"apply", "undo"} /\ todo # <<>> /\ c = Head(todo)

StepRest == UNCHANGED <<locked, desired, verb, verbs, runs, edits, history>>

Blocked(c) == locked /\ c.mgr = "package"

\* A command fails for a reason of the host's, or for one of its own, and then it
\* may have done some of its work, or all of it.
Breaks(c) ==
  \/ (Blocked(c) \/ ~Works(host, c)) /\ NoFault /\ host' = host
  \/ ~Blocked(c) /\ Works(host, c) /\ Fault
     /\ \/ host' \in ToSet(Stages(host, c))
        \/ c.op = "install" /\ \E p \in c.names : host' = Install(host, {p})
        \/ c.op = "remove" /\ \E p \in c.names : host' = Uninstall(host, {p})

Record(c) ==
  applied' = IF pc = "apply" THEN [applied EXCEPT ![c.mgr] = Append(@, c)] ELSE applied

Succeeds ==
  \E c \in ToSet(todo) :
    /\ Working(c) /\ ~Blocked(c) /\ Works(host, c) /\ NoFault
    /\ host' = Last(Stages(host, c))
    /\ Record(c) /\ todo' = Tail(todo) /\ tries' = 0
    /\ UNCHANGED <<pc, ret>> /\ StepRest

\* Mutant: the attempts are not counted.
RetriesForever ==
  \E c \in ToSet(todo) :
    /\ Working(c) /\ tries + 1 < Attempts(c) /\ (c.mgr = "package" => Blocked(c))
    /\ Breaks(c)
    /\ UNCHANGED <<pc, todo, tries, applied, ret>> /\ StepRest

\* The package manager tries again only when it meets the lock.
Retries ==
  \E c \in ToSet(todo) :
    /\ Working(c) /\ tries + 1 < Attempts(c) /\ (c.mgr = "package" => Blocked(c))
    /\ Breaks(c)
    /\ tries' = tries + 1
    /\ UNCHANGED <<pc, todo, applied, ret>> /\ StepRest

LastAttempt(c) == tries + 1 = Attempts(c) \/ (c.mgr = "package" /\ ~Blocked(c))

\* All four managers note a failure and go on with their other changes.
ApplyFails ==
  \E c \in ToSet(todo) :
    /\ Working(c) /\ pc = "apply" /\ LastAttempt(c)
    /\ Breaks(c)
    /\ todo' = Tail(todo) /\ tries' = 0 /\ ret' = "failed"
    /\ UNCHANGED <<pc, applied>> /\ StepRest

\* In Rollback the package and selinux managers give up and return the error, the
\* network and service managers ignore it; the orchestrator goes on with the next.
UndoFails ==
  \E c \in ToSet(todo) :
    /\ Working(c) /\ pc = "undo" /\ LastAttempt(c)
    /\ Breaks(c)
    /\ IF c.mgr \in {"package", "selinux"}
       THEN todo' = SelectSeq(todo, LAMBDA d : d.mgr # c.mgr) /\ ret' = "error"
       ELSE todo' = Tail(todo) /\ UNCHANGED ret
    /\ tries' = 0 /\ UNCHANGED <<pc, applied>> /\ StepRest

Returns ==
  /\ pc \in {"apply", "undo"} /\ todo = <<>>
  /\ pc' = "idle" /\ NoFault
  /\ UNCHANGED <<host, todo, tries, applied, ret>> /\ StepRest

----------------------------------------------------------------------------
(* Rollback. *)

Opposite == ("enable" :> "disable") @@ ("disable" :> "enable") @@ ("start" :> "stop") @@ ("stop" :> "start")

\* Mutant: a boolean is set again to what it was set to.
ReversedModeOnly(c) ==
  CASE c.mgr = "service" -> [c EXCEPT !.op = Opposite[@]]
    [] c.op = "boolean"  -> c
    [] OTHER             -> [c EXCEPT !.before = c.after, !.after = c.before]

Reversed(c) ==
  CASE c.mgr = "service" -> [c EXCEPT !.op = Opposite[@]]
    [] c.op = "boolean"  -> [c EXCEPT !.on = ~@]
    [] OTHER             -> [c EXCEPT !.before = c.after, !.after = c.before]

\* What was installed is removed first, then what was removed is installed again.
UndoPackages(cs) ==
  LET names(op) == UNION {c.names : c \in {d \in ToSet(cs) : d.op = op}}
      batch(op, S) == IF S = {} THEN <<>> ELSE <<[mgr |-> "package", op |-> op, names |-> S]>>
  IN  batch("remove", names("install")) \o batch("install", names("remove"))

Backwards(cs) == Reverse([i \in DOMAIN cs |-> Reversed(cs[i])])

Undoing ==
  Backwards(applied.service) \o Backwards(applied.network) \o Backwards(applied.selinux)
  \o UndoPackages(applied.package)

Rollback ==
  /\ Call("rollback") /\ pc' = "undo" /\ ret' = "ok" /\ NoFault
  /\ todo' = Undoing /\ undone' = undone + 1
  /\ UNCHANGED <<host, locked, desired, applied, runs, edits, born, blind>>

----------------------------------------------------------------------------
(* Others. *)

Edit ==
  /\ edits < MaxEdits /\ edits' = edits + 1
  /\ UNCHANGED <<process, runs, faults, history>>

\* Another program takes the lock, to install or remove something, or just to hold it.
SomebodyLocks == ~locked /\ locked' = TRUE /\ Edit /\ UNCHANGED host

SomebodyUnlocks ==
  /\ locked /\ locked' = FALSE
  /\ host' \in {host} \union {Install(host, {p}) : p \in Packages} \union {Uninstall(host, {p}) : p \in Packages}
  /\ UNCHANGED <<process, counts, history>>

\* setenforce, hostname and systemctl by hand, and NetworkManager at resolv.conf.
SomebodyChanges ==
  /\ \/ host.running \in Modes \ {"disabled"}
        /\ \E m \in Modes \ {"disabled"} : host' = [host EXCEPT !.running = m]
     \/ \E n \in Names : host' = [host EXCEPT !.transient = n]
     \/ \E r \in Resolvers : host' = [host EXCEPT !.dns = r]
     \/ \E u \in Units : HasUnit(host, u)
          /\ host' = [host EXCEPT !.unit[u].file = "masked"]
  /\ host' # host
  /\ Edit /\ UNCHANGED locked

Step == Plan \/ PlanFails \/ Succeeds \/ Retries \/ ApplyFails \/ UndoFails \/ Returns \/ Rollback

Next == Step \/ Restart \/ Reboot \/ SomebodyLocks \/ SomebodyUnlocks \/ SomebodyChanges

\* Remote commands return; the lock need never be released.
Fairness == WF_vars(Succeeds \/ Retries \/ ApplyFails \/ UndoFails \/ Returns)

Spec == Init /\ [][Next]_vars /\ Fairness

----------------------------------------------------------------------------
(* Properties. *)

Alone == edits = born.edits /\ ~born.locked

Undisturbed == faults = born.faults /\ Alone

Returned(v) == pc = "idle" /\ verb = v

\* The variables keep their shapes: a unit is there exactly when its package is,
\* no package is there without those it needs, and attempts stay within their bound.
TypeOK ==
  /\ host.installed \subseteq Packages /\ WithNeeds(host.installed) = host.installed
  /\ \A u \in Units : HasUnit(host, u) <=> ShippedBy[u] \in host.installed
  /\ host.config \in Modes \union {Unset} /\ host.running \in Modes \union {Unset}
  /\ host.on \subseteq Booleans /\ {host.static, host.transient} \subseteq Names
  /\ host.dns \in Resolvers \union {Nothing}
  /\ pc \in {"idle", "apply", "undo"} /\ ret \in {"ok", "failed", "error"}
  /\ tries \in 0 .. 2 /\ (tries > 0 => todo # <<>> /\ tries < Attempts(Head(todo)))
  /\ \A m \in ToSet(Managers) : \A c \in ToSet(applied[m]) : c.mgr = m /\ c.op # "error"

\* The packages that go when the manifest's removals are carried out.
Doomed == Dependents(desired.remove)

\* A manifest that contradicts neither itself nor what the host allows.
Coherent(h) ==
  /\ WithNeeds(desired.install) \intersect Doomed = {}
  /\ \A s \in ToSet(desired.services) :
       /\ ShippedBy[s.unit] \in (h.installed \ Doomed) \union WithNeeds(desired.install)
       /\ h.unit[s.unit].file \notin {"static", "masked"}
  /\ desired.mode # Unset => h.config \in Modes /\ (h.running = "disabled" => h.config = "disabled")
  /\ (\E b \in DOMAIN desired.booleans : desired.booleans[b] # (b \in h.on)) =>
       h.running \in Modes \ {"disabled"}

\* Everything is planned before anything is installed, so the units of a new package
\* are an error in the first Apply.  Undisturbed, one Apply settles a coherent
\* manifest whose units are there already, and two settle any.
SecondApplySettles ==
  /\ Returned("apply") /\ undone = 0 /\ Undisturbed /\ Coherent(born.host)
  /\ verbs = 2 \/ \A s \in ToSet(desired.services) : HasUnit(born.host, s.unit)
  => Changes(host, {}) = <<>>

\* The first Rollback of an undisturbed process that kept to a coherent manifest
\* leaves every setting as the process found it, and every unit too whose package
\* was there and stayed.  Of the packages it found it lacks only those that needed
\* one the manifest removes, and it leaves others only as what a new one needed.
RollbackRestores ==
  Returned("rollback") /\ undone = 1 /\ Undisturbed /\ Coherent(born.host) =>
    LET was == born.host
        new == WithNeeds(desired.install) \ desired.install
    IN  /\ was.installed \ host.installed \subseteq Doomed \ desired.remove
        /\ host.installed \ was.installed \subseteq new
        /\ \A u \in Units : ShippedBy[u] \in was.installed \ Doomed => host.unit[u] = was.unit[u]
        /\ host.config = was.config /\ host.on = was.on /\ host.dns = was.dns
        /\ host.running = was.running \/ was.running # was.config
        /\ host.transient = was.transient
        /\ host.static = was.static \/ was.static # was.transient

\* A package that was there when the process started, and that the manifest does
\* not ask to go, stays there, whatever fails and whatever is rolled back, unless
\* somebody else acts or the query for it, or for what it needs, was not answered.
FoundPackagesKept ==
  Alone =>
    \A p \in born.host.installed \ Doomed :
      (\A q \in WithNeeds({p}) : <<"package", q>> \notin blind) => p \in host.installed

\* A name given to the running host alone is no drift, and is lost.
NameIsStored == desired.name # Unset => host.static = host.transient

\* A unit that is to run is to be enabled, and the other way round.
Steady == \A s \in ToSet(desired.services) : s.state = IF s.enabled THEN "running" ELSE "stopped"


\* A verb returns, even if the lock is never released.
VerbReturns == pc # "idle" ~> pc = "idle"
=============================================================================
