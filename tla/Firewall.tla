------------------------------ MODULE Firewall ------------------------------
(***************************************************************************)
(* The firewall manager (firewall.go) on a host with firewalld, ufw or     *)
(* nftables.  firewalld has two sets of rules: the running one, which Plan *)
(* reads, and the permanent one, which Apply and Rollback write and which  *)
(* becomes the running one when firewalld starts, reloads or the host      *)
(* reboots.  ufw has one set, without zones.  On nftables the manager only *)
(* starts and stops the service.                                           *)
(***************************************************************************)
EXTENDS Naturals, Sequences, FiniteSets, TLC

CONSTANTS
  Zones,
  DefaultZone, \* where Plan looks for the rules of ufw
  Names,       \* ports and sources
  Kind,        \* "port" or "source"
  Manifests,   \* what may be declared: [enabled, zones, rules]
  MaxRuns,     \* bound: processes
  MaxVerbs,    \* bound: Apply and Rollback calls per process
  MaxFaults,   \* bound: commands that fail
  MaxEdits     \* bound: changes by others

Rule == [zone : Zones, name : Names]

ASSUME FirewallAssumption ==
  /\ DefaultZone \in Zones /\ Kind \in [Names -> {"port", "source"}]
  /\ \A d \in Manifests :
       d.enabled \in BOOLEAN /\ d.zones \subseteq Zones
       /\ d.rules \subseteq Rule /\ \A r \in d.rules : r.zone \in d.zones
  /\ MaxRuns \in Nat /\ MaxVerbs \in Nat /\ MaxFaults \in Nat /\ MaxEdits \in Nat

VARIABLES
  backend,  \* "firewalld", "ufw", "nftables": as detectBackend finds it
  host,     \* [active, running, permanent]
  desired,  \* the manifest
  pc,       \* "idle", "apply", "undo"
  todo,     \* the changes not applied yet: Go's maps give them in any order
  reload,   \* needsReload
  applied,  \* the changes recorded for Rollback
  left,     \* how many of them Rollback has still to undo
  verb, ret, verbs,
  runs, faults, edits,
  since,    \* history: host, faults and edits when the verb began
  born      \* history: host, faults and edits when the process started

process == <<desired, pc, todo, reload, applied, left, verb, ret, verbs>>
counts  == <<runs, faults, edits>>
vars    == <<backend, host, process, counts, since, born>>

----------------------------------------------------------------------------
(* Plan. *)

Service(op)   == [op |-> op]
Change(op, r) == [op |-> op, rule |-> r]
IsService(c)  == c.op \in {"enable", "disable"}

\* What the snapshot holds: nothing while the firewall is down, of ufw its ports.
Seen(h) ==
  CASE backend = "firewalld" -> h.running
    [] backend = "ufw"       -> {r \in h.running : Kind[r.name] = "port"}
    [] backend = "nftables"  -> {}

Changes(active, seen) ==
  IF ~desired.enabled THEN IF active THEN {Service("disable")} ELSE {}
  ELSE (IF active THEN {} ELSE {Service("enable")})
       \union {Change("add", r) : r \in desired.rules \ seen}
       \union {Change("remove", r) : r \in {s \in seen : s.zone \in desired.zones} \ desired.rules}

----------------------------------------------------------------------------
(* What the commands do. *)

\* ufw has no zones: its rules are all in the zone Plan looks for them.
Written(r) == IF backend = "ufw" THEN [r EXCEPT !.zone = DefaultZone] ELSE r

\* firewalld takes its permanent rules when it starts or reloads, ufw at once.
InForce(h) == [h EXCEPT !.running = IF h.active THEN h.permanent ELSE {}]

Store(h, rules) ==
  LET stored == [h EXCEPT !.permanent = rules]
  IN  IF backend = "ufw" THEN InForce(stored) ELSE stored

\* firewall-cmd needs a running firewalld; portOp and sourceOp know no nftables.
Works(h, c) ==
  IsService(c) \/ backend = "ufw" \/ (backend = "firewalld" /\ h.active)

\* Starting what runs and adding what is there are no errors, and change nothing.
Do(h, c) ==
  CASE c.op = "enable"  -> IF h.active THEN h ELSE InForce([h EXCEPT !.active = TRUE])
    [] c.op = "disable" -> InForce([h EXCEPT !.active = FALSE])
    [] c.op = "add"     -> Store(h, h.permanent \union {Written(c.rule)})
    [] c.op = "remove"  -> Store(h, h.permanent \ {Written(c.rule)})

Reversed(c) ==
  CASE c.op = "enable"  -> Service("disable")
    [] c.op = "disable" -> Service("enable")
    [] c.op = "add"     -> Change("remove", c.rule)
    [] c.op = "remove"  -> Change("add", c.rule)

----------------------------------------------------------------------------

Now == [host |-> host, faults |-> faults, edits |-> edits]

Hosts ==
  {h \in [active : BOOLEAN, running : SUBSET Rule, permanent : SUBSET Rule] :
     /\ backend = "nftables" => h.permanent = {}
     /\ backend = "ufw" => \A r \in h.permanent : r.zone = DefaultZone
     /\ h = InForce(h)}

Init ==
  /\ backend \in {"firewalld", "ufw", "nftables"}
  /\ host \in Hosts
  /\ desired \in Manifests
  /\ pc = "idle" /\ todo = {} /\ reload = FALSE /\ applied = <<>> /\ left = 0
  /\ verb = "none" /\ ret = "ok" /\ verbs = 0
  /\ runs = 1 /\ faults = 0 /\ edits = 0
  /\ since = Now /\ born = Now

\* The process ends, or is killed between two commands, and another one starts.
Restart ==
  /\ runs < MaxRuns /\ runs' = runs + 1
  /\ desired' \in Manifests
  /\ pc' = "idle" /\ todo' = {} /\ reload' = FALSE /\ applied' = <<>> /\ left' = 0
  /\ verb' = "none" /\ ret' = "ok" /\ verbs' = 0
  /\ since' = Now /\ born' = Now
  /\ UNCHANGED <<backend, host, faults, edits>>

Fault   == faults < MaxFaults /\ faults' = faults + 1
NoFault == UNCHANGED faults

Call(v) ==
  /\ pc = "idle" /\ verbs < MaxVerbs
  /\ verbs' = verbs + 1 /\ verb' = v /\ ret' = "ok" /\ since' = Now

\* A probe that fails hides the rules, or makes a running firewall look stopped.
Plan ==
  /\ Call("apply") /\ pc' = "apply" /\ reload' = FALSE
  /\ \/ NoFault /\ todo' = Changes(host.active, Seen(host))
     \/ Fault /\ \E active \in {host.active, FALSE} : todo' = Changes(active, {})
  /\ UNCHANGED <<backend, host, desired, applied, left, runs, edits, born>>

----------------------------------------------------------------------------
(* Apply. *)

VerbRest == UNCHANGED <<backend, desired, verb, verbs, runs, edits, since, born>>

\* The change of the service comes first.
IsDue(c) == c \in todo /\ (IsService(c) \/ \A d \in todo : ~IsService(d))

Applies(c) ==
  /\ pc = "apply" /\ IsDue(c) /\ Works(host, c) /\ NoFault
  /\ host' = Do(host, c)
  /\ reload' = (reload \/ (backend = "firewalld" /\ ~IsService(c)))
  /\ applied' = Append(applied, c) /\ todo' = todo \ {c}
  /\ UNCHANGED <<pc, left, ret>> /\ VerbRest

\* The failure is noted, and the loop goes on.
Fails(c) ==
  /\ pc = "apply" /\ IsDue(c)
  /\ \/ ~Works(host, c) /\ NoFault /\ UNCHANGED host
     \/ Fault /\ host' \in {host} \union (IF Works(host, c) THEN {Do(host, c)} ELSE {})
  /\ todo' = todo \ {c} /\ ret' = "failed"
  /\ UNCHANGED <<pc, reload, applied, left>> /\ VerbRest

\* Mutant: the permanent rules wait for the next start of firewalld.
NoReload ==
  /\ pc = "apply" /\ todo = {} /\ reload /\ NoFault
  /\ pc' = "idle" /\ UNCHANGED host
  /\ UNCHANGED <<todo, reload, applied, left, ret>> /\ VerbRest

\* firewall-cmd --reload fails when firewalld has been stopped meanwhile.
Reload ==
  /\ pc = "apply" /\ todo = {} /\ reload /\ NoFault
  /\ pc' = "idle" /\ host' = InForce(host)
  /\ ret' = IF host.active THEN ret ELSE "error"
  /\ UNCHANGED <<todo, reload, applied, left>> /\ VerbRest

ReloadFails ==
  /\ pc = "apply" /\ todo = {} /\ reload /\ Fault
  /\ pc' = "idle" /\ ret' = "error"
  /\ UNCHANGED <<host, todo, reload, applied, left>> /\ VerbRest

ApplyReturns ==
  /\ pc = "apply" /\ todo = {} /\ ~reload
  /\ pc' = "idle" /\ NoFault
  /\ UNCHANGED <<host, todo, reload, applied, left, ret>> /\ VerbRest

----------------------------------------------------------------------------
(* Rollback: from the newest change to the oldest, errors thrown away, and no
   reload at the end. *)

BeginRollback ==
  /\ Call("rollback") /\ pc' = "undo" /\ left' = Len(applied)
  /\ UNCHANGED <<backend, host, desired, todo, reload, applied, counts, born>>

\* Mutant: what was removed is removed once more.
UndoneAgain ==
  LET c == applied[left] IN IF c.op = "remove" THEN c ELSE Reversed(c)

ToUndo == Reversed(applied[left])

Undo ==
  /\ pc = "undo" /\ left > 0 /\ left' = left - 1
  /\ \/ NoFault /\ host' = IF Works(host, ToUndo) THEN Do(host, ToUndo) ELSE host
     \/ Fault /\ UNCHANGED host
  /\ UNCHANGED <<pc, todo, reload, applied, ret>> /\ VerbRest

RollbackReturns ==
  /\ pc = "undo" /\ left = 0
  /\ pc' = "idle" /\ NoFault
  /\ UNCHANGED <<host, todo, reload, applied, left, ret>> /\ VerbRest

----------------------------------------------------------------------------
(* Others. *)

\* firewall-cmd without --permanent, for the time being
SomebodyOpens(r) ==
  backend = "firewalld" /\ host.active /\ host' = [host EXCEPT !.running = @ \union {r}]

SomebodyCloses(r) ==
  backend = "firewalld" /\ host.active /\ host' = [host EXCEPT !.running = @ \ {r}]

SomebodyStores(r) == Works(host, Change("add", r)) /\ host' = Do(host, Change("add", r))

SomebodyStops == host' = Do(host, Service("disable"))

Reboot == host' = InForce(host)

Others ==
  /\ edits < MaxEdits /\ edits' = edits + 1
  /\ \/ \E r \in Rule : SomebodyOpens(r) \/ SomebodyCloses(r) \/ SomebodyStores(r)
     \/ SomebodyStops \/ Reboot
  /\ UNCHANGED <<backend, process, runs, faults, since, born>>

Next ==
  \/ Plan
  \/ \E c \in todo : Applies(c) \/ Fails(c)
  \/ Reload \/ ReloadFails \/ ApplyReturns
  \/ BeginRollback \/ Undo \/ RollbackReturns
  \/ Restart \/ Others

Spec == Init /\ [][Next]_vars

----------------------------------------------------------------------------
(* Properties. *)

Clean(v, from) ==
  /\ pc = "idle" /\ verb = v /\ ret = "ok"
  /\ faults = from.faults /\ edits = from.edits

\* The variables keep their shapes, nothing is in force while the firewall is
\* down, and Rollback stays within the record.
TypeOK ==
  /\ host.active \in BOOLEAN /\ host.permanent \subseteq Rule /\ host.running \subseteq Rule
  /\ host.running # {} => host.active
  /\ backend = "ufw" => host = InForce(host)
  /\ pc \in {"idle", "apply", "undo"} /\ ret \in {"ok", "failed", "error"}
  /\ (pc = "undo" => left <= Len(applied)) /\ (reload => backend = "firewalld")

\* On ufw, which keeps the rules of every zone together, the manifest does not
\* declare in one zone what the default zone, declared as well, is to be rid of.
ZonesAgree ==
  backend = "ufw" /\ DefaultZone \in desired.zones =>
    \A r \in desired.rules : Written(r) \in desired.rules

\* Where nobody had opened a declared rule for the time being only, a clean Apply,
\* whatever failed before it, leaves every declared rule in force; what it leaves
\* open beside them in the declared zones was stored but not in force before.
\* (ufw is told nothing of zones, and its sources never show.)
ApplySettles ==
  /\ Clean("apply", since) /\ backend # "nftables" /\ ZonesAgree
  /\ desired.rules \intersect since.host.running \subseteq since.host.permanent
  => /\ host.active = desired.enabled
     /\ desired.enabled =>
          /\ \A r \in desired.rules : Written(r) \in host.running
          /\ {r \in Seen(host) : r.zone \in desired.zones} \ {Written(r) : r \in desired.rules}
               \subseteq since.host.permanent \ since.host.running

\* Where the two sets of rules agreed when the process started, a Rollback after
\* clean Applies leaves firewalld with the permanent rules it had.
RollbackRestores ==
  /\ Clean("rollback", born) /\ backend = "firewalld"
  /\ born.host.active /\ born.host.running = born.host.permanent
  => host.permanent = born.host.permanent /\ host.active = born.host.active

\* src/docs/user-guide.md: "after Apply(), Verify() MUST return zero changes".  With
\* firewalld running before and after, and every declared rule open when Apply
\* returns unless Apply itself closed it.
DeclaredStaysOpen ==
  /\ Clean("apply", since) /\ backend = "firewalld"
  /\ since.host.active /\ desired.enabled
  => Changes(host.active, Seen(host)) \intersect {Change("add", r) : r \in desired.rules} = {}
=============================================================================
