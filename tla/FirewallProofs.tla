--------------------------- MODULE FirewallProofs ---------------------------
(***************************************************************************)
(* What holds of the firewall manager for any zones, rules, manifests and  *)
(* numbers of failures: a clean Apply settles the host, and a Rollback     *)
(* leaves the stored rules and the service as the process found them.      *)
(***************************************************************************)
EXTENDS Firewall, SequencesExt, SequenceTheorems, TLAPS

-----------------------------------------------------------------------------
(* Sequences. *)

\* Concatenating two sequences puts their elements together.
LEMMA ToSetConcat ==
  ASSUME NEW S, NEW s \in Seq(S), NEW t \in Seq(S)
  PROVE  ToSet(s \o t) = ToSet(s) \union ToSet(t)
<1>1. Range(s \o t) = Range(s) \union Range(t)
  BY RangeConcatenation
<1>. QED
  BY <1>1, Zenon DEF ToSet, Range

\* Appending c adds c to the elements.
LEMMA ToSetAppend ==
  ASSUME NEW S, NEW s \in Seq(S), NEW c \in S
  PROVE  ToSet(Append(s, c)) = ToSet(s) \union {c}
<1>1. Append(s, c) = s \o <<c>>
  BY AppendIsConcat
<1>2. <<c>> \in Seq(S) /\ ToSet(<<c>>) = {c}
  <2>1. <<c>> \in Seq(S) /\ DOMAIN <<c>> = {1} /\ <<c>>[1] = c
    OBVIOUS
  <2>. QED
    BY <2>1, Zenon DEF ToSet
<1>3. ToSet(s \o <<c>>) = ToSet(s) \union ToSet(<<c>>)
  BY <1>2, ToSetConcat
<1>4. ToSet(s \o <<c>>) = ToSet(s) \union {c}
  BY <1>2, <1>3, Zenon
<1>. QED
  BY <1>1, <1>4, Zenon

-----------------------------------------------------------------------------
(* Type correctness. *)

\* What Plan may list.
Operations == [op : {"enable", "disable"}] \union [op : {"add", "remove"}, rule : Rule]

\* The type invariant in parts: a host, whose rules are in force only while the
\* firewall runs and which on ufw has one zone,
Shaped(h) ==
  /\ h \in [active : BOOLEAN, running : SUBSET Rule, permanent : SUBSET Rule]
  /\ ~h.active => h.running = {}
  /\ backend = "ufw" => h = InForce(h) /\ \A r \in h.permanent : r.zone = DefaultZone

\* and the process.
ProcessOK ==
  /\ backend \in {"firewalld", "ufw", "nftables"} /\ desired \in Manifests
  /\ pc \in {"idle", "apply", "undo"} /\ ret \in {"ok", "failed", "error"}
  /\ pc = "apply" => verb = "apply"
  /\ pc = "undo" => verb = "rollback"
  /\ pc = "idle" /\ verb = "rollback" => left = 0
  /\ todo \subseteq Operations /\ applied \in Seq(Operations)
  /\ left \in Nat /\ left <= Len(applied)
  /\ faults \in Nat /\ edits \in Nat

\* Only firewalld reloads.
ReloadOK == reload \in BOOLEAN /\ (reload => backend = "firewalld")

\* The hosts the verb and the process began with.
BeganOK ==
  \A from \in {since, born} :
    /\ Shaped(from.host)
    /\ from.faults \in Nat /\ from.faults <= faults
    /\ from.edits \in Nat /\ from.edits <= edits

\* A manifest's declared rules are rules of its zones.
LEMMA ManifestType ==
  ASSUME desired \in Manifests
  PROVE  /\ desired.enabled \in BOOLEAN /\ desired.zones \subseteq Zones /\ desired.rules \subseteq Rule
         /\ \A r \in desired.rules : r.zone \in desired.zones
BY FirewallAssumption

\* What Plan sees is in force.
LEMMA SeenType ==
  ASSUME backend \in {"firewalld", "ufw", "nftables"}, NEW h, Shaped(h)
  PROVE  /\ Seen(h) \subseteq h.running /\ Seen(h) \subseteq Rule
         /\ backend = "ufw" => \A r \in Seen(h) : r \in h.permanent /\ r.zone = DefaultZone
<1>1. h.running \subseteq Rule /\ Seen(h) \subseteq h.running
  BY DEF Shaped, Seen
<1>2. ASSUME backend = "ufw" PROVE h.running \subseteq h.permanent
  <2>1. h = InForce(h) /\ h.permanent \subseteq Rule
    BY <1>2 DEF Shaped
  <2>2. h.running = IF h.active THEN h.permanent ELSE {}
    BY <2>1 DEF InForce, Shaped
  <2>. QED
    BY <2>2
<1>. QED
  BY <1>1, <1>2 DEF Shaped

\* What Plan lists, whatever it saw.
LEMMA ChangesType ==
  ASSUME desired \in Manifests, NEW active, NEW seen, seen \subseteq Rule
  PROVE  Changes(active, seen) \subseteq Operations
<1>1. Service("enable") \in Operations /\ Service("disable") \in Operations
  BY DEF Service, Operations
<1>2. \A r \in Rule : Change("add", r) \in Operations /\ Change("remove", r) \in Operations
  BY DEF Change, Operations
<1>3. desired.rules \subseteq Rule
  BY ManifestType
<1>. QED
  BY <1>1, <1>2, <1>3, Zenon DEF Changes

\* A rule is written as a rule, on ufw of the default zone.
LEMMA WrittenType ==
  ASSUME NEW r \in Rule
  PROVE  /\ Written(r) \in Rule
         /\ backend # "ufw" => Written(r) = r
         /\ backend = "ufw" => Written(r).zone = DefaultZone
         /\ backend = "ufw" /\ r.zone = DefaultZone => Written(r) = r
BY FirewallAssumption DEF Rule, Written

\* Putting the stored rules in force.
LEMMA InForceFields ==
  ASSUME NEW h \in [active : BOOLEAN, running : SUBSET Rule, permanent : SUBSET Rule]
  PROVE  /\ InForce(h) \in [active : BOOLEAN, running : SUBSET Rule, permanent : SUBSET Rule]
         /\ InForce(h).active = h.active /\ InForce(h).permanent = h.permanent
         /\ InForce(h).running = (IF h.active THEN h.permanent ELSE {})
         /\ InForce(InForce(h)) = InForce(h)
BY DEF InForce

\* A host whose stored rules are in force is in shape.
LEMMA InForceShaped ==
  ASSUME NEW h \in [active : BOOLEAN, running : SUBSET Rule, permanent : SUBSET Rule],
         backend = "ufw" => \A r \in h.permanent : r.zone = DefaultZone
  PROVE  Shaped(InForce(h))
BY InForceFields DEF Shaped

\* What an operation does to each part of a host.
LEMMA DoFields ==
  ASSUME NEW h, Shaped(h), NEW c \in Operations
  PROVE  /\ Shaped(Do(h, c))
         /\ c.op \in {"enable", "disable"} => /\ Do(h, c).permanent = h.permanent
                                              /\ Do(h, c).active = (c.op = "enable")
         /\ c.op = "enable" /\ h.active => Do(h, c) = h
         /\ c.op = "enable" /\ ~h.active => Do(h, c).running = h.permanent
         /\ c.op = "add" => Do(h, c).permanent = h.permanent \union {Written(c.rule)}
         /\ c.op = "remove" => Do(h, c).permanent = h.permanent \ {Written(c.rule)}
         /\ c.op \in {"add", "remove"} => /\ Do(h, c).active = h.active
                                          /\ backend # "ufw" => Do(h, c).running = h.running
<1> DEFINE H == [active : BOOLEAN, running : SUBSET Rule, permanent : SUBSET Rule]
<1>0. h \in H
  BY DEF Shaped
<1>1. CASE c.op = "enable"
  <2>1. [h EXCEPT !.active = TRUE] \in H
    BY <1>0
  <2>2. Shaped(InForce([h EXCEPT !.active = TRUE]))
    BY <1>0, <2>1, InForceShaped DEF Shaped
  <2>3. Do(h, c) = IF h.active THEN h ELSE InForce([h EXCEPT !.active = TRUE])
    BY <1>1 DEF Do
  <2>. QED
    BY <1>0, <1>1, <2>1, <2>2, <2>3, InForceFields
<1>2. CASE c.op = "disable"
  <2>1. [h EXCEPT !.active = FALSE] \in H
    BY <1>0
  <2>2. Shaped(InForce([h EXCEPT !.active = FALSE]))
    BY <1>0, <2>1, InForceShaped DEF Shaped
  <2>3. Do(h, c) = InForce([h EXCEPT !.active = FALSE])
    BY <1>2 DEF Do
  <2>. QED
    BY <1>0, <1>2, <2>1, <2>2, <2>3, InForceFields
<1>3. ASSUME NEW rules \in SUBSET Rule, backend = "ufw" => \A r \in rules : r.zone = DefaultZone
      PROVE  /\ Shaped(Store(h, rules)) /\ Store(h, rules).permanent = rules
             /\ Store(h, rules).active = h.active
             /\ backend # "ufw" => Store(h, rules).running = h.running
  <2>1. [h EXCEPT !.permanent = rules] \in H
    BY <1>0, <1>3
  <2>2. backend = "ufw" => Shaped(InForce([h EXCEPT !.permanent = rules]))
    BY <1>0, <1>3, <2>1, InForceShaped
  <2>3. backend # "ufw" => Shaped([h EXCEPT !.permanent = rules])
    BY <1>0, <2>1 DEF Shaped
  <2>. QED
    BY <1>0, <2>1, <2>2, <2>3, InForceFields DEF Store
<1>4. CASE c.op \in {"add", "remove"}
  <2>1. c.rule \in Rule /\ Written(c.rule) \in Rule /\ (backend = "ufw" => Written(c.rule).zone = DefaultZone)
    BY <1>4, WrittenType DEF Operations
  <2>2. Do(h, c) = Store(h, IF c.op = "add" THEN h.permanent \union {Written(c.rule)}
                                            ELSE h.permanent \ {Written(c.rule)})
    BY <1>4 DEF Do
  <2>. QED
    BY <1>0, <1>3, <1>4, <2>1, <2>2 DEF Shaped
<1>. QED
  BY <1>1, <1>2, <1>3, <1>4 DEF Operations

\* The process starts typed.
LEMMA InitTyped == Init => Shaped(host) /\ ProcessOK /\ ReloadOK /\ BeganOK
<1> SUFFICES ASSUME Init PROVE Shaped(host) /\ ProcessOK /\ ReloadOK /\ BeganOK
  OBVIOUS
<1>1. Shaped(host)
  <2>1. host \in [active : BOOLEAN, running : SUBSET Rule, permanent : SUBSET Rule]
        /\ host = InForce(host) /\ (backend = "ufw" => \A r \in host.permanent : r.zone = DefaultZone)
    BY DEF Init, Hosts
  <2>. QED
    BY <2>1, InForceShaped
<1>2. ProcessOK
  <2>1. applied = <<>> /\ <<>> \in Seq(Operations) /\ Len(applied) = 0
    BY EmptySeq DEF Init
  <2>. QED
    BY <2>1 DEF Init, ProcessOK
<1>3. ReloadOK
  BY Zenon DEF Init, ReloadOK
<1>. QED
  BY <1>1, <1>2, <1>3 DEF Init, BeganOK, Now

\* The reversal of an operation is one.
LEMMA ReversedType == ASSUME NEW c \in Operations PROVE Reversed(c) \in Operations
BY DEF Reversed, Operations, Service, Change

\* The change that Undo takes back.
LEMMA ToUndoType ==
  ASSUME ProcessOK, pc = "undo", left > 0
  PROVE  /\ left \in 1 .. Len(applied) /\ applied[left] \in Operations /\ ToUndo \in Operations
         /\ applied[left] \in ToSet(applied)
<1>1. /\ left \in 1 .. Len(applied) /\ applied[left] \in Operations
      /\ DOMAIN applied = 1 .. Len(applied)
  BY LenProperties DEF ProcessOK
<1>. QED
  BY <1>1, ReversedType DEF ToUndo, ToSet

\* Who changes the host: an operation that works, a reload, or somebody at runtime.
LEMMA HostSteps ==
  ASSUME Shaped(host), ProcessOK, [Next]_vars
  PROVE  Shaped(host)'
<1>0. UNCHANGED backend
  BY DEF Next, vars, process, Plan, Applies, Fails, Reload, ReloadFails, ApplyReturns, BeginRollback,
         Undo, RollbackReturns, Restart, Others, VerbRest
<1>1. ASSUME NEW h, Shaped(h), host' = h PROVE Shaped(host)'
  BY <1>0, <1>1 DEF Shaped, InForce
<1>2. Shaped(InForce(host))
  BY InForceShaped DEF Shaped
<1>3. \A c \in Operations : Shaped(Do(host, c))
  BY DoFields
<1>4. CASE UNCHANGED host
  BY <1>1, <1>4
<1>5. CASE host' = InForce(host)
  BY <1>1, <1>2, <1>5
<1>6. CASE \E c \in Operations : host' = Do(host, c)
  BY <1>1, <1>3, <1>6
<1>7. CASE \E r \in Rule : SomebodyOpens(r) \/ SomebodyCloses(r)
  <2>1. PICK r \in Rule : SomebodyOpens(r) \/ SomebodyCloses(r)
    BY <1>7
  <2>2. /\ backend = "firewalld" /\ host.active
        /\ \/ host' = [host EXCEPT !.running = @ \union {r}]
           \/ host' = [host EXCEPT !.running = @ \ {r}]
    BY <2>1 DEF SomebodyOpens, SomebodyCloses
  <2>. QED
    BY <1>0, <2>2 DEF Shaped
<1>8. UNCHANGED host \/ host' = InForce(host) \/ (\E c \in Operations : host' = Do(host, c))
      \/ \E r \in Rule : SomebodyOpens(r) \/ SomebodyCloses(r)
  <2>1. Service("disable") \in Operations /\ \A r \in Rule : Change("add", r) \in Operations
    BY DEF Service, Change, Operations
  <2>2. todo \subseteq Operations
    BY DEF ProcessOK
  <2>3. CASE Plan \/ ReloadFails \/ ApplyReturns \/ BeginRollback \/ RollbackReturns \/ Restart \/ UNCHANGED vars
    BY <2>3 DEF Plan, ReloadFails, ApplyReturns, BeginRollback, RollbackReturns, Restart, vars
  <2>4. CASE \E c \in todo : Applies(c) \/ Fails(c)
    <3>1. PICK c \in todo : Applies(c) \/ Fails(c)
      BY <2>4
    <3>. QED
      BY <2>2, <3>1 DEF Applies, Fails
  <2>5. CASE Reload
    BY <2>5 DEF Reload
  <2>6. CASE Undo
    BY <2>6, ToUndoType DEF Undo
  <2>7. CASE Others
    BY <2>1, <2>7 DEF Others, SomebodyStores, SomebodyStops, Reboot
  <2>. QED
    BY <2>3, <2>4, <2>5, <2>6, <2>7 DEF Next
<1>. QED
  BY <1>4, <1>5, <1>6, <1>7, <1>8

\* Every step keeps the types.
LEMMA StepTyped ==
  Shaped(host) /\ ProcessOK /\ ReloadOK /\ BeganOK /\ [Next]_vars => Shaped(host)' /\ ProcessOK' /\ ReloadOK' /\ BeganOK'
<1> SUFFICES ASSUME Shaped(host), ProcessOK, ReloadOK, BeganOK, [Next]_vars
             PROVE  Shaped(host)' /\ ProcessOK' /\ ReloadOK' /\ BeganOK'
  OBVIOUS
<1>1. Shaped(host)'
  BY HostSteps
<1>2. ProcessOK'
  <2> USE DEF ProcessOK, counts, Fault, NoFault
  <2>1. CASE Plan
    <3>1. Changes(host.active, Seen(host)) \subseteq Operations
      BY SeenType, ChangesType
    <3>2. Changes(host.active, {}) \subseteq Operations /\ Changes(FALSE, {}) \subseteq Operations
      BY ChangesType
    <3>3. todo' \subseteq Operations
      BY <2>1, <3>1, <3>2 DEF Plan
    <3>4. /\ pc' = "apply" /\ verb' = "apply" /\ ret' = "ok" /\ reload' = FALSE
          /\ UNCHANGED <<backend, desired, applied, left, edits>>
          /\ faults' = faults \/ faults' = faults + 1
      BY <2>1 DEF Plan, Call
    <3>. QED
      BY <3>3, <3>4
  <2>2. ASSUME NEW c \in todo, Applies(c) PROVE ProcessOK'
    <3>1. applied' \in Seq(Operations) /\ Len(applied') = Len(applied) + 1
      BY <2>2, AppendProperties DEF Applies
    <3>2. Len(applied) \in Nat
      BY LenProperties
    <3>. QED
      BY <2>2, <3>1, <3>2 DEF Applies, VerbRest
  <2>3. ASSUME NEW c \in todo, Fails(c) PROVE ProcessOK'
    BY <2>3 DEF Fails, VerbRest
  <2>4. CASE Reload \/ ReloadFails \/ ApplyReturns \/ RollbackReturns
    BY <2>4 DEF Reload, ReloadFails, ApplyReturns, RollbackReturns, VerbRest
  <2>5. CASE BeginRollback
    BY <2>5, LenProperties DEF BeginRollback, Call
  <2>6. CASE Undo
    BY <2>6, LenProperties DEF Undo, VerbRest
  <2>7. CASE Restart
    <3>1. applied' = <<>> /\ <<>> \in Seq(Operations) /\ Len(applied') = 0
      BY <2>7, EmptySeq DEF Restart
    <3>. QED
      BY <2>7, <3>1 DEF Restart
  <2>8. CASE Others
    BY <2>8 DEF Others, process
  <2>9. CASE UNCHANGED vars
    BY <2>9 DEF vars, process
  <2>. QED
    BY <2>1, <2>2, <2>3, <2>4, <2>5, <2>6, <2>7, <2>8, <2>9 DEF Next
<1>3. BeganOK'
  <2>1. ASSUME NEW h, Shaped(h), UNCHANGED backend PROVE Shaped(h)'
    BY <2>1 DEF Shaped, InForce
  <2>2. /\ UNCHANGED backend
        /\ faults' = faults \/ faults' = faults + 1
        /\ edits' = edits \/ edits' = edits + 1
        /\ since' = since \/ since' = Now
        /\ born' = born \/ born' = Now
    BY Zenon DEF Next, vars, process, counts, Plan, Applies, Fails, Reload, ReloadFails, ApplyReturns,
         BeginRollback, Undo, RollbackReturns, Restart, Others, VerbRest, Fault, NoFault, Call
  <2>3. faults \in Nat /\ edits \in Nat
    BY DEF ProcessOK
  <2>4. ASSUME NEW from \in {since, born, Now}
        PROVE  /\ Shaped(from.host)'
               /\ from.faults \in Nat /\ from.faults <= faults'
               /\ from.edits \in Nat /\ from.edits <= edits'
    <3>1. /\ Shaped(from.host)
          /\ from.faults \in Nat /\ from.faults <= faults
          /\ from.edits \in Nat /\ from.edits <= edits
      BY <2>3 DEF BeganOK, Now
    <3>2. Shaped(from.host)'
      BY <2>1, <2>2, <3>1
    <3>. QED
      BY <2>2, <2>3, <3>1, <3>2
  <2>. QED
    BY <2>2, <2>4 DEF BeganOK
<1>4. ReloadOK'
  <2>1. UNCHANGED backend
    BY DEF Next, vars, process, Plan, Applies, Fails, Reload, ReloadFails, ApplyReturns, BeginRollback,
           Undo, RollbackReturns, Restart, Others, VerbRest
  <2>2. CASE UNCHANGED reload
    BY <2>1, <2>2 DEF ReloadOK
  <2>3. CASE reload' = FALSE
    BY <2>3, Zenon DEF ReloadOK
  <2>4. ASSUME NEW c, reload' = (reload \/ (backend = "firewalld" /\ ~IsService(c)))
        PROVE  ReloadOK'
    BY <2>1, <2>4, Zenon DEF ReloadOK
  <2>5. UNCHANGED reload \/ reload' = FALSE
        \/ \E c : reload' = (reload \/ (backend = "firewalld" /\ ~IsService(c)))
    BY Zenon DEF Next, vars, process, Plan, Applies, Fails, Reload, ReloadFails, ApplyReturns, BeginRollback,
           Undo, RollbackReturns, Restart, Others, VerbRest
  <2>. QED
    BY <2>2, <2>3, <2>4, <2>5
<1>. QED
  BY <1>1, <1>2, <1>3, <1>4

\* In every reachable state the variables have their types, nothing is in force
\* while the firewall is down, and Rollback stays within the record.
THEOREM TypeCorrect == Spec => []TypeOK
<1>1. Shaped(host) /\ ProcessOK /\ ReloadOK /\ BeganOK => TypeOK
  BY DEF Shaped, ProcessOK, ReloadOK, BeganOK, TypeOK
<1>. QED
  BY <1>1, InitTyped, StepTyped, PTL DEF Spec

-----------------------------------------------------------------------------
(* A clean Apply settles the host. *)

\* Nothing failed and nobody else did anything since then.
Quiet(from) == faults = from.faults /\ edits = from.edits

\* What Plan listed when this Apply began, what of it is done, and the rules which
\* that wrote and took.
Listed     == Changes(since.host.active, Seen(since.host))
Finished   == Listed \ todo
Wrote(r)   == \E x \in Rule : Change("add", x) \in Finished /\ Written(x) = r
Took(r)    == \E x \in Rule : Change("remove", x) \in Finished /\ Written(x) = r
ServiceDue == \E c \in todo : IsService(c)
RulesDone  == \E c \in Finished : ~IsService(c)

\* What is in force before a reload.
Started == IF since.host.active THEN since.host.running ELSE since.host.permanent

\* An Apply that nothing disturbed and that has not failed
Undisturbed ==
  verb = "apply" /\ ret = "ok" /\ Quiet(since) /\ backend # "nftables" /\ ZonesAgree

\* has made of the host it began with what the listed changes that are done say.
OnCourse ==
  /\ todo \subseteq Listed
  /\ pc = "idle" => todo = {}
  /\ ServiceDue => host = since.host /\ Finished = {}
  /\ ~ServiceDue => host.active = desired.enabled
  /\ \A r \in Rule : r \in host.permanent <=> (r \in since.host.permanent \/ Wrote(r)) /\ ~Took(r)
  /\ backend = "firewalld" =>
       /\ pc = "apply" => (reload <=> RulesDone)
       /\ host.active => host.running = IF pc = "idle" /\ RulesDone THEN host.permanent ELSE Started

\* An undisturbed Apply is on course.
ApplyInv == Undisturbed => OnCourse

\* A change is what its kind and its rule make it.
LEMMA ChangeShape ==
  /\ \A c \in Operations : /\ c.op \in {"enable", "disable", "add", "remove"}
                           /\ IsService(c) => c = Service(c.op)
                           /\ ~IsService(c) => c.op \in {"add", "remove"} /\ c.rule \in Rule /\ c = Change(c.op, c.rule)
  /\ \A r : /\ ~IsService(Change("add", r)) /\ ~IsService(Change("remove", r))
            /\ Change("add", r).op = "add" /\ Change("add", r).rule = r
            /\ Change("remove", r).op = "remove" /\ Change("remove", r).rule = r
  /\ \A op : Service(op).op = op
  /\ IsService(Service("enable")) /\ IsService(Service("disable"))
BY DEF Operations, IsService, Service, Change

\* What Plan lists, by kind.
LEMMA ChangesOf ==
  ASSUME desired \in Manifests, NEW active, NEW seen, seen \subseteq Rule
  PROVE  /\ Service("enable") \in Changes(active, seen) <=> desired.enabled /\ ~active
         /\ Service("disable") \in Changes(active, seen) <=> ~desired.enabled /\ active
         /\ \A r \in Rule : Change("add", r) \in Changes(active, seen) <=>
                              desired.enabled /\ r \in desired.rules \ seen
         /\ \A r \in Rule : Change("remove", r) \in Changes(active, seen) <=>
                              desired.enabled /\ r \in seen \ desired.rules /\ r.zone \in desired.zones
<1>1. desired.rules \subseteq Rule /\ desired.enabled \in BOOLEAN
  BY ManifestType
<1>2. /\ \A r, s : Change("add", r) # Change("remove", s) /\ Service("enable") # Service("disable")
      /\ \A r, s : (Change("add", r) = Change("add", s) => r = s)
                   /\ (Change("remove", r) = Change("remove", s) => r = s)
      /\ \A r : Change("add", r) # Service("enable") /\ Change("add", r) # Service("disable")
      /\ \A r : Change("remove", r) # Service("enable") /\ Change("remove", r) # Service("disable")
  BY DEF Change, Service
<1>3. CASE desired.enabled
  <2>1. Changes(active, seen) =
          (IF active THEN {} ELSE {Service("enable")})
          \union {Change("add", r) : r \in desired.rules \ seen}
          \union {Change("remove", r) : r \in {s \in seen : s.zone \in desired.zones} \ desired.rules}
    BY <1>3, Zenon DEF Changes
  <2> DEFINE adds == {Change("add", r) : r \in desired.rules \ seen}
             removes == {Change("remove", r) : r \in {s \in seen : s.zone \in desired.zones} \ desired.rules}
  <2>2. \A r \in Rule : /\ Change("add", r) \in adds <=> r \in desired.rules \ seen
                        /\ Change("add", r) \notin removes
    BY <1>2, Zenon
  <2>3. \A r \in Rule : /\ Change("remove", r) \in removes <=> r \in seen \ desired.rules /\ r.zone \in desired.zones
                        /\ Change("remove", r) \notin adds
    BY <1>2, Zenon
  <2>4. \A op \in {"enable", "disable"} : Service(op) \notin adds /\ Service(op) \notin removes
    BY <1>2, Zenon
  <2>5. Changes(active, seen) = (IF active THEN {} ELSE {Service("enable")}) \union adds \union removes
    BY <2>1, Zenon
  <2> HIDE DEF adds, removes
  <2>6. \A r \in Rule : /\ Change("add", r) \in Changes(active, seen) <=> r \in desired.rules \ seen
                        /\ Change("remove", r) \in Changes(active, seen) <=>
                             r \in seen \ desired.rules /\ r.zone \in desired.zones
    BY <1>2, <2>2, <2>3, <2>5
  <2>7. (Service("enable") \in Changes(active, seen) <=> ~active) /\ Service("disable") \notin Changes(active, seen)
    BY <1>2, <2>4, <2>5
  <2>. QED
    BY <1>3, <2>6, <2>7
<1>4. CASE ~desired.enabled
  BY <1>1, <1>2, <1>4 DEF Changes
<1>. QED
  BY <1>1, <1>3, <1>4

\* No rule is both written and taken, unless on ufw the zones contradict each other.
LEMMA NoConflict ==
  ASSUME ProcessOK, Shaped(since.host), ZonesAgree,
         NEW x \in Rule, NEW y \in Rule,
         Change("add", x) \in Listed, Change("remove", y) \in Listed
  PROVE  Written(x) # Written(y)
<1>1. /\ Seen(since.host) \subseteq Rule
      /\ backend = "ufw" => \A r \in Seen(since.host) : r.zone = DefaultZone
  BY SeenType DEF ProcessOK
<1>2. x \in desired.rules /\ y \in Seen(since.host) \ desired.rules /\ y.zone \in desired.zones
  BY <1>1, ChangesOf DEF Listed, ProcessOK
<1>. QED
  BY <1>1, <1>2, WrittenType DEF ZonesAgree

\* Within a verb, what Plan listed stays; a step that leaves it undisturbed
\* did not fail, and nobody else did anything.
LEMMA StaysUndisturbed ==
  ASSUME ProcessOK, BeganOK, [Next]_vars, ~Plan, Undisturbed'
  PROVE  /\ Undisturbed /\ UNCHANGED <<backend, desired, since, faults, edits>>
         /\ \/ \E c \in todo : Applies(c)
            \/ Reload /\ host.active
            \/ ApplyReturns
            \/ UNCHANGED vars
<1>1. faults \in Nat /\ edits \in Nat /\ since.faults <= faults /\ since.faults \in Nat
      /\ since.edits <= edits /\ since.edits \in Nat
  BY DEF ProcessOK, BeganOK
<1>2. verb' = "apply" /\ ret' = "ok" /\ faults' = since'.faults /\ edits' = since'.edits
  BY DEF Undisturbed, Quiet
<1>3. /\ ~Restart /\ ~BeginRollback /\ ~Undo /\ ~RollbackReturns
  BY <1>2 DEF Restart, BeginRollback, Call, Undo, RollbackReturns, VerbRest, ProcessOK
<1>4. ~Others
  BY <1>1, <1>2 DEF Others
<1>5. /\ \A c : ~Fails(c)
      /\ ~ReloadFails /\ (Reload => host.active)
  BY <1>2 DEF Fails, ReloadFails, Reload
<1>6. /\ \/ \E c \in todo : Applies(c)
         \/ Reload /\ host.active
         \/ ApplyReturns
         \/ UNCHANGED vars
  BY <1>3, <1>4, <1>5 DEF Next
<1>7. UNCHANGED <<backend, desired, since, verb, faults, edits, ret>>
  BY <1>6 DEF Applies, Reload, ApplyReturns, VerbRest, NoFault, vars, process, counts
<1>8. Undisturbed
  BY <1>2, <1>7 DEF Undisturbed, Quiet, ZonesAgree, Written
<1>. QED
  BY <1>6, <1>7, <1>8

\* Applying a change of the service, or of a rule, stays on course.
LEMMA AppliesOnCourse ==
  ASSUME Shaped(host), ProcessOK, BeganOK, OnCourse, ZonesAgree, NEW c \in todo, Applies(c),
         backend \in {"firewalld", "ufw"}, UNCHANGED <<backend, desired, since>>
  PROVE  OnCourse'
<1>1. /\ c \in Operations /\ c \in Listed /\ pc = "apply" /\ pc' = "apply"
      /\ Works(host, c) /\ host' = Do(host, c) /\ todo' = todo \ {c}
      /\ todo \subseteq Listed
  BY DEF Applies, OnCourse, ProcessOK
<1>2. Listed' = Listed
  BY DEF Listed, Changes, Seen
<1>3. Finished' = Finished \union {c} /\ c \notin Finished
  BY <1>1, <1>2 DEF Finished
<1>4. Shaped(since.host) /\ Seen(since.host) \subseteq Rule
  BY SeenType DEF BeganOK, ProcessOK
<1>5. CASE IsService(c)
  <2>1. host = since.host /\ Finished = {} /\ Listed \subseteq todo
    BY <1>1, <1>5, Zenon DEF OnCourse, ServiceDue, Finished
  <2>2. c = Service(c.op) /\ c.op \in {"enable", "disable"}
    BY <1>1, <1>5, ChangeShape DEF IsService
  <2>3. c.op = "enable" <=> desired.enabled
    BY <1>1, <1>4, <2>2, ChangesOf DEF Listed, ProcessOK
  <2>4. ~ServiceDue'
    <3>1. ASSUME NEW d \in todo', IsService(d) PROVE FALSE
      <4>1. d \in Listed /\ d \in Operations /\ d # c
        BY <1>1, <3>1 DEF ProcessOK
      <4>2. d = Service(d.op) /\ d.op \in {"enable", "disable"}
        BY <3>1, <4>1, ChangeShape DEF IsService
      <4>3. d.op = "enable" <=> desired.enabled
        BY <1>4, <4>1, <4>2, ChangesOf DEF Listed, ProcessOK
      <4>. QED
        BY <2>2, <2>3, <4>1, <4>2, <4>3
    <3>. QED
      BY <3>1 DEF ServiceDue
  <2>5. Finished' = {c}
    BY <1>3, <2>1
  <2>6. /\ \A x : Change("add", x) # c /\ Change("remove", x) # c
        /\ ~RulesDone /\ ~RulesDone'
    BY <1>5, <2>1, <2>5, ChangeShape DEF RulesDone
  <2>7. \A r : ~Wrote(r)' /\ ~Took(r)' /\ ~Wrote(r) /\ ~Took(r)
    BY <2>1, <2>5, <2>6 DEF Wrote, Took
  <2>8. /\ host'.permanent = host.permanent /\ host'.active = (c.op = "enable")
        /\ host'.active => host'.running = IF host.active THEN host.running ELSE host.permanent
    <3>1. CASE c.op = "enable" /\ host.active
      BY <1>1, <3>1, DoFields
    <3>2. CASE c.op = "enable" /\ ~host.active
      BY <1>1, <3>2, DoFields
    <3>3. CASE c.op = "disable"
      <4>1. host'.permanent = host.permanent /\ host'.active = (c.op = "enable")
        BY <1>1, <3>3, DoFields
      <4>. QED
        BY <3>3, <4>1
    <3>. QED
      BY <2>2, <3>1, <3>2, <3>3
  <2>9. backend = "firewalld" => (reload' <=> RulesDone')
    <3>1. reload' = (reload \/ (backend = "firewalld" /\ ~IsService(c)))
      BY DEF Applies
    <3>2. backend = "firewalld" => (reload <=> RulesDone)
      BY <1>1 DEF OnCourse
    <3>. QED
      BY <1>5, <2>6, <3>1, <3>2, Zenon
  <2>10. host'.active = desired'.enabled
    BY <2>3, <2>8, ManifestType DEF ProcessOK
  <2>. QED
    BY <1>1, <1>2, <2>1, <2>4, <2>6, <2>7, <2>8, <2>9, <2>10 DEF OnCourse, Started
<1>6. CASE ~IsService(c)
  <2>1. ~ServiceDue /\ ~ServiceDue'
    BY <1>1, <1>6 DEF Applies, IsDue, ServiceDue
  <2>2. desired.enabled /\ host.active
    BY <1>1, <1>4, <1>6, <2>1, ChangesOf, ChangeShape DEF Listed, OnCourse, ProcessOK
  <2>3. host'.active = desired'.enabled
    BY <1>1, <1>6, <2>1, <2>2, DoFields, ChangeShape DEF OnCourse
  <2>4. \A r \in Rule : r \in host'.permanent <=> (r \in since'.host.permanent \/ Wrote(r)') /\ ~Took(r)'
    <3>0. /\ c.op \in {"add", "remove"} /\ c.rule \in Rule /\ c = Change(c.op, c.rule)
          /\ \A x : Change("add", x) = c <=> c.op = "add" /\ x = c.rule
          /\ \A x : Change("remove", x) = c <=> c.op = "remove" /\ x = c.rule
      BY <1>1, <1>6, ChangeShape
    <3>1. \A r : Written(r)' = Written(r)
      BY DEF Written
    <3>2. \A r : Wrote(r)' <=> Wrote(r) \/ (c.op = "add" /\ Written(c.rule) = r)
      BY <1>3, <3>0, <3>1 DEF Wrote
    <3>3. \A r : Took(r)' <=> Took(r) \/ (c.op = "remove" /\ Written(c.rule) = r)
      BY <1>3, <3>0, <3>1 DEF Took
    <3>4. c.op = "add" => ~Took(Written(c.rule))
      BY <1>1, <1>4, <3>0, NoConflict DEF Took, Finished, BeganOK
    <3>5. host'.permanent = IF c.op = "add" THEN host.permanent \union {Written(c.rule)}
                                            ELSE host.permanent \ {Written(c.rule)}
      BY <1>1, <3>0, DoFields
    <3>. QED
      BY <3>0, <3>2, <3>3, <3>4, <3>5 DEF OnCourse
  <2>5. backend = "firewalld" => (reload' <=> RulesDone')
    <3>1. reload' = (reload \/ (backend = "firewalld" /\ ~IsService(c)))
      BY DEF Applies
    <3>2. RulesDone'
      BY <1>3, <1>6 DEF RulesDone
    <3>. QED
      BY <1>6, <3>1, <3>2, Zenon
  <2>6. backend = "firewalld" => host'.running = Started'
    BY <1>1, <1>6, <2>2, DoFields, ChangeShape DEF OnCourse, Started
  <2>. QED
    BY <1>1, <1>2, <2>1, <2>3, <2>4, <2>5, <2>6 DEF OnCourse
<1>. QED
  BY <1>5, <1>6

\* Every step keeps the invariant.
LEMMA StepApply ==
  Shaped(host) /\ ProcessOK /\ BeganOK /\ ReloadOK /\ ApplyInv /\ [Next]_vars => ApplyInv'
<1> SUFFICES ASSUME Shaped(host), ProcessOK, BeganOK, ReloadOK, ApplyInv, [Next]_vars, Undisturbed'
             PROVE  OnCourse'
  BY DEF ApplyInv
<1>1. CASE Plan
  <2>1. /\ since' = Now /\ UNCHANGED <<backend, host, desired>> /\ pc' = "apply" /\ reload' = FALSE
        /\ todo' = Changes(host.active, Seen(host))
    <3>1. since' = Now /\ UNCHANGED <<backend, host, desired>> /\ pc' = "apply" /\ reload' = FALSE
      BY <1>1 DEF Plan, Call
    <3>2. faults' = faults
      BY <3>1 DEF Undisturbed, Quiet, Now
    <3>3. ~Fault
      BY <3>2 DEF Fault, ProcessOK
    <3>. QED
      BY <1>1, <3>1, <3>3 DEF Plan
  <2>2. Listed' = todo' /\ Finished' = {} /\ since'.host = host
    BY <2>1 DEF Listed, Finished, Now, Changes, Seen
  <2>3. \A r : ~Wrote(r)' /\ ~Took(r)' /\ ~RulesDone'
    BY <2>2 DEF Wrote, Took, RulesDone
  <2>4. ~ServiceDue' => host'.active = desired'.enabled
    <3>1. Service("enable") \in todo' <=> desired.enabled /\ ~host.active
      BY <2>1, SeenType, ChangesOf DEF ProcessOK
    <3>2. Service("disable") \in todo' <=> ~desired.enabled /\ host.active
      BY <2>1, SeenType, ChangesOf DEF ProcessOK
    <3>3. desired.enabled \in BOOLEAN /\ host.active \in BOOLEAN
      BY ManifestType DEF ProcessOK, Shaped
    <3>4. ~ServiceDue' => (desired.enabled <=> host.active)
      BY <3>1, <3>2, ChangeShape DEF ServiceDue
    <3>. QED
      BY <2>1, <3>3, <3>4
  <2>5. host.active => host.running = Started'
    BY <2>2 DEF Started
  <2>6. reload' <=> RulesDone'
    BY <2>1, <2>3
  <2>. QED
    BY <2>1, <2>2, <2>3, <2>4, <2>5, <2>6 DEF OnCourse
<1>2. CASE ~Plan
  <2>1. /\ Undisturbed /\ UNCHANGED <<backend, desired, since>>
        /\ \/ \E c \in todo : Applies(c)
           \/ Reload /\ host.active
           \/ ApplyReturns
           \/ UNCHANGED vars
    BY <1>2, StaysUndisturbed
  <2>2. OnCourse /\ ZonesAgree /\ backend \in {"firewalld", "ufw"}
    BY <2>1 DEF ApplyInv, Undisturbed, ProcessOK
  <2>3. CASE \E c \in todo : Applies(c)
    BY <2>1, <2>2, <2>3, AppliesOnCourse
  <2>4. CASE (Reload /\ host.active) \/ ApplyReturns
    <3>1. UNCHANGED <<todo, reload>> /\ todo = {} /\ pc = "apply" /\ pc' = "idle"
      BY <2>4 DEF Reload, ApplyReturns
    <3>2. /\ Listed' = Listed /\ Finished' = Finished /\ (RulesDone' <=> RulesDone)
          /\ \A r : (Wrote(r)' <=> Wrote(r)) /\ (Took(r)' <=> Took(r))
          /\ ~ServiceDue /\ ~ServiceDue'
      BY <2>1, <3>1 DEF Listed, Changes, Seen, Finished, RulesDone, Wrote, Took, Written, ServiceDue
    <3>3. /\ host'.permanent = host.permanent /\ host'.active = host.active
          /\ backend = "firewalld" /\ host.active =>
               host'.running = IF RulesDone THEN host.permanent ELSE Started
      <4>1. CASE Reload /\ host.active
        <5>1. reload /\ host' = InForce(host) /\ backend = "firewalld"
          BY <4>1, Zenon DEF Reload, ReloadOK
        <5>2. RulesDone
          BY <2>2, <3>1, <5>1 DEF OnCourse
        <5>. QED
          BY <4>1, <5>1, <5>2, InForceFields DEF Shaped
      <4>2. CASE ApplyReturns
        BY <2>2, <3>1, <4>2 DEF ApplyReturns, OnCourse
      <4>. QED
        BY <2>4, <4>1, <4>2
    <3>. QED
      BY <2>1, <2>2, <3>1, <3>2, <3>3 DEF OnCourse, Started
  <2>7. CASE UNCHANGED vars
    BY <2>2, <2>7 DEF vars, process, OnCourse, Listed, Finished, Wrote, Took, ServiceDue, RulesDone, Started, Changes, Seen, Written
  <2>. QED
    BY <2>1, <2>3, <2>4, <2>7
<1>. QED
  BY <1>1, <1>2

\* A rule of the host that Took takes was seen in a declared zone and not declared.
LEMMA TookSeen ==
  ASSUME ProcessOK, Shaped(since.host), NEW r, Took(r)
  PROVE  r \in Seen(since.host) \ desired.rules /\ r.zone \in desired.zones
<1>1. /\ Seen(since.host) \subseteq Rule
      /\ backend = "ufw" => \A s \in Seen(since.host) : s.zone = DefaultZone
  BY SeenType DEF ProcessOK
<1>2. PICK y \in Rule : Change("remove", y) \in Listed /\ Written(y) = r
  BY DEF Took, Finished
<1>3. y \in Seen(since.host) \ desired.rules /\ y.zone \in desired.zones
  BY <1>1, <1>2, ChangesOf DEF Listed, ProcessOK
<1>. QED
  BY <1>1, <1>2, <1>3, WrittenType

\* A clean Apply leaves every declared rule in force, and open beside them in the
\* declared zones only what was stored but not in force before.
THEOREM Settles == Spec => []ApplySettles
<1>1. Shaped(host) /\ ProcessOK /\ BeganOK /\ ApplyInv => ApplySettles
  <2> SUFFICES ASSUME Shaped(host), ProcessOK, BeganOK, ApplyInv,
                      Clean("apply", since), backend # "nftables", ZonesAgree,
                      desired.rules \intersect since.host.running \subseteq since.host.permanent
               PROVE  /\ host.active = desired.enabled
                      /\ desired.enabled =>
                           /\ \A r \in desired.rules : Written(r) \in host.running
                           /\ {r \in Seen(host) : r.zone \in desired.zones} \ {Written(r) : r \in desired.rules}
                                \subseteq since.host.permanent \ since.host.running
    BY DEF ApplySettles
  <2>1. OnCourse /\ pc = "idle" /\ todo = {} /\ backend \in {"firewalld", "ufw"}
    BY DEF ApplyInv, Undisturbed, Clean, Quiet, OnCourse, ProcessOK
  <2>2. /\ Shaped(since.host) /\ desired.rules \subseteq Rule
        /\ Seen(since.host) \subseteq Rule /\ Seen(since.host) \subseteq since.host.running
        /\ backend = "firewalld" => Seen(since.host) = since.host.running
        /\ backend = "ufw" => \A r \in Seen(since.host) : r \in since.host.permanent /\ r.zone = DefaultZone
    BY SeenType, ManifestType DEF ProcessOK, BeganOK, Seen
  <2>3. host.active = desired.enabled
    BY <2>1 DEF OnCourse, ServiceDue
  <2> SUFFICES ASSUME desired.enabled
               PROVE  /\ \A r \in desired.rules : Written(r) \in host.running
                      /\ {r \in Seen(host) : r.zone \in desired.zones} \ {Written(r) : r \in desired.rules}
                           \subseteq since.host.permanent \ since.host.running
    BY <2>3
  <2>4. Finished = Listed
    BY <2>1 DEF Finished
  <2>5. /\ \A x \in Rule : Change("add", x) \in Listed <=> x \in desired.rules \ Seen(since.host)
        /\ \A x \in Rule : Change("remove", x) \in Listed <=>
                             x \in Seen(since.host) \ desired.rules /\ x.zone \in desired.zones
    BY <2>2, ChangesOf DEF Listed, ProcessOK
  <2>6. \A r \in Rule : r \in host.permanent <=> (r \in since.host.permanent \/ Wrote(r)) /\ ~Took(r)
    BY <2>1 DEF OnCourse
  <2>7. CASE backend = "firewalld" /\ ~RulesDone
    <3>1. host.running = Started
      BY <2>1, <2>3, <2>7 DEF OnCourse
    <3>2. /\ \A x \in Rule : x \in desired.rules => x \in since.host.running
          /\ \A x \in Rule : x \in since.host.running /\ x.zone \in desired.zones => x \in desired.rules
      BY <2>2, <2>4, <2>5, <2>7, ChangeShape DEF RulesDone
    <3>3. ~since.host.active => desired.rules = {} /\ since.host.running = {}
      BY <2>2, <3>2 DEF Shaped
    <3>4. \A r \in desired.rules : Written(r) \in host.running
      BY <2>2, <2>7, <3>1, <3>2, <3>3, WrittenType DEF Started
    <3>5. \A q \in Seen(host) : q \in Rule /\ q \in host.running
      BY SeenType DEF ProcessOK
    <3>6. \A q \in desired.rules : q \in {Written(r) : r \in desired.rules}
      BY <2>2, <2>7, WrittenType
    <3>7. ASSUME NEW q \in Seen(host), q.zone \in desired.zones, q \notin {Written(r) : r \in desired.rules}
          PROVE  q \in since.host.permanent \ since.host.running
      BY <3>1, <3>2, <3>3, <3>5, <3>6, <3>7 DEF Started
    <3>. QED
      BY <3>4, <3>7
  <2>8. CASE backend = "ufw" \/ RulesDone
    <3>1. host.running = host.permanent
      <4>1. CASE backend = "ufw"
        <5>1. host = InForce(host) /\ host.active
          BY <2>3, <4>1 DEF Shaped
        <5>. QED
          BY <5>1, InForceFields DEF Shaped
      <4>2. CASE backend = "firewalld"
        BY <2>1, <2>3, <2>8, <4>2 DEF OnCourse
      <4>. QED
        BY <2>1, <4>1, <4>2
    <3>2. ASSUME NEW r \in desired.rules PROVE Written(r) \in host.running
      <4>1. r \in Rule /\ Written(r) \in Rule
        BY <2>2, WrittenType
      <4>2. ~Took(Written(r))
        <5>1. Took(Written(r)) => Written(r) \notin desired.rules /\ Written(r).zone \in desired.zones
          BY <2>2, TookSeen
        <5>2. Written(r).zone \in desired.zones => Written(r) \in desired.rules
          BY <4>1, WrittenType DEF ZonesAgree
        <5>. QED
          BY <5>1, <5>2
      <4>3. CASE r \in Seen(since.host)
        <5>1. Written(r) = r
          BY <2>1, <2>2, <4>1, <4>3, WrittenType
        <5>2. r \in since.host.permanent
          BY <2>2, <4>3
        <5>. QED
          BY <2>6, <3>1, <4>1, <4>2, <5>1, <5>2
      <4>4. CASE r \notin Seen(since.host)
        <5>1. Wrote(Written(r))
          BY <2>4, <2>5, <4>1, <4>4 DEF Wrote
        <5>. QED
          BY <2>6, <3>1, <4>1, <4>2, <5>1
      <4>. QED
        BY <4>3, <4>4
    <3>3. ASSUME NEW q \in Seen(host), q.zone \in desired.zones, q \notin {Written(r) : r \in desired.rules}
          PROVE  q \in since.host.permanent \ since.host.running
      <4>1. /\ q \in Rule /\ q \in host.permanent
            /\ backend = "ufw" => q.zone = DefaultZone
        BY <3>1, SeenType DEF ProcessOK
      <4>2. Written(q) = q
        BY <2>1, <4>1, WrittenType
      <4>3. q \notin desired.rules /\ ~Wrote(q)
        BY <2>4, <2>5, <3>3, <4>2 DEF Wrote
      <4>4. q \in since.host.permanent /\ ~Took(q)
        BY <2>6, <4>1, <4>3
      <4>5. q \notin Seen(since.host)
        BY <2>4, <2>5, <3>3, <4>1, <4>2, <4>3, <4>4 DEF Took
      <4>6. q \in since.host.running => q \in Seen(since.host)
        BY <2>1 DEF Seen
      <4>. QED
        BY <4>4, <4>5, <4>6
    <3>. QED
      BY <3>2, <3>3
  <2>. QED
    BY <2>1, <2>7, <2>8
<1>2. Init => ApplyInv
  BY DEF Init, ApplyInv, Undisturbed
<1>. QED
  BY <1>1, <1>2, InitTyped, StepTyped, StepApply, PTL DEF Spec

-----------------------------------------------------------------------------
(* Rollback restores the permanent rules. *)

\* The part of the record whose work stands.
Standing == IF pc = "undo" \/ (pc = "idle" /\ verb = "rollback") THEN left ELSE Len(applied)

\* firewalld ran with the rules it stores when the process started.
Settled == backend = "firewalld" /\ born.host.active /\ born.host.running = born.host.permanent

\* Declared rules that were there are there, and others were.
Between(rules) ==
  /\ born.host.permanent \intersect desired.rules \subseteq rules
  /\ rules \subseteq born.host.permanent \union desired.rules

\* A change of the process turns the rule away from what the process found.
Right(c) ==
  /\ c.op # "enable"
  /\ c.op = "disable" => ~desired.enabled
  /\ c.op = "add" => desired.enabled /\ c.rule \in desired.rules \ born.host.permanent
  /\ c.op = "remove" => desired.enabled /\ c.rule \in born.host.permanent \ desired.rules

\* What differs from the host the process found is in the standing record.
OnRecord ==
  /\ \A c \in todo \union ToSet(applied) : Right(c)
  /\ Between(host.permanent) /\ (host.active => Between(host.running))
  /\ desired.enabled => host.active
  /\ \A r \in Rule : \/ r \in host.permanent <=> r \in born.host.permanent
                     \/ \E i \in 1 .. Standing : ~IsService(applied[i]) /\ applied[i].rule = r
  /\ host.active \/ \E i \in 1 .. Standing : IsService(applied[i])

\* The record of an undisturbed process accounts for all its host has changed.
RestoreInv == Settled /\ Quiet(born) => OnRecord

\* A process that ran undisturbed goes on doing so only by these steps.
LEMMA StaysQuiet ==
  ASSUME ProcessOK, BeganOK, [Next]_vars, ~Restart, Quiet(born)'
  PROVE  /\ Quiet(born) /\ UNCHANGED <<backend, desired, born, faults, edits>>
         /\ \/ Plan /\ todo' = Changes(host.active, Seen(host))
            \/ \E c \in todo : Applies(c)
            \/ \E c \in todo : Fails(c) /\ UNCHANGED host
            \/ Reload \/ ApplyReturns \/ BeginRollback
            \/ Undo /\ host' = IF Works(host, ToUndo) THEN Do(host, ToUndo) ELSE host
            \/ RollbackReturns
            \/ UNCHANGED vars
<1>1. faults \in Nat /\ edits \in Nat /\ born.faults <= faults /\ born.faults \in Nat
      /\ born.edits <= edits /\ born.edits \in Nat
  BY DEF ProcessOK, BeganOK
<1>2. UNCHANGED <<backend, desired, born>>
  BY DEF Next, vars, process, counts, Plan, Applies, Fails, Reload, ReloadFails, ApplyReturns, BeginRollback,
         Undo, RollbackReturns, Others, VerbRest
<1>3. (faults' = faults \/ faults' = faults + 1) /\ (edits' = edits \/ edits' = edits + 1)
  BY Zenon DEF Next, vars, process, counts, Plan, Applies, Fails, Reload, ReloadFails, ApplyReturns,
         BeginRollback, Undo, RollbackReturns, Others, VerbRest, Fault, NoFault, Call
<1>4. Quiet(born) /\ UNCHANGED <<faults, edits>>
  BY <1>1, <1>2, <1>3 DEF Quiet
<1>5. ~Fault /\ ~Others
  BY <1>1, <1>4 DEF Fault, Others
<1>. QED
  BY <1>2, <1>4, <1>5 DEF Next, Plan, Fails, ReloadFails, Undo

\* Plan lists only what turns a rule away from what the process found.
LEMMA PlansRight ==
  ASSUME Shaped(host), ProcessOK, Settled, OnRecord, NEW c \in Changes(host.active, Seen(host))
  PROVE  Right(c)
<1>1. Seen(host) = host.running /\ Seen(host) \subseteq Rule
  BY SeenType DEF Settled, Seen, ProcessOK
<1>2. c \in Operations
  BY <1>1, ChangesType DEF ProcessOK
<1>3. desired.rules \subseteq Rule
  BY ManifestType DEF ProcessOK
<1>4. CASE IsService(c)
  <2>1. c = Service(c.op) /\ c.op \in {"enable", "disable"}
    BY <1>2, <1>4, ChangeShape DEF IsService
  <2>. QED
    BY <1>1, <2>1, ChangesOf DEF Right, OnRecord, ProcessOK
<1>5. CASE ~IsService(c)
  <2>1. c.op \in {"add", "remove"} /\ c.rule \in Rule /\ c = Change(c.op, c.rule)
    BY <1>2, <1>5, ChangeShape
  <2>2. desired.enabled
    BY <1>1, <2>1, ChangesOf DEF ProcessOK
  <2>3. c.op = "add" => c.rule \in desired.rules \ host.running
    BY <1>1, <2>1, ChangesOf DEF ProcessOK
  <2>4. c.op = "remove" => c.rule \in host.running \ desired.rules
    BY <1>1, <2>1, ChangesOf DEF ProcessOK
  <2>5. Between(host.running)
    BY <2>2 DEF OnRecord
  <2>. QED
    BY <2>1, <2>2, <2>3, <2>4, <2>5 DEF Right, Between
<1>. QED
  BY <1>4, <1>5

\* A step that leaves the record's standing part and the stored rules alone.
LEMMA KeepsRecord ==
  ASSUME OnRecord, ProcessOK, UNCHANGED <<desired, born, applied>>,
         Standing' \in Nat, Standing <= Standing', \A c \in todo' : Right(c),
         host'.permanent = host.permanent, host'.active = host.active,
         host'.active => Between(host'.running)
  PROVE  OnRecord'
<1>1. \A i \in 1 .. Standing : i \in 1 .. Standing'
  BY LenProperties DEF Standing, ProcessOK
<1>2. \A c : Right(c)' <=> Right(c)
  BY DEF Right
<1>3. \A c \in todo' \union ToSet(applied') : Right(c)'
  BY <1>2 DEF OnRecord
<1>4. Between(host.permanent)' /\ (host'.active => Between(host.running)')
  BY DEF OnRecord, Between
<1>5. \A r \in Rule : \/ r \in host'.permanent <=> r \in born'.host.permanent
                      \/ \E i \in 1 .. Standing' : ~IsService(applied'[i]) /\ applied'[i].rule = r
  BY <1>1, Zenon DEF OnRecord
<1>6. host'.active \/ \E i \in 1 .. Standing' : IsService(applied'[i])
  BY <1>1, Zenon DEF OnRecord
<1>. QED
  BY <1>3, <1>4, <1>5, <1>6 DEF OnRecord

\* An applied change is on the record.
LEMMA AppliesOnRecord ==
  ASSUME Shaped(host), ProcessOK, Settled, OnRecord, NEW c \in todo, Applies(c)
  PROVE  OnRecord'
<1>1. /\ c \in Operations /\ Right(c) /\ pc = "apply" /\ pc' = "apply"
      /\ host' = Do(host, c) /\ todo' = todo \ {c} /\ applied' = Append(applied, c)
      /\ backend = "firewalld" /\ UNCHANGED <<desired, born>>
  BY DEF Applies, VerbRest, OnRecord, ProcessOK, Settled
<1>2. Standing = Len(applied) /\ Standing' = Len(applied) + 1 /\ Len(applied) \in Nat
      /\ applied'[Len(applied) + 1] = c /\ \A i \in 1 .. Len(applied) : applied'[i] = applied[i]
  BY <1>1, AppendProperties, LenProperties DEF Standing, ProcessOK
<1>3. \A d \in todo' \union ToSet(applied') : Right(d)'
  <2>1. \A d \in ToSet(applied') : d \in ToSet(applied) \/ d = c
    BY <1>1, ToSetAppend DEF ProcessOK
  <2>. QED
    BY <1>1, <2>1 DEF OnRecord, Right
<1>4. CASE c.op = "disable"
  <2>1. /\ ~desired.enabled /\ host'.permanent = host.permanent /\ host'.active = FALSE
    BY <1>1, <1>4, DoFields DEF Right
  <2>2. \A r \in Rule : \/ r \in host'.permanent <=> r \in born'.host.permanent
                        \/ \E i \in 1 .. Standing' : ~IsService(applied'[i]) /\ applied'[i].rule = r
    <3>1. SUFFICES ASSUME NEW r \in Rule, ~(r \in host.permanent <=> r \in born.host.permanent)
                   PROVE  \E i \in 1 .. Standing' : ~IsService(applied'[i]) /\ applied'[i].rule = r
      BY <1>1, <2>1
    <3>2. PICK i \in 1 .. Len(applied) : ~IsService(applied[i]) /\ applied[i].rule = r
      BY <1>2, <3>1 DEF OnRecord
    <3>3. i \in 1 .. Standing' /\ applied'[i] = applied[i]
      BY <1>2
    <3>. QED
      BY <3>2, <3>3
  <2>3. \E i \in 1 .. Standing' : IsService(applied'[i])
    <3>1. IsService(applied'[Len(applied) + 1]) /\ Len(applied) + 1 \in 1 .. Standing'
      BY <1>2, <1>4 DEF IsService
    <3>. QED
      BY <3>1
  <2>4. Between(host.permanent)'
    BY <1>1, <2>1 DEF OnRecord, Between
  <2>. QED
    BY <1>1, <1>3, <2>1, <2>2, <2>3, <2>4 DEF OnRecord
<1>5. CASE c.op \in {"add", "remove"}
  <2>1. /\ c.rule \in Rule /\ Written(c.rule) = c.rule /\ desired.enabled /\ ~IsService(c)
        /\ host'.active = host.active /\ host'.running = host.running
        /\ c.op = "add" => host'.permanent = host.permanent \union {c.rule}
        /\ c.op = "remove" => host'.permanent = host.permanent \ {c.rule}
    BY <1>1, <1>5, DoFields, ChangeShape, WrittenType DEF Right, IsService
  <2>2. \A r \in Rule : \/ r \in host'.permanent <=> r \in born'.host.permanent
                        \/ \E i \in 1 .. Standing' : ~IsService(applied'[i]) /\ applied'[i].rule = r
    <3>1. SUFFICES ASSUME NEW r \in Rule, ~(r \in host'.permanent <=> r \in born.host.permanent)
                   PROVE  \E i \in 1 .. Standing' : ~IsService(applied'[i]) /\ applied'[i].rule = r
      BY <1>1
    <3>2. CASE r = c.rule
      <4>1. ~IsService(applied'[Len(applied) + 1]) /\ Len(applied) + 1 \in 1 .. Standing'
            /\ applied'[Len(applied) + 1].rule = r
        BY <1>2, <2>1, <3>2
      <4>. QED
        BY <4>1
    <3>3. CASE r # c.rule
      <4>1. ~(r \in host.permanent <=> r \in born.host.permanent)
        BY <1>5, <2>1, <3>1, <3>3
      <4>2. PICK i \in 1 .. Len(applied) : ~IsService(applied[i]) /\ applied[i].rule = r
        BY <1>2, <4>1 DEF OnRecord
      <4>3. i \in 1 .. Standing' /\ applied'[i] = applied[i]
        BY <1>2
      <4>. QED
        BY <4>2, <4>3
    <3>. QED
      BY <3>2, <3>3
  <2>3. host'.active
    BY <2>1 DEF OnRecord
  <2>4. Between(host.permanent)' /\ Between(host.running)'
    BY <1>1, <1>5, <2>1, <2>3 DEF OnRecord, Between, Right
  <2>. QED
    BY <1>1, <1>3, <2>1, <2>2, <2>3, <2>4 DEF OnRecord
<1>. QED
  BY <1>1, <1>4, <1>5 DEF Right, Operations

\* What is taken back may leave the record.
LEMMA UndoesOnRecord ==
  ASSUME Shaped(host), ProcessOK, Settled, OnRecord, Undo,
         host' = IF Works(host, ToUndo) THEN Do(host, ToUndo) ELSE host
  PROVE  OnRecord'
<1>1. PICK c : c = applied[left]
  OBVIOUS
<1>2. /\ c \in Operations /\ Right(c) /\ pc = "undo" /\ pc' = "undo" /\ left \in 1 .. Len(applied)
      /\ ToUndo = Reversed(c) /\ ToUndo \in Operations
      /\ backend = "firewalld" /\ UNCHANGED <<desired, born, todo, applied>> /\ left' = left - 1
  BY <1>1, ToUndoType DEF Undo, VerbRest, OnRecord, Settled, ToUndo
<1>3. Standing = left /\ Standing' = left - 1
  BY <1>2 DEF Standing
<1>5. PICK u \in Operations : u = ToUndo
  BY <1>2
<1>6. /\ u.op = "enable" => Do(host, u).permanent = host.permanent /\ Do(host, u).active
      /\ u.op = "enable" /\ host.active => Do(host, u) = host
      /\ u.op = "enable" /\ ~host.active => Do(host, u).running = host.permanent
      /\ u.op = "add" => Do(host, u).permanent = host.permanent \union {Written(u.rule)}
      /\ u.op = "remove" => Do(host, u).permanent = host.permanent \ {Written(u.rule)}
      /\ u.op \in {"add", "remove"} => /\ Do(host, u).active = host.active
                                       /\ backend # "ufw" => Do(host, u).running = host.running
  BY DoFields
<1>4. \A d \in todo' \union ToSet(applied') : Right(d)'
  BY <1>2 DEF OnRecord, Right
<1>7. CASE c.op = "disable"
  <2>1. /\ ToUndo.op = "enable" /\ host' = Do(host, ToUndo) /\ IsService(c) /\ ~desired.enabled
    BY <1>2, <1>7 DEF Reversed, Service, Works, IsService, Right
  <2>2. /\ host'.permanent = host.permanent /\ host'.active
        /\ host'.running = IF host.active THEN host.running ELSE host.permanent
    BY <1>5, <1>6, <2>1
  <2>3. \A r \in Rule : \/ r \in host'.permanent <=> r \in born'.host.permanent
                        \/ \E i \in 1 .. Standing' : ~IsService(applied'[i]) /\ applied'[i].rule = r
    <3>1. SUFFICES ASSUME NEW r \in Rule, ~(r \in host.permanent <=> r \in born.host.permanent)
                   PROVE  \E i \in 1 .. Standing' : ~IsService(applied[i]) /\ applied[i].rule = r
      BY <1>2, <2>2
    <3>2. PICK i \in 1 .. left : ~IsService(applied[i]) /\ applied[i].rule = r
      BY <1>3, <3>1 DEF OnRecord
    <3>3. i \in 1 .. Standing'
      BY <1>1, <1>2, <1>3, <2>1, <3>2
    <3>. QED
      BY <3>2, <3>3
  <2>4. Between(host.permanent)' /\ Between(host.running)'
    BY <1>2, <2>2 DEF OnRecord, Between
  <2>. QED
    BY <1>2, <1>4, <2>1, <2>2, <2>3, <2>4 DEF OnRecord
<1>8. CASE c.op \in {"add", "remove"}
  <2>1. /\ c.rule \in Rule /\ Written(c.rule) = c.rule /\ desired.enabled /\ ~IsService(c) /\ host.active
        /\ ToUndo.op = (IF c.op = "add" THEN "remove" ELSE "add") /\ ToUndo.rule = c.rule
    BY <1>2, <1>8, ChangeShape, WrittenType DEF Right, IsService, OnRecord, Reversed, Change
  <2>2. host' = Do(host, ToUndo)
    BY <1>2, <2>1 DEF Works
  <2>3. /\ host'.active = host.active /\ host'.running = host.running
        /\ c.op = "add" => host'.permanent = host.permanent \ {c.rule}
        /\ c.op = "remove" => host'.permanent = host.permanent \union {c.rule}
    BY <1>2, <1>5, <1>8, <1>6, <2>1, <2>2
  <2>4. \A r \in Rule : \/ r \in host'.permanent <=> r \in born'.host.permanent
                        \/ \E i \in 1 .. Standing' : ~IsService(applied'[i]) /\ applied'[i].rule = r
    <3>1. SUFFICES ASSUME NEW r \in Rule, ~(r \in host'.permanent <=> r \in born.host.permanent)
                   PROVE  \E i \in 1 .. Standing' : ~IsService(applied[i]) /\ applied[i].rule = r
      BY <1>2
    <3>2. r # c.rule
      BY <1>2, <1>8, <2>3, <3>1 DEF Right
    <3>3. ~(r \in host.permanent <=> r \in born.host.permanent)
      BY <1>8, <2>3, <3>1, <3>2
    <3>4. PICK i \in 1 .. left : ~IsService(applied[i]) /\ applied[i].rule = r
      BY <1>3, <3>3 DEF OnRecord
    <3>5. i \in 1 .. Standing'
      BY <1>1, <1>2, <1>3, <3>2, <3>4
    <3>. QED
      BY <3>4, <3>5
  <2>5. Between(host.permanent)' /\ Between(host.running)'
    BY <1>2, <1>8, <2>1, <2>3 DEF OnRecord, Between, Right
  <2>. QED
    BY <1>2, <1>4, <2>1, <2>3, <2>4, <2>5 DEF OnRecord
<1>. QED
  BY <1>2, <1>7, <1>8 DEF Right, Operations

\* Every step keeps the invariant.
LEMMA StepRestore ==
  Shaped(host) /\ ProcessOK /\ BeganOK /\ RestoreInv /\ [Next]_vars => RestoreInv'
<1> SUFFICES ASSUME Shaped(host), ProcessOK, BeganOK, RestoreInv, [Next]_vars, Settled', Quiet(born)'
             PROVE  OnRecord'
  BY DEF RestoreInv
<1>1. CASE Restart
  <2>1. /\ todo' = {} /\ applied' = <<>> /\ pc' = "idle" /\ verb' = "none"
        /\ host' = host /\ born'.host = host /\ host.active /\ host.running = host.permanent
    BY <1>1 DEF Restart, Now, Settled
  <2>2. ToSet(applied') = {}
    BY <2>1 DEF ToSet
  <2>. QED
    BY <2>1, <2>2 DEF OnRecord, Between
<1>2. CASE ~Restart
  <2>1. /\ Quiet(born) /\ UNCHANGED <<backend, desired, born, faults, edits>>
        /\ \/ Plan /\ todo' = Changes(host.active, Seen(host))
           \/ \E c \in todo : Applies(c)
           \/ \E c \in todo : Fails(c) /\ UNCHANGED host
           \/ Reload \/ ApplyReturns \/ BeginRollback
           \/ Undo /\ host' = IF Works(host, ToUndo) THEN Do(host, ToUndo) ELSE host
           \/ RollbackReturns
           \/ UNCHANGED vars
    BY <1>2, StaysQuiet
  <2>2. Settled /\ OnRecord
    BY <2>1 DEF Settled, RestoreInv
  <2>3. Len(applied) \in Nat /\ Standing \in Nat /\ Standing <= Len(applied)
    BY LenProperties DEF Standing, ProcessOK
  <2>4. CASE Plan /\ todo' = Changes(host.active, Seen(host))
    <3>1. UNCHANGED <<host, applied>> /\ pc' = "apply"
      BY <2>4 DEF Plan
    <3>2. Standing' = Len(applied)
      BY <3>1 DEF Standing
    <3>. QED
      BY <2>1, <2>2, <2>3, <2>4, <3>1, <3>2, PlansRight, KeepsRecord DEF OnRecord
  <2>5. CASE \E c \in todo : Applies(c)
    BY <2>2, <2>5, AppliesOnRecord
  <2>6. CASE (\E c \in todo : Fails(c) /\ UNCHANGED host) \/ ApplyReturns \/ RollbackReturns \/ UNCHANGED vars
    <3>1. UNCHANGED <<host, applied, left, verb>> /\ todo' \subseteq todo
      BY <2>6 DEF Fails, ApplyReturns, RollbackReturns, VerbRest, vars, process
    <3>2. pc' = pc \/ (pc = "apply" /\ pc' = "idle") \/ (pc = "undo" /\ pc' = "idle")
      BY <2>6 DEF Fails, ApplyReturns, RollbackReturns, vars, process
    <3>3. Standing' = Standing
      BY <3>1, <3>2 DEF Standing, ProcessOK
    <3>. QED
      BY <2>1, <2>2, <2>3, <3>1, <3>3, KeepsRecord DEF OnRecord
  <2>7. CASE Reload
    <3>1. /\ UNCHANGED <<applied, left, verb, todo>> /\ pc = "apply" /\ pc' = "idle" /\ host' = InForce(host)
      BY <2>7 DEF Reload, VerbRest
    <3>2. Standing' = Standing
      BY <3>1 DEF Standing, ProcessOK
    <3>3. host'.permanent = host.permanent /\ host'.active = host.active
          /\ (host.active => host'.running = host.permanent)
      BY <3>1, InForceFields DEF Shaped
    <3>. QED
      BY <2>1, <2>2, <2>3, <3>1, <3>2, <3>3, KeepsRecord DEF OnRecord
  <2>8. CASE BeginRollback
    <3>1. UNCHANGED <<host, applied, todo>> /\ pc' = "undo" /\ left' = Len(applied)
      BY <2>8 DEF BeginRollback
    <3>2. Standing' = Len(applied)
      BY <3>1 DEF Standing
    <3>. QED
      BY <2>1, <2>2, <2>3, <3>1, <3>2, KeepsRecord DEF OnRecord
  <2>9. CASE Undo /\ host' = IF Works(host, ToUndo) THEN Do(host, ToUndo) ELSE host
    BY <2>2, <2>9, UndoesOnRecord
  <2>. QED
    BY <2>1, <2>4, <2>5, <2>6, <2>7, <2>8, <2>9
<1>. QED
  BY <1>1, <1>2

\* After a Rollback whose process nothing disturbed, firewalld stores the rules it
\* stored when the process started, and runs.
THEOREM RollbackTakesBack == Spec => []RollbackRestores
<1>1. Shaped(host) /\ ProcessOK /\ BeganOK /\ RestoreInv => RollbackRestores
  <2> SUFFICES ASSUME Shaped(host), ProcessOK, BeganOK, RestoreInv,
                      Clean("rollback", born), backend = "firewalld",
                      born.host.active, born.host.running = born.host.permanent
               PROVE  host.permanent = born.host.permanent /\ host.active = born.host.active
    BY DEF RollbackRestores
  <2>1. OnRecord /\ Standing = 0
    BY DEF RestoreInv, Settled, Quiet, Clean, Standing, ProcessOK
  <2>2. host.permanent \subseteq Rule /\ born.host.permanent \subseteq Rule
        /\ host.active \in BOOLEAN /\ born.host.active \in BOOLEAN
    BY DEF Shaped, BeganOK
  <2>3. host.active /\ \A r \in Rule : r \in host.permanent <=> r \in born.host.permanent
    BY <2>1 DEF OnRecord
  <2>. QED
    BY <2>2, <2>3
<1>2. Init => RestoreInv
  <2> SUFFICES ASSUME Init, Settled PROVE OnRecord
    BY DEF RestoreInv
  <2>1. todo = {} /\ applied = <<>> /\ pc = "idle" /\ verb = "none" /\ born.host = host /\ host.active
        /\ host.running = host.permanent
    BY DEF Init, Now, Settled
  <2>2. ToSet(applied) = {}
    BY <2>1 DEF ToSet
  <2>. QED
    BY <2>1, <2>2 DEF OnRecord, Between
<1>. QED
  BY <1>1, <1>2, InitTyped, StepTyped, StepRestore, PTL DEF Spec
=============================================================================
