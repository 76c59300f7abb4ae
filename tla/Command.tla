------------------------------ MODULE Command -------------------------------
(***************************************************************************)
(* One invocation of linuxctl, from its arguments to its exit code: load   *)
(* the stack (env.yaml files that extend each other and refer to a         *)
(* linux.yaml; loader.go, resolver.go), open the session (ssh.go), and run *)
(* a command of internal/root on the host.  A manager is what it comes to  *)
(* between those two ends: it plans the items that differ from the host,   *)
(* and carries them out one by one.                                        *)
(***************************************************************************)
EXTENDS Presets, Sequences, FiniteSets, FiniteSetsExt, SequencesExt

CONSTANTS
  Files,       \* path to document; a path is [dir, name]
  Here,        \* the dir of a relative path
  Secrets,     \* placeholder to what it stands for, Unset if no backend has it
  Redacted,    \* a placeholder as config render prints it
  Absent,      \* what the host has of an item that is not there
  Half,        \* what a command that failed on the way leaves of a file or directory
  Hosts,       \* what the host may be like: per category, item key to value
  Invocations, \* the command lines: [cmd, verb, file, yes, dry, remote]
  MaxDepth,    \* bound: documents open at a time before the stack overflows
  MaxFaults    \* bound: secrets and commands that fail, sessions that are lost

ASSUME CommandAssumption ==
  /\ MaxDepth \in Nat \ {0} /\ MaxFaults \in Nat
  /\ Unset \notin DOMAIN Secrets
  /\ \A a \in Invocations :
       /\ a.cmd \in {"apply", "diff", "package", "user", "dir", "validate", "render"}
       /\ a.verb = "apply" => a.cmd \in {"apply", "package", "user", "dir"}

VARIABLES
  args,   \* the command line
  pc,     \* "read", "resolve", "fallback", "dial", "plan", "apply", "done"
  stack,  \* the documents of the LoadEnv calls in progress, the innermost last
  env,    \* the innermost document, with what it inherits
  linux,  \* the manifest in hand
  alive,  \* the session is connected
  tries,  \* failed attempts to dial
  todo,   \* the categories still to be planned, or applied
  plan,   \* per category, the changes planned
  blind,  \* the <<category, key>> pairs whose query failed: they were taken for absent
  failed, \* a change failed
  report, \* "none", or what the command says of drift: "clean", "drift"
  exit,   \* "none", "ok", "error", "crash"
  host,
  faults,
  born    \* history: the host the command met

loading == <<stack, env, linux>>
session == <<alive, tries>>
working == <<todo, plan, blind, failed, report>>
vars    == <<args, pc, loading, session, working, exit, host, faults, born>>

----------------------------------------------------------------------------
(* Documents. *)

NoLists ==
  [packages |-> [install |-> {}, remove |-> {}], users_groups |-> [groups |-> <<>>, users |-> <<>>],
   directories |-> <<>>, sysctl |-> <<>>, limits |-> <<>>]

Empty(kind) == [kind |-> kind, bundle |-> Unset, preset |-> [c \in Categories |-> Unset], list |-> NoLists]

\* A relative path belongs to the directory of the document that is being loaded.
Join(dir, p) == IF p.dir = Here THEN [p EXCEPT !.dir = dir] ELSE p

Exists(p) == p \in DOMAIN Files

\* A linux.yaml reads as an env.yaml of the wrong kind that declares nothing.
readEnv(p) ==
  IF Files[p].kind = "Env" THEN Files[p]
  ELSE [kind |-> "Env", head |-> "bad", extends |-> Unset, ref |-> Unset, inline |-> Unset]

\* And an env.yaml as a manifest of the wrong kind that lists nothing.
Decoded(p) == IF Files[p].kind = "Linux" THEN Files[p].manifest ELSE Empty("Env")

BundleKnown(m) == m.bundle = Unset \/ BundleExpands(m.bundle)

LoadsLinux(p) == Exists(p) /\ BundleKnown(Decoded(p))
LoadLinux(p)  == expandBundleOnLinux(Decoded(p))

Declares(e) == e.ref # Unset \/ e.inline # Unset

\* Mutant: what the base declares stays.
BaseWins(base, over) ==
  [over EXCEPT !.head = IF @ = "open" THEN base.head ELSE @,
               !.ref = IF Declares(base) THEN base.ref ELSE @,
               !.inline = IF Declares(base) THEN base.inline ELSE @]

\* The heir replaces the base's head (version, kind, name) and manifest if it has its own.
mergeEnv(base, over) ==
  LET from == IF Declares(over) THEN over ELSE base
  IN  [kind |-> over.kind, head |-> IF over.head = "open" THEN base.head ELSE over.head,
       extends |-> over.extends, ref |-> from.ref, inline |-> from.inline]

----------------------------------------------------------------------------
(* Secrets and validation. *)

Keys(m) == UNION {u.keys : u \in Range(m.list["users_groups"].users)}

Placeholders(m) == Keys(m) \intersect DOMAIN Secrets

WithKeys(m, written) ==
  LET users == m.list["users_groups"].users
  IN  [m EXCEPT !.list["users_groups"].users =
         [u \in DOMAIN users |-> [users[u] EXCEPT !.keys = {written[k] : k \in users[u].keys}]]]

Resolve(k) == IF k \in DOMAIN Secrets THEN Secrets[k] ELSE k

resolveLinuxSecrets(m) == WithKeys(m, [k \in Keys(m) |-> Resolve(k)])

\* A user may join only groups that the manifest lists itself: presets are merged later.
Valid(m) ==
  /\ m.kind = "Linux"
  /\ \A u \in Range(m.list["users_groups"].users) : u.groups \subseteq DOMAIN m.list["users_groups"].groups

\* On its own a manifest without a kind is not looked at.
Validate(m) == m.kind = Unset \/ Valid(m)

----------------------------------------------------------------------------
(* Lists. *)

Pairs(f) == {<<k, f[k]>> : k \in DOMAIN f}

\* What a list asks for, as pairs of an item's key and value.
Items(c, list) ==
  CASE c = "packages" -> (list.install \X {"installed"}) \union (list.remove \X {Absent})
    [] c = "users_groups" ->
         {<<<<"group", p[1]>>, p[2]>> : p \in Pairs(list.groups)}
         \union {<<<<"user", p[1]>>, p[2]>> : p \in Pairs(list.users)}
    [] c \in {"directories", "sysctl", "limits"} -> Pairs(list)

----------------------------------------------------------------------------
(* What documents may be. *)

\* A manifest as it is decoded.
IsManifest(m) ==
  /\ m = [kind |-> m.kind, bundle |-> m.bundle, preset |-> m.preset, list |-> m.list]
  /\ m.preset = [c \in Categories |-> m.preset[c]] /\ m.list = [c \in Categories |-> m.list[c]]
  /\ LET ug == m.list["users_groups"]
     IN  ug = [groups |-> ug.groups, users |-> [u \in DOMAIN ug.users |-> ug.users[u]]]
  /\ \A c \in Categories : IsList(c, m.list[c])

EnvFiles == {p \in DOMAIN Files : Files[p].kind = "Env"}

Manifests ==
  {Files[p].manifest : p \in DOMAIN Files \ EnvFiles} \union ({Files[p].inline : p \in EnvFiles} \ {Unset})

\* readEnv reads a manifest either as a $ref or inline.  No preset has a placeholder,
\* and no secret is one.
ASSUME DocumentsAssumption ==
  /\ \A p \in DOMAIN Files \ EnvFiles : Files[p].kind = "Linux"
  /\ \A p \in EnvFiles :
       LET e == Files[p]
       IN  /\ e = [kind |-> "Env", head |-> e.head, extends |-> e.extends, ref |-> e.ref, inline |-> e.inline]
           /\ e.ref # Unset => e.inline = Unset
  /\ \A m \in Manifests : IsManifest(m)
  /\ \A x \in DOMAIN Catalogue : x[1] = "users_groups" =>
       \A u \in Range(Catalogue[x].spec.users) : u.keys \intersect DOMAIN Secrets = {}
  /\ \A k \in DOMAIN Secrets : Secrets[k] \notin DOMAIN Secrets
  /\ \A h \in Hosts : DOMAIN h = Categories

----------------------------------------------------------------------------
(* Loading: LoadEnv calls itself for the base, and merges when that returns. *)

\* config validate and config render take the file for a linux.yaml.
LinuxOnly == args.cmd \in {"validate", "render"}

Init ==
  /\ args \in Invocations /\ pc = IF LinuxOnly THEN "fallback" ELSE "read"
  /\ stack = <<args.file>> /\ env = Unset /\ linux = Empty(Unset)
  /\ alive = TRUE /\ tries = 0
  /\ todo = <<>> /\ plan = [c \in Categories |-> {}] /\ blind = {} /\ failed = FALSE /\ report = "none"
  /\ exit = "none" /\ host \in Hosts /\ faults = 0 /\ born = host

Fault   == faults < MaxFaults /\ faults' = faults + 1
NoFault == UNCHANGED faults

Top == Last(stack)

LoadRest == UNCHANGED <<args, session, working, host, born>>

ReadEnv ==
  /\ pc = "read" /\ Exists(Top)
  /\ LET e == readEnv(Top)
     IN  IF e.extends = Unset
         THEN pc' = "resolve" /\ env' = e /\ UNCHANGED stack
         ELSE /\ Len(stack) < MaxDepth
              /\ stack' = Append(stack, Join(Top.dir, e.extends)) /\ UNCHANGED <<pc, env>>
  /\ UNCHANGED <<linux, exit>> /\ NoFault /\ LoadRest

\* Nothing stops a document from extending itself but the end of the memory.
Overflow ==
  /\ pc = "read" /\ Exists(Top)
  /\ readEnv(Top).extends # Unset /\ Len(stack) = MaxDepth
  /\ pc' = "done" /\ exit' = "crash"
  /\ UNCHANGED loading /\ NoFault /\ LoadRest

\* A $ref that was inherited is looked up again, next to the heir.
RefPath == Join(Top.dir, env.ref)

Reachable == IF env.ref # Unset THEN LoadsLinux(RefPath) ELSE env.inline # Unset /\ BundleKnown(env.inline)

Target == IF env.ref # Unset THEN LoadLinux(RefPath) ELSE expandBundleOnLinux(env.inline)

Resolvable ==
  /\ env.head = "good" /\ Reachable
  /\ \A k \in Placeholders(Target) : Secrets[k] # Unset
  /\ Valid(resolveLinuxSecrets(Target))

Loaded(m) == linux' = m /\ stack' = <<>> /\ pc' = "dial"

\* What was inline is resolved where it stands.
Inherited == IF env.ref # Unset THEN env ELSE [env EXCEPT !.inline = resolveLinuxSecrets(Target)]

ResolveEnv ==
  /\ pc = "resolve" /\ Resolvable
  /\ IF Len(stack) = 1
     THEN Loaded(resolveLinuxSecrets(Target)) /\ UNCHANGED env
     ELSE /\ stack' = Front(stack) /\ env' = mergeEnv(Inherited, readEnv(Last(Front(stack))))
          /\ UNCHANGED <<pc, linux>>
  /\ UNCHANGED exit /\ NoFault /\ LoadRest

\* An error of any document, or a secret that the vault does not give away, ends
\* them all.
LoadEnvFails ==
  /\ \/ pc = "read" /\ ~Exists(Top) /\ NoFault
     \/ pc = "resolve" /\ ~Resolvable /\ NoFault
     \/ pc = "resolve" /\ Reachable /\ Placeholders(Target) # {} /\ Fault
  /\ pc' = "fallback" /\ stack' = <<>>
  /\ UNCHANGED <<env, linux, exit>> /\ LoadRest

\* Then the file is read as a linux.yaml, with its placeholders as they are.
FallBack ==
  /\ pc = "fallback" /\ LoadsLinux(args.file)
  /\ Loaded(LoadLinux(args.file))
  /\ UNCHANGED <<env, exit>> /\ NoFault /\ LoadRest

Ends(code) == pc' = "done" /\ exit' = code

FallBackFails ==
  /\ pc = "fallback" /\ ~LoadsLinux(args.file)
  /\ Ends("error") /\ UNCHANGED loading /\ NoFault /\ LoadRest

----------------------------------------------------------------------------
(* Commands that need no host. *)

Redact(k) == IF k \in DOMAIN Secrets THEN Redacted ELSE k

Render ==
  /\ pc = "dial" /\ args.cmd = "render"
  /\ linux' = WithKeys(Rendered(linux), [k \in Keys(Rendered(linux)) |-> Redact(k)])
  /\ Ends("ok") /\ UNCHANGED <<stack, env>> /\ NoFault /\ LoadRest

\* config validate; the dir command checks the manifest before it goes on.
Check ==
  /\ pc = "dial" /\ args.cmd \in {"validate", "dir"}
  /\ args.cmd = "dir" => ~Validate(linux)
  /\ Ends(IF Validate(linux) THEN "ok" ELSE "error") /\ UNCHANGED loading /\ NoFault /\ LoadRest

----------------------------------------------------------------------------
(* The session. *)

OnHost == args.cmd \notin {"validate", "render"} /\ (args.cmd = "dir" => Validate(linux))

\* apply apply asks for --yes before it plans, the other commands after.
RefusesAtOnce == args.cmd = "apply" /\ args.verb = "apply" /\ ~args.yes /\ ~args.dry

CategoriesOf ==
  CASE args.cmd \in {"apply", "diff"} -> <<"packages", "users_groups", "directories", "sysctl", "limits">>
    [] args.cmd = "package" -> <<"packages">>
    [] args.cmd = "user"    -> <<"users_groups">>
    [] args.cmd = "dir"     -> <<"directories">>

\* A new process has applied nothing that apply rollback could undo.
Start ==
  CASE RefusesAtOnce -> Ends("error") /\ UNCHANGED todo
    [] args.verb = "rollback" -> Ends("ok") /\ UNCHANGED todo
    [] ~RefusesAtOnce /\ args.verb # "rollback" -> pc' = "plan" /\ todo' = CategoriesOf /\ UNCHANGED exit

SessionRest == UNCHANGED <<args, loading, plan, blind, failed, report, host, faults, born>>

Open ==
  /\ pc = "dial" /\ OnHost
  /\ Start /\ UNCHANGED session /\ SessionRest

DialFails ==
  /\ pc = "dial" /\ OnHost /\ args.remote /\ tries < 2
  /\ tries' = tries + 1
  /\ UNCHANGED <<pc, exit, todo, alive>> /\ SessionRest

\* Mutant: after the third attempt it starts over.
DialsAgain ==
  /\ pc = "dial" /\ OnHost /\ args.remote /\ tries \in {0, 2}
  /\ tries' = 0
  /\ UNCHANGED <<pc, exit, todo, alive>> /\ SessionRest

\* After the third attempt, or without a key, the command goes on with a session
\* that was never connected.
GivesUp ==
  /\ pc = "dial" /\ OnHost /\ args.remote /\ tries \in {0, 2}
  /\ alive' = FALSE /\ tries' = tries + 1
  /\ Start /\ SessionRest

LoseSession ==
  /\ pc \in {"plan", "apply"} /\ args.remote /\ alive
  /\ alive' = FALSE /\ Fault
  /\ UNCHANGED <<args, pc, loading, tries, working, exit, host, born>>

----------------------------------------------------------------------------
(* Planning. *)

\* Mutant: no manager merges presets.
ListedOnly(c) == Items(c, linux.list[c])

\* The package and user commands hand over the lists alone, the orchestrator does
\* for sysctl and limits.
Desired(c) ==
  Items(c, IF args.cmd \in {"package", "user"} \/ c \in {"sysctl", "limits"}
           THEN linux.list[c] ELSE Merged(linux, c))

At(h, c, k) == IF k \in DOMAIN h[c] THEN h[c][k] ELSE Absent

Account(c, k) == c = "users_groups" /\ k[1] = "user"

\* Left open, or as declared.
OpenOr(d, v) == d = Unset \/ d = v

SameButId(d, v) == OpenOr(d.shell, v.shell) /\ d.groups \in {{}, v.groups} /\ d.keys \in {{}, v.keys}

\* userDrift does not look at the sudo rule (nor at the password and the primary group,
\* which the rule stands for here).
InAccord(c, k, d, v) ==
  IF Account(c, k) THEN v # Absent /\ OpenOr(d.uid, v.uid) /\ SameButId(d, v)
  ELSE d = v \/ (d = Unset /\ v # Absent)

\* These managers compare and write a file of their own as a whole.
OwnedFiles == {"sysctl", "limits"}

\* A query that fails, as all do without a session, reads as "not there".
Drift(c, B) ==
  LET wanted == Desired(c)
      seen(k) == IF alive /\ k \notin B THEN At(host, c, k) ELSE Absent
  IN  IF c \in OwnedFiles
      THEN IF alive /\ B = {} /\ Pairs(host[c]) = wanted THEN {} ELSE wanted
      ELSE {i \in wanted : ~InAccord(c, i[1], i[2], seen(i[1]))}

CommandRest == UNCHANGED <<args, loading, session, born>>

\* Few queries return an error: what the distribution is, and what is in a directory's
\* inode or an owned file that is there.
CanFail(c) ==
  \/ c = "packages" /\ Desired(c) # {}
  \/ c = "directories" /\ \E i \in Desired(c) : At(host, c, i[1]) # Absent
  \/ c \in OwnedFiles /\ Desired(c) # {} /\ DOMAIN host[c] # {}

PlanErrs ==
  /\ pc = "plan" /\ todo # <<>>
  /\ \/ ~alive /\ Head(todo) = "packages" /\ Desired("packages") # {} /\ NoFault
     \/ alive /\ CanFail(Head(todo)) /\ Fault
  /\ Ends("error") /\ UNCHANGED <<working, host>> /\ CommandRest

KeysOf(S) == {i[1] : i \in S}

\* Accounts of which the groups or keys may be read as none: another two queries.
HalfSeen(c) == {i \in Desired(c) : Account(c, i[1]) /\ (i[2].groups # {} \/ i[2].keys # {})}

\* The kernel may have other values than the sysctl file: then all of it is planned.
PlanNext ==
  /\ pc = "plan" /\ todo # <<>>
  /\ LET c == Head(todo)
     IN  /\ c = "packages" => alive \/ Desired("packages") = {}
         /\ \E B \in SUBSET KeysOf(Desired(c)), X \in SUBSET HalfSeen(c) :
              LET n == Cardinality(B) + Cardinality(X)
              IN  /\ n > 0 => alive
                  /\ faults + n <= MaxFaults /\ faults' = faults + n
                  /\ blind' = blind \union ({c} \X B)
                  /\ \E K \in {{}} \union (IF c = "sysctl" THEN {Desired(c)} ELSE {}) :
                       plan' = [plan EXCEPT ![c] = Drift(c, B) \union X \union K]
  /\ todo' = Tail(todo)
  /\ UNCHANGED <<pc, exit, failed, report, host>> /\ CommandRest

InDrift == \E c \in Categories : plan[c] # {}

Reports == report' = IF InDrift THEN "drift" ELSE "clean"

\* plan, verify and diff say what they found; only dir verify makes it an error.
Tell ==
  /\ pc = "plan" /\ todo = <<>> /\ args.verb # "apply"
  /\ Reports
  /\ Ends(IF args.cmd = "dir" /\ args.verb = "verify" /\ InDrift THEN "error" ELSE "ok")
  /\ UNCHANGED <<todo, plan, blind, failed, host, faults>> /\ CommandRest

\* The dir command does not ask for --yes.
RefusesPlan == args.cmd \in {"package", "user"} /\ ~args.yes /\ ~args.dry

BeginApply ==
  /\ pc = "plan" /\ todo = <<>> /\ args.verb = "apply"
  /\ Reports
  /\ CASE ~InDrift -> Ends("ok") /\ UNCHANGED todo
       [] InDrift /\ RefusesPlan -> Ends("error") /\ UNCHANGED todo
       [] InDrift /\ ~RefusesPlan -> pc' = "apply" /\ todo' = CategoriesOf /\ UNCHANGED exit
  /\ UNCHANGED <<plan, blind, failed, host, faults>> /\ CommandRest

----------------------------------------------------------------------------
(* Applying. *)

ValueOf(S) == [k \in KeysOf(S) |-> (CHOOSE i \in S : i[1] = k)[2]]

\* What useradd makes before the first key and rule are written.
Blank(d) == [uid |-> d.uid, groups |-> {}, shell |-> Unset, keys |-> {}, sudo |-> Unset]

\* Account f after the first n of usermod -G, usermod -s, authorized_keys and sudoers.d;
\* what is left open stays, and no command changes a uid.
Changed(f, d, n) ==
  [uid    |-> f.uid,
   groups |-> IF n >= 1 /\ d.groups # {} THEN d.groups ELSE f.groups,
   shell  |-> IF n >= 2 /\ d.shell # Unset THEN d.shell ELSE f.shell,
   keys   |-> IF n >= 3 /\ d.keys # {} THEN d.keys ELSE f.keys,
   sudo   |-> IF n >= 4 /\ d.sudo # Unset THEN d.sudo ELSE f.sudo]

\* The account under key k that the commands work on.
Found(h, k, d) == IF k \in DOMAIN h["users_groups"] THEN h["users_groups"][k] ELSE Blank(d)

\* useradd and groupadd refuse what is there already.
Refused(c, k) == c = "users_groups" /\ <<c, k>> \in blind /\ k \in DOMAIN host[c]

\* What a change makes of item k.
Made(c, k, d) ==
  IF Refused(c, k) THEN host[c][k]
  ELSE IF Account(c, k) THEN Changed(Found(host, k, d), d, 4)
  ELSE IF d = Unset /\ At(host, c, k) # Absent THEN host[c][k] ELSE d

\* What is left of an account when a command after the first fails; useradd sets groups
\* and shell at once.
HalfMade(k, d) ==
  LET f == Found(host, k, d)
      first == IF k \in DOMAIN host["users_groups"] THEN 1 ELSE 2
  IN  {Changed(f, d, n) : n \in first .. 4}
      \union (IF d.keys = {} THEN {} ELSE {[Changed(f, d, 2) EXCEPT !.keys = Half]})
      \union (IF d.sudo = Unset THEN {} ELSE {[Changed(f, d, 3) EXCEPT !.sudo = Half]})

\* What a change may leave of an item that it touches.
Left(c, k, d) ==
  {Made(c, k, d)} \union
  (IF Refused(c, k) \/ c = "packages" THEN {}
   ELSE IF Account(c, k) THEN HalfMade(k, d)
   ELSE IF c = "users_groups" THEN {} ELSE {Half})

\* Category c with the new items: an owned file has nothing else in it.
Written(c, new) == IF c \in OwnedFiles THEN new ELSE Overlay(new, host[c])

\* Category c when all of its plan is carried out.
CarriedOut(c) ==
  LET want == ValueOf(plan[c]) IN Written(c, [k \in DOMAIN want |-> Made(c, k, want[k])])

\* What it may be when commands fail: as it was, or with some items changed and some
\* half-changed; an owned file may be cut short, or written and not loaded.
LeftOver(c) ==
  LET want == ValueOf(plan[c])
      left == [k \in DOMAIN want |-> Left(c, k, want[k])]
      parts == UNION {{g \in [D -> UNION Range(left)] : \A k \in D : g[k] \in left[k]} : D \in SUBSET DOMAIN want}
  IN  {host[c]} \union {Written(c, g) : g \in parts}

ApplyRest == UNCHANGED <<pc, plan, blind, report, exit>> /\ CommandRest

ApplyNext ==
  /\ pc = "apply" /\ todo # <<>>
  /\ LET c == Head(todo)
     IN  IF args.dry \/ plan[c] = {} THEN UNCHANGED <<host, failed>>
         ELSE /\ alive /\ host' = [host EXCEPT ![c] = CarriedOut(c)]
              /\ failed' = (failed \/ \E i \in plan[c] : Refused(c, i[1]))
  /\ todo' = Tail(todo)
  /\ UNCHANGED faults /\ ApplyRest

\* A failure is noted, and the other changes are carried out.
ApplyFails ==
  /\ pc = "apply" /\ todo # <<>> /\ ~args.dry
  /\ LET c == Head(todo)
     IN  /\ plan[c] # {}
         /\ \/ ~alive /\ UNCHANGED <<host, faults>>
            \/ alive /\ Fault /\ \E left \in LeftOver(c) : host' = [host EXCEPT ![c] = left]
  /\ todo' = Tail(todo) /\ failed' = TRUE
  /\ ApplyRest

\* Failures are counted in the output; only the dir command returns an error for them.
ApplyReturns ==
  /\ pc = "apply" /\ todo = <<>>
  /\ Ends(IF args.cmd = "dir" /\ failed THEN "error" ELSE "ok")
  /\ UNCHANGED <<working, host, faults>> /\ CommandRest

Step ==
  \/ ReadEnv \/ Overflow \/ ResolveEnv \/ LoadEnvFails \/ FallBack \/ FallBackFails
  \/ Render \/ Check
  \/ Open \/ DialFails \/ GivesUp
  \/ PlanErrs \/ PlanNext \/ Tell \/ BeginApply
  \/ ApplyNext \/ ApplyFails \/ ApplyReturns

Next == Step \/ LoseSession

\* Files, the vault, the network and remote commands answer, or say that they cannot.
Fairness == WF_vars(Step)

Spec == Init /\ [][Next]_vars /\ Fairness

----------------------------------------------------------------------------
(* What a stack means, whatever way it is loaded. *)

Nowhere == [dir |-> Here, name |-> Unset]

IsEnv(p) == Exists(p) /\ Files[p].kind = "Env"

Base(p) == IF IsEnv(p) /\ Files[p].extends # Unset THEN Join(p.dir, Files[p].extends) ELSE Nowhere

\* The document, its base, the base of that, ...
Chain(p) ==
  LET chain[n \in 0 .. MaxDepth] == IF n = 0 THEN p ELSE Base(chain[n - 1])
  IN  chain

\* The first of them that declares a manifest.
Declarers(p) == {n \in 0 .. MaxDepth : IsEnv(Chain(p)[n]) /\ Declares(Files[Chain(p)[n]])}

DeclaredBy(q) ==
  IF Files[q].inline # Unset THEN {Files[q].inline}
  ELSE LET r == Join(q.dir, Files[q].ref)
       IN  IF Exists(r) /\ Files[r].kind = "Linux" THEN {Files[r].manifest} ELSE {}

MeantManifests(p) ==
  IF Exists(p) /\ Files[p].kind = "Linux" THEN {Files[p].manifest}
  ELSE IF Declarers(p) = {} THEN {} ELSE DeclaredBy(Chain(p)[Min(Declarers(p))])

MeantPreset(m, c) ==
  IF m.preset[c] # Unset THEN m.preset[c]
  ELSE IF m.bundle \in DOMAIN Bundles THEN Bundles[m.bundle].child[c] ELSE Unset

\* A user is as listed, with what is left open and more groups from the preset.
MeantUser(e, p) ==
  [uid    |-> IF e.uid = Unset THEN p.uid ELSE e.uid,
   groups |-> e.groups \union p.groups,
   shell  |-> IF e.shell = Unset THEN p.shell ELSE e.shell,
   keys   |-> {Resolve(k) : k \in IF e.keys = {} THEN p.keys ELSE e.keys},
   sudo   |-> e.sudo]

\* Of every key the own items count, and the given ones only without those.
Together(c, own, given) ==
  LET alike == {ij \in own \X given : ij[1][1] = ij[2][1]}
      users == {ij \in alike : c = "users_groups" /\ ij[1][1][1] = "user"}
  IN  (own \ {ij[1] : ij \in users}) \union (given \ {ij[2] : ij \in alike})
      \union {<<ij[1][1], MeantUser(ij[1][2], ij[2][2])>> : ij \in users}

Given(m, c) ==
  LET name == MeantPreset(m, c)
  IN  IF name # Unset /\ ResolvesCategory(c, name) THEN Items(c, Catalogue[<<c, name>>].spec) ELSE {}

MeantItems(m, c) == Together(c, Items(c, resolveLinuxSecrets(m).list[c]), Given(m, c))

\* Sysctl and limits presets are rendered, but no command applies them.
Applied(m, c) == IF c \in {"sysctl", "limits"} THEN Items(c, m.list[c]) ELSE MeantItems(m, c)

\* Nothing but a package is asked to be absent.
ASSUME PresenceAssumption ==
  \A m \in Manifests : \A c \in Categories \ {"packages"} : \A i \in Applied(m, c) : i[2] # Absent

\* Where the code departs from what the documents mean: placeholders of a linux.yaml
\* given itself are not resolved, an inherited relative $ref is looked up next to the
\* heir, and the package and user commands leave presets out.
Departs ==
  \/ Exists(args.file) /\ Files[args.file].kind = "Linux" /\ Placeholders(Files[args.file].manifest) # {}
  \/ LET D == Declarers(args.file)
     IN  D # {} /\ LET q == Chain(args.file)[Min(D)]
                   IN  Files[q].ref # Unset /\ Files[q].ref.dir = Here /\ q.dir # args.file.dir
  \/ args.cmd = "package" \/ args.cmd = "user"

\* The dir command alone does not ask.
Consented == ~args.dry /\ args.verb = "apply" /\ (args.yes \/ args.cmd = "dir")

OnlyWithConsent == host = born \/ Consented

----------------------------------------------------------------------------
(* Properties. *)

\* The fields of an account, and what one is that a user leaves open.
Fields == {"uid", "groups", "shell", "keys", "sudo"}

Nothing(f) == IF f \in {"groups", "keys"} THEN {} ELSE Unset

\* Every field of an account is as found, or blank if it is new, or as declared; a file
\* of its is half-written only where a command failed.
FieldByField(k, asked) ==
  LET now == host["users_groups"][k]
  IN  \A f \in Fields : \E d \in asked :
        \/ now[f] = Found(born, k, d)[f]
        \/ now[f] = d[f] /\ d[f] # Nothing(f)
        \/ failed /\ f \in {"keys", "sudo"} /\ now[f] = Half

\* An item is as the command found it, or as it is wanted, or half-made where a command
\* failed; an owned file loses what is not wanted in it, or all of it with a failure.
Proper(c, k, wanted) ==
  LET now == At(host, c, k)
      asked == {i[2] : i \in {j \in wanted : j[1] = k}}
  IN  \/ now = At(born, c, k)
      \/ Account(c, k) /\ k \in DOMAIN host[c] /\ FieldByField(k, asked)
      \/ ~Account(c, k) /\ (now \in asked \/ (failed /\ asked # {} /\ now = Half))
      \/ c \in OwnedFiles /\ wanted # {} /\ now = Absent /\ (asked = {} \/ failed)

\* Whatever fails on the way, every item of the host is as the command found it or as
\* the stack means it, an account field by field; it is left half-made only with a
\* failure that the command counts, and it is as found unless the change was asked for
\* and agreed to.  Only the sysctl and limits files lose entries nobody declared.
HostOnlyAsMeant ==
  /\ OnlyWithConsent
  /\ \A c \in Categories : host[c] = born[c] \/ Departs \/
       \E m \in MeantManifests(args.file) :
         LET wanted == Applied(m, c)
         IN  \A k \in DOMAIN born[c] \union DOMAIN host[c] : Proper(c, k, wanted)

\* A list that both wants a package and wants it gone is never met.
Contradictory(m) == m.list["packages"].install \intersect m.list["packages"].remove # {}

\* An item that was changed is as declared in all that the commands set, one that was
\* not in all that the manager compares; but a failed query of a package that should
\* not be there goes unnoticed.
AsClaimed(c, i) ==
  LET k == i[1]
      d == i[2]
      now == At(host, c, k)
  IN  IF i \in plan[c] /\ Account(c, k)
      THEN /\ k \in DOMAIN host[c] /\ SameButId(d, now) /\ OpenOr(d.sudo, now.sudo)
           /\ k \in DOMAIN born[c] \/ OpenOr(d.uid, now.uid)
      ELSE InAccord(c, k, d, now) \/ (d = Absent /\ <<c, k>> \in blind)

\* When a command says there is no drift, or applies all it planned, the host is as
\* the stack means it, as far as the managers look, with a session or without one,
\* provided that the stack was loaded and the host is left alone.  A sudo rule is
\* looked at by nobody, and a uid changed by nobody.
ClaimsAreTrue ==
  /\ pc = "done" /\ exit = "ok" /\ ~failed /\ ~Departs /\ linux.kind = "Linux"
  /\ report = "clean" \/ (args.verb = "apply" /\ Consented /\ report = "drift")
  => \A m \in MeantManifests(args.file) : Contradictory(m) \/
       \A c \in ToSet(CategoriesOf) : \A i \in Applied(m, c) : AsClaimed(c, i)

\* config render prints what a linux.yaml without secrets means, and what it prints
\* means the same when it is loaded again.
RenderedMeansTheSame ==
  pc = "done" /\ args.cmd = "render" /\ exit = "ok" /\ Files[args.file].kind = "Linux" =>
    LET m == Files[args.file].manifest
    IN  Placeholders(m) = {} => \A c \in Categories :
          /\ Items(c, linux.list[c]) = MeantItems(m, c)
          /\ MeantItems(linux, c) = MeantItems(m, c)

\* An invocation ends, whatever does not answer and whatever extends itself.
InvocationEnds == <>(pc = "done")
=============================================================================
