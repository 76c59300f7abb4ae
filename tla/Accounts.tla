------------------------------ MODULE Accounts ------------------------------
(***************************************************************************)
(* The user manager (user.go) and the authorized_keys of the ssh manager   *)
(* (ssh_auth.go) on one host.  The orchestrator plans both before it       *)
(* applies either, applies user before ssh, and rolls back in the opposite *)
(* order.  A change is a sequence of commands: the first that fails ends   *)
(* it, what the ones before it did stays, and the change is not recorded   *)
(* for Rollback.                                                           *)
(***************************************************************************)
EXTENDS Naturals, Sequences, SequencesExt, TLC

CONSTANTS
  GroupOrder, UserOrder,  \* the groups and users, as manifests list them
  Ids,                    \* numeric ids
  Keys, Homes, Shells, Hashes, Policies,
  DefaultHome,            \* /home/<user>, and /root for root
  DefaultShell,
  Private,                \* the group useradd makes for a user without one
  None,                   \* undeclared, and: not there
  Manifests,              \* see IsManifest
  Hosts,                  \* what a host may look like at first
  MaxRuns, MaxVerbs, MaxFaults, MaxEdits  \* bounds, as their names say

Groups == ToSet(GroupOrder)
Users  == ToSet(UserOrder)

Account ==
  [uid : Ids, primary : Groups \union {Private}, supp : SUBSET Groups,
   home : Homes, shell : Shells, password : Hashes \union {None}]

UserSpec ==
  [uid : Ids \union {None}, gid : Groups \union {None}, groups : SUBSET Groups,
   home : Homes \union {None}, shell : Shells \union {None}, keys : SUBSET Keys,
   password : Hashes \union {None}, sudo : Policies \union {None}]

IsManifest(m) ==
  /\ DOMAIN m = {"groups", "users", "authorized"}
  /\ DOMAIN m.groups \subseteq Groups /\ \A g \in DOMAIN m.groups : m.groups[g] \in Ids \union {None}
  /\ DOMAIN m.users \subseteq Users /\ \A u \in DOMAIN m.users : m.users[u] \in UserSpec
  /\ DOMAIN m.authorized \subseteq Users /\ \A u \in DOMAIN m.authorized : m.authorized[u] \subseteq Keys

\* A host: group ids, accounts, authorized_keys by user and home, sudoers.d.
IsHost(h) ==
  h \in [gid  : [Groups -> Ids \union {None}], acct : [Users -> Account \union {None}],
         keys : [Users -> [Homes -> SUBSET Keys]], sudo : [Users -> Policies \union {None}]]

ASSUME AccountsAssumption ==
  /\ GroupOrder \in Seq(Groups) /\ UserOrder \in Seq(Users)
  /\ DefaultHome \in Homes /\ DefaultShell \in Shells
  /\ None \notin Account \union Ids \union Groups \union Homes \union Shells \union Hashes \union Policies
  /\ \A m \in Manifests : IsManifest(m)
  /\ \A h \in Hosts : IsHost(h)
  /\ MaxRuns \in Nat /\ MaxVerbs \in Nat /\ MaxFaults \in Nat /\ MaxEdits \in Nat

VARIABLES
  host,
  desired,  \* the manifest of the process
  pc,       \* "idle", "apply", "undo"
  todo,     \* the changes to apply, or the commands to undo them
  at,       \* which command of the first change is next
  applied,  \* the changes recorded for Rollback, of "user" and of "ssh"
  verb, ret, verbs,
  runs, faults, edits,
  since,    \* history: edits when the verb began
  born,     \* history: the host, faults and edits when the process started
  made,     \* history: the users this process created
  undone    \* history: whether this process has rolled back

process == <<desired, pc, todo, at, applied, verb, ret, verbs>>
counts  == <<runs, faults, edits>>
vars    == <<host, process, counts, since, born, made, undone>>

----------------------------------------------------------------------------
(* Commands, and what they do to a host. *)

Exists(h, gs) == \A g \in gs : h.gid[g] # None
FreeGids(h)   == Ids \ {h.gid[g] : g \in Groups}
FreeUids(h)   == Ids \ {h.acct[u].uid : u \in {v \in Users : h.acct[v] # None}}
Primaries(h)  == {h.acct[u].primary : u \in {v \in Users : h.acct[v] # None}}
OrDefault(x, d) == IF x = None THEN d ELSE x

SetGid(h, g, n)        == [h EXCEPT !.gid[g] = n]
SetAcct(h, u, a)       == [h EXCEPT !.acct[u] = a]
SetKeys(h, u, home, ks) == [h EXCEPT !.keys[u][home] = ks]

\* The hosts a command may leave when it succeeds; none if it cannot succeed.
GroupAdd(h, g, n) ==
  IF h.gid[g] # None THEN {}
  ELSE {SetGid(h, g, i) : i \in FreeGids(h) \intersect (IF n = None THEN Ids ELSE {n})}

GroupMod(h, g, n) ==
  IF h.gid[g] = None \/ n \notin FreeGids(h) \union {h.gid[g]} THEN {} ELSE {SetGid(h, g, n)}

GroupDel(h, g) ==
  LET left(a) == IF a = None THEN None ELSE [a EXCEPT !.supp = @ \ {g}]
  IN  IF h.gid[g] = None \/ g \in Primaries(h) THEN {}
      ELSE {[SetGid(h, g, None) EXCEPT !.acct = [u \in Users |-> left(h.acct[u])]]}

UserAdd(h, u, d) ==
  IF h.acct[u] # None \/ ~Exists(h, d.groups \union ({d.gid} \ {None})) THEN {}
  ELSE {SetAcct(h, u,
          [uid |-> i, primary |-> OrDefault(d.gid, Private), supp |-> d.groups,
           home |-> OrDefault(d.home, DefaultHome), shell |-> OrDefault(d.shell, DefaultShell),
           password |-> None]) :
        i \in FreeUids(h) \intersect (IF d.uid = None THEN Ids ELSE {d.uid})}

\* userdel -r takes the home along, and leaves /etc/sudoers.d alone.
UserDel(h, u) ==
  IF h.acct[u] = None THEN {}
  ELSE {SetAcct(SetKeys(h, u, h.acct[u].home, {}), u, None)}

\* usermod -m takes the keys in the home along.
MoveHome(h, u, from, to) ==
  SetKeys(SetKeys(SetAcct(h, u, [h.acct[u] EXCEPT !.home = to]), u, to, h.keys[u][from]), u, from, {})

UserMod(h, u, field, value) ==
  IF h.acct[u] = None THEN {} ELSE
  CASE field = "primary"  -> IF Exists(h, {value}) THEN {SetAcct(h, u, [h.acct[u] EXCEPT !.primary = value])} ELSE {}
    [] field = "supp"     -> IF Exists(h, value) THEN {SetAcct(h, u, [h.acct[u] EXCEPT !.supp = value])} ELSE {}
    [] field = "shell"    -> {SetAcct(h, u, [h.acct[u] EXCEPT !.shell = value])}
    [] field = "password" -> {SetAcct(h, u, [h.acct[u] EXCEPT !.password = value])}
    [] field = "home"     -> {IF value = h.acct[u].home THEN h ELSE MoveHome(h, u, h.acct[u].home, value)}

WriteKeys(h, u, home, ks) == IF h.acct[u] = None THEN {} ELSE {SetKeys(h, u, home, ks)}

WriteSudo(h, u, policy) == {[h EXCEPT !.sudo[u] = policy]}

Outcomes(h, c) ==
  CASE c.cmd = "groupadd" -> GroupAdd(h, c.name, c.arg)
    [] c.cmd = "groupmod" -> GroupMod(h, c.name, c.arg)
    [] c.cmd = "groupdel" -> GroupDel(h, c.name)
    [] c.cmd = "useradd"  -> UserAdd(h, c.name, c.arg)
    [] c.cmd = "userdel"  -> UserDel(h, c.name)
    [] c.cmd = "keys"     -> WriteKeys(h, c.name, c.arg.home, c.arg.keys)
    [] c.cmd = "sudo"     -> WriteSudo(h, c.name, c.arg)
    [] OTHER              -> UserMod(h, c.name, c.cmd, c.arg)

\* A command that fails may have done nothing, all of it, or the start of a file.
Failures(h, c) ==
  {h} \union Outcomes(h, c)
      \union IF c.cmd = "keys" THEN UNION {WriteKeys(h, c.name, c.arg.home, ks) : ks \in SUBSET c.arg.keys}
                               ELSE {}
----------------------------------------------------------------------------
(* Plan. *)

If(b, x) == IF b THEN <<x>> ELSE <<>>
Command(cmd, name, arg) == [cmd |-> cmd, name |-> name, arg |-> arg]
Change(target, name, action, before) ==
  [target |-> target, name |-> name, action |-> action, before |-> before]

\* getUser: the groups are those of id -nG, the keys those in the home of passwd.
IdGroups(h, u)  == {h.acct[u].primary} \union h.acct[u].supp
KeysAtHome(h, u) == h.keys[u][h.acct[u].home]

\* The primary group, the password and sudo are no drift.
userDrift(h, u, d) ==
  \/ d.uid # None /\ d.uid # h.acct[u].uid
  \/ d.home # None /\ d.home # h.acct[u].home
  \/ d.shell # None /\ d.shell # h.acct[u].shell
  \/ d.groups # {} /\ d.groups # IdGroups(h, u)
  \/ d.keys # {} /\ d.keys # KeysAtHome(h, u)

GroupDrift(h, g, n) == n # None /\ h.gid[g] # n

\* What is due, or "none".  What is in "missed" could not be looked up, and counts
\* as not there.
GroupAction(h, m, g, missed) ==
  IF g \notin DOMAIN m.groups THEN "none"
  ELSE IF h.gid[g] = None \/ g \in missed THEN "create"
  ELSE IF GroupDrift(h, g, m.groups[g]) THEN "update" ELSE "none"

UserAction(h, m, u, missed) ==
  IF u \notin DOMAIN m.users THEN "none"
  ELSE IF h.acct[u] = None \/ u \in missed THEN "create"
  ELSE IF userDrift(h, u, m.users[u]) THEN "update" ELSE "none"

GroupChanges(h, m, missed, action) ==
  FlattenSeq([i \in DOMAIN GroupOrder |->
    LET g == GroupOrder[i]
    IN  If(GroupAction(h, m, g, missed) = action,
           Change("group", g, action, IF action = "create" THEN None ELSE h.gid[g]))])

UserChanges(h, m, missed, action) ==
  FlattenSeq([i \in DOMAIN UserOrder |->
    If(UserAction(h, m, UserOrder[i], missed) = action, Change("user", UserOrder[i], action, None))])

KeysChanges(h, m) ==
  FlattenSeq([i \in DOMAIN UserOrder |->
    LET u == UserOrder[i]
    IN  If(u \in DOMAIN m.authorized /\ m.authorized[u] # h.keys[u][DefaultHome],
           Change("keys", u, "write", h.keys[u][DefaultHome]))])

\* Sorted by orderKey: creates of groups, updates of groups, creates of users,
\* updates of users; and then the changes of the ssh manager.
Changes(h, m, missed) ==
  GroupChanges(h, m, missed, "create") \o GroupChanges(h, m, missed, "update")
  \o UserChanges(h, m, missed, "create") \o UserChanges(h, m, missed, "update")
  \o KeysChanges(h, m)

----------------------------------------------------------------------------
(* The commands of a change. *)

createUser(u, d) ==
  <<Command("useradd", u, d)>>
  \o If(d.keys # {}, Command("keys", u, [home |-> OrDefault(d.home, DefaultHome), keys |-> d.keys]))
  \o If(d.password # None, Command("password", u, d.password))
  \o If(d.sudo # None, Command("sudo", u, d.sudo))

\* Mutant: the supplementary groups are left alone.
NoGroups(u, d) ==
  If(d.gid # None, Command("primary", u, d.gid))
  \o If(d.shell # None, Command("shell", u, d.shell))
  \o If(d.home # None, Command("home", u, d.home))
  \o If(d.keys # {}, Command("keys", u, [home |-> OrDefault(d.home, DefaultHome), keys |-> d.keys]))
  \o If(d.password # None, Command("password", u, d.password))
  \o If(d.sudo # None, Command("sudo", u, d.sudo))

updateUser(u, d) ==
  If(d.gid # None, Command("primary", u, d.gid))
  \o If(d.groups # {}, Command("supp", u, d.groups))
  \o If(d.shell # None, Command("shell", u, d.shell))
  \o If(d.home # None, Command("home", u, d.home))
  \o If(d.keys # {}, Command("keys", u, [home |-> OrDefault(d.home, DefaultHome), keys |-> d.keys]))
  \o If(d.password # None, Command("password", u, d.password))
  \o If(d.sudo # None, Command("sudo", u, d.sudo))

Commands(m, c) ==
  CASE c.target = "group" /\ c.action = "create" -> <<Command("groupadd", c.name, m.groups[c.name])>>
    [] c.target = "group" /\ c.action = "update" -> <<Command("groupmod", c.name, m.groups[c.name])>>
    [] c.target = "user" /\ c.action = "create" -> createUser(c.name, m.users[c.name])
    [] c.target = "user" /\ c.action = "update" -> updateUser(c.name, m.users[c.name])
    [] c.target = "keys" ->
         <<Command("keys", c.name, [home |-> DefaultHome, keys |-> m.authorized[c.name]])>>

ManagerOf(c) == IF c.target = "keys" THEN "ssh" ELSE "user"

\* What Rollback runs: an update of a user is not undone (its Before is no
\* UserSpec), and no keys are taken away where there were none.
Undo(c) ==
  LET command(cmd, arg) == [mgr |-> ManagerOf(c), cmd |-> cmd, name |-> c.name, arg |-> arg]
  IN  CASE c.target = "group" /\ c.action = "create" -> <<command("groupdel", None)>>
        [] c.target = "group" /\ c.action = "update" -> <<command("groupmod", c.before)>>
        [] c.target = "user" /\ c.action = "create" -> <<command("userdel", None)>>
        [] c.target = "user" /\ c.action = "update" -> <<>>
        [] c.target = "keys" ->
             If(c.before # {}, command("keys", [home |-> DefaultHome, keys |-> c.before]))

----------------------------------------------------------------------------

Start ==
  /\ desired' \in Manifests
  /\ pc' = "idle" /\ todo' = <<>> /\ at' = 1 /\ applied' = [user |-> <<>>, ssh |-> <<>>]
  /\ verb' = "none" /\ ret' = "ok" /\ verbs' = 0 /\ since' = edits
  /\ born' = [host |-> host', faults |-> faults, edits |-> edits]
  /\ made' = {} /\ undone' = FALSE

Init ==
  /\ host \in Hosts
  /\ desired \in Manifests
  /\ pc = "idle" /\ todo = <<>> /\ at = 1 /\ applied = [user |-> <<>>, ssh |-> <<>>]
  /\ verb = "none" /\ ret = "ok" /\ verbs = 0 /\ since = 0
  /\ runs = 1 /\ faults = 0 /\ edits = 0
  /\ born = [host |-> host, faults |-> 0, edits |-> 0]
  /\ made = {} /\ undone = FALSE

Now == IF pc = "undo" THEN Head(todo) ELSE Commands(desired, Head(todo))[at]

Busy == pc # "idle" /\ todo # <<>>
HasCommand == Busy /\ (pc = "apply" => at <= Len(Commands(desired, Head(todo))))

\* The process ends or is killed, in the middle of a command or not.
Restart ==
  /\ runs < MaxRuns /\ runs' = runs + 1
  /\ host' \in IF HasCommand THEN Failures(host, Now) ELSE {host}
  /\ Start
  /\ UNCHANGED <<faults, edits>>

Fault == faults < MaxFaults /\ faults' = faults + 1

Call(v) ==
  /\ pc = "idle" /\ verbs < MaxVerbs
  /\ verbs' = verbs + 1 /\ verb' = v /\ since' = edits
  /\ UNCHANGED <<host, desired, applied, runs, edits, born, made>>

BeginApply(missed) ==
  /\ Call("apply") /\ ret' = "ok"
  /\ pc' = "apply" /\ todo' = Changes(host, desired, missed) /\ at' = 1
  /\ UNCHANGED undone

Plan == BeginApply({}) /\ UNCHANGED faults

\* getent failed, for whatever reason: the account reads as missing.
PlanMistakes == \E x \in Groups \union Users : BeginApply({x}) /\ Fault

\* The keys of a user could not be read.
PlanFails ==
  /\ Call("apply") /\ Fault /\ DOMAIN desired.authorized # {}
  /\ ret' = "error"
  /\ UNCHANGED <<pc, todo, at, undone>>

Rest == UNCHANGED <<desired, verb, verbs, runs, edits, since, born, undone>>

\* The command succeeds, and the next one of the change is due.
Run ==
  /\ pc = "apply" /\ HasCommand
  /\ host' \in Outcomes(host, Now)
  /\ at' = at + 1
  /\ made' = IF Now.cmd = "useradd" THEN made \union {Now.name} ELSE made
  /\ Rest /\ UNCHANGED <<pc, todo, applied, ret, faults>>

\* Mutant: a change whose command failed is recorded all the same.
FailRecorded ==
  /\ pc = "apply" /\ HasCommand
  /\ \/ Outcomes(host, Now) = {} /\ UNCHANGED <<host, faults>>
     \/ Fault /\ host' \in Failures(host, Now)
  /\ made' = {u \in Users : u \in made \/ (host.acct[u] = None /\ host'.acct[u] # None)}
  /\ applied' = [applied EXCEPT ![ManagerOf(Head(todo))] = Append(@, Head(todo))]
  /\ todo' = Tail(todo) /\ at' = 1 /\ ret' = "failed"
  /\ Rest /\ UNCHANGED pc

\* The command is refused or lost: the change counts as failed, the next one is due.
Fail ==
  /\ pc = "apply" /\ HasCommand
  /\ \/ Outcomes(host, Now) = {} /\ UNCHANGED <<host, faults>>
     \/ Fault /\ host' \in Failures(host, Now)
  /\ made' = {u \in Users : u \in made \/ (host.acct[u] = None /\ host'.acct[u] # None)}
  /\ todo' = Tail(todo) /\ at' = 1 /\ ret' = "failed"
  /\ Rest /\ UNCHANGED <<pc, applied>>

\* All commands of the change have run.
Record ==
  /\ pc = "apply" /\ Busy /\ ~HasCommand
  /\ applied' = [applied EXCEPT ![ManagerOf(Head(todo))] = Append(@, Head(todo))]
  /\ todo' = Tail(todo) /\ at' = 1
  /\ Rest /\ UNCHANGED <<host, pc, ret, faults, made>>

Finish ==
  /\ pc # "idle" /\ todo = <<>>
  /\ pc' = "idle"
  /\ Rest /\ UNCHANGED <<host, todo, at, applied, ret, faults, made>>

----------------------------------------------------------------------------
(* Rollback: ssh, then user; each from its newest change to its oldest. *)

UndoOf(changes) == FlattenSeq([i \in DOMAIN changes |-> Undo(changes[Len(changes) + 1 - i])])

\* Mutant: from the oldest change to the newest.
BeginForward ==
  /\ Call("rollback") /\ ret' = "ok" /\ undone' = TRUE
  /\ pc' = "undo" /\ at' = 1 /\ todo' = Reverse(UndoOf(applied.user)) \o UndoOf(applied.ssh)
  /\ UNCHANGED faults

BeginRollback ==
  /\ Call("rollback") /\ ret' = "ok" /\ undone' = TRUE
  /\ pc' = "undo" /\ at' = 1 /\ todo' = UndoOf(applied.ssh) \o UndoOf(applied.user)
  /\ UNCHANGED faults

UndoRun ==
  /\ pc = "undo" /\ todo # <<>>
  /\ host' \in Outcomes(host, Now)
  /\ todo' = Tail(todo)
  /\ Rest /\ UNCHANGED <<pc, at, applied, ret, faults, made>>

\* The first command that fails ends the rollback of its manager, and the other
\* one's turn comes.
UndoFail ==
  /\ pc = "undo" /\ todo # <<>>
  /\ \/ Outcomes(host, Now) = {} /\ UNCHANGED <<host, faults>>
     \/ Fault /\ host' \in Failures(host, Now)
  /\ todo' = IF Now.mgr = "ssh" THEN UndoOf(applied.user) ELSE <<>>
  /\ ret' = "error"
  /\ Rest /\ UNCHANGED <<pc, at, applied, made>>

----------------------------------------------------------------------------
(* Other actors: the post-install script of a package, an administrator. *)

Edited ==
  /\ edits < MaxEdits /\ edits' = edits + 1
  /\ UNCHANGED <<process, runs, faults, since, born, undone>>

\* An account appears, maybe between Plan and the useradd of Apply.
PackageAddsUser(u, g) ==
  /\ host.acct[u] = None /\ host.gid[g] # None
  /\ \E i \in FreeUids(host) :
       host' = [host EXCEPT !.acct[u] =
                 [uid |-> i, primary |-> g, supp |-> {}, home |-> DefaultHome,
                  shell |-> DefaultShell, password |-> None]]
  /\ Edited /\ UNCHANGED made

\* SetupClusterSSH or an administrator authorizes one more key.
AddKey(u, k) ==
  /\ host.acct[u] # None
  /\ host' = [host EXCEPT !.keys[u][host.acct[u].home] = @ \union {k}]
  /\ Edited /\ UNCHANGED made

Next ==
  \/ Plan \/ PlanMistakes \/ PlanFails \/ Run \/ Fail \/ Record \/ Finish
  \/ BeginRollback \/ UndoRun \/ UndoFail \/ Restart
  \/ \E u \in Users : \/ \E g \in Groups : PackageAddsUser(u, g)
                      \/ \E k \in Keys : AddKey(u, k)

Spec == Init /\ [][Next]_vars

----------------------------------------------------------------------------
(* Properties. *)

\* The variables keep their shapes, and every change left can still be carried out.
TypeOK ==
  /\ IsHost(host) /\ IsManifest(desired)
  /\ pc \in {"idle", "apply", "undo"} /\ (pc = "idle" => todo = <<>>)
  /\ pc = "apply" /\ todo # <<>> => at \in 1 .. Len(Commands(desired, Head(todo))) + 1
  /\ made \subseteq Users

\* The manifest asks nothing of this host that the managers cannot bring about:
\* the uid is the one there, the groups are all the groups the user is to have,
\* and the two managers want the same keys in the same place.  (The ssh manager
\* looks in /home/<user>; where the user manager moves the home, its keys move,
\* over those that were there.)
Coherent ==
  \A u \in DOMAIN desired.users :
    LET d == desired.users[u] IN
    /\ d.uid # None /\ host.acct[u] # None => host.acct[u].uid = d.uid
    /\ d.groups # {} => d.gid \in d.groups
    /\ d.keys # {} => d.home # None
    /\ u \in DOMAIN desired.authorized =>
         d.home = DefaultHome /\ d.keys = desired.authorized[u] /\ d.keys # {}

\* After an Apply in which every change succeeded, nobody meddling, the next Plan
\* is empty, provided the manifest is coherent.
CoherentApplySettles ==
  pc = "idle" /\ verb = "apply" /\ ret = "ok" /\ edits = since /\ Coherent =>
    Changes(host, desired, {}) = <<>>

\* An account that is recorded as created is complete, its password and its sudo
\* rule included, however many of its commands failed in earlier attempts.
RecordedIsComplete ==
  pc = "idle" /\ edits = born.edits /\ ~undone =>
    \A i \in DOMAIN applied.user :
      LET c == applied.user[i] IN
      c.target = "user" /\ c.action = "create" =>
        /\ host.acct[c.name] # None
        /\ desired.users[c.name].password # None =>
             host.acct[c.name].password = desired.users[c.name].password
        /\ desired.users[c.name].sudo # None =>
             host.sudo[c.name] = desired.users[c.name].sudo

\* No step removes an account under a name this process has not created itself:
\* not one that Plan overlooked, and not one a package brought after Plan.  (The
\* record outlives a Rollback: a second one removes the name once more.)
OthersAccountsKept ==
  [][\A u \in Users :
       host.acct[u] # None /\ host'.acct[u] = None => u \in made]_vars

\* After a Rollback, without a failure or an edit in this process, no user is left
\* who was not there when it started, provided it undoes a single Apply or returns
\* no error.  (A group that a second Apply created is deleted before the users of
\* the first: where it has become the primary group of one, that ends the Rollback.)
NewUsersRemoved ==
  /\ pc = "idle" /\ verb = "rollback" /\ (verbs = 2 \/ ret = "ok")
  /\ faults = born.faults /\ edits = born.edits
  => \A u \in Users : host.acct[u] # None => born.host.acct[u] # None
=============================================================================
