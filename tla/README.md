# linuxctl in TLA+

linuxctl brings Linux hosts to the state a manifest declares.  This directory
holds TLA+ models of its core, the TLC runs that check them on small instances,
and proofs of the theorems that hold for every instance.

## Inventory

| Part | State it keeps | Operations | What is hard | Correct when |
| --- | --- | --- | --- | --- |
| Orchestrator (`pkg/apply`) | options, the record `applied` of changes per manager | Plan, Apply, Verify, Diff, Rollback over an ordered list of managers | everything is planned before anything is applied; two styles of failing managers; a record that is never cleared; nobody locks the host | nothing happens that is not recorded or reported; Rollback takes nothing of others; verbs return |
| Disk manager (`disk.go`) | none in the process; LVM, file systems, fstab, mounts on the host | discover, Plan, Apply, Rollback | failing probes read as "nothing there"; tags resolved against the raw disks of the moment; partial stacks; destructive commands | data is kept, a retry completes a partial stack, Rollback restores |
| Cluster SSH (`SetupClusterSSH`) | a slice of results behind a mutex; key files, `authorized_keys`, `known_hosts` on the nodes | key generation per node in goroutines, then merge and keyscan node by node | interleaving, lost results, cut-off writes, unreachable nodes, reruns | trust is mutual, and only among the nodes; no loss goes unreported |
| User and SSH managers (`user.go`, `ssh_auth.go`) | accounts, groups, sudo rules, `authorized_keys` | Plan, Apply, Rollback | an account half made; two owners of one file; homes that move; drift that never converges | nobody else's account goes; what is recorded is complete |
| Hosts manager (`hosts.go`) | a block in `/etc/hosts` | Plan, Apply, Rollback | other people's lines around the block, torn writes, a stale copy for Rollback | lines outside the block stay; an Apply converges |
| Sysctl, limits and the sshd drop-in | one file each, and what of it is loaded | Plan, Apply, Rollback | written is not loaded; a file sshd rejects; failed loads | what is declared is in the file and in effect |
| Dir and mount managers | directories, the mount table, credentials, fstab | Plan, Apply, Rollback | mounts that hide directories and each other; probes that fail; two layers of quoting | found mounts stay, Rollback uncovers what lay below |
| Firewall manager | running and permanent rules | Plan, Apply, reload, Rollback | one set is read, the other written | declared rules are in force, Rollback restores |
| Package manager (`package.go`) | cached distribution family | batched install and remove with retries on a lock | a lock that is never released, partial batches, a query whose error reads as "not installed" | found packages stay; the verb returns; two Applies settle |
| SELinux, network, service managers | mode and booleans, host name and resolv.conf, units | Plan, Apply, Verify, Rollback | settings with two stores, reboots, units that a package brings, masked and static units | what is declared survives a reboot; Rollback restores |
| Sessions (`pkg/session`) | an SSH connection | Run, RunSudo, WriteFile, ReadFile, FileExists | three dial attempts, a session that was never connected, writes that truncate first, errors read as "no" | what a command claims of the host is true without a session too |
| Configuration loader (`pkg/config`) | the documents being loaded | load, inherit, follow `$ref`, resolve secrets, validate | heirs and bases, errors that are swallowed, cycles | the manifest in hand is the one the stack means |
| Presets (`pkg/presets`) | embedded presets and bundles, three tiers | resolve, expand a bundle, merge a category | precedence, conflicts, merging twice | own items win; a second merge changes nothing |
| Command line (`internal/root`) | flags; one invocation | load, open the session, plan, ask for consent, apply, report | consent is asked for at different places; errors that leave exit code 0 | nothing changes without consent; an invocation ends |
| License gate, state database, vault client, version, docs generator | little or none | | see "Not modelled" | |

The command line makes an orchestrator per invocation and calls one verb; the
orchestrator binds the session to each manager and hands each its part of the
manifest; the managers run commands through the session.  `setup-cluster` goes
past the orchestrator and drives one session per node directly.  Managers meet
on the host: they share no memory, but what one does changes what another's
commands find.

## Modules

Each manager's module is written alike.  `Plan` (with its probes, each of which
may fail in the way the code takes it), one action per step of `Apply`, one per
failure, `BeginRollback` and the steps of `Rollback`, `Restart` for a process
that ends or is killed anywhere, and the changes that others make to the host
meanwhile.  A failing command may have done none, part or all of its work.
History variables (`since`, `born`) hold what the host was like when the verb
and the process began; no action's guard reads them.

### ManagedHost, Orchestrator, OrchestratorProofs

`ManagedHost` is the abstract promise: the host changes only while the process
writes or undoes; undoing takes away only what this process recorded.
`Orchestrator` is the code of `pkg/apply/orchestrator.go`, one action per step:

| Action | Code |
| --- | --- |
| `Begin`, `PlanManager`, `PlanFails`, `PlanReturns` | the loop of `Plan` (also of `Verify` and `Diff`, which read the host in the same order and change nothing) |
| `PlanOverlooks` | probes of a manager that fail and read as "not there" (`getent`, `rpm -q`, the probes of the disk manager): what exists is planned again |
| `BeginApplying`, `ManagerReturns`, `ApplyReturns` | the loop of `Apply`: take over the result, record what was applied, then look at the error |
| `DryRunManager`, `ApplySucceeds`, `ApplyFails`, `ProbeFails`, `ReloadFails` | one change of a manager's own `Apply` loop, in either of its two failure styles |
| `BeginRollback`, `UndoSkips`, `UndoSucceeds`, `UndoFails`, `RollbackNext`, `RollbackReturns` | `Rollback`, managers and changes backwards |
| `Restart` | the process ends or is killed at any point; the record is gone (as for `apply rollback` in a new process) |
| `Drift` | an administrator or another linuxctl makes or takes back one of the `Shared` changes (the proofs let it be any) |

The host is the set of changes in effect.  A change stands for one entry of
`PlanResult.ByManager`; for the package manager, whose `Apply` runs all
installs as one command, it stands for a batch.  The constants say of each
change what it needs, provides and hides, and of each manager which style it
has; they are what the managers differ in as far as the orchestrator can tell.
`Quiet` are the changes whose probe reads a failure as "not there", and the
history variable `missed` holds what this process was so misled about.  What it
was is planned, recorded when its command does not mind making it twice
(`mkdir -p`, `dnf install`; not the `Exclusive` ones, as `useradd`), and taken
away by Rollback although it was there before: `NothingOfOthersLost` says that
nothing else is.

### ClusterSSH, ClusterSSHProofs

One process per node of phase 1 (`Probe`, `Keygen`, `ReadPub`, `Lock`,
`AppendAndUnlock`) and the main goroutine (`Join`, `ReadAuth`, `WriteAuth`,
`Scan`, `ReadKnown`, `WriteKnown`, `Summary`).  The slice append is split into
its read (under `Lock`) and its write, so that dropping the mutex shows.  A
command that fails may leave a key pair half made or a file emptied; `Kill`
ends the process anywhere; `Rewrite` is `linuxctl apply` with declared keys.
The key files of an account are missing, half made (no `.pub`), with an empty
`.pub`, or whole.  `ReadPub` passes an empty one over without a word, as
`ensureKeypair` and its caller do, and `ReadAuth` takes a file it cannot read for
an empty one; `unread` remembers which, for the two properties that have to name
these losses (`TrustIsMutual`, `LossIsReported`).

### Disk, DiskProofs

`Seen` is what `discover` reports, `SeenAmiss` what it reports when one probe
fails, which `Plan` cannot tell from an empty host.  `Changes` is the plan,
`Works` and `Does` what LVM, mkfs and mount do with a command, `Undoes` the
rollback commands.  The root disk's entry is one that names a present device.
Sizes and a volume without a mount point are left out.  Plan knows a volume by
the name `vg/lv`, so entries of different groups share no volume: an assumption
on the constants.  `RetryConverges` speaks of manifests that can be had
(`Feasible`): the entries name different disks, different groups and different
volumes, their disks are there, and no volume holds another file system.  The hosts
an earlier hand left (`VolumeFound`) have no disk of the manifest in a foreign group.

### Accounts, AccountsProofs

Accounts, groups, homes, sudo rules and key files as functions of the users and
groups at hand.  `GroupAction`, `UserAction` and `userDrift` are the comparisons of
the user manager's Plan, `KeysChanges` the ssh manager's; `Changes` puts the five
lists together in the order `orderKey` gives them.  A change is a list of commands
(`useradd`, `usermod`, the keys, the sudo rule) taken one by one, so that a failure or
a kill finds an account half made.  A command that fails ends its change, and both
managers go on with the next change; Rollback runs `userdel` and `groupdel` backwards
(`UndoOf`), and each manager gives it up at the first command that fails.

`Coherent` says which manifests an Apply can settle: a uid that is declared is the
one the account has (no command changes it), declared supplementary groups name
the primary one (`id -nG` prints it), declared keys need a declared home, and a user
of both managers has the same keys in both, and some: where none are declared, a
home that `usermod -m` moves brings its old keys along.  `NewUsersRemoved` speaks of a Rollback that
undoes a single Apply or returns no error: a group that a *second* Apply created is
deleted first, and where it has meanwhile become the primary group of a user the
first one created, `groupdel` fails and ends the Rollback before `userdel` runs.

### HostsFile, HostsFileProofs

`/etc/hosts` is a sequence of lines, three of them special: the begin marker,
the end marker and what is in between.  `extractBlock` and `outsideBlock` are
the code's, including that the block begins at the *last* begin marker and ends
at the *first* end marker.  `ApplyReads` and `ApplyWrites` are two steps, for
others edit in between; a write that fails or is killed leaves some of the first
lines, so a later run meets a begin marker without its end.  `BodiesAssumption`
says what the file may look like when the first process starts: if a block ends,
it is the last thing marked and holds no line of others.  Whatever linuxctl, a
write that was cut off and edits around the block make of a file is such
(`WellMarked`, which the proofs show every step to keep); a file with two blocks
by another hand is not, and no Apply settles it.

### OwnedFile, OwnedFileProofs

The three managers that own a file as a whole, told apart by `kind`.  `file` is
the text, `live` what the kernel or sshd works with; `Write`, then `SysctlLoad`,
or `SshdTest`, `SshdRemove` and `SshdReload`.  `FirstValue` and `LastValue`
differ on purpose: Plan reads the last value of a directive, sshd takes the
first; the sshd that `Init` finds runs with a drop-in that it accepts and that
sets no key twice (`SetsOnce`), so that the values in effect are those of the file.
`stranded` remembers that the last Apply to touch the file could not write or
remove it, or was killed before it was done: only then may a drop-in stay that
sshd rejects (`DropInIsAccepted`).

### Mounts

The mount table is a sequence; `Place` resolves a path through the mounts over
it, which is how a mount comes to hide a directory or another mount.  `Stages`
lists the hosts that the commands of one change lead to, one after the other: a
change that works takes the last, one that breaks or is cut short any of them.
`MountFails` ends the Apply, `DirFails` does not.

### Firewall, FirewallProofs

`host.running` is what is in force and what Plan sees, `host.permanent` what
Apply and Rollback write; `InForce` makes the one the other when the service
starts, reloads or the host reboots.  The plan is a set, for Go hands out the
zones and rules of its maps in any order; the service's change comes first.
ufw has one set of rules for all zones, which Plan looks for in "default".  A
manifest that declares "default" without a rule that it declares in another zone
asks ufw for both to have and not to have it; `ZonesAgree` names what
`ApplySettles` therefore asks of a manifest for ufw.  No manifest of the run is
like that; the theorem covers those that are not.

### System

The package, selinux, network and service managers on one host, in the order the
orchestrator calls them.  `Changes` is the plan of all four, each from the same
host; `Stages` lists the hosts that the commands of one change lead to, as in
`Mounts`, and `Works` says whether they get there.  `Retries`, `ApplyFails` and
`UndoFails` are the ways a command can fail: against the lock of the package
database three attempts, to start or stop a unit two, otherwise one.

| Action | Code |
| --- | --- |
| `Plan`, `PlanFails` | the four `Plan`s; a query that is not answered reads as the code reads it, or ends the verb |
| `Succeeds`, `Retries`, `ApplyFails`, `Returns` | the loops of `Apply`, `runPackageOp`, `applyMode`, `applyOne` |
| `Rollback`, `Succeeds`, `UndoFails` | the four `Rollback`s backwards; packages and selinux give up at an error, network and services go on |
| `Restart`, `Reboot` | the process ends, is killed in the middle of a change, or the host goes down and comes up from what is stored |
| `SomebodyLocks`, `SomebodyUnlocks`, `SomebodyChanges` | another package tool, an administrator, NetworkManager |

The host keeps what is in force next to what is stored: `running` and `config`
for the mode, `transient` and `static` for the name, `active` and `file` for a
unit.  Packages need packages and bring units.  The orchestrator hands the
network manager nothing; it is modelled as a user of the Go package calls it.

### Presets

Operators without state: which preset a name stands for at the community tier
(all callers ask for that), what a bundle fills in, and how each category
merges.  A manifest is a record with a preset's name and an own list per
category; lists are functions from a path, key or name to the rest of the item,
packages two sets.

### Command, CommandProofs

One invocation, from its arguments to its exit code.  `stack` holds the
documents whose `LoadEnv` is in progress, `env` what the innermost has become.

| Action | Code |
| --- | --- |
| `ReadEnv`, `ResolveEnv`, `Overflow` | `LoadEnv` on the way down to the base, and on the way up: `$ref`, bundle, secrets, validation, `mergeEnv`; the call that finds no stack left |
| `LoadEnvFails`, `FallBack`, `FallBackFails` | `loadLinux` of `runtime.go`: any error, then the same file as a linux.yaml |
| `Render`, `Check` | `config render`, `config validate`, the validation of the dir command |
| `Open`, `DialFails`, `GivesUp`, `LoseSession` | `openSession` and `Dial`; a session that dies later |
| `PlanNext`, `PlanErrs`, `Tell`, `BeginApply` | planning per category, what the command says, where it asks for `--yes` |
| `ApplyNext`, `ApplyFails`, `ApplyReturns` | applying per category, and the exit code |

A manager is what it comes to between those ends: it plans the items in which
it sees a difference from the host, and carries them out; the other modules say
how.  What it sees is the manager's own comparison: of an account the id, the
shell, the groups and the keys (`InAccord`, for `userDrift` has no look at the
sudo rule), of the sysctl and limits files the text as a whole (`OwnedFiles`); and
a query that fails reads as "not there" (`blind`), or as an account without groups
or keys (`HalfSeen`).  What it makes is the command's: an account has its fields
set one after the other and its id never (`Changed`), an owned file has nothing
else in it (`Written`), `useradd` refuses an account that was overlooked
(`Refused`); and where a command fails, an account is left half made, a file
or directory half written, an owned file cut short (`LeftOver`).  The sudo rule
stands for the password and the primary group too, which are handled alike.  The
operators behind "What a stack means" (`Chain`, `MeantManifests`, `MeantItems`,
`Applied`) are a second reading of the same documents that does not load
anything: the first document of the chain that declares a manifest declares it,
and of each item the manifest's own version counts before the preset's.  The
properties compare the two.

What documents may be is said by four named assumptions: that files decode to
manifests and envelopes of the declared shape (`IsManifest`, a `$ref` excludes an
inline manifest, as in `readEnv`), that no key of a preset's user is a placeholder
and no secret stands for another placeholder (`DocumentsAssumption`); that no
preset both installs and removes a package (`CatalogueAssumption`, which the
embedded presets satisfy); and that only a package can be asked to be absent
(`PresenceAssumption`: the manifest has no such field elsewhere).

## Runs

| Run | Shows | Bounds |
| --- | --- | --- |
| `orchestrator` | the safety and liveness properties of the pipeline, and that it implements `ManagedHost` | 5 managers, 6 changes, 2 verbs per process, 1 fault, 1 drift of the package, the user or the unit (`Shared`), any number of restarts |
| `cluster_ssh` | mutual trust, nothing lost but to a failed write or read of that file, reruns change nothing, termination | 2 nodes, 2 accounts, 2 runs, 1 fault, 1 rewrite |
| `disk` | no data lost, rollback restores, a retry converges | 3 disks, 5 layouts, 2 volumes, 2 processes, 1 fault |
| `accounts` | others' accounts stay, recorded accounts are complete, coherent manifests settle | 1 user, 2 groups, 3 manifests, 3 hosts, 2 processes, 3 verbs, 1 fault, 1 edit |
| `hosts` | lines of others stay, Apply converges, Rollback restores, an Apply that writes the block warns of names shadowed | 2 processes, 3 verbs, 1 fault, 1 edit |
| `owned_file` | what Apply reports is in effect, Rollback restores, a rejected drop-in stays only where it could not be written or removed | 2 keys, 2 values, 3 manifests, 5 files, 2 processes, 3 verbs, 2 faults, 1 edit |
| `mounts` | found mounts stay, a clean Apply settles, Rollback uncovers | 2 nested points, 5 sources, 3 manifests, 3 hosts, 2 processes, 3 verbs, 1 fault, 1 mount by others |
| `mount_persistent` | (violation) a persistent mount never reaches fstab | the same |
| `firewall` | declared rules are in force, nothing else is opened, Rollback restores the permanent rules | 2 zones, a port and a source, every host, 3 manifests, 2 processes, 2 verbs, 1 fault, 1 change by others |
| `firewall_reload` | (violation) an Apply closes a declared rule | the same |
| `system` | two Applies settle a coherent manifest, Rollback restores, found packages stay, a reboot brings no drift, a verb returns though the lock is held for ever | 3 packages, 1 unit, 1 boolean, 6 manifests, 5 hosts, 2 processes, 2 verbs, 1 fault, 1 edit |
| `command` | the host changes only as the stack means it and with consent, claims of no drift and of success are true, what is rendered means the same, an invocation ends | 15 documents in 2 directories, 5 categories, 7 presets and 2 bundles in 3 tiers, 2 secrets, 3 hosts, 256 command lines, 4 documents open at a time, 1 fault |

Why these bounds are enough: two verbs are what a Rollback after an Apply, a
second Apply and a Verify after an Apply need, three what a Rollback of two
Applies needs; one fault puts a failure at every command in turn, two a failure
of the command that should have cleaned up after the first; one edit by others
falls between every two steps in turn; two processes are what a retry after a
kill needs; two nodes are enough for every race on the one slice, and two runs
for idempotence and recovery; two entries and three disks are what it takes for
two claims to meet or the pool to run dry; two nested points for one mount to
hide another; three packages for one that needs another and one that ships a
unit; four open documents for the longest chain in the two directories, so that
only the document that extends itself meets the bound.  `MaxVerbs`, `MaxFaults`, `MaxDrifts`, `MaxEdits`, `MaxRuns`,
`MaxRewrites` and `MaxDepth` are the only bounds, and each is named in the guard it limits.  All
modules but Orchestrator stop when their processes are used up, so their runs do
not check deadlock.

Every module defines `TypeOK`.  It is a property of the `orchestrator` run and a
theorem of `Orchestrator`, `ClusterSSH`, `Disk`, `Accounts`, `Firewall`, `OwnedFile` and
`HostsFile`; in
the other modules it says what shapes the variables have, and the runs are left
to the properties that could fail for a reason of the code.

## Fairness

Weak fairness of a verb's own steps (`Orchestrator`) and of every goroutine and
the main one (`ClusterSSH`).  The Go scheduler gives the latter; both assume
that a remote command returns, as the code does: `deadlineCtx` sets no
deadline and `SetupClusterSSH` gets `context.Background()`.  In `System` the steps
of a verb are fair, so that a command that meets the lock is tried again, but
the lock need never be released.  In `Command` every step of the invocation is:
a dial, a vault request or a remote command answers or fails.  No fairness is
assumed of users, restarts, kills, reboots, lost sessions, drift or failures.

## What is proved

Each `...Proofs` module stands alone: it begins with the facts about sequences it
needs (what `FlattenSeq` of the community modules consists of, what `Append`, `SubSeq`
and `\o` do to the elements, and that sequences put together keep an order their parts
have: `Founded`, every element comes after those it needs; `Apart`, none comes before
one it must not), and goes on to the types, the invariants and the theorems.

`OrchestratorProofs` holds for every number of managers, every set of changes
and effects, and without using the bounds:

* `TypeCorrect`: `Spec => []TypeOK`.
* `OthersAreSafe`: `Spec => []NothingOfOthersLost`.  The property is not
  inductive; what carries it is that, as long as nobody else acts, a planned,
  pending or recorded change was in effect when the process started only if a
  failed probe hid it (`Losable`, `MissInv`): planning takes what is missing on the
  host or was missed, a command that does not make a thing twice fails on what is
  there and is not recorded, and the host only grows from what the process found
  but for what was missed.
* `StopsAfterFailure`: `Spec => []FailureStopsTheRest`.  The invariant adds
  that during an Apply nothing of a manager whose turn has not come is in a
  result, and that a fail-fast manager with a failed change is about to return
  an error or was told to continue.
* `NothingUnsaid`: `Spec => []NoSilentChange`.  `AccountInv` follows each change
  from the plan through the result of its manager to the record: what a manager
  has carried out is in the record or in the result that is about to be taken
  over, and what is listed nowhere was not tried.  `SilentInv` compares the host
  of the moment with the one the verb began with.
* `RollbackTakesBack`: `Spec => []RollbackRestores`, provided that
  `NeedsComeFirst` (what a change stands on is planned before it, or its command fails
  on what exists) and `CompanionsStand` (what comes along with a change brings what it
  stands on along).  Without them the property is false: a change that finds what it
  needs because a third one brought it, and is followed by a manager that makes the same
  thing again, is in the way of that one's undo.  `OrderInv` says that of two recorded
  changes the one made first is planned first and neither needs nor brings the other, when
  that is one whose command fails on what exists; `StandInv` that nothing undoable is
  ever without what it stands on; so nothing that stands on the change Rollback comes to is
  left (`UndoAlwaysWorks`), and `BackInv` says which changes are gone and which are not.
  TLC checks that the effects of the run meet both conditions.  They are what the
  comment on `defaultOrder` claims of the managers.  One case of the real ones is outside
  them: a declared directory that an earlier manager's `useradd -m` brings along
  with a home below it.
* `HostPromiseKept`: every step of `Orchestrator` is a step of `ManagedHost`
  or a stutter under the refinement mapping.

`ClusterSSHProofs` holds for every number of nodes, list of accounts, choice of
existing accounts, and bound on runs, failures and rewrites:

* `TypeCorrect`: `Spec => []TypeOK`.
* `KeysStayHome`: `Spec => []NoForeignTrust`.  The invariant `OwnKeys` adds that
  the results of a goroutine name keys that exist, and that what phase 2 holds of
  a file belongs to the account whose file it is.
* `TrustIsEstablished`: `Spec => []TrustIsMutual`.  `HandIn` carries a result
  from the goroutine to the merge: who holds the mutex has seen all of the slice,
  who is done has its own in it, and every account it is past has a key in its
  results or an error.  `TrustGrows` then says of every file phase 2 is past what
  the property says of all of them at the end.
  That a key is left out without an error needs an empty `.pub`, and such a one
  is older than the run: `KeysKept` says that key files change only where there
  was none, and are then whole or come with an error (`Answered`).
* `LossesReported`: `Spec => []LossIsReported`.  `NothingLost` says it at every
  step of the run, of the files and of the buffer about to replace one, but for
  the accounts in `unread`.
* `RerunIsQuiet`: `Spec => []RerunChangesNothing`.  `Rerun` says that a clean run
  leaves every key made, every key merged and every peer seeded (`Settled`), which
  rests on the two invariants before, and that the run after it then writes what
  it has read.

The last four need the order of the node list only in that a set of nodes has a
first one (`FirstNode`), which is where `NextNode` goes.

`DiskProofs` holds for every set of disks, groups, volumes, layouts and
manifests:

* `TypeCorrect`: `Spec => []TypeOK`, which says that members of groups are
  physical volumes and only volumes are mounted.
* `FoundKept`: `Spec => []FoundIsKept`.  `KeptInv` says of every planned and every
  recorded change that what it makes was not on the host the process found, so
  that its undoing can take nothing found away; of fstab, as long as no probe
  failed.
* `DataSafe`: `Spec => []DataKept`.  As long as no probe of this process failed,
  a planned pvcreate is for a disk of the manifest without a signature, and a
  planned mkfs for a volume without a file system or one the manifest names.
* `RollbackTakesBack`: `Spec => []RollbackRestores`.  `RestoreInv` says that a
  process nothing disturbed has recorded exactly what differs from the host it
  found, each change once (`EachAlone`) and each after those it stands on
  (`InOrder`); undoing the newest change leads back to the host before it
  (`HostSince`).
* `RetrySucceeds`: `Spec => []RetryConverges`.  The layout is taken apart into the
  changes it may need (`Wanted`), which of them must come before which (`Needs`) and
  which must not (`Wrong`).  `LayoutPlans` shows of the nested, flattened and
  conditional lists `Changes` is made of that they hold exactly what the host lacks,
  in such an order (`Plans`).  `ConvergeInv` keeps that of the plan (`PlanFits`), and of
  every host that a disk of an explicit layout is in its entry's group or in none and
  that what is mounted has the file system it should (`InPlace`); with `RestoreInv` it
  follows that no command Apply reaches can fail by itself (`WorksWhenReached`).

`AccountsProofs` holds for every set of users, groups, homes, keys, manifests and
hosts, and any orders of groups and users:

* `AccountsType`: `Spec => []TypeOK`.  `Shape` says more than the types: what is left
  to do and what is recorded are changes the manifest may ask for (`Due`), those of
  each manager in its own record.
* `OnlyOwnAccountsGo`: `Spec => OthersAccountsKept`.  `Made`: whoever is recorded as
  created, is being created or is to be removed was made by this process.
* `RecordedAccountsAreComplete`: `Spec => []RecordedIsComplete`.  `Complete` follows every
  command of the record and those already run of the change at hand; no later command
  takes away what an earlier one made (`HeldStays`).
* `AppliesSettle`: `Spec => []CoherentApplySettles`.  `Settling`: while an Apply succeeds,
  each declared group, user and key file is as declared or a change for it is
  still to come, and no command of another change unsettles it (`StaysSettled`), which is where
  each clause of `Coherent` is used.
* `NewUsersGo`: `Spec => []NewUsersRemoved`.  `Recording` says that a new user is in the
  record or being made, `Distinct` that none is recorded twice, `Ordered` that a first Apply
  has its groups before its users, and `Undoing` that a Rollback then has a removal in
  store for each new user and runs nothing before it that could end it (`Misplaced`).

`FirewallProofs` holds for every set of zones, ports, sources and manifests:

* `TypeCorrect`: `Spec => []TypeOK`.
* `Settles`: `Spec => []ApplySettles`.  `OnCourse` says of a clean Apply at every
  step that each declared rule is stored or still to be added, that each rule to
  go is no longer stored or still to be removed, that no two changes to come touch
  the same rule (which on ufw is what `ZonesAgree` is for), and that what Plan
  did not see is what was stored only.
* `RollbackTakesBack`: `Spec => []RollbackRestores`.  `OnRecord` says that a stored
  rule is as the process found it or a recorded change that still stands names
  it, and that every recorded change turns a rule away from what was found, so
  that undoing it cannot do harm twice.  It holds across several Applies because
  the stored and the running rules stay between what was found and what is
  declared (`Between`).

`OwnedFileProofs` holds for every set of keys, values, files and manifests:

* `TypeCorrect`: `Spec => []TypeOK`.
* `NoRejectedDropIn`: `Spec => []DropInIsAccepted`.  `DropInInv` says of each place
  in the verb whether the file may be one that sshd rejects: only between the write
  and the end of the test or rm, or where it is `stranded`.
* `AppliesInEffect`: `Spec => []AppliedIsInEffect`.  `EffectInv` says that past the
  write the file is what was rendered, which sets each declared key once and
  nothing else (the lemmas on `FlattenSeq`); `SshdInv` that a running
  sshd that nobody went behind has the values of its drop-in.
* `RollbackTakesBack`: `Spec => []RollbackRestores`.  `RecordInv` says that the
  oldest entry of a clean process's record is the file it found, and that
  Rollback puts it back last.

`HostsFileProofs` holds for every set of lines, blocks, shadowing lines and first
files:

* `TypeCorrect`: `Spec => []TypeOK`.
* `OthersStay`: `Spec => []OthersKept`.  A file that is well marked is what stands
  before the block, the block and what stands behind it (`Sandwich`); cutting it
  off, adding a line around the block and dropping a line that is no marker keep it
  so (`CutMarked`, `AddMarked`, `DropMarked`), and `MergeShape` says what `mergeHosts`
  makes of the outside of one.  `LinesKept` adds that what was read and not raced
  still has the lines of others.  `OtherLines` distributes over concatenation
  (`OtherLinesConcat`), which takes a least counterexample.
* `Converges`: `Spec => []ApplyConverges`.  `FreshPlan` says that a plan nobody
  edited the file under is about what was read; `MergeResolves` that what
  `findConflict` does not find is not there after the block has moved to the end.
  Of an Apply whose plan was empty the theorem says that the block is as declared,
  and nothing of lines that shadow it.
* `RollbackTakesBack`: `Spec => []RollbackRestores`.  `WayBack` says that the oldest
  recorded change carries the block the process found and that Rollback is always
  back at the block of the change it undid last, between the same text.

`CommandProofs` holds for every catalogue, list, set of documents, command lines,
hosts, secrets and depth:

* `MergeAgain`: merging a preset into what a merge with it gave changes nothing,
  in every category.  For packages, where a name may be on both lists of one or
  both sides, that is the case analysis behind `PackagesAgain`; for users it
  rests on what is filled in being no longer open.
* `RenderAgain`: what `config render` puts together renders to itself.
* `RenderKeepsMeaning`: `Spec => []RenderedMeansTheSame`.  `MergeTogether` shows of
  every category that the items of a merged list are the items of both sides put
  together, the own ones first (`Together`), and `PlainStays` that a list without
  placeholders is left alone; so what `Rendered` gives means what it was made of,
  and is its own rendering.
* `OnlyAsMeant`: `Spec => []HostOnlyAsMeant`, in four layers.  `Opened` follows
  `LoadEnv`: the documents on the stack are the first of the chain, and what is
  in hand of the innermost fits what the nearest declaring document below says,
  whether its inline manifest is still as written or resolved already (`Fits`).  That
  a manifest is resolved twice on its way to an heir does no harm is `DoneShape`.
  `InHand` says that what reaches the host is empty or the meant manifest with its
  bundle and secrets (`HandOf`), `DesiredIsMeant` that a command then wants what
  the documents mean, and `Kept` that each item of the host is as found, as
  wanted field by field, or half-made with a failure counted (`Follows` and `Moves`
  say so of one category that is carried out, wholly or in part; `Planned` what
  any plan consists of).
* `ClaimsHold`: `Spec => []ClaimsAreTrue`.  `Carried` adds what has been planned and
  applied so far: what is not planned of a category was in accord, as far as the
  manager compares and its queries were answered, and past its turn all of it is as
  claimed (`AsClaimed`).  A plan made without a
  session leaves nothing out that is wanted, since only packages can be wanted
  absent and planning them fails without one.  That every key is wanted with one
  value (`OneValue`) is where `Contradictory` comes in.
* `ConsentNeeded`: `Spec => []OnlyWithConsent`, the first conjunct of
  `HostOnlyAsMeant`.  The invariant `Asked` adds that nothing is planned before
  a command that asks at once has asked, and nothing applied before one that
  asks after planning has.  It needs of `CommandAssumption` only that the verb
  apply belongs to the commands that have one.

The assumptions are those named on the constants, which TLC evaluates on every
run of the module: a change belongs to one manager, effects are sets of
changes, no key line of others is a cluster key, no outside host a node, entries of
different groups share no volume, "no value" of an account is not a value and "no file" not
a file, the groups, the users and the keys are sequences, the markers are
lines of their own and a file is well marked at first, and those on documents and
presets that the section on `Command` explains.

## Only model-checked

Liveness (`VerbReturns`, `SetupReturns`, `InvocationEnds` and that of `System`:
liveness under fairness is beyond the prover).  The properties of `Mounts` and
`System` have no proof.  Those that depend on the order of the managers' effects
(`CleanApplySettles`, `RollbackUncovers`, `SecondApplySettles` and `System`'s `RollbackRestores`) would
need, like `RollbackRestores` of the Orchestrator, conditions on packages, units
and nested mount points that say which of them can be had at once; the runs check
them for those at hand.  No module uses a recursive operator; where a property
speaks of a fold or a flattened sequence, a lemma takes a least counterexample, for the
library's induction over data takes an operator as a parameter, which the
provers cannot instantiate.

## Where the code and its documents differ

The two violation runs, each with the line it contradicts in `PROJECT.json`.
Met while modelling, and not run:

* Orchestrator.  "On error, it stops unless ContinueOnError" holds for managers
  that return their error; those that collect failures and return none do not
  stop it.  `applied` is "the changes we applied in the last successful Apply",
  but grows over every Apply and is never cleared.  `docs/architecture.md`
  promises an automatic rollback on failure and an order computed from
  `DependsOn`; there is neither.  "After `Apply()`, `Verify()` MUST return zero
changes" (`docs/user-guide.md`), but `defaultOrder` has dir before mount, so a
mount can hide the directory that was just made.  It hands sysctl and limits their explicit lists
  only, past the presets, and the network manager nothing.  Rollback does not leave
  all that was there: a failed `getent`, `rpm -q` or `blkid` reads as "not there",
  the thing is planned and recorded again, and Rollback removes what the process
  found.
* Cluster SSH.  `setup-cluster` returns no error when a node cannot be dialed.  A
  failed read of known_hosts counts as an empty file, which is then written over
  the entries it had, though the comment says it "appends".  A failed read of
  authorized_keys counts as an empty file as well (`2>/dev/null || true`), whose keys
  are then overwritten without an error.  An empty `.pub`, as a broken `ssh-keygen`
  leaves it, is passed over: its key is trusted nowhere, and no error says so.
* Disk.  A tagged entry claims another raw disk on every plan, so a host that is
  done still has a change to make, and the disk that one entry names may be the
  one another's tag was resolved to.  The comment "never reshapes" does not hold
  when blkid fails.  A failed read of fstab makes Rollback delete a line that was
  there before, a failed `pvs` makes it remove a free physical volume.
* Accounts.  `userdel` leaves `/etc/sudoers.d/<user>` behind.  A manifest that lists a user's supplementary groups drifts for ever,
  for `id -nG` prints the primary group too.  A sudo rule is said to be checked
  "before placement", and is placed first.  The ssh manager reads and writes
  `/home/<user>` wherever the home is.
* Hosts.  "A warning is surfaced when a desired hostname would collide with a
  non-managed entry" (`hosts.go:24`): only by an Apply that changes the block, for
  Plan returns before it looks when the block is up to date.  "The managed block is authoritative because the resolver reads
  /etc/hosts top-to-bottom": `mergeHosts` puts the block last.  The file is
  "rewritten atomically" with a backup, by the manual; the code truncates it and
  keeps none.  A write that was cut off leaves lines of the block that no later
  run takes for its own, and a file with two whole blocks never converges.
* Sysctl, limits, sshd.  "Rewrites it atomically" is a shell redirect; after a
  `sysctl -p` that failed, the file is there and no Rollback knows of it; the
  manual has Rollback restore the drop-in, the code removes it.  A kill between
  the write and `sshd -t`, or a write that fails half way and returns without
  either, leaves a rejected drop-in that the next Plan takes for right.  A sysctl
  or limits file loses every entry that is not declared when one that is differs.
* Mounts.  A bind mount is never recognised (findmnt names the device), so every
  Apply stacks one more; every Apply with a CIFS share has a change to make, and
  Rollback of a later process removes credentials that an earlier mount still
  needs; directories declared child first do not all go.
* Firewall.  The manual has Plan read the permanent rules, the code reads the
  running ones; Rollback does not reload.  A zone of ufw other than "default" is
  written and never seen.
* Packages.  The comment on the retry says "once", the loop makes three attempts;
  the distribution guide has zypper's error 106 retried after a refresh, the code
  does not.  An error of the query reads as "not installed", so Rollback removes a
  package that was there.  What a package brought along stays after its removal,
  and a manifest that removes a package and lists its unit never settles.
* SELinux.  The manager reference names `getenforce` as the probe, the code reads
  the configuration file first.  Where that says a mode and SELinux is disabled in
  the running host, `setenforce` fails before the file is written, so no Apply
  settles until the reboot.
* Network.  A name given to the running host alone is no drift and is lost with
  the reboot.  An unreadable resolv.conf reads as empty, and Rollback writes that.
  The `network` command is a stub.
* Loader.  Placeholders of a linux.yaml given itself are not resolved, which the
  comment at `runtime.go:86` says they are.  Every error of an env.yaml (the vault,
  an inline manifest without a kind, a user who joins a group that only the preset
  brings) ends in an empty manifest: apply does nothing, verify says OK, and the
  exit code is 0; the dir command alone returns an error.  A `$ref` that was
  inherited is looked up next to the heir, though the comment says "relative to
  the env file's directory".  A document that extends itself ends in a stack
  overflow.  The documents write `{{ vault: }}`, the code reads `${vault:}`.
  `EffectiveSpec` and `HostsByName` have no caller.
* Presets.  Presets for sysctl and limits are rendered by `config render` and
  applied by no command; the package and user commands leave presets out.  The
  check that a preset exists, promised of `config validate`, does not exist.  A
  sudo rule of a preset is not filled in.  Every embedded preset is of the
  community tier.
* Command line.  `verify` says "OK — no drift" with a declared sudo rule, password
  or primary group missing, for `userDrift` compares none of them; a uid that
  differs is planned and reported as applied in every run, though no command
  changes one; a package to be removed whose `rpm -q` fails is taken for gone.
  `diff` and `verify` exit with 0 on drift, against the user guide
  and the quick start.  An apply whose changes failed exits with 0, except by the
  dir command, which in turn applies without `--yes`.  `FileExists` says "no" on
  any error, so a plan without a session lists everything.

## Plan

1. Proofs: `System` (`FoundPackagesKept`) and `Mounts` (`FoundMountsKept`), each from
   its `TypeOK`.
2. The file writes of `HostsFile` and `OwnedFile` shown to be what a session does.
3. The stacks registry with its migration.

## Not modelled

The license gate and the state database do nothing apply relies on; the vault
client is one HTTP request; the manifest schema is declarations; the command
line beyond the commands in `Command`, `Orchestrator` and `ClusterSSH` prints,
or runs the body that `package` and `user` run; the documentation generator and
the version are build tooling.
