----------------------------- MODULE ClusterSSH -----------------------------
(***************************************************************************)
(* SetupClusterSSH of pkg/managers/ssh_auth.go, behind "linuxctl ssh       *)
(* setup-cluster": one goroutine per node makes the service accounts' keys *)
(* and reads the public ones; when all have finished, the main goroutine   *)
(* merges the keys into every authorized_keys and seeds known_hosts, node  *)
(* after node.  A command may fail, a write may leave its file cut short,  *)
(* the process may be killed and run again, and another actor may rewrite  *)
(* an authorized_keys file at any time.                                    *)
(*                                                                         *)
(* A node is known by its position in the sorted node list.  A key line is *)
(* a pair <<node, user>> or one of Others; key files are "none", "half"    *)
(* (a private key without its .pub), "empty" (one with an empty .pub) or   *)
(* "whole".                                                                *)
(***************************************************************************)
EXTENDS Naturals, Sequences, SequencesExt

CONSTANTS
  N,          \* number of nodes
  Users,      \* --user: the accounts to cross-authorize, in order
  Hosted,     \* which <<node, user>> pairs may be the existing accounts
  Found,      \* which key files the first run may find
  Others,     \* key lines that are no cluster key
  Outside,    \* hosts outside the cluster that known_hosts files already list
  MaxRuns,    \* bound: runs of the command
  MaxFaults,  \* bound: commands that fail for an outside reason
  MaxRewrites \* bound: authorized_keys rewritten by another actor

Node == 1 .. N
User == ToSet(Users)
Key  == (Node \X User) \union Others
KeyFiles == {"none", "half", "empty", "whole"}

ASSUME ClusterAssumption ==
  /\ N \in Nat \ {0}
  /\ Users # <<>> /\ Users \in Seq(User)
  /\ Hosted \subseteq SUBSET (Node \X User) /\ Hosted # {}
  /\ Found \subseteq [Node -> [User -> KeyFiles]]
  /\ Others \cap (Node \X User) = {}
  /\ Outside \cap Node = {}
  /\ MaxRuns \in Nat /\ MaxFaults \in Nat /\ MaxRewrites \in Nat

VARIABLES
  accounts,  \* the <<node, user>> pairs whose account exists
  key,       \* key[n][u]: u's id_ed25519 files on n
  auth,      \* auth[n][u]: the key lines of u's authorized_keys on n
  known,     \* known[n][u]: the hosts u's known_hosts on n has an entry for
  reached,   \* the nodes with a session
  main,      \* where the main goroutine is
  gpc,       \* gpc[n]: where the goroutine of node n is
  turn,      \* turn[n]: the index in Users of the account it is working on
  pubs,      \* pubs[n]: the users whose public key it has read
  mu,        \* the goroutine that holds the mutex, 0 if none
  seen,      \* seen[n]: the results it found when it took the mutex
  out,       \* the goroutines whose results have been collected
  minted,    \* GeneratedKeys: the <<node, user>> pairs reported as generated
  at,        \* the node phase 2 is at
  who,       \* the index in Users phase 2 is at
  buf,       \* what phase 2 has read from the file it is about to write
  scan,      \* the peers that answered ssh-keyscan on node at
  errs,      \* Result.Errors, as <<step, node, user>>
  ret,       \* what the command returned: "none" if it has not
  runs, faults, rewrites,
  before,    \* history: the files, faults and rewrites when the run began, the run before it
  unread     \* history: the accounts whose authorized_keys this run could not read

files   == <<key, auth, known>>
workers == <<gpc, turn, pubs, mu, seen, out, minted>>
merge   == <<at, who, buf, scan>>
counts  == <<runs, faults, rewrites>>
history == <<before, unread>>
vars    == <<accounts, files, reached, main, workers, merge, errs, ret, counts, history>>

Each(x)    == [n \in Node |-> x]

Init ==
  /\ accounts \in Hosted
  /\ \E old \in Found :
       key = [n \in Node |-> [u \in User |-> IF <<n, u>> \in accounts THEN old[n][u] ELSE "none"]]
  /\ auth = [n \in Node |-> [u \in User |-> IF <<n, u>> \in accounts THEN Others ELSE {}]]
  /\ known = [n \in Node |-> [u \in User |-> IF <<n, u>> \in accounts THEN Outside ELSE {}]]
  /\ reached = {} /\ main = "idle" /\ gpc = Each("off") /\ turn = Each(1)
  /\ pubs = Each({}) /\ mu = 0 /\ seen = Each({}) /\ out = {} /\ minted = {}
  /\ at = 1 /\ who = 1 /\ buf = {} /\ scan = {}
  /\ errs = {} /\ ret = "none" /\ runs = 0 /\ faults = 0 /\ rewrites = 0
  /\ before = [key |-> key, auth |-> auth, known |-> known, faults |-> 0,
               rewrites |-> 0, clean |-> FALSE]
  /\ unread = {}

\* The memory of a process that has ended.
Forget ==
  /\ turn' = Each(1) /\ pubs' = Each({}) /\ mu' = 0 /\ seen' = Each({}) /\ out' = {}
  /\ gpc' = Each("off") /\ at' = 1 /\ who' = 1 /\ buf' = {} /\ scan' = {}

\* One command of a session does not do what it should.
Fault == faults < MaxFaults /\ faults' = faults + 1

----------------------------------------------------------------------------
(* Dialing: nodes that cannot be reached are left out, unless none can be. *)

Clean == ret = "ok" /\ reached = Node /\ faults = before.faults /\ rewrites = before.rewrites

Dial ==
  /\ main = "idle" /\ runs < MaxRuns
  /\ runs' = runs + 1
  /\ reached' \in SUBSET Node
  /\ IF reached' = Node THEN UNCHANGED faults ELSE Fault
  /\ IF reached' = {}
       THEN main' = "idle" /\ gpc' = Each("off") /\ ret' = "error"
       ELSE /\ main' = "waiting" /\ ret' = "none"
            /\ gpc' = [n \in Node |-> IF n \in reached' THEN "probe" ELSE "off"]
  /\ minted' = {} /\ errs' = {}
  /\ before' = [key |-> key, auth |-> auth, known |-> known, faults |-> faults',
                rewrites |-> rewrites, clean |-> Clean]
  /\ unread' = {}
  /\ UNCHANGED <<accounts, files, turn, pubs, mu, seen, out, merge, rewrites>>

----------------------------------------------------------------------------
(* Phase 1: one goroutine per node, one account after the other. *)

AccountOf(n) == Users[turn[n]]

\* The goroutine goes on to its next account, or to hand in its results.
NextAccount(n) ==
  /\ turn' = [turn EXCEPT ![n] = @ + 1]
  /\ gpc' = [gpc EXCEPT ![n] = IF turn[n] < Len(Users) THEN "probe" ELSE "finish"]

AccountFails(n) ==
  /\ errs' = errs \union {<<"key", n, AccountOf(n)>>}
  /\ NextAccount(n)

\* The errors of an account are kept with the goroutine's other results; they
\* are added here at once, for nothing reads them before every goroutine is done.
Probe(n) ==
  /\ gpc[n] = "probe"
  /\ \/ /\ gpc' = [gpc EXCEPT ![n] = IF key[n][AccountOf(n)] = "none" THEN "keygen" ELSE "read"]
        /\ UNCHANGED <<turn, errs, faults>>
     \/ Fault /\ AccountFails(n)
  /\ UNCHANGED <<accounts, files, reached, main, pubs, mu, seen, out, minted, merge, ret,
                 runs, rewrites, history>>

\* install, ssh-keygen, chown and chmod, then the fingerprint, which may be
\* missing without an error.  ssh-keygen does not overwrite a key.
Keygen(n) ==
  LET u == AccountOf(n)
      Files(k) == key' = [key EXCEPT ![n][u] = k]
  IN
  /\ gpc[n] = "keygen"
  /\ \/ /\ <<n, u>> \in accounts /\ key[n][u] = "none"
        /\ Files("whole")
        /\ gpc' = [gpc EXCEPT ![n] = "read"]
        /\ \/ minted' = minted \union {<<n, u>>} /\ UNCHANGED faults
           \/ Fault /\ UNCHANGED minted
        /\ UNCHANGED <<turn, errs>>
     \/ /\ <<n, u>> \in accounts /\ key[n][u] = "none" /\ Fault
        /\ \E k \in KeyFiles : Files(k)
        /\ AccountFails(n) /\ UNCHANGED minted
     \/ /\ <<n, u>> \notin accounts \/ key[n][u] # "none"
        /\ AccountFails(n) /\ UNCHANGED <<key, minted, faults>>
  /\ UNCHANGED <<accounts, auth, known, reached, main, pubs, mu, seen, out, merge, ret,
                 runs, rewrites, history>>

\* Where there is no .pub, cat fails; an empty one is read without an error,
\* and left out of the results.
ReadPub(n) ==
  /\ gpc[n] = "read"
  /\ \/ /\ key[n][AccountOf(n)] = "whole"
        /\ pubs' = [pubs EXCEPT ![n] = @ \union {AccountOf(n)}]
        /\ NextAccount(n) /\ UNCHANGED <<errs, faults>>
     \/ /\ key[n][AccountOf(n)] = "empty"
        /\ NextAccount(n) /\ UNCHANGED <<pubs, errs, faults>>
     \/ /\ IF key[n][AccountOf(n)] \in {"whole", "empty"} THEN Fault ELSE UNCHANGED faults
        /\ AccountFails(n) /\ UNCHANGED pubs
  /\ UNCHANGED <<accounts, files, reached, main, mu, seen, out, minted, merge, ret,
                 runs, rewrites, history>>

\* Mutant: no mutex around the append to the shared slice.
LockForgotten(n) ==
  /\ gpc[n] = "finish"
  /\ seen' = [seen EXCEPT ![n] = out]
  /\ gpc' = [gpc EXCEPT ![n] = "locked"]
  /\ UNCHANGED <<accounts, files, reached, main, turn, pubs, mu, out, minted, merge, errs, ret,
                 counts, history>>

\* out = append(out, p) reads the slice and writes it back: the mutex is what
\* keeps another goroutine from doing the same in between.
Lock(n) ==
  /\ gpc[n] = "finish" /\ mu = 0
  /\ mu' = n
  /\ seen' = [seen EXCEPT ![n] = out]
  /\ gpc' = [gpc EXCEPT ![n] = "locked"]
  /\ UNCHANGED <<accounts, files, reached, main, turn, pubs, out, minted, merge, errs, ret,
                 counts, history>>

\* Mutant: an early return between Lock and Unlock.
UnlockForgotten(n) ==
  /\ gpc[n] = "locked"
  /\ out' = seen[n] \union {n}
  /\ gpc' = [gpc EXCEPT ![n] = "done"]
  /\ UNCHANGED <<accounts, files, reached, main, turn, pubs, mu, seen, minted, merge, errs, ret,
                 counts, history>>

AppendAndUnlock(n) ==
  /\ gpc[n] = "locked"
  /\ out' = seen[n] \union {n}
  /\ mu' = 0 /\ seen' = [seen EXCEPT ![n] = {}]
  /\ gpc' = [gpc EXCEPT ![n] = "done"]
  /\ UNCHANGED <<accounts, files, reached, main, turn, pubs, minted, merge, errs, ret,
                 counts, history>>

Work(n) == Probe(n) \/ Keygen(n) \/ ReadPub(n) \/ Lock(n) \/ AppendAndUnlock(n)

----------------------------------------------------------------------------
(* Phase 2: the main goroutine, over the reached nodes in order. *)

\* Mutant: the merge starts as soon as one goroutine has handed in its results.
JoinAtFirst ==
  /\ main = "waiting" /\ out # {}
  /\ main' = "readAuth"
  /\ at' = CHOOSE n \in reached : \A m \in reached : n <= m
  /\ who' = 1 /\ buf' = {} /\ scan' = {}
  /\ UNCHANGED <<accounts, files, reached, workers, errs, ret, counts, history>>

\* wg.Wait.
Join ==
  /\ main = "waiting"
  /\ \A n \in reached : gpc[n] = "done"
  /\ main' = "readAuth"
  /\ at' = CHOOSE n \in reached : \A m \in reached : n <= m
  /\ who' = 1 /\ buf' = {} /\ scan' = {}
  /\ UNCHANGED <<accounts, files, reached, workers, errs, ret, counts, history>>

\* Mutant: the keys of all accounts are collected in one list.
PubsOfAll(u) == {k \in out \X User : k[2] \in pubs[k[1]]}

PubsByUser(u) == {<<m, u>> : m \in {n \in out : u \in pubs[n]}}

\* From the last account's authorized_keys to the scan, from the scan's last
\* account to the next node, after the last node to the summary.
NextAuth ==
  IF who < Len(Users)
    THEN main' = "readAuth" /\ who' = who + 1
    ELSE main' = "scan" /\ who' = 1

NextNode ==
  LET rest == {n \in reached : n > at}
  IN  /\ IF rest = {}
           THEN main' = "summary" /\ UNCHANGED at
           ELSE main' = "readAuth" /\ at' = CHOOSE n \in rest : \A m \in rest : n <= m
      /\ who' = 1

NextKnown ==
  IF who < Len(Users)
    THEN main' = "readKnown" /\ who' = who + 1 /\ UNCHANGED at
    ELSE NextNode

AuthFails ==
  /\ errs' = errs \union {<<"auth", at, Users[who]>>}
  /\ NextAuth

\* A missing file reads as an empty one, and so does one that cat cannot read:
\* only the loss of the session is an error here.
ReadAuth ==
  /\ main = "readAuth"
  /\ \/ /\ buf' = auth[at][Users[who]]
        /\ main' = "writeAuth"
        /\ UNCHANGED <<who, errs, faults, unread>>
     \/ /\ Fault /\ buf' = {}
        /\ main' = "writeAuth"
        /\ unread' = unread \union {<<at, Users[who]>>}
        /\ UNCHANGED <<who, errs>>
     \/ Fault /\ AuthFails /\ UNCHANGED <<buf, unread>>
  /\ UNCHANGED <<accounts, files, reached, workers, at, scan, ret, runs, rewrites, before>>

\* Mutant: the file is written with the cluster's keys alone.
ClusterKeys(u) == PubsByUser(u)

MergedKeys(u) == buf \union PubsByUser(u)

\* tee empties the file before it writes: a write that fails leaves the old
\* content, none, or the new one (chown or chmod failed).
WriteAuth ==
  LET u == Users[who]
      merged == MergedKeys(u)
  IN
  /\ main = "writeAuth"
  /\ \/ /\ <<at, u>> \in accounts
        /\ auth' = [auth EXCEPT ![at][u] = merged]
        /\ NextAuth /\ UNCHANGED <<errs, faults>>
     \/ /\ <<at, u>> \in accounts /\ Fault
        /\ \E left \in {auth[at][u], {}, merged} : auth' = [auth EXCEPT ![at][u] = left]
        /\ AuthFails
     \/ /\ <<at, u>> \notin accounts
        /\ AuthFails /\ UNCHANGED <<auth, faults>>
  /\ UNCHANGED <<accounts, key, known, reached, workers, at, buf, scan, ret, runs, rewrites, history>>

KnownFails ==
  /\ errs' = errs \union {<<"known", at, Users[who]>>}
  /\ NextNode

\* Peers that do not answer are left out of the output, without an error.
Scan ==
  /\ main = "scan"
  /\ LET peers == reached \ {at} IN
     \/ /\ peers = {}
        /\ NextNode /\ UNCHANGED <<scan, errs, faults>>
     \/ /\ peers # {}
        /\ scan' \in SUBSET peers
        /\ IF scan' = peers THEN UNCHANGED faults ELSE Fault
        /\ IF scan' = {} THEN NextNode ELSE main' = "readKnown" /\ UNCHANGED <<at, who>>
        /\ UNCHANGED errs
     \/ peers # {} /\ Fault /\ KnownFails /\ UNCHANGED scan
  /\ UNCHANGED <<accounts, files, reached, workers, buf, ret, runs, rewrites, history>>

\* The error of this read is dropped: the file then counts as empty.
ReadKnown ==
  /\ main = "readKnown"
  /\ main' = "writeKnown"
  /\ \/ buf' = known[at][Users[who]] /\ UNCHANGED faults
     \/ Fault /\ buf' = {}
  /\ UNCHANGED <<accounts, files, reached, workers, at, who, scan, errs, ret, runs, rewrites, history>>

\* The first account whose file cannot be written ends the node's turn.
WriteKnown ==
  LET u == Users[who]
      merged == buf \union scan
  IN
  /\ main = "writeKnown"
  /\ \/ /\ <<at, u>> \in accounts
        /\ known' = [known EXCEPT ![at][u] = merged]
        /\ NextKnown /\ UNCHANGED <<errs, faults>>
     \/ /\ <<at, u>> \in accounts /\ Fault
        /\ \E left \in {known[at][u], {}, merged} : known' = [known EXCEPT ![at][u] = left]
        /\ KnownFails
     \/ /\ <<at, u>> \notin accounts
        /\ KnownFails /\ UNCHANGED <<known, faults>>
  /\ UNCHANGED <<accounts, key, auth, reached, workers, buf, scan, ret, runs, rewrites, history>>

Summary ==
  /\ main = "summary"
  /\ main' = "idle"
  /\ ret' = IF errs = {} THEN "ok" ELSE "error"
  /\ Forget
  /\ UNCHANGED <<accounts, files, reached, minted, errs, counts, history>>

Merge == Join \/ ReadAuth \/ WriteAuth \/ Scan \/ ReadKnown \/ WriteKnown \/ Summary

----------------------------------------------------------------------------

\* The process is killed.  What a command under way leaves of its work is what
\* it leaves when it fails just before.
Kill ==
  /\ main # "idle"
  /\ main' = "idle" /\ ret' = "none" /\ reached' = {} /\ errs' = {} /\ minted' = {}
  /\ Forget
  /\ UNCHANGED <<accounts, files, counts, history>>

\* Another actor, such as "linuxctl apply" with declared ssh_keys, replaces a file.
Rewrite(n, u) ==
  /\ rewrites < MaxRewrites /\ <<n, u>> \in accounts
  /\ rewrites' = rewrites + 1
  /\ auth' = [auth EXCEPT ![n][u] = Others]
  /\ UNCHANGED <<accounts, key, known, reached, main, workers, merge, errs, ret, runs, faults, history>>

Next ==
  \/ Dial
  \/ \E n \in Node : Work(n)
  \/ Merge
  \/ Kill
  \/ \E n \in Node, u \in User : Rewrite(n, u)

\* Every goroutine is scheduled, provided that its commands return.
Fairness == WF_vars(Merge) /\ \A n \in Node : WF_vars(Work(n))

Spec == Init /\ [][Next]_vars /\ Fairness

----------------------------------------------------------------------------
(* Properties. *)

\* The variables keep their shapes, and the indices stay on nodes and accounts.
TypeOK ==
  /\ accounts \subseteq Node \X User
  /\ key \in [Node -> [User -> KeyFiles]]
  /\ auth \in [Node -> [User -> SUBSET Key]]
  /\ known \in [Node -> [User -> SUBSET (Node \union Outside)]]
  /\ reached \subseteq Node
  /\ main \in {"idle", "waiting", "readAuth", "writeAuth", "scan", "readKnown", "writeKnown", "summary"}
  /\ gpc \in [Node -> {"off", "probe", "keygen", "read", "finish", "locked", "done"}]
  /\ turn \in [Node -> 1 .. Len(Users) + 1] /\ pubs \in [Node -> SUBSET User]
  /\ \A n \in Node : gpc[n] \in {"probe", "keygen", "read"} => turn[n] <= Len(Users)
  /\ mu \in 0 .. N /\ seen \in [Node -> SUBSET Node] /\ out \subseteq Node
  /\ minted \subseteq Node \X User
  /\ at \in Node /\ who \in 1 .. Len(Users) /\ scan \subseteq Node
  /\ main = "writeAuth" => buf \subseteq Key
  /\ main = "writeKnown" => buf \subseteq Node \union Outside
  /\ errs \subseteq {"key", "auth", "known"} \X Node \X User
  /\ ret \in {"none", "ok", "error"}
  /\ runs \in Nat /\ faults \in Nat /\ rewrites \in Nat
  /\ unread \subseteq Node \X User

Returned == main = "idle" /\ ret # "none"
Undisturbed == rewrites = before.rewrites

\* When the command returns, an account trusts the key of every reached node
\* unless an error names that key or that authorized_keys: one goroutine's
\* result is never lost, and one node's failure never costs the others theirs.
\* Nothing names a key whose public half was already empty when the run began.
TrustIsMutual ==
  Returned /\ Undisturbed =>
    \A n, m \in reached, u \in User :
      \/ <<"key", m, u>> \in errs
      \/ <<"auth", n, u>> \in errs
      \/ before.key[m][u] = "empty"
      \/ <<m, u>> \in auth[n][u]

\* No interleaving, failure or rerun authorizes a key for another account than
\* its own, or one that does not exist with its public half.
NoForeignTrust ==
  \A n, m \in Node, u, v \in User :
    <<m, v>> \in auth[n][u] => v = u /\ key[m][v] = "whole"

\* A key line that was in an authorized_keys file when a run began and is gone
\* when the command returns, though nobody else touched the file, is lost to a
\* failed write, which the command reported, or to a failed read of that very
\* file, which it did not: no other step of the merge drops a line.
LossIsReported ==
  Returned /\ Undisturbed =>
    \A n \in Node, u \in User :
      \/ before.auth[n][u] \subseteq auth[n][u]
      \/ <<"auth", n, u>> \in errs
      \/ <<n, u>> \in unread

\* "Idempotent: re-running yields no drift": after a run on all nodes without a
\* failure, a second one changes no file, at whatever step it is looked at.
RerunChangesNothing ==
  before.clean /\ Undisturbed /\ faults = before.faults =>
    key = before.key /\ auth = before.auth /\ known = before.known

\* The command comes to an end: every goroutine gets the mutex and is waited for.
SetupReturns == main # "idle" ~> main = "idle"
=============================================================================
