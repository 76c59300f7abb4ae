--------------------------- MODULE ClusterSSHProofs ---------------------------
(***************************************************************************)
(* What holds of SetupClusterSSH on every cluster: any number of nodes,    *)
(* accounts, runs, failures and rewrites by others, whichever accounts     *)
(* exist.                                                                  *)
(***************************************************************************)
EXTENDS ClusterSSH, SequenceTheorems, WellFoundedInduction, TLAPS

\* Where the main goroutine is in phase 2.
Merging == {"readAuth", "writeAuth", "scan", "readKnown", "writeKnown", "summary"}

\* The type invariant in parts: what is on the nodes,
FilesOK ==
  /\ accounts \subseteq Node \X User
  /\ key \in [Node -> [User -> KeyFiles]]
  /\ auth \in [Node -> [User -> SUBSET Key]]
  /\ known \in [Node -> [User -> SUBSET (Node \union Outside)]]

\* the goroutines, all at their start between two runs,
WorkersOK ==
  /\ gpc \in [Node -> {"off", "probe", "keygen", "read", "finish", "locked", "done"}]
  /\ turn \in [Node -> 1 .. Len(Users) + 1]
  /\ \A n \in Node : gpc[n] \in {"probe", "keygen", "read"} => turn[n] <= Len(Users)
  /\ pubs \in [Node -> SUBSET User]
  /\ minted \subseteq Node \X User
  /\ main = "idle" => turn = Each(1) /\ gpc = Each("off")

\* the mutex and the slice it guards,
MutexOK == mu \in 0 .. N /\ seen \in [Node -> SUBSET Node] /\ out \subseteq Node

\* the main goroutine, which has nodes to work on while a run is under way,
MainOK ==
  /\ reached \subseteq Node /\ (main # "idle" => reached # {})
  /\ main \in {"idle", "waiting", "readAuth", "writeAuth", "scan", "readKnown", "writeKnown", "summary"}
  /\ at \in Node /\ who \in 1 .. Len(Users) /\ scan \subseteq Node
  /\ main = "writeAuth" => buf \subseteq Key
  /\ main = "writeKnown" => buf \subseteq Node \union Outside

\* the errors and counters,
CountsOK ==
  /\ errs \subseteq {"key", "auth", "known"} \X Node \X User
  /\ ret \in {"none", "ok", "error"}
  /\ runs \in Nat /\ faults \in Nat /\ rewrites \in Nat
  /\ unread \subseteq Node \X User

\* and what was noted when the run began.
BeforeOK ==
  /\ before \in [key : [Node -> [User -> KeyFiles]],
                 auth : [Node -> [User -> SUBSET Key]],
                 known : [Node -> [User -> SUBSET (Node \union Outside)]],
                 faults : Nat, rewrites : Nat, clean : BOOLEAN]
  /\ before.faults <= faults /\ before.rewrites <= rewrites

\* All of the types.
Typed == FilesOK /\ WorkersOK /\ MutexOK /\ MainOK /\ CountsOK /\ BeforeOK

\* A key file changes in a run only where there was none, to a whole one or with an error.
KeyKept(n, u) ==
  \/ key[n][u] = before.key[n][u]
  \/ before.key[n][u] = "none" /\ (key[n][u] = "whole" \/ <<"key", n, u>> \in errs)

\* That is so from the start of a run until the next one or a kill.
KeysKept == main # "idle" \/ ret # "none" => \A n \in Node, u \in User : KeyKept(n, u)

\* A goroutine is past an account when it has its key or has reported why not, or
\* when the public half was empty from the start.
Answered(n, i) ==
  \/ Users[i] \in pubs[n]
  \/ <<"key", n, Users[i]>> \in errs
  \/ before.key[n][Users[i]] = "empty"

\* What was found or reported in phase 1 is there in phase 2.
HandIn ==
  /\ \A n \in Node : gpc[n] = "locked" => mu = n /\ seen[n] = out
  /\ \A n \in Node : gpc[n] = "done" => n \in out
  /\ \A n \in Node : gpc[n] \in {"finish", "locked", "done"} => turn[n] = Len(Users) + 1
  /\ \A n \in Node, i \in 1 .. Len(Users) : i < turn[n] => Answered(n, i)
  /\ main \in Merging => at \in reached /\ \A n \in reached : gpc[n] = "done"
  /\ main = "summary" => \A n \in reached : n <= at
  /\ main = "scan" => who = 1
  /\ main \in {"readKnown", "writeKnown"} => scan \subseteq reached \ {at}

\* Keys in the results, the buffer and the files belong to the account they are for.
OwnKeys ==
  /\ NoForeignTrust
  /\ \A n \in Node, u \in User : u \in pubs[n] => key[n][u] = "whole"
  /\ main = "writeAuth" =>
       \A m \in Node, v \in User : <<m, v>> \in buf => v = Users[who] /\ key[m][v] = "whole"

\* The accounts whose authorized_keys phase 2 is done with.
AuthPast(n, i) == n < at \/ (n = at /\ (main \in {"readAuth", "writeAuth"} => i < who))

\* Account u of node n trusts all reached nodes, as far as no error says otherwise
\* and the public halves were not empty from the start.
Trusts(n, u) ==
  \A m \in reached :
    \/ <<"key", m, u>> \in errs
    \/ <<"auth", n, u>> \in errs
    \/ before.key[m][u] = "empty"
    \/ <<m, u>> \in auth[n][u]

\* Phase 2 leaves trust behind it, file by file.
TrustGrows ==
  /\ TrustIsMutual
  /\ main \in Merging /\ Undisturbed =>
       \A n \in reached, i \in 1 .. Len(Users) : AuthPast(n, i) => Trusts(n, Users[i])

\* The lines are none the fewer for this run, or an error names their file, or it
\* could not be read.
Keeps(n, u, lines) ==
  \/ before.auth[n][u] \subseteq lines
  \/ <<"auth", n, u>> \in errs
  \/ <<n, u>> \in unread

\* Neither a file nor the buffer about to replace it has lost a line.
NothingLost ==
  /\ (main # "idle" \/ ret # "none") /\ Undisturbed => \A n \in Node, u \in User : Keeps(n, u, auth[n][u])
  /\ main = "writeAuth" /\ Undisturbed => Keeps(at, Users[who], buf)

\* What a run on all nodes without a failure leaves behind.
Settled(k, a, kn) ==
  \A n \in Node, u \in User :
    /\ k[n][u] \in {"whole", "empty"}
    /\ \A m \in Node : k[m][u] = "whole" => <<m, u>> \in a[n][u]
    /\ Node \ {n} \subseteq kn[n][u]

\* Nothing has gone wrong in this run.
Faultless == faults = before.faults /\ Undisturbed

\* The accounts whose known_hosts phase 2 is done with.
KnownPast(n, i) ==
  n < at \/ (n = at /\ (main = "summary" \/ (main \in {"readKnown", "writeKnown"} /\ i < who)))

\* How a clean run makes the next one idle: it seeds every peer, leaves all files
\* settled, and the next run then reads and writes the same.
Rerun ==
  /\ main \in Merging /\ Faultless /\ errs = {} =>
       /\ main \in {"readKnown", "writeKnown"} => scan = reached \ {at}
       /\ \A n \in reached, i \in 1 .. Len(Users) :
            KnownPast(n, i) => reached \ {n} \subseteq known[n][Users[i]]
  /\ main = "idle" /\ ret = "ok" => errs = {}
  /\ main = "idle" /\ Clean => Settled(key, auth, known)
  /\ before.clean => Settled(before.key, before.auth, before.known)
  /\ before.clean /\ Faultless =>
       /\ RerunChangesNothing
       /\ main = "writeAuth" => buf = auth[at][Users[who]]
       /\ main = "writeKnown" => buf = known[at][Users[who]]

----------------------------------------------------------------------------
(* The accounts, and the first of some nodes. *)

\* There is an account in every position of the list, and a position for every account.
LEMMA Positions ==
  /\ Len(Users) \in Nat \ {0} /\ DOMAIN Users = 1 .. Len(Users)
  /\ \A i \in 1 .. Len(Users) : Users[i] \in User
  /\ \A u \in User : \E i \in 1 .. Len(Users) : Users[i] = u
<1>1. Len(Users) \in Nat \ {0}
  BY EmptySeq, ClusterAssumption
<1>2. DOMAIN Users = 1 .. Len(Users)
  BY LenProperties, ClusterAssumption
<1>. QED
  BY <1>1, <1>2 DEF User, ToSet

\* Some nodes have a first one (the sorted order of names in SetupClusterSSH).
LEMMA FirstNode ==
  ASSUME NEW S \in SUBSET Node, S # {}
  PROVE  \E n \in S : \A m \in S : n <= m
<1>1. S \subseteq Nat
  BY ClusterAssumption DEF Node
<1>2. PICK n \in S : \A m \in S : <<m, n>> \notin OpToRel(<, Nat)
  BY <1>1, NatLessThanWellFounded, WFMin
<1>3. \A m \in S : ~ (m < n)
  BY <1>1, <1>2, Zenon DEF OpToRel
<1>. QED
  BY <1>1, <1>3

----------------------------------------------------------------------------
(* Which step changes what, and type correctness. *)

\* The program starts with every variable in shape.
LEMMA InitParts == Init => FilesOK /\ WorkersOK /\ MutexOK /\ MainOK /\ CountsOK
<1> SUFFICES ASSUME Init PROVE FilesOK /\ WorkersOK /\ MutexOK /\ MainOK /\ CountsOK
  OBVIOUS
<1> USE ClusterAssumption, Positions
<1>1. 1 \in Node /\ accounts \subseteq Node \X User
  BY DEF Init, Node
<1>2. FilesOK
  <2>1. PICK old \in Found :
          key = [n \in Node |-> [u \in User |-> IF <<n, u>> \in accounts THEN old[n][u] ELSE "none"]]
    BY Zenon DEF Init
  <2>2. old \in [Node -> [User -> KeyFiles]]
    BY <2>1
  <2>3. key \in [Node -> [User -> KeyFiles]]
    BY <2>1, <2>2 DEF KeyFiles
  <2>. QED
    BY <1>1, <2>3 DEF Init, FilesOK, Key
<1>3. WorkersOK /\ MutexOK
  BY DEF Init, WorkersOK, MutexOK, Each
<1>4. MainOK /\ CountsOK
  BY <1>1 DEF Init, MainOK, CountsOK
<1>. QED
  BY <1>2, <1>3, <1>4

\* Where phase 2 goes next keeps to the nodes and accounts.
LEMMA NextTypes ==
  ASSUME MainOK, NextAuth \/ NextNode \/ NextKnown, UNCHANGED reached,
         NextAuth => UNCHANGED at
  PROVE  /\ at' \in Node /\ who' \in 1 .. Len(Users)
         /\ main' \in {"readAuth", "scan", "summary", "readKnown"}
<1> USE ClusterAssumption, Positions DEF MainOK
<1>1. CASE NextAuth
  BY <1>1 DEF NextAuth
<1>2. CASE NextNode
  <2> DEFINE rest == {n \in reached : n > at}
  <2>1. CASE rest = {}
    BY <1>2, <2>1 DEF NextNode
  <2>2. CASE rest # {}
    <3>1. rest \in SUBSET Node
      OBVIOUS
    <3>2. \E n \in rest : \A m \in rest : n <= m
      BY <2>2, <3>1, FirstNode
    <3>. QED
      BY <1>2, <2>2, <3>1, <3>2 DEF NextNode
  <2>. QED
    BY <2>1, <2>2
<1>3. CASE NextKnown
  BY <1>2, <1>3 DEF NextKnown
<1>. QED
  BY <1>1, <1>2, <1>3

\* Which steps change what.
LEMMA Frame ==
  ASSUME [Next]_vars
  PROVE  /\ UNCHANGED accounts
         /\ UNCHANGED key \/ \E n \in Node : Keygen(n)
         /\ UNCHANGED auth \/ WriteAuth \/ \E n \in Node, u \in User : Rewrite(n, u)
         /\ UNCHANGED known \/ WriteKnown
         /\ UNCHANGED pubs \/ (\E n \in Node : ReadPub(n)) \/ Summary \/ Kill
         /\ UNCHANGED <<gpc, turn>> \/ Dial \/ (\E n \in Node : Work(n)) \/ Summary \/ Kill
         /\ UNCHANGED <<mu, seen, out>> \/ (\E n \in Node : Lock(n) \/ AppendAndUnlock(n)) \/ Summary \/ Kill
         /\ UNCHANGED minted \/ Dial \/ (\E n \in Node : Keygen(n)) \/ Kill
         /\ UNCHANGED reached \/ Dial \/ Kill
         /\ UNCHANGED main \/ Dial \/ Merge \/ Kill
         /\ UNCHANGED <<at, who, buf, scan>> \/ Merge \/ Kill
         /\ UNCHANGED ret \/ Dial \/ Summary \/ Kill
         /\ UNCHANGED before \/ Dial
         /\ UNCHANGED unread \/ Dial \/ ReadAuth
         /\ UNCHANGED rewrites \/ \E n \in Node, u \in User : Rewrite(n, u)
         /\ UNCHANGED runs \/ Dial
         /\ UNCHANGED faults \/ Fault
<1> USE DEF Next, Work, Merge, Dial, Probe, Keygen, ReadPub, Lock, AppendAndUnlock, Join, ReadAuth, WriteAuth,
            Scan, ReadKnown, WriteKnown, Summary, Kill, Rewrite, vars, files, workers, merge, counts, history
<1>1. UNCHANGED accounts
  BY Zenon
<1>2. UNCHANGED key \/ \E n \in Node : Keygen(n)
  BY Zenon
<1>3. UNCHANGED auth \/ WriteAuth \/ \E n \in Node, u \in User : Rewrite(n, u)
  BY Zenon
<1>4. UNCHANGED known \/ WriteKnown
  BY Zenon
<1>5. UNCHANGED pubs \/ (\E n \in Node : ReadPub(n)) \/ Summary \/ Kill
  BY Zenon
<1>6. UNCHANGED <<gpc, turn>> \/ Dial \/ (\E n \in Node : Work(n)) \/ Summary \/ Kill
  BY Zenon
<1>7. UNCHANGED <<mu, seen, out>> \/ (\E n \in Node : Lock(n) \/ AppendAndUnlock(n)) \/ Summary \/ Kill
  BY Zenon
<1>8. UNCHANGED minted \/ Dial \/ (\E n \in Node : Keygen(n)) \/ Kill
  BY Zenon
<1>9. UNCHANGED reached \/ Dial \/ Kill
  BY Zenon
<1>10. UNCHANGED main \/ Dial \/ Merge \/ Kill
  BY Zenon
<1>11. UNCHANGED <<at, who, buf, scan>> \/ Merge \/ Kill
  BY Zenon
<1>12. UNCHANGED ret \/ Dial \/ Summary \/ Kill
  BY Zenon
<1>13. UNCHANGED before \/ Dial
  BY Zenon
<1>14. UNCHANGED rewrites \/ \E n \in Node, u \in User : Rewrite(n, u)
  BY Zenon
<1>15. UNCHANGED runs \/ Dial
  BY Zenon
<1>16. UNCHANGED faults \/ Fault
  BY Zenon
<1>17. UNCHANGED unread \/ Dial \/ ReadAuth
  BY Zenon
<1>. QED
  BY <1>1, <1>2, <1>3, <1>4, <1>5, <1>6, <1>7, <1>8, <1>9, <1>10, <1>11, <1>12, <1>13, <1>14, <1>15, <1>16, <1>17

\* Errors are only added to, until the next run or the end of the process.
LEMMA ErrsGrow ==
  ASSUME [Next]_vars
  PROVE  \/ UNCHANGED errs
         \/ \E n \in Node : /\ gpc[n] \in {"probe", "keygen", "read"}
                            /\ errs' = errs \union {<<"key", n, AccountOf(n)>>}
         \/ (ReadAuth \/ WriteAuth) /\ errs' = errs \union {<<"auth", at, Users[who]>>}
         \/ (Scan \/ WriteKnown) /\ errs' = errs \union {<<"known", at, Users[who]>>}
         \/ (Dial \/ Kill) /\ errs' = {}
<1>1. ASSUME NEW n \in Node, Work(n)
      PROVE  \/ UNCHANGED errs
             \/ /\ gpc[n] \in {"probe", "keygen", "read"}
                /\ errs' = errs \union {<<"key", n, AccountOf(n)>>}
  BY <1>1 DEF Work, Probe, Keygen, ReadPub, Lock, AppendAndUnlock, AccountFails
<1>2. CASE Merge
  BY <1>2 DEF Merge, Join, ReadAuth, WriteAuth, AuthFails, Scan, ReadKnown, WriteKnown, KnownFails, Summary
<1>3. CASE Dial \/ Kill
  BY <1>3, Zenon DEF Dial, Kill
<1>4. CASE UNCHANGED vars \/ \E n \in Node, u \in User : Rewrite(n, u)
  BY <1>4, Zenon DEF vars, Rewrite
<1>. QED
  BY <1>1, <1>2, <1>3, <1>4, Zenon DEF Next

\* A key file is only ever written where there is none, and a failure to make a whole
\* one is reported.
LEMMA KeyStep ==
  ASSUME [Next]_vars
  PROVE  \/ key' = key
         \/ \E n \in Node, k \in KeyFiles :
              /\ gpc[n] = "keygen" /\ key[n][AccountOf(n)] = "none"
              /\ key' = [key EXCEPT ![n][AccountOf(n)] = k]
              /\ k = "whole" \/ <<"key", n, AccountOf(n)>> \in errs'
<1>1. ASSUME NEW n \in Node, Keygen(n)
      PROVE  \/ key' = key
             \/ \E k \in KeyFiles :
                  /\ gpc[n] = "keygen" /\ key[n][AccountOf(n)] = "none"
                  /\ key' = [key EXCEPT ![n][AccountOf(n)] = k]
                  /\ k = "whole" \/ <<"key", n, AccountOf(n)>> \in errs'
  BY <1>1 DEF Keygen, AccountFails, KeyFiles
<1>2. UNCHANGED key \/ \E n \in Node : Keygen(n)
  BY Frame, Zenon
<1>. QED
  BY <1>1, <1>2

\* The merge writes what it has merged, or reports that it could not.
LEMMA AuthStep ==
  ASSUME [Next]_vars
  PROVE  \/ auth' = auth
         \/ /\ main = "writeAuth"
            /\ \E left \in {auth[at][Users[who]], {}, MergedKeys(Users[who])} :
                 /\ auth' = [auth EXCEPT ![at][Users[who]] = left]
                 /\ \/ left = MergedKeys(Users[who])
                    \/ <<"auth", at, Users[who]>> \in errs' /\ Fault
         \/ /\ rewrites' = rewrites + 1
            /\ \E n \in Node, u \in User : auth' = [auth EXCEPT ![n][u] = Others]
<1>1. CASE WriteAuth
  BY <1>1 DEF WriteAuth, AuthFails
<1>2. ASSUME NEW n \in Node, NEW u \in User, Rewrite(n, u)
      PROVE  rewrites' = rewrites + 1 /\ auth' = [auth EXCEPT ![n][u] = Others]
  BY <1>2, Zenon DEF Rewrite
<1>3. UNCHANGED auth \/ WriteAuth \/ \E n \in Node, u \in User : Rewrite(n, u)
  BY Frame, Zenon
<1>. QED
  BY <1>1, <1>2, <1>3

\* A known_hosts file changes only where phase 2 writes one, and gets all of what was
\* merged unless the write fails.
LEMMA KnownStep ==
  ASSUME [Next]_vars
  PROVE  \/ known' = known
         \/ /\ main = "writeKnown"
            /\ \E left \in {known[at][Users[who]], {}, buf \union scan} :
                 /\ known' = [known EXCEPT ![at][Users[who]] = left]
                 /\ left = buf \union scan \/ Fault
<1>1. CASE WriteKnown
  BY <1>1 DEF WriteKnown
<1>2. UNCHANGED known \/ WriteKnown
  BY Frame, Zenon
<1>. QED
  BY <1>1, <1>2, Zenon

\* A public key is read where both halves are.
LEMMA PubsStep ==
  ASSUME [Next]_vars
  PROVE  \/ pubs' = pubs
         \/ pubs' = Each({})
         \/ \E n \in Node :
              /\ gpc[n] = "read" /\ key[n][AccountOf(n)] = "whole"
              /\ pubs' = [pubs EXCEPT ![n] = @ \union {AccountOf(n)}]
<1>1. ASSUME NEW n \in Node, ReadPub(n)
      PROVE  \/ pubs' = pubs
             \/ /\ gpc[n] = "read" /\ key[n][AccountOf(n)] = "whole"
                /\ pubs' = [pubs EXCEPT ![n] = @ \union {AccountOf(n)}]
  BY <1>1, Zenon DEF ReadPub
<1>2. CASE Summary \/ Kill
  BY <1>2, Zenon DEF Summary, Kill, Forget
<1>3. UNCHANGED pubs \/ (\E n \in Node : ReadPub(n)) \/ Summary \/ Kill
  BY Frame, Zenon
<1>. QED
  BY <1>1, <1>2, <1>3, Zenon

\* A goroutine goes on within an account, on to the next one, or through the mutex.
LEMMA WorkStep ==
  ASSUME NEW n \in Node, Work(n)
  PROVE  \/ /\ gpc[n] \in {"probe", "keygen", "read"} /\ NextAccount(n)
         \/ /\ UNCHANGED turn
            /\ \/ gpc[n] = "probe" /\ gpc' = [gpc EXCEPT ![n] = IF key[n][AccountOf(n)] = "none" THEN "keygen" ELSE "read"]
               \/ gpc[n] = "keygen" /\ gpc' = [gpc EXCEPT ![n] = "read"]
               \/ gpc[n] = "finish" /\ gpc' = [gpc EXCEPT ![n] = "locked"]
               \/ gpc[n] = "locked" /\ gpc' = [gpc EXCEPT ![n] = "done"]
<1>1. CASE Probe(n)
  BY <1>1, Zenon DEF Probe, AccountFails
<1>2. CASE Keygen(n)
  BY <1>2 DEF Keygen, AccountFails
<1>3. CASE ReadPub(n)
  BY <1>3 DEF ReadPub, AccountFails
<1>4. CASE Lock(n) \/ AppendAndUnlock(n)
  BY <1>4, Zenon DEF Lock, AppendAndUnlock
<1>. QED
  BY <1>1, <1>2, <1>3, <1>4, Zenon DEF Work

\* The type invariant, by files, goroutines, mutex, phase 2 and the rest.
LEMMA TypeParts == FilesOK /\ WorkersOK /\ MutexOK /\ MainOK /\ CountsOK => TypeOK
BY DEF TypeOK, FilesOK, WorkersOK, MutexOK, MainOK, CountsOK

\* A goroutine at work is at an account of the list.
LEMMA AccountType ==
  ASSUME WorkersOK, NEW n \in Node, gpc[n] \in {"probe", "keygen", "read"}
  PROVE  turn[n] \in 1 .. Len(Users) /\ AccountOf(n) \in User
<1>1. turn[n] \in 1 .. Len(Users)
  BY Positions DEF WorkersOK
<1>. QED
  BY <1>1, Positions DEF AccountOf

\* What phase 2 merges into authorized_keys are key lines.
LEMMA MergedType ==
  ASSUME MainOK, main = "writeAuth", WorkersOK, MutexOK
  PROVE  Users[who] \in User /\ MergedKeys(Users[who]) \subseteq Key
<1>1. Users[who] \in User
  BY Positions DEF MainOK
<1>2. PubsByUser(Users[who]) \subseteq Node \X User
  BY <1>1 DEF PubsByUser, MutexOK
<1>. QED
  BY <1>1, <1>2 DEF MergedKeys, MainOK, Key

\* Every step keeps the shape of the files on the nodes.
LEMMA StepFilesOK ==
  ASSUME FilesOK, WorkersOK, MutexOK, MainOK, [Next]_vars
  PROVE  FilesOK'
<1>1. UNCHANGED accounts
  BY Frame, Zenon
<1>2. key' \in [Node -> [User -> KeyFiles]]
  <2>1. ASSUME NEW n \in Node, NEW k \in KeyFiles, gpc[n] = "keygen",
               key' = [key EXCEPT ![n][AccountOf(n)] = k]
        PROVE  key' \in [Node -> [User -> KeyFiles]]
    BY <2>1, AccountType DEF FilesOK
  <2>. QED
    BY <2>1, KeyStep DEF FilesOK
<1>3. auth' \in [Node -> [User -> SUBSET Key]]
  <2>1. Others \subseteq Key
    BY DEF Key
  <2>2. ASSUME main = "writeAuth",
               NEW left \in {auth[at][Users[who]], {}, MergedKeys(Users[who])},
               auth' = [auth EXCEPT ![at][Users[who]] = left]
        PROVE  auth' \in [Node -> [User -> SUBSET Key]]
    <3>1. at \in Node /\ left \in SUBSET Key
      BY <2>2, MergedType DEF FilesOK, MainOK
    <3>. QED
      BY <2>2, <3>1, MergedType DEF FilesOK
  <2>3. ASSUME NEW n \in Node, NEW u \in User, auth' = [auth EXCEPT ![n][u] = Others]
        PROVE  auth' \in [Node -> [User -> SUBSET Key]]
    BY <2>1, <2>3 DEF FilesOK
  <2>. QED
    BY <2>1, <2>2, <2>3, AuthStep DEF FilesOK
<1>4. known' \in [Node -> [User -> SUBSET (Node \union Outside)]]
  <2>1. ASSUME main = "writeKnown", NEW left \in {known[at][Users[who]], {}, buf \union scan},
               known' = [known EXCEPT ![at][Users[who]] = left]
        PROVE  known' \in [Node -> [User -> SUBSET (Node \union Outside)]]
    <3>1. at \in Node /\ Users[who] \in User
      BY Positions DEF MainOK
    <3>2. left \in SUBSET (Node \union Outside)
      BY <2>1, <3>1 DEF FilesOK, MainOK
    <3>. QED
      BY <2>1, <3>1, <3>2 DEF FilesOK
  <2>. QED
    BY <2>1, KnownStep DEF FilesOK
<1>. QED
  BY <1>1, <1>2, <1>3, <1>4 DEF FilesOK

\* Every step keeps the goroutines at places and accounts there are.
LEMMA StepWorkersOK ==
  ASSUME WorkersOK, [Next]_vars
  PROVE  WorkersOK'
<1>1. pubs' \in [Node -> SUBSET User]
  BY PubsStep, AccountType DEF WorkersOK, Each
<1>2. minted' \subseteq Node \X User
  <2>1. ASSUME NEW n \in Node, Keygen(n) PROVE minted' \subseteq minted \union {<<n, AccountOf(n)>>} /\ gpc[n] = "keygen"
    BY <2>1 DEF Keygen
  <2>2. Dial \/ Kill => minted' = {}
    BY Zenon DEF Dial, Kill
  <2>3. UNCHANGED minted \/ Dial \/ (\E n \in Node : Keygen(n)) \/ Kill
    BY Frame, Zenon
  <2>. QED
    BY <2>1, <2>2, <2>3, AccountType DEF WorkersOK
<1>3. /\ gpc' \in [Node -> {"off", "probe", "keygen", "read", "finish", "locked", "done"}]
      /\ turn' \in [Node -> 1 .. Len(Users) + 1]
      /\ \A n \in Node : gpc'[n] \in {"probe", "keygen", "read"} => turn'[n] <= Len(Users)
  <2> USE Positions
  <2>1. CASE Dial
    <3>1. UNCHANGED turn /\ turn = Each(1)
      BY <2>1, Zenon DEF Dial, WorkersOK
    <3>2. gpc' = Each("off") \/ gpc' = [n \in Node |-> IF n \in reached' THEN "probe" ELSE "off"]
      BY <2>1, Zenon DEF Dial
    <3>. QED
      BY <3>1, <3>2 DEF WorkersOK, Each
  <2>2. CASE Summary \/ Kill
    <3>1. gpc' = Each("off") /\ turn' = Each(1)
      BY <2>2, Zenon DEF Summary, Kill, Forget
    <3>. QED
      BY <3>1 DEF Each
  <2>3. ASSUME NEW n \in Node, Work(n)
        PROVE  /\ gpc' \in [Node -> {"off", "probe", "keygen", "read", "finish", "locked", "done"}]
               /\ turn' \in [Node -> 1 .. Len(Users) + 1]
               /\ \A m \in Node : gpc'[m] \in {"probe", "keygen", "read"} => turn'[m] <= Len(Users)
    <3>1. CASE gpc[n] \in {"probe", "keygen", "read"} /\ NextAccount(n)
      BY <3>1, AccountType DEF NextAccount, WorkersOK
    <3>2. CASE UNCHANGED turn
      BY <2>3, <3>2, WorkStep, AccountType DEF WorkersOK, NextAccount
    <3>. QED
      BY <2>3, <3>1, <3>2, WorkStep, Zenon
  <2>4. UNCHANGED <<gpc, turn>> \/ Dial \/ (\E n \in Node : Work(n)) \/ Summary \/ Kill
    BY Frame, Zenon
  <2>. QED
    BY <2>1, <2>2, <2>3, <2>4 DEF WorkersOK
<1>4. ASSUME main' = "idle" PROVE turn' = Each(1) /\ gpc' = Each("off")
  <2>1. CASE Summary \/ Kill
    BY <2>1, Zenon DEF Summary, Kill, Forget
  <2>2. CASE Dial
    BY <1>4, <2>2 DEF Dial, WorkersOK
  <2>3. CASE UNCHANGED main
    <3>1. ASSUME NEW n \in Node, Work(n) PROVE FALSE
      BY <1>4, <2>3, <3>1, WorkStep DEF WorkersOK, Each
    <3>2. UNCHANGED <<gpc, turn>> \/ Dial \/ (\E n \in Node : Work(n)) \/ Summary \/ Kill
      BY Frame, Zenon
    <3>. QED
      BY <1>4, <2>1, <2>2, <2>3, <3>1, <3>2 DEF WorkersOK
  <2>4. CASE Merge /\ ~Summary
    BY <1>4, <2>4 DEF Merge, Join, ReadAuth, WriteAuth, AuthFails, NextAuth, Scan, ReadKnown, WriteKnown,
                      KnownFails, NextKnown, NextNode
  <2>. QED
    BY <2>1, <2>2, <2>3, <2>4, Frame, Zenon
<1>. QED
  BY <1>1, <1>2, <1>3, <1>4 DEF WorkersOK

\* Every step keeps the mutex and the slice of results in shape.
LEMMA StepMutexOK ==
  ASSUME MutexOK, [Next]_vars
  PROVE  MutexOK'
<1> USE ClusterAssumption DEF MutexOK, Node
<1>1. ASSUME NEW n \in Node, Lock(n) PROVE MutexOK'
  BY <1>1 DEF Lock
<1>2. ASSUME NEW n \in Node, AppendAndUnlock(n) PROVE MutexOK'
  BY <1>2 DEF AppendAndUnlock
<1>3. CASE Summary \/ Kill
  <2>1. mu' = 0 /\ seen' = Each({}) /\ out' = {}
    BY <1>3, Zenon DEF Summary, Kill, Forget
  <2>. QED
    BY <2>1 DEF Each
<1>4. UNCHANGED <<mu, seen, out>> \/ (\E n \in Node : Lock(n) \/ AppendAndUnlock(n)) \/ Summary \/ Kill
  BY Frame, Zenon
<1>. QED
  BY <1>1, <1>2, <1>3, <1>4

\* Every step keeps the main goroutine at a node and an account there are.
LEMMA StepMainOK ==
  ASSUME FilesOK, MainOK, [Next]_vars
  PROVE  MainOK'
<1> USE ClusterAssumption, Positions DEF MainOK
<1>1. CASE UNCHANGED <<reached, main, at, who, buf, scan>>
  BY <1>1
<1>2. CASE Dial
  <2>1. /\ UNCHANGED <<at, who, buf, scan>> /\ reached' \in SUBSET Node
        /\ main' = "idle" \/ (main' = "waiting" /\ reached' # {})
    BY <1>2, Zenon DEF Dial, merge
  <2>. QED
    BY <2>1
<1>3. CASE Join
  <2> DEFINE first == CHOOSE n \in reached : \A m \in reached : n <= m
  <2>1. at' = first /\ main' = "readAuth" /\ who' = 1 /\ scan' = {} /\ UNCHANGED reached
    BY <1>3, Zenon DEF Join
  <2>2. \E n \in reached : \A m \in reached : n <= m
    BY <1>3, FirstNode DEF Join
  <2>3. first \in reached
    BY <2>2
  <2>. QED
    BY <2>1, <2>3
<1>4. CASE ReadAuth
  BY <1>4 DEF ReadAuth, AuthFails, NextAuth, FilesOK
<1>5. CASE WriteAuth
  BY <1>5 DEF WriteAuth, AuthFails, NextAuth
<1>6. CASE Scan
  <2>1. main # "idle" /\ UNCHANGED <<reached, buf>> /\ scan' \subseteq Node
    BY <1>6 DEF Scan
  <2>2. NextNode \/ (main' = "readKnown" /\ UNCHANGED <<at, who>>)
    BY <1>6, Zenon DEF Scan, KnownFails
  <2>3. main' \notin {"writeAuth", "writeKnown"} /\ at' \in Node /\ who' \in 1 .. Len(Users)
          /\ main' \in {"readAuth", "scan", "summary", "readKnown"}
    <3>1. CASE NextNode
      BY <2>1, <3>1, NextTypes DEF NextNode, NextAuth
    <3>. QED
      BY <2>2, <3>1
  <2>. QED
    BY <2>1, <2>3
<1>7. CASE ReadKnown
  BY <1>7 DEF ReadKnown, FilesOK
<1>8. CASE WriteKnown
  <2>1. main # "idle" /\ UNCHANGED <<reached, buf, scan>>
    BY <1>8 DEF WriteKnown
  <2>2. NextNode \/ NextKnown
    BY <1>8, Zenon DEF WriteKnown, KnownFails
  <2>3. at' \in Node /\ who' \in 1 .. Len(Users) /\ main' \in {"readAuth", "scan", "summary", "readKnown"}
    BY <2>1, <2>2, NextTypes DEF NextNode, NextKnown, NextAuth
  <2>. QED
    BY <2>1, <2>3
<1>9. CASE Summary
  <2>1. UNCHANGED reached /\ main' = "idle" /\ at' = 1 /\ who' = 1 /\ scan' = {}
    BY <1>9, Zenon DEF Summary, Forget
  <2>. QED
    BY <2>1 DEF Node
<1>10. CASE Kill
  <2>1. reached' = {} /\ main' = "idle" /\ at' = 1 /\ who' = 1 /\ scan' = {}
    BY <1>10, Zenon DEF Kill, Forget
  <2>. QED
    BY <2>1 DEF Node
<1>11. /\ UNCHANGED reached \/ Dial \/ Kill
       /\ UNCHANGED main \/ Dial \/ Merge \/ Kill
       /\ UNCHANGED <<at, who, buf, scan>> \/ Merge \/ Kill
  BY Frame, Zenon
<1>. QED
  BY <1>1, <1>2, <1>3, <1>4, <1>5, <1>6, <1>7, <1>8, <1>9, <1>10, <1>11, Zenon DEF Merge

\* Every step keeps the errors, the returned value and the counters in shape.
LEMMA StepCountsOK ==
  ASSUME WorkersOK, MainOK, CountsOK, [Next]_vars
  PROVE  CountsOK'
<1> USE Positions
<1>1. ret' \in {"none", "ok", "error"}
  <2>1. UNCHANGED ret \/ Dial \/ Summary \/ Kill
    BY Frame, Zenon
  <2>. QED
    BY <2>1 DEF CountsOK, Dial, Summary, Kill
<1>2. faults' \in Nat /\ rewrites' \in Nat /\ runs' \in Nat
  <2>1. /\ UNCHANGED faults \/ Fault
        /\ UNCHANGED rewrites \/ \E n \in Node, u \in User : Rewrite(n, u)
        /\ UNCHANGED runs \/ Dial
    BY Frame, Zenon
  <2>2. (\E n \in Node, u \in User : Rewrite(n, u)) => rewrites' = rewrites + 1
    BY Zenon DEF Rewrite
  <2>3. Dial => runs' = runs + 1
    BY Zenon DEF Dial
  <2>. QED
    BY <2>1, <2>2, <2>3 DEF CountsOK, Fault
<1>3. errs' \subseteq {"key", "auth", "known"} \X Node \X User
  BY ErrsGrow, AccountType DEF CountsOK, MainOK
<1>4. unread' \subseteq Node \X User
  <2>1. Users[who] \in User /\ at \in Node
    BY DEF MainOK
  <2>2. ReadAuth => unread' \subseteq unread \union {<<at, Users[who]>>}
    BY DEF ReadAuth
  <2>3. Dial => unread' = {}
    BY Zenon DEF Dial
  <2>4. UNCHANGED unread \/ Dial \/ ReadAuth
    BY Frame, Zenon
  <2>. QED
    BY <2>1, <2>2, <2>3, <2>4 DEF CountsOK
<1>. QED
  BY <1>1, <1>2, <1>3, <1>4 DEF CountsOK

\* The parts of the type invariant are kept together.
LEMMA StepParts ==
  ASSUME FilesOK, WorkersOK, MutexOK, MainOK, CountsOK, [Next]_vars
  PROVE  FilesOK' /\ WorkersOK' /\ MutexOK' /\ MainOK' /\ CountsOK'
BY StepFilesOK, StepWorkersOK, StepMutexOK, StepMainOK, StepCountsOK

\* What was noted at the start of a run stays, until the next one starts.
LEMMA StepBeforeOK ==
  ASSUME FilesOK, CountsOK, BeforeOK, [Next]_vars
  PROVE  BeforeOK'
<1>1. /\ UNCHANGED before \/ Dial
      /\ UNCHANGED faults \/ Fault
      /\ UNCHANGED rewrites \/ \E n \in Node, u \in User : Rewrite(n, u)
  BY Frame, Zenon
<1>2. (\E n \in Node, u \in User : Rewrite(n, u)) => rewrites' = rewrites + 1
  BY Zenon DEF Rewrite
<1>3. CASE Dial
  <2>1. Clean \in BOOLEAN
    BY DEF Clean
  <2>2. before' = [key |-> key, auth |-> auth, known |-> known, faults |-> faults',
                   rewrites |-> rewrites, clean |-> Clean] /\ UNCHANGED rewrites
    BY <1>3, Zenon DEF Dial
  <2>. QED
    BY <1>1, <2>1, <2>2 DEF BeforeOK, FilesOK, CountsOK, Fault
<1>. QED
  BY <1>1, <1>2, <1>3 DEF BeforeOK, CountsOK, Fault

\* Every step keeps the types, the noted start of the run included.
LEMMA StepTyped == Typed /\ [Next]_vars => Typed'
BY StepFilesOK, StepWorkersOK, StepMutexOK, StepMainOK, StepCountsOK, StepBeforeOK DEF Typed

\* The program starts typed.
LEMMA InitTyped == Init => Typed
<1> SUFFICES ASSUME Init PROVE Typed
  OBVIOUS
<1>1. /\ before = [key |-> key, auth |-> auth, known |-> known, faults |-> 0, rewrites |-> 0, clean |-> FALSE]
      /\ faults = 0 /\ rewrites = 0
  BY Zenon DEF Init
<1>2. BeforeOK
  BY <1>1, InitParts DEF BeforeOK, FilesOK
<1>. QED
  BY <1>2, InitParts DEF Typed

\* Between two runs nothing happens to the command's own state.
LEMMA IdleStep ==
  ASSUME WorkersOK, main = "idle", [Next]_vars
  PROVE  Dial \/ UNCHANGED vars \/ \E n \in Node, u \in User : Rewrite(n, u)
<1>1. ~ \E n \in Node : Work(n)
  BY WorkStep DEF WorkersOK, Each
<1>2. ~ Merge /\ ~ Kill
  BY DEF Merge, Join, ReadAuth, WriteAuth, Scan, ReadKnown, WriteKnown, Summary, Kill
<1>. QED
  BY <1>1, <1>2, Zenon DEF Next

\* Errors reported in a run stay until it has returned.
LEMMA ErrsStay ==
  ASSUME main # "idle", [Next]_vars, ~ Kill
  PROVE  errs \subseteq errs'
<1>1. ~ Dial
  BY DEF Dial
<1>. QED
  BY <1>1, ErrsGrow

\* While a run is under way its nodes stay, and only the summary sets what it returns.
LEMMA RunGoesOn ==
  ASSUME main # "idle", [Next]_vars, ~ Kill
  PROVE  UNCHANGED <<reached, before>> /\ (UNCHANGED ret \/ Summary)
<1>1. ~ Dial
  BY DEF Dial
<1>. QED
  BY <1>1, Frame, Zenon

----------------------------------------------------------------------------
(* Key files that are there are left as they are. *)

\* No run has begun when the program starts.
LEMMA InitKeysKept == Init => KeysKept
BY DEF Init, KeysKept

\* Every step keeps the key files a run has found.
LEMMA StepKeysKept == Typed /\ KeysKept /\ [Next]_vars => KeysKept'
<1> SUFFICES ASSUME Typed, KeysKept, [Next]_vars PROVE KeysKept'
  OBVIOUS
<1> USE DEF Typed
<1>1. CASE Dial
  <2>1. key' = key /\ before'.key = key
    BY <1>1 DEF Dial, files
  <2>. QED
    BY <2>1 DEF KeysKept, KeyKept
<1>2. CASE Kill
  <2>1. main' = "idle" /\ ret' = "none"
    BY <1>2, Zenon DEF Kill
  <2>. QED
    BY <2>1 DEF KeysKept
<1>3. CASE UNCHANGED vars
  BY <1>3 DEF vars, files, history, KeysKept, KeyKept
<1>4. ASSUME NEW n \in Node, NEW u \in User, Rewrite(n, u) PROVE KeysKept'
  <2>1. UNCHANGED <<key, main, errs, ret, before>>
    BY <1>4, Zenon DEF Rewrite, history
  <2>. QED
    BY <2>1 DEF KeysKept, KeyKept
<1>5. ASSUME main # "idle", ~ Kill, NEW n \in Node, NEW u \in User PROVE KeyKept(n, u)'
  <2>1. errs \subseteq errs' /\ UNCHANGED before
    BY <1>5, ErrsStay, RunGoesOn
  <2>2. KeyKept(n, u)
    BY <1>5 DEF KeysKept
  <2>3. CASE key' = key
    BY <2>1, <2>2, <2>3 DEF KeyKept
  <2>4. ASSUME NEW m \in Node, NEW k \in KeyFiles, gpc[m] = "keygen", key[m][AccountOf(m)] = "none",
               key' = [key EXCEPT ![m][AccountOf(m)] = k],
               k = "whole" \/ <<"key", m, AccountOf(m)>> \in errs'
        PROVE  KeyKept(n, u)'
    <3>1. key'[n][u] = IF n = m /\ u = AccountOf(m) THEN k ELSE key[n][u]
      BY <2>4, AccountType DEF FilesOK
    <3>2. CASE n = m /\ u = AccountOf(m)
      <4>1. before.key[n][u] = "none"
        BY <2>2, <2>4, <3>2 DEF KeyKept
      <4>. QED
        BY <2>1, <2>4, <3>1, <3>2, <4>1 DEF KeyKept
    <3>3. CASE ~ (n = m /\ u = AccountOf(m))
      BY <2>1, <2>2, <3>1, <3>3 DEF KeyKept
    <3>. QED
      BY <3>2, <3>3
  <2>. QED
    BY <2>3, <2>4, KeyStep
<1>6. main # "idle" /\ ~ Kill => KeysKept'
  BY <1>5 DEF KeysKept
<1>. QED
  BY <1>1, <1>2, <1>3, <1>4, <1>6, IdleStep

----------------------------------------------------------------------------
(* Phase 1: no result is lost on the way through the mutex. *)

\* The holder of the mutex has seen every result so far, and who is done has its own there.
LEMMA StepLocks ==
  ASSUME Typed, HandIn, [Next]_vars
  PROVE  /\ \A n \in Node : gpc'[n] = "locked" => mu' = n /\ seen'[n] = out'
         /\ \A n \in Node : gpc'[n] = "done" => n \in out'
<1> USE DEF Typed, MutexOK, WorkersOK
<1>1. ASSUME NEW n \in Node, Lock(n)
      PROVE  /\ \A m \in Node : gpc'[m] = "locked" => mu' = m /\ seen'[m] = out'
             /\ \A m \in Node : gpc'[m] = "done" => m \in out'
  BY <1>1, ClusterAssumption DEF Lock, HandIn, Node
<1>2. ASSUME NEW n \in Node, AppendAndUnlock(n)
      PROVE  /\ \A m \in Node : gpc'[m] = "locked" => mu' = m /\ seen'[m] = out'
             /\ \A m \in Node : gpc'[m] = "done" => m \in out'
  BY <1>2 DEF AppendAndUnlock, HandIn
<1>3. CASE Summary \/ Kill
  <2>1. gpc' = Each("off")
    BY <1>3, Zenon DEF Summary, Kill, Forget
  <2>. QED
    BY <2>1 DEF Each
<1>4. CASE Dial
  <2>1. gpc' = Each("off") \/ gpc' = [n \in Node |-> IF n \in reached' THEN "probe" ELSE "off"]
    BY <1>4, Zenon DEF Dial
  <2>. QED
    BY <2>1 DEF Each
<1>5. ASSUME NEW n \in Node, Work(n), ~ Lock(n), ~ AppendAndUnlock(n), UNCHANGED <<mu, seen, out>>
      PROVE  \A m \in Node : /\ gpc'[m] = "locked" => gpc[m] = "locked"
                             /\ gpc'[m] = "done" => gpc[m] = "done"
  <2>1. Probe(n) \/ Keygen(n) \/ ReadPub(n)
    BY <1>5, Zenon DEF Work
  <2>2. gpc[n] \notin {"finish", "locked"}
    BY <2>1 DEF Probe, Keygen, ReadPub
  <2>. QED
    BY <1>5, <2>2, WorkStep DEF NextAccount
<1>6. /\ UNCHANGED <<gpc, turn>> \/ Dial \/ (\E n \in Node : Work(n)) \/ Summary \/ Kill
      /\ UNCHANGED <<mu, seen, out>> \/ (\E n \in Node : Lock(n) \/ AppendAndUnlock(n)) \/ Summary \/ Kill
  BY Frame, Zenon
<1>. QED
  BY <1>1, <1>2, <1>3, <1>4, <1>5, <1>6 DEF HandIn

\* Every account a goroutine is past has been answered for.
LEMMA StepAnswers ==
  ASSUME Typed, HandIn, KeysKept, [Next]_vars
  PROVE  /\ \A n \in Node : gpc'[n] \in {"finish", "locked", "done"} => turn'[n] = Len(Users) + 1
         /\ \A n \in Node, i \in 1 .. Len(Users) : i < turn'[n] => Answered(n, i)'
<1> DEFINE Finished == \A n \in Node : gpc'[n] \in {"finish", "locked", "done"} => turn'[n] = Len(Users) + 1
           Reported == \A n \in Node, i \in 1 .. Len(Users) : i < turn'[n] => Answered(n, i)'
<1> USE Positions DEF Typed
<1>1. CASE Summary \/ Kill
  <2>1. gpc' = Each("off") /\ turn' = Each(1)
    BY <1>1, Zenon DEF Summary, Kill, Forget
  <2>. QED
    BY <2>1 DEF Each
<1>2. CASE Dial
  <2>1. gpc' = Each("off") \/ gpc' = [n \in Node |-> IF n \in reached' THEN "probe" ELSE "off"]
    BY <1>2, Zenon DEF Dial
  <2>2. turn' = Each(1)
    BY <1>2, Zenon DEF Dial, WorkersOK
  <2>. QED
    BY <2>1, <2>2 DEF Each
<1>3. ASSUME ~ Dial, ~ Kill, ~ Summary
      PROVE  \A n \in Node, i \in 1 .. Len(Users) : Answered(n, i) => Answered(n, i)'
  <2>1. errs \subseteq errs'
    BY <1>3, ErrsGrow
  <2>2. \A n \in Node : pubs[n] \subseteq pubs'[n]
    <3>1. UNCHANGED pubs \/ \E n \in Node : ReadPub(n)
      BY <1>3, Frame, Zenon
    <3>2. ASSUME NEW n \in Node, ReadPub(n) PROVE UNCHANGED pubs \/ pubs' = [pubs EXCEPT ![n] = @ \union {AccountOf(n)}]
      BY <3>2, Zenon DEF ReadPub
    <3>. QED
      BY <3>1, <3>2 DEF WorkersOK
  <2>3. UNCHANGED before
    BY <1>3, Frame, Zenon
  <2>. QED
    BY <2>1, <2>2, <2>3 DEF Answered
<1>4. ASSUME NEW n \in Node, Work(n) PROVE Finished /\ Reported
  <2>0. ~ Dial /\ ~ Kill /\ ~ Summary
    <3>1. gpc[n] # "off" /\ main # "idle"
      BY <1>4, WorkStep DEF WorkersOK, Each
    <3>2. UNCHANGED main
      BY <1>4, Zenon DEF Work, Probe, Keygen, ReadPub, Lock, AppendAndUnlock
    <3>. QED
      BY <3>1, <3>2 DEF Dial, Kill, Summary
  <2>1. CASE NextAccount(n) /\ gpc[n] \in {"probe", "keygen", "read"}
    <3>1. turn[n] \in 1 .. Len(Users) /\ AccountOf(n) = Users[turn[n]]
      BY <2>1, AccountType DEF AccountOf
    <3>2. turn' = [turn EXCEPT ![n] = @ + 1] /\ Finished
      BY <2>1, <3>1 DEF NextAccount, WorkersOK, HandIn
    <3>3. ASSUME NEW j \in 1 .. Len(Users), j = turn[n] PROVE Answered(n, j)'
      <4>1. Probe(n) \/ Keygen(n) \/ ReadPub(n)
        BY <1>4, <2>1 DEF Work, Lock, AppendAndUnlock
      <4>2. turn'[n] = turn[n] + 1
        BY <3>2 DEF WorkersOK
      <4>3. \/ <<"key", n, AccountOf(n)>> \in errs' \/ (AccountOf(n) \in pubs'[n])
            \/ before'.key[n][AccountOf(n)] = "empty"
        <5>1. CASE Probe(n)
          <6>1. AccountFails(n) \/ UNCHANGED turn
            BY <5>1, Zenon DEF Probe
          <6>. QED
            BY <4>2, <6>1 DEF AccountFails, WorkersOK
        <5>2. CASE Keygen(n)
          <6>1. AccountFails(n) \/ UNCHANGED turn
            BY <5>2 DEF Keygen
          <6>. QED
            BY <4>2, <6>1 DEF AccountFails, WorkersOK
        <5>3. CASE ReadPub(n)
          <6>1. CASE key[n][AccountOf(n)] = "empty" /\ UNCHANGED errs
            <7>1. main # "idle" /\ AccountOf(n) \in User
              BY <2>1, AccountType DEF WorkersOK, Each
            <7>2. KeyKept(n, AccountOf(n))
              BY <7>1 DEF KeysKept
            <7>3. UNCHANGED before
              BY <2>0, Frame, Zenon
            <7>. QED
              BY <6>1, <7>2, <7>3 DEF KeyKept
          <6>2. CASE pubs' = [pubs EXCEPT ![n] = @ \union {AccountOf(n)}]
            BY <6>2 DEF WorkersOK
          <6>3. CASE AccountFails(n)
            BY <6>3 DEF AccountFails
          <6>. QED
            BY <5>3, <6>1, <6>2, <6>3, Zenon DEF ReadPub
        <5>. QED
          BY <4>1, <5>1, <5>2, <5>3
      <4>. QED
        BY <3>1, <3>3, <4>3 DEF Answered
    <3>4. ASSUME NEW m \in Node, NEW i \in 1 .. Len(Users), i < turn'[m] PROVE Answered(m, i)'
      <4>1. i < turn[m] \/ (m = n /\ i = turn[n])
        BY <3>1, <3>2, <3>4 DEF WorkersOK
      <4>2. CASE i < turn[m]
        BY <1>3, <2>0, <4>2 DEF HandIn
      <4>3. CASE m = n /\ i = turn[n]
        BY <3>3, <4>3
      <4>. QED
        BY <4>1, <4>2, <4>3
    <3>. QED
      BY <3>2, <3>4
  <2>2. CASE UNCHANGED turn
    <3>1. Reported
      BY <1>3, <2>0, <2>2 DEF HandIn
    <3>2. Finished
      BY <1>4, <2>2, WorkStep DEF HandIn, WorkersOK, NextAccount
    <3>. QED
      BY <3>1, <3>2
  <2>. QED
    BY <1>4, <2>1, <2>2, WorkStep, Zenon
<1>5. CASE UNCHANGED <<gpc, turn>> /\ ~ Dial /\ ~ Kill /\ ~ Summary
  BY <1>3, <1>5 DEF HandIn
<1>. QED
  BY <1>1, <1>2, <1>4, <1>5, Frame, Zenon

----------------------------------------------------------------------------
(* Phase 2: node after node. *)

\* The next node is the first one that is left, and there is none after the last.
LEMMA NextNodeMoves ==
  ASSUME MainOK, NextNode, UNCHANGED reached
  PROVE  /\ who' = 1
         /\ \/ main' = "summary" /\ at' = at /\ \A n \in reached : n <= at
            \/ /\ main' = "readAuth" /\ at' \in reached /\ at < at'
               /\ \A n \in reached : n < at' => n <= at
<1> DEFINE rest == {n \in reached : n > at}
           first == CHOOSE n \in rest : \A m \in rest : n <= m
<1> USE ClusterAssumption DEF MainOK, Node
<1>1. CASE rest = {}
  BY <1>1 DEF NextNode
<1>2. CASE rest # {}
  <2>1. \E n \in rest : \A m \in rest : n <= m
    BY <1>2, FirstNode
  <2>2. first \in rest /\ \A m \in rest : first <= m
    BY <2>1
  <2>3. who' = 1 /\ main' = "readAuth" /\ at' = first
    BY <1>2 DEF NextNode
  <2> HIDE DEF first
  <2>. QED
    BY <2>2, <2>3
<1>. QED
  BY <1>1, <1>2

\* The steps of phase 2, and what is behind phase 2 after them.
LEMMA MergeMoves ==
  ASSUME MainOK, Merge
  PROVE  \/ /\ Join /\ main' = "readAuth" /\ who' = 1 /\ at' \in reached /\ \A n \in reached : at' <= n
         \/ /\ ReadAuth /\ main' = "writeAuth" /\ UNCHANGED <<at, who>>
         \/ /\ ReadAuth \/ WriteAuth
            /\ NextAuth /\ UNCHANGED at
            /\ ReadAuth => <<"auth", at, Users[who]>> \in errs'
         \/ /\ main \in {"scan", "writeKnown"} /\ (Scan \/ WriteKnown) /\ UNCHANGED reached
            /\ NextNode
         \/ /\ Scan /\ main' = "readKnown" /\ UNCHANGED <<at, who>>
         \/ /\ ReadKnown /\ main' = "writeKnown" /\ UNCHANGED <<at, who>>
         \/ /\ WriteKnown /\ main' = "readKnown" /\ UNCHANGED at /\ who' = who + 1
         \/ Summary
<1>1. CASE Join
  <2> DEFINE first == CHOOSE n \in reached : \A m \in reached : n <= m
  <2>1. at' = first /\ main' = "readAuth" /\ who' = 1
    BY <1>1, Zenon DEF Join
  <2>2. \E n \in reached : \A m \in reached : n <= m
    BY <1>1, FirstNode DEF Join, MainOK
  <2>3. first \in reached /\ \A m \in reached : first <= m
    BY <2>2
  <2>. QED
    BY <1>1, <2>1, <2>3
<1>2. CASE ReadAuth
  BY <1>2 DEF ReadAuth, AuthFails
<1>3. CASE WriteAuth
  <2>1. NextAuth /\ UNCHANGED at /\ main = "writeAuth"
    BY <1>3 DEF WriteAuth, AuthFails
  <2>2. ~ ReadAuth
    BY <2>1 DEF ReadAuth
  <2>. QED
    BY <1>3, <2>1, <2>2
<1>4. CASE Scan
  BY <1>4 DEF Scan, KnownFails
<1>5. CASE ReadKnown
  BY <1>5 DEF ReadKnown
<1>6. CASE WriteKnown
  BY <1>6 DEF WriteKnown, KnownFails, NextKnown
<1>. QED
  BY <1>1, <1>2, <1>3, <1>4, <1>5, <1>6, Zenon DEF Merge

\* In phase 2 every reached node has handed in, and at is one of them.
LEMMA StepMerging ==
  ASSUME Typed, HandIn, [Next]_vars
  PROVE  /\ main' \in Merging => at' \in reached' /\ \A n \in reached' : gpc'[n] = "done"
         /\ main' = "summary" => \A n \in reached' : n <= at'
         /\ main' = "scan" => who' = 1
         /\ main' \in {"readKnown", "writeKnown"} => scan' \subseteq reached' \ {at'}
<1> USE DEF Typed
<1>1. ASSUME NEW n \in Node, Work(n)
      PROVE  \A m \in Node : gpc[m] = "done" => gpc'[m] = "done"
  BY <1>1, WorkStep DEF WorkersOK, NextAccount
<1>2. CASE UNCHANGED main /\ ~ Merge /\ ~ Dial /\ ~ Kill
  <2>1. UNCHANGED <<reached, at, who, scan>>
    BY <1>2, Frame, Zenon
  <2>2. \A m \in Node : gpc[m] = "done" => gpc'[m] = "done"
    <3>1. ~ Summary
      BY <1>2, Zenon DEF Merge
    <3>. QED
      BY <1>1, <1>2, <3>1, Frame, Zenon
  <2>. QED
    BY <1>2, <2>1, <2>2 DEF HandIn, MainOK
<1>3. CASE Dial \/ Kill
  <2>1. main' \in {"idle", "waiting"}
    BY <1>3, Zenon DEF Dial, Kill
  <2>. QED
    BY <2>1 DEF Merging
<1>4. CASE Merge
  <2>1. CASE Summary
    BY <2>1 DEF Summary, Merging
  <2>2. CASE ~ Summary
    <3>1. UNCHANGED <<reached, gpc>>
      BY <1>4, <2>2, Zenon DEF Merge, workers, Join, ReadAuth, WriteAuth, Scan, ReadKnown, WriteKnown
    <3>2. \A n \in reached : gpc[n] = "done"
      BY <1>4, <2>2 DEF Merge, HandIn, Merging, Join, ReadAuth, WriteAuth, Scan, ReadKnown, WriteKnown
    <3>3. ~ Join => main \in Merging
      BY <1>4, <2>2 DEF Merge, Merging, Join, ReadAuth, WriteAuth, Scan, ReadKnown, WriteKnown
    <3>4. at' \in reached /\ (main' = "summary" => \A n \in reached : n <= at')
      <4>1. CASE NextNode
        BY <3>1, <3>3, <4>1, NextNodeMoves DEF HandIn, Join
      <4>2. CASE ~ NextNode
        <5>1. main' # "summary" /\ (UNCHANGED at \/ at' \in reached)
          BY <1>4, <2>2, <4>2, MergeMoves DEF NextAuth
        <5>2. at' \in reached
          <6>1. CASE Join
            BY <6>1, MergeMoves DEF Merge, Join, ReadAuth, WriteAuth, Scan, ReadKnown, WriteKnown, Summary
          <6>2. CASE ~ Join
            BY <3>3, <5>1, <6>2 DEF HandIn
          <6>. QED
            BY <6>1, <6>2
        <5>. QED
          BY <5>1, <5>2
      <4>. QED
        BY <4>1, <4>2
    <3>5. main' \in {"readKnown", "writeKnown"} => scan' \subseteq reached \ {at'}
      <4>1. CASE Scan
        BY <4>1 DEF Scan, NextNode, KnownFails
      <4>2. CASE ReadKnown \/ WriteKnown
        <5>1. UNCHANGED scan /\ main \in {"readKnown", "writeKnown"}
          BY <4>2 DEF ReadKnown, WriteKnown
        <5>2. main' \in {"readKnown", "writeKnown"} => UNCHANGED at
          BY <4>2 DEF ReadKnown, WriteKnown, KnownFails, NextKnown, NextNode
        <5>. QED
          BY <5>1, <5>2 DEF HandIn
      <4>3. CASE Join \/ ReadAuth \/ WriteAuth
        BY <4>3 DEF Join, ReadAuth, WriteAuth, AuthFails, NextAuth
      <4>. QED
        BY <1>4, <2>2, <4>1, <4>2, <4>3 DEF Merge
    <3>6. main' = "scan" => who' = 1
      BY <1>4, <2>2 DEF Merge, Join, ReadAuth, WriteAuth, AuthFails, NextAuth, Scan, ReadKnown, WriteKnown,
                        KnownFails, NextKnown, NextNode
    <3>. QED
      BY <3>1, <3>2, <3>4, <3>5, <3>6
  <2>. QED
    BY <2>1, <2>2
<1>. QED
  BY <1>2, <1>3, <1>4, Frame, Zenon

\* Before the first run there is nothing to hand in.
LEMMA InitHandIn == Init => HandIn
BY DEF Init, HandIn, Merging, Each

\* Every step keeps the results of phase 1 on their way to phase 2.
LEMMA StepHandIn == Typed /\ HandIn /\ KeysKept /\ [Next]_vars => HandIn'
<1> SUFFICES ASSUME Typed, HandIn, KeysKept, [Next]_vars PROVE HandIn'
  OBVIOUS
<1>. QED
  BY StepLocks, StepAnswers, StepMerging DEF HandIn

----------------------------------------------------------------------------
(* No key is authorized for a foreign account. *)

\* No file of the start has a key of the cluster.
LEMMA InitOwnKeys == Init => OwnKeys
<1> SUFFICES ASSUME Init PROVE OwnKeys
  OBVIOUS
<1>1. \A n \in Node, u \in User : auth[n][u] \subseteq Others /\ pubs[n] = {}
  BY DEF Init, Each
<1>2. main = "idle"
  BY Zenon DEF Init
<1>. QED
  BY <1>1, <1>2, ClusterAssumption DEF OwnKeys, NoForeignTrust

\* Every step authorizes an account's keys for that account only.
LEMMA StepOwnKeys == Typed /\ OwnKeys /\ [Next]_vars => OwnKeys'
<1> SUFFICES ASSUME Typed, OwnKeys, [Next]_vars PROVE OwnKeys'
  OBVIOUS
<1> USE DEF Typed
<1> DEFINE Owned(lines, u, k) == \A m \in Node, v \in User : <<m, v>> \in lines => v = u /\ k[m][v] = "whole"
<1>1. \A m \in Node, v \in User : key[m][v] = "whole" => key'[m][v] = "whole"
  <2>1. ASSUME NEW n \in Node, NEW k \in KeyFiles,
               gpc[n] = "keygen", key[n][AccountOf(n)] = "none",
               key' = [key EXCEPT ![n][AccountOf(n)] = k]
        PROVE  \A m \in Node, v \in User : key[m][v] = "whole" => key'[m][v] = "whole"
    BY <2>1, AccountType DEF FilesOK
  <2>. QED
    BY <2>1, KeyStep
<1>2. \A n \in Node, u \in User : u \in pubs'[n] => key'[n][u] = "whole"
  BY <1>1, PubsStep, AccountType DEF OwnKeys, Each, WorkersOK
<1>3. ASSUME main = "writeAuth" PROVE Owned(MergedKeys(Users[who]), Users[who], key)
  BY <1>3 DEF MergedKeys, PubsByUser, OwnKeys, MutexOK
<1>4. ASSUME NEW n \in Node, NEW u \in User PROVE Owned(auth'[n][u], u, key')
  <2>1. Owned(auth[n][u], u, key) /\ Owned({}, u, key) /\ Owned(Others, u, key)
    BY ClusterAssumption DEF OwnKeys, NoForeignTrust
  <2>2. Owned(auth'[n][u], u, key)
    <3>1. CASE auth' = auth
      BY <2>1, <3>1
    <3>2. ASSUME main = "writeAuth",
                 NEW left \in {auth[at][Users[who]], {}, MergedKeys(Users[who])},
                 auth' = [auth EXCEPT ![at][Users[who]] = left]
          PROVE  Owned(auth'[n][u], u, key)
      <4>1. auth'[n][u] = IF n = at /\ u = Users[who] THEN left ELSE auth[n][u]
        BY <3>2, MergedType DEF FilesOK, MainOK
      <4>. QED
        BY <1>3, <2>1, <3>2, <4>1, Zenon
    <3>3. ASSUME NEW m \in Node, NEW v \in User, auth' = [auth EXCEPT ![m][v] = Others]
          PROVE  Owned(auth'[n][u], u, key)
      <4>1. auth'[n][u] \in {Others, auth[n][u]}
        BY <3>3 DEF FilesOK
      <4>. QED
        BY <2>1, <4>1, Zenon
    <3>. QED
      BY <3>1, <3>2, <3>3, AuthStep, Zenon
  <2>. QED
    BY <1>1, <2>2
<1>5. ASSUME main' = "writeAuth" PROVE Owned(buf', Users[who'], key')
  <2>1. CASE ReadAuth
    <3>1. buf' \in {auth[at][Users[who]], {}} /\ UNCHANGED who
      BY <1>5, <2>1 DEF ReadAuth, AuthFails, NextAuth
    <3>2. at \in Node /\ Users[who] \in User
      BY Positions DEF MainOK
    <3>. QED
      BY <1>1, <3>1, <3>2 DEF OwnKeys, NoForeignTrust
  <2>2. CASE UNCHANGED main /\ ~ Merge /\ ~ Kill
    <3>1. UNCHANGED <<who, buf>>
      BY <2>2, Frame, Zenon
    <3>. QED
      BY <1>1, <1>5, <2>2, <3>1 DEF OwnKeys
  <2>3. ~ Dial /\ ~ Kill
    BY <1>5 DEF Dial, Kill
  <2>4. Merge => ReadAuth
    BY <1>5 DEF Merge, Join, WriteAuth, AuthFails, NextAuth, Scan, ReadKnown, WriteKnown, KnownFails, NextKnown,
                NextNode, Summary
  <2>. QED
    BY <2>1, <2>2, <2>3, <2>4, Frame, Zenon
<1>. QED
  BY <1>2, <1>4, <1>5 DEF OwnKeys, NoForeignTrust

----------------------------------------------------------------------------
(* Every reached account is trusted, or an error says why not. *)

\* Phase 2 gets past an authorized_keys file by writing it or by reporting an error.
LEMMA AuthPastStep ==
  ASSUME Typed, HandIn, [Next]_vars, main' \in Merging,
         NEW n \in reached', NEW i \in 1 .. Len(Users), AuthPast(n, i)'
  PROVE  \/ main \in Merging /\ AuthPast(n, i)
         \/ /\ n = at /\ i = who /\ main \in {"readAuth", "writeAuth"}
            /\ WriteAuth \/ <<"auth", at, Users[who]>> \in errs'
<1> USE ClusterAssumption DEF Typed, MainOK, AuthPast
<1>0. n \in Node /\ Node \subseteq Nat /\ at \in Nat /\ at' \in Nat /\ who \in Nat
  <2>1. MainOK'
    BY StepMainOK
  <2>. QED
    BY <2>1, Positions DEF Node
<1>1. ~ Dial /\ ~ Kill /\ ~ Summary
  BY DEF Dial, Kill, Summary, Merging
<1>2. CASE UNCHANGED main /\ ~ Merge
  <2>1. UNCHANGED <<at, who>>
    BY <1>1, <1>2, Frame, Zenon
  <2>. QED
    BY <1>2, <2>1
<1>3. CASE Merge
  <2>1. UNCHANGED reached
    BY <1>1, Frame, Zenon
  <2>2. CASE Join /\ main' = "readAuth" /\ who' = 1 /\ at' \in reached /\ \A m \in reached : at' <= m
    BY <1>0, <2>1, <2>2
  <2>3. CASE ReadAuth /\ main' = "writeAuth" /\ UNCHANGED <<at, who>>
    BY <2>3 DEF ReadAuth, Merging
  <2>4. CASE /\ ReadAuth \/ WriteAuth
             /\ NextAuth /\ UNCHANGED at
             /\ ReadAuth => <<"auth", at, Users[who]>> \in errs'
    <3>1. main \in {"readAuth", "writeAuth"}
      BY <2>4 DEF ReadAuth, WriteAuth
    <3>2. n < at \/ (n = at /\ i <= who)
      BY <1>0, <2>4, <3>1 DEF NextAuth
    <3>. QED
      BY <1>0, <2>4, <3>1, <3>2 DEF Merging
  <2>5. CASE main \in {"scan", "writeKnown"} /\ NextNode
    <3>1. n <= at
      BY <1>0, <2>1, <2>5, NextNodeMoves
    <3>. QED
      BY <1>0, <2>5, <3>1 DEF Merging
  <2>6. CASE main \in {"scan", "readKnown", "writeKnown"} /\ UNCHANGED at
    BY <2>6 DEF Merging
  <2>7. /\ Scan => main = "scan"
        /\ ReadKnown => main = "readKnown"
        /\ WriteKnown => main = "writeKnown"
    BY DEF Scan, ReadKnown, WriteKnown
  <2>. QED
    BY <1>1, <1>3, <2>2, <2>3, <2>4, <2>5, <2>6, <2>7, MergeMoves
<1>. QED
  BY <1>1, <1>2, <1>3, Frame, Zenon

\* What WriteAuth leaves trusts every key that was handed in.
LEMMA WrittenTrusts ==
  ASSUME Typed, HandIn, [Next]_vars, WriteAuth, NEW m \in reached
  PROVE  \/ <<"key", m, Users[who]>> \in errs'
         \/ <<"auth", at, Users[who]>> \in errs'
         \/ before.key[m][Users[who]] = "empty"
         \/ <<m, Users[who]>> \in auth'[at][Users[who]]
<1> USE DEF Typed
<1>1. main = "writeAuth" /\ ~ Kill /\ main # "idle"
  BY DEF WriteAuth, Kill, AuthFails, NextAuth
<1>2. m \in Node /\ gpc[m] = "done" /\ m \in out /\ Answered(m, who)
  BY <1>1, Positions DEF HandIn, Merging, MainOK
<1>3. \/ <<m, Users[who]>> \in MergedKeys(Users[who]) \/ <<"key", m, Users[who]>> \in errs
      \/ before.key[m][Users[who]] = "empty"
  BY <1>2 DEF Answered, MergedKeys, PubsByUser
<1>4. auth' = [auth EXCEPT ![at][Users[who]] = MergedKeys(Users[who])] \/ <<"auth", at, Users[who]>> \in errs'
  BY DEF WriteAuth, AuthFails
<1>5. at \in Node /\ Users[who] \in User
  BY Positions DEF MainOK
<1>. QED
  BY <1>1, <1>3, <1>4, <1>5, ErrsStay DEF FilesOK

\* Steps of a run that nobody disturbs take no key from a file phase 2 is past.
LEMMA TrustStays ==
  ASSUME Typed, HandIn, [Next]_vars, main \in Merging, ~ Kill, Undisturbed', UNCHANGED before,
         NEW n \in reached, NEW u \in User, Trusts(n, u)
  PROVE  \A m \in reached : \/ <<"key", m, u>> \in errs'
                            \/ <<"auth", n, u>> \in errs'
                            \/ before.key[m][u] = "empty"
                            \/ <<m, u>> \in auth'[n][u]
<1> USE DEF Typed
<1>1. main # "idle"
  BY DEF Merging
<1>2. errs \subseteq errs'
  BY <1>1, ErrsStay
<1>3. CASE auth' = auth
  BY <1>2, <1>3 DEF Trusts
<1>4. CASE WriteAuth
  <2>1. CASE n = at /\ u = Users[who]
    BY <1>4, <2>1, WrittenTrusts
  <2>2. CASE ~ (n = at /\ u = Users[who])
    <3>1. main = "writeAuth" /\ n \in Node
      BY <1>4 DEF WriteAuth, MainOK
    <3>2. \/ auth' = auth
          \/ \E left \in {auth[at][Users[who]], {}, MergedKeys(Users[who])} :
               auth' = [auth EXCEPT ![at][Users[who]] = left]
      BY <1>4 DEF WriteAuth
    <3>3. auth'[n][u] = auth[n][u]
      BY <2>2, <3>1, <3>2, MergedType DEF FilesOK, MainOK
    <3>. QED
      BY <1>2, <3>3 DEF Trusts
  <2>. QED
    BY <2>1, <2>2
<1>5. ASSUME NEW m \in Node, NEW v \in User, Rewrite(m, v) PROVE FALSE
  BY <1>5 DEF Rewrite, Undisturbed, BeforeOK, CountsOK
<1>. QED
  BY <1>3, <1>4, <1>5, Frame, Zenon

\* Before the first run no trust is promised.
LEMMA InitTrust == Init => TrustGrows
BY DEF Init, TrustGrows, TrustIsMutual, Returned, Merging

\* Every step keeps the trust of the accounts phase 2 is past.
LEMMA StepTrust == Typed /\ HandIn /\ TrustGrows /\ [Next]_vars => TrustGrows'
<1> SUFFICES ASSUME Typed, HandIn, TrustGrows, [Next]_vars PROVE TrustGrows'
  OBVIOUS
<1>1. ASSUME main' \in Merging, Undisturbed',
             NEW n \in reached', NEW i \in 1 .. Len(Users), AuthPast(n, i)'
      PROVE  Trusts(n, Users[i])'
  <2>1. ~ Dial /\ ~ Kill
    BY <1>1 DEF Dial, Kill, Merging
  <2>2. UNCHANGED <<reached, before>>
    BY <2>1, Frame, Zenon
  <2>3. rewrites <= rewrites' /\ before.rewrites <= rewrites /\ rewrites \in Nat /\ before.rewrites \in Nat
          /\ rewrites' \in Nat
    <3>1. UNCHANGED rewrites \/ \E m \in Node, v \in User : Rewrite(m, v)
      BY Frame, Zenon
    <3>2. (\E m \in Node, v \in User : Rewrite(m, v)) => rewrites' = rewrites + 1
      BY Zenon DEF Rewrite
    <3>. QED
      BY <3>1, <3>2 DEF Typed, BeforeOK, CountsOK
  <2>4. Undisturbed
    BY <1>1, <2>2, <2>3 DEF Undisturbed
  <2>5. CASE main \in Merging /\ AuthPast(n, i)
    <3>1. Trusts(n, Users[i]) /\ Users[i] \in User
      BY <2>2, <2>4, <2>5, Positions DEF TrustGrows
    <3>. QED
      BY <1>1, <2>1, <2>2, <2>5, <3>1, TrustStays DEF Trusts
  <2>6. CASE n = at /\ i = who /\ (WriteAuth \/ <<"auth", at, Users[who]>> \in errs')
    BY <2>2, <2>6, WrittenTrusts DEF Trusts
  <2>. QED
    BY <1>1, <2>5, <2>6, AuthPastStep
<1>2. TrustIsMutual'
  <2>1. CASE Summary
    <3>1. main = "summary" /\ UNCHANGED <<auth, errs, reached, rewrites, before>>
      BY <2>1 DEF Summary, files, counts, history
    <3>2. ASSUME Undisturbed', NEW n \in reached, NEW u \in User PROVE Trusts(n, u)
      <4>1. PICK i \in 1 .. Len(Users) : Users[i] = u
        BY Positions
      <4>2. AuthPast(n, i)
        BY <3>1, ClusterAssumption DEF AuthPast, HandIn, Typed, MainOK, Node
      <4>. QED
        BY <3>1, <3>2, <4>1, <4>2 DEF TrustGrows, Merging, Undisturbed
    <3>. QED
      BY <3>1, <3>2 DEF TrustIsMutual, Trusts, Returned
  <2>2. CASE Dial
    BY <2>2 DEF Dial, TrustIsMutual, Returned
  <2>3. CASE Kill
    BY <2>3 DEF Kill, TrustIsMutual, Returned
  <2>4. CASE UNCHANGED vars
    BY <2>4 DEF vars, files, counts, history, TrustGrows, TrustIsMutual, Returned, Undisturbed
  <2>5. ASSUME NEW n \in Node, NEW u \in User, Rewrite(n, u) PROVE ~ Undisturbed'
    <3>1. rewrites' = rewrites + 1 /\ UNCHANGED before
      BY <2>5, Zenon DEF Rewrite, history
    <3>. QED
      BY <3>1 DEF Undisturbed, Typed, BeforeOK, CountsOK
  <2>6. CASE main # "idle" /\ ~ Summary /\ ~ Kill
    <3>1. main' # "idle"
      <4>1. CASE Merge
        BY <2>6, <4>1 DEF Merge, Join, ReadAuth, WriteAuth, AuthFails, NextAuth, Scan, ReadKnown, WriteKnown,
                          KnownFails, NextKnown, NextNode
      <4>2. ~ Dial
        BY <2>6 DEF Dial
      <4>. QED
        BY <2>6, <4>1, <4>2, Frame, Zenon
    <3>. QED
      BY <3>1 DEF TrustIsMutual, Returned
  <2>. QED
    BY <2>1, <2>2, <2>3, <2>4, <2>5, <2>6, IdleStep DEF TrustIsMutual, Typed
<1>. QED
  BY <1>1, <1>2 DEF TrustGrows

----------------------------------------------------------------------------
(* No key line is lost without a report. *)

\* Before the first run nothing can be lost.
LEMMA InitLoss == Init => NothingLost
BY DEF Init, NothingLost

\* Every step keeps the key lines of the start, or an error names the file.
LEMMA StepLoss == Typed /\ NothingLost /\ [Next]_vars => NothingLost'
<1> SUFFICES ASSUME Typed, NothingLost, [Next]_vars PROVE NothingLost'
  OBVIOUS
<1> USE DEF Typed
<1>0. at \in Node /\ Users[who] \in User
  BY Positions DEF MainOK
<1>1. CASE Dial
  <2>1. UNCHANGED auth /\ before'.auth = auth /\ main' # "writeAuth"
    BY <1>1 DEF Dial, files
  <2>. QED
    BY <2>1 DEF NothingLost, Keeps
<1>2. CASE Kill
  <2>1. main' = "idle" /\ ret' = "none"
    BY <1>2, Zenon DEF Kill
  <2>. QED
    BY <2>1 DEF NothingLost
<1>3. CASE UNCHANGED vars
  BY <1>3 DEF vars, files, counts, history, merge, NothingLost, Keeps, Undisturbed
<1>4. ASSUME NEW n \in Node, NEW u \in User, Rewrite(n, u) PROVE ~ Undisturbed'
  <2>1. rewrites' = rewrites + 1 /\ UNCHANGED before
    BY <1>4, Zenon DEF Rewrite, history
  <2>. QED
    BY <2>1 DEF Undisturbed, BeforeOK, CountsOK
<1>5. ASSUME main # "idle", ~ Kill, Undisturbed' PROVE NothingLost'
  <2>1. errs \subseteq errs' /\ UNCHANGED before
    BY <1>5, ErrsStay, RunGoesOn
  <2>0. unread \subseteq unread'
    <3>1. ReadAuth => unread \subseteq unread'
      BY DEF ReadAuth
    <3>2. ~ Dial
      BY <1>5 DEF Dial
    <3>3. UNCHANGED unread \/ Dial \/ ReadAuth
      BY Frame, Zenon
    <3>. QED
      BY <3>1, <3>2, <3>3
  <2>2. UNCHANGED rewrites
    BY <1>4, <1>5, Frame, Zenon
  <2>3. Undisturbed
    BY <1>5, <2>1, <2>2 DEF Undisturbed
  <2>4. ASSUME main = "writeAuth" PROVE Keeps(at, Users[who], MergedKeys(Users[who]))
    BY <2>3, <2>4 DEF NothingLost, Keeps, MergedKeys
  <2>5. ASSUME NEW n \in Node, NEW u \in User PROVE Keeps(n, u, auth[n][u])
    BY <1>5, <2>3 DEF NothingLost
  <2>6. ASSUME NEW n \in Node, NEW u \in User
        PROVE  before.auth[n][u] \subseteq auth'[n][u] \/ <<"auth", n, u>> \in errs' \/ <<n, u>> \in unread'
    <3>1. CASE auth' = auth
      BY <2>0, <2>1, <2>5, <3>1 DEF Keeps
    <3>2. ASSUME main = "writeAuth",
                 NEW left \in {auth[at][Users[who]], {}, MergedKeys(Users[who])},
                 auth' = [auth EXCEPT ![at][Users[who]] = left],
                 left = MergedKeys(Users[who]) \/ <<"auth", at, Users[who]>> \in errs'
          PROVE  before.auth[n][u] \subseteq auth'[n][u] \/ <<"auth", n, u>> \in errs' \/ <<n, u>> \in unread'
      <4>1. auth'[n][u] = IF n = at /\ u = Users[who] THEN left ELSE auth[n][u]
        BY <1>0, <3>2 DEF FilesOK
      <4>. QED
        BY <2>0, <2>1, <2>4, <2>5, <3>2, <4>1 DEF Keeps
    <3>3. rewrites' # rewrites + 1
      BY <2>2 DEF CountsOK
    <3>. QED
      BY <3>1, <3>2, <3>3, AuthStep
  <2>7. ASSUME main' = "writeAuth"
        PROVE  \/ before.auth[at'][Users[who']] \subseteq buf' \/ <<"auth", at', Users[who']>> \in errs'
               \/ <<at', Users[who']>> \in unread'
    <3>1. CASE ReadAuth
      <4>1. UNCHANGED <<at, who>> /\ (buf' = auth[at][Users[who]] \/ <<at, Users[who]>> \in unread')
        BY <2>7, <3>1 DEF ReadAuth, AuthFails, NextAuth
      <4>. QED
        BY <1>0, <2>0, <2>1, <2>5, <4>1 DEF Keeps
    <3>2. CASE UNCHANGED main /\ ~ Merge
      <4>1. UNCHANGED <<at, who, buf>>
        BY <1>5, <3>2, Frame, Zenon
      <4>. QED
        BY <2>0, <2>1, <2>3, <2>7, <3>2, <4>1 DEF NothingLost, Keeps
    <3>3. Merge => ReadAuth
      BY <2>7 DEF Merge, Join, WriteAuth, AuthFails, NextAuth, Scan, ReadKnown, WriteKnown, KnownFails, NextKnown,
                  NextNode, Summary
    <3>4. ~ Dial
      BY <1>5 DEF Dial
    <3>. QED
      BY <1>5, <3>1, <3>2, <3>3, <3>4, Frame, Zenon
  <2>. QED
    BY <2>1, <2>6, <2>7 DEF NothingLost, Keeps
<1>6. ~ Undisturbed' => NothingLost'
  BY DEF NothingLost
<1>. QED
  BY <1>1, <1>2, <1>3, <1>4, <1>5, <1>6, IdleStep

----------------------------------------------------------------------------
(* A run on all nodes without a failure leaves nothing for the next one to do. *)

\* A step of a run without a fault or a rewrite, in such a run.
LEMMA QuietStep ==
  ASSUME Typed, [Next]_vars, UNCHANGED before, Faultless'
  PROVE  Faultless /\ ~ Fault /\ ~ \E n \in Node, u \in User : Rewrite(n, u)
<1>1. (\E n \in Node, u \in User : Rewrite(n, u)) => rewrites' = rewrites + 1
  BY Zenon DEF Rewrite
<1>2. UNCHANGED faults \/ Fault
  BY Frame, Zenon
<1>3. UNCHANGED rewrites \/ \E n \in Node, u \in User : Rewrite(n, u)
  BY Frame, Zenon
<1>. QED
  BY <1>1, <1>2, <1>3 DEF Typed, BeforeOK, CountsOK, Faultless, Undisturbed, Fault

\* Phase 2 gets past a known_hosts file by writing it, by reporting an error, or
\* because the node has no peers.
LEMMA KnownPastStep ==
  ASSUME Typed, HandIn, [Next]_vars, main' \in Merging, ~ Fault,
         NEW n \in reached', NEW i \in 1 .. Len(Users), KnownPast(n, i)'
  PROVE  \/ main \in Merging /\ KnownPast(n, i)
         \/ WriteKnown /\ n = at /\ i = who
         \/ n = at /\ reached \ {at} = {}
         \/ errs' # {}
<1> USE ClusterAssumption DEF Typed, MainOK, KnownPast
<1>0. n \in Node /\ Node \subseteq Nat /\ at \in Nat /\ at' \in Nat /\ who \in 1 .. Len(Users)
  <2>1. MainOK'
    BY StepMainOK
  <2>. QED
    BY <2>1, Positions DEF Node
<1>1. ~ Dial /\ ~ Kill /\ ~ Summary
  BY DEF Dial, Kill, Summary, Merging
<1>2. CASE UNCHANGED main /\ ~ Merge
  <2>1. UNCHANGED <<at, who>>
    BY <1>1, <1>2, Frame, Zenon
  <2>. QED
    BY <1>2, <2>1
<1>3. CASE Merge
  <2>1. UNCHANGED reached
    BY <1>1, Frame, Zenon
  <2>2. CASE Join /\ main' = "readAuth" /\ at' \in reached /\ \A m \in reached : at' <= m
    BY <1>0, <2>1, <2>2
  <2>3. CASE (ReadAuth \/ WriteAuth) /\ UNCHANGED at
    <3>1. main \in {"readAuth", "writeAuth"} /\ main' \in {"readAuth", "writeAuth", "scan"}
      BY <2>3 DEF ReadAuth, WriteAuth, AuthFails, NextAuth
    <3>. QED
      BY <2>3, <3>1 DEF Merging
  <2>4. CASE Scan
    <3>1. CASE main' = "readKnown" /\ UNCHANGED <<at, who>>
      BY <1>0, <2>4, <3>1 DEF Scan, HandIn, Merging
    <3>2. CASE NextNode
      <4>1. n <= at
        BY <1>0, <2>1, <3>2, NextNodeMoves
      <4>2. reached \ {at} = {} \/ errs' # {} \/ main' = "readKnown"
        BY <2>4 DEF Scan, KnownFails
      <4>. QED
        BY <1>0, <2>4, <3>2, <4>1, <4>2 DEF Merging, Scan, NextNode
    <3>. QED
      BY <2>4, <3>1, <3>2 DEF Scan, KnownFails
  <2>5. CASE ReadKnown
    BY <2>5 DEF ReadKnown, Merging
  <2>6. CASE WriteKnown
    <3>1. main = "writeKnown"
      BY <2>6 DEF WriteKnown
    <3>2. errs' # {} \/ NextKnown
      BY <2>6 DEF WriteKnown, KnownFails
    <3>3. CASE NextKnown /\ who < Len(Users)
      BY <1>0, <2>6, <3>1, <3>3, Positions DEF NextKnown, Merging
    <3>4. CASE NextKnown /\ ~ (who < Len(Users))
      <4>1. n <= at
        BY <1>0, <2>1, <3>4, NextNodeMoves DEF NextKnown
      <4>2. i < who \/ i = who
        BY <1>0, <3>4, Positions
      <4>. QED
        BY <1>0, <2>6, <3>1, <4>1, <4>2 DEF Merging
    <3>. QED
      BY <3>2, <3>3, <3>4
  <2>. QED
    BY <1>1, <1>3, <2>2, <2>3, <2>4, <2>5, <2>6, MergeMoves
<1>. QED
  BY <1>1, <1>2, <1>3, Frame, Zenon

\* Without a fault phase 2 seeds the entry of every peer.
LEMMA StepKnown ==
  ASSUME Typed, HandIn, Rerun, [Next]_vars, main' \in Merging, Faultless', errs' = {}
  PROVE  /\ main' \in {"readKnown", "writeKnown"} => scan' = reached' \ {at'}
         /\ \A n \in reached', i \in 1 .. Len(Users) :
              KnownPast(n, i)' => reached' \ {n} \subseteq known'[n][Users[i]]
<1> USE DEF Typed
<1>1. ~ Dial /\ ~ Kill /\ ~ Summary
  BY DEF Dial, Kill, Summary, Merging
<1>2. UNCHANGED <<reached, before>>
  BY <1>1, Frame, Zenon
<1>3. Faultless /\ ~ Fault
  BY <1>2, QuietStep
<1>4. errs = {} \/ main = "idle"
  BY <1>1, ErrsStay
<1>5. main # "idle"
  <2>1. UNCHANGED main \/ Merge
    BY <1>1, Frame, Zenon
  <2>. QED
    BY <2>1 DEF Merging, Merge, Join, ReadAuth, WriteAuth, Scan, ReadKnown, WriteKnown, Summary
<1>6. ASSUME main \in {"readKnown", "writeKnown"} PROVE scan = reached \ {at}
  BY <1>3, <1>4, <1>5, <1>6 DEF Rerun, Merging
<1>7. at \in Node /\ Users[who] \in User /\ \A i \in 1 .. Len(Users) : Users[i] \in User
  BY Positions DEF MainOK
<1>8. ASSUME main' \in {"readKnown", "writeKnown"} PROVE scan' = reached \ {at'}
  <2>1. CASE Scan
    BY <1>3, <1>8, <2>1 DEF Scan, KnownFails, NextNode
  <2>2. CASE ReadKnown \/ WriteKnown
    <3>1. UNCHANGED <<scan, at>> /\ main \in {"readKnown", "writeKnown"}
      BY <1>8, <2>2 DEF ReadKnown, WriteKnown, KnownFails, NextKnown, NextNode
    <3>. QED
      BY <1>6, <3>1
  <2>3. CASE UNCHANGED main /\ ~ Merge
    <3>1. UNCHANGED <<scan, at>>
      BY <1>1, <2>3, Frame, Zenon
    <3>. QED
      BY <1>6, <1>8, <2>3, <3>1
  <2>4. Merge => Scan \/ ReadKnown \/ WriteKnown
    BY <1>8 DEF Merge, Join, ReadAuth, WriteAuth, AuthFails, NextAuth, Summary
  <2>. QED
    BY <1>1, <2>1, <2>2, <2>3, <2>4, Frame, Zenon
<1>9. ASSUME WriteKnown PROVE reached \ {at} \subseteq known'[at][Users[who]]
  <2>1. known' = [known EXCEPT ![at][Users[who]] = buf \union scan] /\ main = "writeKnown"
    <3>1. ~ KnownFails
      BY DEF KnownFails
    <3>. QED
      BY <1>3, <1>9, <3>1 DEF WriteKnown
  <2>. QED
    BY <1>6, <1>7, <2>1 DEF FilesOK
<1>10. ASSUME NEW n \in Node, NEW u \in User PROVE known[n][u] \subseteq known'[n][u] \/ (WriteKnown /\ n = at /\ u = Users[who])
  <2>1. CASE UNCHANGED known
    BY <2>1
  <2>2. CASE WriteKnown
    <3>1. known' = known \/ \E left \in {known[at][Users[who]], {}, buf \union scan} :
            known' = [known EXCEPT ![at][Users[who]] = left]
      BY <2>2 DEF WriteKnown
    <3>. QED
      BY <1>7, <2>2, <3>1 DEF FilesOK
  <2>. QED
    BY <2>1, <2>2, Frame, Zenon
<1>11. ASSUME NEW n \in reached', NEW i \in 1 .. Len(Users), KnownPast(n, i)'
       PROVE  reached \ {n} \subseteq known'[n][Users[i]]
  <2>1. n \in Node /\ n \in reached
    BY <1>2 DEF MainOK
  <2>2. CASE main \in Merging /\ KnownPast(n, i)
    <3>1. reached \ {n} \subseteq known[n][Users[i]]
      BY <1>3, <1>4, <1>5, <2>1, <2>2 DEF Rerun
    <3>. QED
      BY <1>7, <1>9, <1>10, <2>1, <3>1
  <2>3. CASE WriteKnown /\ n = at /\ i = who
    BY <1>9, <2>3
  <2>. QED
    BY <1>3, <1>11, <2>2, <2>3, KnownPastStep
<1>. QED
  BY <1>2, <1>8, <1>11

\* Before the first run there has been no clean one.
LEMMA InitRerun == Init => Rerun
<1> SUFFICES ASSUME Init PROVE Rerun
  OBVIOUS
<1>1. main = "idle" /\ ret = "none" /\ before.clean = FALSE
  BY Zenon DEF Init
<1>. QED
  BY <1>1 DEF Rerun, Clean, Merging

\* A run that is under way is ended by its summary or by a kill.
LEMMA RunEnds ==
  ASSUME main # "idle", [Next]_vars, ~ Kill, ~ Summary
  PROVE  main' # "idle"
<1>1. CASE Merge
  BY <1>1 DEF Merge, Join, ReadAuth, WriteAuth, AuthFails, NextAuth, Scan, ReadKnown, WriteKnown,
              KnownFails, NextKnown, NextNode
<1>2. ~ Dial
  BY DEF Dial
<1>. QED
  BY <1>1, <1>2, Frame, Zenon

\* A clean run has settled every file when it returns.
LEMMA SummarySettles ==
  ASSUME Typed, HandIn, OwnKeys, KeysKept, TrustGrows, Rerun, Summary, Clean'
  PROVE  Settled(key', auth', known')
<1> USE DEF Typed
<1>1. /\ main = "summary" /\ errs = {} /\ Faultless /\ reached = Node
      /\ UNCHANGED <<key, auth, known>>
  <2>1. main = "summary" /\ UNCHANGED <<key, auth, known, reached, errs, faults, rewrites, before>>
    BY DEF Summary, files, counts, history
  <2>2. errs = {}
    BY DEF Summary, Clean
  <2>. QED
    BY <2>1, <2>2 DEF Clean, Faultless, Undisturbed
<1>2. ASSUME NEW n \in Node, NEW u \in User
      PROVE  /\ key[n][u] \in {"whole", "empty"}
             /\ \A m \in Node : key[m][u] = "whole" => <<m, u>> \in auth[n][u]
             /\ Node \ {n} \subseteq known[n][u]
  <2>1. PICK i \in 1 .. Len(Users) : Users[i] = u
    BY Positions
  <2>2. n <= at /\ n \in Nat /\ at \in Nat
    BY <1>1, ClusterAssumption DEF HandIn, MainOK, Node
  <2>3. AuthPast(n, i) /\ KnownPast(n, i)
    BY <1>1, <2>2 DEF AuthPast, KnownPast
  <2>4. \A m \in Node : before.key[m][u] = "empty" \/ <<m, u>> \in auth[n][u]
    BY <1>1, <2>1, <2>3 DEF TrustGrows, Trusts, Merging, Faultless
  <2>7. \A m \in Node : before.key[m][u] = "empty" => key[m][u] = "empty"
    <3>1. \A m \in Node : KeyKept(m, u)
      BY <1>1 DEF KeysKept
    <3>. QED
      BY <3>1 DEF KeyKept
  <2>5. key[n][u] \in {"whole", "empty"}
    <3>1. CASE <<n, u>> \in auth[n][u]
      <4>1. \A m \in Node, v \in User : <<n, v>> \in auth[m][u] => key[n][v] = "whole"
        BY DEF OwnKeys, NoForeignTrust
      <4>2. key[n][u] = "whole"
        BY <3>1, <4>1, Zenon
      <4>. QED
        BY <4>2
    <3>2. CASE before.key[n][u] = "empty"
      BY <2>7, <3>2
    <3>. QED
      BY <2>4, <3>1, <3>2
  <2>6. Node \ {n} \subseteq known[n][u]
    BY <1>1, <2>1, <2>3 DEF Rerun, Merging
  <2>8. \A m \in Node : key[m][u] = "whole" => <<m, u>> \in auth[n][u]
    BY <2>4, <2>7
  <2>. QED
    BY <2>5, <2>6, <2>8
<1>. QED
  BY <1>1, <1>2 DEF Settled

\* What returns without an error on all nodes has settled, and the next run notes it.
LEMMA StepSettled ==
  ASSUME Typed, HandIn, OwnKeys, KeysKept, TrustGrows, Rerun, [Next]_vars
  PROVE  /\ main' = "idle" /\ ret' = "ok" => errs' = {}
         /\ main' = "idle" /\ Clean' => Settled(key', auth', known')
         /\ before'.clean => Settled(before'.key, before'.auth, before'.known)
<1> USE DEF Typed
<1>1. CASE Dial
  <2>1. /\ main' = "idle" => ret' = "error"
        /\ main = "idle" /\ before'.clean = Clean
        /\ before'.key = key /\ before'.auth = auth /\ before'.known = known
    BY <1>1 DEF Dial
  <2>. QED
    BY <2>1 DEF Rerun, Clean
<1>2. CASE Summary
  <2>1. (ret' = "ok" => errs = {}) /\ UNCHANGED <<errs, before>>
    BY <1>2 DEF Summary, history
  <2>. QED
    BY <1>2, <2>1, SummarySettles DEF Rerun
<1>3. CASE Kill
  <2>1. ret' = "none" /\ UNCHANGED before
    BY <1>3, Zenon DEF Kill, history
  <2>. QED
    BY <2>1 DEF Rerun, Clean
<1>4. CASE UNCHANGED vars
  BY <1>4 DEF vars, files, counts, history, Rerun, Clean
<1>5. ASSUME NEW n \in Node, NEW u \in User, Rewrite(n, u)
      PROVE  (ret' = "ok" => ret = "ok") /\ UNCHANGED <<main, errs, before>> /\ ~ Clean'
  <2>1. rewrites' = rewrites + 1 /\ UNCHANGED <<main, ret, errs, before>>
    BY <1>5, Zenon DEF Rewrite, history
  <2>. QED
    BY <2>1 DEF Clean, BeforeOK, CountsOK
<1>6. CASE main # "idle" /\ ~ Summary /\ ~ Kill
  BY <1>6, RunEnds, RunGoesOn DEF Rerun
<1>. QED
  BY <1>1, <1>2, <1>3, <1>4, <1>5, <1>6, IdleStep DEF Rerun

\* After a clean run the next one writes what it reads.
LEMMA StepQuiet ==
  ASSUME Typed, HandIn, OwnKeys, Rerun, [Next]_vars, ~ Dial, before'.clean, Faultless'
  PROVE  /\ key' = key /\ auth' = auth /\ known' = known
         /\ main' = "writeAuth" => buf' = auth[at'][Users[who']]
         /\ main' = "writeKnown" => buf' = known[at'][Users[who']]
<1> USE DEF Typed
<1>0. at \in Node /\ Users[who] \in User
  BY Positions DEF MainOK
<1>1. UNCHANGED before
  BY Frame, Zenon
<1>2. Faultless /\ ~ Fault /\ ~ \E n \in Node, u \in User : Rewrite(n, u)
  BY <1>1, QuietStep
<1>3. /\ Settled(key, auth, known)
      /\ main = "writeAuth" => buf = auth[at][Users[who]]
      /\ main = "writeKnown" => buf = known[at][Users[who]]
  BY <1>1, <1>2 DEF Rerun, RerunChangesNothing, Faultless, Undisturbed
<1>4. key' = key
  <2>1. ASSUME NEW n \in Node, gpc[n] = "keygen" PROVE key[n][AccountOf(n)] # "none"
    BY <1>3, <2>1, AccountType DEF Settled
  <2>. QED
    BY <2>1, KeyStep
<1>5. auth' = auth
  <2>1. ASSUME main = "writeAuth", auth' = [auth EXCEPT ![at][Users[who]] = MergedKeys(Users[who])]
        PROVE  auth' = auth
    <3>1. PubsByUser(Users[who]) \subseteq auth[at][Users[who]]
      <4>1. \A m \in out : Users[who] \in pubs[m] => <<m, Users[who]>> \in auth[at][Users[who]]
        BY <1>0, <1>3 DEF Settled, OwnKeys, MutexOK
      <4>. QED
        BY <4>1 DEF PubsByUser
    <3>2. MergedKeys(Users[who]) = auth[at][Users[who]]
      BY <1>3, <2>1, <3>1 DEF MergedKeys
    <3>. QED
      BY <1>0, <2>1, <3>2 DEF FilesOK
  <2>2. rewrites' # rewrites + 1
    <3>1. UNCHANGED rewrites
      BY <1>2, Frame, Zenon
    <3>. QED
      BY <3>1 DEF CountsOK
  <2>. QED
    BY <1>2, <2>1, <2>2, AuthStep
<1>6. known' = known
  <2>1. ASSUME main = "writeKnown", known' = [known EXCEPT ![at][Users[who]] = buf \union scan]
        PROVE  known' = known
    <3>1. scan \subseteq known[at][Users[who]]
      BY <1>0, <1>3, <2>1 DEF Settled, HandIn, MainOK
    <3>2. buf \union scan = known[at][Users[who]]
      BY <1>3, <2>1, <3>1
    <3>. QED
      BY <1>0, <2>1, <3>2 DEF FilesOK
  <2>. QED
    BY <1>2, <2>1, KnownStep
<1>7. ASSUME main' = "writeAuth" PROVE buf' = auth[at'][Users[who']]
  <2>1. CASE ReadAuth
    BY <1>2, <1>7, <2>1 DEF ReadAuth, AuthFails, NextAuth
  <2>2. CASE UNCHANGED main /\ ~ Merge
    <3>1. ~ Kill
      BY <1>7 DEF Kill
    <3>2. UNCHANGED <<at, who, buf>>
      BY <2>2, <3>1, Frame, Zenon
    <3>. QED
      BY <1>3, <1>7, <2>2, <3>2
  <2>3. Merge => ReadAuth
    BY <1>7 DEF Merge, Join, WriteAuth, AuthFails, NextAuth, Scan, ReadKnown, WriteKnown, KnownFails, NextKnown,
                NextNode, Summary
  <2>4. ~ Kill
    BY <1>7 DEF Kill
  <2>. QED
    BY <2>1, <2>2, <2>3, <2>4, Frame, Zenon
<1>8. ASSUME main' = "writeKnown" PROVE buf' = known[at'][Users[who']]
  <2>1. CASE ReadKnown
    BY <1>2, <1>8, <2>1 DEF ReadKnown
  <2>2. CASE UNCHANGED main /\ ~ Merge
    <3>1. ~ Kill
      BY <1>8 DEF Kill
    <3>2. UNCHANGED <<at, who, buf>>
      BY <2>2, <3>1, Frame, Zenon
    <3>. QED
      BY <1>3, <1>8, <2>2, <3>2
  <2>3. Merge => ReadKnown
    BY <1>8 DEF Merge, Join, ReadAuth, WriteAuth, AuthFails, NextAuth, Scan, WriteKnown, KnownFails, NextKnown,
                NextNode, Summary
  <2>4. ~ Kill
    BY <1>8 DEF Kill
  <2>. QED
    BY <2>1, <2>2, <2>3, <2>4, Frame, Zenon
<1>. QED
  BY <1>4, <1>5, <1>6, <1>7, <1>8

\* Every step keeps what a clean run has settled.
LEMMA StepRerun == Typed /\ HandIn /\ OwnKeys /\ KeysKept /\ TrustGrows /\ Rerun /\ [Next]_vars => Rerun'
<1> SUFFICES ASSUME Typed, HandIn, OwnKeys, KeysKept, TrustGrows, Rerun, [Next]_vars PROVE Rerun'
  OBVIOUS
<1>1. ASSUME main' \in Merging, Faultless', errs' = {}
      PROVE  /\ main' \in {"readKnown", "writeKnown"} => scan' = reached' \ {at'}
             /\ \A n \in reached', i \in 1 .. Len(Users) :
                  KnownPast(n, i)' => reached' \ {n} \subseteq known'[n][Users[i]]
  BY <1>1, StepKnown
<1>2. ASSUME before'.clean, Faultless'
      PROVE  /\ RerunChangesNothing'
             /\ main' = "writeAuth" => buf' = auth'[at'][Users[who']]
             /\ main' = "writeKnown" => buf' = known'[at'][Users[who']]
  <2>1. CASE Dial
    <3>1. UNCHANGED <<key, auth, known>> /\ before'.key = key /\ before'.auth = auth /\ before'.known = known
            /\ main' \in {"idle", "waiting"}
      BY <2>1 DEF Dial, files
    <3>. QED
      BY <3>1 DEF RerunChangesNothing
  <2>2. CASE ~ Dial
    <3>1. UNCHANGED before
      BY <2>2, Frame, Zenon
    <3>2. Faultless
      BY <1>2, <3>1, QuietStep
    <3>3. RerunChangesNothing
      BY <1>2, <3>1, <3>2 DEF Rerun
    <3>4. key = before.key /\ auth = before.auth /\ known = before.known
      BY <1>2, <3>1, <3>2, <3>3 DEF RerunChangesNothing, Faultless
    <3>. QED
      BY <1>2, <2>2, <3>1, <3>4, StepQuiet DEF RerunChangesNothing
  <2>. QED
    BY <2>1, <2>2
<1>. QED
  BY <1>1, <1>2, StepSettled DEF Rerun

----------------------------------------------------------------------------
(* The theorems. *)

\* The inductive invariant.
IInv == Typed /\ HandIn /\ OwnKeys /\ KeysKept /\ TrustGrows /\ NothingLost /\ Rerun

\* The inductive invariant holds at every step of the command and its neighbours.
THEOREM Inductive == Spec => []IInv
<1>1. Init => IInv
  BY InitTyped, InitHandIn, InitOwnKeys, InitKeysKept, InitTrust, InitLoss, InitRerun DEF IInv
<1>2. IInv /\ [Next]_vars => IInv'
  BY StepTyped, StepHandIn, StepOwnKeys, StepKeysKept, StepTrust, StepLoss, StepRerun DEF IInv
<1>. QED
  BY <1>1, <1>2, PTL DEF Spec

\* Whatever the nodes, the accounts and the bounds, the variables keep their shapes.
THEOREM TypeCorrect == Spec => []TypeOK
<1>1. IInv => TypeOK
  BY TypeParts DEF IInv, Typed
<1>. QED
  BY <1>1, Inductive, PTL

\* No interleaving of goroutines, failure, kill, rerun or rewrite by another
\* actor authorizes a key for a foreign account or one that does not exist.
THEOREM KeysStayHome == Spec => []NoForeignTrust
<1>1. IInv => NoForeignTrust
  BY DEF IInv, OwnKeys
<1>. QED
  BY <1>1, Inductive, PTL

\* On every cluster, when the command returns every account trusts every reached
\* node's key or an error says which is missing, but for the keys whose public
\* half was empty when the run began.
THEOREM TrustIsEstablished == Spec => []TrustIsMutual
<1>1. IInv => TrustIsMutual
  BY DEF IInv, TrustGrows
<1>. QED
  BY <1>1, Inductive, PTL

\* A key line is lost from an authorized_keys file only with an error reported for
\* it, or where the read of that very file failed.
THEOREM LossesReported == Spec => []LossIsReported
<1>1. IInv => LossIsReported
  BY DEF IInv, NothingLost, Keeps, LossIsReported, Returned
<1>. QED
  BY <1>1, Inductive, PTL

\* After a clean run on all nodes the next one leaves every file as it was.
THEOREM RerunIsQuiet == Spec => []RerunChangesNothing
<1>1. IInv => RerunChangesNothing
  BY DEF IInv, Rerun, RerunChangesNothing, Faultless
<1>. QED
  BY <1>1, Inductive, PTL
===============================================================================
