-------------------------- MODULE OwnedFileProofs --------------------------
(***************************************************************************)
(* What holds of the files sysctl, limits and sshd own, for any keys,      *)
(* values, manifests and numbers of failures: what an Apply reports done   *)
(* is in effect, Rollback puts the file back, and no drop-in that sshd     *)
(* rejects stays but where it could not be written or removed.             *)
(***************************************************************************)
EXTENDS OwnedFile, SequenceTheorems, WellFoundedInduction, TLAPS

-----------------------------------------------------------------------------
(* Sequences. *)

\* Every set of naturals that is not empty has a first element.
LEMMA LeastNat ==
  ASSUME NEW S, S \subseteq Nat, S # {}
  PROVE  \E n \in S : \A m \in S : n <= m
<1>1. PICK n \in S : \A m \in S : <<m, n>> \notin OpToRel(<, Nat)
  BY NatLessThanWellFounded, WFMin
<1>2. \A m \in S : ~ (m < n)
  BY <1>1, Zenon DEF OpToRel
<1>3. \A m \in S : n <= m
  BY <1>2
<1>. QED
  BY <1>3, Zenon

\* Concatenating two sequences puts their elements together.
LEMMA ToSetConcat ==
  ASSUME NEW S, NEW s \in Seq(S), NEW t \in Seq(S)
  PROVE  ToSet(s \o t) = ToSet(s) \union ToSet(t)
<1>1. Range(s \o t) = Range(s) \union Range(t)
  BY RangeConcatenation
<1>. QED
  BY <1>1, Zenon DEF ToSet, Range

\* The empty sequence has no elements.
LEMMA ToSetEmpty == ToSet(<<>>) = {}
BY DEF ToSet

\* f is the sequence of what the first 1, 2, ... n parts of s are put together.
Sums(s, n, f) == f = [i \in 1 .. n |-> IF i = 1 THEN s[i] ELSE f[i - 1] \o s[i]]

\* There is such an f for every n.
LEMMA SumsExist ==
  ASSUME NEW s, NEW n \in Nat
  PROVE  \E f : Sums(s, n, f)
<1> DEFINE Bad == {k \in Nat : ~ \E f : Sums(s, k, f)}
<1> SUFFICES ASSUME Bad # {} PROVE FALSE
  OBVIOUS
<1>1. PICK k \in Bad : \A m \in Bad : k <= m
  BY LeastNat
<1>2. k # 0
  <2>1. Sums(s, 0, <<>>)
    BY DEF Sums
  <2>. QED
    BY <2>1, <1>1
<1>3. k - 1 \in Nat /\ k - 1 \notin Bad
  BY <1>1, <1>2
<1>4. PICK f : Sums(s, k - 1, f)
  BY <1>3
<1> DEFINE g == [i \in 1 .. k |-> IF i = k THEN IF k = 1 THEN s[1] ELSE f[k - 1] \o s[k] ELSE f[i]]
<1>5. \A i \in 1 .. k : g[i] = IF i = 1 THEN s[i] ELSE g[i - 1] \o s[i]
  <2> SUFFICES ASSUME NEW i \in 1 .. k
               PROVE  g[i] = IF i = 1 THEN s[i] ELSE g[i - 1] \o s[i]
    OBVIOUS
  <2>1. CASE i = 1 /\ k = 1
    BY <2>1
  <2>2. CASE i = k /\ k # 1
    <3>1. i - 1 \in 1 .. k /\ i - 1 # k
      BY <2>2
    <3>. QED
      BY <2>2, <3>1
  <2>3. CASE i # k
    <3>1. i \in 1 .. k - 1
      BY <2>3
    <3>2. f[i] = IF i = 1 THEN s[i] ELSE f[i - 1] \o s[i]
      BY <1>4, <3>1 DEF Sums
    <3>3. i # 1 => i - 1 \in 1 .. k /\ i - 1 # k
      BY <3>1
    <3>. QED
      BY <2>3, <3>2, <3>3
  <2>. QED
    BY <2>1, <2>2, <2>3
<1>6. Sums(s, k, g)
  <2>1. g = [i \in 1 .. k |-> g[i]]
    OBVIOUS
  <2>. QED
    BY <2>1, <1>5, Zenon DEF Sums
<1>. QED
  BY <1>1, <1>6

\* FlattenSeq gives what all of the parts are put together.
LEMMA FlattenIsLast ==
  ASSUME NEW s, Len(s) \in Nat, Len(s) # 0
  PROVE  \E f : Sums(s, Len(s), f) /\ FlattenSeq(s) = f[Len(s)]
<1> DEFINE f == CHOOSE f : Sums(s, Len(s), f)
<1>1. Sums(s, Len(s), f)
  BY SumsExist
<1>2. FlattenSeq(s) = f[Len(s)]
  BY Zenon DEF FlattenSeq, Sums
<1>. QED
  BY <1>1, <1>2

\* A sequence of sequences over S, put together, is a sequence over S, and its
\* elements are those of the parts.
LEMMA FlattenElements ==
  ASSUME NEW S, NEW s \in Seq(Seq(S))
  PROVE  /\ FlattenSeq(s) \in Seq(S)
         /\ ToSet(FlattenSeq(s)) = UNION {ToSet(s[i]) : i \in DOMAIN s}
<1>0. Len(s) \in Nat /\ DOMAIN s = 1 .. Len(s) /\ \A i \in 1 .. Len(s) : s[i] \in Seq(S)
  BY LenProperties
<1>1. CASE Len(s) = 0
  <2>1. FlattenSeq(s) = s /\ s = <<>>
    BY <1>0, <1>1, EmptySeq, SeqEqual DEF FlattenSeq
  <2>2. ToSet(s) = {} /\ DOMAIN s = {} /\ s \in Seq(S)
    BY <2>1, EmptySeq, ToSetEmpty
  <2>. QED
    BY <2>1, <2>2
<1>2. CASE Len(s) # 0
  <2>1. PICK f : Sums(s, Len(s), f) /\ FlattenSeq(s) = f[Len(s)]
    BY <1>0, <1>2, FlattenIsLast
  <2>2. \A i \in 1 .. Len(s) : f[i] = IF i = 1 THEN s[i] ELSE f[i - 1] \o s[i]
    BY <2>1 DEF Sums
  <2> DEFINE Good(i) == f[i] \in Seq(S) /\ ToSet(f[i]) = UNION {ToSet(s[j]) : j \in 1 .. i}
             Bad == {i \in 1 .. Len(s) : ~Good(i)}
  <2>3. Good(1)
    <3>1. f[1] = s[1] /\ s[1] \in Seq(S) /\ 1 .. 1 = {1}
      BY <1>0, <1>2, <2>2
    <3>. QED
      BY <3>1, Zenon
  <2>4. ASSUME NEW i \in 1 .. Len(s), i # 1, Good(i - 1) PROVE Good(i)
    <3>1. f[i] = f[i - 1] \o s[i] /\ f[i - 1] \in Seq(S) /\ s[i] \in Seq(S)
      BY <1>0, <2>2, <2>4
    <3>2. f[i] \in Seq(S) /\ ToSet(f[i]) = ToSet(f[i - 1]) \union ToSet(s[i])
      BY <3>1, ConcatProperties, ToSetConcat
    <3>3. 1 .. i = (1 .. i - 1) \union {i}
      BY <1>0
    <3>4. UNION {ToSet(s[j]) : j \in 1 .. i}
            = (UNION {ToSet(s[j]) : j \in 1 .. i - 1}) \union ToSet(s[i])
      BY <3>3
    <3>. QED
      BY <2>4, <3>2, <3>4
  <2>5. \A i \in 1 .. Len(s) : Good(i)
    <3> HIDE DEF Good
    <3> SUFFICES ASSUME Bad # {} PROVE FALSE
      OBVIOUS
    <3>1. PICK i \in Bad : \A m \in Bad : i <= m
      <4>1. Bad \subseteq Nat
        BY <1>0
      <4>. QED
        BY <4>1, LeastNat, Zenon
    <3>2. i \in 1 .. Len(s) /\ ~Good(i) /\ i # 1
      BY <2>3
    <3>3. i - 1 \in 1 .. Len(s) /\ i - 1 < i
      BY <1>0, <3>2
    <3>4. i - 1 \notin Bad
      BY <1>0, <3>1, <3>3
    <3>5. Good(i - 1)
      BY <3>3, <3>4
    <3>. QED
      BY <2>4, <3>2, <3>5
  <2>6. Len(s) \in 1 .. Len(s)
    BY <1>0, <1>2
  <2>. QED
    BY <1>0, <2>1, <2>5, <2>6
<1>. QED
  BY <1>1, <1>2

\* The same for a function that gives a sequence for each of 1 .. n: every
\* element of the whole comes from one of them, and all of theirs are in it.
LEMMA FlattenFunction ==
  ASSUME NEW S, NEW n \in Nat, NEW f \in [1 .. n -> Seq(S)]
  PROVE  /\ FlattenSeq(f) \in Seq(S)
         /\ \A x \in ToSet(FlattenSeq(f)) : \E i \in 1 .. n : x \in ToSet(f[i])
         /\ \A i \in 1 .. n : ToSet(f[i]) \subseteq ToSet(FlattenSeq(f))
<1>1. f \in Seq(Seq(S)) /\ DOMAIN f = 1 .. n
  BY SeqDef
<1>2. FlattenSeq(f) \in Seq(S) /\ ToSet(FlattenSeq(f)) = UNION {ToSet(f[i]) : i \in DOMAIN f}
  BY <1>1, FlattenElements, Zenon
<1>. QED
  BY <1>1, <1>2, Zenon

-----------------------------------------------------------------------------
(* What a file says. *)

\* A file's lines, and the file of given lines.
LEMMA LinesType ==
  /\ \A f \in File : Lines(f) \in Seq(Line)
  /\ \A s \in Seq(Line) : s \in File /\ Lines(s) = s
  /\ <<>> \in Seq(Line) /\ Absent \in File /\ Lines(Absent) = <<>> /\ Lines(<<>>) = <<>>
<1>1. <<>> \in Seq(Line)
  BY EmptySeq
<1>2. \A s \in Seq(Line) : s # Absent
  BY OwnedFileAssumption
<1>. QED
  BY <1>1, <1>2 DEF File, Lines

\* Where a key is set, and to what.
LEMMA SettingsType ==
  ASSUME NEW f \in File, NEW k
  PROVE  \A i \in Settings(f, k) : /\ i \in 1 .. Len(Lines(f)) /\ Lines(f)[i] \in Keys \X Values
                                   /\ Lines(f)[i][1] = k /\ Lines(f)[i][2] \in Values
<1>1. Lines(f) \in Seq(Line)
  BY LinesType
<1>2. DOMAIN Lines(f) = 1 .. Len(Lines(f)) /\ \A i \in 1 .. Len(Lines(f)) : Lines(f)[i] \in Line
  BY <1>1, LenProperties
<1>. QED
  BY <1>2 DEF Settings, Line

\* The first and the last value are values the key is given.
LEMMA ValueIsGiven ==
  ASSUME NEW f \in File, NEW k, Sets(f, k)
  PROVE  /\ \E i \in Settings(f, k) : FirstValue(f, k) = Lines(f)[i][2]
         /\ \E i \in Settings(f, k) : LastValue(f, k) = Lines(f)[i][2]
         /\ FirstValue(f, k) \in Values /\ LastValue(f, k) \in Values
<1> DEFINE S == Settings(f, k)
           n == Len(Lines(f))
           Mirrored == {n - i : i \in S}
<1>1. n \in Nat /\ S \subseteq 1 .. n /\ S # {}
  <2>1. n \in Nat
    BY LinesType, LenProperties
  <2>. QED
    BY <2>1, SettingsType DEF Sets
<1>2. \E i \in S : \A j \in S : i <= j
  BY <1>1, LeastNat
<1>3. \E i \in S : \A j \in S : j <= i
  <2>1. Mirrored \subseteq Nat /\ Mirrored # {}
    BY <1>1
  <2>2. PICK m \in Mirrored : \A x \in Mirrored : m <= x
    BY <2>1, LeastNat
  <2>3. PICK i \in S : m = n - i
    BY <2>2
  <2>4. ASSUME NEW j \in S PROVE j <= i
    <3>1. n - j \in Mirrored /\ n - i <= n - j
      BY <2>2, <2>3
    <3>. QED
      BY <1>1, <3>1
  <2>. QED
    BY <2>4
<1>4. \E i \in S : FirstValue(f, k) = Lines(f)[i][2]
  BY <1>2 DEF FirstValue
<1>5. \E i \in S : LastValue(f, k) = Lines(f)[i][2]
  BY <1>3 DEF LastValue
<1>. QED
  BY <1>4, <1>5, SettingsType

\* What the rendered file says: what the manifest declares, and nothing else.
LEMMA RenderSays ==
  ASSUME NEW d \in Manifests
  PROVE  /\ render(d) \in Seq(Line) /\ render(d) \in File /\ Lines(render(d)) = render(d)
         /\ render(d) # <<>>
         /\ \A k \in DOMAIN d : /\ Sets(render(d), k)
                                /\ FirstValue(render(d), k) = d[k] /\ LastValue(render(d), k) = d[k]
         /\ \A k : k \notin DOMAIN d => ~Sets(render(d), k)
<1> DEFINE n == Len(KeyOrder)
           f == [i \in 1 .. n |->
                   IF KeyOrder[i] \in DOMAIN d THEN <<<<KeyOrder[i], d[KeyOrder[i]]>>>> ELSE <<>>]
           body == FlattenSeq(f)
<1>1. n \in Nat /\ DOMAIN KeyOrder = 1 .. n /\ \A i \in 1 .. n : KeyOrder[i] \in Keys
  BY LenProperties, OwnedFileAssumption
<1>2. \A k \in DOMAIN d : k \in Keys /\ <<k, d[k]>> \in Line
  BY OwnedFileAssumption DEF Line
<1>3. f \in [1 .. n -> Seq(Line)]
  <2>1. \A i \in 1 .. n : f[i] \in Seq(Line)
    BY <1>2, LinesType
  <2>. QED
    BY <2>1
<1>4. /\ body \in Seq(Line)
      /\ \A x \in ToSet(body) : \E i \in 1 .. n : x \in ToSet(f[i])
      /\ \A i \in 1 .. n : ToSet(f[i]) \subseteq ToSet(body)
  <2> HIDE DEF f, n
  <2>. QED
    BY <1>1, <1>3, FlattenFunction
<1>5. \A i \in 1 .. n : ToSet(f[i]) = IF KeyOrder[i] \in DOMAIN d THEN {<<KeyOrder[i], d[KeyOrder[i]]>>} ELSE {}
  BY ToSetEmpty DEF ToSet
<1>6. /\ \A x \in ToSet(body) : \E k \in DOMAIN d : x = <<k, d[k]>>
      /\ \A k \in DOMAIN d : <<k, d[k]>> \in ToSet(body)
  <2>1. \A x \in ToSet(body) : \E k \in DOMAIN d : x = <<k, d[k]>>
    BY <1>4, <1>5
  <2>2. ASSUME NEW k \in DOMAIN d PROVE <<k, d[k]>> \in ToSet(body)
    <3>1. PICK i \in 1 .. n : KeyOrder[i] = k
      BY <1>1, <1>2 DEF Keys, ToSet
    <3>. QED
      BY <1>4, <1>5, <3>1
  <2>. QED
    BY <2>1, <2>2
<1>7. render(d) = <<Header>> \o body
  BY DEF render
<1> HIDE DEF body
<1>8. <<Header>> \in Seq(Line) /\ ToSet(<<Header>>) = {Header}
  BY DEF Line, ToSet
<1>9. render(d) \in Seq(Line) /\ ToSet(render(d)) = {Header} \union ToSet(body)
  <2>0. \A s, t \in Seq(Line) : ToSet(s \o t) = ToSet(s) \union ToSet(t)
    BY ToSetConcat
  <2>1. ToSet(<<Header>> \o body) = ToSet(<<Header>>) \union ToSet(body)
    BY <1>4, <1>8, <2>0, Zenon
  <2>2. <<Header>> \o body \in Seq(Line)
    BY <1>4, <1>8, ConcatProperties
  <2>. QED
    BY <1>7, <1>8, <2>1, <2>2, Zenon
<1>10. render(d) \in File /\ Lines(render(d)) = render(d)
  BY <1>9, LinesType
<1>11. render(d) # <<>>
  BY <1>9, ToSetEmpty
<1>12. DOMAIN render(d) = 1 .. Len(render(d))
       /\ ToSet(render(d)) = {render(d)[i] : i \in DOMAIN render(d)}
  BY <1>9, LenProperties DEF ToSet
<1>13. ASSUME NEW k, NEW i \in Settings(render(d), k) PROVE k \in DOMAIN d /\ render(d)[i] = <<k, d[k]>>
  <2>1. i \in DOMAIN render(d) /\ render(d)[i] # Header /\ render(d)[i][1] = k
    BY <1>10 DEF Settings
  <2>2. render(d)[i] \in ToSet(body)
    BY <1>9, <1>12, <2>1
  <2>. QED
    BY <1>6, <2>1, <2>2
<1>14. ASSUME NEW k \in DOMAIN d PROVE Sets(render(d), k)
  <2>0. <<k, d[k]>> \in ToSet(render(d))
    BY <1>6, <1>9
  <2>1. PICK i \in DOMAIN render(d) : render(d)[i] = <<k, d[k]>>
    BY <1>12, <2>0
  <2>2. <<k, d[k]>> # Header /\ <<k, d[k]>>[1] = k
    BY OwnedFileAssumption
  <2>3. i \in Settings(render(d), k)
    BY <1>10, <2>1, <2>2 DEF Settings
  <2>. QED
    BY <2>3 DEF Sets
<1>15. ASSUME NEW k \in DOMAIN d PROVE FirstValue(render(d), k) = d[k] /\ LastValue(render(d), k) = d[k]
  <2>1. PICK i \in Settings(render(d), k) : FirstValue(render(d), k) = render(d)[i][2]
    BY <1>10, <1>14, ValueIsGiven
  <2>2. PICK j \in Settings(render(d), k) : LastValue(render(d), k) = render(d)[j][2]
    BY <1>10, <1>14, ValueIsGiven
  <2>. QED
    BY <1>13, <2>1, <2>2
<1>. QED
  BY <1>9, <1>10, <1>11, <1>13, <1>14, <1>15 DEF Sets

\* Files with the same lines say the same.
LEMMA SameLines ==
  ASSUME NEW f, NEW g, Lines(f) = Lines(g)
  PROVE  \A k : /\ Sets(f, k) <=> Sets(g, k)
                /\ FirstValue(f, k) = FirstValue(g, k) /\ LastValue(f, k) = LastValue(g, k)
BY DEF Sets, FirstValue, LastValue, Settings

\* Another line for a key that is not refused does not make a file refused.
LEMMA EditKeepsAccepted ==
  ASSUME NEW f \in Seq(Line), NEW k \in Keys \ Refused, NEW v \in Values
  PROVE  /\ Append(f, <<k, v>>) \in Seq(Line)
         /\ Accepted(f) => Accepted(Append(f, <<k, v>>))
<1>1. <<k, v>> \in Line
  BY DEF Line
<1>2. /\ Append(f, <<k, v>>) \in Seq(Line) /\ Len(f) \in Nat
      /\ DOMAIN f = 1 .. Len(f) /\ DOMAIN Append(f, <<k, v>>) = 1 .. Len(f) + 1
      /\ \A i \in 1 .. Len(f) : Append(f, <<k, v>>)[i] = f[i]
      /\ Append(f, <<k, v>>)[Len(f) + 1] = <<k, v>>
  BY <1>1, AppendProperties, LenProperties
<1>3. ASSUME NEW r \in Refused, NEW i \in Settings(Append(f, <<k, v>>), r) PROVE i \in Settings(f, r)
  <2>1. Lines(f) = f /\ Lines(Append(f, <<k, v>>)) = Append(f, <<k, v>>)
    BY <1>2, LinesType
  <2>2. i \in 1 .. Len(f) + 1 /\ Append(f, <<k, v>>)[i] # Header /\ Append(f, <<k, v>>)[i][1] = r
    BY <1>2, <2>1 DEF Settings
  <2>3. i # Len(f) + 1
    BY <1>2, <2>2
  <2>4. i \in 1 .. Len(f)
    BY <1>2, <2>2, <2>3
  <2>. QED
    BY <1>2, <2>1, <2>2, <2>4 DEF Settings
<1>. QED
  BY <1>2, <1>3 DEF Accepted, Sets

\* Nothing is set where there is no file.
LEMMA AbsentSetsNothing == Accepted(Absent) /\ \A k : ~Sets(Absent, k)
<1>1. DOMAIN Lines(Absent) = {}
  BY LinesType
<1>. QED
  BY <1>1 DEF Accepted, Sets, Settings

-----------------------------------------------------------------------------
(* The steps, by what they leave alone. *)

Planning == Plan \/ PlanMistakes \/ PlanFails
Applying ==
  Write \/ WriteFails \/ SysctlLoad \/ SysctlLoadFails \/ SshdTest \/ SshdTestFails
    \/ SshdRemove \/ SshdReload \/ SshdReloadLost
Undoing == UndoByRemoval \/ UndoByWriting \/ UndoDropIn \/ UndoLoads \/ RollbackReturns
Editing == EditFile \/ \E k \in Keys, v \in Values : SetLive(k, v)

\* Every step is one of these.
LEMMA StepKinds == Next => Planning \/ Applying \/ BeginRollback \/ Undoing \/ Restart \/ Editing
BY DEF Next, Planning, Applying, Undoing, Editing

\* Plan only looks.
LEMMA PlanningLeaves ==
  ASSUME Planning
  PROVE  /\ UNCHANGED <<kind, file, live, desired, applied, left, edits, born, clean, killed, stranded>>
         /\ pc = "idle" /\ verb' = "apply"
         /\ since'.faults = faults /\ since'.edits = edits
         /\ faults' = faults \/ faults' = faults + 1
BY DEF Planning, Plan, PlanMistakes, PlanFails, PlanRest, Call, Fault, NoFault

\* Apply records at most what Plan saw.
LEMMA ApplyingLeaves ==
  ASSUME kind \in {"sysctl", "limits", "sshd"}, Applying
  PROVE  /\ UNCHANGED <<kind, desired, before, left, verb, edits, since, born, killed>>
         /\ faults' = faults \/ faults' = faults + 1
         /\ applied' = applied \/ applied' = Append(applied, before)
BY DEF Applying, Write, WriteFails, SysctlLoad, SysctlLoadFails, SshdTest, SshdTestFails, SshdRemove,
       SshdReload, SshdReloadLost, VerbRest, Fault, NoFault, Done, Failed

\* Rollback keeps the record, and goes one back in it.
LEMMA UndoingLeaves ==
  ASSUME Undoing
  PROVE  /\ UNCHANGED <<kind, desired, before, applied, verb, edits, since, born, killed>>
         /\ faults' = faults \/ faults' = faults + 1
         /\ left' = left \/ left' = left - 1
BY DEF Undoing, UndoByRemoval, UndoByWriting, UndoDropIn, UndoLoads, RollbackReturns, VerbRest, StepBack,
       Fault, NoFault

\* Others leave the process alone.
LEMMA EditingLeaves ==
  ASSUME Editing
  PROVE  /\ UNCHANGED <<kind, desired, pc, before, applied, left, verb, ret, faults, since, born, clean, killed, stranded>>
         /\ edits' = edits + 1
BY DEF Editing, EditFile, SetLive, Edited, process

-----------------------------------------------------------------------------
(* Type correctness. *)

\* The type invariant in parts: the host,
HostOK ==
  kind \in {"sysctl", "limits", "sshd"} /\ file \in File /\ live \in [Keys -> Values \union {Default}]

\* the process,
ProcessOK ==
  /\ desired \in Manifests
  /\ pc \in {"idle", "write", "load", "test", "remove", "undo", "reload"}
  /\ before \in Seq(Line) /\ applied \in Seq(Seq(Line))
  /\ left \in Nat /\ left <= Len(applied)
  /\ verb \in {"none", "apply", "rollback"} /\ ret \in {"ok", "error", "failed"}
  /\ faults \in Nat /\ edits \in Nat

\* which manager does what,
StagesOK ==
  /\ pc \in {"write", "load", "test", "remove"} => verb = "apply"
  /\ pc \in {"undo", "reload"} => verb = "rollback"
  /\ pc = "load" => kind # "limits"
  /\ pc \in {"test", "remove"} => kind = "sshd"
  /\ pc = "reload" => left > 0 /\ kind # "limits"

\* and when the verb and the process began.
BeganOK ==
  /\ since.edits \in Nat /\ since.edits <= edits
  /\ born.faults \in Nat /\ born.faults <= faults
  /\ born.edits \in Nat /\ born.edits <= edits
  /\ born.file \in File

\* What a write of some lines leaves.
LEMMA LeftoversType ==
  ASSUME file \in File, NEW content \in Seq(Line)
  PROVE  Leftovers(content) \subseteq File
<1>1. Len(content) \in Nat /\ \A i \in 1 .. Len(content) : content[i] \in Line
  BY LenProperties
<1>2. \A n \in 0 .. Len(content) : SubSeq(content, 1, n) \in Seq(Line)
  <2> SUFFICES ASSUME NEW n \in 0 .. Len(content) PROVE SubSeq(content, 1, n) \in Seq(Line)
    OBVIOUS
  <2>1. n \in Int /\ 1 \in Int /\ \A i \in 1 .. n : content[i] \in Line
    BY <1>1
  <2>. QED
    BY <2>1, SubSeqProperties
<1>. QED
  BY <1>2, LinesType DEF Leftovers

\* What loading a file gives.
LEMMA LoadsType ==
  ASSUME HostOK
  PROVE  /\ SysctlLoads \in [Keys -> Values \union {Default}]
         /\ SshdLoads \in [Keys -> Values \union {Default}]
<1>1. \A k \in Keys : Sets(file, k) => FirstValue(file, k) \in Values /\ LastValue(file, k) \in Values
  BY ValueIsGiven DEF HostOK
<1>. QED
  BY <1>1 DEF SysctlLoads, SshdLoads, HostOK

\* The change that Rollback takes back.
LEMMA UndoneType ==
  ASSUME ProcessOK, left > 0
  PROVE  applied[left] \in Seq(Line) /\ left \in 1 .. Len(applied)
BY LenProperties DEF ProcessOK

\* The process starts typed.
LEMMA InitTyped == Init => HostOK /\ ProcessOK /\ StagesOK /\ BeganOK
<1> SUFFICES ASSUME Init PROVE HostOK /\ ProcessOK /\ StagesOK /\ BeganOK
  OBVIOUS
<1>1. file \in File /\ kind \in {"sysctl", "limits", "sshd"}
  BY OwnedFileAssumption DEF Init
<1>2. live \in [Keys -> Values \union {Default}]
  <2>1. \A k \in Keys : Sets(file, k) => LastValue(file, k) \in Values
    BY <1>1, ValueIsGiven
  <2>. QED
    BY <2>1 DEF Init
<1>3. applied = <<>> /\ Len(applied) = 0 /\ applied \in Seq(Seq(Line)) /\ before \in Seq(Line)
  BY EmptySeq DEF Init
<1>. QED
  BY <1>1, <1>2, <1>3 DEF Init, HostOK, ProcessOK, StagesOK, BeganOK

\* Every step keeps the host's type,
LEMMA StepHost ==
  ASSUME HostOK, ProcessOK, [Next]_vars
  PROVE  HostOK'
<1>1. UNCHANGED kind
  BY StepKinds, PlanningLeaves, ApplyingLeaves, UndoingLeaves, EditingLeaves DEF vars, BeginRollback, Restart, HostOK
<1>2. file' \in File
  <2>1. render(desired) \in Seq(Line) /\ render(desired) \in File
    BY RenderSays DEF ProcessOK
  <2>2. Leftovers(render(desired)) \subseteq File /\ file \in File /\ Absent \in File
    BY <2>1, LeftoversType, LinesType DEF HostOK
  <2>3. left > 0 => applied[left] \in File /\ Leftovers(applied[left]) \subseteq File
    BY UndoneType, LinesType, LeftoversType DEF HostOK
  <2>4. CASE Restart
    <3>1. file' \in Leftovers(render(desired)) \/ (left > 0 /\ file' \in Leftovers(applied[left])) \/ file' = file
      BY <2>4 DEF Restart
    <3>. QED
      BY <2>2, <2>3, <3>1
  <2>5. CASE EditFile
    <3>1. \A k \in Keys \ Refused, v \in Values : file # Absent => Append(file, <<k, v>>) \in File
      BY <2>2, EditKeepsAccepted DEF File
    <3>2. file # Absent /\ (file' = Absent \/ \E k \in Keys \ Refused, v \in Values : file' = Append(file, <<k, v>>))
      BY <2>5 DEF EditFile
    <3>. QED
      BY <2>2, <3>1, <3>2
  <2>6. CASE Write \/ WriteFails \/ SshdRemove \/ UndoDropIn
    BY <2>1, <2>2, <2>6 DEF Write, WriteFails, SshdRemove, UndoDropIn
  <2>7. CASE UndoByRemoval \/ UndoByWriting
    BY <2>2, <2>3, <2>7 DEF UndoByRemoval, UndoByWriting
  <2>8. CASE UNCHANGED file
    BY <2>2, <2>8
  <2>9. Applying \/ Undoing => Write \/ WriteFails \/ SshdRemove \/ UndoDropIn
                                \/ UndoByRemoval \/ UndoByWriting \/ UNCHANGED file
    BY DEF Applying, Undoing, SysctlLoad, SysctlLoadFails, SshdTest, SshdTestFails, SshdReload, SshdReloadLost,
           UndoLoads, RollbackReturns
  <2>10. Editing => EditFile \/ UNCHANGED file
    BY DEF Editing, SetLive
  <2>. QED
    BY <2>4, <2>5, <2>6, <2>7, <2>8, <2>9, <2>10, StepKinds, PlanningLeaves DEF vars, BeginRollback
<1>3. live' \in [Keys -> Values \union {Default}]
  <2>1. CASE SysctlLoad \/ SshdReload \/ UndoLoads
    BY <2>1, LoadsType DEF SysctlLoad, SshdReload, UndoLoads, HostOK
  <2>2. CASE \E k \in Keys, v \in Values : SetLive(k, v)
    BY <2>2 DEF SetLive, HostOK
  <2>3. CASE UNCHANGED live
    BY <2>3 DEF HostOK
  <2>4. Applying \/ Undoing => SysctlLoad \/ SshdReload \/ UndoLoads \/ UNCHANGED live
    BY DEF Applying, Undoing, Write, WriteFails, SysctlLoadFails, SshdTest, SshdTestFails, SshdRemove,
           SshdReloadLost, UndoByRemoval, UndoByWriting, UndoDropIn, RollbackReturns
  <2>5. Editing => (\E k \in Keys, v \in Values : SetLive(k, v)) \/ UNCHANGED live
    BY DEF Editing, EditFile
  <2>. QED
    BY <2>1, <2>2, <2>3, <2>4, <2>5, StepKinds, PlanningLeaves DEF vars, BeginRollback, Restart
<1>. QED
  BY <1>1, <1>2, <1>3 DEF HostOK

\* the process's,
LEMMA StepProcess ==
  ASSUME HostOK, ProcessOK, StagesOK, [Next]_vars
  PROVE  ProcessOK' /\ StagesOK'
<1> USE DEF ProcessOK, StagesOK, counts, Fault, NoFault, Return
<1>1. CASE Planning
  <2>1. /\ pc' \in {"idle", "write"} /\ ret' \in {ret, "ok", "error"}
        /\ before' \in {before, Lines(file), <<>>}
    BY <1>1 DEF Planning, Plan, PlanMistakes, PlanFails, Planned
  <2>2. Lines(file) \in Seq(Line) /\ <<>> \in Seq(Line)
    BY LinesType DEF HostOK
  <2>3. before' \in Seq(Line)
    BY <2>1, <2>2
  <2>. QED
    BY <1>1, <2>1, <2>3, PlanningLeaves
<1>2. CASE Applying
  <2>1. /\ verb = "apply" /\ ret' \in {ret, "ok", "failed"}
        /\ pc' \in {"idle", "load", "test", "remove"}
        /\ pc' = "load" => kind # "limits"
        /\ pc' \in {"test", "remove"} => kind = "sshd"
    BY <1>2 DEF Applying, Write, WriteFails, SysctlLoad, SysctlLoadFails, SshdTest, SshdTestFails, SshdRemove,
                SshdReload, SshdReloadLost, Done, Failed, HostOK
  <2>2. /\ Append(applied, before) \in Seq(Seq(Line)) /\ Len(Append(applied, before)) = Len(applied) + 1
        /\ Len(applied) \in Nat
    BY AppendProperties, LenProperties
  <2>3. applied' \in Seq(Seq(Line)) /\ left' <= Len(applied')
    <3>1. left' = left /\ (applied' = applied \/ applied' = Append(applied, before))
      BY <1>2, ApplyingLeaves DEF HostOK
    <3>2. CASE applied' = applied
      BY <3>1, <3>2
    <3>3. CASE applied' = Append(applied, before)
      BY <2>2, <3>1, <3>3
    <3>. QED
      BY <3>1, <3>2, <3>3
  <2>. QED
    BY <1>2, <2>1, <2>3, ApplyingLeaves DEF HostOK
<1>3. CASE BeginRollback
  BY <1>3, LenProperties DEF BeginRollback, Call
<1>4. CASE Undoing
  <2>1. /\ verb = "rollback" /\ ret' \in {ret, "ok", "error"}
        /\ pc' \in {"idle", "undo", "reload"}
        /\ pc' = "reload" => left' = left /\ left > 0 /\ kind # "limits"
        /\ left' = left \/ (left > 0 /\ left' = left - 1)
    BY <1>4 DEF Undoing, UndoByRemoval, UndoByWriting, UndoDropIn, UndoLoads, RollbackReturns, StepBack, HostOK
  <2>2. left' \in Nat /\ left' <= Len(applied')
    BY <1>4, <2>1, LenProperties, UndoingLeaves
  <2>. QED
    BY <1>4, <2>1, <2>2, UndoingLeaves
<1>5. CASE Restart
  <2>1. applied' = <<>> /\ Len(applied') = 0 /\ applied' \in Seq(Seq(Line))
        /\ before' = <<>> /\ before' \in Seq(Line)
    BY <1>5, EmptySeq DEF Restart
  <2>. QED
    BY <1>5, <2>1 DEF Restart
<1>6. CASE Editing
  BY <1>6, EditingLeaves
<1>7. CASE UNCHANGED vars
  BY <1>7 DEF vars, process
<1>. QED
  BY <1>1, <1>2, <1>3, <1>4, <1>5, <1>6, <1>7, StepKinds

\* and the order of what it remembers.
LEMMA StepBegan ==
  ASSUME HostOK, HostOK', ProcessOK, BeganOK, [Next]_vars
  PROVE  BeganOK'
<1>1. /\ faults' = faults \/ faults' = faults + 1
      /\ edits' = edits \/ edits' = edits + 1
      /\ since'.edits = since.edits \/ since'.edits = edits
      /\ \/ UNCHANGED born
         \/ born'.faults = faults /\ born'.edits = edits /\ born'.file = file'
  BY StepKinds, PlanningLeaves, ApplyingLeaves, UndoingLeaves, EditingLeaves
     DEF vars, process, counts, BeginRollback, Call, Restart, HostOK
<1>. QED
  BY <1>1 DEF BeganOK, HostOK, ProcessOK

\* The type invariant.
Typed == HostOK /\ ProcessOK /\ StagesOK /\ BeganOK

\* Every step keeps it.
LEMMA StepTyped == Typed /\ [Next]_vars => Typed'
BY StepHost, StepProcess, StepBegan DEF Typed

\* In every reachable state the variables have their types, and Rollback stays
\* within what the process has recorded.
THEOREM TypeCorrect == Spec => []TypeOK
<1>1. Init => Typed
  BY InitTyped DEF Typed
<1>2. Typed => TypeOK
  <2> SUFFICES ASSUME Typed PROVE TypeOK
    OBVIOUS
  <2>1. \A i \in DOMAIN applied : applied[i] \in Seq(Line)
    BY LenProperties DEF Typed, ProcessOK
  <2>. QED
    BY <2>1 DEF Typed, HostOK, ProcessOK, StagesOK, TypeOK
<1>. QED
  BY <1>1, <1>2, StepTyped, PTL DEF Spec

-----------------------------------------------------------------------------
(* No rejected drop-in stays. *)

\* Only while sshd -t looks at it, or has rejected it, or where it was stranded, may
\* a drop-in be bad; what is about to be loaded has been accepted.
DropInInv ==
  /\ kind = "sshd" /\ ~stranded /\ pc \in {"idle", "undo", "reload"} => Accepted(file)
  /\ kind = "sshd" /\ pc = "load" => Accepted(file)

\* A process is killed only where it is not idle.
LEMMA KilledOnlyBusy ==
  ASSUME HostOK, [Next]_vars, ~killed'
  PROVE  ~killed /\ (Restart => pc = "idle")
<1>1. CASE Restart
  BY <1>1, Zenon DEF Restart
<1>2. CASE ~Restart
  <2>1. killed' = killed
    BY <1>2, StepKinds, PlanningLeaves, ApplyingLeaves, UndoingLeaves, EditingLeaves DEF vars, BeginRollback, HostOK
  <2>. QED
    BY <1>2, <2>1
<1>. QED
  BY <1>1, <1>2

\* The count of faults only grows.
LEMMA FaultsGrow == HostOK /\ [Next]_vars => faults' = faults \/ faults' = faults + 1
BY StepKinds, PlanningLeaves, ApplyingLeaves, UndoingLeaves, EditingLeaves
   DEF vars, counts, BeginRollback, Restart, HostOK

\* No step but a write or an rm that fails, or a kill around them, leaves a
\* rejected drop-in.
LEMMA StepDropIn == Typed /\ DropInInv /\ [Next]_vars => DropInInv'
<1> SUFFICES ASSUME Typed, DropInInv, [Next]_vars,
                    kind' = "sshd",
                    pc' = "load" \/ (~stranded' /\ pc' \in {"idle", "undo", "reload"})
             PROVE  Accepted(file)'
  BY DEF DropInInv
<1>1. /\ faults \in Nat /\ file \in File /\ HostOK /\ desired \in Manifests
      /\ pc \in {"write", "load", "test", "remove", "undo", "reload", "idle"}
  BY DEF Typed, ProcessOK, HostOK
<1>2. kind = "sshd"
  BY <1>1, StepKinds, PlanningLeaves, ApplyingLeaves, UndoingLeaves, EditingLeaves DEF vars, BeginRollback, Restart, HostOK
<1>3. ASSUME file' = file, Accepted(file) PROVE Accepted(file)'
  BY <1>3 DEF Accepted, Sets, Settings, Lines
<1>4. ASSUME file' = Absent PROVE Accepted(file)'
  BY <1>4, AbsentSetsNothing DEF Accepted, Sets, Settings, Lines
<1>5. pc = "load" \/ (~stranded /\ pc \in {"idle", "undo", "reload"}) => Accepted(file)
  BY <1>2 DEF DropInInv
<1>6. CASE Planning \/ BeginRollback
  <2>1. pc = "idle" /\ stranded' = stranded /\ file' = file /\ pc' # "load"
    BY <1>6 DEF Planning, Plan, PlanMistakes, PlanFails, PlanRest, Planned, Return, BeginRollback, Call
  <2>. QED
    BY <1>3, <1>5, <2>1
<1>7. CASE UNCHANGED vars
  BY <1>3, <1>5, <1>7 DEF vars, process
<1>8. CASE Restart
  <2>1. pc' = "idle" /\ ~stranded /\ pc \in {"load", "undo", "reload", "idle"}
    BY <1>1, <1>8, Zenon DEF Restart
  <2>2. file' = file
    BY <1>2, <1>8, <2>1 DEF Restart
  <2>. QED
    BY <1>3, <1>5, <2>1, <2>2
<1>9. CASE Applying
  <2>1. ~SysctlLoad /\ ~SysctlLoadFails
    BY <1>2 DEF SysctlLoad, SysctlLoadFails
  <2>2. CASE Write
    BY <1>2, <2>2 DEF Write
  <2>3. CASE WriteFails
    <3>1. pc' = "idle" /\ stranded' = (faults' # faults) /\ faults' # faults
      BY <1>1, <2>3 DEF WriteFails, VerbRest, Fault, Failed, Return
    <3>. QED
      BY <3>1
  <2>4. CASE SshdTest
    BY <1>3, <2>4 DEF SshdTest
  <2>5. CASE SshdTestFails
    BY <2>5 DEF SshdTestFails
  <2>6. CASE SshdRemove
    <3>1. pc' = "idle" /\ stranded' = (faults' # faults)
      BY <2>6 DEF SshdRemove, VerbRest, Failed, Return
    <3>2. file' = Absent \/ faults' # faults
      BY <1>1, <2>6 DEF SshdRemove, Fault
    <3>. QED
      BY <1>4, <3>1, <3>2
  <2>7. CASE SshdReload \/ SshdReloadLost
    BY <1>3, <1>5, <2>7 DEF SshdReload, SshdReloadLost
  <2>. QED
    BY <1>9, <2>1, <2>2, <2>3, <2>4, <2>5, <2>6, <2>7 DEF Applying
<1>10. CASE Undoing
  <2>1. ~UndoByRemoval /\ ~UndoByWriting
    BY <1>2 DEF UndoByRemoval, UndoByWriting
  <2>2. /\ pc \in {"undo", "reload"} /\ stranded' = stranded /\ pc' # "load"
        /\ file' = Absent \/ file' = file
    BY <1>10, <2>1 DEF Undoing, UndoDropIn, UndoLoads, RollbackReturns, StepBack, Return, VerbRest
  <2>. QED
    BY <1>3, <1>4, <1>5, <2>2
<1>11. CASE Editing
  <2>1. pc' = pc /\ stranded' = stranded /\ Accepted(file)
    BY <1>5, <1>11, EditingLeaves
  <2>2. CASE \E k \in Keys \ Refused, v \in Values : file' = Append(file, <<k, v>>) /\ file # Absent
    <3>1. PICK k \in Keys \ Refused, v \in Values : file' = Append(file, <<k, v>>) /\ file # Absent
      BY <2>2
    <3>2. file \in Seq(Line)
      BY <1>1, <3>1 DEF File
    <3>3. Accepted(Append(file, <<k, v>>))
      BY <2>1, <3>2, EditKeepsAccepted
    <3>. QED
      BY <3>1, <3>3 DEF Accepted, Sets, Settings, Lines
  <2>3. file' = file \/ file' = Absent
        \/ \E k \in Keys \ Refused, v \in Values : file' = Append(file, <<k, v>>) /\ file # Absent
    BY <1>11 DEF Editing, EditFile, SetLive
  <2>. QED
    BY <1>3, <1>4, <2>1, <2>2, <2>3
<1>. QED
  BY <1>6, <1>7, <1>8, <1>9, <1>10, <1>11, StepKinds

\* A drop-in that sshd -t rejects is left behind only where the write or the rm of
\* an Apply failed, or linuxctl was killed between them, and only until a later
\* Apply's write or rm succeeds.
THEOREM NoRejectedDropIn == Spec => []DropInIsAccepted
<1>1. Init => Typed /\ DropInInv
  BY InitTyped DEF Typed, Init, DropInInv
<1>2. DropInInv => DropInIsAccepted
  BY DEF DropInInv, DropInIsAccepted
<1>. QED
  BY <1>1, <1>2, StepTyped, StepDropIn, PTL DEF Spec

-----------------------------------------------------------------------------
(* What Apply returned without an error is in effect. *)

\* Every declared value is in the file, and for sysctl in the kernel.
InEffect ==
  \A k \in DOMAIN desired : Says(file, k, desired[k]) /\ (kind = "sysctl" => live[k] = desired[k])

\* While nobody else has acted since Apply began, it tests and loads the file it
\* has written.
EffectInv ==
  verb = "apply" /\ edits = since.edits =>
    /\ pc \in {"test", "load"} => file = render(desired)
    /\ pc = "idle" /\ ret = "ok" => InEffect

\* What the drop-in sets, sshd runs with.
FollowsFile == \A k \in Keys : Sets(file, k) => live[k] = LastValue(file, k)

\* While nothing failed, nobody else acted and no process was killed, sshd runs
\* with the drop-in wherever Apply and Rollback are not at work on it.
SshdInv ==
  kind = "sshd" /\ faults = 0 /\ edits = 0 /\ ~killed =>
    /\ pc \in {"idle", "write", "undo"} => FollowsFile
    /\ pc \in {"test", "load"} => file = render(desired)
    /\ pc = "reload" => file = Absent

\* The same, one step later.
LEMMA Later ==
  /\ InEffect' <=> \A k \in DOMAIN desired' :
                     Says(file', k, desired'[k]) /\ (kind' = "sysctl" => live'[k] = desired'[k])
  /\ FollowsFile' <=> \A k \in Keys : Sets(file', k) => live'[k] = LastValue(file', k)
  /\ render(desired)' = render(desired')
<1>1. InEffect' <=> \A k \in DOMAIN desired' :
                      Says(file', k, desired'[k]) /\ (kind' = "sysctl" => live'[k] = desired'[k])
  BY DEF InEffect, Says, Sets, LastValue, Settings, Lines
<1>2. FollowsFile' <=> \A k \in Keys : Sets(file', k) => live'[k] = LastValue(file', k)
  BY DEF FollowsFile, Sets, LastValue, Settings, Lines
<1>3. render(desired)' = render(desired')
  BY DEF render
<1>. QED
  BY <1>1, <1>2, <1>3

\* The rendered file says what the manifest declares.
LEMMA RenderedSays ==
  ASSUME NEW d \in Manifests, NEW f, f = render(d) \/ Lines(f) = render(d)
  PROVE  \A k \in DOMAIN d : Says(f, k, d[k])
<1>1. Lines(f) = Lines(render(d))
  BY RenderSays
<1>. QED
  BY <1>1, RenderSays, SameLines DEF Says

\* Where Plan finds nothing to do, all is in effect.
LEMMA NoDrift ==
  ASSUME Typed, NEW content, content = Lines(file) \/ (content = <<>> /\ kind # "sshd"), ~Drifts(content)
  PROVE  InEffect
<1>1. desired \in Manifests /\ file \in File /\ Lines(file) \in Seq(Line)
  BY LinesType DEF Typed, HostOK, ProcessOK
<1>2. CASE DOMAIN desired = {}
  BY <1>2 DEF InEffect
<1>3. CASE DOMAIN desired # {} /\ kind \in {"sysctl", "limits"}
  <2>1. content = render(desired) /\ (kind = "sysctl" => LiveDrift(desired) = {})
    BY <1>3 DEF Drifts
  <2>2. Lines(file) = render(desired)
    BY <1>1, <2>1, RenderSays
  <2>3. kind = "sysctl" => \A k \in DOMAIN desired : live[k] = desired[k]
    BY <2>1 DEF LiveDrift
  <2>. QED
    BY <1>1, <2>2, <2>3, RenderedSays DEF InEffect
<1>4. CASE DOMAIN desired # {} /\ kind = "sshd"
  <2>1. \A k \in DOMAIN desired : Says(Lines(file), k, desired[k])
    BY <1>4 DEF Drifts
  <2>2. Lines(Lines(file)) = Lines(file)
    BY <1>1, LinesType
  <2>. QED
    BY <1>4, <2>1, <2>2, SameLines DEF InEffect, Says
<1>. QED
  BY <1>2, <1>3, <1>4 DEF Typed, HostOK

\* Every step keeps Apply to what it has written.
LEMMA StepEffect == Typed /\ EffectInv /\ [Next]_vars => EffectInv'
<1> SUFFICES ASSUME Typed, EffectInv, [Next]_vars, verb' = "apply", edits' = since'.edits
             PROVE  /\ pc' \in {"test", "load"} => file' = render(desired')
                    /\ pc' = "idle" /\ ret' = "ok" => InEffect'
  BY Later DEF EffectInv
<1>1. /\ HostOK /\ desired \in Manifests /\ kind \in {"sysctl", "limits", "sshd"}
      /\ \A k \in DOMAIN desired : k \in Keys
  BY OwnedFileAssumption DEF Typed, HostOK, ProcessOK
<1>2. ~BeginRollback /\ ~Restart
  BY DEF BeginRollback, Call, Restart
<1>3. ~Undoing
  <2>1. Undoing => verb = "rollback"
    BY DEF Undoing, UndoByRemoval, UndoByWriting, UndoDropIn, UndoLoads, RollbackReturns, Typed, StagesOK
  <2>. QED
    BY <2>1, UndoingLeaves
<1>4. ~Editing
  BY EditingLeaves DEF Typed, BeganOK, ProcessOK
<1>5. CASE Planning
  <2>1. UNCHANGED <<kind, file, live, desired>> /\ pc' \in {"idle", "write"}
    BY <1>5, PlanningLeaves DEF Planning, Plan, PlanMistakes, PlanFails, Planned, Return
  <2>2. ASSUME pc' = "idle", ret' = "ok"
        PROVE  \E content : (content = Lines(file) \/ (content = <<>> /\ kind # "sshd")) /\ ~Drifts(content)
    BY <1>5, <2>2 DEF Planning, Plan, PlanMistakes, PlanFails, Planned, Return
  <2>3. pc' = "idle" /\ ret' = "ok" => InEffect
    BY <2>2, NoDrift
  <2>4. InEffect => InEffect'
    BY <2>1, Later DEF InEffect
  <2>. QED
    BY <2>1, <2>3, <2>4
<1>6. CASE Applying
  <2>1. UNCHANGED <<kind, desired>> /\ verb = "apply" /\ edits = since.edits
    BY <1>1, <1>6, ApplyingLeaves
  <2>2. pc \in {"test", "load"} => file = render(desired)
    BY <2>1 DEF EffectInv
  <2>3. file' = render(desired) => \A k \in DOMAIN desired' : Says(file', k, desired'[k])
    BY <1>1, <2>1, RenderedSays
  <2>4. CASE Write
    <3>1. file' = render(desired) /\ (pc' = "idle" => kind = "limits")
      BY <1>1, <2>4 DEF Write, Done, Return
    <3>. QED
      BY <2>1, <2>3, <3>1, Later
  <2>5. CASE SysctlLoad
    <3>1. /\ file' = file /\ file = render(desired) /\ live' = SysctlLoads /\ pc' = "idle"
          /\ ret' = "ok" => Accepted(file)
      BY <2>2, <2>5 DEF SysctlLoad, Done, Failed, Return
    <3>2. ASSUME Accepted(file), NEW k \in DOMAIN desired PROVE live'[k] = desired[k]
      <4>1. Sets(file, k) /\ LastValue(file, k) = desired[k] /\ k \in Keys
        BY <1>1, <3>1, RenderSays
      <4>2. k \notin Refused
        BY <3>2, <4>1 DEF Accepted
      <4>. QED
        BY <3>1, <4>1, <4>2 DEF SysctlLoads
    <3>. QED
      BY <2>1, <2>3, <3>1, <3>2, Later
  <2>6. CASE SshdTest
    <3>1. file' = file /\ file = render(desired) /\ pc' # "idle"
      BY <2>2, <2>6 DEF SshdTest
    <3>. QED
      BY <2>1, <3>1
  <2>7. CASE SshdReload
    <3>1. file' = file /\ file = render(desired) /\ pc' = "idle" /\ kind = "sshd"
      BY <2>2, <2>7 DEF SshdReload, Done, Return
    <3>. QED
      BY <2>1, <2>3, <3>1, Later
  <2>8. CASE WriteFails \/ SysctlLoadFails \/ SshdRemove \/ SshdReloadLost
    BY <2>8 DEF WriteFails, SysctlLoadFails, SshdRemove, SshdReloadLost, Failed, Return
  <2>9. CASE SshdTestFails
    BY <2>9 DEF SshdTestFails
  <2>. QED
    BY <1>6, <2>4, <2>5, <2>6, <2>7, <2>8, <2>9 DEF Applying
<1>7. CASE UNCHANGED vars
  <2>1. UNCHANGED <<kind, file, live, desired, pc, verb, ret, edits, since>>
    BY <1>7 DEF vars, process, counts
  <2>2. InEffect => InEffect'
    BY <2>1, Later DEF InEffect
  <2>. QED
    BY <2>1, <2>2 DEF EffectInv
<1>. QED
  BY <1>2, <1>3, <1>4, <1>5, <1>6, <1>7, StepKinds

\* Every step keeps sshd with its drop-in.
LEMMA StepSshd == Typed /\ SshdInv /\ [Next]_vars => SshdInv'
<1> SUFFICES ASSUME Typed, SshdInv, [Next]_vars, kind' = "sshd", faults' = 0, edits' = 0, ~killed'
             PROVE  /\ pc' \in {"idle", "write", "undo"} => FollowsFile'
                    /\ pc' \in {"test", "load"} => file' = render(desired')
                    /\ pc' = "reload" => file' = Absent
  BY Later DEF SshdInv
<1>1. /\ faults \in Nat /\ edits \in Nat /\ HostOK /\ desired \in Manifests
      /\ \A k \in DOMAIN desired : k \in Keys
  BY OwnedFileAssumption DEF Typed, ProcessOK
<1>2. /\ kind = "sshd" /\ edits = 0 /\ ~Editing
  BY <1>1, StepKinds, PlanningLeaves, ApplyingLeaves, UndoingLeaves, EditingLeaves
     DEF vars, counts, BeginRollback, Restart, HostOK
<1>3. faults = 0 /\ ~Fault
  BY <1>1, FaultsGrow DEF Fault
<1>4. /\ pc \in {"idle", "write", "undo"} => FollowsFile
      /\ pc \in {"test", "load"} => file = render(desired)
      /\ pc = "reload" => file = Absent
  BY <1>1, <1>2, <1>3, KilledOnlyBusy DEF SshdInv
<1>5. ASSUME UNCHANGED <<file, live>>, pc \in {"idle", "write", "undo"} PROVE FollowsFile'
  BY <1>4, <1>5, Later DEF FollowsFile
<1>6. ASSUME file' = Absent PROVE FollowsFile'
  BY <1>6, Later, AbsentSetsNothing
<1>7. CASE Planning
  BY <1>5, <1>7, PlanningLeaves DEF Planning, Plan, PlanMistakes, PlanFails, Planned, Return
<1>8. CASE BeginRollback
  BY <1>5, <1>8 DEF BeginRollback, Call
<1>9. CASE Restart
  <2>1. pc = "idle" /\ UNCHANGED <<file, live>> /\ pc' = "idle"
    BY <1>1, <1>9, KilledOnlyBusy DEF Restart
  <2>. QED
    BY <1>5, <2>1
<1>10. CASE Applying
  <2>1. desired' = desired
    BY <1>1, <1>10, ApplyingLeaves DEF HostOK
  <2>2. ~WriteFails /\ ~SysctlLoad /\ ~SysctlLoadFails /\ ~SshdTestFails /\ ~SshdReloadLost
    BY <1>2, <1>3 DEF WriteFails, SysctlLoad, SysctlLoadFails, SshdTestFails, SshdReloadLost
  <2>3. CASE Write
    BY <1>2, <2>1, <2>3 DEF Write
  <2>4. CASE SshdTest
    BY <1>4, <2>1, <2>4 DEF SshdTest
  <2>5. CASE SshdRemove
    BY <1>3, <1>6, <2>5 DEF SshdRemove, Failed, Return
  <2>6. CASE SshdReload
    <3>1. file' = file /\ file = render(desired) /\ live' = SshdLoads /\ pc' = "idle"
      BY <1>3, <1>4, <2>6 DEF SshdReload, Done, Return
    <3>2. \A k \in Keys : Sets(file, k) => FirstValue(file, k) = LastValue(file, k)
      BY <1>1, <3>1, RenderSays
    <3>. QED
      BY <3>1, <3>2, Later DEF SshdLoads
  <2>. QED
    BY <1>10, <2>2, <2>3, <2>4, <2>5, <2>6 DEF Applying
<1>11. CASE Undoing
  <2>1. ~UndoByRemoval /\ ~UndoByWriting
    BY <1>2 DEF UndoByRemoval, UndoByWriting
  <2>2. CASE UndoDropIn
    BY <1>3, <2>2 DEF UndoDropIn
  <2>3. CASE UndoLoads
    BY <1>4, <1>6, <2>3 DEF UndoLoads, StepBack
  <2>4. CASE RollbackReturns
    BY <1>5, <2>4 DEF RollbackReturns, Return
  <2>. QED
    BY <1>11, <2>1, <2>2, <2>3, <2>4 DEF Undoing
<1>12. CASE UNCHANGED vars
  <2>1. UNCHANGED <<kind, file, live, desired, pc>>
    BY <1>12 DEF vars, process
  <2>. QED
    BY <1>4, <1>5, <2>1
<1>. QED
  BY <1>2, <1>7, <1>8, <1>9, <1>10, <1>11, <1>12, StepKinds

\* Whatever failed or was cut short before, an Apply that returns without an error
\* leaves every declared value in the file and, of sysctl, in the kernel; of sshd,
\* in the running daemon, if no reload was lost and nobody else wrote the drop-in.
THEOREM AppliesInEffect == Spec => []AppliedIsInEffect
<1>1. Init => Typed /\ EffectInv /\ SshdInv
  <2> SUFFICES ASSUME Init PROVE Typed /\ EffectInv /\ SshdInv
    OBVIOUS
  <2>1. Typed
    BY InitTyped DEF Typed
  <2>2. kind = "sshd" => FollowsFile
    <3>1. ASSUME kind = "sshd", NEW k \in Keys, Sets(file, k) PROVE live[k] = LastValue(file, k)
      <4>1. k \notin Refused
        BY <3>1 DEF Init, Accepted
      <4>. QED
        BY <3>1, <4>1 DEF Init
    <3>. QED
      BY <3>1 DEF FollowsFile
  <2>. QED
    BY <2>1, <2>2 DEF Init, EffectInv, SshdInv
<1>2. Typed /\ EffectInv /\ SshdInv => AppliedIsInEffect
  <2> SUFFICES ASSUME Typed, EffectInv, SshdInv, Idle("apply"), edits = since.edits, NEW k \in DOMAIN desired
               PROVE  /\ Says(file, k, desired[k])
                      /\ \/ kind = "sysctl"
                         \/ kind = "sshd" /\ faults = 0 /\ edits = 0 /\ ~killed
                         => live[k] = desired[k]
    BY DEF AppliedIsInEffect
  <2>1. Says(file, k, desired[k]) /\ (kind = "sysctl" => live[k] = desired[k])
    BY DEF EffectInv, Idle, InEffect
  <2>2. ASSUME kind = "sshd", faults = 0, edits = 0, ~killed PROVE live[k] = desired[k]
    <3>1. FollowsFile /\ k \in Keys
      BY <2>2, OwnedFileAssumption DEF SshdInv, Idle, Typed, ProcessOK
    <3>. QED
      BY <2>1, <3>1 DEF FollowsFile, Says
  <2>. QED
    BY <2>1, <2>2
<1>. QED
  BY <1>1, <1>2, StepTyped, StepEffect, StepSshd, PTL DEF Spec

-----------------------------------------------------------------------------
(* Rollback puts the file back. *)

\* The file says again what it said when the process started, and its values are
\* in the kernel again.
Restored ==
  /\ Lines(file) = Lines(born.file)
  /\ kind = "sysctl" =>
       \A k \in Keys \ Refused :
         Sets(born.file, k) /\ born.live[k] = LastValue(born.file, k) => live[k] = born.live[k]

\* The oldest entry of the record is the content that the process found: it is put
\* back last, so that nothing need be said of the others.
Recorded ==
  /\ applied # <<>> => applied[1] = Lines(born.file)
  /\ pc = "write" => before = Lines(file)
  /\ pc = "load" /\ applied = <<>> => before = Lines(born.file)
  /\ pc \in {"idle", "write", "undo"} /\ applied = <<>> => Restored
  /\ pc = "reload" => Lines(file) = applied[left]
  /\ pc = "undo" /\ left = 0 => Restored
  /\ pc = "idle" /\ verb = "rollback" => Restored

\* A process of sysctl or limits whose Applies succeeded and which nothing disturbed.
Undisturbed == kind # "sshd" /\ clean /\ faults = born.faults /\ edits = born.edits

\* The record of such a process leads back to what it found.
RecordInv == Undisturbed => Recorded

\* The same, one step later.
LEMMA RestoredLater ==
  Restored' <=>
    /\ Lines(file') = Lines(born'.file)
    /\ kind' = "sysctl" =>
         \A k \in Keys \ Refused :
           Sets(born'.file, k) /\ born'.live[k] = LastValue(born'.file, k) => live'[k] = born'.live[k]
BY DEF Restored, Sets, LastValue, Settings, Lines

\* A process that is undisturbed after a step was so before it.
LEMMA StaysUndisturbed ==
  ASSUME Typed, [Next]_vars, ~Restart, Undisturbed'
  PROVE  /\ Undisturbed /\ ~Fault /\ ~Editing /\ UNCHANGED <<kind, born>>
         /\ Applying => ret' # "failed"
<1>1. /\ HostOK /\ faults \in Nat /\ edits \in Nat
      /\ born.faults \in Nat /\ born.faults <= faults /\ born.edits \in Nat /\ born.edits <= edits
  BY DEF Typed, ProcessOK, BeganOK
<1>2. UNCHANGED <<kind, born>> /\ (edits' = edits \/ edits' = edits + 1) /\ (faults' = faults \/ faults' = faults + 1)
  BY <1>1, StepKinds, PlanningLeaves, ApplyingLeaves, UndoingLeaves, EditingLeaves
     DEF vars, counts, BeginRollback, HostOK
<1>3. faults = born.faults /\ faults' = faults /\ edits = born.edits /\ edits' = edits
  BY <1>1, <1>2 DEF Undisturbed
<1>4. ~Fault /\ ~Editing
  BY <1>1, <1>3, EditingLeaves DEF Fault
<1>5. Applying \/ Undoing => clean' = (clean /\ ret' # "failed")
  BY Zenon DEF Applying, Undoing, Write, WriteFails, SysctlLoad, SysctlLoadFails, SshdTest, SshdTestFails, SshdRemove,
         SshdReload, SshdReloadLost, UndoByRemoval, UndoByWriting, UndoDropIn, UndoLoads, RollbackReturns, VerbRest
<1>6. Applying \/ Undoing \/ clean' = clean
  BY StepKinds, PlanningLeaves, EditingLeaves DEF vars, BeginRollback
<1>7. clean'
  BY DEF Undisturbed
<1>8. clean /\ (Applying => ret' # "failed")
  BY <1>5, <1>6, <1>7, Zenon
<1>. QED
  BY <1>2, <1>3, <1>4, <1>7, <1>8 DEF Undisturbed

\* What Apply appends, it appends behind the content the process found.
LEMMA AppendsBehind ==
  ASSUME Typed, Recorded, Done, applied = <<>> => before = Lines(born.file)
  PROVE  applied' # <<>> /\ applied'[1] = Lines(born.file)
<1>1. /\ applied \in Seq(Seq(Line)) /\ before \in Seq(Line) /\ applied' = Append(applied, before)
      /\ Len(applied) \in Nat
  BY LenProperties DEF Typed, ProcessOK, Done
<1>2. /\ Len(applied') = Len(applied) + 1 /\ applied'[Len(applied) + 1] = before
      /\ \A i \in 1 .. Len(applied) : applied'[i] = applied[i]
  BY <1>1, AppendProperties
<1>3. applied = <<>> <=> Len(applied) = 0
  BY <1>1, EmptySeq
<1>4. applied' # <<>>
  BY <1>1, <1>2, EmptySeq
<1>5. CASE applied = <<>>
  BY <1>2, <1>3, <1>4, <1>5
<1>6. CASE applied # <<>>
  <2>1. 1 \in 1 .. Len(applied)
    BY <1>1, <1>3, <1>6
  <2>. QED
    BY <1>2, <1>4, <1>6, <2>1 DEF Recorded
<1>. QED
  BY <1>5, <1>6

\* Every step keeps the record.
LEMMA StepRecord == Typed /\ RecordInv /\ [Next]_vars => RecordInv'
<1> SUFFICES ASSUME Typed, RecordInv, [Next]_vars, Undisturbed' PROVE Recorded'
  BY DEF RecordInv
<1>1. CASE Restart
  <2>1. /\ applied' = <<>> /\ pc' = "idle" /\ verb' = "none"
        /\ born'.file = file' /\ born'.live = live /\ live' = live
    BY <1>1 DEF Restart
  <2>. QED
    BY <2>1, RestoredLater DEF Recorded
<1>2. CASE ~Restart
  <2>0. /\ Recorded /\ ~Fault /\ ~Editing /\ UNCHANGED <<kind, born>> /\ kind \in {"sysctl", "limits"}
        /\ Applying => ret' # "failed"
    BY <1>2, StaysUndisturbed DEF RecordInv, Undisturbed, Typed, HostOK
  <2>1. ASSUME UNCHANGED <<file, live>>, Restored PROVE Restored'
    BY <2>0, <2>1, RestoredLater DEF Restored
  <2>2. left > 0 => applied[left] \in Seq(Line) /\ left \in 1 .. Len(applied) /\ Len(applied) \in Nat
    BY UndoneType, LenProperties DEF Typed, ProcessOK
  <2>3. left > 0 => applied # <<>>
    BY <2>2, EmptySeq
  <2>4. CASE Planning
    <3>1. /\ UNCHANGED <<file, live, applied>> /\ pc = "idle" /\ verb' = "apply"
          /\ pc' \in {"idle", "write"} /\ (pc' = "write" => before' = Lines(file))
      BY <2>0, <2>4, PlanningLeaves DEF Planning, Plan, PlanMistakes, PlanFails, Planned, Return
    <3>2. Lines(file)' = Lines(file)
      BY <3>1 DEF Lines
    <3>3. applied = <<>> => Restored'
      BY <2>0, <2>1, <3>1 DEF Recorded
    <3>4. applied' # <<>> => applied'[1] = Lines(born.file)'
      BY <2>0, <3>1 DEF Recorded, Lines
    <3>. QED
      BY <3>1, <3>2, <3>3, <3>4 DEF Recorded
  <2>5. CASE Applying
    <3>1. /\ UNCHANGED <<before, left, verb>> /\ verb = "apply"
      BY <2>0, <2>5, ApplyingLeaves DEF Applying, Write, WriteFails, SysctlLoad, SysctlLoadFails, SshdTest,
             SshdTestFails, SshdRemove, SshdReload, SshdReloadLost, Typed, StagesOK
    <3>2. Write \/ SysctlLoad
      BY <2>0, <2>5 DEF Applying, WriteFails, SysctlLoadFails, SshdTest, SshdTestFails, SshdRemove,
             SshdReload, SshdReloadLost, Typed, StagesOK
    <3>3. Lines(born.file)' = Lines(born.file)
      BY <2>0 DEF Lines
    <3>4. CASE pc' = "load"
      <4>1. /\ pc = "write" /\ UNCHANGED applied
        BY <2>0, <3>2, <3>4 DEF Write, SysctlLoad, Done, Failed, Return
      <4>2. applied = <<>> => before = Lines(born.file)
        BY <2>0, <4>1 DEF Recorded, Restored
      <4>. QED
        BY <2>0, <3>1, <3>3, <3>4, <4>1, <4>2 DEF Recorded
    <3>5. CASE pc' # "load"
      <4>1. pc' = "idle" /\ Done /\ (applied = <<>> => before = Lines(born.file))
        BY <2>0, <2>5, <3>2, <3>5 DEF Write, SysctlLoad, Done, Failed, Return, Recorded, Restored
      <4>2. applied' # <<>> /\ applied'[1] = Lines(born.file)
        BY <2>0, <4>1, AppendsBehind
      <4>. QED
        BY <3>1, <3>3, <4>1, <4>2 DEF Recorded
    <3>. QED
      BY <3>4, <3>5
  <2>6. CASE BeginRollback
    <3>1. UNCHANGED <<file, live, applied>> /\ pc = "idle" /\ pc' = "undo" /\ left' = Len(applied)
      BY <2>6 DEF BeginRollback, Call
    <3>2. left' = 0 => applied = <<>>
      BY <3>1, EmptySeq DEF Typed, ProcessOK
    <3>3. applied = <<>> => Restored'
      BY <2>0, <2>1, <3>1 DEF Recorded
    <3>4. applied' # <<>> => applied'[1] = Lines(born.file)'
      BY <2>0, <3>1 DEF Recorded, Lines
    <3>. QED
      BY <3>1, <3>2, <3>3, <3>4 DEF Recorded
  <2>7. CASE Undoing
    <3>0. /\ UNCHANGED <<applied, verb>> /\ ~UndoDropIn
          /\ applied' # <<>> => applied'[1] = Lines(born.file)'
      BY <2>0, <2>7, UndoingLeaves DEF UndoDropIn, Recorded, Lines
    <3>1. CASE UndoByRemoval
      <4>1. file' = Absent /\ pc' = "undo" /\ left > 0 /\ left' = left - 1 /\ applied[left] = <<>>
        BY <2>0, <3>1 DEF UndoByRemoval, StepBack
      <4>2. ASSUME left' = 0 PROVE Restored'
        <5>1. left = 1
          BY <4>1, <4>2 DEF Typed, ProcessOK
        <5>2. Lines(born.file) = <<>> /\ Lines(Absent) = <<>>
          BY <2>0, <2>3, <4>1, <5>1, LinesType DEF Recorded
        <5>3. \A k : ~Sets(born.file, k)
          BY <5>2, SameLines, AbsentSetsNothing
        <5>. QED
          BY <2>0, <4>1, <5>2, <5>3, RestoredLater
      <4>. QED
        BY <2>3, <3>0, <4>1, <4>2 DEF Recorded
    <3>2. CASE UndoByWriting
      <4>1. /\ file' = applied[left] /\ left > 0
            /\ kind = "sysctl" => pc' = "reload" /\ left' = left
            /\ kind # "sysctl" => pc' = "undo" /\ left' = left - 1
        BY <2>0, <3>2 DEF UndoByWriting, StepBack
      <4>2. Lines(file') = applied[left]
        BY <2>2, <4>1, LinesType
      <4>3. CASE kind = "sysctl"
        <5>1. Lines(file)' = applied'[left']
          BY <3>0, <4>1, <4>2, <4>3 DEF Lines
        <5>. QED
          BY <3>0, <4>1, <4>3, <5>1 DEF Recorded
      <4>4. CASE kind # "sysctl"
        <5>1. ASSUME left' = 0 PROVE Restored'
          <6>1. left = 1
            BY <4>1, <4>4, <5>1 DEF Typed, ProcessOK
          <6>2. Lines(file') = Lines(born.file)
            BY <2>0, <2>3, <4>1, <4>2, <6>1 DEF Recorded
          <6>. QED
            BY <2>0, <4>4, <6>2, RestoredLater
        <5>. QED
          BY <2>3, <3>0, <4>1, <4>4, <5>1 DEF Recorded
      <4>. QED
        BY <4>3, <4>4
    <3>3. CASE UndoLoads
      <4>1. /\ pc = "reload" /\ kind = "sysctl" /\ left > 0 /\ live' = SysctlLoads /\ file' = file
            /\ pc' = "undo" /\ left' = left - 1
        BY <2>0, <3>3 DEF UndoLoads, StepBack, Typed, StagesOK
      <4>2. ASSUME left' = 0 PROVE Restored'
        <5>1. left = 1
          BY <4>1, <4>2 DEF Typed, ProcessOK
        <5>2. Lines(file) = Lines(born.file)
          BY <2>0, <2>3, <4>1, <5>1 DEF Recorded
        <5>3. \A k : (Sets(born.file, k) => Sets(file, k)) /\ LastValue(born.file, k) = LastValue(file, k)
          BY <5>2, SameLines
        <5>4. \A k \in Keys \ Refused : Sets(born.file, k) => live'[k] = LastValue(born.file, k)
          BY <4>1, <5>3 DEF SysctlLoads
        <5>. QED
          BY <2>0, <4>1, <5>2, <5>4, RestoredLater
      <4>. QED
        BY <2>3, <3>0, <4>1, <4>2 DEF Recorded
    <3>4. CASE RollbackReturns
      <4>1. pc = "undo" /\ left = 0 /\ pc' = "idle" /\ UNCHANGED <<file, live>>
        BY <3>4 DEF RollbackReturns, Return
      <4>2. Restored'
        BY <2>0, <2>1, <4>1 DEF Recorded
      <4>. QED
        BY <3>0, <4>1, <4>2 DEF Recorded
    <3>. QED
      BY <2>7, <3>0, <3>1, <3>2, <3>3, <3>4 DEF Undoing
  <2>8. CASE UNCHANGED vars
    <3>1. UNCHANGED <<file, live, born, pc, before, applied, left, verb>>
      BY <2>8 DEF vars, process
    <3>2. Lines(file)' = Lines(file) /\ Lines(born.file)' = Lines(born.file)
      BY <3>1 DEF Lines
    <3>3. Restored => Restored'
      BY <2>1, <3>1
    <3>. QED
      BY <2>0, <3>1, <3>2, <3>3 DEF Recorded
  <2>. QED
    BY <1>2, <2>0, <2>4, <2>5, <2>6, <2>7, <2>8, StepKinds
<1>. QED
  BY <1>1, <1>2

\* After Applies that all succeeded, Rollback of sysctl and limits puts the file
\* back as the process found it, and the values it sets are in effect again.
THEOREM RollbackTakesBack == Spec => []RollbackRestores
<1>1. Init => Typed /\ RecordInv
  BY InitTyped DEF Typed, Init, RecordInv, Recorded, Restored
<1>2. RecordInv => RollbackRestores
  BY DEF RecordInv, Undisturbed, Recorded, Restored, RollbackRestores, Idle
<1>. QED
  BY <1>1, <1>2, StepTyped, StepRecord, PTL DEF Spec
=============================================================================
