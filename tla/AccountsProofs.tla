--------------------------- MODULE AccountsProofs ---------------------------
(***************************************************************************)
(* What holds of the user and the ssh manager for any groups, users,       *)
(* manifests, hosts and bounds: no account of others goes, what the record *)
(* says is made is complete, an Apply settles a coherent manifest, and a   *)
(* Rollback leaves no new user.                                            *)
(***************************************************************************)
EXTENDS Accounts, SequenceTheorems, WellFoundedInduction, TLAPS

-----------------------------------------------------------------------------
(* Sequences. *)

\* Every set of naturals that is not empty has a first element.
LEMMA LeastNat ==
  ASSUME NEW S, S \subseteq Nat, S # {}
  PROVE  \E n \in S : \A m \in S : n <= m
<1>1. PICK n \in S : \A m \in S : <<m, n>> \notin OpToRel(<, Nat)
  BY NatLessThanWellFounded, WFMin
<1>2. \A m \in S : ~ (m < n)
  BY <1>1, Zenon DEF OpToRel
<1>3. \A m \in S : n <= m
  BY <1>2
<1>. QED
  BY <1>3, Zenon

\* The elements of a sequence over S are in S (o.applied, r.Applied).
LEMMA ToSetType ==
  ASSUME NEW S, NEW s \in Seq(S)
  PROVE  ToSet(s) \subseteq S
BY RangeOfSeq DEF ToSet, Range

\* Concatenating two sequences puts their elements together.
LEMMA ToSetConcat ==
  ASSUME NEW S, NEW s \in Seq(S), NEW t \in Seq(S)
  PROVE  ToSet(s \o t) = ToSet(s) \union ToSet(t)
<1>1. Range(s \o t) = Range(s) \union Range(t)
  BY RangeConcatenation
<1>. QED
  BY <1>1, Zenon DEF ToSet, Range

\* Appending c adds c to the elements.
LEMMA ToSetAppend ==
  ASSUME NEW S, NEW s \in Seq(S), NEW c \in S
  PROVE  ToSet(Append(s, c)) = ToSet(s) \union {c}
<1>1. Append(s, c) = s \o <<c>>
  BY AppendIsConcat
<1>2. <<c>> \in Seq(S) /\ ToSet(<<c>>) = {c}
  <2>1. <<c>> \in Seq(S) /\ DOMAIN <<c>> = {1} /\ <<c>>[1] = c
    OBVIOUS
  <2>. QED
    BY <2>1, Zenon DEF ToSet
<1>3. ToSet(s \o <<c>>) = ToSet(s) \union ToSet(<<c>>)
  BY <1>2, ToSetConcat
<1>4. ToSet(s \o <<c>>) = ToSet(s) \union {c}
  BY <1>2, <1>3, Zenon
<1>. QED
  BY <1>1, <1>4, Zenon

\* The empty sequence has no elements.
LEMMA ToSetEmpty == ToSet(<<>>) = {}
BY DEF ToSet

\* f is the sequence of what the first 1, 2, ... n parts of s are put together.
Sums(s, n, f) == f = [i \in 1 .. n |-> IF i = 1 THEN s[i] ELSE f[i - 1] \o s[i]]

\* There is such an f for every n.
LEMMA SumsExist ==
  ASSUME NEW s, NEW n \in Nat
  PROVE  \E f : Sums(s, n, f)
<1> DEFINE Bad == {k \in Nat : ~ \E f : Sums(s, k, f)}
<1> SUFFICES ASSUME Bad # {} PROVE FALSE
  OBVIOUS
<1>1. PICK k \in Bad : \A m \in Bad : k <= m
  BY LeastNat
<1>2. k # 0
  <2>1. Sums(s, 0, <<>>)
    BY DEF Sums
  <2>. QED
    BY <2>1, <1>1
<1>3. k - 1 \in Nat /\ k - 1 \notin Bad
  BY <1>1, <1>2
<1>4. PICK f : Sums(s, k - 1, f)
  BY <1>3
<1> DEFINE g == [i \in 1 .. k |-> IF i = k THEN IF k = 1 THEN s[1] ELSE f[k - 1] \o s[k] ELSE f[i]]
<1>5. \A i \in 1 .. k : g[i] = IF i = 1 THEN s[i] ELSE g[i - 1] \o s[i]
  <2> SUFFICES ASSUME NEW i \in 1 .. k
               PROVE  g[i] = IF i = 1 THEN s[i] ELSE g[i - 1] \o s[i]
    OBVIOUS
  <2>1. CASE i = 1 /\ k = 1
    BY <2>1
  <2>2. CASE i = k /\ k # 1
    <3>1. i - 1 \in 1 .. k /\ i - 1 # k
      BY <2>2
    <3>. QED
      BY <2>2, <3>1
  <2>3. CASE i # k
    <3>1. i \in 1 .. k - 1
      BY <2>3
    <3>2. f[i] = IF i = 1 THEN s[i] ELSE f[i - 1] \o s[i]
      BY <1>4, <3>1 DEF Sums
    <3>3. i # 1 => i - 1 \in 1 .. k /\ i - 1 # k
      BY <3>1
    <3>. QED
      BY <2>3, <3>2, <3>3
  <2>. QED
    BY <2>1, <2>2, <2>3
<1>6. Sums(s, k, g)
  <2>1. g = [i \in 1 .. k |-> g[i]]
    OBVIOUS
  <2>. QED
    BY <2>1, <1>5, Zenon DEF Sums
<1>. QED
  BY <1>1, <1>6

\* FlattenSeq gives what all of the parts are put together.
LEMMA FlattenIsLast ==
  ASSUME NEW s, Len(s) \in Nat, Len(s) # 0
  PROVE  \E f : Sums(s, Len(s), f) /\ FlattenSeq(s) = f[Len(s)]
<1> DEFINE f == CHOOSE f : Sums(s, Len(s), f)
<1>1. Sums(s, Len(s), f)
  BY SumsExist
<1>2. FlattenSeq(s) = f[Len(s)]
  BY Zenon DEF FlattenSeq, Sums
<1>. QED
  BY <1>1, <1>2

\* A sequence of sequences over S, put together, is a sequence over S, and its
\* elements are those of the parts.
LEMMA FlattenElements ==
  ASSUME NEW S, NEW s \in Seq(Seq(S))
  PROVE  /\ FlattenSeq(s) \in Seq(S)
         /\ ToSet(FlattenSeq(s)) = UNION {ToSet(s[i]) : i \in DOMAIN s}
<1>0. Len(s) \in Nat /\ DOMAIN s = 1 .. Len(s) /\ \A i \in 1 .. Len(s) : s[i] \in Seq(S)
  BY LenProperties
<1>1. CASE Len(s) = 0
  <2>1. FlattenSeq(s) = s /\ s = <<>>
    BY <1>0, <1>1, EmptySeq, SeqEqual DEF FlattenSeq
  <2>2. ToSet(s) = {} /\ DOMAIN s = {} /\ s \in Seq(S)
    BY <2>1, EmptySeq, ToSetEmpty
  <2>. QED
    BY <2>1, <2>2
<1>2. CASE Len(s) # 0
  <2>1. PICK f : Sums(s, Len(s), f) /\ FlattenSeq(s) = f[Len(s)]
    BY <1>0, <1>2, FlattenIsLast
  <2>2. \A i \in 1 .. Len(s) : f[i] = IF i = 1 THEN s[i] ELSE f[i - 1] \o s[i]
    BY <2>1 DEF Sums
  <2> DEFINE Good(i) == f[i] \in Seq(S) /\ ToSet(f[i]) = UNION {ToSet(s[j]) : j \in 1 .. i}
             Bad == {i \in 1 .. Len(s) : ~Good(i)}
  <2>3. Good(1)
    <3>1. f[1] = s[1] /\ s[1] \in Seq(S) /\ 1 .. 1 = {1}
      BY <1>0, <1>2, <2>2
    <3>. QED
      BY <3>1, Zenon
  <2>4. ASSUME NEW i \in 1 .. Len(s), i # 1, Good(i - 1) PROVE Good(i)
    <3>1. f[i] = f[i - 1] \o s[i] /\ f[i - 1] \in Seq(S) /\ s[i] \in Seq(S)
      BY <1>0, <2>2, <2>4
    <3>2. f[i] \in Seq(S) /\ ToSet(f[i]) = ToSet(f[i - 1]) \union ToSet(s[i])
      BY <3>1, ConcatProperties, ToSetConcat
    <3>3. 1 .. i = (1 .. i - 1) \union {i}
      BY <1>0
    <3>4. UNION {ToSet(s[j]) : j \in 1 .. i}
            = (UNION {ToSet(s[j]) : j \in 1 .. i - 1}) \union ToSet(s[i])
      BY <3>3
    <3>. QED
      BY <2>4, <3>2, <3>4
  <2>5. \A i \in 1 .. Len(s) : Good(i)
    <3> HIDE DEF Good
    <3> SUFFICES ASSUME Bad # {} PROVE FALSE
      OBVIOUS
    <3>1. PICK i \in Bad : \A m \in Bad : i <= m
      <4>1. Bad \subseteq Nat
        BY <1>0
      <4>. QED
        BY <4>1, LeastNat, Zenon
    <3>2. i \in 1 .. Len(s) /\ ~Good(i) /\ i # 1
      BY <2>3
    <3>3. i - 1 \in 1 .. Len(s) /\ i - 1 < i
      BY <1>0, <3>2
    <3>4. i - 1 \notin Bad
      BY <1>0, <3>1, <3>3
    <3>5. Good(i - 1)
      BY <3>3, <3>4
    <3>. QED
      BY <2>4, <3>2, <3>5
  <2>6. Len(s) \in 1 .. Len(s)
    BY <1>0, <1>2
  <2>. QED
    BY <1>0, <2>1, <2>5, <2>6
<1>. QED
  BY <1>1, <1>2

\* The same for a function that gives a sequence for each of 1 .. n: every
\* element of the whole comes from one of them, and all of theirs are in it.
LEMMA FlattenFunction ==
  ASSUME NEW S, NEW n \in Nat, NEW f \in [1 .. n -> Seq(S)]
  PROVE  /\ FlattenSeq(f) \in Seq(S)
         /\ \A x \in ToSet(FlattenSeq(f)) : \E i \in 1 .. n : x \in ToSet(f[i])
         /\ \A i \in 1 .. n : ToSet(f[i]) \subseteq ToSet(FlattenSeq(f))
<1>1. f \in Seq(Seq(S)) /\ DOMAIN f = 1 .. n
  BY SeqDef
<1>2. FlattenSeq(f) \in Seq(S) /\ ToSet(FlattenSeq(f)) = UNION {ToSet(f[i]) : i \in DOMAIN f}
  BY <1>1, FlattenElements, Zenon
<1>. QED
  BY <1>1, <1>2, Zenon

\* What holds at 0 and goes on holding from one to the next holds up to n.
LEMMA CountsUp ==
  ASSUME NEW n \in Nat, NEW Good, 0 \in Good,
         \A i \in 1 .. n : i - 1 \in Good => i \in Good
  PROVE  \A i \in 0 .. n : i \in Good
<1> DEFINE Bad == {i \in 0 .. n : i \notin Good}
<1> SUFFICES ASSUME Bad # {} PROVE FALSE
  OBVIOUS
<1>1. PICK i \in Bad : \A m \in Bad : i <= m
  <2>1. Bad \subseteq Nat
    OBVIOUS
  <2>. QED
    BY <2>1, LeastNat, Zenon
<1>2. i \in 1 .. n /\ i - 1 \in 0 .. n /\ i - 1 < i
  BY <1>1
<1>3. i - 1 \in Good
  BY <1>1, <1>2
<1>. QED
  BY <1>1, <1>2, <1>3

\* g is what the first 0, 1, ... n parts of f are put together.
Steps(S, n, f, g) ==
  /\ \A i \in 0 .. n : g[i] \in Seq(S)
  /\ g[0] = <<>> /\ g[n] = FlattenSeq(f)
  /\ \A i \in 1 .. n : g[i] = g[i - 1] \o f[i]

\* FlattenSeq puts the parts together one by one.
LEMMA FlattenBySteps ==
  ASSUME NEW S, NEW n \in Nat, NEW f \in [1 .. n -> Seq(S)]
  PROVE  \E g : Steps(S, n, f, g)
<1>1. /\ f \in Seq(Seq(S)) /\ DOMAIN f = 1 .. n /\ Len(f) = n
      /\ \A i \in 1 .. n : f[i] \in Seq(S)
  BY SeqDef, LenProperties
<1>2. <<>> \in Seq(S)
  BY EmptySeq
<1>3. CASE n = 0
  <2>1. FlattenSeq(f) = f /\ f = <<>>
    BY <1>1, <1>3, EmptySeq, SeqEqual DEF FlattenSeq
  <2> DEFINE g == [i \in 0 .. n |-> <<>>]
  <2>2. \A i \in 0 .. n : g[i] \in Seq(S)
    BY <1>2
  <2>3. 0 \in 0 .. n /\ n \in 0 .. n
    OBVIOUS
  <2>4. g[0] = <<>> /\ g[n] = <<>>
    BY <2>3
  <2>5. \A i \in 1 .. n : g[i] = g[i - 1] \o f[i]
    BY <1>3
  <2> HIDE DEF g
  <2>. QED
    BY <2>1, <2>2, <2>4, <2>5, Zenon DEF Steps
<1>4. CASE n # 0
  <2>1. PICK h : Sums(f, n, h) /\ FlattenSeq(f) = h[n]
    BY <1>1, <1>4, FlattenIsLast
  <2>2. \A i \in 1 .. n : h[i] = IF i = 1 THEN f[i] ELSE h[i - 1] \o f[i]
    BY <2>1 DEF Sums
  <2> DEFINE g == [i \in 0 .. n |-> IF i = 0 THEN <<>> ELSE h[i]]
  <2>3. g[0] = <<>> /\ g[n] = FlattenSeq(f)
    BY <1>4, <2>1
  <2>4. ASSUME NEW i \in 1 .. n PROVE g[i] = g[i - 1] \o f[i]
    <3>1. g[i] = h[i]
      OBVIOUS
    <3>2. CASE i = 1
      <4>1. g[i - 1] = <<>> /\ h[i] = f[i]
        BY <2>2, <3>2
      <4>2. <<>> \o f[i] = f[i]
        BY <1>1, ConcatEmptySeq
      <4>. QED
        BY <3>1, <4>1, <4>2
    <3>3. CASE i # 1
      <4>1. i - 1 \in 0 .. n /\ i - 1 # 0
        BY <3>3
      <4>2. g[i - 1] = h[i - 1]
        BY <4>1, Zenon
      <4>3. h[i] = h[i - 1] \o f[i]
        BY <2>2, <3>3, Zenon
      <4>. QED
        BY <3>1, <4>2, <4>3, Zenon
    <3>. QED
      BY <3>2, <3>3
  <2> HIDE DEF g
  <2>5. \A i \in 0 .. n : g[i] \in Seq(S)
    <3> DEFINE Good == {i \in 0 .. n : g[i] \in Seq(S)}
    <3>1. 0 \in Good
      <4>1. 0 \in 0 .. n
        OBVIOUS
      <4>. QED
        BY <1>2, <2>3, <4>1, Zenon
    <3>2. ASSUME NEW i \in 1 .. n, i - 1 \in Good PROVE i \in Good
      <4>1. g[i - 1] \in Seq(S) /\ f[i] \in Seq(S) /\ i \in 0 .. n
        BY <1>1, <3>2
      <4>2. g[i - 1] \o f[i] \in Seq(S)
        BY <4>1, ConcatProperties, Zenon
      <4>. QED
        BY <2>4, <4>1, <4>2, Zenon
    <3>. QED
      BY <3>1, <3>2, CountsUp
  <2>. QED
    BY <2>3, <2>4, <2>5, Zenon DEF Steps
<1>. QED
  BY <1>3, <1>4

\* No element comes before one that R puts before it.
Apart(R, s) == \A i, j \in DOMAIN s : i < j => <<s[i], s[j]>> \notin R

\* What stands where in two sequences put together.
LEMMA ConcatElements ==
  ASSUME NEW S, NEW s \in Seq(S), NEW t \in Seq(S)
  PROVE  /\ Len(s) \in Nat /\ Len(t) \in Nat
         /\ DOMAIN s = 1 .. Len(s) /\ DOMAIN t = 1 .. Len(t)
         /\ DOMAIN (s \o t) = 1 .. Len(s) + Len(t)
         /\ \A i \in 1 .. Len(s) : (s \o t)[i] = s[i]
         /\ \A i \in 1 .. Len(s) + Len(t) : i \notin 1 .. Len(s) =>
              i - Len(s) \in 1 .. Len(t) /\ (s \o t)[i] = t[i - Len(s)]
<1>1. Len(s) \in Nat /\ Len(t) \in Nat /\ DOMAIN s = 1 .. Len(s) /\ DOMAIN t = 1 .. Len(t)
  BY LenProperties
<1>2. /\ s \o t \in Seq(S) /\ Len(s \o t) = Len(s) + Len(t)
      /\ \A i \in 1 .. Len(s) + Len(t) : (s \o t)[i] = IF i <= Len(s) THEN s[i] ELSE t[i - Len(s)]
  BY ConcatProperties
<1>3. DOMAIN (s \o t) = 1 .. Len(s) + Len(t)
  BY <1>2, LenProperties
<1>4. \A i \in 1 .. Len(s) : (s \o t)[i] = s[i]
  BY <1>1, <1>2
<1>5. \A i \in 1 .. Len(s) + Len(t) : i \notin 1 .. Len(s) =>
        i - Len(s) \in 1 .. Len(t) /\ (s \o t)[i] = t[i - Len(s)]
  BY <1>1, <1>2
<1>. QED
  BY <1>1, <1>3, <1>4, <1>5

\* Nothing of the second part is to come before anything of the first.
LEMMA ApartConcat ==
  ASSUME NEW S, NEW s \in Seq(S), NEW t \in Seq(S), NEW R, Apart(R, s), Apart(R, t),
         \A x \in ToSet(s), y \in ToSet(t) : <<x, y>> \notin R
  PROVE  Apart(R, s \o t)
<1> DEFINE u == s \o t
<1>0. PICK a \in Nat, b \in Nat : a = Len(s) /\ b = Len(t)
  BY LenProperties
<1>1. /\ DOMAIN s = 1 .. a /\ DOMAIN t = 1 .. b /\ DOMAIN u = 1 .. a + b
      /\ \A i \in 1 .. a : u[i] = s[i]
      /\ \A i \in 1 .. a + b : i \notin 1 .. a => i - a \in 1 .. b /\ u[i] = t[i - a]
  BY <1>0, ConcatElements
<1> HIDE DEF u
<1> SUFFICES ASSUME NEW i \in 1 .. a + b, NEW j \in 1 .. a + b, i < j PROVE <<u[i], u[j]>> \notin R
  BY <1>1 DEF Apart, u
<1>2. CASE j \in 1 .. a
  BY <1>1, <1>2 DEF Apart
<1>3. CASE i \in 1 .. a /\ j \notin 1 .. a
  <2>1. u[i] \in ToSet(s) /\ u[j] \in ToSet(t)
    BY <1>1, <1>3 DEF ToSet
  <2>. QED
    BY <2>1
<1>4. CASE i \notin 1 .. a /\ j \notin 1 .. a
  <2>1. i - a \in 1 .. b /\ j - a \in 1 .. b /\ i - a < j - a /\ u[i] = t[i - a] /\ u[j] = t[j - a]
    BY <1>1, <1>4
  <2>. QED
    BY <1>1, <2>1 DEF Apart
<1>. QED
  BY <1>2, <1>3, <1>4

\* The same for any number of parts.
LEMMA ApartFlatten ==
  ASSUME NEW S, NEW n \in Nat, NEW f \in [1 .. n -> Seq(S)], NEW R,
         \A i \in 1 .. n : Apart(R, f[i]),
         \A i, j \in 1 .. n : i < j =>
           \A x \in ToSet(f[i]), y \in ToSet(f[j]) : <<x, y>> \notin R
  PROVE  Apart(R, FlattenSeq(f))
<1>0. PICK g : Steps(S, n, f, g)
  BY FlattenBySteps, Zenon
<1>1. /\ \A i \in 0 .. n : g[i] \in Seq(S)
      /\ g[0] = <<>> /\ g[n] = FlattenSeq(f)
      /\ \A i \in 1 .. n : g[i] = g[i - 1] \o f[i]
  BY <1>0, Zenon DEF Steps
<1> DEFINE Good == {i \in 0 .. n : /\ Apart(R, g[i])
                                   /\ \A x \in ToSet(g[i]) : \E j \in 1 .. i : x \in ToSet(f[j])}
<1>2. 0 \in Good
  <2>1. 0 \in 0 .. n /\ Apart(R, <<>>)
    BY DEF Apart
  <2>. QED
    BY <1>1, <2>1, ToSetEmpty, Zenon
<1>3. ASSUME NEW i \in 1 .. n, i - 1 \in Good PROVE i \in Good
  <2>1. /\ g[i - 1] \in Seq(S) /\ f[i] \in Seq(S) /\ Apart(R, g[i - 1])
        /\ \A x \in ToSet(g[i - 1]) : \E j \in 1 .. i - 1 : x \in ToSet(f[j])
    BY <1>1, <1>3
  <2>2. ASSUME NEW x \in ToSet(g[i - 1]), NEW y \in ToSet(f[i]) PROVE <<x, y>> \notin R
    <3>1. PICK j \in 1 .. i - 1 : x \in ToSet(f[j])
      BY <2>1
    <3>2. j \in 1 .. n /\ j < i
      OBVIOUS
    <3>. QED
      BY <3>1, <3>2, Zenon
  <2>3. Apart(R, g[i - 1] \o f[i]) /\ ToSet(g[i - 1] \o f[i]) = ToSet(g[i - 1]) \union ToSet(f[i])
    BY <2>1, <2>2, ApartConcat, ToSetConcat
  <2>4. i \in 0 .. n /\ i \in 1 .. i /\ 1 .. i - 1 \subseteq 1 .. i
    OBVIOUS
  <2>5. \A x \in ToSet(g[i]) : \E j \in 1 .. i : x \in ToSet(f[j])
    BY <1>1, <2>1, <2>3, <2>4, Zenon
  <2>. QED
    BY <1>1, <2>3, <2>4, <2>5, Zenon
<1>4. n \in 0 .. n
  OBVIOUS
<1>5. n \in Good
  <2> HIDE DEF Good
  <2>. QED
    BY <1>2, <1>3, <1>4, CountsUp, Zenon
<1>. QED
  BY <1>1, <1>5, Zenon

-----------------------------------------------------------------------------
(* Changes and commands. *)

\* The changes that a Plan for the manifest m may find.
Due(m) ==
  [target : {"group"}, name : DOMAIN m.groups, action : {"create"}, before : {None}]
  \union [target : {"group"}, name : {g \in DOMAIN m.groups : m.groups[g] # None},
          action : {"update"}, before : Ids]
  \union [target : {"user"}, name : DOMAIN m.users, action : {"create", "update"}, before : {None}]
  \union [target : {"keys"}, name : DOMAIN m.authorized, action : {"write"}, before : SUBSET Keys]

\* Those of one kind.
DueOf(m, target, action) == {c \in Due(m) : c.target = target /\ c.action = action}

\* The commands that an Apply of the manifest m may run.
OfGroups(m) ==
  {Command("groupadd", g, m.groups[g]) : g \in DOMAIN m.groups}
  \union {Command("groupmod", g, m.groups[g]) : g \in {x \in DOMAIN m.groups : m.groups[x] # None}}

OfUsers(m) ==
  {Command("useradd", u, m.users[u]) : u \in DOMAIN m.users}
  \union {Command("primary", u, m.users[u].gid) : u \in {x \in DOMAIN m.users : m.users[x].gid # None}}
  \union {Command("supp", u, m.users[u].groups) : u \in {x \in DOMAIN m.users : m.users[x].groups # {}}}
  \union {Command("shell", u, m.users[u].shell) : u \in {x \in DOMAIN m.users : m.users[x].shell # None}}
  \union {Command("home", u, m.users[u].home) : u \in {x \in DOMAIN m.users : m.users[x].home # None}}
  \union {Command("keys", u, [home |-> OrDefault(m.users[u].home, DefaultHome), keys |-> m.users[u].keys]) :
            u \in {x \in DOMAIN m.users : m.users[x].keys # {}}}
  \union {Command("password", u, m.users[u].password) : u \in {x \in DOMAIN m.users : m.users[x].password # None}}
  \union {Command("sudo", u, m.users[u].sudo) : u \in {x \in DOMAIN m.users : m.users[x].sudo # None}}

OfKeys(m) ==
  {Command("keys", u, [home |-> DefaultHome, keys |-> m.authorized[u]]) : u \in DOMAIN m.authorized}

Wanted(m) == OfGroups(m) \union OfUsers(m) \union OfKeys(m)

\* Those of the user manager for one user.
OfUser(m, u) == {c \in OfUsers(m) : c.name = u}

\* The commands that a Rollback may run.
Undoes ==
  [mgr : {"user"}, cmd : {"groupdel"}, name : Groups, arg : {None}]
  \union [mgr : {"user"}, cmd : {"groupmod"}, name : Groups, arg : Ids]
  \union [mgr : {"user"}, cmd : {"userdel"}, name : Users, arg : {None}]
  \union [mgr : {"ssh"}, cmd : {"keys"}, name : Users, arg : [home : {DefaultHome}, keys : SUBSET Keys]]

\* What a manifest declares of a user.
LEMMA SpecFields ==
  ASSUME NEW m, IsManifest(m), NEW u \in DOMAIN m.users
  PROVE  /\ u \in Users /\ m.users[u] \in UserSpec
         /\ m.users[u].uid \in Ids \union {None} /\ m.users[u].gid \in Groups \union {None}
         /\ m.users[u].groups \subseteq Groups /\ m.users[u].home \in Homes \union {None}
         /\ m.users[u].shell \in Shells \union {None} /\ m.users[u].keys \subseteq Keys
         /\ m.users[u].password \in Hashes \union {None} /\ m.users[u].sudo \in Policies \union {None}
<1>1. u \in Users /\ m.users[u] \in UserSpec
  BY Zenon DEF IsManifest
<1>. QED
  BY <1>1 DEF UserSpec

\* A sequence of one element or none.
LEMMA IfSeq ==
  ASSUME NEW S, NEW b \in BOOLEAN, NEW x, b => x \in S
  PROVE  If(b, x) \in Seq(S) /\ ToSet(If(b, x)) = IF b THEN {x} ELSE {}
<1>1. CASE b
  <2>1. <<x>> \in Seq(S) /\ ToSet(<<x>>) = {x}
    BY <1>1 DEF ToSet
  <2>. QED
    BY <1>1, <2>1 DEF If
<1>2. CASE ~b
  <2>1. <<>> \in Seq(S)
    OBVIOUS
  <2>. QED
    BY <1>2, <2>1, ToSetEmpty DEF If
<1>. QED
  BY <1>1, <1>2

\* The commands that make a user.
LEMMA CreateCommands ==
  ASSUME NEW m, IsManifest(m), NEW u \in DOMAIN m.users, NEW d, d = m.users[u]
  PROVE  /\ createUser(u, d) \in Seq(OfUser(m, u))
         /\ Command("useradd", u, d) \in ToSet(createUser(u, d))
         /\ d.keys # {} =>
              Command("keys", u, [home |-> OrDefault(d.home, DefaultHome), keys |-> d.keys]) \in ToSet(createUser(u, d))
         /\ d.password # None => Command("password", u, d.password) \in ToSet(createUser(u, d))
         /\ d.sudo # None => Command("sudo", u, d.sudo) \in ToSet(createUser(u, d))
         /\ \A y \in ToSet(createUser(u, d)) : y.cmd # "home"
<1> DEFINE S == OfUser(m, u)
           a == <<Command("useradd", u, d)>>
           k == Command("keys", u, [home |-> OrDefault(d.home, DefaultHome), keys |-> d.keys])
           b == If(d.keys # {}, k)
           p == Command("password", u, d.password)
           e == If(d.password # None, p)
           s == Command("sudo", u, d.sudo)
           f == If(d.sudo # None, s)
<1>1. Command("useradd", u, d) \in S /\ (d.keys # {} => k \in S)
      /\ (d.password # None => p \in S) /\ (d.sudo # None => s \in S)
  BY Zenon DEF OfUsers, OfUser, Command
<1>2. a \in Seq(S) /\ ToSet(a) = {Command("useradd", u, d)}
  BY <1>1 DEF ToSet
<1>11. Command("useradd", u, d).cmd # "home" /\ k.cmd # "home" /\ p.cmd # "home" /\ s.cmd # "home"
  BY DEF Command
<1> HIDE DEF k, p, s, S
<1>3. b \in Seq(S) /\ ToSet(b) = IF d.keys # {} THEN {k} ELSE {}
  BY <1>1, IfSeq
<1>4. e \in Seq(S) /\ ToSet(e) = IF d.password # None THEN {p} ELSE {}
  BY <1>1, IfSeq
<1>5. f \in Seq(S) /\ ToSet(f) = IF d.sudo # None THEN {s} ELSE {}
  BY <1>1, IfSeq
<1>6. createUser(u, d) = a \o b \o e \o f
  BY Zenon DEF createUser, k, p, s
<1> HIDE DEF a, b, e, f
<1>0. ASSUME NEW t \in Seq(S), NEW v \in Seq(S)
      PROVE  t \o v \in Seq(S) /\ ToSet(t \o v) = ToSet(t) \union ToSet(v)
  BY ConcatProperties, ToSetConcat
<1>7. a \o b \in Seq(S) /\ ToSet(a \o b) = ToSet(a) \union ToSet(b)
  BY <1>0, <1>2, <1>3
<1>8. a \o b \o e \in Seq(S) /\ ToSet(a \o b \o e) = ToSet(a \o b) \union ToSet(e)
  BY <1>0, <1>4, <1>7
<1>9. a \o b \o e \o f \in Seq(S) /\ ToSet(a \o b \o e \o f) = ToSet(a \o b \o e) \union ToSet(f)
  BY <1>0, <1>5, <1>8
<1>10. /\ createUser(u, d) \in Seq(S)
       /\ Command("useradd", u, d) \in ToSet(createUser(u, d))
       /\ d.keys # {} => k \in ToSet(createUser(u, d))
       /\ d.password # None => p \in ToSet(createUser(u, d))
       /\ d.sudo # None => s \in ToSet(createUser(u, d))
       /\ \A y \in ToSet(createUser(u, d)) : y.cmd # "home"
  BY <1>2, <1>3, <1>4, <1>5, <1>6, <1>7, <1>8, <1>9, <1>11
<1>. QED
  BY <1>10, Zenon DEF k, p, s, S

\* The commands that change a user.
LEMMA UpdateCommands ==
  ASSUME NEW m, IsManifest(m), NEW u \in DOMAIN m.users, NEW d, d = m.users[u]
  PROVE  /\ updateUser(u, d) \in Seq(OfUser(m, u))
         /\ d.gid # None => Command("primary", u, d.gid) \in ToSet(updateUser(u, d))
         /\ d.groups # {} => Command("supp", u, d.groups) \in ToSet(updateUser(u, d))
         /\ d.shell # None => Command("shell", u, d.shell) \in ToSet(updateUser(u, d))
         /\ d.home # None => Command("home", u, d.home) \in ToSet(updateUser(u, d))
         /\ d.keys # {} =>
              Command("keys", u, [home |-> OrDefault(d.home, DefaultHome), keys |-> d.keys]) \in ToSet(updateUser(u, d))
         /\ d.password # None => Command("password", u, d.password) \in ToSet(updateUser(u, d))
         /\ d.sudo # None => Command("sudo", u, d.sudo) \in ToSet(updateUser(u, d))
         /\ \A y \in ToSet(updateUser(u, d)) : y.cmd # "useradd"
         /\ \A i, j \in DOMAIN updateUser(u, d) :
              updateUser(u, d)[i].cmd = "keys" /\ updateUser(u, d)[j].cmd = "home" => j < i
<1> DEFINE S == OfUser(m, u)
           k == Command("keys", u, [home |-> OrDefault(d.home, DefaultHome), keys |-> d.keys])
           p == Command("password", u, d.password)
           s == Command("sudo", u, d.sudo)
           g == Command("primary", u, d.gid)
           x == Command("supp", u, d.groups)
           l == Command("shell", u, d.shell)
           h == Command("home", u, d.home)
           c1 == If(d.gid # None, g)
           c2 == If(d.groups # {}, x)
           c3 == If(d.shell # None, l)
           c4 == If(d.home # None, h)
           c5 == If(d.keys # {}, k)
           c6 == If(d.password # None, p)
           c7 == If(d.sudo # None, s)
           R == {w \in S \X S : w[1].cmd = "keys" /\ w[2].cmd = "home"}
<1>1. /\ d.gid # None => g \in S
      /\ d.groups # {} => x \in S
      /\ d.shell # None => l \in S
      /\ d.home # None => h \in S
      /\ d.keys # {} => k \in S
      /\ d.password # None => p \in S
      /\ d.sudo # None => s \in S
  BY Zenon DEF OfUsers, OfUser, Command
<1>2. /\ g.cmd = "primary" /\ x.cmd = "supp" /\ l.cmd = "shell" /\ h.cmd = "home"
      /\ k.cmd = "keys" /\ p.cmd = "password" /\ s.cmd = "sudo"
  BY DEF Command
<1> HIDE DEF k, p, s, S, g, x, l, h
<1>3. /\ c1 \in Seq(S) /\ ToSet(c1) = IF d.gid # None THEN {g} ELSE {}
      /\ c2 \in Seq(S) /\ ToSet(c2) = IF d.groups # {} THEN {x} ELSE {}
      /\ c3 \in Seq(S) /\ ToSet(c3) = IF d.shell # None THEN {l} ELSE {}
      /\ c4 \in Seq(S) /\ ToSet(c4) = IF d.home # None THEN {h} ELSE {}
      /\ c5 \in Seq(S) /\ ToSet(c5) = IF d.keys # {} THEN {k} ELSE {}
      /\ c6 \in Seq(S) /\ ToSet(c6) = IF d.password # None THEN {p} ELSE {}
      /\ c7 \in Seq(S) /\ ToSet(c7) = IF d.sudo # None THEN {s} ELSE {}
  BY <1>1, IfSeq
<1>4. /\ Apart(R, c1) /\ Apart(R, c2) /\ Apart(R, c3) /\ Apart(R, c4)
      /\ Apart(R, c5) /\ Apart(R, c6) /\ Apart(R, c7)
  <2>1. ASSUME NEW b \in BOOLEAN, NEW y PROVE Apart(R, If(b, y))
    BY DEF Apart, If
  <2>. QED
    BY <2>1
<1>6. updateUser(u, d) = c1 \o c2 \o c3 \o c4 \o c5 \o c6 \o c7
  BY Zenon DEF updateUser, k, p, s, g, x, l, h
<1> HIDE DEF c1, c2, c3, c4, c5, c6, c7
<1> DEFINE e2 == c1 \o c2
           e3 == e2 \o c3
           e4 == e3 \o c4
           e5 == e4 \o c5
           e6 == e5 \o c6
           e7 == e6 \o c7
           Good(t) == t \in Seq(S) /\ Apart(R, t)
<1> HIDE DEF R
<1>7. ASSUME NEW t, Good(t), NEW v, Good(v), \A y \in ToSet(t), z \in ToSet(v) : <<y, z>> \notin R
      PROVE  Good(t \o v) /\ ToSet(t \o v) = ToSet(t) \union ToSet(v)
  BY <1>7, ConcatProperties, ToSetConcat, ApartConcat
<1>8. ASSUME NEW T, NEW V, \A z \in V : z.cmd # "home" PROVE \A y \in T, z \in V : <<y, z>> \notin R
  BY <1>8 DEF R
<1>9. /\ Good(c1) /\ Good(c2) /\ Good(c3) /\ Good(c4) /\ Good(c5) /\ Good(c6) /\ Good(c7)
      /\ \A z \in ToSet(c2) \union ToSet(c3) \union ToSet(c5) \union ToSet(c6) \union ToSet(c7) : z.cmd # "home"
      /\ \A z \in ToSet(c1) \union ToSet(c2) \union ToSet(c3) : z.cmd # "keys"
  BY <1>2, <1>3, <1>4
<1> HIDE DEF Good
<1>10. Good(e2) /\ ToSet(e2) = ToSet(c1) \union ToSet(c2)
  BY <1>7, <1>8, <1>9
<1>11. Good(e3) /\ ToSet(e3) = ToSet(e2) \union ToSet(c3)
  BY <1>7, <1>8, <1>9, <1>10
<1>12. Good(e4) /\ ToSet(e4) = ToSet(e3) \union ToSet(c4)
  <2>1. \A y \in ToSet(e3), z \in ToSet(c4) : <<y, z>> \notin R
    BY <1>9, <1>10, <1>11 DEF R
  <2>. QED
    BY <1>7, <1>9, <1>11, <2>1
<1>13. Good(e5) /\ ToSet(e5) = ToSet(e4) \union ToSet(c5)
  BY <1>7, <1>8, <1>9, <1>12
<1>14. Good(e6) /\ ToSet(e6) = ToSet(e5) \union ToSet(c6)
  BY <1>7, <1>8, <1>9, <1>13
<1>15. Good(e7) /\ ToSet(e7) = ToSet(e6) \union ToSet(c7)
  BY <1>7, <1>8, <1>9, <1>14
<1>16. updateUser(u, d) = e7 /\ ToSet(e7) = ToSet(c1) \union ToSet(c2) \union ToSet(c3) \union ToSet(c4)
                                           \union ToSet(c5) \union ToSet(c6) \union ToSet(c7)
  <2>1. ToSet(e7) = ToSet(c1) \union ToSet(c2) \union ToSet(c3) \union ToSet(c4)
                                           \union ToSet(c5) \union ToSet(c6) \union ToSet(c7)
    <3> HIDE DEF e2, e3, e4, e5, e6, e7
    <3>. QED
      BY <1>10, <1>11, <1>12, <1>13, <1>14, <1>15
  <2>. QED
    BY <1>6, <2>1
<1> HIDE DEF e7
<1>17. \A i, j \in DOMAIN e7 : e7[i].cmd = "keys" /\ e7[j].cmd = "home" => j < i
  <2> SUFFICES ASSUME NEW i \in DOMAIN e7, NEW j \in DOMAIN e7, e7[i].cmd = "keys", e7[j].cmd = "home"
               PROVE  j < i
    OBVIOUS
  <2>1. e7 \in Seq(S) /\ Apart(R, e7)
    BY <1>15 DEF Good
  <2>2. i \in Nat /\ j \in Nat /\ e7[i] \in S /\ e7[j] \in S
    BY <2>1, LenProperties, ElementOfSeq
  <2>3. <<e7[i], e7[j]>> \in R
    BY <2>2 DEF R
  <2>4. ~ (i < j)
    BY <2>1, <2>3, Zenon DEF Apart
  <2>5. i # j
    OBVIOUS
  <2>. QED
    BY <2>2, <2>4, <2>5
<1>18. e7 \in Seq(S)
  BY <1>15, Zenon DEF Good
<1>19. /\ d.gid # None => g \in ToSet(updateUser(u, d))
       /\ d.groups # {} => x \in ToSet(updateUser(u, d))
       /\ d.shell # None => l \in ToSet(updateUser(u, d))
       /\ d.home # None => h \in ToSet(updateUser(u, d))
       /\ d.keys # {} => k \in ToSet(updateUser(u, d))
       /\ d.password # None => p \in ToSet(updateUser(u, d))
       /\ d.sudo # None => s \in ToSet(updateUser(u, d))
       /\ \A y \in ToSet(updateUser(u, d)) : y.cmd # "useradd"
  BY <1>2, <1>3, <1>16
<1>. QED
  BY <1>16, <1>17, <1>18, <1>19, Zenon DEF S, k, p, s, g, x, l, h

-----------------------------------------------------------------------------
(* What commands do to a host. *)

\* A host's parts.
LEMMA HostFields ==
  ASSUME NEW h, IsHost(h)
  PROVE  /\ h.gid \in [Groups -> Ids \union {None}] /\ h.acct \in [Users -> Account \union {None}]
         /\ h.keys \in [Users -> [Homes -> SUBSET Keys]] /\ h.sudo \in [Users -> Policies \union {None}]
BY DEF IsHost

\* An account is there or is not.
LEMMA AccountFields ==
  ASSUME NEW a \in Account
  PROVE  /\ a # None /\ a.uid \in Ids /\ a.primary \in Groups \union {Private} /\ a.supp \subseteq Groups
         /\ a.home \in Homes /\ a.shell \in Shells /\ a.password \in Hashes \union {None}
BY AccountsAssumption DEF Account

\* The id of a group is set.
LEMMA SetGidFields ==
  ASSUME NEW h, IsHost(h), NEW g \in Groups, NEW n \in Ids \union {None}
  PROVE  /\ IsHost(SetGid(h, g, n))
         /\ SetGid(h, g, n).gid = [h.gid EXCEPT ![g] = n]
         /\ SetGid(h, g, n).acct = h.acct /\ SetGid(h, g, n).keys = h.keys /\ SetGid(h, g, n).sudo = h.sudo
BY DEF IsHost, SetGid

\* An account is set.
LEMMA SetAcctFields ==
  ASSUME NEW h, IsHost(h), NEW u \in Users, NEW a \in Account \union {None}
  PROVE  /\ IsHost(SetAcct(h, u, a))
         /\ SetAcct(h, u, a).acct = [h.acct EXCEPT ![u] = a]
         /\ SetAcct(h, u, a).gid = h.gid /\ SetAcct(h, u, a).keys = h.keys /\ SetAcct(h, u, a).sudo = h.sudo
BY DEF IsHost, SetAcct

\* The keys in a home are set.
LEMMA SetKeysFields ==
  ASSUME NEW h, IsHost(h), NEW u \in Users, NEW x \in Homes, NEW ks \in SUBSET Keys
  PROVE  /\ IsHost(SetKeys(h, u, x, ks))
         /\ SetKeys(h, u, x, ks).keys = [h.keys EXCEPT ![u] = [h.keys[u] EXCEPT ![x] = ks]]
         /\ SetKeys(h, u, x, ks).gid = h.gid /\ SetKeys(h, u, x, ks).acct = h.acct /\ SetKeys(h, u, x, ks).sudo = h.sudo
BY DEF IsHost, SetKeys

\* Which leaves the accounts alone.
LEMMA SetKeysAcct ==
  ASSUME NEW h, IsHost(h), NEW u \in Users, NEW x \in Homes, NEW ks \in SUBSET Keys
  PROVE  IsHost(SetKeys(h, u, x, ks)) /\ SetKeys(h, u, x, ks).acct = h.acct
BY DEF IsHost, SetKeys

\* A sudo rule is set.
LEMMA SetSudoFields ==
  ASSUME NEW h, IsHost(h), NEW u \in Users, NEW s \in Policies \union {None}, NEW k \in WriteSudo(h, u, s)
  PROVE  /\ IsHost(k) /\ k.sudo = [h.sudo EXCEPT ![u] = s]
         /\ k.gid = h.gid /\ k.acct = h.acct /\ k.keys = h.keys
BY DEF IsHost, WriteSudo

\* An account with one field set.
LEMMA AccountExcept ==
  ASSUME NEW a \in Account
  PROVE  /\ \A x \in Groups \union {Private} : [a EXCEPT !.primary = x] \in Account
         /\ \A x \in SUBSET Groups : [a EXCEPT !.supp = x] \in Account
         /\ \A x \in Shells : [a EXCEPT !.shell = x] \in Account
         /\ \A x \in Hashes \union {None} : [a EXCEPT !.password = x] \in Account
         /\ \A x \in Homes : [a EXCEPT !.home = x] \in Account
BY DEF Account

\* The users on h are on k too.
Stay(h, k) == \A u \in Users : h.acct[u] # None => k.acct[u] # None

\* Nothing of any user but v differs between h and k.
OnlyUser(h, k, v) ==
  \A u \in Users : u # v => k.acct[u] = h.acct[u] /\ k.keys[u] = h.keys[u] /\ k.sudo[u] = h.sudo[u]

\* The command c has been carried out on h.
Done(h, c) ==
  /\ c.cmd = "groupadd" => h.gid[c.name] # None /\ (c.arg # None => h.gid[c.name] = c.arg)
  /\ c.cmd = "groupmod" => h.gid[c.name] = c.arg
  /\ c.cmd \in {"useradd", "primary", "supp", "shell", "home", "password"} => h.acct[c.name] # None
  /\ c.cmd = "useradd" => /\ h.acct[c.name].primary = OrDefault(c.arg.gid, Private)
                          /\ h.acct[c.name].supp = c.arg.groups
                          /\ h.acct[c.name].home = OrDefault(c.arg.home, DefaultHome)
                          /\ h.acct[c.name].shell = OrDefault(c.arg.shell, DefaultShell)
  /\ c.cmd = "primary"  => h.acct[c.name].primary = c.arg
  /\ c.cmd = "supp"     => h.acct[c.name].supp = c.arg
  /\ c.cmd = "shell"    => h.acct[c.name].shell = c.arg
  /\ c.cmd = "home"     => h.acct[c.name].home = c.arg
  /\ c.cmd = "password" => h.acct[c.name].password = c.arg
  /\ c.cmd = "keys"     => h.keys[c.name][c.arg.home] = c.arg.keys
  /\ c.cmd = "sudo"     => h.sudo[c.name] = c.arg

\* What a command does to a group.
LEMMA GroupEffect ==
  ASSUME NEW m, IsManifest(m), NEW h, IsHost(h), NEW c \in OfGroups(m), NEW k \in Outcomes(h, c)
  PROVE  /\ IsHost(k) /\ Done(k, c) /\ c.name \in DOMAIN m.groups
         /\ k.acct = h.acct /\ k.keys = h.keys /\ k.sudo = h.sudo
         /\ \A g \in Groups : g # c.name => k.gid[g] = h.gid[g]
<1>1. /\ c.cmd \in {"groupadd", "groupmod"} /\ c.name \in DOMAIN m.groups /\ c.name \in Groups
      /\ c.arg = m.groups[c.name] /\ c.arg \in Ids \union {None}
      /\ c.cmd = "groupmod" => c.arg # None
  BY DEF OfGroups, Command, IsManifest
<1>2. PICK n \in Ids : k = SetGid(h, c.name, n) /\ (c.cmd = "groupmod" => n = c.arg)
                       /\ (c.arg # None => n = c.arg)
  <2>1. CASE c.cmd = "groupadd"
    <3>1. k \in GroupAdd(h, c.name, c.arg)
      BY <2>1 DEF Outcomes
    <3>2. PICK i \in FreeGids(h) \intersect (IF c.arg = None THEN Ids ELSE {c.arg}) : k = SetGid(h, c.name, i)
      BY <3>1 DEF GroupAdd
    <3>. QED
      BY <2>1, <3>2 DEF FreeGids
  <2>2. CASE c.cmd = "groupmod"
    <3>1. k \in GroupMod(h, c.name, c.arg)
      BY <2>2 DEF Outcomes
    <3>2. k = SetGid(h, c.name, c.arg)
      BY <3>1 DEF GroupMod
    <3>. QED
      BY <1>1, <2>2, <3>2
  <2>. QED
    BY <1>1, <2>1, <2>2
<1>3. n # None
  BY AccountsAssumption
<1>4. /\ IsHost(k) /\ k.gid = [h.gid EXCEPT ![c.name] = n]
      /\ k.acct = h.acct /\ k.keys = h.keys /\ k.sudo = h.sudo
  BY <1>1, <1>2, SetGidFields
<1>5. h.gid \in [Groups -> Ids \union {None}]
  BY HostFields
<1>6. k.gid[c.name] = n /\ \A g \in Groups : g # c.name => k.gid[g] = h.gid[g]
  BY <1>1, <1>4, <1>5
<1>7. Done(k, c)
  BY <1>1, <1>2, <1>3, <1>6 DEF Done
<1>. QED
  BY <1>1, <1>4, <1>6, <1>7

\* The fields of the account a that usermod may set, and which of them c sets.
SetsOnly(a, b, cmd) ==
  /\ b.uid = a.uid
  /\ cmd # "primary"  => b.primary = a.primary
  /\ cmd # "supp"     => b.supp = a.supp
  /\ cmd # "shell"    => b.shell = a.shell
  /\ cmd # "home"     => b.home = a.home
  /\ cmd # "password" => b.password = a.password

\* What a command leaves alone of its user.
KeepsOf(h, k, c) ==
  /\ c.cmd # "sudo" => k.sudo = h.sudo
  /\ c.cmd \notin {"keys", "home"} => k.keys = h.keys
  /\ c.cmd = "keys" => \A x \in Homes : x # c.arg.home => k.keys[c.name][x] = h.keys[c.name][x]
  /\ c.cmd \in {"keys", "sudo"} => k.acct = h.acct
  /\ c.cmd = "useradd" => h.acct[c.name] = None
  /\ c.cmd \in {"primary", "supp", "shell", "home", "password"} =>
       /\ h.acct[c.name] # None /\ SetsOnly(h.acct[c.name], k.acct[c.name], c.cmd)
       /\ c.cmd = "home" /\ h.acct[c.name].home = c.arg => k.keys = h.keys

\* What a command asks of a user.
LEMMA UserCommand ==
  ASSUME NEW m, IsManifest(m), NEW c \in OfUsers(m) \union OfKeys(m)
  PROVE  /\ c.cmd \in {"useradd", "primary", "supp", "shell", "home", "keys", "password", "sudo"}
         /\ c.name \in Users
         /\ c.cmd = "useradd"  => c.name \in DOMAIN m.users /\ c.arg = m.users[c.name]
         /\ c.cmd = "primary"  => c.name \in DOMAIN m.users /\ c.arg = m.users[c.name].gid /\ c.arg \in Groups
         /\ c.cmd = "supp"     => c.name \in DOMAIN m.users /\ c.arg = m.users[c.name].groups /\ c.arg \subseteq Groups
         /\ c.cmd = "shell"    => c.name \in DOMAIN m.users /\ c.arg = m.users[c.name].shell /\ c.arg \in Shells
         /\ c.cmd = "home"     => c.name \in DOMAIN m.users /\ c.arg = m.users[c.name].home /\ c.arg \in Homes
         /\ c.cmd = "password" => c.name \in DOMAIN m.users /\ c.arg = m.users[c.name].password /\ c.arg \in Hashes
         /\ c.cmd = "sudo"     => c.name \in DOMAIN m.users /\ c.arg = m.users[c.name].sudo /\ c.arg \in Policies
         /\ c.cmd = "keys"     => c.arg.home \in Homes /\ c.arg.keys \subseteq Keys
<1>1. CASE c \in OfKeys(m)
  <2>1. PICK u \in DOMAIN m.authorized : c = Command("keys", u, [home |-> DefaultHome, keys |-> m.authorized[u]])
    BY <1>1 DEF OfKeys
  <2>2. u \in Users /\ m.authorized[u] \subseteq Keys
    BY Zenon DEF IsManifest
  <2>. QED
    BY <2>1, <2>2, AccountsAssumption DEF Command
<1>2. CASE c \in OfUsers(m)
  <2>1. PICK u \in DOMAIN m.users :
          \/ c = Command("useradd", u, m.users[u])
          \/ m.users[u].gid # None /\ c = Command("primary", u, m.users[u].gid)
          \/ c = Command("supp", u, m.users[u].groups)
          \/ m.users[u].shell # None /\ c = Command("shell", u, m.users[u].shell)
          \/ m.users[u].home # None /\ c = Command("home", u, m.users[u].home)
          \/ c = Command("keys", u, [home |-> OrDefault(m.users[u].home, DefaultHome), keys |-> m.users[u].keys])
          \/ m.users[u].password # None /\ c = Command("password", u, m.users[u].password)
          \/ m.users[u].sudo # None /\ c = Command("sudo", u, m.users[u].sudo)
    BY <1>2, Zenon DEF OfUsers
  <2> DEFINE d == m.users[u]
  <2>2. /\ u \in Users
        /\ d.gid \in Groups \union {None}
        /\ d.groups \subseteq Groups /\ d.home \in Homes \union {None}
        /\ d.shell \in Shells \union {None} /\ d.keys \subseteq Keys
        /\ d.password \in Hashes \union {None} /\ d.sudo \in Policies \union {None}
    BY SpecFields
  <2>3. OrDefault(d.home, DefaultHome) \in Homes
    BY <2>2, AccountsAssumption DEF OrDefault
  <2> HIDE DEF d
  <2>4. \/ c.cmd = "useradd" /\ c.arg = d
        \/ d.gid # None /\ c.cmd = "primary" /\ c.arg = d.gid
        \/ c.cmd = "supp" /\ c.arg = d.groups
        \/ d.shell # None /\ c.cmd = "shell" /\ c.arg = d.shell
        \/ d.home # None /\ c.cmd = "home" /\ c.arg = d.home
        \/ c.cmd = "keys" /\ c.arg.home = OrDefault(d.home, DefaultHome) /\ c.arg.keys = d.keys
        \/ d.password # None /\ c.cmd = "password" /\ c.arg = d.password
        \/ d.sudo # None /\ c.cmd = "sudo" /\ c.arg = d.sudo
    BY <2>1 DEF Command, d
  <2>5. c.name = u
    BY <2>1 DEF Command
  <2>6. d = m.users[c.name] /\ c.name \in DOMAIN m.users
    BY <2>5 DEF d
  <2>. QED
    BY <2>2, <2>3, <2>4, <2>5, <2>6
<1>. QED
  BY <1>1, <1>2

\* What it does to a host.
LEMMA UserEffect ==
  ASSUME NEW m, IsManifest(m), NEW h, IsHost(h), NEW c \in OfUsers(m) \union OfKeys(m),
         NEW k \in Outcomes(h, c)
  PROVE  /\ IsHost(k) /\ Done(k, c) /\ k.gid = h.gid
         /\ OnlyUser(h, k, c.name) /\ KeepsOf(h, k, c) /\ Stay(h, k)
         /\ c.cmd # "useradd" => Stay(k, h)
<1> DEFINE u == c.name
<1>1. /\ c.cmd \in {"useradd", "primary", "supp", "shell", "home", "keys", "password", "sudo"}
      /\ u \in Users
      /\ c.cmd = "useradd"  => u \in DOMAIN m.users /\ c.arg = m.users[u]
      /\ c.cmd = "primary"  => c.arg \in Groups
      /\ c.cmd = "supp"     => c.arg \subseteq Groups
      /\ c.cmd = "shell"    => c.arg \in Shells
      /\ c.cmd = "home"     => c.arg \in Homes
      /\ c.cmd = "password" => c.arg \in Hashes
      /\ c.cmd = "sudo"     => c.arg \in Policies
      /\ c.cmd = "keys"     => c.arg.home \in Homes /\ c.arg.keys \subseteq Keys
  BY UserCommand
<1>2. /\ h.gid \in [Groups -> Ids \union {None}] /\ h.acct \in [Users -> Account \union {None}]
      /\ h.keys \in [Users -> [Homes -> SUBSET Keys]] /\ h.sudo \in [Users -> Policies \union {None}]
  BY HostFields
<1>3. \A a \in Account : a # None
  BY AccountFields
<1>4. CASE c.cmd = "useradd"
  <2> DEFINE d == m.users[u]
  <2>1. k \in UserAdd(h, u, d)
    BY <1>1, <1>4 DEF Outcomes
  <2>2. h.acct[u] = None
    BY <2>1 DEF UserAdd
  <2>3. PICK i \in Ids : k = SetAcct(h, u,
          [uid |-> i, primary |-> OrDefault(d.gid, Private), supp |-> d.groups,
           home |-> OrDefault(d.home, DefaultHome), shell |-> OrDefault(d.shell, DefaultShell),
           password |-> None])
    BY <2>1 DEF UserAdd, FreeUids
  <2> DEFINE a == [uid |-> i, primary |-> OrDefault(d.gid, Private), supp |-> d.groups,
                   home |-> OrDefault(d.home, DefaultHome), shell |-> OrDefault(d.shell, DefaultShell),
                   password |-> None]
  <2>4. /\ d.gid \in Groups \union {None} /\ d.groups \subseteq Groups /\ d.home \in Homes \union {None}
        /\ d.shell \in Shells \union {None}
    BY <1>1, <1>4, SpecFields
  <2>5. a \in Account
    BY <2>4, AccountsAssumption DEF Account, OrDefault
  <2>6. k = SetAcct(h, u, a)
    BY <2>3
  <2>7. /\ a.primary = OrDefault(c.arg.gid, Private) /\ a.supp = c.arg.groups
        /\ a.home = OrDefault(c.arg.home, DefaultHome) /\ a.shell = OrDefault(c.arg.shell, DefaultShell)
    BY <1>1, <1>4
  <2> HIDE DEF a
  <2>8. IsHost(k) /\ k.acct = [h.acct EXCEPT ![u] = a] /\ k.gid = h.gid /\ k.keys = h.keys /\ k.sudo = h.sudo
    BY <1>1, <2>5, <2>6, SetAcctFields
  <2>9. k.acct[u] = a /\ \A v \in Users : v # u => k.acct[v] = h.acct[v]
    BY <1>1, <1>2, <2>8
  <2>10. Done(k, c)
    BY <1>3, <1>4, <2>5, <2>7, <2>9 DEF Done
  <2>11. OnlyUser(h, k, u) /\ Stay(h, k)
    BY <1>3, <2>5, <2>8, <2>9 DEF OnlyUser, Stay
  <2>12. KeepsOf(h, k, c)
    BY <1>4, <2>2, <2>8 DEF KeepsOf
  <2>. QED
    BY <1>4, <2>8, <2>10, <2>11, <2>12
<1>5. CASE c.cmd = "keys"
  <2>1. k \in WriteKeys(h, u, c.arg.home, c.arg.keys)
    BY <1>5 DEF Outcomes
  <2>2. k = SetKeys(h, u, c.arg.home, c.arg.keys)
    BY <2>1 DEF WriteKeys
  <2>3. /\ IsHost(k) /\ k.keys = [h.keys EXCEPT ![u] = [h.keys[u] EXCEPT ![c.arg.home] = c.arg.keys]]
        /\ k.gid = h.gid /\ k.acct = h.acct /\ k.sudo = h.sudo
    BY <1>1, <1>5, <2>2, SetKeysFields
  <2>4. /\ \A v \in Users : v # u => k.keys[v] = h.keys[v]
        /\ k.keys[u][c.arg.home] = c.arg.keys
        /\ \A x \in Homes : x # c.arg.home => k.keys[u][x] = h.keys[u][x]
    BY <1>1, <1>2, <1>5, <2>3
  <2>5. Done(k, c)
    BY <1>5, <2>4 DEF Done
  <2>6. OnlyUser(h, k, u) /\ Stay(h, k) /\ Stay(k, h) /\ KeepsOf(h, k, c)
    BY <1>5, <2>3, <2>4 DEF OnlyUser, Stay, KeepsOf
  <2>. QED
    BY <2>3, <2>5, <2>6
<1>6. CASE c.cmd = "sudo"
  <2>1. k \in WriteSudo(h, u, c.arg)
    BY <1>6 DEF Outcomes
  <2>2. /\ IsHost(k) /\ k.sudo = [h.sudo EXCEPT ![u] = c.arg]
        /\ k.gid = h.gid /\ k.acct = h.acct /\ k.keys = h.keys
    BY <1>1, <1>6, <2>1, SetSudoFields
  <2>3. k.sudo[u] = c.arg /\ \A v \in Users : v # u => k.sudo[v] = h.sudo[v]
    BY <1>1, <1>2, <2>2
  <2>4. Done(k, c)
    BY <1>6, <2>3 DEF Done
  <2>5. OnlyUser(h, k, u) /\ Stay(h, k) /\ Stay(k, h) /\ KeepsOf(h, k, c)
    BY <1>6, <2>2, <2>3 DEF OnlyUser, Stay, KeepsOf
  <2>. QED
    BY <2>2, <2>4, <2>5
<1>7. CASE c.cmd \in {"primary", "supp", "shell", "password", "home"}
  <2>1. k \in UserMod(h, u, c.cmd, c.arg)
    BY <1>7 DEF Outcomes
  <2>2. h.acct[u] # None /\ h.acct[u] \in Account
    BY <1>1, <1>2, <2>1 DEF UserMod
  <2>3. ASSUME c.cmd # "home"
        PROVE  \E b \in Account : k = SetAcct(h, u, b) /\ SetsOnly(h.acct[u], b, c.cmd)
                 /\ (c.cmd = "primary" => b.primary = c.arg) /\ (c.cmd = "supp" => b.supp = c.arg)
                 /\ (c.cmd = "shell" => b.shell = c.arg) /\ (c.cmd = "password" => b.password = c.arg)
    <3>1. CASE c.cmd = "primary"
      <4>1. [h.acct[u] EXCEPT !.primary = c.arg] \in Account
        BY <1>1, <2>2, <3>1, AccountExcept
      <4>2. k = SetAcct(h, u, [h.acct[u] EXCEPT !.primary = c.arg])
        BY <2>1, <3>1 DEF UserMod
      <4>. QED
        BY <2>2, <3>1, <4>1, <4>2 DEF SetsOnly, Account
    <3>2. CASE c.cmd = "supp"
      <4>1. [h.acct[u] EXCEPT !.supp = c.arg] \in Account
        BY <1>1, <2>2, <3>2, AccountExcept
      <4>2. k = SetAcct(h, u, [h.acct[u] EXCEPT !.supp = c.arg])
        BY <2>1, <3>2 DEF UserMod
      <4>. QED
        BY <2>2, <3>2, <4>1, <4>2 DEF SetsOnly, Account
    <3>3. CASE c.cmd = "shell"
      <4>1. [h.acct[u] EXCEPT !.shell = c.arg] \in Account
        BY <1>1, <2>2, <3>3, AccountExcept
      <4>2. k = SetAcct(h, u, [h.acct[u] EXCEPT !.shell = c.arg])
        BY <2>1, <3>3 DEF UserMod
      <4>. QED
        BY <2>2, <3>3, <4>1, <4>2 DEF SetsOnly, Account
    <3>4. CASE c.cmd = "password"
      <4>1. [h.acct[u] EXCEPT !.password = c.arg] \in Account
        BY <1>1, <2>2, <3>4, AccountExcept
      <4>2. k = SetAcct(h, u, [h.acct[u] EXCEPT !.password = c.arg])
        BY <2>1, <3>4 DEF UserMod
      <4>. QED
        BY <2>2, <3>4, <4>1, <4>2 DEF SetsOnly, Account
    <3>. QED
      BY <1>7, <2>3, <3>1, <3>2, <3>3, <3>4
  <2>4. CASE c.cmd # "home"
    <3>1. PICK b \in Account : /\ k = SetAcct(h, u, b) /\ SetsOnly(h.acct[u], b, c.cmd)
                 /\ (c.cmd = "primary" => b.primary = c.arg) /\ (c.cmd = "supp" => b.supp = c.arg)
                 /\ (c.cmd = "shell" => b.shell = c.arg) /\ (c.cmd = "password" => b.password = c.arg)
      BY <2>3, <2>4
    <3>2. IsHost(k) /\ k.acct = [h.acct EXCEPT ![u] = b] /\ k.gid = h.gid /\ k.keys = h.keys /\ k.sudo = h.sudo
      BY <1>1, <3>1, SetAcctFields
    <3>3. k.acct[u] = b /\ b # None /\ \A v \in Users : v # u => k.acct[v] = h.acct[v]
      BY <1>1, <1>2, <1>3, <3>2
    <3>4. Done(k, c)
      BY <1>7, <2>4, <3>1, <3>3 DEF Done
    <3>5. OnlyUser(h, k, u) /\ Stay(h, k) /\ Stay(k, h)
      BY <2>2, <3>2, <3>3 DEF OnlyUser, Stay
    <3>6. KeepsOf(h, k, c)
      BY <1>7, <2>2, <2>4, <3>1, <3>2, <3>3 DEF KeepsOf
    <3>. QED
      BY <3>2, <3>4, <3>5, <3>6
  <2>5. CASE c.cmd = "home"
    <3>1. k = IF c.arg = h.acct[u].home THEN h ELSE MoveHome(h, u, h.acct[u].home, c.arg)
      BY <2>1, <2>5 DEF UserMod
    <3>2. CASE c.arg = h.acct[u].home
      <4>1. k = h
        BY <3>1, <3>2
      <4>2. Done(k, c)
        BY <2>2, <2>5, <3>2, <4>1 DEF Done
      <4>3. OnlyUser(h, k, u) /\ Stay(h, k) /\ KeepsOf(h, k, c)
        BY <2>2, <2>5, <4>1 DEF OnlyUser, Stay, KeepsOf, SetsOnly
      <4>. QED
        BY <4>1, <4>2, <4>3
    <3>3. CASE c.arg # h.acct[u].home
      <4> DEFINE from == h.acct[u].home
                 b == [h.acct[u] EXCEPT !.home = c.arg]
                 h1 == SetAcct(h, u, b)
                 h2 == SetKeys(h1, u, c.arg, h.keys[u][from])
      <4>1. k = SetKeys(h2, u, from, {})
        BY <3>1, <3>3 DEF MoveHome
      <4>2. from \in Homes /\ c.arg \in Homes /\ b \in Account /\ h.keys[u][from] \in SUBSET Keys
        <5>1. from \in Homes /\ c.arg \in Homes
          BY <1>1, <2>2, <2>5, AccountFields
        <5>2. b \in Account
          BY <2>2, <5>1, AccountExcept
        <5>. QED
          BY <1>1, <1>2, <5>1, <5>2
      <4>3. b.home = c.arg /\ SetsOnly(h.acct[u], b, "home")
        BY <2>2 DEF SetsOnly, Account
      <4> HIDE DEF b, from
      <4>4. IsHost(h1) /\ h1.acct = [h.acct EXCEPT ![u] = b] /\ h1.gid = h.gid /\ h1.keys = h.keys /\ h1.sudo = h.sudo
        BY <1>1, <4>2, SetAcctFields
      <4> HIDE DEF h1
      <4>5. /\ IsHost(h2) /\ h2.keys = [h1.keys EXCEPT ![u] = [h1.keys[u] EXCEPT ![c.arg] = h.keys[u][from]]]
            /\ h2.gid = h1.gid /\ h2.acct = h1.acct /\ h2.sudo = h1.sudo
        BY <1>1, <4>2, <4>4, SetKeysFields
      <4> HIDE DEF h2
      <4>6. /\ IsHost(k) /\ k.keys = [h2.keys EXCEPT ![u] = [h2.keys[u] EXCEPT ![from] = {}]]
            /\ k.gid = h2.gid /\ k.acct = h2.acct /\ k.sudo = h2.sudo
        <5>1. PICK e \in SUBSET Keys : e = {}
          OBVIOUS
        <5>2. k = SetKeys(h2, u, from, e) /\ u \in Users /\ from \in Homes /\ IsHost(h2)
          BY <1>1, <4>1, <4>2, <4>5, <5>1
        <5>3. /\ IsHost(k) /\ k.keys = [h2.keys EXCEPT ![u] = [h2.keys[u] EXCEPT ![from] = e]]
              /\ k.gid = h2.gid /\ k.acct = h2.acct /\ k.sudo = h2.sudo
          BY <5>2, SetKeysFields
        <5>. QED
          BY <5>1, <5>3
      <4>7. /\ k.gid = h.gid /\ k.sudo = h.sudo
            /\ k.acct[u] = b /\ b # None /\ \A v \in Users : v # u => k.acct[v] = h.acct[v]
        BY <1>1, <1>2, <1>3, <4>2, <4>4, <4>5, <4>6
      <4>8. \A v \in Users : v # u => k.keys[v] = h.keys[v]
        BY <1>1, <1>2, <4>4, <4>5, <4>6
      <4>9. Done(k, c)
        BY <2>5, <4>3, <4>7 DEF Done
      <4>10. OnlyUser(h, k, u) /\ Stay(h, k) /\ Stay(k, h)
        BY <2>2, <4>7, <4>8 DEF OnlyUser, Stay
      <4>11. KeepsOf(h, k, c)
        BY <2>2, <2>5, <3>3, <4>3, <4>7 DEF KeepsOf
      <4>. QED
        BY <4>6, <4>7, <4>9, <4>10, <4>11
    <3>. QED
      BY <3>2, <3>3
  <2>. QED
    BY <2>4, <2>5
<1>. QED
  BY <1>1, <1>4, <1>5, <1>6, <1>7

\* A command that fails may have done nothing of it, all of it, or a part.
LEMMA FailureEffect ==
  ASSUME NEW m, IsManifest(m), NEW h, IsHost(h), NEW c \in Wanted(m), NEW k \in Failures(h, c)
  PROVE  \/ k = h
         \/ k \in Outcomes(h, c)
         \/ /\ c.cmd = "keys" /\ IsHost(k) /\ OnlyUser(h, k, c.name)
            /\ k.gid = h.gid /\ k.acct = h.acct /\ k.sudo = h.sudo
<1> SUFFICES ASSUME k # h, k \notin Outcomes(h, c)
             PROVE  /\ c.cmd = "keys" /\ IsHost(k) /\ OnlyUser(h, k, c.name)
                    /\ k.gid = h.gid /\ k.acct = h.acct /\ k.sudo = h.sudo
  OBVIOUS
<1>1. c.cmd = "keys" /\ \E ks \in SUBSET c.arg.keys : k \in WriteKeys(h, c.name, c.arg.home, ks)
  BY Zenon DEF Failures
<1>2. PICK ks \in SUBSET c.arg.keys : k \in WriteKeys(h, c.name, c.arg.home, ks)
  BY <1>1, Zenon
<1>3. c \notin OfGroups(m)
  BY <1>1 DEF OfGroups, Command
<1>4. c.name \in Users /\ c.arg.home \in Homes /\ c.arg.keys \subseteq Keys
  BY <1>1, <1>3, UserCommand DEF Wanted
<1>5. ks \in SUBSET Keys /\ k = SetKeys(h, c.name, c.arg.home, ks)
  BY <1>2, <1>4 DEF WriteKeys
<1>6. /\ IsHost(k) /\ k.keys = [h.keys EXCEPT ![c.name] = [h.keys[c.name] EXCEPT ![c.arg.home] = ks]]
      /\ k.gid = h.gid /\ k.acct = h.acct /\ k.sudo = h.sudo
  BY <1>4, <1>5, SetKeysFields
<1>7. h.keys \in [Users -> [Homes -> SUBSET Keys]]
  BY HostFields
<1>8. OnlyUser(h, k, c.name)
  BY <1>4, <1>6, <1>7 DEF OnlyUser
<1>. QED
  BY <1>1, <1>6, <1>8

\* No command of an Apply takes a user away; only useradd brings one.
LEMMA ApplyStays ==
  ASSUME NEW m, IsManifest(m), NEW h, IsHost(h), NEW c \in Wanted(m), NEW k \in Failures(h, c)
  PROVE  /\ IsHost(k) /\ Stay(h, k)
         /\ c.cmd # "useradd" => Stay(k, h)
         /\ c.cmd = "useradd" => OnlyUser(h, k, c.name)
<1>1. CASE k = h
  BY <1>1 DEF Stay, OnlyUser
<1>2. CASE k \in Outcomes(h, c) /\ c \in OfGroups(m)
  <2>1. IsHost(k) /\ k.acct = h.acct
    BY <1>2, GroupEffect
  <2>2. c.cmd # "useradd"
    BY <1>2 DEF OfGroups, Command
  <2>. QED
    BY <2>1, <2>2 DEF Stay
<1>3. CASE k \in Outcomes(h, c) /\ c \notin OfGroups(m)
  BY <1>3, UserEffect DEF Wanted
<1>4. CASE c.cmd = "keys" /\ IsHost(k) /\ k.acct = h.acct
  BY <1>4 DEF Stay
<1>. QED
  BY <1>1, <1>2, <1>3, <1>4, FailureEffect

\* What undoing does to the users.
LEMMA UndoEffect ==
  ASSUME NEW h, IsHost(h), NEW c \in Undoes, NEW k \in Failures(h, c)
  PROVE  /\ IsHost(k) /\ Stay(k, h)
         /\ c.cmd # "userdel" => Stay(h, k)
         /\ c.cmd = "userdel" => /\ k = h \/ (h.acct[c.name] # None /\ k.acct[c.name] = None)
                                 /\ \A u \in Users : u # c.name => k.acct[u] = h.acct[u]
         /\ c.cmd = "userdel" /\ h.acct[c.name] # None => \A l \in Outcomes(h, c) : l.acct[c.name] = None
<1>1. /\ h.gid \in [Groups -> Ids \union {None}] /\ h.acct \in [Users -> Account \union {None}]
      /\ h.keys \in [Users -> [Homes -> SUBSET Keys]] /\ h.sudo \in [Users -> Policies \union {None}]
  BY HostFields
<1>2. CASE c.cmd = "keys"
  <2>1. c.name \in Users /\ c.arg \in [home : {DefaultHome}, keys : SUBSET Keys]
    BY <1>2 DEF Undoes
  <2>2. k = h \/ \E ks \in SUBSET Keys : k = SetKeys(h, c.name, DefaultHome, ks)
    <3>1. k = h \/ k \in Outcomes(h, c) \/ \E ks \in SUBSET c.arg.keys : k \in WriteKeys(h, c.name, c.arg.home, ks)
      BY Zenon DEF Failures
    <3>2. k = h \/ \E ks \in SUBSET Keys : k \in WriteKeys(h, c.name, DefaultHome, ks)
      BY <1>2, <2>1, <3>1 DEF Outcomes
    <3>. QED
      BY <3>2 DEF WriteKeys
  <2>3. IsHost(k) /\ k.acct = h.acct
    <3>1. DefaultHome \in Homes
      BY AccountsAssumption
    <3>2. ASSUME NEW ks \in SUBSET Keys, k = SetKeys(h, c.name, DefaultHome, ks)
          PROVE  IsHost(k) /\ k.acct = h.acct
      <4>1. /\ IsHost(SetKeys(h, c.name, DefaultHome, ks))
            /\ SetKeys(h, c.name, DefaultHome, ks).acct = h.acct
        BY <2>1, <3>1, <3>2, SetKeysAcct
      <4>. QED
        BY <3>2, <4>1
    <3>. QED
      BY <2>2, <3>2
  <2>. QED
    BY <1>2, <2>3 DEF Stay
<1>3. ASSUME c.cmd # "keys", k # h PROVE k \in Outcomes(h, c)
  BY <1>3 DEF Failures
<1>4. CASE c.cmd = "groupmod"
  <2>1. c.name \in Groups /\ c.arg \in Ids
    BY <1>4 DEF Undoes
  <2>2. k = h \/ k = SetGid(h, c.name, c.arg)
    BY <1>3, <1>4 DEF Outcomes, GroupMod
  <2>3. CASE k # h
    <3>1. PICK g \in Groups, n \in Ids \union {None} : k = SetGid(h, g, n)
      BY <2>1, <2>2, <2>3
    <3>2. IsHost(k) /\ k.acct = h.acct
      BY <3>1, SetGidFields
    <3>. QED
      BY <1>4, <3>2 DEF Stay
  <2>. QED
    BY <1>4, <2>3 DEF Stay
<1>5. CASE c.cmd = "groupdel"
  <2>1. c.name \in Groups
    BY <1>5 DEF Undoes
  <2> DEFINE g == c.name
             left(a) == IF a = None THEN None ELSE [a EXCEPT !.supp = @ \ {g}]
             h1 == SetGid(h, g, None)
             A == [u \in Users |-> left(h.acct[u])]
  <2>2. k = h \/ k = [h1 EXCEPT !.acct = A]
    BY <1>3, <1>5 DEF Outcomes, GroupDel
  <2>3. IsHost(h1) /\ h1.acct = h.acct
    BY <2>1, SetGidFields
  <2>4. \A u \in Users : (h.acct[u] = None <=> left(h.acct[u]) = None) /\ left(h.acct[u]) \in Account \union {None}
    <3> SUFFICES ASSUME NEW u \in Users, h.acct[u] # None
                 PROVE  left(h.acct[u]) # None /\ left(h.acct[u]) \in Account
      OBVIOUS
    <3>1. h.acct[u] \in Account /\ h.acct[u].supp \ {g} \in SUBSET Groups
      BY <1>1, AccountFields
    <3>2. [h.acct[u] EXCEPT !.supp = h.acct[u].supp \ {g}] \in Account
      BY <3>1, AccountExcept
    <3>. QED
      BY <3>2, AccountFields
  <2>5. A \in [Users -> Account \union {None}] /\ \A u \in Users : A[u] = left(h.acct[u])
    BY <2>4
  <2> HIDE DEF h1, A, left
  <2>6. IsHost([h1 EXCEPT !.acct = A]) /\ [h1 EXCEPT !.acct = A].acct = A
    BY <2>3, <2>5 DEF IsHost
  <2>7. IsHost(k) /\ (k.acct = h.acct \/ k.acct = A)
    BY <2>2, <2>6
  <2>8. Stay(h, k) /\ Stay(k, h)
    BY <2>4, <2>5, <2>7 DEF Stay
  <2>. QED
    BY <1>5, <2>7, <2>8
<1>6. CASE c.cmd = "userdel"
  <2>1. c.name \in Users
    BY <1>6 DEF Undoes
  <2> DEFINE u == c.name
  <2>2. ASSUME NEW l \in Outcomes(h, c)
        PROVE  /\ IsHost(l) /\ h.acct[u] # None /\ l.acct[u] = None
               /\ \A v \in Users : v # u => l.acct[v] = h.acct[v]
    <3>1. h.acct[u] # None /\ l = SetAcct(SetKeys(h, u, h.acct[u].home, {}), u, None)
      BY <1>6, <2>2 DEF Outcomes, UserDel
    <3>2. h.acct[u].home \in Homes
      BY <1>1, <2>1, <3>1, AccountFields
    <3>3. PICK e \in SUBSET Keys : e = {}
      OBVIOUS
    <3>4. PICK x \in Homes, v \in Users : x = h.acct[u].home /\ v = u
      BY <2>1, <3>2
    <3>5. PICK h1 : h1 = SetKeys(h, v, x, e)
      OBVIOUS
    <3>6. IsHost(h1) /\ h1.acct = h.acct
      <4>1. IsHost(SetKeys(h, v, x, e)) /\ SetKeys(h, v, x, e).acct = h.acct
        BY <3>3, <3>4, SetKeysAcct
      <4>. QED
        BY <3>5, <4>1
    <3>7. PICK a \in Account \union {None} : a = None
      OBVIOUS
    <3>8. l = SetAcct(h1, v, a)
      BY <3>1, <3>3, <3>4, <3>5, <3>7
    <3>9. IsHost(l) /\ l.acct = [h1.acct EXCEPT ![v] = a]
      BY <3>6, <3>8, SetAcctFields
    <3>10. l.acct = [h.acct EXCEPT ![v] = None]
      BY <3>6, <3>7, <3>9
    <3>11. l.acct[v] = None /\ \A w \in Users : w # v => l.acct[w] = h.acct[w]
      BY <1>1, <3>10
    <3>12. h.acct[u] # None
      BY <3>1
    <3> HIDE DEF u
    <3>. QED
      BY <3>4, <3>9, <3>11, <3>12
  <2>3. CASE k = h
    BY <1>6, <2>2, <2>3 DEF Stay
  <2>4. CASE k \in Outcomes(h, c)
    <3>1. /\ IsHost(k) /\ h.acct[u] # None /\ k.acct[u] = None
          /\ \A v \in Users : v # u => k.acct[v] = h.acct[v]
      BY <2>2, <2>4
    <3>2. Stay(k, h)
      BY <3>1 DEF Stay
    <3>. QED
      BY <1>6, <2>2, <3>1, <3>2
  <2>. QED
    BY <1>3, <1>6, <2>3, <2>4
<1>7. c.cmd \in {"keys", "groupmod", "groupdel", "userdel"}
  BY DEF Undoes
<1>. QED
  BY <1>2, <1>4, <1>5, <1>6, <1>7

\* The commands of a change are commands that the manifest asks for.
LEMMA CommandsType ==
  ASSUME NEW m, IsManifest(m), NEW c \in Due(m)
  PROVE  /\ Commands(m, c) \in Seq(Wanted(m))
         /\ c.target = "group" => Commands(m, c) = <<Command(IF c.action = "create" THEN "groupadd" ELSE "groupmod",
                                                             c.name, m.groups[c.name])>>
         /\ c.target = "user" /\ c.action = "create" => Commands(m, c) = createUser(c.name, m.users[c.name])
         /\ c.target = "user" /\ c.action # "create" => Commands(m, c) = updateUser(c.name, m.users[c.name])
         /\ c.target = "keys" => Commands(m, c) = <<Command("keys", c.name, [home |-> DefaultHome, keys |-> m.authorized[c.name]])>>
<1>1. /\ c.target \in {"group", "user", "keys"}
      /\ c.target = "group" => c.action \in {"create", "update"} /\ c.name \in DOMAIN m.groups
                               /\ (c.action = "update" => m.groups[c.name] # None)
      /\ c.target = "user"  => c.action \in {"create", "update"} /\ c.name \in DOMAIN m.users
      /\ c.target = "keys"  => c.name \in DOMAIN m.authorized
  BY DEF Due
<1>2. CASE c.target = "group"
  <2>1. Commands(m, c) = <<Command(IF c.action = "create" THEN "groupadd" ELSE "groupmod", c.name, m.groups[c.name])>>
    BY <1>1, <1>2 DEF Commands
  <2>2. Command(IF c.action = "create" THEN "groupadd" ELSE "groupmod", c.name, m.groups[c.name]) \in Wanted(m)
    BY <1>1, <1>2 DEF Wanted, OfGroups
  <2>. QED
    BY <1>2, <2>1, <2>2
<1>3. CASE c.target = "user"
  <2>1. /\ createUser(c.name, m.users[c.name]) \in Seq(OfUser(m, c.name))
        /\ updateUser(c.name, m.users[c.name]) \in Seq(OfUser(m, c.name))
    BY <1>1, <1>3, CreateCommands, UpdateCommands
  <2>2. Seq(OfUser(m, c.name)) \subseteq Seq(Wanted(m))
    <3>1. OfUser(m, c.name) \subseteq Wanted(m)
      BY DEF Wanted, OfUser
    <3> HIDE DEF OfUser, Wanted
    <3>. QED
      BY <3>1
  <2>3. Commands(m, c) = IF c.action = "create" THEN createUser(c.name, m.users[c.name])
                                                ELSE updateUser(c.name, m.users[c.name])
    BY <1>1, <1>3 DEF Commands
  <2>. QED
    BY <1>1, <1>3, <2>1, <2>2, <2>3
<1>4. CASE c.target = "keys"
  <2>1. Commands(m, c) = <<Command("keys", c.name, [home |-> DefaultHome, keys |-> m.authorized[c.name]])>>
    BY <1>4 DEF Commands
  <2>2. Command("keys", c.name, [home |-> DefaultHome, keys |-> m.authorized[c.name]]) \in Wanted(m)
    BY <1>1, <1>4 DEF Wanted, OfKeys
  <2>. QED
    BY <1>4, <2>1, <2>2
<1>. QED
  BY <1>1, <1>2, <1>3, <1>4

-----------------------------------------------------------------------------
(* What Plan finds. *)

\* The order of the groups and that of the users.
LEMMA OrderFacts ==
  /\ Len(GroupOrder) \in Nat /\ DOMAIN GroupOrder = 1 .. Len(GroupOrder)
  /\ \A i \in 1 .. Len(GroupOrder) : GroupOrder[i] \in Groups
  /\ \A g \in Groups : \E i \in 1 .. Len(GroupOrder) : GroupOrder[i] = g
  /\ Len(UserOrder) \in Nat /\ DOMAIN UserOrder = 1 .. Len(UserOrder)
  /\ \A i \in 1 .. Len(UserOrder) : UserOrder[i] \in Users
  /\ \A u \in Users : \E i \in 1 .. Len(UserOrder) : UserOrder[i] = u
<1>1. GroupOrder \in Seq(Groups) /\ UserOrder \in Seq(Users)
  BY AccountsAssumption
<1>2. /\ Len(GroupOrder) \in Nat /\ DOMAIN GroupOrder = 1 .. Len(GroupOrder)
      /\ Len(UserOrder) \in Nat /\ DOMAIN UserOrder = 1 .. Len(UserOrder)
  BY <1>1, LenProperties
<1>. QED
  BY <1>2 DEF Groups, Users, ToSet

\* The changes of groups.
LEMMA GroupChangesType ==
  ASSUME NEW m, IsManifest(m), NEW h, IsHost(h), NEW missed, NEW action \in {"create", "update"}
  PROVE  /\ GroupChanges(h, m, missed, action) \in Seq(DueOf(m, "group", action))
         /\ \A g \in Groups : GroupAction(h, m, g, missed) = action =>
              \E c \in ToSet(GroupChanges(h, m, missed, action)) : c.name = g
         /\ \A c \in ToSet(GroupChanges(h, m, missed, action)) : \E g \in Groups : c.name = g /\ GroupAction(h, m, g, missed) = action
<1> DEFINE S == DueOf(m, "group", action)
           n == Len(GroupOrder)
           due(g) == GroupAction(h, m, g, missed) = action
           change(g) == Change("group", g, action, IF action = "create" THEN None ELSE h.gid[g])
           f == [i \in 1 .. n |-> If(due(GroupOrder[i]), change(GroupOrder[i]))]
<1>1. /\ n \in Nat /\ DOMAIN GroupOrder = 1 .. n /\ \A i \in 1 .. n : GroupOrder[i] \in Groups
      /\ \A g \in Groups : \E i \in 1 .. n : GroupOrder[i] = g
  BY OrderFacts
<1>2. GroupChanges(h, m, missed, action) = FlattenSeq(f)
  BY <1>1 DEF GroupChanges
<1>3. ASSUME NEW g \in Groups, due(g) PROVE change(g) \in S
  <2>1. g \in DOMAIN m.groups
    BY <1>3 DEF GroupAction
  <2>2. action = "update" => h.gid[g] \in Ids /\ m.groups[g] # None
    <3>1. ASSUME action = "update" PROVE h.gid[g] # None /\ GroupDrift(h, g, m.groups[g])
      BY <1>3, <3>1 DEF GroupAction
    <3>2. h.gid[g] \in Ids \union {None}
      BY HostFields
    <3>. QED
      BY <3>1, <3>2 DEF GroupDrift
  <2>. QED
    BY <2>1, <2>2 DEF Change, Due, DueOf
<1> HIDE DEF change, due, S
<1>4. \A i \in 1 .. n : If(due(GroupOrder[i]), change(GroupOrder[i])) \in Seq(S)
                        /\ ToSet(If(due(GroupOrder[i]), change(GroupOrder[i]))) =
                             IF due(GroupOrder[i]) THEN {change(GroupOrder[i])} ELSE {}
  <2> SUFFICES ASSUME NEW i \in 1 .. n, NEW g, g = GroupOrder[i]
               PROVE  If(due(g), change(g)) \in Seq(S)
                      /\ ToSet(If(due(g), change(g))) = IF due(g) THEN {change(g)} ELSE {}
    OBVIOUS
  <2>1. due(g) \in BOOLEAN /\ (due(g) => change(g) \in S)
    BY <1>1, <1>3 DEF due
  <2>. QED
    BY <2>1, IfSeq
<1>5. f \in [1 .. n -> Seq(S)]
  BY <1>4
<1>6. /\ FlattenSeq(f) \in Seq(S) /\ \A i \in 1 .. n : ToSet(f[i]) \subseteq ToSet(FlattenSeq(f))
      /\ \A c \in ToSet(FlattenSeq(f)) : \E i \in 1 .. n : c \in ToSet(f[i])
  BY <1>1, <1>5, FlattenFunction
<1>7. ASSUME NEW g \in Groups, due(g) PROVE \E c \in ToSet(FlattenSeq(f)) : c.name = g
  <2>1. PICK i \in 1 .. n : GroupOrder[i] = g
    BY <1>1
  <2>2. change(g) \in ToSet(f[i])
    BY <1>4, <1>7, <2>1
  <2>3. change(g).name = g
    BY DEF change, Change
  <2>. QED
    BY <1>6, <2>2, <2>3, Zenon
<1>9. ASSUME NEW c \in ToSet(FlattenSeq(f)) PROVE \E g \in Groups : c.name = g /\ due(g)
  <2>1. PICK i \in 1 .. n : c \in ToSet(f[i])
    BY <1>6, <1>9
  <2>2. due(GroupOrder[i]) /\ c = change(GroupOrder[i]) /\ GroupOrder[i] \in Groups
    BY <1>1, <1>4, <2>1
  <2>3. c.name = GroupOrder[i]
    BY <2>2 DEF change, Change
  <2>. QED
    BY <2>2, <2>3
<1>. QED
  <2> HIDE DEF f
  <2>. QED
    BY <1>2, <1>6, <1>7, <1>9, Zenon DEF due, S

\* The changes of users.
LEMMA UserChangesType ==
  ASSUME NEW m, IsManifest(m), NEW h, IsHost(h), NEW missed, NEW action \in {"create", "update"}
  PROVE  /\ UserChanges(h, m, missed, action) \in Seq(DueOf(m, "user", action))
         /\ \A u \in Users : UserAction(h, m, u, missed) = action =>
              \E c \in ToSet(UserChanges(h, m, missed, action)) : c.name = u
         /\ \A c \in ToSet(UserChanges(h, m, missed, action)) : \E u \in Users : c.name = u /\ UserAction(h, m, u, missed) = action
<1> DEFINE S == DueOf(m, "user", action)
           n == Len(UserOrder)
           due(u) == UserAction(h, m, u, missed) = action
           change(u) == Change("user", u, action, None)
           f == [i \in 1 .. n |-> If(due(UserOrder[i]), change(UserOrder[i]))]
<1>1. /\ n \in Nat /\ DOMAIN UserOrder = 1 .. n /\ \A i \in 1 .. n : UserOrder[i] \in Users
      /\ \A u \in Users : \E i \in 1 .. n : UserOrder[i] = u
  BY OrderFacts
<1>2. UserChanges(h, m, missed, action) = FlattenSeq(f)
  BY <1>1 DEF UserChanges
<1>3. ASSUME NEW u \in Users, due(u) PROVE change(u) \in S
  <2>1. u \in DOMAIN m.users
    BY <1>3 DEF UserAction
  <2>. QED
    BY <2>1 DEF Change, Due, DueOf
<1> HIDE DEF change, due, S
<1>4. \A i \in 1 .. n : If(due(UserOrder[i]), change(UserOrder[i])) \in Seq(S)
                        /\ ToSet(If(due(UserOrder[i]), change(UserOrder[i]))) =
                             IF due(UserOrder[i]) THEN {change(UserOrder[i])} ELSE {}
  <2> SUFFICES ASSUME NEW i \in 1 .. n, NEW u, u = UserOrder[i]
               PROVE  If(due(u), change(u)) \in Seq(S)
                      /\ ToSet(If(due(u), change(u))) = IF due(u) THEN {change(u)} ELSE {}
    OBVIOUS
  <2>1. due(u) \in BOOLEAN /\ (due(u) => change(u) \in S)
    BY <1>1, <1>3 DEF due
  <2>. QED
    BY <2>1, IfSeq
<1>5. f \in [1 .. n -> Seq(S)]
  BY <1>4
<1>6. /\ FlattenSeq(f) \in Seq(S) /\ \A i \in 1 .. n : ToSet(f[i]) \subseteq ToSet(FlattenSeq(f))
      /\ \A c \in ToSet(FlattenSeq(f)) : \E i \in 1 .. n : c \in ToSet(f[i])
  BY <1>1, <1>5, FlattenFunction
<1>7. ASSUME NEW u \in Users, due(u) PROVE \E c \in ToSet(FlattenSeq(f)) : c.name = u
  <2>1. PICK i \in 1 .. n : UserOrder[i] = u
    BY <1>1
  <2>2. change(u) \in ToSet(f[i])
    BY <1>4, <1>7, <2>1
  <2>3. change(u).name = u
    BY DEF change, Change
  <2>. QED
    BY <1>6, <2>2, <2>3, Zenon
<1>9. ASSUME NEW c \in ToSet(FlattenSeq(f)) PROVE \E u \in Users : c.name = u /\ due(u)
  <2>1. PICK i \in 1 .. n : c \in ToSet(f[i])
    BY <1>6, <1>9
  <2>2. due(UserOrder[i]) /\ c = change(UserOrder[i]) /\ UserOrder[i] \in Users
    BY <1>1, <1>4, <2>1
  <2>3. c.name = UserOrder[i]
    BY <2>2 DEF change, Change
  <2>. QED
    BY <2>2, <2>3
<1>. QED
  <2> HIDE DEF f
  <2>. QED
    BY <1>2, <1>6, <1>7, <1>9, Zenon DEF due, S

\* The changes of authorized keys.
LEMMA KeysChangesType ==
  ASSUME NEW m, IsManifest(m), NEW h, IsHost(h)
  PROVE  /\ KeysChanges(h, m) \in Seq(DueOf(m, "keys", "write"))
         /\ \A u \in DOMAIN m.authorized : m.authorized[u] # h.keys[u][DefaultHome] =>
              \E c \in ToSet(KeysChanges(h, m)) : c.name = u
         /\ \A c \in ToSet(KeysChanges(h, m)) : \E u \in DOMAIN m.authorized :
              c.name = u /\ m.authorized[u] # h.keys[u][DefaultHome]
<1> DEFINE S == DueOf(m, "keys", "write")
           n == Len(UserOrder)
           due(u) == u \in DOMAIN m.authorized /\ m.authorized[u] # h.keys[u][DefaultHome]
           change(u) == Change("keys", u, "write", h.keys[u][DefaultHome])
           f == [i \in 1 .. n |-> If(due(UserOrder[i]), change(UserOrder[i]))]
<1>1. /\ n \in Nat /\ DOMAIN UserOrder = 1 .. n /\ \A i \in 1 .. n : UserOrder[i] \in Users
      /\ \A u \in Users : \E i \in 1 .. n : UserOrder[i] = u
  BY OrderFacts
<1>2. KeysChanges(h, m) = FlattenSeq(f)
  BY <1>1 DEF KeysChanges
<1>3. ASSUME NEW u \in Users, due(u) PROVE change(u) \in S
  <2>1. u \in DOMAIN m.authorized /\ h.keys[u][DefaultHome] \in SUBSET Keys
    BY <1>3, HostFields, AccountsAssumption
  <2>. QED
    BY <2>1 DEF Change, Due, DueOf
<1> HIDE DEF change, due, S
<1>4. \A i \in 1 .. n : If(due(UserOrder[i]), change(UserOrder[i])) \in Seq(S)
                        /\ ToSet(If(due(UserOrder[i]), change(UserOrder[i]))) =
                             IF due(UserOrder[i]) THEN {change(UserOrder[i])} ELSE {}
  <2> SUFFICES ASSUME NEW i \in 1 .. n, NEW u, u = UserOrder[i]
               PROVE  If(due(u), change(u)) \in Seq(S)
                      /\ ToSet(If(due(u), change(u))) = IF due(u) THEN {change(u)} ELSE {}
    OBVIOUS
  <2>1. due(u) \in BOOLEAN /\ (due(u) => change(u) \in S)
    BY <1>1, <1>3 DEF due
  <2>. QED
    BY <2>1, IfSeq
<1>5. f \in [1 .. n -> Seq(S)]
  BY <1>4
<1>6. /\ FlattenSeq(f) \in Seq(S) /\ \A i \in 1 .. n : ToSet(f[i]) \subseteq ToSet(FlattenSeq(f))
      /\ \A c \in ToSet(FlattenSeq(f)) : \E i \in 1 .. n : c \in ToSet(f[i])
  BY <1>1, <1>5, FlattenFunction
<1>7. ASSUME NEW u \in Users, due(u) PROVE \E c \in ToSet(FlattenSeq(f)) : c.name = u
  <2>1. PICK i \in 1 .. n : UserOrder[i] = u
    BY <1>1
  <2>2. change(u) \in ToSet(f[i])
    BY <1>4, <1>7, <2>1
  <2>3. change(u).name = u
    BY DEF change, Change
  <2>. QED
    BY <1>6, <2>2, <2>3, Zenon
<1>8. \A u \in DOMAIN m.authorized : u \in Users
  BY Zenon DEF IsManifest
<1>9. ASSUME NEW c \in ToSet(FlattenSeq(f)) PROVE \E u \in Users : c.name = u /\ due(u)
  <2>1. PICK i \in 1 .. n : c \in ToSet(f[i])
    BY <1>6, <1>9
  <2>2. due(UserOrder[i]) /\ c = change(UserOrder[i]) /\ UserOrder[i] \in Users
    BY <1>1, <1>4, <2>1
  <2>3. c.name = UserOrder[i]
    BY <2>2 DEF change, Change
  <2>. QED
    BY <2>2, <2>3
<1>. QED
  <2> HIDE DEF f
  <2>. QED
    BY <1>2, <1>6, <1>7, <1>8, <1>9, Zenon DEF due, S

\* An order of changes: nothing of the groups comes after a user is made.
GroupsFirst(s) ==
  \A i, j \in DOMAIN s :
    i < j => ~ (s[i].target = "user" /\ s[j].target = "group")

\* All that Plan finds.
LEMMA ChangesType ==
  ASSUME NEW m, IsManifest(m), NEW h, IsHost(h), NEW missed
  PROVE  /\ Changes(h, m, missed) \in Seq(Due(m))
         /\ GroupsFirst(Changes(h, m, missed))
         /\ \A g \in Groups : GroupAction(h, m, g, missed) \in {"create", "update"} =>
              \E c \in ToSet(Changes(h, m, missed)) : c.target = "group" /\ c.name = g
         /\ \A u \in Users : UserAction(h, m, u, missed) \in {"create", "update"} =>
              \E c \in ToSet(Changes(h, m, missed)) : c.target = "user" /\ c.name = u
         /\ \A u \in DOMAIN m.authorized : m.authorized[u] # h.keys[u][DefaultHome] =>
              \E c \in ToSet(Changes(h, m, missed)) : c.target = "keys" /\ c.name = u
         /\ \A c \in ToSet(Changes(h, m, missed)) :
              /\ c.target = "group" => GroupAction(h, m, c.name, missed) # "none"
              /\ c.target = "user"  => UserAction(h, m, c.name, missed) = c.action
              /\ c.target = "keys"  => m.authorized[c.name] # h.keys[c.name][DefaultHome]
<1> DEFINE S == Due(m)
           a == GroupChanges(h, m, missed, "create")
           b == GroupChanges(h, m, missed, "update")
           c == UserChanges(h, m, missed, "create")
           d == UserChanges(h, m, missed, "update")
           e == KeysChanges(h, m)
           R == {w \in S \X S : w[1].target = "user" /\ w[2].target = "group"}
           Of(s, t) == s \in Seq(S) /\ \A x \in ToSet(s) : x.target = t
<1>0. ASSUME NEW P \in SUBSET S, NEW s \in Seq(P) PROVE s \in Seq(S) /\ ToSet(s) \subseteq P
  <2> HIDE DEF S
  <2>. QED
    BY ToSetType
<1>21. /\ \A x \in ToSet(a) : GroupAction(h, m, x.name, missed) # "none"
       /\ \A x \in ToSet(b) : GroupAction(h, m, x.name, missed) # "none"
       /\ \A x \in ToSet(c) : UserAction(h, m, x.name, missed) = "create"
       /\ \A x \in ToSet(d) : UserAction(h, m, x.name, missed) = "update"
       /\ \A x \in ToSet(e) : m.authorized[x.name] # h.keys[x.name][DefaultHome]
  <2>1. "create" \in {"create", "update"} /\ "update" \in {"create", "update"}
    OBVIOUS
  <2>2. /\ \A x \in ToSet(a) : \E g \in Groups : x.name = g /\ GroupAction(h, m, g, missed) = "create"
        /\ \A x \in ToSet(b) : \E g \in Groups : x.name = g /\ GroupAction(h, m, g, missed) = "update"
    BY <2>1, GroupChangesType
  <2>3. /\ \A x \in ToSet(c) : \E u \in Users : x.name = u /\ UserAction(h, m, u, missed) = "create"
        /\ \A x \in ToSet(d) : \E u \in Users : x.name = u /\ UserAction(h, m, u, missed) = "update"
    BY <2>1, UserChangesType
  <2>4. \A x \in ToSet(e) : \E u \in DOMAIN m.authorized : x.name = u /\ m.authorized[u] # h.keys[u][DefaultHome]
    BY KeysChangesType
  <2> HIDE DEF a, b, c, d, e
  <2>. QED
    BY <2>2, <2>3, <2>4
<1>22. (\A x \in ToSet(c) : x.action = "create") /\ (\A x \in ToSet(d) : x.action = "update")
  <2> DEFINE P(act) == DueOf(m, "user", act)
  <2>1. "create" \in {"create", "update"} /\ "update" \in {"create", "update"}
    OBVIOUS
  <2>2. c \in Seq(P("create")) /\ d \in Seq(P("update"))
    BY <2>1, UserChangesType
  <2>3. (\A x \in P("create") : x.action = "create") /\ (\A x \in P("update") : x.action = "update")
    BY DEF DueOf
  <2> HIDE DEF P, c, d
  <2>4. ToSet(c) \subseteq P("create") /\ ToSet(d) \subseteq P("update")
    BY <2>2, ToSetType
  <2>. QED
    BY <2>3, <2>4
<1>1. Of(a, "group") /\ \A g \in Groups : GroupAction(h, m, g, missed) = "create" => \E x \in ToSet(a) : x.name = g
  <2> DEFINE P == DueOf(m, "group", "create")
  <2>1. P \in SUBSET S /\ a \in Seq(P) /\ \A x \in P : x.target = "group"
    BY GroupChangesType DEF DueOf
  <2> HIDE DEF P
  <2>2. a \in Seq(S) /\ ToSet(a) \subseteq P
    BY <1>0, <2>1
  <2>3. \A g \in Groups : GroupAction(h, m, g, missed) = "create" => \E x \in ToSet(a) : x.name = g
    <3>1. "create" \in {"create", "update"}
      OBVIOUS
    <3>. QED
      BY <3>1, GroupChangesType
  <2>. QED
    BY <2>1, <2>2, <2>3
<1>2. Of(b, "group") /\ \A g \in Groups : GroupAction(h, m, g, missed) = "update" => \E x \in ToSet(b) : x.name = g
  <2> DEFINE P == DueOf(m, "group", "update")
  <2>1. P \in SUBSET S /\ b \in Seq(P) /\ \A x \in P : x.target = "group"
    BY GroupChangesType DEF DueOf
  <2> HIDE DEF P
  <2>2. b \in Seq(S) /\ ToSet(b) \subseteq P
    BY <1>0, <2>1
  <2>3. \A g \in Groups : GroupAction(h, m, g, missed) = "update" => \E x \in ToSet(b) : x.name = g
    <3>1. "update" \in {"create", "update"}
      OBVIOUS
    <3>. QED
      BY <3>1, GroupChangesType
  <2>. QED
    BY <2>1, <2>2, <2>3
<1>3. Of(c, "user") /\ \A u \in Users : UserAction(h, m, u, missed) = "create" => \E x \in ToSet(c) : x.name = u
  <2> DEFINE P == DueOf(m, "user", "create")
  <2>1. P \in SUBSET S /\ c \in Seq(P) /\ \A x \in P : x.target = "user"
    BY UserChangesType DEF DueOf
  <2> HIDE DEF P
  <2>2. c \in Seq(S) /\ ToSet(c) \subseteq P
    BY <1>0, <2>1
  <2>3. \A u \in Users : UserAction(h, m, u, missed) = "create" => \E x \in ToSet(c) : x.name = u
    <3>1. "create" \in {"create", "update"}
      OBVIOUS
    <3>. QED
      BY <3>1, UserChangesType
  <2>. QED
    BY <2>1, <2>2, <2>3
<1>4. Of(d, "user") /\ \A u \in Users : UserAction(h, m, u, missed) = "update" => \E x \in ToSet(d) : x.name = u
  <2> DEFINE P == DueOf(m, "user", "update")
  <2>1. P \in SUBSET S /\ d \in Seq(P) /\ \A x \in P : x.target = "user"
    BY UserChangesType DEF DueOf
  <2> HIDE DEF P
  <2>2. d \in Seq(S) /\ ToSet(d) \subseteq P
    BY <1>0, <2>1
  <2>3. \A u \in Users : UserAction(h, m, u, missed) = "update" => \E x \in ToSet(d) : x.name = u
    <3>1. "update" \in {"create", "update"}
      OBVIOUS
    <3>. QED
      BY <3>1, UserChangesType
  <2>. QED
    BY <2>1, <2>2, <2>3
<1>5. Of(e, "keys") /\ \A u \in DOMAIN m.authorized : m.authorized[u] # h.keys[u][DefaultHome] => \E x \in ToSet(e) : x.name = u
  <2> DEFINE P == DueOf(m, "keys", "write")
  <2>1. P \in SUBSET S /\ e \in Seq(P) /\ \A x \in P : x.target = "keys"
    BY KeysChangesType DEF DueOf
  <2> HIDE DEF P
  <2>2. e \in Seq(S) /\ ToSet(e) \subseteq P
    BY <1>0, <2>1
  <2>. QED
    BY <2>1, <2>2, KeysChangesType
<1>6. Changes(h, m, missed) = a \o b \o c \o d \o e
  BY Zenon DEF Changes
<1> HIDE DEF a, b, c, d, e, S
<1>7. ASSUME NEW s, NEW t, Of(s, t) PROVE Apart(R, s)
  <2> SUFFICES ASSUME NEW i \in DOMAIN s, NEW j \in DOMAIN s, s[i].target = "user", s[j].target = "group" PROVE FALSE
    BY DEF Apart
  <2>1. s[i] \in ToSet(s) /\ s[j] \in ToSet(s)
    BY DEF ToSet
  <2>. QED
    BY <1>7, <2>1
<1>8. ASSUME NEW s \in Seq(S), NEW t \in Seq(S), Apart(R, s), Apart(R, t),
             (\A x \in ToSet(s) : x.target # "user") \/ (\A x \in ToSet(t) : x.target # "group")
      PROVE  s \o t \in Seq(S) /\ Apart(R, s \o t) /\ ToSet(s \o t) = ToSet(s) \union ToSet(t)
  <2>1. \A x \in ToSet(s), y \in ToSet(t) : <<x, y>> \notin R
    BY <1>8
  <2> HIDE DEF R
  <2>. QED
    BY <1>8, <2>1, ConcatProperties, ToSetConcat, ApartConcat
<1>9. /\ a \in Seq(S) /\ b \in Seq(S) /\ c \in Seq(S) /\ d \in Seq(S) /\ e \in Seq(S)
      /\ Apart(R, a) /\ Apart(R, b) /\ Apart(R, c) /\ Apart(R, d) /\ Apart(R, e)
  BY <1>1, <1>2, <1>3, <1>4, <1>5, <1>7
<1>10. /\ \A x \in ToSet(a) : x.target = "group"
       /\ \A x \in ToSet(b) : x.target = "group"
       /\ \A x \in ToSet(c) : x.target = "user"
       /\ \A x \in ToSet(d) : x.target = "user"
       /\ \A x \in ToSet(e) : x.target = "keys"
  BY <1>1, <1>2, <1>3, <1>4, <1>5
<1> HIDE DEF R, Of
<1>11. PICK ab : ab = a \o b
  OBVIOUS
<1>12. ab \in Seq(S) /\ Apart(R, ab) /\ ToSet(ab) = ToSet(a) \union ToSet(b)
  BY <1>8, <1>9, <1>10, <1>11
<1>13. PICK abc : abc = ab \o c
  OBVIOUS
<1>14. abc \in Seq(S) /\ Apart(R, abc) /\ ToSet(abc) = ToSet(ab) \union ToSet(c)
  BY <1>8, <1>9, <1>10, <1>12, <1>13
<1>15. PICK abcd : abcd = abc \o d
  OBVIOUS
<1>16. abcd \in Seq(S) /\ Apart(R, abcd) /\ ToSet(abcd) = ToSet(abc) \union ToSet(d)
  BY <1>8, <1>9, <1>10, <1>14, <1>15
<1>17. PICK s : s = abcd \o e
  OBVIOUS
<1>18. s \in Seq(S) /\ Apart(R, s) /\ ToSet(s) = ToSet(abcd) \union ToSet(e)
  BY <1>8, <1>9, <1>10, <1>16, <1>17
<1>19. s = Changes(h, m, missed)
  BY <1>6, <1>11, <1>13, <1>15, <1>17
<1>20. ToSet(s) = ToSet(a) \union ToSet(b) \union ToSet(c) \union ToSet(d) \union ToSet(e)
  BY <1>12, <1>14, <1>16, <1>18
<1>23. GroupsFirst(s)
  <2>1. \A i \in DOMAIN s : s[i] \in S
    BY <1>18, LenProperties, ElementOfSeq
  <2>. QED
    BY <1>18, <2>1 DEF GroupsFirst, Apart, R
<1>24. /\ \A g \in Groups : GroupAction(h, m, g, missed) \in {"create", "update"} =>
            \E x \in ToSet(s) : x.target = "group" /\ x.name = g
       /\ \A u \in Users : UserAction(h, m, u, missed) \in {"create", "update"} =>
            \E x \in ToSet(s) : x.target = "user" /\ x.name = u
       /\ \A u \in DOMAIN m.authorized : m.authorized[u] # h.keys[u][DefaultHome] =>
            \E x \in ToSet(s) : x.target = "keys" /\ x.name = u
  BY <1>1, <1>2, <1>3, <1>4, <1>5, <1>10, <1>20
<1>25. \A x \in ToSet(s) :
         /\ x.target = "group" => GroupAction(h, m, x.name, missed) # "none"
         /\ x.target = "user"  => UserAction(h, m, x.name, missed) = x.action
         /\ x.target = "keys"  => m.authorized[x.name] # h.keys[x.name][DefaultHome]
  BY <1>10, <1>20, <1>21, <1>22
<1>. QED
  BY <1>18, <1>19, <1>23, <1>24, <1>25 DEF S

\* What undoes a change.
LEMMA UndoType ==
  ASSUME NEW m, IsManifest(m), NEW c \in Due(m)
  PROVE  /\ Undo(c) \in Seq(Undoes)
         /\ \A i, j \in DOMAIN Undo(c) : i = j
         /\ \A x \in ToSet(Undo(c)) : /\ x.name = c.name /\ x.mgr = ManagerOf(c)
                                     /\ (x.cmd = "userdel" <=> (c.target = "user" /\ c.action = "create"))
                                     /\ (x.cmd \in {"groupdel", "groupmod"} <=> c.target = "group")
         /\ c.target = "user" /\ c.action = "create" =>
              \E x \in ToSet(Undo(c)) : x.name = c.name /\ x.cmd = "userdel"
<1> DEFINE Good(b, y) ==
             /\ Undo(c) = If(b, y)
             /\ b => y \in Undoes
             /\ y.name = c.name /\ y.mgr = ManagerOf(c)
             /\ b => (y.cmd = "userdel" <=> (c.target = "user" /\ c.action = "create"))
             /\ b => (y.cmd \in {"groupdel", "groupmod"} <=> c.target = "group")
             /\ c.target = "user" /\ c.action = "create" => b
<1>1. \A u \in DOMAIN m.users : u \in Users
  BY Zenon DEF IsManifest
<1>2. \A u \in DOMAIN m.authorized : u \in Users
  BY Zenon DEF IsManifest
<1>3. \A g \in DOMAIN m.groups : g \in Groups
  BY Zenon DEF IsManifest
<1>4. \E b \in BOOLEAN : \E y : Good(b, y)
  <2>1. CASE c.target = "group" /\ c.action = "create"
    <3>1. c.name \in Groups
      BY <1>3, <2>1 DEF Due
    <3>2. PICK y : y = [mgr |-> "user", cmd |-> "groupdel", name |-> c.name, arg |-> None]
      OBVIOUS
    <3>3. Undo(c) = <<y>> /\ ManagerOf(c) = "user"
      BY <2>1, <3>2 DEF Undo, ManagerOf
    <3>4. y.name = c.name /\ y.mgr = "user" /\ y.cmd = "groupdel" /\ y \in Undoes
      BY <3>1, <3>2 DEF Undoes
    <3>5. Good(TRUE, y)
      BY <2>1, <3>3, <3>4 DEF If
    <3>. QED
      BY <3>5
  <2>2. CASE c.target = "group" /\ c.action = "update"
    <3>1. c.name \in Groups /\ c.before \in Ids
      BY <1>3, <2>2 DEF Due
    <3>2. PICK y : y = [mgr |-> "user", cmd |-> "groupmod", name |-> c.name, arg |-> c.before]
      OBVIOUS
    <3>3. Undo(c) = <<y>> /\ ManagerOf(c) = "user"
      BY <2>2, <3>2 DEF Undo, ManagerOf
    <3>4. y.name = c.name /\ y.mgr = "user" /\ y.cmd = "groupmod" /\ y \in Undoes
      BY <3>1, <3>2 DEF Undoes
    <3>5. Good(TRUE, y)
      BY <2>2, <3>3, <3>4 DEF If
    <3>. QED
      BY <3>5
  <2>3. CASE c.target = "user" /\ c.action = "create"
    <3>1. c.name \in Users
      BY <1>1, <2>3 DEF Due
    <3>2. PICK y : y = [mgr |-> "user", cmd |-> "userdel", name |-> c.name, arg |-> None]
      OBVIOUS
    <3>3. Undo(c) = <<y>> /\ ManagerOf(c) = "user"
      BY <2>3, <3>2 DEF Undo, ManagerOf
    <3>4. y.name = c.name /\ y.mgr = "user" /\ y.cmd = "userdel" /\ y \in Undoes
      BY <3>1, <3>2 DEF Undoes
    <3>5. Good(TRUE, y)
      BY <2>3, <3>3, <3>4 DEF If
    <3>. QED
      BY <3>5
  <2>4. CASE c.target = "user" /\ c.action = "update"
    <3>1. PICK y : y = [mgr |-> "user", cmd |-> "keys", name |-> c.name]
      OBVIOUS
    <3>2. Undo(c) = <<>> /\ ManagerOf(c) = "user"
      BY <2>4 DEF Undo, ManagerOf
    <3>3. y.name = c.name /\ y.mgr = "user"
      BY <3>1
    <3>4. Good(FALSE, y)
      BY <2>4, <3>2, <3>3 DEF If
    <3>. QED
      BY <3>4
  <2>5. CASE c.target = "keys"
    <3>1. c.name \in Users /\ c.before \in SUBSET Keys
      BY <1>2, <2>5 DEF Due
    <3>2. PICK y : y = [mgr |-> "ssh", cmd |-> "keys", name |-> c.name, arg |-> [home |-> DefaultHome, keys |-> c.before]]
      OBVIOUS
    <3>3. Undo(c) = If(c.before # {}, y) /\ ManagerOf(c) = "ssh"
      BY <2>5, <3>2 DEF Undo, ManagerOf
    <3>4. y.name = c.name /\ y.mgr = "ssh" /\ y.cmd = "keys" /\ y \in Undoes
      BY <3>1, <3>2 DEF Undoes
    <3>5. Good(c.before # {}, y)
      BY <2>5, <3>3, <3>4
    <3>. QED
      BY <3>5
  <2>6. c.target \in {"group", "user", "keys"} /\ (c.target \in {"group", "user"} => c.action \in {"create", "update"})
    BY DEF Due
  <2>. QED
    BY <2>1, <2>2, <2>3, <2>4, <2>5, <2>6
<1>5. PICK b \in BOOLEAN : \E y : Good(b, y)
  BY <1>4
<1>6. PICK y : Good(b, y)
  BY <1>5
<1>7. Undo(c) \in Seq(Undoes) /\ ToSet(Undo(c)) = IF b THEN {y} ELSE {}
  BY <1>6, IfSeq
<1>8. \A i, j \in DOMAIN Undo(c) : i = j
  <2>1. CASE b
    <3>1. Undo(c) = <<y>>
      BY <1>6, <2>1 DEF If
    <3>. QED
      BY <3>1
  <2>2. CASE ~b
    <3>1. Undo(c) = <<>>
      BY <1>6, <2>2 DEF If
    <3>. QED
      BY <3>1
  <2>. QED
    BY <2>1, <2>2
<1>. QED
  BY <1>6, <1>7, <1>8

\* What a Rollback runs for the changes cs: what undoes each, and nothing else.
LEMMA UndoOfType ==
  ASSUME NEW m, IsManifest(m), NEW cs \in Seq(Due(m))
  PROVE  /\ UndoOf(cs) \in Seq(Undoes)
         /\ \A x \in ToSet(UndoOf(cs)) : \E c \in ToSet(cs) : x \in ToSet(Undo(c))
         /\ \A c \in ToSet(cs) : ToSet(Undo(c)) \subseteq ToSet(UndoOf(cs))
<1> DEFINE n == Len(cs)
           f == [i \in 1 .. n |-> Undo(cs[n + 1 - i])]
<1>1. n \in Nat /\ DOMAIN cs = 1 .. n /\ \A i \in 1 .. n : cs[i] \in Due(m)
  BY LenProperties, ElementOfSeq
<1>2. UndoOf(cs) = FlattenSeq(f)
  BY <1>1 DEF UndoOf
<1>3. \A i \in 1 .. n : n + 1 - i \in 1 .. n /\ n + 1 - (n + 1 - i) = i
  BY <1>1
<1>4. ASSUME NEW c \in Due(m) PROVE Undo(c) \in Seq(Undoes)
  BY <1>4, UndoType
<1>5. f \in [1 .. n -> Seq(Undoes)]
  BY <1>1, <1>3, <1>4
<1>6. \A i \in 1 .. n : f[i] = Undo(cs[n + 1 - i])
  OBVIOUS
<1> HIDE DEF f, n
<1>7. /\ FlattenSeq(f) \in Seq(Undoes)
      /\ \A x \in ToSet(FlattenSeq(f)) : \E i \in 1 .. n : x \in ToSet(f[i])
      /\ \A i \in 1 .. n : ToSet(f[i]) \subseteq ToSet(FlattenSeq(f))
  BY <1>1, <1>5, FlattenFunction
<1>8. ASSUME NEW x \in ToSet(FlattenSeq(f)) PROVE \E c \in ToSet(cs) : x \in ToSet(Undo(c))
  <2>1. PICK i \in 1 .. n : x \in ToSet(f[i])
    BY <1>7, <1>8
  <2>2. cs[n + 1 - i] \in ToSet(cs) /\ f[i] = Undo(cs[n + 1 - i])
    BY <1>1, <1>3, <1>6 DEF ToSet
  <2>. QED
    BY <2>1, <2>2, Zenon
<1>9. ASSUME NEW c \in ToSet(cs) PROVE ToSet(Undo(c)) \subseteq ToSet(FlattenSeq(f))
  <2>1. PICK i \in 1 .. n : cs[i] = c
    BY <1>1, <1>9 DEF ToSet
  <2>2. n + 1 - i \in 1 .. n /\ f[n + 1 - i] = Undo(c)
    BY <1>3, <1>6, <2>1
  <2>. QED
    BY <1>7, <2>2, Zenon
<1>. QED
  BY <1>2, <1>7, <1>8, <1>9

-----------------------------------------------------------------------------
(* Type correctness. *)

\* What a process holds has the right shapes.
Shape ==
  /\ IsHost(host) /\ IsHost(born.host) /\ desired \in Manifests
  /\ pc \in {"idle", "apply", "undo"}
  /\ pc = "idle" => todo = <<>>
  /\ pc = "apply" => verb = "apply" /\ todo \in Seq(Due(desired))
  /\ pc = "apply" /\ todo # <<>> => at <= Len(Commands(desired, Head(todo))) + 1
  /\ pc = "undo" => verb = "rollback" /\ todo \in Seq(Undoes) /\ undone
  /\ at \in Nat /\ at >= 1
  /\ applied \in [user : Seq(Due(desired)), ssh : Seq(Due(desired))]
  /\ \A c \in ToSet(applied.user) : c.target # "keys"
  /\ \A c \in ToSet(applied.ssh) : c.target = "keys"
  /\ made \subseteq Users /\ undone \in BOOLEAN
  /\ verbs \in Nat /\ faults \in Nat /\ edits \in Nat
  /\ since \in Nat /\ since <= edits
  /\ born.edits \in Nat /\ born.edits <= edits /\ born.faults \in Nat /\ born.faults <= faults

\* The command that is next in an Apply is one the manifest asks for.
LEMMA NextCommand ==
  ASSUME Shape, pc = "apply", todo # <<>>
  PROVE  /\ IsManifest(desired) /\ Head(todo) \in Due(desired) /\ Tail(todo) \in Seq(Due(desired))
         /\ Len(Commands(desired, Head(todo))) \in Nat
         /\ Commands(desired, Head(todo)) \in Seq(Wanted(desired))
         /\ HasCommand => Now \in Wanted(desired) /\ Now = Commands(desired, Head(todo))[at]
                          /\ at \in 1 .. Len(Commands(desired, Head(todo)))
         /\ ~HasCommand => at = Len(Commands(desired, Head(todo))) + 1
<1>1. IsManifest(desired) /\ todo \in Seq(Due(desired))
  BY AccountsAssumption DEF Shape
<1>2. Head(todo) \in Due(desired) /\ Tail(todo) \in Seq(Due(desired))
  BY <1>1, HeadTailProperties
<1> DEFINE C == Commands(desired, Head(todo))
<1>3. C \in Seq(Wanted(desired))
  BY <1>1, <1>2, CommandsType
<1>4. at \in Nat /\ at >= 1 /\ at <= Len(C) + 1
  BY DEF Shape
<1>5. Len(C) \in Nat /\ \A i \in 1 .. Len(C) : C[i] \in Wanted(desired)
  BY <1>3, LenProperties, ElementOfSeq
<1>6. HasCommand <=> at <= Len(C)
  BY DEF HasCommand, Busy
<1>7. Now = C[at]
  BY DEF Now
<1> HIDE DEF C
<1>. QED
  BY <1>1, <1>2, <1>3, <1>4, <1>5, <1>6, <1>7 DEF C

\* The record of what is applied, with one change more.
LEMMA Recorded ==
  ASSUME Shape, pc = "apply", todo # <<>>, NEW c, c = Head(todo), NEW a,
         a = [applied EXCEPT ![ManagerOf(c)] = Append(@, c)]
  PROVE  /\ a \in [user : Seq(Due(desired)), ssh : Seq(Due(desired))]
         /\ ToSet(a.user) = ToSet(applied.user) \union (IF c.target = "keys" THEN {} ELSE {c})
         /\ ToSet(a.ssh) = ToSet(applied.ssh) \union (IF c.target = "keys" THEN {c} ELSE {})
         /\ a.user = IF c.target = "keys" THEN applied.user ELSE Append(applied.user, c)
<1>1. c \in Due(desired)
  BY NextCommand
<1>2. PICK x \in Seq(Due(desired)), y \in Seq(Due(desired)) : applied = [user |-> x, ssh |-> y]
  BY DEF Shape
<1>3. ToSet(Append(x, c)) = ToSet(x) \union {c} /\ ToSet(Append(y, c)) = ToSet(y) \union {c}
  BY <1>1, ToSetAppend
<1>4. a = IF c.target = "keys" THEN [user |-> x, ssh |-> Append(y, c)] ELSE [user |-> Append(x, c), ssh |-> y]
  <2>1. CASE c.target = "keys"
    <3>1. a = [applied EXCEPT !["ssh"] = Append(@, c)]
      BY <2>1, Zenon DEF ManagerOf
    <3>. QED
      BY <1>2, <2>1, <3>1
  <2>2. CASE c.target # "keys"
    <3>1. a = [applied EXCEPT !["user"] = Append(@, c)]
      BY <2>2, Zenon DEF ManagerOf
    <3>. QED
      BY <1>2, <2>2, <3>1
  <2>. QED
    BY <2>1, <2>2
<1>5. Append(x, c) \in Seq(Due(desired)) /\ Append(y, c) \in Seq(Due(desired))
  BY <1>1, AppendProperties
<1>6. applied.user = x /\ applied.ssh = y
  BY <1>2
<1>7. CASE c.target = "keys"
  <2>0. PICK z : z = Append(y, c)
    OBVIOUS
  <2>1. a = [user |-> x, ssh |-> z] /\ a.user = x /\ a.ssh = z
    <3>1. a = [user |-> x, ssh |-> z]
      BY <1>4, <1>7, <2>0, Zenon
    <3>2. [user |-> x, ssh |-> z].user = x /\ [user |-> x, ssh |-> z].ssh = z
      OBVIOUS
    <3>. QED
      BY <3>1, <3>2, Zenon
  <2>2. a \in [user : Seq(Due(desired)), ssh : Seq(Due(desired))]
    BY <1>5, <2>0, <2>1
  <2>. QED
    BY <1>3, <1>6, <1>7, <2>0, <2>1, <2>2
<1>8. CASE c.target # "keys"
  <2>0. PICK z : z = Append(x, c)
    OBVIOUS
  <2>1. a = [user |-> z, ssh |-> y] /\ a.user = z /\ a.ssh = y
    <3>1. a = [user |-> z, ssh |-> y]
      BY <1>4, <1>8, <2>0, Zenon
    <3>2. [user |-> z, ssh |-> y].user = z /\ [user |-> z, ssh |-> y].ssh = y
      OBVIOUS
    <3>. QED
      BY <3>1, <3>2, Zenon
  <2>2. a \in [user : Seq(Due(desired)), ssh : Seq(Due(desired))]
    BY <1>5, <2>0, <2>1
  <2>. QED
    BY <1>3, <1>6, <1>8, <2>0, <2>1, <2>2
<1>. QED
  BY <1>7, <1>8

\* The changes left are of the right kind when the first one is gone.
LEMMA Popped ==
  ASSUME Shape, pc = "apply", todo # <<>>
  PROVE  /\ Tail(todo) \in Seq(Due(desired))
         /\ Tail(todo) # <<>> => 1 <= Len(Commands(desired, Head(Tail(todo)))) + 1
<1>1. IsManifest(desired) /\ Tail(todo) \in Seq(Due(desired))
  BY NextCommand
<1>2. ASSUME Tail(todo) # <<>>
      PROVE  Len(Commands(desired, Head(Tail(todo)))) \in Nat
  <2>1. Head(Tail(todo)) \in Due(desired)
    BY <1>1, <1>2, HeadTailProperties
  <2>2. Commands(desired, Head(Tail(todo))) \in Seq(Wanted(desired))
    BY <1>1, <2>1, CommandsType
  <2>. QED
    BY <2>2, LenProperties
<1>. QED
  BY <1>1, <1>2

\* A host after a command, done or not.
LEMMA HostStays ==
  ASSUME Shape, HasCommand, NEW k, k \in Failures(host, Now) \/ k \in Outcomes(host, Now)
  PROVE  IsHost(k)
<1>0. IsHost(host) /\ k \in Failures(host, Now) /\ pc \in {"apply", "undo"} /\ todo # <<>>
  BY DEF HasCommand, Busy, Shape, Failures
<1>1. CASE pc = "apply"
  <2>1. IsManifest(desired) /\ Now \in Wanted(desired)
    BY <1>0, <1>1, NextCommand
  <2>. QED
    BY <1>0, <2>1, ApplyStays
<1>2. CASE pc = "undo"
  <2>1. Now = Head(todo) /\ todo \in Seq(Undoes)
    BY <1>2 DEF Now, Shape
  <2>2. Now \in Undoes
    BY <1>0, <2>1, HeadTailProperties
  <2>. QED
    BY <1>0, <2>2, UndoEffect
<1>. QED
  BY <1>0, <1>1, <1>2

\* The state of a new process.
LEMMA ShapeStarts ==
  ASSUME IsHost(host'), Start, edits' \in Nat, faults' \in Nat, edits' = edits, faults' = faults
  PROVE  Shape'
<1>1. /\ desired' \in Manifests /\ pc' = "idle" /\ todo' = <<>> /\ at' = 1
      /\ applied' = [user |-> <<>>, ssh |-> <<>>] /\ verbs' = 0 /\ since' = edits
      /\ born' = [host |-> host', faults |-> faults, edits |-> edits]
      /\ made' = {} /\ undone' = FALSE
  BY DEF Start
<1>2. applied'.user = <<>> /\ applied'.ssh = <<>>
  BY <1>1
<1>3. <<>> \in Seq(Due(desired'))
  OBVIOUS
<1>4. applied' \in [user : Seq(Due(desired')), ssh : Seq(Due(desired'))]
  BY <1>1, <1>3
<1>5. ToSet(applied'.user) = {} /\ ToSet(applied'.ssh) = {}
  BY <1>2, ToSetEmpty
<1>6. born'.host = host' /\ born'.faults = faults /\ born'.edits = edits
  BY <1>1
<1>7. (\A c \in ToSet(applied'.user) : c.target # "keys") /\ (\A c \in ToSet(applied'.ssh) : c.target = "keys")
  BY <1>5
<1>8. pc' = "idle" /\ todo' = <<>> /\ made' \subseteq Users /\ undone' \in BOOLEAN
  BY <1>1
<1>9. /\ at' \in Nat /\ at' >= 1 /\ verbs' \in Nat /\ faults' \in Nat /\ edits' \in Nat
      /\ since' \in Nat /\ since' <= edits' /\ born'.edits \in Nat /\ born'.edits <= edits'
      /\ born'.faults \in Nat /\ born'.faults <= faults'
  BY <1>1, <1>6
<1>10. IsHost(born'.host) /\ desired' \in Manifests /\ pc' \in {"idle", "apply", "undo"} /\ pc' # "apply" /\ pc' # "undo"
  BY <1>1, <1>6
<1>. QED
  BY <1>4, <1>7, <1>8, <1>9, <1>10, Zenon DEF Shape

\* Every step keeps the shapes.
LEMMA ShapeStep ==
  ASSUME Shape, [Next]_vars
  PROVE  Shape'
<1>0. /\ IsHost(host) /\ IsHost(born.host) /\ desired \in Manifests
      /\ pc \in {"idle", "apply", "undo"}
      /\ applied \in [user : Seq(Due(desired)), ssh : Seq(Due(desired))]
      /\ made \subseteq Users
      /\ verbs \in Nat /\ faults \in Nat /\ edits \in Nat
  BY DEF Shape
<1>1. IsManifest(desired)
  BY <1>0, AccountsAssumption
<1>2. applied.user \in Seq(Due(desired)) /\ applied.ssh \in Seq(Due(desired))
  BY <1>0
<1>3. ASSUME NEW missed, BeginApply(missed), faults' \in {faults, faults + 1} PROVE Shape'
  <2>1. /\ pc = "idle" /\ pc' = "apply" /\ verb' = "apply" /\ at' = 1 /\ verbs' = verbs + 1 /\ since' = edits
        /\ todo' = Changes(host, desired, missed)
        /\ UNCHANGED <<host, desired, applied, edits, born, made, undone>>
    BY <1>3 DEF BeginApply, Call
  <2>2. todo' \in Seq(Due(desired))
    BY <1>0, <1>1, <2>1, ChangesType
  <2>3. todo' # <<>> => 1 <= Len(Commands(desired, Head(todo'))) + 1
    <3> SUFFICES ASSUME todo' # <<>> PROVE Len(Commands(desired, Head(todo'))) \in Nat
      OBVIOUS
    <3>1. Head(todo') \in Due(desired)
      BY <2>2, HeadTailProperties
    <3>2. Commands(desired, Head(todo')) \in Seq(Wanted(desired))
      BY <1>1, <3>1, CommandsType
    <3>. QED
      BY <3>2, LenProperties
  <2>. QED
    BY <1>3, <2>1, <2>2, <2>3 DEF Shape
<1>4. CASE Plan
  BY <1>3, <1>4 DEF Plan
<1>5. CASE PlanMistakes
  <2>1. PICK x \in Groups \union Users : BeginApply({x}) /\ Fault
    BY <1>5 DEF PlanMistakes
  <2>2. BeginApply({x}) /\ faults' = faults + 1
    BY <2>1 DEF Fault
  <2>. QED
    BY <1>3, <2>2
<1>6. CASE PlanFails
  <2>1. /\ pc = "idle" /\ pc' = pc /\ verbs' = verbs + 1 /\ since' = edits /\ faults' = faults + 1
        /\ UNCHANGED <<host, desired, applied, edits, born, made, todo, at, undone>>
    BY <1>6 DEF PlanFails, Call, Fault
  <2>. QED
    BY <2>1 DEF Shape
<1>7. CASE Run
  <2>1. /\ pc = "apply" /\ HasCommand /\ todo # <<>>
        /\ host' \in Outcomes(host, Now) /\ at' = at + 1
        /\ made' = IF Now.cmd = "useradd" THEN made \union {Now.name} ELSE made
        /\ UNCHANGED <<desired, verb, verbs, edits, since, born, undone, pc, todo, applied, faults>>
    BY <1>7 DEF Run, Rest, HasCommand, Busy
  <2>2. IsHost(host')
    BY <2>1, HostStays
  <2>3. at \in 1 .. Len(Commands(desired, Head(todo))) /\ Len(Commands(desired, Head(todo))) \in Nat
        /\ Now \in Wanted(desired)
    BY <2>1, NextCommand
  <2>4. Now.cmd = "useradd" => Now.name \in Users
    <3>1. Now.cmd = "useradd" => Now \notin OfGroups(desired)
      BY DEF OfGroups, Command
    <3>. QED
      BY <1>1, <2>3, <3>1, UserCommand DEF Wanted
  <2>5. at' <= Len(Commands(desired, Head(todo))) + 1 /\ at' \in Nat /\ at' >= 1
    BY <2>1, <2>3
  <2>6. made' \subseteq Users
    BY <1>0, <2>1, <2>4
  <2>7. verb = "apply" /\ todo \in Seq(Due(desired))
    BY <2>1 DEF Shape
  <2>. QED
    BY <2>1, <2>2, <2>5, <2>6, <2>7 DEF Shape
<1>8. CASE Fail
  <2>1. /\ pc = "apply" /\ HasCommand /\ todo # <<>>
        /\ host' = host \/ host' \in Failures(host, Now)
        /\ faults' = faults \/ faults' = faults + 1
        /\ made' \subseteq Users
        /\ todo' = Tail(todo) /\ at' = 1
        /\ UNCHANGED <<desired, verb, verbs, edits, since, born, undone, pc, applied>>
    BY <1>8 DEF Fail, Rest, HasCommand, Busy, Fault
  <2>2. IsHost(host')
    BY <1>0, <2>1, HostStays
  <2>3. /\ todo' \in Seq(Due(desired))
        /\ todo' # <<>> => 1 <= Len(Commands(desired, Head(todo'))) + 1
    BY <2>1, Popped
  <2>4. verb = "apply"
    BY <2>1 DEF Shape
  <2>. QED
    BY <2>1, <2>2, <2>3, <2>4, SMTT(20) DEF Shape
<1>9. CASE Record
  <2>1. /\ pc = "apply" /\ todo # <<>>
        /\ applied' = [applied EXCEPT ![ManagerOf(Head(todo))] = Append(@, Head(todo))]
        /\ todo' = Tail(todo) /\ at' = 1
        /\ UNCHANGED <<desired, verb, verbs, edits, since, born, undone, host, pc, faults, made>>
    BY <1>9 DEF Record, Rest, Busy
  <2>2. /\ todo' \in Seq(Due(desired))
        /\ todo' # <<>> => 1 <= Len(Commands(desired, Head(todo'))) + 1
    BY <2>1, Popped
  <2>3. PICK c : c = Head(todo)
    OBVIOUS
  <2>4. /\ applied' \in [user : Seq(Due(desired)), ssh : Seq(Due(desired))]
        /\ ToSet(applied'.user) = ToSet(applied.user) \union (IF c.target = "keys" THEN {} ELSE {c})
        /\ ToSet(applied'.ssh) = ToSet(applied.ssh) \union (IF c.target = "keys" THEN {c} ELSE {})
    BY <2>1, <2>3, Recorded
  <2>5. verb = "apply"
    BY <2>1 DEF Shape
  <2>6. c \in Due(desired)
    BY <2>1, <2>3, NextCommand
  <2>7. (\A x \in ToSet(applied'.user) : x.target # "keys") /\ (\A x \in ToSet(applied'.ssh) : x.target = "keys")
    BY <2>4 DEF Shape
  <2>8. /\ desired' = desired /\ verb' = verb /\ verbs' = verbs /\ edits' = edits /\ since' = since /\ born' = born
        /\ undone' = undone /\ host' = host /\ pc' = pc /\ faults' = faults /\ made' = made
    BY <2>1
  <2>9. applied' \in [user : Seq(Due(desired')), ssh : Seq(Due(desired'))]
    BY <2>4, <2>8
  <2> HIDE <2>4
  <2>. QED
    BY <2>1, <2>2, <2>5, <2>7, <2>8, <2>9, SMTT(20) DEF Shape
<1>10. CASE Finish
  <2>1. /\ todo = <<>> /\ pc' = "idle"
        /\ UNCHANGED <<desired, verb, verbs, edits, since, born, undone, host, todo, at, applied, faults, made>>
    BY <1>10 DEF Finish, Rest
  <2>. QED
    BY <2>1 DEF Shape
<1>11. CASE BeginRollback
  <2>1. /\ pc' = "undo" /\ verb' = "rollback" /\ at' = 1 /\ verbs' = verbs + 1 /\ since' = edits /\ undone' = TRUE
        /\ todo' = UndoOf(applied.ssh) \o UndoOf(applied.user)
        /\ UNCHANGED <<host, desired, applied, edits, born, made, faults>>
    BY <1>11 DEF BeginRollback, Call
  <2>2. UndoOf(applied.ssh) \in Seq(Undoes) /\ UndoOf(applied.user) \in Seq(Undoes)
    BY <1>1, <1>2, UndoOfType
  <2>3. todo' \in Seq(Undoes)
    BY <2>1, <2>2, ConcatProperties
  <2>. QED
    BY <2>1, <2>3 DEF Shape
<1>12. ASSUME pc = "undo", todo # <<>>, IsHost(host'), todo' \in Seq(Undoes), faults' \in {faults, faults + 1},
              UNCHANGED <<desired, verb, verbs, edits, since, born, undone, pc, at, applied, made>>
       PROVE  Shape'
  <2>1. verb = "rollback" /\ undone
    BY <1>12 DEF Shape
  <2>. QED
    BY <1>12, <2>1 DEF Shape
<1>13. CASE UndoRun
  <2>1. /\ pc = "undo" /\ todo # <<>> /\ host' \in Outcomes(host, Now) /\ todo' = Tail(todo)
        /\ UNCHANGED <<desired, verb, verbs, edits, since, born, undone, pc, at, applied, faults, made>>
    BY <1>13 DEF UndoRun, Rest
  <2>2. HasCommand
    BY <2>1 DEF HasCommand, Busy
  <2>3. IsHost(host')
    BY <2>1, <2>2, HostStays
  <2>4. todo \in Seq(Undoes)
    BY <2>1 DEF Shape
  <2>5. todo' \in Seq(Undoes)
    BY <2>1, <2>4, HeadTailProperties
  <2>. QED
    BY <1>12, <2>1, <2>3, <2>5
<1>14. CASE UndoFail
  <2>1. /\ pc = "undo" /\ todo # <<>>
        /\ host' = host \/ host' \in Failures(host, Now)
        /\ faults' = faults \/ faults' = faults + 1
        /\ todo' = UndoOf(applied.user) \/ todo' = <<>>
        /\ UNCHANGED <<desired, verb, verbs, edits, since, born, undone, pc, at, applied, made>>
    BY <1>14 DEF UndoFail, Rest, Fault
  <2>2. HasCommand
    BY <2>1 DEF HasCommand, Busy
  <2>3. IsHost(host')
    BY <1>0, <2>1, <2>2, HostStays
  <2>4. UndoOf(applied.user) \in Seq(Undoes)
    BY <1>1, <1>2, UndoOfType
  <2>5. <<>> \in Seq(Undoes)
    OBVIOUS
  <2>6. todo' \in Seq(Undoes)
    BY <2>1, <2>4, <2>5
  <2>. QED
    BY <1>12, <2>1, <2>3, <2>6
<1>15. CASE Restart
  <2>1. /\ host' \in IF HasCommand THEN Failures(host, Now) ELSE {host}
        /\ Start /\ UNCHANGED <<faults, edits>>
    BY <1>15 DEF Restart
  <2>2. IsHost(host')
    BY <1>0, <2>1, HostStays
  <2>. QED
    BY <1>0, <2>1, <2>2, ShapeStarts
<1>16. ASSUME IsHost(host'), Edited, UNCHANGED made PROVE Shape'
  <2>1. edits' = edits + 1 /\ UNCHANGED <<desired, pc, todo, at, applied, verb, ret, verbs, faults, since, born, undone, made>>
    BY <1>16 DEF Edited, process
  <2>. QED
    BY <1>16, <2>1 DEF Shape
<1>17. ASSUME NEW u \in Users, NEW g \in Groups, PackageAddsUser(u, g) PROVE Shape'
  <2>1. PICK i \in FreeUids(host) : host' = [host EXCEPT !.acct[u] =
                 [uid |-> i, primary |-> g, supp |-> {}, home |-> DefaultHome,
                  shell |-> DefaultShell, password |-> None]]
    BY <1>17 DEF PackageAddsUser
  <2>2. PICK a \in Account : a = [uid |-> i, primary |-> g, supp |-> {}, home |-> DefaultHome,
                                  shell |-> DefaultShell, password |-> None]
    BY AccountsAssumption DEF FreeUids, Account
  <2>3. host' = SetAcct(host, u, a)
    BY <2>1, <2>2 DEF SetAcct
  <2>4. IsHost(host')
    BY <1>0, <2>3, SetAcctFields
  <2>. QED
    BY <1>16, <1>17, <2>4 DEF PackageAddsUser
<1>18. ASSUME NEW u \in Users, NEW k \in Keys, AddKey(u, k) PROVE Shape'
  <2>1. host.acct[u] # None /\ host' = [host EXCEPT !.keys[u][host.acct[u].home] = @ \union {k}]
    BY <1>18 DEF AddKey
  <2>2. host.acct[u] \in Account
    BY <1>0, <2>1, HostFields
  <2>3. host.acct[u].home \in Homes
    BY <2>2, AccountFields
  <2>4. PICK x \in Homes : x = host.acct[u].home
    BY <2>3
  <2>5. PICK ks \in SUBSET Keys : ks = host.keys[u][x] \union {k}
    <3>1. host.keys \in [Users -> [Homes -> SUBSET Keys]]
      BY <1>0, HostFields
    <3>2. host.keys[u][x] \subseteq Keys
      BY <3>1
    <3>. QED
      BY <3>2
  <2>6. host' = SetKeys(host, u, x, ks)
    BY <1>0, <2>1, <2>4, <2>5 DEF SetKeys, IsHost
  <2>7. IsHost(host')
    BY <1>0, <2>6, SetKeysFields
  <2>. QED
    BY <1>16, <1>18, <2>7 DEF AddKey
<1>19. CASE UNCHANGED vars
  BY <1>19 DEF Shape, vars, process, counts, HasCommand
<1>. QED
  BY <1>4, <1>5, <1>6, <1>7, <1>8, <1>9, <1>10, <1>11, <1>13, <1>14, <1>15, <1>17, <1>18, <1>19 DEF Next

\* The first state has the shapes.
LEMMA ShapeInit ==
  ASSUME Init
  PROVE  Shape
<1>1. /\ host \in Hosts /\ desired \in Manifests /\ pc = "idle" /\ todo = <<>> /\ at = 1
      /\ applied = [user |-> <<>>, ssh |-> <<>>] /\ verbs = 0 /\ since = 0
      /\ faults = 0 /\ edits = 0 /\ born = [host |-> host, faults |-> 0, edits |-> 0]
      /\ made = {} /\ undone = FALSE
  BY DEF Init
<1>2. IsHost(host)
  BY <1>1, AccountsAssumption
<1>3. applied.user = <<>> /\ applied.ssh = <<>> /\ born.host = host /\ born.faults = 0 /\ born.edits = 0
  BY <1>1
<1>4. <<>> \in Seq(Due(desired))
  OBVIOUS
<1>5. applied \in [user : Seq(Due(desired)), ssh : Seq(Due(desired))]
  BY <1>1, <1>4
<1>6. ToSet(applied.user) = {} /\ ToSet(applied.ssh) = {}
  BY <1>3, ToSetEmpty
<1>7. (\A c \in ToSet(applied.user) : c.target # "keys") /\ (\A c \in ToSet(applied.ssh) : c.target = "keys")
  BY <1>6
<1>8. pc = "idle" /\ todo = <<>> /\ made \subseteq Users /\ undone \in BOOLEAN
  BY <1>1
<1>9. /\ at \in Nat /\ at >= 1 /\ verbs \in Nat /\ faults \in Nat /\ edits \in Nat
      /\ since \in Nat /\ since <= edits /\ born.edits \in Nat /\ born.edits <= edits
      /\ born.faults \in Nat /\ born.faults <= faults
  BY <1>1, <1>3
<1>10. /\ IsHost(born.host) /\ desired \in Manifests /\ pc \in {"idle", "apply", "undo"} /\ pc # "apply" /\ pc # "undo"
  BY <1>1, <1>2, <1>3
<1>. QED
  BY <1>2, <1>5, <1>7, <1>8, <1>9, <1>10, Zenon DEF Shape

\* Every state has the shapes.
LEMMA ShapeHolds == Spec => []Shape
<1>1. Init => Shape
  BY ShapeInit
<1>2. Shape /\ [Next]_vars => Shape'
  BY ShapeStep
<1>. QED
  BY <1>1, <1>2, PTL DEF Spec

\* The variables keep their shapes, and every change left can still be carried out.
THEOREM AccountsType == Spec => []TypeOK
<1>1. Shape => TypeOK
  <2> SUFFICES ASSUME Shape PROVE TypeOK
    OBVIOUS
  <2>1. IsManifest(desired)
    BY AccountsAssumption DEF Shape
  <2>2. ASSUME pc = "apply", todo # <<>> PROVE at \in 1 .. Len(Commands(desired, Head(todo))) + 1
    BY <2>2, NextCommand DEF Shape
  <2>. QED
    BY <2>1, <2>2 DEF TypeOK, Shape
<1>. QED
  BY <1>1, ShapeHolds, PTL

-----------------------------------------------------------------------------
(* Nobody's account but those this process made goes away. *)

\* What is left of a sequence was in it.
LEMMA TailElements ==
  ASSUME NEW S, NEW s \in Seq(S), s # <<>>
  PROVE  Tail(s) \in Seq(S) /\ Head(s) \in S /\ ToSet(s) = {Head(s)} \union ToSet(Tail(s))
<1>1. Tail(s) \in Seq(S) /\ Head(s) \in S /\ s = <<Head(s)>> \o Tail(s)
  BY HeadTailProperties
<1>2. PICK h \in S, t \in Seq(S) : h = Head(s) /\ t = Tail(s)
  BY <1>1
<1>3. PICK x \in Seq(S) : x = <<h>>
  <2>1. <<h>> \in Seq(S)
    OBVIOUS
  <2>. QED
    BY <2>1, Zenon
<1>4. ToSet(x) = {h}
  BY <1>3 DEF ToSet
<1>5. ToSet(x \o t) = ToSet(x) \union ToSet(t)
  BY ToSetConcat
<1>6. s = x \o t
  BY <1>1, <1>2, <1>3, Zenon
<1>. QED
  BY <1>1, <1>2, <1>4, <1>5, <1>6, Zenon

\* The first command that makes a user is useradd.
LEMMA FirstCommand ==
  ASSUME NEW m, IsManifest(m), NEW c \in Due(m), c.target = "user", c.action = "create"
  PROVE  /\ c.name \in DOMAIN m.users
         /\ Commands(m, c) = createUser(c.name, m.users[c.name])
         /\ Len(Commands(m, c)) \in Nat /\ Len(Commands(m, c)) >= 1
         /\ Commands(m, c)[1] = Command("useradd", c.name, m.users[c.name])
<1>1. c.name \in DOMAIN m.users
  BY DEF Due
<1>2. Commands(m, c) = createUser(c.name, m.users[c.name])
  BY CommandsType
<1> DEFINE u == c.name
           d == m.users[u]
           S == OfUsers(m)
           k == Command("keys", u, [home |-> OrDefault(d.home, DefaultHome), keys |-> d.keys])
           p == Command("password", u, d.password)
           s == Command("sudo", u, d.sudo)
           x == Command("useradd", u, d)
           a == <<x>>
           b == If(d.keys # {}, k)
           e == If(d.password # None, p)
           f == If(d.sudo # None, s)
<1>3. x \in S /\ (d.keys # {} => k \in S)
      /\ (d.password # None => p \in S) /\ (d.sudo # None => s \in S)
  BY <1>1, Zenon DEF OfUsers
<1>4. createUser(u, d) = a \o b \o e \o f
  BY Zenon DEF createUser
<1> HIDE DEF k, p, s, S, x, d
<1>5. a \in Seq(S) /\ Len(a) = 1 /\ a[1] = x
  BY <1>3
<1>6. b \in Seq(S) /\ e \in Seq(S) /\ f \in Seq(S)
  BY <1>3, IfSeq
<1> HIDE DEF a, b, e, f
<1>7. ASSUME NEW v \in Seq(S), NEW w \in Seq(S), Len(v) >= 1, v[1] = x
      PROVE  v \o w \in Seq(S) /\ Len(v \o w) \in Nat /\ Len(v \o w) >= 1 /\ (v \o w)[1] = x
  BY <1>7, ConcatProperties, LenProperties
<1>8. a \o b \in Seq(S) /\ Len(a \o b) >= 1 /\ (a \o b)[1] = x
  BY <1>5, <1>6, <1>7
<1>9. a \o b \o e \in Seq(S) /\ Len(a \o b \o e) >= 1 /\ (a \o b \o e)[1] = x
  BY <1>6, <1>7, <1>8
<1>10. Len(a \o b \o e \o f) \in Nat /\ Len(a \o b \o e \o f) >= 1 /\ (a \o b \o e \o f)[1] = x
  BY <1>6, <1>7, <1>9
<1>. QED
  BY <1>1, <1>2, <1>4, <1>10 DEF x, d

\* After useradd come the keys, the password and the sudo rule.
LEMMA CreateTail ==
  ASSUME NEW m, IsManifest(m), NEW c \in Due(m), c.target = "user", c.action = "create",
         NEW i \in 2 .. Len(Commands(m, c))
  PROVE  Commands(m, c)[i].cmd \in {"keys", "password", "sudo"}
<1>1. c.name \in DOMAIN m.users
  BY DEF Due
<1>2. Commands(m, c) = createUser(c.name, m.users[c.name])
  BY CommandsType
<1> DEFINE u == c.name
           d == m.users[u]
           k == Command("keys", u, [home |-> OrDefault(d.home, DefaultHome), keys |-> d.keys])
           p == Command("password", u, d.password)
           s == Command("sudo", u, d.sudo)
           x == Command("useradd", u, d)
           S == {x, k, p, s}
           T == {k, p, s}
           a == <<x>>
           b == If(d.keys # {}, k)
           e == If(d.password # None, p)
           f == If(d.sudo # None, s)
           Good(t) == t \in Seq(S) /\ Len(t) >= 1 /\ \A j \in 2 .. Len(t) : t[j] \in T
<1>3. createUser(u, d) = a \o b \o e \o f
  BY Zenon DEF createUser
<1>4. k.cmd = "keys" /\ p.cmd = "password" /\ s.cmd = "sudo"
  BY DEF Command
<1> HIDE DEF k, p, s, x, d, u
<1>5. b \in Seq(T) /\ e \in Seq(T) /\ f \in Seq(T)
  BY IfSeq
<1>6. Good(a)
  OBVIOUS
<1>7. ASSUME NEW v, Good(v), NEW w \in Seq(T) PROVE Good(v \o w)
  <2>1. w \in Seq(S) /\ \A j \in 1 .. Len(w) : w[j] \in T
    <3>1. T \subseteq S
      OBVIOUS
    <3>2. \A j \in 1 .. Len(w) : w[j] \in T
      BY ElementOfSeq
    <3> HIDE DEF T, S
    <3>. QED
      BY <3>1, <3>2
  <2> HIDE DEF T, S
  <2>2. /\ v \o w \in Seq(S) /\ Len(v \o w) = Len(v) + Len(w) /\ Len(v) \in Nat /\ Len(w) \in Nat
        /\ \A j \in 1 .. Len(v) + Len(w) : (v \o w)[j] = IF j <= Len(v) THEN v[j] ELSE w[j - Len(v)]
    BY <1>7, <2>1, ConcatProperties, LenProperties
  <2>3. ASSUME NEW j \in 2 .. Len(v \o w) PROVE (v \o w)[j] \in T
    <3>1. CASE j <= Len(v)
      BY <1>7, <2>2, <3>1
    <3>2. CASE j > Len(v)
      <4>1. j - Len(v) \in 1 .. Len(w)
        BY <2>2, <3>2
      <4>. QED
        BY <2>1, <2>2, <3>2, <4>1
    <3>. QED
      BY <2>2, <3>1, <3>2
  <2>. QED
    BY <1>7, <2>2, <2>3
<1> HIDE DEF a, b, e, f, Good
<1>8. Good(a \o b \o e \o f)
  BY <1>5, <1>6, <1>7
<1>9. Commands(m, c)[i] \in T
  BY <1>2, <1>3, <1>8 DEF Good, u, d
<1>. QED
  BY <1>4, <1>9

\* Whom a process has recorded as created, is creating or is to remove, it made.
Made ==
  /\ \A c \in ToSet(applied.user) : c.target = "user" /\ c.action = "create" => c.name \in made
  /\ pc = "apply" /\ todo # <<>> /\ at > 1 /\ Head(todo).target = "user" /\ Head(todo).action = "create" =>
       Head(todo).name \in made
  /\ pc = "undo" => \A c \in ToSet(todo) : c.cmd = "userdel" => c.name \in made

\* What a Rollback removes is in the record.
LEMMA MadeUndo ==
  ASSUME Shape, Made
  PROVE  /\ \A x \in ToSet(UndoOf(applied.user)) : x.cmd = "userdel" => x.name \in made
         /\ \A x \in ToSet(UndoOf(applied.ssh)) : x.cmd = "keys"
<1>1. IsManifest(desired) /\ applied.user \in Seq(Due(desired)) /\ applied.ssh \in Seq(Due(desired))
  BY AccountsAssumption DEF Shape
<1>2. ASSUME NEW x \in ToSet(UndoOf(applied.user)), x.cmd = "userdel" PROVE x.name \in made
  <2>1. PICK c \in ToSet(applied.user) : x \in ToSet(Undo(c))
    BY <1>1, <1>2, UndoOfType
  <2>2. c \in Due(desired)
    BY <1>1, ToSetType
  <2>3. x.name = c.name /\ (x.cmd = "userdel" <=> (c.target = "user" /\ c.action = "create"))
    BY <1>1, <2>1, <2>2, UndoType
  <2>. QED
    BY <1>2, <2>1, <2>3 DEF Made
<1>3. ASSUME NEW x \in ToSet(UndoOf(applied.ssh)) PROVE x.cmd = "keys"
  <2>1. PICK c \in ToSet(applied.ssh) : x \in ToSet(Undo(c))
    BY <1>1, <1>3, UndoOfType
  <2>2. c \in Due(desired) /\ c.target = "keys"
    BY <1>1, <2>1, ToSetType DEF Shape
  <2>3. /\ x.cmd = "userdel" <=> (c.target = "user" /\ c.action = "create")
        /\ x.cmd \in {"groupdel", "groupmod"} <=> c.target = "group"
    BY <1>1, <2>1, <2>2, UndoType
  <2>4. x \in Undoes
    <3>1. Undo(c) \in Seq(Undoes)
      BY <1>1, <2>2, UndoType
    <3>. QED
      BY <2>1, <3>1, ToSetType
  <2>5. x.cmd \in {"groupdel", "groupmod", "userdel", "keys"}
    BY <2>4 DEF Undoes
  <2>. QED
    BY <2>2, <2>3, <2>5
<1>. QED
  BY <1>2, <1>3

\* The facts of a step that an Apply takes.
LEMMA MadeStep ==
  ASSUME Shape, Made, [Next]_vars
  PROVE  Made'
<1>0. IsManifest(desired) /\ applied.user \in Seq(Due(desired)) /\ made \subseteq Users
  BY AccountsAssumption DEF Shape
<1>1. ASSUME NEW missed, BeginApply(missed) PROVE Made'
  <2>1. pc' = "apply" /\ at' = 1 /\ UNCHANGED <<applied, made>>
    BY <1>1 DEF BeginApply, Call
  <2>. QED
    BY <2>1 DEF Made
<1>2. CASE Plan \/ PlanMistakes
  BY <1>1, <1>2 DEF Plan, PlanMistakes
<1>3. CASE PlanFails
  <2>1. UNCHANGED <<applied, made, pc, todo, at>>
    BY <1>3 DEF PlanFails, Call
  <2>. QED
    BY <2>1 DEF Made
<1>4. CASE Run
  <2>1. /\ pc = "apply" /\ HasCommand /\ todo # <<>> /\ at' = at + 1
        /\ made' = IF Now.cmd = "useradd" THEN made \union {Now.name} ELSE made
        /\ UNCHANGED <<pc, todo, applied>>
    BY <1>4 DEF Run, Rest, HasCommand, Busy
  <2> DEFINE c == Head(todo)
  <2>2. ASSUME c.target = "user", c.action = "create" PROVE c.name \in made'
    <3>1. c \in Due(desired) /\ Now = Commands(desired, c)[at] /\ at \in Nat /\ at >= 1
      BY <2>1, NextCommand DEF Shape
    <3>2. CASE at > 1
      BY <2>1, <2>2, <3>2 DEF Made
    <3>3. CASE at = 1
      <4>1. Now = Command("useradd", c.name, desired.users[c.name])
        BY <1>0, <2>2, <3>1, <3>3, FirstCommand
      <4>2. Now.cmd = "useradd" /\ Now.name = c.name
        BY <4>1 DEF Command
      <4>. QED
        BY <2>1, <4>2
    <3>. QED
      BY <3>1, <3>2, <3>3
  <2>3. made \subseteq made'
    BY <2>1
  <2>. QED
    BY <2>1, <2>2, <2>3 DEF Made
<1>5. CASE Fail
  <2>1. pc' = "apply" /\ at' = 1 /\ made \subseteq made' /\ UNCHANGED applied
    BY <1>0, <1>5 DEF Fail
  <2>. QED
    BY <2>1 DEF Made
<1>6. CASE Record
  <2>1. /\ pc = "apply" /\ pc' = "apply" /\ todo # <<>> /\ at' = 1 /\ ~HasCommand /\ UNCHANGED made
        /\ applied' = [applied EXCEPT ![ManagerOf(Head(todo))] = Append(@, Head(todo))]
    BY <1>6 DEF Record, Busy
  <2>2. PICK c \in Due(desired) : c = Head(todo)
    BY <2>1, NextCommand
  <2>3. ToSet(applied'.user) = ToSet(applied.user) \union (IF c.target = "keys" THEN {} ELSE {c})
    BY <2>1, <2>2, Recorded
  <2>4. ASSUME c.target = "user", c.action = "create" PROVE c.name \in made
    <3>1. at = Len(Commands(desired, c)) + 1
      BY <2>1, <2>2, NextCommand
    <3>2. Len(Commands(desired, c)) \in Nat /\ Len(Commands(desired, c)) >= 1
      BY <1>0, <2>4, FirstCommand
    <3>3. at > 1
      BY <3>1, <3>2
    <3>. QED
      BY <2>1, <2>2, <2>4, <3>3 DEF Made
  <2>. QED
    BY <2>1, <2>3, <2>4 DEF Made
<1>7. CASE Finish
  <2>1. pc' = "idle" /\ UNCHANGED <<applied, made>>
    BY <1>7 DEF Finish
  <2>. QED
    BY <2>1 DEF Made
<1>8. CASE BeginRollback
  <2>1. pc' = "undo" /\ todo' = UndoOf(applied.ssh) \o UndoOf(applied.user) /\ UNCHANGED <<applied, made>>
    BY <1>8 DEF BeginRollback, Call
  <2>2. applied.ssh \in Seq(Due(desired))
    BY DEF Shape
  <2>3. UndoOf(applied.user) \in Seq(Undoes) /\ UndoOf(applied.ssh) \in Seq(Undoes)
    BY <1>0, <2>2, UndoOfType
  <2>4. ToSet(todo') = ToSet(UndoOf(applied.ssh)) \union ToSet(UndoOf(applied.user))
    BY <2>1, <2>3, ToSetConcat
  <2>5. \A x \in ToSet(todo') : x.cmd = "userdel" => x.name \in made
    BY <2>4, MadeUndo
  <2>. QED
    BY <2>1, <2>5 DEF Made
<1>9. CASE UndoRun
  <2>1. pc = "undo" /\ todo # <<>> /\ todo' = Tail(todo) /\ UNCHANGED <<pc, at, applied, made>>
    BY <1>9 DEF UndoRun
  <2>2. todo \in Seq(Undoes)
    BY <2>1 DEF Shape
  <2>3. ToSet(todo') \subseteq ToSet(todo)
    BY <2>1, <2>2, TailElements
  <2>. QED
    BY <2>1, <2>3 DEF Made
<1>10. CASE UndoFail
  <2>1. pc = "undo" /\ (todo' = UndoOf(applied.user) \/ todo' = <<>>) /\ UNCHANGED <<pc, at, applied, made>>
    BY <1>10 DEF UndoFail
  <2>2. \A x \in ToSet(todo') : x.cmd = "userdel" => x.name \in made
    BY <2>1, MadeUndo, ToSetEmpty
  <2>. QED
    BY <2>1, <2>2 DEF Made
<1>11. CASE Restart
  <2>1. applied' = [user |-> <<>>, ssh |-> <<>>] /\ pc' = "idle"
    BY <1>11 DEF Restart, Start
  <2>2. ToSet(applied'.user) = {}
    BY <2>1, ToSetEmpty
  <2>. QED
    BY <2>1, <2>2 DEF Made
<1>12. CASE \E u \in Users : (\E g \in Groups : PackageAddsUser(u, g)) \/ \E k \in Keys : AddKey(u, k)
  <2>1. UNCHANGED <<applied, made, pc, todo, at>>
    BY <1>12 DEF PackageAddsUser, AddKey, Edited, process
  <2>. QED
    BY <2>1 DEF Made
<1>13. CASE UNCHANGED vars
  BY <1>13 DEF Made, vars, process, counts
<1>. QED
  BY <1>2, <1>3, <1>4, <1>5, <1>6, <1>7, <1>8, <1>9, <1>10, <1>11, <1>12, <1>13 DEF Next

\* No step but one that undoes takes an account away.
LEMMA Kept ==
  ASSUME Shape, Made, [Next]_vars, NEW u \in Users, host.acct[u] # None, host'.acct[u] = None
  PROVE  u \in made
<1>1. CASE /\ HasCommand
           /\ host' = host \/ host' \in Failures(host, Now) \/ host' \in Outcomes(host, Now)
  <2>0. host' \in Failures(host, Now) /\ IsHost(host) /\ todo # <<>> /\ pc \in {"apply", "undo"}
    BY <1>1 DEF Failures, HasCommand, Busy, Shape
  <2>1. CASE pc = "apply"
    <3>1. IsManifest(desired) /\ Now \in Wanted(desired)
      BY <1>1, <2>0, <2>1, NextCommand
    <3>2. Stay(host, host')
      BY <2>0, <3>1, ApplyStays
    <3>. QED
      BY <3>2 DEF Stay
  <2>2. CASE pc = "undo"
    <3>1. Now = Head(todo) /\ todo \in Seq(Undoes)
      BY <2>2 DEF Now, Shape
    <3>2. Now \in Undoes /\ Now \in ToSet(todo)
      BY <2>0, <3>1, TailElements
    <3>3. /\ Now.cmd # "userdel" => Stay(host, host')
          /\ Now.cmd = "userdel" => \A v \in Users : v # Now.name => host'.acct[v] = host.acct[v]
      BY <2>0, <3>2, UndoEffect
    <3>4. Now.cmd = "userdel" /\ Now.name = u
      BY <3>3 DEF Stay
    <3>. QED
      BY <2>2, <3>2, <3>4 DEF Made
  <2>. QED
    BY <2>0, <2>1, <2>2
<1>2. CASE Run \/ Fail \/ UndoRun \/ UndoFail
  BY <1>1, <1>2 DEF Run, Fail, UndoRun, UndoFail, HasCommand, Busy
<1>3. CASE Restart
  BY <1>1, <1>3 DEF Restart
<1>4. ASSUME NEW v \in Users, NEW g \in Groups, PackageAddsUser(v, g) PROVE FALSE
  <2>1. PICK a : host' = [host EXCEPT !.acct[v] = a] /\ host.acct[v] = None
    BY <1>4, Zenon DEF PackageAddsUser
  <2>2. u # v
    BY <2>1
  <2>3. host \in [gid : [Groups -> Ids \union {None}], acct : [Users -> Account \union {None}],
                  keys : [Users -> [Homes -> SUBSET Keys]], sudo : [Users -> Policies \union {None}]]
    BY DEF Shape, IsHost
  <2>. QED
    BY <2>1, <2>2, <2>3
<1>5. ASSUME NEW v \in Users, NEW k \in Keys, AddKey(v, k) PROVE FALSE
  <2>1. host' = [host EXCEPT !.keys[v][host.acct[v].home] = @ \union {k}]
    BY <1>5 DEF AddKey
  <2>2. host \in [gid : [Groups -> Ids \union {None}], acct : [Users -> Account \union {None}],
                  keys : [Users -> [Homes -> SUBSET Keys]], sudo : [Users -> Policies \union {None}]]
    BY DEF Shape, IsHost
  <2>3. host'.acct = host.acct
    BY <2>1, <2>2
  <2>. QED
    BY <2>3
<1>6. ASSUME UNCHANGED host PROVE FALSE
  BY <1>6
<1>7. CASE Plan \/ PlanMistakes \/ PlanFails \/ Record \/ Finish \/ BeginRollback \/ UNCHANGED vars
  BY <1>6, <1>7 DEF Plan, PlanMistakes, PlanFails, BeginApply, Call, Record, Finish, BeginRollback, vars
<1>. QED
  BY <1>2, <1>3, <1>4, <1>5, <1>7 DEF Next

\* No step removes an account under a name this process has not created itself:
\* userdel runs only for the users in the record, and useradd has made those.
THEOREM OnlyOwnAccountsGo == Spec => OthersAccountsKept
<1>1. Init => Made
  <2> SUFFICES ASSUME Init PROVE Made
    OBVIOUS
  <2>1. pc = "idle" /\ applied = [user |-> <<>>, ssh |-> <<>>]
    BY DEF Init
  <2>2. ToSet(applied.user) = {}
    BY <2>1, ToSetEmpty
  <2>. QED
    BY <2>1, <2>2 DEF Made
<1>2. Shape /\ Made /\ [Next]_vars => Made'
  BY MadeStep
<1>3. Shape /\ Made /\ [Next]_vars =>
        [\A u \in Users : host.acct[u] # None /\ host'.acct[u] = None => u \in made]_vars
  <2> SUFFICES ASSUME Shape, Made, [Next]_vars
               PROVE  \A u \in Users : host.acct[u] # None /\ host'.acct[u] = None => u \in made
    OBVIOUS
  <2>. QED
    BY Kept
<1>. QED
  BY <1>1, <1>2, <1>3, ShapeHolds, PTL DEF Spec, OthersAccountsKept

-----------------------------------------------------------------------------
(* A recorded user is complete. *)

\* The account, the password or the sudo rule that c makes is there.
Held(h, c) ==
  /\ c.cmd \in {"useradd", "password"} => h.acct[c.name] # None
  /\ c.cmd = "password" => h.acct[c.name].password = c.arg
  /\ c.cmd = "sudo" => h.sudo[c.name] = c.arg

\* It is when c has been carried out, and stays so whatever else an Apply does.
LEMMA HeldStays ==
  ASSUME NEW m, IsManifest(m), NEW h, IsHost(h), NEW c \in Wanted(m), NEW k \in Failures(h, c),
         NEW x \in Wanted(m)
  PROVE  /\ Held(h, x) => Held(k, x)
         /\ k \in Outcomes(h, c) => Held(k, c)
<1>1. CASE c \in OfGroups(m)
  <2>1. c.cmd \in {"groupadd", "groupmod"}
    BY <1>1 DEF OfGroups, Command
  <2>2. k = h \/ k \in Outcomes(h, c)
    BY <2>1, FailureEffect
  <2>3. k.acct = h.acct /\ k.sudo = h.sudo
    BY <1>1, <2>2, GroupEffect
  <2>. QED
    BY <2>1, <2>3 DEF Held
<1>2. CASE c \notin OfGroups(m)
  <2>0. c \in OfUsers(m) \union OfKeys(m)
    BY <1>2 DEF Wanted
  <2>1. ASSUME k \in Outcomes(h, c) PROVE Held(k, c) /\ (Held(h, x) => Held(k, x))
    <3>1. /\ IsHost(k) /\ Done(k, c) /\ OnlyUser(h, k, c.name) /\ KeepsOf(h, k, c) /\ Stay(h, k)
      BY <2>0, <2>1, UserEffect
    <3>2. Held(k, c)
      BY <3>1 DEF Done, Held
    <3>3. CASE x.cmd \notin {"useradd", "password", "sudo"}
      BY <3>2, <3>3 DEF Held
    <3>4. CASE x.cmd \in {"useradd", "password", "sudo"}
      <4>1. x \in OfUsers(m) \union OfKeys(m)
        <5>1. x \notin OfGroups(m)
          BY <3>4 DEF OfGroups, Command
        <5>. QED
          BY <5>1 DEF Wanted
      <4>2. /\ x.name \in Users
            /\ x.cmd = "password" => x.arg = m.users[x.name].password
            /\ x.cmd = "sudo" => x.arg = m.users[x.name].sudo
        BY <4>1, UserCommand
      <4>3. /\ c.cmd \in {"useradd", "primary", "supp", "shell", "home", "keys", "password", "sudo"}
            /\ c.cmd = "password" => c.arg = m.users[c.name].password
            /\ c.cmd = "sudo" => c.arg = m.users[c.name].sudo
        BY <2>0, UserCommand
      <4>4. CASE x.name # c.name
        <5>1. k.acct[x.name] = h.acct[x.name] /\ k.sudo[x.name] = h.sudo[x.name]
          BY <3>1, <4>2, <4>4 DEF OnlyUser
        <5>. QED
          BY <3>2, <5>1 DEF Held
      <4>5. CASE x.name = c.name
        <5> SUFFICES ASSUME Held(h, x) PROVE Held(k, x)
          BY <3>2
        <5>1. x.cmd \in {"useradd", "password"} => h.acct[x.name] # None /\ k.acct[x.name] # None
          BY <3>1, <4>2 DEF Held, Stay
        <5>2. x.cmd = "password" => k.acct[x.name].password = x.arg
          <6> SUFFICES ASSUME x.cmd = "password" PROVE k.acct[x.name].password = x.arg
            OBVIOUS
          <6>1. h.acct[x.name] # None /\ h.acct[x.name].password = x.arg
            BY DEF Held
          <6>2. CASE c.cmd = "password"
            BY <3>1, <4>2, <4>3, <4>5, <6>2 DEF Done
          <6>3. CASE c.cmd \in {"keys", "sudo"}
            BY <3>1, <6>1, <6>3 DEF KeepsOf
          <6>4. CASE c.cmd \in {"primary", "supp", "shell", "home"}
            BY <3>1, <4>5, <6>1, <6>4 DEF KeepsOf, SetsOnly
          <6>5. c.cmd # "useradd"
            BY <3>1, <4>5, <6>1 DEF KeepsOf
          <6>. QED
            BY <4>3, <6>2, <6>3, <6>4, <6>5
        <5>3. x.cmd = "sudo" => k.sudo[x.name] = x.arg
          <6> SUFFICES ASSUME x.cmd = "sudo" PROVE k.sudo[x.name] = x.arg
            OBVIOUS
          <6>1. h.sudo[x.name] = x.arg
            BY DEF Held
          <6>2. CASE c.cmd = "sudo"
            BY <3>1, <4>2, <4>3, <4>5, <6>2 DEF Done
          <6>3. CASE c.cmd # "sudo"
            BY <3>1, <6>1, <6>3 DEF KeepsOf
          <6>. QED
            BY <6>2, <6>3
        <5>. QED
          BY <5>1, <5>2, <5>3 DEF Held
      <4>. QED
        BY <3>2, <4>4, <4>5
    <3>. QED
      BY <3>3, <3>4
  <2>2. CASE k \in Outcomes(h, c)
    BY <2>1, <2>2
  <2>3. CASE k = h
    BY <2>1, <2>3
  <2>4. CASE k \notin Outcomes(h, c) /\ k # h
    <3>1. k.acct = h.acct /\ k.sudo = h.sudo
      BY <2>4, FailureEffect
    <3>. QED
      BY <2>4, <3>1 DEF Held
  <2>. QED
    BY <2>2, <2>3, <2>4
<1>. QED
  BY <1>1, <1>2

\* What the commands of the record and those run of the change at hand made is there.
Complete ==
  edits = born.edits /\ ~undone =>
    /\ \A c \in ToSet(applied.user) : \A x \in ToSet(Commands(desired, c)) : Held(host, x)
    /\ pc = "apply" /\ todo # <<>> =>
         \A j \in 1 .. Len(Commands(desired, Head(todo))) : j < at => Held(host, Commands(desired, Head(todo))[j])

\* Every step keeps that.
LEMMA CompleteStep ==
  ASSUME Shape, Complete, [Next]_vars
  PROVE  Complete'
<1>0. /\ IsHost(host) /\ IsManifest(desired) /\ applied.user \in Seq(Due(desired))
      /\ edits \in Nat /\ born.edits \in Nat /\ born.edits <= edits /\ undone \in BOOLEAN
      /\ (pc = "undo" => undone) /\ at \in Nat
  BY AccountsAssumption DEF Shape
<1>1. ASSUME NEW c \in ToSet(applied.user) PROVE ToSet(Commands(desired, c)) \subseteq Wanted(desired)
  <2>1. c \in Due(desired)
    BY <1>0, <1>1, ToSetType
  <2>. QED
    BY <1>0, <2>1, CommandsType, ToSetType
<1>2. ASSUME edits = born.edits, ~undone, pc = "apply", HasCommand, host' \in Failures(host, Now)
      PROVE  /\ \A c \in ToSet(applied.user) : \A x \in ToSet(Commands(desired, c)) : Held(host', x)
             /\ \A j \in 1 .. Len(Commands(desired, Head(todo))) : j < at => Held(host', Commands(desired, Head(todo))[j])
             /\ host' \in Outcomes(host, Now) => Held(host', Now)
  <2>0. todo # <<>>
    BY <1>2 DEF HasCommand, Busy
  <2>1. Now \in Wanted(desired) /\ Commands(desired, Head(todo)) \in Seq(Wanted(desired))
    BY <1>2, <2>0, NextCommand
  <2>2. \A x \in Wanted(desired) : Held(host, x) => Held(host', x)
    BY <1>0, <1>2, <2>1, HeldStays
  <2>3. host' \in Outcomes(host, Now) => Held(host', Now)
    BY <1>0, <1>2, <2>1, HeldStays
  <2>4. \A j \in 1 .. Len(Commands(desired, Head(todo))) : Commands(desired, Head(todo))[j] \in Wanted(desired)
    BY <2>1, ElementOfSeq
  <2>. QED
    BY <1>1, <1>2, <2>0, <2>2, <2>3, <2>4 DEF Complete
<1>3. ASSUME NEW missed, BeginApply(missed) PROVE Complete'
  <2>1. at' = 1 /\ UNCHANGED <<host, desired, applied, edits, born, undone>>
    BY <1>3 DEF BeginApply, Call
  <2>2. \A j \in 1 .. Len(Commands(desired', Head(todo'))) : ~ (j < at')
    <3>1. \A j \in 1 .. Len(Commands(desired', Head(todo'))) : j \in Int /\ j >= 1
      OBVIOUS
    <3>. QED
      BY <2>1, <3>1
  <2>. QED
    BY <2>1, <2>2 DEF Complete
<1>4. CASE Plan \/ PlanMistakes
  BY <1>3, <1>4 DEF Plan, PlanMistakes
<1>5. CASE PlanFails
  <2>1. UNCHANGED <<host, desired, applied, edits, born, undone, pc, todo, at>>
    BY <1>5 DEF PlanFails, Call
  <2>. QED
    BY <2>1 DEF Complete
<1>6. CASE Run
  <2>1. /\ pc = "apply" /\ HasCommand /\ host' \in Outcomes(host, Now) /\ at' = at + 1
        /\ UNCHANGED <<pc, todo, applied, desired, edits, born, undone>>
    BY <1>6 DEF Run, Rest
  <2>2. host' \in Failures(host, Now) /\ todo # <<>>
    BY <2>1 DEF Failures, HasCommand, Busy
  <2>3. Now = Commands(desired, Head(todo))[at]
    BY <2>1, <2>2, NextCommand
  <2>4. \A j \in 1 .. Len(Commands(desired, Head(todo))) : j < at + 1 => j < at \/ j = at
    BY <1>0
  <2>5. ASSUME edits = born.edits, ~undone
        PROVE  /\ \A c \in ToSet(applied.user) : \A x \in ToSet(Commands(desired, c)) : Held(host', x)
               /\ \A j \in 1 .. Len(Commands(desired, Head(todo))) : j < at + 1 => Held(host', Commands(desired, Head(todo))[j])
    BY <1>2, <2>1, <2>2, <2>3, <2>4, <2>5
  <2>. QED
    BY <2>1, <2>5 DEF Complete
<1>7. CASE Fail
  <2>1. /\ pc = "apply" /\ HasCommand /\ at' = 1 /\ host' \in Failures(host, Now)
        /\ UNCHANGED <<applied, desired, edits, born, undone>>
    BY <1>7 DEF Fail, Rest, Failures
  <2>2. \A j \in 1 .. Len(Commands(desired', Head(todo'))) : ~ (j < at')
    <3>1. \A j \in 1 .. Len(Commands(desired', Head(todo'))) : j \in Int /\ j >= 1
      OBVIOUS
    <3>. QED
      BY <2>1, <3>1
  <2>. QED
    BY <1>2, <2>1, <2>2 DEF Complete
<1>8. CASE Record
  <2>1. /\ pc = "apply" /\ todo # <<>> /\ ~HasCommand /\ at' = 1
        /\ applied' = [applied EXCEPT ![ManagerOf(Head(todo))] = Append(@, Head(todo))]
        /\ UNCHANGED <<host, desired, edits, born, undone>>
    BY <1>8 DEF Record, Rest, Busy
  <2>2. \A j \in 1 .. Len(Commands(desired', Head(todo'))) : ~ (j < at')
    <3>1. \A j \in 1 .. Len(Commands(desired', Head(todo'))) : j \in Int /\ j >= 1
      OBVIOUS
    <3>. QED
      BY <2>1, <3>1
  <2>3. PICK c \in Due(desired) : c = Head(todo)
    BY <2>1, NextCommand
  <2>4. ToSet(applied'.user) \subseteq ToSet(applied.user) \union {c}
    BY <2>1, <2>3, Recorded
  <2>5. at = Len(Commands(desired, c)) + 1 /\ Len(Commands(desired, c)) \in Nat
    BY <2>1, <2>3, NextCommand
  <2>6. \A x \in ToSet(Commands(desired, c)) : \E j \in 1 .. Len(Commands(desired, c)) :
          x = Commands(desired, c)[j] /\ j < at
    <3>1. Commands(desired, c) \in Seq(Wanted(desired))
      BY <1>0, CommandsType
    <3>2. DOMAIN Commands(desired, c) = 1 .. Len(Commands(desired, c))
      BY <3>1, LenProperties
    <3>3. \A j \in 1 .. Len(Commands(desired, c)) : j < at
      BY <2>5
    <3>. QED
      BY <3>2, <3>3 DEF ToSet
  <2>7. ASSUME edits = born.edits, ~undone PROVE \A x \in ToSet(Commands(desired, c)) : Held(host, x)
    BY <2>1, <2>3, <2>6, <2>7 DEF Complete
  <2>. QED
    BY <2>1, <2>2, <2>4, <2>7 DEF Complete
<1>9. CASE Finish
  <2>1. pc' = "idle" /\ UNCHANGED <<host, desired, applied, edits, born, undone>>
    BY <1>9 DEF Finish, Rest
  <2>. QED
    BY <2>1 DEF Complete
<1>10. CASE BeginRollback
  <2>1. undone' = TRUE
    BY <1>10 DEF BeginRollback
  <2>. QED
    BY <2>1 DEF Complete
<1>11. CASE UndoRun \/ UndoFail
  <2>1. undone' = undone /\ pc = "undo"
    BY <1>11 DEF UndoRun, UndoFail, Rest
  <2>. QED
    BY <1>0, <2>1 DEF Complete
<1>12. CASE Restart
  <2>1. applied' = [user |-> <<>>, ssh |-> <<>>] /\ pc' = "idle"
    BY <1>12 DEF Restart, Start
  <2>2. ToSet(applied'.user) = {}
    BY <2>1, ToSetEmpty
  <2>. QED
    BY <2>1, <2>2 DEF Complete
<1>13. CASE \E u \in Users : (\E g \in Groups : PackageAddsUser(u, g)) \/ \E k \in Keys : AddKey(u, k)
  <2>1. edits' = edits + 1 /\ born' = born
    BY <1>13 DEF PackageAddsUser, AddKey, Edited
  <2>2. edits' # born'.edits
    BY <1>0, <2>1
  <2>. QED
    BY <2>2 DEF Complete
<1>14. CASE UNCHANGED vars
  BY <1>14 DEF Complete, vars, process, counts
<1>. QED
  BY <1>4, <1>5, <1>6, <1>7, <1>8, <1>9, <1>10, <1>11, <1>12, <1>13, <1>14 DEF Next

\* An account that is recorded as created is complete: its change is recorded when
\* the last of its commands has run, and no later command of an Apply undoes one.
THEOREM RecordedAccountsAreComplete == Spec => []RecordedIsComplete
<1>1. Init => Complete
  <2> SUFFICES ASSUME Init PROVE Complete
    OBVIOUS
  <2>1. pc = "idle" /\ applied = [user |-> <<>>, ssh |-> <<>>]
    BY DEF Init
  <2>2. ToSet(applied.user) = {}
    BY <2>1, ToSetEmpty
  <2>. QED
    BY <2>1, <2>2 DEF Complete
<1>2. Shape /\ Complete /\ [Next]_vars => Complete'
  BY CompleteStep
<1>3. Shape /\ Complete => RecordedIsComplete
  <2> SUFFICES ASSUME Shape, Complete, edits = born.edits, ~undone, NEW i \in DOMAIN applied.user,
                      NEW c, c = applied.user[i], c.target = "user", c.action = "create"
               PROVE  /\ host.acct[c.name] # None
                      /\ desired.users[c.name].password # None =>
                           host.acct[c.name].password = desired.users[c.name].password
                      /\ desired.users[c.name].sudo # None =>
                           host.sudo[c.name] = desired.users[c.name].sudo
    BY DEF RecordedIsComplete
  <2>1. IsManifest(desired) /\ applied.user \in Seq(Due(desired))
    BY AccountsAssumption DEF Shape
  <2>2. c \in ToSet(applied.user) /\ c \in Due(desired)
    BY <2>1, ElementOfSeq, LenProperties DEF ToSet
  <2>3. \A x \in ToSet(Commands(desired, c)) : Held(host, x)
    BY <2>2 DEF Complete
  <2>4. c.name \in DOMAIN desired.users /\ Commands(desired, c) = createUser(c.name, desired.users[c.name])
    BY <2>1, <2>2, FirstCommand
  <2>5. PICK u, d : u \in DOMAIN desired.users /\ u = c.name /\ d = desired.users[u]
    BY <2>4
  <2>6. /\ Command("useradd", u, d) \in ToSet(createUser(u, d))
        /\ d.password # None => Command("password", u, d.password) \in ToSet(createUser(u, d))
        /\ d.sudo # None => Command("sudo", u, d.sudo) \in ToSet(createUser(u, d))
    BY <2>1, <2>5, CreateCommands
  <2>7. /\ Held(host, Command("useradd", u, d))
        /\ d.password # None => Held(host, Command("password", u, d.password))
        /\ d.sudo # None => Held(host, Command("sudo", u, d.sudo))
    BY <2>3, <2>4, <2>5, <2>6
  <2>8. /\ host.acct[u] # None
        /\ d.password # None => host.acct[u].password = d.password
        /\ d.sudo # None => host.sudo[u] = d.sudo
    BY <2>7 DEF Held, Command
  <2>. QED
    BY <2>5, <2>8
<1>. QED
  BY <1>1, <1>2, <1>3, ShapeHolds, PTL DEF Spec

-----------------------------------------------------------------------------
(* An Apply that succeeds settles a coherent manifest. *)

\* What Coherent asks of the manifest alone.
Static(m) ==
  \A u \in DOMAIN m.users :
    /\ m.users[u].groups # {} => m.users[u].gid \in m.users[u].groups
    /\ m.users[u].keys # {} => m.users[u].home # None
    /\ u \in DOMAIN m.authorized => /\ m.users[u].home = DefaultHome /\ m.users[u].keys = m.authorized[u]
                                    /\ m.users[u].keys # {}

\* What a manifest declares of a group, a user and authorized keys is so on h.
GroupSettled(h, m, g) == h.gid[g] # None /\ (m.groups[g] # None => h.gid[g] = m.groups[g])

UserSettled(h, m, u) ==
  /\ h.acct[u] # None
  /\ m.users[u].home # None => h.acct[u].home = m.users[u].home
  /\ m.users[u].shell # None => h.acct[u].shell = m.users[u].shell
  /\ m.users[u].groups # {} => IdGroups(h, u) = m.users[u].groups
  /\ m.users[u].keys # {} => KeysAtHome(h, u) = m.users[u].keys

KeysSettled(h, m, u) == h.keys[u][DefaultHome] = m.authorized[u]

\* No command of another change unsettles anything.
LEMMA StaysSettled ==
  ASSUME NEW m, IsManifest(m), Static(m), NEW h, IsHost(h), NEW c \in Wanted(m), NEW k \in Outcomes(h, c)
  PROVE  /\ \A g \in DOMAIN m.groups : GroupSettled(h, m, g) => GroupSettled(k, m, g)
         /\ \A u \in DOMAIN m.users : c \notin OfUser(m, u) \/ c \in OfKeys(m) =>
              (UserSettled(h, m, u) => UserSettled(k, m, u))
         /\ \A u \in DOMAIN m.authorized \ DOMAIN m.users : KeysSettled(h, m, u) => KeysSettled(k, m, u)
<1>0. /\ h.gid \in [Groups -> Ids \union {None}] /\ h.acct \in [Users -> Account \union {None}]
      /\ h.keys \in [Users -> [Homes -> SUBSET Keys]] /\ h.sudo \in [Users -> Policies \union {None}]
  BY HostFields
<1>1. CASE c \in OfGroups(m)
  <2>1. /\ Done(k, c) /\ k.acct = h.acct /\ k.keys = h.keys /\ c.name \in DOMAIN m.groups
        /\ \A g \in Groups : g # c.name => k.gid[g] = h.gid[g]
    BY <1>1, GroupEffect
  <2>2. /\ c.cmd \in {"groupadd", "groupmod"} /\ c.arg = m.groups[c.name]
        /\ c.cmd = "groupmod" => c.arg # None
    BY <1>1 DEF OfGroups, Command
  <2>3. \A g \in DOMAIN m.groups : GroupSettled(h, m, g) => GroupSettled(k, m, g)
    BY <2>1, <2>2 DEF GroupSettled, Done, IsManifest
  <2>. QED
    BY <2>1, <2>3 DEF UserSettled, KeysSettled, IdGroups, KeysAtHome
<1>2. CASE c \notin OfGroups(m)
  <2>0. c \in OfUsers(m) \union OfKeys(m)
    BY <1>2 DEF Wanted
  <2>1. k.gid = h.gid /\ Done(k, c) /\ OnlyUser(h, k, c.name) /\ KeepsOf(h, k, c)
    BY <2>0, UserEffect
  <2>2. ASSUME NEW u \in Users, u # c.name
        PROVE  /\ UserSettled(h, m, u) => UserSettled(k, m, u)
               /\ KeysSettled(h, m, u) => KeysSettled(k, m, u)
    <3>1. k.acct[u] = h.acct[u] /\ k.keys[u] = h.keys[u]
      BY <2>1, <2>2 DEF OnlyUser
    <3>. QED
      BY <3>1 DEF UserSettled, KeysSettled, IdGroups, KeysAtHome
  <2>3. ASSUME c \in OfKeys(m)
        PROVE  /\ c.name \in DOMAIN m.authorized /\ k.acct = h.acct
               /\ k.keys[c.name][DefaultHome] = m.authorized[c.name]
               /\ \A x \in Homes : x # DefaultHome => k.keys[c.name][x] = h.keys[c.name][x]
    <3>1. /\ c.cmd = "keys" /\ c.arg.home = DefaultHome /\ c.arg.keys = m.authorized[c.name]
          /\ c.name \in DOMAIN m.authorized
      BY <2>3 DEF OfKeys, Command
    <3>. QED
      BY <2>1, <3>1 DEF Done, KeepsOf
  <2>4. \A u \in DOMAIN m.users : u \in Users
    BY Zenon DEF IsManifest
  <2>5. \A u \in DOMAIN m.authorized : u \in Users
    BY Zenon DEF IsManifest
  <2>6. ASSUME NEW u \in DOMAIN m.users, c \notin OfUser(m, u) \/ c \in OfKeys(m), UserSettled(h, m, u)
        PROVE  UserSettled(k, m, u)
    <3>1. CASE u # c.name
      BY <2>2, <2>4, <2>6, <3>1
    <3>2. CASE u = c.name
      <4>1. c \in OfKeys(m)
        BY <2>0, <2>6, <3>2 DEF OfUser
      <4>2. /\ k.acct = h.acct /\ u \in DOMAIN m.authorized
            /\ k.keys[u][DefaultHome] = m.authorized[u]
        BY <2>3, <3>2, <4>1
      <4>3. m.users[u].home = DefaultHome /\ m.users[u].keys = m.authorized[u] /\ DefaultHome # None
        BY <4>2, AccountsAssumption DEF Static
      <4>. QED
        BY <2>6, <4>2, <4>3 DEF UserSettled, IdGroups, KeysAtHome
    <3>. QED
      BY <3>1, <3>2
  <2>7. ASSUME NEW u \in DOMAIN m.authorized \ DOMAIN m.users, KeysSettled(h, m, u)
        PROVE  KeysSettled(k, m, u)
    <3>1. CASE u # c.name
      BY <2>2, <2>5, <2>7, <3>1
    <3>2. CASE u = c.name
      <4>1. c \in OfKeys(m)
        <5>1. ASSUME c \in OfUsers(m) PROVE c.name \in DOMAIN m.users
          BY <5>1 DEF OfUsers, Command
        <5>. QED
          BY <2>0, <2>7, <3>2, <5>1
      <4>. QED
        BY <2>3, <3>2, <4>1 DEF KeysSettled
    <3>. QED
      BY <3>1, <3>2
  <2>8. \A g \in DOMAIN m.groups : GroupSettled(h, m, g) => GroupSettled(k, m, g)
    BY <2>1 DEF GroupSettled
  <2>. QED
    BY <2>6, <2>7, <2>8
<1>. QED
  BY <1>1, <1>2

\* A user's command done stays so through the later ones of the same change.
LEMMA DoneStays ==
  ASSUME NEW m, IsManifest(m), NEW u, NEW h, IsHost(h), NEW x \in OfUser(m, u), NEW c \in OfUser(m, u),
         NEW k \in Outcomes(h, c), Done(h, x), ~ (x.cmd = "keys" /\ c.cmd = "home")
  PROVE  Done(k, x)
<1>1. x \in OfUsers(m) /\ c \in OfUsers(m) /\ x.name = u /\ c.name = u
  BY DEF OfUser
<1>2. /\ IsHost(k) /\ Done(k, c) /\ KeepsOf(h, k, c) /\ Stay(h, k)
  BY <1>1, UserEffect
<1>3. /\ x.cmd \in {"useradd", "primary", "supp", "shell", "home", "keys", "password", "sudo"}
      /\ u \in Users
      /\ x.cmd = "useradd"  => x.arg = m.users[u]
      /\ x.cmd = "primary"  => x.arg = m.users[u].gid
      /\ x.cmd = "supp"     => x.arg = m.users[u].groups
      /\ x.cmd = "shell"    => x.arg = m.users[u].shell
      /\ x.cmd = "home"     => x.arg = m.users[u].home
      /\ x.cmd = "password" => x.arg = m.users[u].password
      /\ x.cmd = "sudo"     => x.arg = m.users[u].sudo
  BY <1>1, UserCommand
<1>4. /\ c.cmd \in {"useradd", "primary", "supp", "shell", "home", "keys", "password", "sudo"}
      /\ c.cmd = "useradd"  => c.arg = m.users[u]
      /\ c.cmd = "primary"  => c.arg = m.users[u].gid /\ c.arg \in Groups
      /\ c.cmd = "supp"     => c.arg = m.users[u].groups
      /\ c.cmd = "shell"    => c.arg = m.users[u].shell /\ c.arg \in Shells
      /\ c.cmd = "home"     => c.arg = m.users[u].home /\ c.arg \in Homes
      /\ c.cmd = "password" => c.arg = m.users[u].password
      /\ c.cmd = "sudo"     => c.arg = m.users[u].sudo
  BY <1>1, UserCommand
<1>5. ASSUME x.cmd = "keys", c.cmd = "keys" PROVE x.arg = c.arg
  <2>1. PICK v \in DOMAIN m.users : x = Command("keys", v, [home |-> OrDefault(m.users[v].home, DefaultHome), keys |-> m.users[v].keys])
    BY <1>1, <1>5, SMTT(20) DEF OfUsers, Command
  <2>2. PICK w \in DOMAIN m.users : c = Command("keys", w, [home |-> OrDefault(m.users[w].home, DefaultHome), keys |-> m.users[w].keys])
    BY <1>1, <1>5 DEF OfUsers, Command
  <2>3. v = w
    BY <1>1, <2>1, <2>2 DEF Command
  <2>. QED
    BY <2>1, <2>2, <2>3, SMTT(20)
<1>6. None \notin Groups \union Homes \union Shells
  BY AccountsAssumption
<1>7. CASE x.cmd = "sudo"
  <2>1. CASE c.cmd = "sudo"
    BY <1>1, <1>2, <1>3, <1>4, <1>7, <2>1 DEF Done
  <2>2. CASE c.cmd # "sudo"
    BY <1>2, <1>7, <2>2 DEF Done, KeepsOf
  <2>. QED
    BY <2>1, <2>2
<1>8. CASE x.cmd = "keys"
  <2>1. CASE c.cmd = "keys"
    BY <1>1, <1>2, <1>5, <1>8, <2>1 DEF Done
  <2>2. CASE c.cmd # "keys"
    BY <1>2, <1>8, <2>2 DEF Done, KeepsOf
  <2>. QED
    BY <2>1, <2>2
<1>9. CASE x.cmd \in {"useradd", "primary", "supp", "shell", "home", "password"}
  <2>1. h.acct[u] # None /\ k.acct[u] # None
    BY <1>1, <1>2, <1>3, <1>9 DEF Done, Stay
  <2>2. c.cmd # "useradd"
    BY <1>1, <1>2, <2>1 DEF KeepsOf
  <2>3. CASE c.cmd \in {"keys", "sudo"}
    BY <1>2, <1>9, <2>3 DEF Done, KeepsOf
  <2>4. CASE c.cmd \in {"primary", "supp", "shell", "home", "password"}
    <3>1. SetsOnly(h.acct[u], k.acct[u], c.cmd)
      BY <1>1, <1>2, <2>4 DEF KeepsOf
    <3>2. /\ c.cmd = "primary"  => k.acct[u].primary = m.users[u].gid /\ m.users[u].gid # None
          /\ c.cmd = "supp"     => k.acct[u].supp = m.users[u].groups
          /\ c.cmd = "shell"    => k.acct[u].shell = m.users[u].shell /\ m.users[u].shell # None
          /\ c.cmd = "home"     => k.acct[u].home = m.users[u].home /\ m.users[u].home # None
          /\ c.cmd = "password" => k.acct[u].password = m.users[u].password
      BY <1>1, <1>2, <1>4, <1>6 DEF Done
    <3>3. CASE x.cmd = "useradd"
      <4>1. /\ h.acct[u].primary = OrDefault(m.users[u].gid, Private)
            /\ h.acct[u].supp = m.users[u].groups
            /\ h.acct[u].home = OrDefault(m.users[u].home, DefaultHome)
            /\ h.acct[u].shell = OrDefault(m.users[u].shell, DefaultShell)
        BY <1>1, <1>3, <3>3 DEF Done
      <4>2. /\ k.acct[u].primary = OrDefault(m.users[u].gid, Private)
            /\ k.acct[u].supp = m.users[u].groups
            /\ k.acct[u].home = OrDefault(m.users[u].home, DefaultHome)
            /\ k.acct[u].shell = OrDefault(m.users[u].shell, DefaultShell)
        BY <3>1, <3>2, <4>1 DEF SetsOnly, OrDefault
      <4>. QED
        BY <1>1, <1>3, <2>1, <3>3, <4>2 DEF Done
    <3>4. CASE x.cmd \in {"primary", "supp", "shell", "home", "password"}
      <4>1. /\ x.cmd = "primary"  => h.acct[u].primary = m.users[u].gid
            /\ x.cmd = "supp"     => h.acct[u].supp = m.users[u].groups
            /\ x.cmd = "shell"    => h.acct[u].shell = m.users[u].shell
            /\ x.cmd = "home"     => h.acct[u].home = m.users[u].home
            /\ x.cmd = "password" => h.acct[u].password = m.users[u].password
        BY <1>1, <1>3 DEF Done
      <4>2. /\ x.cmd = "primary"  => k.acct[u].primary = m.users[u].gid
            /\ x.cmd = "supp"     => k.acct[u].supp = m.users[u].groups
            /\ x.cmd = "shell"    => k.acct[u].shell = m.users[u].shell
            /\ x.cmd = "home"     => k.acct[u].home = m.users[u].home
            /\ x.cmd = "password" => k.acct[u].password = m.users[u].password
        BY <3>1, <3>2, <4>1 DEF SetsOnly
      <4>. QED
        BY <1>1, <1>3, <2>1, <3>4, <4>2 DEF Done
    <3>. QED
      BY <1>9, <3>3, <3>4
  <2>. QED
    BY <1>4, <2>2, <2>3, <2>4
<1>. QED
  BY <1>3, <1>7, <1>8, <1>9

\* The commands of a change done, what it is about is settled.
LEMMA Finished ==
  ASSUME NEW m, IsManifest(m), Static(m), NEW c \in Due(m), NEW h, IsHost(h),
         \A x \in ToSet(Commands(m, c)) : Done(h, x),
         c.target = "user" /\ c.action = "update" => h.acct[c.name] # None
  PROVE  /\ c.target = "group" => GroupSettled(h, m, c.name)
         /\ c.target = "user"  => UserSettled(h, m, c.name)
         /\ c.target = "keys"  => KeysSettled(h, m, c.name)
<1>1. CASE c.target = "group"
  <2>1. PICK x : x = Command(IF c.action = "create" THEN "groupadd" ELSE "groupmod", c.name, m.groups[c.name])
    OBVIOUS
  <2>2. Commands(m, c) = <<x>>
    BY <1>1, <2>1, CommandsType
  <2>3. Done(h, x)
    BY <2>2 DEF ToSet
  <2>4. /\ c.action # "create" => m.groups[c.name] # None
    BY <1>1 DEF Due
  <2>. QED
    BY <1>1, <2>1, <2>3, <2>4 DEF Done, Command, GroupSettled
<1>2. CASE c.target = "keys"
  <2>1. PICK x : x = Command("keys", c.name, [home |-> DefaultHome, keys |-> m.authorized[c.name]])
    OBVIOUS
  <2>2. Commands(m, c) = <<x>>
    BY <1>2, <2>1, CommandsType
  <2>3. Done(h, x)
    BY <2>2 DEF ToSet
  <2>. QED
    BY <1>2, <2>1, <2>3 DEF Done, Command, KeysSettled
<1>3. CASE c.target = "user"
  <2>1. c.name \in DOMAIN m.users /\ c.action \in {"create", "update"}
    BY <1>3 DEF Due
  <2>2. PICK u, d : u \in DOMAIN m.users /\ u = c.name /\ d = m.users[u]
    BY <2>1
  <2>3. /\ d.gid \in Groups \union {None} /\ d.groups \subseteq Groups /\ d.home \in Homes \union {None}
        /\ d.groups # {} => d.gid \in d.groups
        /\ d.keys # {} => d.home # None
        /\ None \notin Groups
    BY <2>2, SpecFields, AccountsAssumption, SMTT(20) DEF Static
  <2> DEFINE K == Command("keys", u, [home |-> OrDefault(d.home, DefaultHome), keys |-> d.keys])
  <2>4. CASE c.action = "create"
    <3>1. Commands(m, c) = createUser(u, d)
      BY <1>3, <2>2, <2>4, CommandsType
    <3>2. Command("useradd", u, d) \in ToSet(Commands(m, c)) /\ (d.keys # {} => K \in ToSet(Commands(m, c)))
      BY <2>2, <3>1, CreateCommands
    <3>3. Done(h, Command("useradd", u, d)) /\ (d.keys # {} => Done(h, K))
      BY <3>2
    <3>4. /\ h.acct[u] # None
          /\ h.acct[u].primary = OrDefault(d.gid, Private)
          /\ h.acct[u].supp = d.groups
          /\ h.acct[u].home = OrDefault(d.home, DefaultHome)
          /\ h.acct[u].shell = OrDefault(d.shell, DefaultShell)
      BY <3>3 DEF Done, Command
    <3>5. d.keys # {} => h.keys[u][OrDefault(d.home, DefaultHome)] = d.keys
      BY <3>3 DEF Done, Command
    <3>. QED
      BY <1>3, <2>2, <2>3, <3>4, <3>5 DEF UserSettled, IdGroups, KeysAtHome, OrDefault
  <2>5. CASE c.action = "update"
    <3>1. Commands(m, c) = updateUser(u, d)
      BY <1>3, <2>2, <2>5, CommandsType
    <3>2. /\ d.gid # None => Command("primary", u, d.gid) \in ToSet(Commands(m, c))
          /\ d.groups # {} => Command("supp", u, d.groups) \in ToSet(Commands(m, c))
          /\ d.shell # None => Command("shell", u, d.shell) \in ToSet(Commands(m, c))
          /\ d.home # None => Command("home", u, d.home) \in ToSet(Commands(m, c))
          /\ d.keys # {} => K \in ToSet(Commands(m, c))
      BY <2>2, <3>1, UpdateCommands
    <3>3. /\ d.gid # None => Done(h, Command("primary", u, d.gid))
          /\ d.groups # {} => Done(h, Command("supp", u, d.groups))
          /\ d.shell # None => Done(h, Command("shell", u, d.shell))
          /\ d.home # None => Done(h, Command("home", u, d.home))
          /\ d.keys # {} => Done(h, K)
      BY <3>2
    <3>4. /\ d.gid # None => h.acct[u].primary = d.gid
          /\ d.groups # {} => h.acct[u].supp = d.groups
          /\ d.shell # None => h.acct[u].shell = d.shell
          /\ d.home # None => h.acct[u].home = d.home
          /\ d.keys # {} => h.keys[u][OrDefault(d.home, DefaultHome)] = d.keys
      BY <3>3 DEF Done, Command
    <3>5. h.acct[u] # None
      BY <1>3, <2>2, <2>5
    <3>. QED
      BY <1>3, <2>2, <2>3, <3>4, <3>5 DEF UserSettled, IdGroups, KeysAtHome, OrDefault
  <2>. QED
    BY <2>1, <2>4, <2>5
<1>. QED
  BY <1>1, <1>2, <1>3 DEF Due

\* What the command at hand is about.
LEMMA HeadKind ==
  ASSUME NEW m, IsManifest(m), NEW c \in Due(m), NEW C, C = Commands(m, c)
  PROVE  /\ C \in Seq(Wanted(m)) /\ Len(C) \in Nat /\ DOMAIN C = 1 .. Len(C)
         /\ c.target = "group" => Len(C) = 1 /\ C[1] \in OfGroups(m)
         /\ c.target = "keys"  => Len(C) = 1 /\ C[1] \in OfKeys(m)
         /\ c.target = "user"  => /\ c.name \in DOMAIN m.users /\ C \in Seq(OfUser(m, c.name))
                                  /\ \A i, j \in DOMAIN C : C[i].cmd = "keys" /\ C[j].cmd = "home" => j < i
<1>0. C \in Seq(Wanted(m)) /\ Len(C) \in Nat /\ DOMAIN C = 1 .. Len(C)
  BY CommandsType, LenProperties
<1>1. CASE c.target = "group"
  <2>1. PICK x : x = Command(IF c.action = "create" THEN "groupadd" ELSE "groupmod", c.name, m.groups[c.name])
    OBVIOUS
  <2>2. C = <<x>>
    BY <1>1, <2>1, CommandsType
  <2>3. c.name \in DOMAIN m.groups /\ (c.action # "create" => m.groups[c.name] # None)
    BY <1>1 DEF Due
  <2>4. x \in OfGroups(m)
    BY <2>1, <2>3 DEF OfGroups
  <2>. QED
    BY <1>0, <1>1, <2>2, <2>4
<1>2. CASE c.target = "keys"
  <2>1. PICK x : x = Command("keys", c.name, [home |-> DefaultHome, keys |-> m.authorized[c.name]])
    OBVIOUS
  <2>2. C = <<x>>
    BY <1>2, <2>1, CommandsType
  <2>3. c.name \in DOMAIN m.authorized
    BY <1>2 DEF Due
  <2>4. x \in OfKeys(m)
    BY <2>1, <2>3 DEF OfKeys
  <2>. QED
    BY <1>0, <1>2, <2>2, <2>4
<1>3. CASE c.target = "user"
  <2>1. c.name \in DOMAIN m.users /\ c.action \in {"create", "update"}
    BY <1>3 DEF Due
  <2>2. PICK u, d : u \in DOMAIN m.users /\ u = c.name /\ d = m.users[u]
    BY <2>1
  <2>3. CASE c.action = "create"
    <3>1. C = createUser(u, d)
      BY <1>3, <2>2, <2>3, CommandsType
    <3>2. C \in Seq(OfUser(m, u))
      BY <2>2, <3>1, CreateCommands
    <3>3. \A x \in ToSet(createUser(u, d)) : x.cmd # "home"
      BY <2>2, CreateCommands
    <3>4. \A j \in DOMAIN C : C[j] \in ToSet(C)
      BY DEF ToSet
    <3>. QED
      BY <1>0, <1>3, <2>2, <3>1, <3>2, <3>3, <3>4
  <2>4. CASE c.action = "update"
    <3>1. C = updateUser(u, d)
      BY <1>3, <2>2, <2>4, CommandsType
    <3>2. C \in Seq(OfUser(m, u)) /\ \A i, j \in DOMAIN C : C[i].cmd = "keys" /\ C[j].cmd = "home" => j < i
      BY <2>2, <3>1, UpdateCommands
    <3>. QED
      BY <1>0, <1>3, <2>2, <3>2
  <2>. QED
    BY <2>1, <2>3, <2>4
<1>. QED
  BY <1>0, <1>1, <1>2, <1>3 DEF Due

\* The command useradd is that of a change that makes the user.
LEMMA UserAddOf ==
  ASSUME NEW m, IsManifest(m), NEW c \in Due(m), NEW i \in 1 .. Len(Commands(m, c)),
         Commands(m, c)[i].cmd = "useradd"
  PROVE  c.target = "user" /\ c.action = "create" /\ c.name = Commands(m, c)[i].name /\ i = 1
<1>1. PICK C : C = Commands(m, c)
  OBVIOUS
<1>2. /\ Len(C) \in Nat /\ DOMAIN C = 1 .. Len(C)
      /\ c.target = "group" => Len(C) = 1 /\ C[1] \in OfGroups(m)
      /\ c.target = "keys"  => Len(C) = 1 /\ C[1] \in OfKeys(m)
      /\ c.target = "user"  => c.name \in DOMAIN m.users /\ C \in Seq(OfUser(m, c.name))
  BY <1>1, HeadKind
<1>3. c.target = "user" /\ c.action \in {"create", "update"}
  <2>1. \A x \in OfGroups(m) \union OfKeys(m) : x.cmd # "useradd"
    BY DEF OfGroups, OfKeys, Command
  <2>2. ASSUME Len(C) = 1, C[1] \in OfGroups(m) \union OfKeys(m) PROVE FALSE
    <3>1. i = 1
      BY <1>1, <2>2
    <3>. QED
      BY <1>1, <2>1, <2>2, <3>1
  <2>3. c.target \in {"group", "user", "keys"} /\ (c.target = "user" => c.action \in {"create", "update"})
    BY DEF Due
  <2>. QED
    BY <1>2, <2>2, <2>3
<1>4. C[i] \in OfUser(m, c.name) /\ C[i] \in ToSet(C)
  BY <1>1, <1>2, <1>3, ElementOfSeq DEF ToSet
<1>5. C[i].name = c.name
  BY <1>4 DEF OfUser
<1>6. c.action = "create"
  <2> SUFFICES ASSUME c.action = "update" PROVE FALSE
    BY <1>3
  <2>1. PICK u, d : u \in DOMAIN m.users /\ u = c.name /\ d = m.users[u]
    BY <1>2, <1>3
  <2>2. C = updateUser(u, d)
    BY <1>1, <1>3, <2>1, CommandsType
  <2>3. \A y \in ToSet(updateUser(u, d)) : y.cmd # "useradd"
    BY <2>1, UpdateCommands
  <2>. QED
    BY <1>1, <1>4, <2>2, <2>3
<1>7. i = 1
  <2> SUFFICES ASSUME i # 1 PROVE FALSE
    OBVIOUS
  <2>1. i \in 2 .. Len(Commands(m, c))
    BY <1>1, <1>2
  <2>2. Commands(m, c)[i].cmd \in {"keys", "password", "sudo"}
    BY <1>3, <1>6, <2>1, CreateTail
  <2>. QED
    BY <2>2
<1>. QED
  BY <1>1, <1>3, <1>5, <1>6, <1>7

\* While an Apply succeeds, what is not settled is due, and so is what an update needs.
Settling ==
  verb = "apply" /\ ret = "ok" /\ edits = since /\ Static(desired) =>
    /\ \A g \in DOMAIN desired.groups :
         (\E c \in ToSet(todo) : c.target = "group" /\ c.name = g) \/ GroupSettled(host, desired, g)
    /\ \A u \in DOMAIN desired.users :
         (\E c \in ToSet(todo) : c.target = "user" /\ c.name = u) \/ UserSettled(host, desired, u)
    /\ \A u \in DOMAIN desired.authorized \ DOMAIN desired.users :
         (\E c \in ToSet(todo) : c.target = "keys" /\ c.name = u) \/ KeysSettled(host, desired, u)
    /\ \A c \in ToSet(todo) : c.target = "user" /\ c.action = "update" => host.acct[c.name] # None
    /\ todo # <<>> =>
         \A j \in 1 .. Len(Commands(desired, Head(todo))) : j < at => Done(host, Commands(desired, Head(todo))[j])

\* A Plan finds all that is not settled.
LEMMA SettlingBegins ==
  ASSUME Shape, NEW missed, BeginApply(missed)
  PROVE  Settling'
<1>1. /\ at' = 1 /\ todo' = Changes(host, desired, missed)
      /\ UNCHANGED <<host, desired>>
  BY DEF BeginApply, Call
<1>2. IsHost(host) /\ IsManifest(desired)
  BY AccountsAssumption DEF Shape
<1>3. /\ \A g \in Groups : GroupAction(host, desired, g, missed) \in {"create", "update"} =>
           \E c \in ToSet(todo') : c.target = "group" /\ c.name = g
      /\ \A u \in Users : UserAction(host, desired, u, missed) \in {"create", "update"} =>
           \E c \in ToSet(todo') : c.target = "user" /\ c.name = u
      /\ \A u \in DOMAIN desired.authorized : desired.authorized[u] # host.keys[u][DefaultHome] =>
           \E c \in ToSet(todo') : c.target = "keys" /\ c.name = u
      /\ \A c \in ToSet(todo') : c.target = "user" => UserAction(host, desired, c.name, missed) = c.action
      /\ todo' \in Seq(Due(desired))
  BY <1>1, <1>2, ChangesType
<1>4. \A g \in DOMAIN desired.groups : g \in Groups
  BY <1>2, Zenon DEF IsManifest
<1>5. \A u \in DOMAIN desired.users : u \in Users
  BY <1>2, Zenon DEF IsManifest
<1>6. ASSUME NEW g \in DOMAIN desired.groups
      PROVE  (\E c \in ToSet(todo') : c.target = "group" /\ c.name = g) \/ GroupSettled(host, desired, g)
  BY <1>3, <1>4 DEF GroupAction, GroupDrift, GroupSettled
<1>7. ASSUME NEW u \in DOMAIN desired.users
      PROVE  (\E c \in ToSet(todo') : c.target = "user" /\ c.name = u) \/ UserSettled(host, desired, u)
  BY <1>3, <1>5 DEF UserAction, userDrift, UserSettled
<1>8. ASSUME NEW u \in DOMAIN desired.authorized
      PROVE  (\E c \in ToSet(todo') : c.target = "keys" /\ c.name = u) \/ KeysSettled(host, desired, u)
  BY <1>3 DEF KeysSettled
<1>9. ASSUME NEW c \in ToSet(todo'), c.target = "user", c.action = "update" PROVE host.acct[c.name] # None
  BY <1>3, <1>9 DEF UserAction
<1>10. \A j \in 1 .. Len(Commands(desired', Head(todo'))) : ~ (j < at')
  <2>1. \A j \in 1 .. Len(Commands(desired', Head(todo'))) : j \in Int /\ j >= 1
    OBVIOUS
  <2>. QED
    BY <1>1, <2>1
<1>. QED
  BY <1>1, <1>6, <1>7, <1>8, <1>9, <1>10 DEF Settling

\* The next command leaves what is settled settled and what is done done.
LEMMA SettlingRuns ==
  ASSUME Shape, Settling, Run
  PROVE  Settling'
<1>1. /\ pc = "apply" /\ HasCommand /\ todo # <<>> /\ host' \in Outcomes(host, Now) /\ at' = at + 1
      /\ UNCHANGED <<desired, verb, edits, since, todo, ret>>
  BY DEF Run, Rest, HasCommand, Busy
<1>2. PICK m, c, C, k : m = desired /\ c = Head(todo) /\ C = Commands(m, c) /\ k = host'
  OBVIOUS
<1>3. /\ IsManifest(m) /\ IsHost(host) /\ c \in Due(m) /\ c \in ToSet(todo) /\ Now = C[at]
      /\ at \in 1 .. Len(C) /\ C[at] \in Wanted(m) /\ k \in Outcomes(host, C[at])
  <2>1. todo \in Seq(Due(desired))
    BY <1>1 DEF Shape
  <2>2. c \in ToSet(todo)
    BY <1>1, <1>2, <2>1, TailElements
  <2>. QED
    BY <1>1, <1>2, <2>2, NextCommand DEF Shape
<1>4. /\ C \in Seq(Wanted(m)) /\ Len(C) \in Nat /\ DOMAIN C = 1 .. Len(C)
      /\ c.target = "group" => Len(C) = 1 /\ C[1] \in OfGroups(m)
      /\ c.target = "keys"  => Len(C) = 1 /\ C[1] \in OfKeys(m)
      /\ c.target = "user"  => /\ c.name \in DOMAIN m.users /\ C \in Seq(OfUser(m, c.name))
                               /\ \A i, j \in DOMAIN C : C[i].cmd = "keys" /\ C[j].cmd = "home" => j < i
  BY <1>2, <1>3, HeadKind
<1>5. c.target \in {"group", "user", "keys"}
  BY <1>3 DEF Due
<1> SUFFICES ASSUME verb = "apply", ret = "ok", edits = since, Static(m) PROVE Settling'
  BY <1>1, <1>2 DEF Settling
<1>6. /\ \A g \in DOMAIN m.groups :
           (\E x \in ToSet(todo) : x.target = "group" /\ x.name = g) \/ GroupSettled(host, m, g)
      /\ \A u \in DOMAIN m.users :
           (\E x \in ToSet(todo) : x.target = "user" /\ x.name = u) \/ UserSettled(host, m, u)
      /\ \A u \in DOMAIN m.authorized \ DOMAIN m.users :
           (\E x \in ToSet(todo) : x.target = "keys" /\ x.name = u) \/ KeysSettled(host, m, u)
      /\ \A x \in ToSet(todo) : x.target = "user" /\ x.action = "update" => host.acct[x.name] # None
      /\ \A j \in 1 .. Len(C) : j < at => Done(host, C[j])
  BY <1>1, <1>2 DEF Settling
<1>7. /\ \A g \in DOMAIN m.groups : GroupSettled(host, m, g) => GroupSettled(k, m, g)
      /\ \A u \in DOMAIN m.users : C[at] \notin OfUser(m, u) \/ C[at] \in OfKeys(m) =>
           (UserSettled(host, m, u) => UserSettled(k, m, u))
      /\ \A u \in DOMAIN m.authorized \ DOMAIN m.users : KeysSettled(host, m, u) => KeysSettled(k, m, u)
  BY <1>3, StaysSettled
<1>8. IsHost(k) /\ Stay(host, k) /\ Done(k, C[at])
  <2>1. CASE C[at] \in OfGroups(m)
    <3>1. IsHost(k) /\ Done(k, C[at]) /\ k.acct = host.acct
      BY <1>3, <2>1, GroupEffect
    <3>. QED
      BY <3>1 DEF Stay
  <2>2. CASE C[at] \notin OfGroups(m)
    <3>1. C[at] \in OfUsers(m) \union OfKeys(m)
      BY <1>3, <2>2 DEF Wanted
    <3>. QED
      BY <1>3, <3>1, UserEffect
  <2>. QED
    BY <2>1, <2>2
<1>9. ASSUME NEW u \in DOMAIN m.users
      PROVE  (\E x \in ToSet(todo) : x.target = "user" /\ x.name = u) \/ UserSettled(k, m, u)
  <2>1. CASE c.target = "user" /\ c.name = u
    BY <1>3, <2>1
  <2>2. CASE ~ (c.target = "user" /\ c.name = u)
    <3>1. C[at] \notin OfUser(m, u) \/ C[at] \in OfKeys(m)
      <4>1. CASE c.target = "user"
        <5>1. C[at] \in OfUser(m, c.name)
          BY <1>3, <1>4, <4>1, ElementOfSeq
        <5>. QED
          BY <2>2, <4>1, <5>1 DEF OfUser
      <4>2. CASE c.target = "keys"
        <5>1. at = 1
          BY <1>3, <1>4, <4>2
        <5>. QED
          BY <1>4, <4>2, <5>1
      <4>3. CASE c.target = "group"
        <5>1. at = 1
          BY <1>3, <1>4, <4>3
        <5>2. C[at].cmd \in {"groupadd", "groupmod"}
          BY <1>4, <4>3, <5>1 DEF OfGroups, Command
        <5>3. \A x \in OfUsers(m) : x.cmd \notin {"groupadd", "groupmod"}
          BY DEF OfUsers, Command
        <5>. QED
          BY <5>2, <5>3 DEF OfUser
      <4>. QED
        BY <1>5, <4>1, <4>2, <4>3
    <3>. QED
      BY <1>6, <1>7, <3>1
  <2>. QED
    BY <2>1, <2>2
<1>10. ASSUME NEW j \in 1 .. Len(C), j < at + 1 PROVE Done(k, C[j])
  <2>1. CASE j = at
    BY <1>8, <2>1
  <2>2. CASE j # at
    <3>1. j < at /\ at > 1
      BY <1>3, <1>10, <2>2
    <3>2. c.target = "user"
      BY <1>3, <1>4, <1>5, <3>1
    <3>3. C[j] \in OfUser(m, c.name) /\ C[at] \in OfUser(m, c.name)
      BY <1>3, <1>4, <3>2, ElementOfSeq
    <3>4. ~ (C[j].cmd = "keys" /\ C[at].cmd = "home")
      BY <1>3, <1>4, <3>1, <3>2
    <3>5. Done(host, C[j])
      BY <1>6, <3>1
    <3>. QED
      BY <1>3, <3>3, <3>4, <3>5, DoneStays
  <2>. QED
    BY <2>1, <2>2
<1>11. ASSUME NEW x \in ToSet(todo), x.target = "user", x.action = "update" PROVE k.acct[x.name] # None
  <2>1. IsManifest(m) /\ x \in Due(m)
    <3>1. todo \in Seq(Due(m))
      BY <1>1, <1>2 DEF Shape
    <3>. QED
      BY <1>3, <3>1, ToSetType
  <2>2. x.name \in DOMAIN m.users
    BY <1>11, <2>1 DEF Due
  <2>3. x.name \in Users
    BY <2>1, <2>2, Zenon DEF IsManifest
  <2>. QED
    BY <1>6, <1>8, <1>11, <2>3 DEF Stay
<1>12. desired' = m /\ host' = k /\ todo' = todo /\ at' = at + 1 /\ Commands(desired', Head(todo')) = C
  BY <1>1, <1>2
<1>. QED
  BY <1>6, <1>7, <1>9, <1>10, <1>11, <1>12 DEF Settling

\* A change recorded, what it is about is settled.
LEMMA SettlingRecords ==
  ASSUME Shape, Settling, Record
  PROVE  Settling'
<1>1. /\ pc = "apply" /\ todo # <<>> /\ ~HasCommand /\ todo' = Tail(todo) /\ at' = 1
      /\ UNCHANGED <<host, desired, verb, edits, since, ret>>
  BY DEF Record, Rest, Busy
<1>2. PICK m, c : m = desired /\ c = Head(todo)
  OBVIOUS
<1>3. /\ IsManifest(m) /\ IsHost(host) /\ c \in Due(m) /\ at = Len(Commands(m, c)) + 1
      /\ Len(Commands(m, c)) \in Nat
  BY <1>1, <1>2, NextCommand DEF Shape
<1>4. ToSet(todo) = {c} \union ToSet(todo')
  <2>1. todo \in Seq(Due(desired))
    BY <1>1 DEF Shape
  <2>. QED
    BY <1>1, <1>2, <2>1, TailElements
<1> SUFFICES ASSUME verb = "apply", ret = "ok", edits = since, Static(m) PROVE Settling'
  BY <1>1, <1>2 DEF Settling
<1>5. /\ \A g \in DOMAIN m.groups :
           (\E x \in ToSet(todo) : x.target = "group" /\ x.name = g) \/ GroupSettled(host, m, g)
      /\ \A u \in DOMAIN m.users :
           (\E x \in ToSet(todo) : x.target = "user" /\ x.name = u) \/ UserSettled(host, m, u)
      /\ \A u \in DOMAIN m.authorized \ DOMAIN m.users :
           (\E x \in ToSet(todo) : x.target = "keys" /\ x.name = u) \/ KeysSettled(host, m, u)
      /\ \A x \in ToSet(todo) : x.target = "user" /\ x.action = "update" => host.acct[x.name] # None
      /\ \A j \in 1 .. Len(Commands(m, c)) : j < at => Done(host, Commands(m, c)[j])
  BY <1>1, <1>2 DEF Settling
<1>6. \A x \in ToSet(Commands(m, c)) : Done(host, x)
  <2>1. DOMAIN Commands(m, c) = 1 .. Len(Commands(m, c))
    BY <1>3, HeadKind
  <2>2. \A j \in 1 .. Len(Commands(m, c)) : j < at
    BY <1>3
  <2>. QED
    BY <1>5, <2>1, <2>2 DEF ToSet
<1>7. /\ c.target = "group" => GroupSettled(host, m, c.name)
      /\ c.target = "user"  => UserSettled(host, m, c.name)
      /\ c.target = "keys"  => KeysSettled(host, m, c.name)
  <2>1. c.target = "user" /\ c.action = "update" => host.acct[c.name] # None
    BY <1>4, <1>5
  <2>. QED
    BY <1>3, <1>6, <2>1, Finished
<1>8. \A j \in 1 .. Len(Commands(desired', Head(todo'))) : ~ (j < at')
  <2>1. \A j \in 1 .. Len(Commands(desired', Head(todo'))) : j \in Int /\ j >= 1
    OBVIOUS
  <2>. QED
    BY <1>1, <2>1
<1>9. desired' = m /\ host' = host
  BY <1>1, <1>2
<1>. QED
  BY <1>4, <1>5, <1>7, <1>8, <1>9 DEF Settling

\* Every step keeps that.
LEMMA SettlingStep ==
  ASSUME Shape, Settling, [Next]_vars
  PROVE  Settling'
<1>0. edits \in Nat /\ since \in Nat /\ since <= edits /\ (pc = "idle" => todo = <<>>) /\ (pc = "undo" => verb = "rollback")
  BY DEF Shape
<1>1. CASE Plan \/ PlanMistakes
  BY <1>1, SettlingBegins DEF Plan, PlanMistakes
<1>2. CASE Run
  BY <1>2, SettlingRuns
<1>3. CASE Record
  BY <1>3, SettlingRecords
<1>4. CASE PlanFails
  <2>1. ret' = "error"
    BY <1>4 DEF PlanFails
  <2>. QED
    BY <2>1 DEF Settling
<1>5. CASE Fail
  <2>1. ret' = "failed"
    BY <1>5 DEF Fail
  <2>. QED
    BY <2>1 DEF Settling
<1>6. CASE Finish
  <2>1. UNCHANGED <<host, desired, verb, edits, since, todo, at, ret>>
    BY <1>6 DEF Finish, Rest
  <2>. QED
    BY <2>1 DEF Settling
<1>7. CASE BeginRollback
  <2>1. verb' = "rollback"
    BY <1>7 DEF BeginRollback, Call
  <2>. QED
    BY <2>1 DEF Settling
<1>8. CASE UndoRun \/ UndoFail
  <2>1. verb' = verb /\ pc = "undo"
    BY <1>8 DEF UndoRun, UndoFail, Rest
  <2>. QED
    BY <1>0, <2>1 DEF Settling
<1>9. CASE Restart
  <2>1. verb' = "none"
    BY <1>9 DEF Restart, Start
  <2>. QED
    BY <2>1 DEF Settling
<1>10. CASE \E u \in Users : (\E g \in Groups : PackageAddsUser(u, g)) \/ \E k \in Keys : AddKey(u, k)
  <2>1. edits' = edits + 1 /\ since' = since
    BY <1>10 DEF PackageAddsUser, AddKey, Edited
  <2>2. edits' # since'
    BY <1>0, <2>1
  <2>. QED
    BY <2>2 DEF Settling
<1>11. CASE UNCHANGED vars
  BY <1>11 DEF Settling, vars, process, counts
<1>. QED
  BY <1>1, <1>2, <1>3, <1>4, <1>5, <1>6, <1>7, <1>8, <1>9, <1>10, <1>11 DEF Next

\* Nothing is due where all is settled.
LEMMA NothingDue ==
  ASSUME Shape, Settling, pc = "idle", verb = "apply", ret = "ok", edits = since, Coherent
  PROVE  Changes(host, desired, {}) = <<>>
<1>1. PICK m, h : m = desired /\ h = host
  OBVIOUS
<1>2. IsManifest(m) /\ IsHost(h) /\ todo = <<>>
  BY <1>1, AccountsAssumption DEF Shape
<1>3. \A u \in DOMAIN m.users :
        /\ m.users[u].uid # None /\ h.acct[u] # None => h.acct[u].uid = m.users[u].uid
        /\ m.users[u].groups # {} => m.users[u].gid \in m.users[u].groups
        /\ m.users[u].keys # {} => m.users[u].home # None
        /\ u \in DOMAIN m.authorized =>
             m.users[u].home = DefaultHome /\ m.users[u].keys = m.authorized[u] /\ m.users[u].keys # {}
  BY <1>1 DEF Coherent
<1>4. Static(m)
  BY <1>3 DEF Static
<1>5. ToSet(todo) = {}
  BY <1>2, ToSetEmpty
<1>6. /\ \A g \in DOMAIN m.groups : GroupSettled(h, m, g)
      /\ \A u \in DOMAIN m.users : UserSettled(h, m, u)
      /\ \A u \in DOMAIN m.authorized \ DOMAIN m.users : KeysSettled(h, m, u)
  BY <1>1, <1>4, <1>5 DEF Settling
<1>7. \A g : GroupAction(h, m, g, {}) = "none"
  BY <1>6 DEF GroupAction, GroupDrift, GroupSettled
<1>8. \A u : UserAction(h, m, u, {}) = "none"
  BY <1>3, <1>6 DEF UserAction, userDrift, UserSettled
<1>9. \A u \in DOMAIN m.authorized : m.authorized[u] = h.keys[u][DefaultHome]
  <2> SUFFICES ASSUME NEW u \in DOMAIN m.authorized PROVE m.authorized[u] = h.keys[u][DefaultHome]
    OBVIOUS
  <2>1. CASE u \in DOMAIN m.users
    <3>1. /\ m.users[u].home = DefaultHome /\ m.users[u].keys = m.authorized[u] /\ m.users[u].keys # {}
          /\ DefaultHome # None
      BY <1>3, <2>1, AccountsAssumption
    <3>2. h.acct[u].home = DefaultHome /\ KeysAtHome(h, u) = m.authorized[u]
      BY <1>6, <2>1, <3>1 DEF UserSettled
    <3>. QED
      BY <3>2 DEF KeysAtHome
  <2>2. CASE u \notin DOMAIN m.users
    BY <1>6, <2>2 DEF KeysSettled
  <2>. QED
    BY <2>1, <2>2
<1>10. PICK s : s = Changes(h, m, {})
  OBVIOUS
<1>11. /\ s \in Seq(Due(m))
       /\ \A c \in ToSet(s) :
            /\ c.target = "group" => GroupAction(h, m, c.name, {}) # "none"
            /\ c.target = "user"  => UserAction(h, m, c.name, {}) = c.action
            /\ c.target = "keys"  => m.authorized[c.name] # h.keys[c.name][DefaultHome]
  BY <1>2, <1>10, ChangesType
<1>12. \A c \in ToSet(s) : FALSE
  <2> SUFFICES ASSUME NEW c \in ToSet(s) PROVE FALSE
    OBVIOUS
  <2>1. c \in Due(m)
    BY <1>11, ToSetType
  <2>2. /\ c.target \in {"group", "user", "keys"} /\ (c.target = "user" => c.action \in {"create", "update"})
        /\ c.target = "keys" => c.name \in DOMAIN m.authorized
    BY <2>1 DEF Due
  <2>. QED
    BY <1>7, <1>8, <1>9, <1>11, <2>2
<1>13. s = <<>>
  <2> SUFFICES ASSUME s # <<>> PROVE FALSE
    OBVIOUS
  <2>1. Head(s) \in ToSet(s)
    BY <1>11, TailElements
  <2>. QED
    BY <1>12, <2>1
<1>. QED
  BY <1>1, <1>10, <1>13

\* After an Apply in which every change succeeded, nobody meddling, the next Plan
\* is empty, provided the manifest is coherent.
THEOREM AppliesSettle == Spec => []CoherentApplySettles
<1>1. Init => Settling
  BY DEF Init, Settling
<1>2. Shape /\ Settling /\ [Next]_vars => Settling'
  BY SettlingStep
<1>3. Shape /\ Settling => CoherentApplySettles
  BY NothingDue DEF CoherentApplySettles
<1>. QED
  BY <1>1, <1>2, <1>3, ShapeHolds, PTL DEF Spec

-----------------------------------------------------------------------------
(* A Rollback leaves no new user. *)

\* No user is created twice.
OnceEach(s) ==
  \A i, j \in DOMAIN s :
    i # j => ~ (/\ s[i].target = "user" /\ s[i].action = "create"
                /\ s[j].target = "user" /\ s[j].action = "create" /\ s[i].name = s[j].name)

\* Pairs of commands that a Rollback does not run in this order: a group's before
\* the removal of a user, two removals of one user, the user manager's before the
\* ssh manager's.
Misplaced ==
  {w \in Undoes \X Undoes :
     \/ w[1].cmd \in {"groupdel", "groupmod"} /\ w[2].cmd = "userdel"
     \/ w[1].cmd = "userdel" /\ w[2].cmd = "userdel" /\ w[1].name = w[2].name
     \/ w[1].mgr = "user" /\ w[2].mgr = "ssh"}

\* What undoes changes that are in order is in order.
LEMMA UndoInOrder ==
  ASSUME NEW m, IsManifest(m), NEW cs \in Seq(Due(m)), GroupsFirst(cs), OnceEach(cs), NEW mgr,
         \A c \in ToSet(cs) : ManagerOf(c) = mgr
  PROVE  Apart(Misplaced, UndoOf(cs))
<1> DEFINE n == Len(cs)
           f == [i \in 1 .. n |-> Undo(cs[n + 1 - i])]
<1>1. n \in Nat /\ DOMAIN cs = 1 .. n /\ \A i \in 1 .. n : cs[i] \in Due(m)
  BY LenProperties, ElementOfSeq
<1>2. UndoOf(cs) = FlattenSeq(f)
  BY <1>1 DEF UndoOf
<1>3. \A i \in 1 .. n : n + 1 - i \in 1 .. n
  BY <1>1
<1>4. ASSUME NEW c \in Due(m) PROVE Undo(c) \in Seq(Undoes)
  BY <1>4, UndoType
<1>5. f \in [1 .. n -> Seq(Undoes)]
  BY <1>1, <1>3, <1>4
<1>6. \A i \in 1 .. n : f[i] = Undo(cs[n + 1 - i])
  OBVIOUS
<1>7. \A i, j \in 1 .. n : i < j => n + 1 - j < n + 1 - i
  BY <1>1
<1> HIDE DEF f, n
<1>8. ASSUME NEW i \in 1 .. n PROVE Apart(Misplaced, f[i])
  <2>1. cs[n + 1 - i] \in Due(m) /\ f[i] = Undo(cs[n + 1 - i])
    BY <1>1, <1>3, <1>6
  <2>2. \A p, q \in DOMAIN f[i] : p = q
    BY <2>1, UndoType
  <2>3. f[i] \in Seq(Undoes)
    BY <1>5
  <2>4. \A p \in DOMAIN f[i] : p \in Nat
    BY <2>3, LenProperties
  <2>. QED
    BY <2>2, <2>4 DEF Apart
<1>9. ASSUME NEW i \in 1 .. n, NEW j \in 1 .. n, i < j, NEW x \in ToSet(f[i]), NEW y \in ToSet(f[j])
      PROVE  <<x, y>> \notin Misplaced
  <2>1. PICK p \in 1 .. n, q \in 1 .. n : p = n + 1 - i /\ q = n + 1 - j
    BY <1>3
  <2>2. PICK c \in Due(m), d \in Due(m) : c = cs[p] /\ d = cs[q]
    BY <1>1
  <2>3. x \in ToSet(Undo(c)) /\ y \in ToSet(Undo(d))
    BY <1>6, <2>1, <2>2
  <2>4. /\ x.name = c.name /\ x.mgr = ManagerOf(c)
        /\ (x.cmd = "userdel" <=> (c.target = "user" /\ c.action = "create"))
        /\ (x.cmd \in {"groupdel", "groupmod"} <=> c.target = "group")
    BY <2>3, UndoType
  <2>5. /\ y.name = d.name /\ y.mgr = ManagerOf(d)
        /\ (y.cmd = "userdel" <=> (d.target = "user" /\ d.action = "create"))
        /\ (y.cmd \in {"groupdel", "groupmod"} <=> d.target = "group")
    BY <2>3, UndoType
  <2>6. q < p
    BY <1>7, <1>9, <2>1
  <2>7. ~ (d.target = "user" /\ c.target = "group")
    BY <1>1, <2>2, <2>6 DEF GroupsFirst
  <2>8. ~ (/\ c.target = "user" /\ c.action = "create" /\ d.target = "user" /\ d.action = "create" /\ c.name = d.name)
    <3>1. p # q
      BY <1>1, <2>6
    <3>. QED
      BY <1>1, <2>2, <3>1 DEF OnceEach
  <2>9. ManagerOf(c) = ManagerOf(d)
    BY <1>1, <2>2 DEF ToSet
  <2>. QED
    BY <2>4, <2>5, <2>7, <2>8, <2>9 DEF Misplaced
<1>10. Apart(Misplaced, FlattenSeq(f))
  BY <1>1, <1>5, <1>8, <1>9, ApartFlatten
<1>. QED
  BY <1>2, <1>10

\* The rest of a sequence that is in order is in order, and its head in order with it.
LEMMA TailInOrder ==
  ASSUME NEW S, NEW s \in Seq(S), s # <<>>, NEW R, Apart(R, s)
  PROVE  /\ Apart(R, Tail(s))
         /\ \A x \in ToSet(Tail(s)) : <<Head(s), x>> \notin R
<1>1. /\ Len(s) \in Nat /\ Len(s) > 0 /\ DOMAIN s = 1 .. Len(s) /\ Head(s) = s[1]
      /\ Tail(s) \in Seq(S) /\ Len(Tail(s)) = Len(s) - 1
      /\ \A i \in 1 .. Len(Tail(s)) : Tail(s)[i] = s[i + 1]
  BY HeadTailProperties, LenProperties, EmptySeq
<1>2. PICK n, t : n \in Nat /\ n = Len(s) - 1 /\ t = Tail(s) /\ DOMAIN t = 1 .. n
  <2>1. Len(s) - 1 \in Nat
    BY <1>1
  <2>2. DOMAIN Tail(s) = 1 .. Len(Tail(s))
    BY <1>1, LenProperties
  <2>3. DOMAIN Tail(s) = 1 .. Len(s) - 1
    BY <1>1, <2>2
  <2>. QED
    BY <2>1, <2>3, Zenon
<1>3. \A i \in 1 .. n : t[i] = s[i + 1] /\ i + 1 \in DOMAIN s /\ 1 < i + 1
  BY <1>1, <1>2
<1>4. \A i, j \in 1 .. n : i < j => i + 1 < j + 1
  BY <1>2
<1>5. Apart(R, t)
  BY <1>2, <1>3, <1>4 DEF Apart
<1>6. ASSUME NEW x \in ToSet(t) PROVE <<s[1], x>> \notin R
  <2>1. PICK i \in 1 .. n : x = t[i]
    BY <1>2, <1>6 DEF ToSet
  <2>2. 1 \in DOMAIN s
    BY <1>1
  <2>. QED
    BY <1>3, <2>1, <2>2 DEF Apart
<1>. QED
  BY <1>1, <1>2, <1>5, <1>6

\* No fault and no edit since the process started.
Quiet == faults = born.faults /\ edits = born.edits

\* The user u was not there then, and is now.
New(u) == host.acct[u] # None /\ born.host.acct[u] = None

\* The change c makes the user u.
Creates(c, u) == c.target = "user" /\ c.action = "create" /\ c.name = u

\* A new user is recorded, or the change at hand has made it.
Recording ==
  Quiet =>
    \A u \in Users : New(u) =>
      \/ \E c \in ToSet(applied.user) : Creates(c, u)
      \/ pc = "apply" /\ todo # <<>> /\ at > 1 /\ Creates(Head(todo), u)

\* A command that finds its user, when a user is made, does not fail by itself.
LEMMA CreateGoesOn ==
  ASSUME NEW m, IsManifest(m), NEW c \in Due(m), NEW u, Creates(c, u), NEW C, C = Commands(m, c),
         NEW i \in 2 .. Len(C), NEW h, h.acct[u] # None
  PROVE  Outcomes(h, C[i]) # {}
<1>1. C \in Seq(OfUser(m, u)) /\ Len(C) \in Nat
  BY HeadKind DEF Creates
<1>2. C[i] \in ToSet(C) /\ C[i] \in OfUser(m, u)
  BY <1>1, ElementOfSeq, LenProperties DEF ToSet
<1>3. C[i].name = u
  BY <1>2 DEF OfUser
<1>4. C[i].cmd \in {"keys", "password", "sudo"}
  BY CreateTail DEF Creates
<1>5. CASE C[i].cmd = "keys"
  BY <1>3, <1>5 DEF Outcomes, WriteKeys
<1>6. CASE C[i].cmd = "password"
  BY <1>3, <1>6 DEF Outcomes, UserMod
<1>7. CASE C[i].cmd = "sudo"
  BY <1>3, <1>7 DEF Outcomes, WriteSudo
<1>. QED
  BY <1>4, <1>5, <1>6, <1>7

\* A step that is no fault and no edit was quiet before it.
LEMMA WasQuiet ==
  ASSUME Shape, [Next]_vars, Quiet', ~Restart
  PROVE  /\ Quiet /\ born' = born /\ UNCHANGED <<faults, edits>>
         /\ \A u \in Users, g \in Groups : ~ PackageAddsUser(u, g)
         /\ \A u \in Users, k \in Keys : ~ AddKey(u, k)
         /\ ~ PlanMistakes /\ ~ PlanFails
         /\ Fail \/ UndoFail => host' = host /\ Outcomes(host, Now) = {}
<1>0. faults \in Nat /\ edits \in Nat /\ born.faults \in Nat /\ born.edits \in Nat
      /\ born.faults <= faults /\ born.edits <= edits
  BY DEF Shape
<1>1. faults' = born'.faults /\ edits' = born'.edits
  BY DEF Quiet
<1>2. born' = born
  BY DEF Next, vars, process, counts, Plan, PlanMistakes, PlanFails, BeginApply, Call, Run, Fail, Record, Finish,
         BeginRollback, UndoRun, UndoFail, Rest, PackageAddsUser, AddKey, Edited
<1>3. ASSUME Edited PROVE FALSE
  <2>1. edits' = edits + 1
    BY <1>3 DEF Edited
  <2>. QED
    BY <1>0, <1>1, <1>2, <2>1
<1>4. ASSUME Fault PROVE FALSE
  <2>1. faults' = faults + 1
    BY <1>4 DEF Fault
  <2>. QED
    BY <1>0, <1>1, <1>2, <2>1
<1>5. /\ \A u \in Users, g \in Groups : ~ PackageAddsUser(u, g)
      /\ \A u \in Users, k \in Keys : ~ AddKey(u, k)
      /\ ~ PlanMistakes /\ ~ PlanFails
  BY <1>3, <1>4, Zenon DEF PackageAddsUser, AddKey, PlanMistakes, PlanFails
<1>6. Fail \/ UndoFail => host' = host /\ Outcomes(host, Now) = {} /\ faults' = faults
  BY <1>4 DEF Fail, UndoFail
<1>7. UNCHANGED <<faults, edits>>
  <2>1. CASE Fail \/ UndoFail
    BY <1>6, <2>1 DEF Fail, UndoFail, Rest
  <2>2. CASE ~ Fail /\ ~ UndoFail
    BY <1>5, <2>2 DEF Next, vars, counts, Plan, BeginApply, Call, Run, Record, Finish, BeginRollback, UndoRun, Rest
  <2>. QED
    BY <2>1, <2>2
<1>8. Quiet
  BY <1>1, <1>2, <1>7 DEF Quiet
<1>. QED
  BY <1>2, <1>5, <1>6, <1>7, <1>8

\* What a command of a Rollback that succeeds does to the users.
LEMMA UndoneStep ==
  ASSUME Shape, pc = "undo", todo # <<>>, NEW k \in Outcomes(host, Head(todo))
  PROVE  /\ Head(todo) \in Undoes /\ Tail(todo) \in Seq(Undoes)
         /\ ToSet(todo) = {Head(todo)} \union ToSet(Tail(todo))
         /\ Stay(k, host)
         /\ Head(todo).cmd # "userdel" => Stay(host, k)
         /\ Head(todo).cmd = "userdel" =>
              /\ k.acct[Head(todo).name] = None
              /\ \A u \in Users : u # Head(todo).name => k.acct[u] = host.acct[u]
<1>1. todo \in Seq(Undoes) /\ IsHost(host)
  BY DEF Shape
<1>2. PICK c \in Undoes : c = Head(todo)
  BY <1>1, TailElements
<1>3. k \in Failures(host, c) /\ k \in Outcomes(host, c)
  BY <1>2 DEF Failures
<1>4. /\ Stay(k, host)
      /\ c.cmd # "userdel" => Stay(host, k)
      /\ c.cmd = "userdel" => /\ k = host \/ (host.acct[c.name] # None /\ k.acct[c.name] = None)
                              /\ \A u \in Users : u # c.name => k.acct[u] = host.acct[u]
      /\ c.cmd = "userdel" /\ host.acct[c.name] # None => \A l \in Outcomes(host, c) : l.acct[c.name] = None
  BY <1>1, <1>3, UndoEffect
<1>5. c.cmd = "userdel" => k.acct[c.name] = None
  BY <1>3, <1>4
<1>6. Tail(todo) \in Seq(Undoes) /\ ToSet(todo) = {c} \union ToSet(Tail(todo))
  BY <1>1, <1>2, TailElements
<1>. QED
  BY <1>2, <1>4, <1>5, <1>6

\* Every step keeps the new users on record.
LEMMA RecordingStep ==
  ASSUME Shape, Recording, [Next]_vars
  PROVE  Recording'
<1> SUFFICES ASSUME Quiet', NEW u \in Users, New(u)'
             PROVE  (\/ \E c \in ToSet(applied.user) : Creates(c, u)
                     \/ pc = "apply" /\ todo # <<>> /\ at > 1 /\ Creates(Head(todo), u))'
  BY DEF Recording, Creates
<1>1. CASE Restart
  <2>1. born'.host = host'
    BY <1>1 DEF Restart, Start
  <2>. QED
    BY <2>1 DEF New
<1>2. CASE ~ Restart
  <2>0. /\ Quiet /\ born' = born
        /\ ~ PlanMistakes /\ ~ PlanFails
        /\ \A v \in Users, g \in Groups : ~ PackageAddsUser(v, g)
        /\ \A v \in Users, k \in Keys : ~ AddKey(v, k)
        /\ Fail \/ UndoFail => host' = host /\ Outcomes(host, Now) = {}
    BY <1>2, WasQuiet
  <2>1. host'.acct[u] # None /\ born.host.acct[u] = None
    BY <2>0 DEF New
  <2>2. ASSUME host.acct[u] # None
        PROVE  \/ \E c \in ToSet(applied.user) : Creates(c, u)
               \/ pc = "apply" /\ todo # <<>> /\ at > 1 /\ Creates(Head(todo), u)
    BY <2>0, <2>1, <2>2 DEF Recording, New
  <2>3. at \in Nat /\ IsHost(host) /\ IsManifest(desired) /\ (pc = "idle" => todo = <<>>)
    BY AccountsAssumption DEF Shape
  <2>4. CASE Plan
    <3>1. UNCHANGED <<host, applied>> /\ pc = "idle"
      BY <2>4 DEF Plan, BeginApply, Call
    <3>2. \E c \in ToSet(applied.user) : Creates(c, u)
      BY <2>1, <2>2, <3>1
    <3>. QED
      BY <3>1, <3>2 DEF Creates
  <2>5. CASE Run
    <3>1. /\ pc = "apply" /\ HasCommand /\ todo # <<>> /\ host' \in Outcomes(host, Now) /\ at' = at + 1
          /\ UNCHANGED <<pc, todo, applied, desired>>
      BY <2>5 DEF Run, Rest, HasCommand, Busy
    <3>2. host' \in Failures(host, Now)
      BY <3>1 DEF Failures
    <3>3. /\ Now \in Wanted(desired) /\ Head(todo) \in Due(desired) /\ Now = Commands(desired, Head(todo))[at]
          /\ at \in 1 .. Len(Commands(desired, Head(todo)))
      BY <3>1, NextCommand
    <3>4. /\ Now.cmd # "useradd" => Stay(host', host)
          /\ Now.cmd = "useradd" => OnlyUser(host, host', Now.name)
      BY <2>3, <3>2, <3>3, ApplyStays
    <3>5. CASE host.acct[u] # None
      <4>1. at' > 1
        BY <2>3, <3>1, <3>3
      <4>2. \/ \E c \in ToSet(applied.user) : Creates(c, u)
            \/ Creates(Head(todo), u)
        BY <2>2, <3>5
      <4>. QED
        BY <3>1, <4>1, <4>2 DEF Creates
    <3>6. CASE host.acct[u] = None
      <4>1. Now.cmd = "useradd" /\ Now.name = u
        BY <2>1, <3>4, <3>6 DEF Stay, OnlyUser
      <4>2. Creates(Head(todo), u)
        BY <2>3, <3>3, <4>1, UserAddOf DEF Creates
      <4>3. at' > 1
        BY <2>3, <3>1, <3>3
      <4>. QED
        BY <3>1, <4>2, <4>3 DEF Creates
    <3>. QED
      BY <3>5, <3>6
  <2>6. CASE Fail
    <3>1. /\ pc = "apply" /\ HasCommand /\ todo # <<>> /\ host' = host /\ Outcomes(host, Now) = {} /\ UNCHANGED applied
      BY <2>0, <2>6 DEF Fail, HasCommand, Busy
    <3>2. /\ Head(todo) \in Due(desired) /\ Now = Commands(desired, Head(todo))[at]
          /\ at \in 1 .. Len(Commands(desired, Head(todo)))
      BY <3>1, NextCommand
    <3>3. ASSUME at > 1, Creates(Head(todo), u) PROVE FALSE
      <4>1. at \in 2 .. Len(Commands(desired, Head(todo)))
        BY <2>3, <3>2, <3>3
      <4>2. Outcomes(host, Commands(desired, Head(todo))[at]) # {}
        BY <2>1, <2>3, <3>1, <3>2, <3>3, <4>1, CreateGoesOn
      <4>. QED
        BY <3>1, <3>2, <4>2
    <3>4. \E c \in ToSet(applied.user) : Creates(c, u)
      BY <2>1, <2>2, <3>1, <3>3
    <3>. QED
      BY <3>1, <3>4 DEF Creates
  <2>7. CASE Record
    <3>1. /\ pc = "apply" /\ todo # <<>> /\ UNCHANGED host
          /\ applied' = [applied EXCEPT ![ManagerOf(Head(todo))] = Append(@, Head(todo))]
      BY <2>7 DEF Record, Busy
    <3>2. PICK c : c = Head(todo)
      OBVIOUS
    <3>3. ToSet(applied'.user) = ToSet(applied.user) \union (IF c.target = "keys" THEN {} ELSE {c})
      BY <3>1, <3>2, Recorded
    <3>4. (\E x \in ToSet(applied.user) : Creates(x, u)) \/ Creates(c, u)
      BY <2>1, <2>2, <3>1, <3>2
    <3>5. \E x \in ToSet(applied'.user) : Creates(x, u)
      BY <3>3, <3>4 DEF Creates
    <3>. QED
      BY <3>5 DEF Creates
  <2>8. CASE Finish \/ BeginRollback \/ UndoFail
    <3>1. UNCHANGED <<host, applied>> /\ (pc # "apply" \/ todo = <<>>)
      BY <2>0, <2>8 DEF Finish, BeginRollback, Call, UndoFail
    <3>2. \E c \in ToSet(applied.user) : Creates(c, u)
      BY <2>1, <2>2, <3>1
    <3>. QED
      BY <3>1, <3>2 DEF Creates
  <2>9. CASE UndoRun
    <3>1. pc = "undo" /\ todo # <<>> /\ host' \in Outcomes(host, Head(todo)) /\ UNCHANGED applied
      BY <2>9 DEF UndoRun, Now
    <3>2. Stay(host', host)
      BY <3>1, UndoneStep
    <3>3. \E c \in ToSet(applied.user) : Creates(c, u)
      BY <2>1, <2>2, <3>1, <3>2 DEF Stay
    <3>. QED
      BY <3>1, <3>3 DEF Creates
  <2>10. CASE UNCHANGED vars
    <3>1. UNCHANGED <<host, applied, pc, todo, at>>
      BY <2>10 DEF vars, process
    <3>. QED
      BY <2>1, <2>2, <3>1 DEF Creates
  <2>. QED
    BY <1>2, <2>0, <2>4, <2>5, <2>6, <2>7, <2>8, <2>9, <2>10 DEF Next
<1>. QED
  BY <1>1, <1>2

-----------------------------------------------------------------------------
(* The order of the record. *)

\* Of a sequence in order the tail is.
LEMMA GroupsFirstTail ==
  ASSUME NEW S, NEW s \in Seq(S), s # <<>>, GroupsFirst(s)
  PROVE  /\ GroupsFirst(Tail(s))
         /\ \A x \in ToSet(Tail(s)) : ~ (Head(s).target = "user" /\ x.target = "group")
<1> DEFINE R == {w \in S \X S : w[1].target = "user" /\ w[2].target = "group"}
<1>1. ASSUME NEW t \in Seq(S) PROVE GroupsFirst(t) <=> Apart(R, t)
  <2>1. \A i \in DOMAIN t : t[i] \in S
    BY <1>1, LenProperties, ElementOfSeq
  <2>. QED
    BY <2>1 DEF GroupsFirst, Apart
<1>2. Tail(s) \in Seq(S) /\ Head(s) \in S /\ ToSet(Tail(s)) \subseteq S
  BY TailElements, ToSetType
<1>3. Apart(R, s)
  BY <1>1
<1>4. Apart(R, Tail(s)) /\ \A x \in ToSet(Tail(s)) : <<Head(s), x>> \notin R
  <2> HIDE DEF R
  <2>. QED
    BY <1>3, TailInOrder
<1>. QED
  BY <1>1, <1>2, <1>4

\* One more at the end.
LEMMA OrderAppend ==
  ASSUME NEW S, NEW s \in Seq(S), NEW c \in S
  PROVE  /\ GroupsFirst(s) /\ (\A x \in ToSet(s) : ~ (x.target = "user" /\ c.target = "group"))
            => GroupsFirst(Append(s, c))
         /\ OnceEach(s) /\ (c.target = "user" /\ c.action = "create" => \A x \in ToSet(s) : ~ Creates(x, c.name))
            => OnceEach(Append(s, c))
<1>1. /\ Len(s) \in Nat /\ DOMAIN s = 1 .. Len(s) /\ Append(s, c) \in Seq(S) /\ Len(Append(s, c)) = Len(s) + 1
      /\ \A i \in 1 .. Len(s) : Append(s, c)[i] = s[i]
      /\ Append(s, c)[Len(s) + 1] = c
  BY LenProperties, AppendProperties
<1>2. PICK n, t : n \in Nat /\ n = Len(s) /\ t = Append(s, c) /\ DOMAIN t = 1 .. n + 1
  <2>1. DOMAIN Append(s, c) = 1 .. Len(Append(s, c))
    BY <1>1, LenProperties
  <2>2. DOMAIN Append(s, c) = 1 .. Len(s) + 1
    BY <1>1, <2>1
  <2>. QED
    BY <1>1, <2>2, Zenon
<1>3. /\ \A i \in 1 .. n : t[i] = s[i] /\ s[i] \in ToSet(s)
      /\ t[n + 1] = c /\ DOMAIN s = 1 .. n
      /\ \A i \in 1 .. n + 1 : i \in 1 .. n \/ i = n + 1
  BY <1>1, <1>2 DEF ToSet
<1>4. ASSUME GroupsFirst(s), \A x \in ToSet(s) : ~ (x.target = "user" /\ c.target = "group")
      PROVE  GroupsFirst(t)
  <2> SUFFICES ASSUME NEW i \in 1 .. n + 1, NEW j \in 1 .. n + 1, i < j PROVE ~ (t[i].target = "user" /\ t[j].target = "group")
    BY <1>2 DEF GroupsFirst
  <2>1. i \in 1 .. n
    BY <1>3
  <2>. QED
    BY <1>3, <1>4, <2>1 DEF GroupsFirst
<1>5. ASSUME OnceEach(s), c.target = "user" /\ c.action = "create" => \A x \in ToSet(s) : ~ Creates(x, c.name)
      PROVE  OnceEach(t)
  <2> SUFFICES ASSUME NEW i \in 1 .. n + 1, NEW j \in 1 .. n + 1, i # j
               PROVE  ~ (/\ t[i].target = "user" /\ t[i].action = "create"
                         /\ t[j].target = "user" /\ t[j].action = "create" /\ t[i].name = t[j].name)
    BY <1>2 DEF OnceEach
  <2>1. CASE i \in 1 .. n /\ j \in 1 .. n
    BY <1>3, <1>5, <2>1 DEF OnceEach
  <2>2. CASE i = n + 1
    <3>1. j \in 1 .. n
      BY <1>3, <2>2
    <3>. QED
      BY <1>3, <1>5, <2>2, <3>1 DEF Creates
  <2>3. CASE j = n + 1
    <3>1. i \in 1 .. n
      BY <1>3, <2>3
    <3>. QED
      BY <1>3, <1>5, <2>3, <3>1 DEF Creates
  <2>. QED
    BY <1>3, <2>1, <2>2, <2>3
<1>. QED
  BY <1>2, <1>4, <1>5

\* In the first Apply of a process, the record and what is left to do are in order.
Ordered ==
  /\ verbs = 0 => pc = "idle" /\ ~undone /\ applied.user = <<>>
  /\ verbs <= 1 /\ undone => applied.user = <<>>
  /\ verbs <= 1 => GroupsFirst(applied.user)
  /\ verbs <= 1 /\ pc = "apply" =>
       /\ ~undone /\ GroupsFirst(todo)
       /\ \A c \in ToSet(applied.user), x \in ToSet(todo) : ~ (c.target = "user" /\ x.target = "group")

\* An empty record is in order.
LEMMA EmptyInOrder ==
  ASSUME NEW s, s = <<>>
  PROVE  GroupsFirst(s) /\ OnceEach(s) /\ ToSet(s) = {}
BY ToSetEmpty DEF GroupsFirst, OnceEach

\* A call may be the first.
LEMMA OrderedCall ==
  ASSUME Shape, Ordered, verbs' = verbs + 1, UNCHANGED applied,
         pc' = "apply" => GroupsFirst(todo') /\ undone' = undone
  PROVE  Ordered'
<1>1. verbs \in Nat /\ verbs' # 0 /\ (verbs' <= 1 => verbs = 0)
  BY DEF Shape
<1>2. verbs = 0 => /\ applied'.user = <<>> /\ GroupsFirst(applied'.user) /\ ToSet(applied'.user) = {}
  BY EmptyInOrder DEF Ordered
<1>3. verbs' <= 1 => /\ applied'.user = <<>> /\ GroupsFirst(applied'.user)
                     /\ (pc' = "apply" => GroupsFirst(todo') /\ ~undone')
                     /\ \A c \in ToSet(applied'.user), x \in ToSet(todo') : ~ (c.target = "user" /\ x.target = "group")
  BY <1>1, <1>2 DEF Ordered
<1>. QED
  BY <1>1, <1>3 DEF Ordered

\* One change less is to do.
LEMMA OrderedPop ==
  ASSUME Shape, Ordered, pc = "apply", pc' = "apply", todo # <<>>, todo' = Tail(todo),
         UNCHANGED <<verbs, undone>>,
         \/ applied' = applied
         \/ applied' = [applied EXCEPT ![ManagerOf(Head(todo))] = Append(@, Head(todo))]
  PROVE  Ordered'
<1>0. verbs # 0
  BY DEF Ordered
<1> SUFFICES ASSUME verbs <= 1
             PROVE  /\ undone => applied'.user = <<>>
                    /\ GroupsFirst(applied'.user)
                    /\ GroupsFirst(todo')
                    /\ \A c \in ToSet(applied'.user), x \in ToSet(todo') : ~ (c.target = "user" /\ x.target = "group")
  BY <1>0 DEF Ordered
<1>1. PICK c \in Due(desired) : c = Head(todo)
  BY NextCommand
<1>2. PICK S : S = Due(desired)
  OBVIOUS
<1>3. todo \in Seq(S) /\ applied.user \in Seq(S) /\ c \in S
  BY <1>1, <1>2 DEF Shape
<1>4. /\ GroupsFirst(todo') /\ \A x \in ToSet(todo') : ~ (c.target = "user" /\ x.target = "group")
      /\ ToSet(todo) = {c} \union ToSet(todo')
  BY <1>1, <1>3, GroupsFirstTail, TailElements DEF Ordered
<1>5. /\ GroupsFirst(applied.user)
      /\ \A d \in ToSet(applied.user) : ~ (d.target = "user" /\ c.target = "group")
      /\ \A d \in ToSet(applied.user), x \in ToSet(todo') : ~ (d.target = "user" /\ x.target = "group")
  BY <1>4 DEF Ordered
<1>6. ASSUME applied' = [applied EXCEPT ![ManagerOf(Head(todo))] = Append(@, Head(todo))]
      PROVE  /\ applied'.user = IF c.target = "keys" THEN applied.user ELSE Append(applied.user, c)
             /\ ToSet(applied'.user) = ToSet(applied.user) \union (IF c.target = "keys" THEN {} ELSE {c})
  BY <1>1, <1>6, Recorded
<1>7. GroupsFirst(Append(applied.user, c))
  BY <1>3, <1>5, OrderAppend
<1>8. GroupsFirst(applied'.user) /\ ToSet(applied'.user) \subseteq ToSet(applied.user) \union {c}
  BY <1>5, <1>6, <1>7
<1>9. ~ undone
  BY DEF Ordered
<1>. QED
  BY <1>4, <1>5, <1>8, <1>9
\* Every step keeps the order.
LEMMA OrderedStep ==
  ASSUME Shape, Ordered, [Next]_vars
  PROVE  Ordered'
<1>0. IsHost(host) /\ IsManifest(desired) /\ verbs \in Nat
  BY AccountsAssumption DEF Shape
<1>1. ASSUME NEW missed, BeginApply(missed) PROVE Ordered'
  <2>1. /\ verbs' = verbs + 1 /\ UNCHANGED <<applied, undone>> /\ todo' = Changes(host, desired, missed)
    BY <1>1 DEF BeginApply, Call
  <2>2. GroupsFirst(todo')
    BY <1>0, <2>1, ChangesType
  <2>. QED
    BY <2>1, <2>2, OrderedCall
<1>2. CASE Plan \/ PlanMistakes
  BY <1>1, <1>2 DEF Plan, PlanMistakes
<1>3. CASE PlanFails \/ BeginRollback
  <2>1. /\ verbs' = verbs + 1 /\ applied' = applied /\ pc' # "apply"
    BY <1>3 DEF PlanFails, BeginRollback, Call
  <2>. QED
    BY <2>1, OrderedCall
<1>4. CASE Run
  <2>1. UNCHANGED <<pc, todo, applied, verbs, undone>>
    BY <1>4 DEF Run, Rest
  <2>. QED
    BY <2>1 DEF Ordered
<1>5. CASE Fail
  <2>1. pc = "apply" /\ todo # <<>> /\ todo' = Tail(todo) /\ UNCHANGED <<pc, applied, verbs, undone>>
    BY <1>5 DEF Fail, Rest, HasCommand, Busy
  <2>. QED
    BY <2>1, OrderedPop
<1>6. CASE Record
  <2>1. /\ pc = "apply" /\ todo # <<>> /\ todo' = Tail(todo) /\ UNCHANGED <<pc, verbs, undone>>
        /\ applied' = [applied EXCEPT ![ManagerOf(Head(todo))] = Append(@, Head(todo))]
    BY <1>6 DEF Record, Rest, Busy
  <2>. QED
    BY <2>1, OrderedPop
<1>7. CASE Finish
  <2>1. pc # "idle" /\ pc' = "idle" /\ UNCHANGED <<applied, verbs, undone>>
    BY <1>7 DEF Finish, Rest
  <2>. QED
    BY <2>1 DEF Ordered
<1>8. CASE UndoRun \/ UndoFail
  <2>1. pc = "undo" /\ pc' = "undo" /\ UNCHANGED <<applied, verbs, undone>>
    BY <1>8 DEF UndoRun, UndoFail, Rest
  <2>. QED
    BY <2>1 DEF Ordered
<1>9. CASE Restart
  <2>1. verbs' = 0 /\ pc' = "idle" /\ undone' = FALSE /\ applied' = [user |-> <<>>, ssh |-> <<>>]
    BY <1>9 DEF Restart, Start
  <2>2. applied'.user = <<>>
    BY <2>1
  <2>3. GroupsFirst(applied'.user)
    BY <2>2, EmptyInOrder
  <2>. QED
    BY <2>1, <2>2, <2>3 DEF Ordered
<1>10. CASE \E u \in Users : (\E g \in Groups : PackageAddsUser(u, g)) \/ \E k \in Keys : AddKey(u, k)
  <2>1. UNCHANGED <<pc, todo, applied, verbs, undone>>
    BY <1>10 DEF PackageAddsUser, AddKey, Edited, process
  <2>. QED
    BY <2>1 DEF Ordered
<1>11. CASE UNCHANGED vars
  BY <1>11 DEF Ordered, vars, process
<1>. QED
  BY <1>2, <1>3, <1>4, <1>5, <1>6, <1>7, <1>8, <1>9, <1>10, <1>11 DEF Next

\* No user is recorded as made twice, nor while it is made again.
Distinct ==
  edits = born.edits /\ ~undone =>
    /\ OnceEach(applied.user)
    /\ pc = "apply" /\ todo # <<>> /\ at > 1 /\ Head(todo).target = "user" /\ Head(todo).action = "create" =>
         \A c \in ToSet(applied.user) : ~ Creates(c, Head(todo).name)

\* Every step keeps that: what a record has made is there, and useradd finds it.
LEMMA DistinctStep ==
  ASSUME Shape, Complete, Distinct, [Next]_vars
  PROVE  Distinct'
<1>0. /\ IsHost(host) /\ IsManifest(desired) /\ applied.user \in Seq(Due(desired)) /\ at \in Nat
      /\ edits \in Nat /\ born.edits \in Nat /\ born.edits <= edits /\ undone \in BOOLEAN /\ (pc = "undo" => undone)
  BY AccountsAssumption DEF Shape
<1>1. CASE Plan \/ PlanMistakes \/ Fail
  <2>1. at' = 1 /\ UNCHANGED <<applied, edits, born, undone>>
    BY <1>1 DEF Plan, PlanMistakes, BeginApply, Call, Fail, Rest
  <2>. QED
    BY <2>1 DEF Distinct
<1>2. CASE PlanFails \/ Finish
  <2>1. UNCHANGED <<applied, edits, born, undone>> /\ pc' # "apply"
    BY <1>2 DEF PlanFails, Call, Finish, Rest
  <2>. QED
    BY <2>1 DEF Distinct
<1>3. CASE Run
  <2>1. /\ pc = "apply" /\ HasCommand /\ host' \in Outcomes(host, Now) /\ at' = at + 1
        /\ UNCHANGED <<pc, todo, applied, edits, born, undone>> /\ todo # <<>>
    BY <1>3 DEF Run, Rest, HasCommand, Busy
  <2>2. PICK h : h = Head(todo)
    OBVIOUS
  <2>3. h \in Due(desired) /\ Now = Commands(desired, h)[at] /\ Now \in Wanted(desired)
    BY <2>1, <2>2, NextCommand
  <2>4. ASSUME edits = born.edits, ~undone, h.target = "user", h.action = "create",
               NEW c \in ToSet(applied.user), Creates(c, h.name)
        PROVE  FALSE
    <3>1. at = 1
      <4>1. at <= 1
        BY <1>0, <2>1, <2>2, <2>4 DEF Distinct
      <4>. QED
        BY <4>1 DEF Shape
    <3>2. Commands(desired, h)[1] = Command("useradd", h.name, desired.users[h.name])
      BY <1>0, <2>3, <2>4, FirstCommand
    <3>3. Now.cmd = "useradd" /\ Now.name = h.name
      BY <2>3, <3>1, <3>2 DEF Command
    <3>4. host.acct[h.name] = None
      <4>1. Now \in OfUsers(desired)
        BY <2>3, <3>3 DEF Wanted, OfGroups, OfKeys, Command
      <4>2. KeepsOf(host, host', Now)
        BY <1>0, <2>1, <4>1, UserEffect
      <4>. QED
        BY <3>3, <4>2 DEF KeepsOf
    <3>5. c \in Due(desired) /\ c.target = "user" /\ c.action = "create" /\ c.name = h.name
      BY <1>0, <2>4, ToSetType DEF Creates
    <3>6. /\ Commands(desired, c)[1] = Command("useradd", c.name, desired.users[c.name])
          /\ Len(Commands(desired, c)) \in Nat /\ Len(Commands(desired, c)) >= 1
      BY <1>0, <3>5, FirstCommand
    <3>7. PICK C : C = Commands(desired, c) /\ C \in Seq(Wanted(desired))
      BY <1>0, <3>5, CommandsType
    <3>8. 1 \in DOMAIN C /\ C[1] \in ToSet(C)
      <4>1. DOMAIN C = 1 .. Len(C)
        BY <3>7, LenProperties
      <4>2. 1 \in DOMAIN C
        BY <3>6, <3>7, <4>1
      <4>. QED
        BY <4>2 DEF ToSet
    <3>9. Held(host, C[1])
      BY <2>4, <3>7, <3>8 DEF Complete
    <3>10. C[1].cmd = "useradd" /\ C[1].name = h.name
      BY <3>5, <3>6, <3>7 DEF Command
    <3>. QED
      BY <3>4, <3>9, <3>10 DEF Held
  <2>. QED
    BY <2>1, <2>2, <2>4 DEF Distinct
<1>4. CASE Record
  <2>1. /\ pc = "apply" /\ todo # <<>> /\ ~HasCommand /\ at' = 1 /\ UNCHANGED <<edits, born, undone>>
        /\ applied' = [applied EXCEPT ![ManagerOf(Head(todo))] = Append(@, Head(todo))]
    BY <1>4 DEF Record, Rest, Busy
  <2>2. PICK c \in Due(desired) : c = Head(todo)
    BY <2>1, NextCommand
  <2>3. applied'.user = IF c.target = "keys" THEN applied.user ELSE Append(applied.user, c)
    BY <2>1, <2>2, Recorded
  <2>4. at = Len(Commands(desired, c)) + 1 /\ Len(Commands(desired, c)) \in Nat
    BY <2>1, <2>2, NextCommand
  <2>5. ASSUME edits = born.edits, ~undone PROVE OnceEach(applied'.user)
    <3>1. OnceEach(applied.user)
      BY <2>5 DEF Distinct
    <3>2. ASSUME c.target = "user", c.action = "create" PROVE \A x \in ToSet(applied.user) : ~ Creates(x, c.name)
      <4>1. Len(Commands(desired, c)) >= 1
        BY <1>0, <3>2, FirstCommand
      <4>2. at > 1
        BY <2>4, <4>1
      <4>. QED
        BY <2>1, <2>2, <2>5, <3>2, <4>2 DEF Distinct
    <3>3. PICK S : S = Due(desired)
      OBVIOUS
    <3>4. applied.user \in Seq(S) /\ c \in S
      BY <1>0, <3>3
    <3>5. OnceEach(Append(applied.user, c))
      BY <3>1, <3>2, <3>4, OrderAppend
    <3>. QED
      BY <2>3, <3>1, <3>5
  <2>. QED
    BY <2>1, <2>5 DEF Distinct
<1>5. CASE BeginRollback
  <2>1. undone' = TRUE
    BY <1>5 DEF BeginRollback
  <2>. QED
    BY <2>1 DEF Distinct
<1>6. CASE UndoRun \/ UndoFail
  <2>1. undone' = undone /\ pc = "undo"
    BY <1>6 DEF UndoRun, UndoFail, Rest
  <2>. QED
    BY <1>0, <2>1 DEF Distinct
<1>7. CASE Restart
  <2>1. applied' = [user |-> <<>>, ssh |-> <<>>] /\ pc' = "idle"
    BY <1>7 DEF Restart, Start
  <2>2. applied'.user = <<>>
    BY <2>1
  <2>3. OnceEach(applied'.user)
    BY <2>2, EmptyInOrder
  <2>. QED
    BY <2>1, <2>3 DEF Distinct
<1>8. CASE \E u \in Users : (\E g \in Groups : PackageAddsUser(u, g)) \/ \E k \in Keys : AddKey(u, k)
  <2>1. edits' = edits + 1 /\ born' = born
    BY <1>8 DEF PackageAddsUser, AddKey, Edited
  <2>2. edits' # born'.edits
    BY <1>0, <2>1
  <2>. QED
    BY <2>2 DEF Distinct
<1>9. CASE UNCHANGED vars
  BY <1>9 DEF Distinct, vars, process, counts
<1>. QED
  BY <1>1, <1>2, <1>3, <1>4, <1>5, <1>6, <1>7, <1>8, <1>9 DEF Next

\* A Rollback has a removal in store for every new user, as long as nothing has
\* failed; where it is the second call, its commands are in order, and none of them
\* removes a user who is not there.
Undoing ==
  verb = "rollback" /\ Quiet =>
    /\ ret = "ok" \/ verbs = 2 =>
         \A u \in Users : New(u) => \E x \in ToSet(todo) : x.cmd = "userdel" /\ x.name = u
    /\ verbs = 2 /\ pc = "undo" =>
         /\ Apart(Misplaced, todo) /\ Apart(Misplaced, UndoOf(applied.user))
         /\ \A x \in ToSet(todo) : x.cmd = "userdel" => host.acct[x.name] # None
         /\ (\E x \in ToSet(todo) : x.mgr = "ssh") =>
              \A c \in ToSet(applied.user) :
                c.target = "user" /\ c.action = "create" => host.acct[c.name] # None

\* A recorded user has a removal in what undoes the record.
LEMMA RecordUndone ==
  ASSUME Shape
  PROVE  /\ UndoOf(applied.user) \in Seq(Undoes) /\ UndoOf(applied.ssh) \in Seq(Undoes)
         /\ \A u, c : c \in ToSet(applied.user) /\ Creates(c, u) =>
              \E x \in ToSet(UndoOf(applied.user)) : x.cmd = "userdel" /\ x.name = u
         /\ \A x \in ToSet(UndoOf(applied.user)) :
              /\ x.mgr = "user"
              /\ x.cmd = "userdel" => \E c \in ToSet(applied.user) : Creates(c, x.name)
         /\ \A x \in ToSet(UndoOf(applied.ssh)) : x.mgr = "ssh" /\ x.cmd = "keys"
<1>1. /\ IsManifest(desired) /\ applied.user \in Seq(Due(desired)) /\ applied.ssh \in Seq(Due(desired))
      /\ \A c \in ToSet(applied.user) : c.target # "keys"
      /\ \A c \in ToSet(applied.ssh) : c.target = "keys"
  BY AccountsAssumption DEF Shape
<1>2. /\ UndoOf(applied.user) \in Seq(Undoes)
      /\ \A x \in ToSet(UndoOf(applied.user)) : \E c \in ToSet(applied.user) : x \in ToSet(Undo(c))
      /\ \A c \in ToSet(applied.user) : ToSet(Undo(c)) \subseteq ToSet(UndoOf(applied.user))
  BY <1>1, UndoOfType
<1>3. /\ UndoOf(applied.ssh) \in Seq(Undoes)
      /\ \A x \in ToSet(UndoOf(applied.ssh)) : \E c \in ToSet(applied.ssh) : x \in ToSet(Undo(c))
  BY <1>1, UndoOfType
<1>4. ASSUME NEW u, NEW c \in ToSet(applied.user), Creates(c, u)
      PROVE  \E x \in ToSet(UndoOf(applied.user)) : x.cmd = "userdel" /\ x.name = u
  <2>1. c \in Due(desired) /\ c.target = "user" /\ c.action = "create" /\ c.name = u
    BY <1>1, <1>4, ToSetType DEF Creates
  <2>2. \E x \in ToSet(Undo(c)) : x.name = c.name /\ x.cmd = "userdel"
    BY <1>1, <2>1, UndoType
  <2>. QED
    BY <1>2, <1>4, <2>1, <2>2
<1>5. ASSUME NEW x \in ToSet(UndoOf(applied.user))
      PROVE  /\ x.mgr = "user"
             /\ x.cmd = "userdel" => \E c \in ToSet(applied.user) : Creates(c, x.name)
  <2>1. PICK c \in ToSet(applied.user) : x \in ToSet(Undo(c))
    BY <1>2, <1>5
  <2>2. c \in Due(desired)
    BY <1>1, <2>1, ToSetType
  <2>3. x.name = c.name /\ x.mgr = ManagerOf(c) /\ (x.cmd = "userdel" <=> (c.target = "user" /\ c.action = "create"))
    BY <1>1, <2>1, <2>2, UndoType
  <2>4. x.mgr = "user"
    BY <1>1, <2>1, <2>3 DEF ManagerOf
  <2>5. ASSUME x.cmd = "userdel" PROVE Creates(c, x.name)
    BY <2>3, <2>5 DEF Creates
  <2>. QED
    BY <2>1, <2>4, <2>5
<1>6. ASSUME NEW x \in ToSet(UndoOf(applied.ssh)) PROVE x.mgr = "ssh" /\ x.cmd = "keys"
  <2>1. PICK c \in ToSet(applied.ssh) : x \in ToSet(Undo(c))
    BY <1>3, <1>6
  <2>2. c \in Due(desired) /\ c.target = "keys"
    BY <1>1, <2>1, ToSetType
  <2>3. x.mgr = ManagerOf(c) /\ (x.cmd = "userdel" <=> (c.target = "user" /\ c.action = "create"))
        /\ (x.cmd \in {"groupdel", "groupmod"} <=> c.target = "group")
    BY <1>1, <2>1, <2>2, UndoType
  <2>4. x \in Undoes
    <3>1. Undo(c) \in Seq(Undoes)
      BY <1>1, <2>2, UndoType
    <3>. QED
      BY <2>1, <3>1, ToSetType
  <2>5. x.mgr = "ssh" => x.cmd = "keys"
    BY <2>4 DEF Undoes
  <2>. QED
    BY <2>2, <2>3, <2>5 DEF ManagerOf
<1>. QED
  BY <1>2, <1>3, <1>4, <1>5, <1>6

\* A Rollback begins with a removal for every new user, in order.
LEMMA UndoingBegins ==
  ASSUME Shape, Complete, Recording, Ordered, Distinct, BeginRollback, Quiet, UNCHANGED <<born, faults, edits>>
  PROVE  Undoing'
<1>1. /\ pc = "idle" /\ verbs' = verbs + 1 /\ UNCHANGED <<host, applied>>
      /\ todo' = UndoOf(applied.ssh) \o UndoOf(applied.user)
  BY DEF BeginRollback, Call
<1>2. PICK a, b : a = UndoOf(applied.ssh) /\ b = UndoOf(applied.user)
  OBVIOUS
<1>3. /\ b \in Seq(Undoes) /\ a \in Seq(Undoes)
      /\ \A u, c : c \in ToSet(applied.user) /\ Creates(c, u) => \E x \in ToSet(b) : x.cmd = "userdel" /\ x.name = u
      /\ \A x \in ToSet(b) : /\ x.mgr = "user"
                             /\ x.cmd = "userdel" => \E c \in ToSet(applied.user) : Creates(c, x.name)
      /\ \A x \in ToSet(a) : x.mgr = "ssh" /\ x.cmd = "keys"
  BY <1>2, RecordUndone
<1>4. todo' = a \o b /\ ToSet(a \o b) = ToSet(a) \union ToSet(b)
  BY <1>1, <1>2, <1>3, ToSetConcat
<1>5. ASSUME NEW u \in Users, New(u) PROVE \E x \in ToSet(a \o b) : x.cmd = "userdel" /\ x.name = u
  <2>1. \E c \in ToSet(applied.user) : Creates(c, u)
    BY <1>1, <1>5 DEF Recording
  <2>. QED
    BY <1>3, <1>4, <2>1
<1>6. ASSUME verbs' = 2
      PROVE  /\ Apart(Misplaced, a \o b) /\ Apart(Misplaced, b)
             /\ \A c \in ToSet(applied.user) : c.target = "user" /\ c.action = "create" => host.acct[c.name] # None
  <2>0. IsManifest(desired) /\ applied.user \in Seq(Due(desired)) /\ applied.ssh \in Seq(Due(desired))
    BY AccountsAssumption DEF Shape
  <2>1. verbs = 1
    BY <1>1, <1>6 DEF Shape
  <2>2. GroupsFirst(applied.user) /\ (undone => applied.user = <<>>)
    BY <2>1 DEF Ordered
  <2>3. OnceEach(applied.user)
    <3>1. CASE undone
      BY <2>2, <3>1, EmptyInOrder
    <3>2. CASE ~undone
      BY <3>2 DEF Distinct, Quiet
    <3>. QED
      BY <3>1, <3>2
  <2>4. ASSUME NEW c \in ToSet(applied.user), c.target = "user", c.action = "create" PROVE host.acct[c.name] # None
    <3>1. ~undone
      BY <2>2, <2>4, EmptyInOrder
    <3>2. c \in Due(desired)
      BY <2>0, <2>4, ToSetType
    <3>3. Commands(desired, c) = createUser(c.name, desired.users[c.name]) /\ c.name \in DOMAIN desired.users
      BY <2>0, <2>4, <3>2, FirstCommand
    <3>4. PICK y : y = Command("useradd", c.name, desired.users[c.name])
      OBVIOUS
    <3>5. y \in ToSet(Commands(desired, c))
      BY <2>0, <3>3, <3>4, CreateCommands
    <3>6. Held(host, y)
      BY <2>4, <3>1, <3>5 DEF Complete, Quiet
    <3>7. y.cmd = "useradd" /\ y.name = c.name
      BY <3>4 DEF Command
    <3>. QED
      BY <3>6, <3>7 DEF Held
  <2>5. Apart(Misplaced, b)
    <3>1. \A c \in ToSet(applied.user) : ManagerOf(c) = "user"
      BY DEF Shape, ManagerOf
    <3>. QED
      BY <1>2, <2>0, <2>2, <2>3, <3>1, UndoInOrder
  <2>6. Apart(Misplaced, a)
    <3>1. ASSUME NEW i \in DOMAIN a, NEW j \in DOMAIN a PROVE <<a[i], a[j]>> \notin Misplaced
      <4>1. a[i] \in ToSet(a) /\ a[j] \in ToSet(a)
        BY DEF ToSet
      <4>2. a[i].mgr = "ssh" /\ a[i].cmd = "keys" /\ a[j].cmd = "keys"
        BY <1>3, <4>1
      <4>. QED
        BY <4>2 DEF Misplaced
    <3>. QED
      BY <3>1 DEF Apart
  <2>7. \A x \in ToSet(a), y \in ToSet(b) : <<x, y>> \notin Misplaced
    BY <1>3 DEF Misplaced
  <2>8. Apart(Misplaced, a \o b)
    <3>1. PICK R : R = Misplaced
      OBVIOUS
    <3>. QED
      BY <1>3, <2>5, <2>6, <2>7, <3>1, ApartConcat
  <2>. QED
    BY <2>4, <2>5, <2>8
<1>7. verbs' = 2 => \A x \in ToSet(a \o b) : x.cmd = "userdel" => host.acct[x.name] # None
  <2> SUFFICES ASSUME verbs' = 2, NEW x \in ToSet(a \o b), x.cmd = "userdel" PROVE host.acct[x.name] # None
    OBVIOUS
  <2>1. x \in ToSet(b)
    BY <1>3, <1>4
  <2>2. PICK c \in ToSet(applied.user) : Creates(c, x.name)
    BY <1>3, <2>1
  <2>. QED
    BY <1>6, <2>2 DEF Creates
<1>. QED
  BY <1>1, <1>2, <1>4, <1>5, <1>6, <1>7 DEF Undoing, New
\* A command that succeeds keeps a removal in store for every other new user.
LEMMA UndoingRuns ==
  ASSUME Shape, Undoing, UndoRun, Quiet, UNCHANGED <<born, faults, edits>>
  PROVE  Undoing'
<1>1. /\ pc = "undo" /\ todo # <<>> /\ host' \in Outcomes(host, Head(todo)) /\ todo' = Tail(todo)
      /\ UNCHANGED <<pc, applied, ret, verb, verbs>>
  BY DEF UndoRun, Now, Rest
<1>2. PICK c \in Undoes : c = Head(todo)
  BY <1>1, UndoneStep
<1>3. /\ ToSet(todo) = {c} \union ToSet(todo')
      /\ Stay(host', host) /\ (c.cmd # "userdel" => Stay(host, host'))
      /\ c.cmd = "userdel" => /\ host'.acct[c.name] = None
                              /\ \A u \in Users : u # c.name => host'.acct[u] = host.acct[u]
  BY <1>1, <1>2, UndoneStep
<1>4. todo \in Seq(Undoes) /\ verb = "rollback" /\ todo' \in Seq(Undoes)
  BY <1>1, UndoneStep DEF Shape
<1>5. ASSUME ret = "ok" \/ verbs = 2, NEW u \in Users, host'.acct[u] # None /\ born.host.acct[u] = None
      PROVE  \E x \in ToSet(todo') : x.cmd = "userdel" /\ x.name = u
  <2>1. New(u)
    BY <1>3, <1>5 DEF New, Stay
  <2>2. PICK x \in ToSet(todo) : x.cmd = "userdel" /\ x.name = u
    BY <1>4, <1>5, <2>1 DEF Undoing
  <2>3. x # c
    BY <1>3, <1>5, <2>2
  <2>. QED
    BY <1>3, <2>2, <2>3
<1>6. ASSUME verbs = 2
      PROVE  /\ Apart(Misplaced, todo') /\ Apart(Misplaced, UndoOf(applied.user))
             /\ \A x \in ToSet(todo') : x.cmd = "userdel" => host'.acct[x.name] # None
             /\ (\E x \in ToSet(todo') : x.mgr = "ssh") =>
                  \A d \in ToSet(applied.user) :
                    d.target = "user" /\ d.action = "create" => host'.acct[d.name] # None
  <2>1. /\ Apart(Misplaced, todo) /\ Apart(Misplaced, UndoOf(applied.user))
        /\ \A x \in ToSet(todo) : x.cmd = "userdel" => host.acct[x.name] # None
        /\ (\E x \in ToSet(todo) : x.mgr = "ssh") =>
              \A d \in ToSet(applied.user) :
                d.target = "user" /\ d.action = "create" => host.acct[d.name] # None
    BY <1>1, <1>4, <1>6 DEF Undoing
  <2>2. PICK R : R = Misplaced
    OBVIOUS
  <2>3. Apart(R, todo') /\ \A x \in ToSet(todo') : <<c, x>> \notin R
    BY <1>1, <1>2, <1>4, <2>1, <2>2, TailInOrder
  <2>4. ASSUME NEW x \in ToSet(todo')
        PROVE  /\ x \in Undoes
               /\ ~ (c.cmd = "userdel" /\ x.cmd = "userdel" /\ c.name = x.name)
               /\ ~ (c.mgr = "user" /\ x.mgr = "ssh")
    <3>1. x \in Undoes
      BY <1>4, <2>4, ToSetType
    <3>. QED
      BY <2>2, <2>3, <2>4, <3>1 DEF Misplaced
  <2>5. \A x \in Undoes : (x.cmd = "userdel" => x.mgr = "user" /\ x.name \in Users) /\ x.mgr \in {"user", "ssh"}
    BY DEF Undoes
  <2>6. ASSUME NEW x \in ToSet(todo'), x.cmd = "userdel" PROVE host'.acct[x.name] # None
    <3>1. host.acct[x.name] # None /\ x.name \in Users
      BY <1>3, <2>1, <2>4, <2>5, <2>6
    <3>2. CASE c.cmd = "userdel"
      BY <1>3, <2>4, <2>6, <3>1, <3>2
    <3>3. CASE c.cmd # "userdel"
      BY <1>3, <3>1, <3>3 DEF Stay
    <3>. QED
      BY <3>2, <3>3
  <2>7. ASSUME NEW x \in ToSet(todo'), x.mgr = "ssh", NEW d \in ToSet(applied.user),
               d.target = "user", d.action = "create"
        PROVE  host'.acct[d.name] # None
    <3>1. host.acct[d.name] # None
      BY <1>3, <2>1, <2>7
    <3>2. c.cmd # "userdel"
      BY <2>4, <2>5, <2>7
    <3>3. d.name \in Users
      <4>1. applied.user \in Seq(Due(desired)) /\ IsManifest(desired)
        BY AccountsAssumption DEF Shape
      <4>2. d \in Due(desired)
        BY <2>7, <4>1, ToSetType
      <4>3. d.name \in DOMAIN desired.users
        BY <2>7, <4>1, <4>2, FirstCommand
      <4>. QED
        BY <4>1, <4>3, SpecFields
    <3>. QED
      BY <1>3, <3>1, <3>2, <3>3 DEF Stay
  <2>. QED
    BY <2>1, <2>2, <2>3, <2>6, <2>7
<1>. QED
  BY <1>1, <1>5, <1>6 DEF Undoing, New

\* A removal that finds its user, if not its primary group in use, succeeds.
LEMMA RemovalGoes ==
  ASSUME NEW h, NEW c, c.cmd = "userdel", h.acct[c.name] # None
  PROVE  Outcomes(h, c) # {}
BY DEF Outcomes, UserDel

\* A command that fails by itself leaves no new user without a removal.
LEMMA UndoingFails ==
  ASSUME Shape, Recording, Undoing, UndoFail, Quiet, UNCHANGED <<born, faults, edits>>,
         host' = host, Outcomes(host, Now) = {}
  PROVE  Undoing'
<1>1. /\ pc = "undo" /\ todo # <<>> /\ Now = Head(todo) /\ ret' = "error"
      /\ todo' = IF Head(todo).mgr = "ssh" THEN UndoOf(applied.user) ELSE <<>>
      /\ UNCHANGED <<pc, applied, verb, verbs>>
  BY DEF UndoFail, Now, Rest
<1>2. todo \in Seq(Undoes) /\ verb = "rollback"
  BY <1>1 DEF Shape
<1>3. PICK c \in Undoes : c = Head(todo)
  BY <1>1, <1>2, TailElements
<1>4. ToSet(todo) = {c} \union ToSet(Tail(todo))
  BY <1>1, <1>2, <1>3, TailElements
<1> SUFFICES ASSUME verbs = 2
             PROVE  /\ \A u \in Users : New(u) => \E x \in ToSet(todo') : x.cmd = "userdel" /\ x.name = u
                    /\ Apart(Misplaced, todo') /\ Apart(Misplaced, UndoOf(applied.user))
                    /\ \A x \in ToSet(todo') : x.cmd = "userdel" => host.acct[x.name] # None
                    /\ (\E x \in ToSet(todo') : x.mgr = "ssh") =>
                         \A d \in ToSet(applied.user) :
                           d.target = "user" /\ d.action = "create" => host.acct[d.name] # None
  BY <1>1 DEF Undoing, New
<1>5. /\ \A u \in Users : New(u) => \E x \in ToSet(todo) : x.cmd = "userdel" /\ x.name = u
      /\ Apart(Misplaced, todo) /\ Apart(Misplaced, UndoOf(applied.user))
      /\ \A x \in ToSet(todo) : x.cmd = "userdel" => host.acct[x.name] # None
      /\ (\E x \in ToSet(todo) : x.mgr = "ssh") =>
            \A d \in ToSet(applied.user) :
              d.target = "user" /\ d.action = "create" => host.acct[d.name] # None
  BY <1>1, <1>2 DEF Undoing
<1>6. CASE c.mgr = "ssh"
  <2>1. todo' = UndoOf(applied.user)
    BY <1>1, <1>3, <1>6
  <2>2. PICK b : b = UndoOf(applied.user)
    OBVIOUS
  <2>3. /\ \A u, d : d \in ToSet(applied.user) /\ Creates(d, u) => \E x \in ToSet(b) : x.cmd = "userdel" /\ x.name = u
        /\ \A x \in ToSet(b) : /\ x.mgr = "user"
                               /\ x.cmd = "userdel" => \E d \in ToSet(applied.user) : Creates(d, x.name)
    BY <2>2, RecordUndone
  <2>4. \A d \in ToSet(applied.user) : d.target = "user" /\ d.action = "create" => host.acct[d.name] # None
    BY <1>4, <1>5, <1>6
  <2>5. \A u \in Users : New(u) => \E d \in ToSet(applied.user) : Creates(d, u)
    BY <1>1 DEF Recording
  <2>6. \A x \in ToSet(b) : x.cmd = "userdel" => host.acct[x.name] # None
    BY <2>3, <2>4 DEF Creates
  <2>7. \A u \in Users : New(u) => \E x \in ToSet(b) : x.cmd = "userdel" /\ x.name = u
    BY <2>3, <2>5
  <2>8. \A x \in ToSet(b) : x.mgr # "ssh"
    BY <2>3
  <2>. QED
    BY <1>5, <2>1, <2>2, <2>6, <2>7, <2>8
<1>7. CASE c.mgr # "ssh"
  <2>1. todo' = <<>> /\ ToSet(todo') = {}
    BY <1>1, <1>3, <1>7, EmptyInOrder
  <2>2. c.cmd # "userdel"
    BY <1>1, <1>3, <1>4, <1>5, RemovalGoes
  <2>3. c.cmd \in {"groupdel", "groupmod"}
    BY <1>7, <2>2 DEF Undoes
  <2>4. ASSUME NEW x \in ToSet(todo), x.cmd = "userdel" PROVE FALSE
    <3>1. x \in ToSet(Tail(todo))
      BY <1>4, <2>2, <2>4
    <3>2. PICK R : R = Misplaced
      OBVIOUS
    <3>3. <<c, x>> \notin R
      BY <1>1, <1>2, <1>3, <1>5, <3>1, <3>2, TailInOrder
    <3>4. x \in Undoes
      BY <1>2, <2>4, ToSetType
    <3>. QED
      BY <2>3, <2>4, <3>2, <3>3, <3>4 DEF Misplaced
  <2>5. Apart(Misplaced, todo')
    BY <2>1 DEF Apart
  <2>. QED
    BY <1>5, <2>1, <2>4, <2>5
<1>. QED
  BY <1>6, <1>7

\* Every step keeps a removal in store for every new user.
LEMMA UndoingStep ==
  ASSUME Shape, Complete, Recording, Ordered, Distinct, Undoing, [Next]_vars
  PROVE  Undoing'
<1>1. CASE Restart
  <2>1. verb' = "none"
    BY <1>1 DEF Restart, Start
  <2>. QED
    BY <2>1 DEF Undoing
<1>2. CASE ~ Quiet'
  BY <1>2 DEF Undoing
<1>3. CASE ~ Restart /\ Quiet'
  <2>0. /\ Quiet /\ UNCHANGED <<born, faults, edits>>
        /\ ~ PlanMistakes /\ ~ PlanFails
        /\ \A v \in Users, g \in Groups : ~ PackageAddsUser(v, g)
        /\ \A v \in Users, k \in Keys : ~ AddKey(v, k)
        /\ Fail \/ UndoFail => host' = host /\ Outcomes(host, Now) = {}
    BY <1>3, WasQuiet
  <2>1. CASE Plan
    <3>1. verb' = "apply"
      BY <2>1 DEF Plan, BeginApply, Call
    <3>. QED
      BY <3>1 DEF Undoing
  <2>2. CASE Run \/ Fail \/ Record
    <3>1. verb' = verb /\ pc = "apply"
      BY <2>2 DEF Run, Fail, Record, Rest
    <3>2. verb = "apply"
      BY <3>1 DEF Shape
    <3>. QED
      BY <3>1, <3>2 DEF Undoing
  <2>3. CASE Finish
    <3>1. pc' = "idle" /\ UNCHANGED <<host, todo, ret, verb, verbs, born, faults, edits>>
      BY <2>0, <2>3 DEF Finish, Rest
    <3>. QED
      BY <3>1 DEF Undoing, Quiet, New
  <2>4. CASE BeginRollback
    BY <2>0, <2>4, UndoingBegins
  <2>5. CASE UndoRun
    BY <2>0, <2>5, UndoingRuns
  <2>6. CASE UndoFail
    BY <2>0, <2>6, UndoingFails
  <2>7. CASE UNCHANGED vars
    BY <2>7 DEF Undoing, Quiet, New, vars, process, counts
  <2>. QED
    BY <1>3, <2>0, <2>1, <2>2, <2>3, <2>4, <2>5, <2>6, <2>7 DEF Next
<1>. QED
  BY <1>1, <1>2, <1>3

\* After a Rollback, without a failure or an edit in this process, no user is left
\* who was not there when it started, provided it undoes a single Apply or returns
\* no error.
THEOREM NewUsersGo == Spec => []NewUsersRemoved
<1> DEFINE Inv == Complete /\ Recording /\ Ordered /\ Distinct /\ Undoing
<1>1. Init => Inv
  <2> SUFFICES ASSUME Init PROVE Inv
    OBVIOUS
  <2>1. /\ pc = "idle" /\ applied = [user |-> <<>>, ssh |-> <<>>] /\ applied.user = <<>> /\ verb = "none"
        /\ born.host = host /\ undone = FALSE
    BY DEF Init
  <2>2. ToSet(applied.user) = {} /\ GroupsFirst(applied.user) /\ OnceEach(applied.user)
    BY <2>1, EmptyInOrder
  <2>3. Recording
    BY <2>1 DEF Recording, New
  <2>. QED
    BY <2>1, <2>2, <2>3 DEF Complete, Ordered, Distinct, Undoing
<1>2. Shape /\ Inv /\ [Next]_vars => Inv'
  BY CompleteStep, RecordingStep, OrderedStep, DistinctStep, UndoingStep
<1>3. Shape /\ Inv => NewUsersRemoved
  <2> SUFFICES ASSUME Shape, Undoing, pc = "idle", verb = "rollback", verbs = 2 \/ ret = "ok", Quiet,
                      NEW u \in Users, New(u)
               PROVE  FALSE
    BY DEF NewUsersRemoved, Quiet, New
  <2>1. todo = <<>> /\ ToSet(todo) = {}
    BY EmptyInOrder DEF Shape
  <2>. QED
    BY <2>1 DEF Undoing
<1>. QED
  BY <1>1, <1>2, <1>3, ShapeHolds, PTL DEF Spec
=============================================================================
