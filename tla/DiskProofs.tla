----------------------------- MODULE DiskProofs -----------------------------
(***************************************************************************)
(* What holds of the disk manager on any number of disks and for any       *)
(* layouts: what a process found is kept, data is not destroyed, Rollback  *)
(* takes back all that Apply made, and an Apply that nothing disturbs      *)
(* brings a feasible layout about, wherever an earlier one was stopped.    *)
(***************************************************************************)
EXTENDS Disk, SequenceTheorems, WellFoundedInduction, FiniteSetTheorems, TLAPS

-----------------------------------------------------------------------------
(* Sequences. *)

\* Every set of naturals that is not empty has a first element.
LEMMA LeastNat ==
  ASSUME NEW S, S \subseteq Nat, S # {}
  PROVE  \E n \in S : \A m \in S : n <= m
<1>1. PICK n \in S : \A m \in S : <<m, n>> \notin OpToRel(<, Nat)
  BY NatLessThanWellFounded, WFMin
<1>2. \A m \in S : ~ (m < n)
  BY <1>1, Zenon DEF OpToRel
<1>3. \A m \in S : n <= m
  BY <1>2
<1>. QED
  BY <1>3, Zenon

\* The elements of a sequence over S are in S (o.applied, r.Applied).
LEMMA ToSetType ==
  ASSUME NEW S, NEW s \in Seq(S)
  PROVE  ToSet(s) \subseteq S
BY RangeOfSeq DEF ToSet, Range

\* Concatenating two sequences puts their elements together.
LEMMA ToSetConcat ==
  ASSUME NEW S, NEW s \in Seq(S), NEW t \in Seq(S)
  PROVE  ToSet(s \o t) = ToSet(s) \union ToSet(t)
<1>1. Range(s \o t) = Range(s) \union Range(t)
  BY RangeConcatenation
<1>. QED
  BY <1>1, Zenon DEF ToSet, Range

\* Appending c adds c to the elements.
LEMMA ToSetAppend ==
  ASSUME NEW S, NEW s \in Seq(S), NEW c \in S
  PROVE  ToSet(Append(s, c)) = ToSet(s) \union {c}
<1>1. Append(s, c) = s \o <<c>>
  BY AppendIsConcat
<1>2. <<c>> \in Seq(S) /\ ToSet(<<c>>) = {c}
  <2>1. <<c>> \in Seq(S) /\ DOMAIN <<c>> = {1} /\ <<c>>[1] = c
    OBVIOUS
  <2>. QED
    BY <2>1, Zenon DEF ToSet
<1>3. ToSet(s \o <<c>>) = ToSet(s) \union ToSet(<<c>>)
  BY <1>2, ToSetConcat
<1>4. ToSet(s \o <<c>>) = ToSet(s) \union {c}
  BY <1>2, <1>3, Zenon
<1>. QED
  BY <1>1, <1>4, Zenon

\* The empty sequence has no elements.
LEMMA ToSetEmpty == ToSet(<<>>) = {}
BY DEF ToSet

\* f is the sequence of what the first 1, 2, ... n parts of s are put together.
Sums(s, n, f) == f = [i \in 1 .. n |-> IF i = 1 THEN s[i] ELSE f[i - 1] \o s[i]]

\* There is such an f for every n.
LEMMA SumsExist ==
  ASSUME NEW s, NEW n \in Nat
  PROVE  \E f : Sums(s, n, f)
<1> DEFINE Bad == {k \in Nat : ~ \E f : Sums(s, k, f)}
<1> SUFFICES ASSUME Bad # {} PROVE FALSE
  OBVIOUS
<1>1. PICK k \in Bad : \A m \in Bad : k <= m
  BY LeastNat
<1>2. k # 0
  <2>1. Sums(s, 0, <<>>)
    BY DEF Sums
  <2>. QED
    BY <2>1, <1>1
<1>3. k - 1 \in Nat /\ k - 1 \notin Bad
  BY <1>1, <1>2
<1>4. PICK f : Sums(s, k - 1, f)
  BY <1>3
<1> DEFINE g == [i \in 1 .. k |-> IF i = k THEN IF k = 1 THEN s[1] ELSE f[k - 1] \o s[k] ELSE f[i]]
<1>5. \A i \in 1 .. k : g[i] = IF i = 1 THEN s[i] ELSE g[i - 1] \o s[i]
  <2> SUFFICES ASSUME NEW i \in 1 .. k
               PROVE  g[i] = IF i = 1 THEN s[i] ELSE g[i - 1] \o s[i]
    OBVIOUS
  <2>1. CASE i = 1 /\ k = 1
    BY <2>1
  <2>2. CASE i = k /\ k # 1
    <3>1. i - 1 \in 1 .. k /\ i - 1 # k
      BY <2>2
    <3>. QED
      BY <2>2, <3>1
  <2>3. CASE i # k
    <3>1. i \in 1 .. k - 1
      BY <2>3
    <3>2. f[i] = IF i = 1 THEN s[i] ELSE f[i - 1] \o s[i]
      BY <1>4, <3>1 DEF Sums
    <3>3. i # 1 => i - 1 \in 1 .. k /\ i - 1 # k
      BY <3>1
    <3>. QED
      BY <2>3, <3>2, <3>3
  <2>. QED
    BY <2>1, <2>2, <2>3
<1>6. Sums(s, k, g)
  <2>1. g = [i \in 1 .. k |-> g[i]]
    OBVIOUS
  <2>. QED
    BY <2>1, <1>5, Zenon DEF Sums
<1>. QED
  BY <1>1, <1>6

\* FlattenSeq gives what all of the parts are put together.
LEMMA FlattenIsLast ==
  ASSUME NEW s, Len(s) \in Nat, Len(s) # 0
  PROVE  \E f : Sums(s, Len(s), f) /\ FlattenSeq(s) = f[Len(s)]
<1> DEFINE f == CHOOSE f : Sums(s, Len(s), f)
<1>1. Sums(s, Len(s), f)
  BY SumsExist
<1>2. FlattenSeq(s) = f[Len(s)]
  BY Zenon DEF FlattenSeq, Sums
<1>. QED
  BY <1>1, <1>2

\* A sequence of sequences over S, put together, is a sequence over S, and its
\* elements are those of the parts.
LEMMA FlattenElements ==
  ASSUME NEW S, NEW s \in Seq(Seq(S))
  PROVE  /\ FlattenSeq(s) \in Seq(S)
         /\ ToSet(FlattenSeq(s)) = UNION {ToSet(s[i]) : i \in DOMAIN s}
<1>0. Len(s) \in Nat /\ DOMAIN s = 1 .. Len(s) /\ \A i \in 1 .. Len(s) : s[i] \in Seq(S)
  BY LenProperties
<1>1. CASE Len(s) = 0
  <2>1. FlattenSeq(s) = s /\ s = <<>>
    BY <1>0, <1>1, EmptySeq, SeqEqual DEF FlattenSeq
  <2>2. ToSet(s) = {} /\ DOMAIN s = {} /\ s \in Seq(S)
    BY <2>1, EmptySeq, ToSetEmpty
  <2>. QED
    BY <2>1, <2>2
<1>2. CASE Len(s) # 0
  <2>1. PICK f : Sums(s, Len(s), f) /\ FlattenSeq(s) = f[Len(s)]
    BY <1>0, <1>2, FlattenIsLast
  <2>2. \A i \in 1 .. Len(s) : f[i] = IF i = 1 THEN s[i] ELSE f[i - 1] \o s[i]
    BY <2>1 DEF Sums
  <2> DEFINE Good(i) == f[i] \in Seq(S) /\ ToSet(f[i]) = UNION {ToSet(s[j]) : j \in 1 .. i}
             Bad == {i \in 1 .. Len(s) : ~Good(i)}
  <2>3. Good(1)
    <3>1. f[1] = s[1] /\ s[1] \in Seq(S) /\ 1 .. 1 = {1}
      BY <1>0, <1>2, <2>2
    <3>. QED
      BY <3>1, Zenon
  <2>4. ASSUME NEW i \in 1 .. Len(s), i # 1, Good(i - 1) PROVE Good(i)
    <3>1. f[i] = f[i - 1] \o s[i] /\ f[i - 1] \in Seq(S) /\ s[i] \in Seq(S)
      BY <1>0, <2>2, <2>4
    <3>2. f[i] \in Seq(S) /\ ToSet(f[i]) = ToSet(f[i - 1]) \union ToSet(s[i])
      BY <3>1, ConcatProperties, ToSetConcat
    <3>3. 1 .. i = (1 .. i - 1) \union {i}
      BY <1>0
    <3>4. UNION {ToSet(s[j]) : j \in 1 .. i}
            = (UNION {ToSet(s[j]) : j \in 1 .. i - 1}) \union ToSet(s[i])
      BY <3>3
    <3>. QED
      BY <2>4, <3>2, <3>4
  <2>5. \A i \in 1 .. Len(s) : Good(i)
    <3> HIDE DEF Good
    <3> SUFFICES ASSUME Bad # {} PROVE FALSE
      OBVIOUS
    <3>1. PICK i \in Bad : \A m \in Bad : i <= m
      <4>1. Bad \subseteq Nat
        BY <1>0
      <4>. QED
        BY <4>1, LeastNat, Zenon
    <3>2. i \in 1 .. Len(s) /\ ~Good(i) /\ i # 1
      BY <2>3
    <3>3. i - 1 \in 1 .. Len(s) /\ i - 1 < i
      BY <1>0, <3>2
    <3>4. i - 1 \notin Bad
      BY <1>0, <3>1, <3>3
    <3>5. Good(i - 1)
      BY <3>3, <3>4
    <3>. QED
      BY <2>4, <3>2, <3>5
  <2>6. Len(s) \in 1 .. Len(s)
    BY <1>0, <1>2
  <2>. QED
    BY <1>0, <2>1, <2>5, <2>6
<1>. QED
  BY <1>1, <1>2

\* The same for a function that gives a sequence for each of 1 .. n: every
\* element of the whole comes from one of them, and all of theirs are in it.
LEMMA FlattenFunction ==
  ASSUME NEW S, NEW n \in Nat, NEW f \in [1 .. n -> Seq(S)]
  PROVE  /\ FlattenSeq(f) \in Seq(S)
         /\ \A x \in ToSet(FlattenSeq(f)) : \E i \in 1 .. n : x \in ToSet(f[i])
         /\ \A i \in 1 .. n : ToSet(f[i]) \subseteq ToSet(FlattenSeq(f))
<1>1. f \in Seq(Seq(S)) /\ DOMAIN f = 1 .. n
  BY SeqDef
<1>2. FlattenSeq(f) \in Seq(S) /\ ToSet(FlattenSeq(f)) = UNION {ToSet(f[i]) : i \in DOMAIN f}
  BY <1>1, FlattenElements, Zenon
<1>. QED
  BY <1>1, <1>2, Zenon

\* What holds at 0 and goes on holding from one to the next holds up to n.
LEMMA CountsUp ==
  ASSUME NEW n \in Nat, NEW Good, 0 \in Good,
         \A i \in 1 .. n : i - 1 \in Good => i \in Good
  PROVE  \A i \in 0 .. n : i \in Good
<1> DEFINE Bad == {i \in 0 .. n : i \notin Good}
<1> SUFFICES ASSUME Bad # {} PROVE FALSE
  OBVIOUS
<1>1. PICK i \in Bad : \A m \in Bad : i <= m
  <2>1. Bad \subseteq Nat
    OBVIOUS
  <2>. QED
    BY <2>1, LeastNat, Zenon
<1>2. i \in 1 .. n /\ i - 1 \in 0 .. n /\ i - 1 < i
  BY <1>1
<1>3. i - 1 \in Good
  BY <1>1, <1>2
<1>. QED
  BY <1>1, <1>2, <1>3

\* g is what the first 0, 1, ... n parts of f are put together.
Steps(S, n, f, g) ==
  /\ \A i \in 0 .. n : g[i] \in Seq(S)
  /\ g[0] = <<>> /\ g[n] = FlattenSeq(f)
  /\ \A i \in 1 .. n : g[i] = g[i - 1] \o f[i]

\* FlattenSeq puts the parts together one by one.
LEMMA FlattenBySteps ==
  ASSUME NEW S, NEW n \in Nat, NEW f \in [1 .. n -> Seq(S)]
  PROVE  \E g : Steps(S, n, f, g)
<1>1. /\ f \in Seq(Seq(S)) /\ DOMAIN f = 1 .. n /\ Len(f) = n
      /\ \A i \in 1 .. n : f[i] \in Seq(S)
  BY SeqDef, LenProperties
<1>2. <<>> \in Seq(S)
  BY EmptySeq
<1>3. CASE n = 0
  <2>1. FlattenSeq(f) = f /\ f = <<>>
    BY <1>1, <1>3, EmptySeq, SeqEqual DEF FlattenSeq
  <2> DEFINE g == [i \in 0 .. n |-> <<>>]
  <2>2. \A i \in 0 .. n : g[i] \in Seq(S)
    BY <1>2
  <2>3. 0 \in 0 .. n /\ n \in 0 .. n
    OBVIOUS
  <2>4. g[0] = <<>> /\ g[n] = <<>>
    BY <2>3
  <2>5. \A i \in 1 .. n : g[i] = g[i - 1] \o f[i]
    BY <1>3
  <2> HIDE DEF g
  <2>. QED
    BY <2>1, <2>2, <2>4, <2>5, Zenon DEF Steps
<1>4. CASE n # 0
  <2>1. PICK h : Sums(f, n, h) /\ FlattenSeq(f) = h[n]
    BY <1>1, <1>4, FlattenIsLast
  <2>2. \A i \in 1 .. n : h[i] = IF i = 1 THEN f[i] ELSE h[i - 1] \o f[i]
    BY <2>1 DEF Sums
  <2> DEFINE g == [i \in 0 .. n |-> IF i = 0 THEN <<>> ELSE h[i]]
  <2>3. g[0] = <<>> /\ g[n] = FlattenSeq(f)
    BY <1>4, <2>1
  <2>4. ASSUME NEW i \in 1 .. n PROVE g[i] = g[i - 1] \o f[i]
    <3>1. g[i] = h[i]
      OBVIOUS
    <3>2. CASE i = 1
      <4>1. g[i - 1] = <<>> /\ h[i] = f[i]
        BY <2>2, <3>2
      <4>2. <<>> \o f[i] = f[i]
        BY <1>1, ConcatEmptySeq
      <4>. QED
        BY <3>1, <4>1, <4>2
    <3>3. CASE i # 1
      <4>1. i - 1 \in 0 .. n /\ i - 1 # 0
        BY <3>3
      <4>2. g[i - 1] = h[i - 1]
        BY <4>1, Zenon
      <4>3. h[i] = h[i - 1] \o f[i]
        BY <2>2, <3>3, Zenon
      <4>. QED
        BY <3>1, <4>2, <4>3, Zenon
    <3>. QED
      BY <3>2, <3>3
  <2> HIDE DEF g
  <2>5. \A i \in 0 .. n : g[i] \in Seq(S)
    <3> DEFINE Good == {i \in 0 .. n : g[i] \in Seq(S)}
    <3>1. 0 \in Good
      <4>1. 0 \in 0 .. n
        OBVIOUS
      <4>. QED
        BY <1>2, <2>3, <4>1, Zenon
    <3>2. ASSUME NEW i \in 1 .. n, i - 1 \in Good PROVE i \in Good
      <4>1. g[i - 1] \in Seq(S) /\ f[i] \in Seq(S) /\ i \in 0 .. n
        BY <1>1, <3>2
      <4>2. g[i - 1] \o f[i] \in Seq(S)
        BY <4>1, ConcatProperties, Zenon
      <4>. QED
        BY <2>4, <4>1, <4>2, Zenon
    <3>. QED
      BY <3>1, <3>2, CountsUp
  <2>. QED
    BY <2>3, <2>4, <2>5, Zenon DEF Steps
<1>. QED
  BY <1>3, <1>4

\* Every element comes after those that R puts before it, but for those in G.
Founded(R, G, s) ==
  \A i \in DOMAIN s : \A x : <<x, s[i]>> \in R => x \in G \/ \E j \in 1 .. i - 1 : s[j] = x

\* No element comes before one that R puts before it.
Apart(R, s) == \A i, j \in DOMAIN s : i < j => <<s[i], s[j]>> \notin R

\* What stands where in two sequences put together.
LEMMA ConcatElements ==
  ASSUME NEW S, NEW s \in Seq(S), NEW t \in Seq(S)
  PROVE  /\ Len(s) \in Nat /\ Len(t) \in Nat
         /\ DOMAIN s = 1 .. Len(s) /\ DOMAIN t = 1 .. Len(t)
         /\ DOMAIN (s \o t) = 1 .. Len(s) + Len(t)
         /\ \A i \in 1 .. Len(s) : (s \o t)[i] = s[i]
         /\ \A i \in 1 .. Len(s) + Len(t) : i \notin 1 .. Len(s) =>
              i - Len(s) \in 1 .. Len(t) /\ (s \o t)[i] = t[i - Len(s)]
<1>1. Len(s) \in Nat /\ Len(t) \in Nat /\ DOMAIN s = 1 .. Len(s) /\ DOMAIN t = 1 .. Len(t)
  BY LenProperties
<1>2. /\ s \o t \in Seq(S) /\ Len(s \o t) = Len(s) + Len(t)
      /\ \A i \in 1 .. Len(s) + Len(t) : (s \o t)[i] = IF i <= Len(s) THEN s[i] ELSE t[i - Len(s)]
  BY ConcatProperties
<1>3. DOMAIN (s \o t) = 1 .. Len(s) + Len(t)
  BY <1>2, LenProperties
<1>4. \A i \in 1 .. Len(s) : (s \o t)[i] = s[i]
  BY <1>1, <1>2
<1>5. \A i \in 1 .. Len(s) + Len(t) : i \notin 1 .. Len(s) =>
        i - Len(s) \in 1 .. Len(t) /\ (s \o t)[i] = t[i - Len(s)]
  BY <1>1, <1>2
<1>. QED
  BY <1>1, <1>3, <1>4, <1>5

\* The second part may build on the first.
LEMMA FoundedConcat ==
  ASSUME NEW S, NEW s \in Seq(S), NEW t \in Seq(S), NEW R, NEW G,
         Founded(R, G, s), Founded(R, G \union ToSet(s), t)
  PROVE  Founded(R, G, s \o t)
<1> DEFINE u == s \o t
<1>0. PICK a \in Nat, b \in Nat : a = Len(s) /\ b = Len(t)
  BY LenProperties
<1>1. /\ DOMAIN s = 1 .. a /\ DOMAIN t = 1 .. b /\ DOMAIN u = 1 .. a + b
      /\ \A i \in 1 .. a : u[i] = s[i]
      /\ \A i \in 1 .. a + b : i \notin 1 .. a => i - a \in 1 .. b /\ u[i] = t[i - a]
  BY <1>0, ConcatElements
<1> HIDE DEF u
<1> SUFFICES ASSUME NEW i \in 1 .. a + b, NEW x, <<x, u[i]>> \in R, x \notin G
             PROVE  \E j \in 1 .. i - 1 : u[j] = x
  BY <1>1 DEF Founded, u
<1>2. CASE i \in 1 .. a
  <2>1. PICK j \in 1 .. i - 1 : s[j] = x
    BY <1>1, <1>2 DEF Founded
  <2>. QED
    BY <1>1, <1>2, <2>1
<1>3. CASE i \notin 1 .. a
  <2>1. i - a \in 1 .. b /\ u[i] = t[i - a]
    BY <1>1, <1>3
  <2>2. x \in ToSet(s) \/ \E j \in 1 .. i - a - 1 : t[j] = x
    BY <1>1, <2>1 DEF Founded
  <2>3. CASE x \in ToSet(s)
    <3>1. PICK j \in 1 .. a : s[j] = x
      BY <1>1, <2>3 DEF ToSet
    <3>. QED
      BY <1>1, <2>1, <3>1
  <2>4. ASSUME NEW j \in 1 .. i - a - 1, t[j] = x PROVE \E k \in 1 .. i - 1 : u[k] = x
    <3>1. j + a \in 1 .. i - 1 /\ j + a \in 1 .. a + b /\ j + a \notin 1 .. a /\ j + a - a = j
      BY <2>1
    <3>2. u[j + a] = t[j]
      BY <1>1, <3>1
    <3>. QED
      BY <2>4, <3>1, <3>2
  <2>. QED
    BY <2>2, <2>3, <2>4
<1>. QED
  BY <1>2, <1>3

\* Parts that need nothing of each other, one after the other.
LEMMA FoundedFlatten ==
  ASSUME NEW S, NEW n \in Nat, NEW f \in [1 .. n -> Seq(S)], NEW R, NEW G,
         \A i \in 1 .. n : Founded(R, G, f[i])
  PROVE  Founded(R, G, FlattenSeq(f))
<1>0. PICK g : Steps(S, n, f, g)
  BY FlattenBySteps, Zenon
<1>1. /\ \A i \in 0 .. n : g[i] \in Seq(S)
      /\ g[0] = <<>> /\ g[n] = FlattenSeq(f)
      /\ \A i \in 1 .. n : g[i] = g[i - 1] \o f[i]
  BY <1>0, Zenon DEF Steps
<1> DEFINE Good == {i \in 0 .. n : Founded(R, G, g[i])}
<1>2. 0 \in Good
  BY <1>1 DEF Founded
<1>3. ASSUME NEW i \in 1 .. n, i - 1 \in Good PROVE i \in Good
  <2>1. g[i - 1] \in Seq(S) /\ f[i] \in Seq(S) /\ Founded(R, G, g[i - 1])
    BY <1>1, <1>3
  <2>2. Founded(R, G \union ToSet(g[i - 1]), f[i])
    BY DEF Founded
  <2>3. Founded(R, G, g[i - 1] \o f[i])
    BY <2>1, <2>2, FoundedConcat
  <2>4. g[i] = g[i - 1] \o f[i] /\ i \in 0 .. n
    BY <1>1
  <2>. QED
    BY <2>3, <2>4, Zenon
<1>4. n \in 0 .. n
  OBVIOUS
<1>5. n \in Good
  <2> HIDE DEF Good
  <2>. QED
    BY <1>2, <1>3, <1>4, CountsUp, Zenon
<1>. QED
  BY <1>1, <1>5, Zenon

\* Nothing of the second part is to come before anything of the first.
LEMMA ApartConcat ==
  ASSUME NEW S, NEW s \in Seq(S), NEW t \in Seq(S), NEW R, Apart(R, s), Apart(R, t),
         \A x \in ToSet(s), y \in ToSet(t) : <<x, y>> \notin R
  PROVE  Apart(R, s \o t)
<1> DEFINE u == s \o t
<1>0. PICK a \in Nat, b \in Nat : a = Len(s) /\ b = Len(t)
  BY LenProperties
<1>1. /\ DOMAIN s = 1 .. a /\ DOMAIN t = 1 .. b /\ DOMAIN u = 1 .. a + b
      /\ \A i \in 1 .. a : u[i] = s[i]
      /\ \A i \in 1 .. a + b : i \notin 1 .. a => i - a \in 1 .. b /\ u[i] = t[i - a]
  BY <1>0, ConcatElements
<1> HIDE DEF u
<1> SUFFICES ASSUME NEW i \in 1 .. a + b, NEW j \in 1 .. a + b, i < j PROVE <<u[i], u[j]>> \notin R
  BY <1>1 DEF Apart, u
<1>2. CASE j \in 1 .. a
  BY <1>1, <1>2 DEF Apart
<1>3. CASE i \in 1 .. a /\ j \notin 1 .. a
  <2>1. u[i] \in ToSet(s) /\ u[j] \in ToSet(t)
    BY <1>1, <1>3 DEF ToSet
  <2>. QED
    BY <2>1
<1>4. CASE i \notin 1 .. a /\ j \notin 1 .. a
  <2>1. i - a \in 1 .. b /\ j - a \in 1 .. b /\ i - a < j - a /\ u[i] = t[i - a] /\ u[j] = t[j - a]
    BY <1>1, <1>4
  <2>. QED
    BY <1>1, <2>1 DEF Apart
<1>. QED
  BY <1>2, <1>3, <1>4

\* The same for any number of parts.
LEMMA ApartFlatten ==
  ASSUME NEW S, NEW n \in Nat, NEW f \in [1 .. n -> Seq(S)], NEW R,
         \A i \in 1 .. n : Apart(R, f[i]),
         \A i, j \in 1 .. n : i < j =>
           \A x \in ToSet(f[i]), y \in ToSet(f[j]) : <<x, y>> \notin R
  PROVE  Apart(R, FlattenSeq(f))
<1>0. PICK g : Steps(S, n, f, g)
  BY FlattenBySteps, Zenon
<1>1. /\ \A i \in 0 .. n : g[i] \in Seq(S)
      /\ g[0] = <<>> /\ g[n] = FlattenSeq(f)
      /\ \A i \in 1 .. n : g[i] = g[i - 1] \o f[i]
  BY <1>0, Zenon DEF Steps
<1> DEFINE Good == {i \in 0 .. n : /\ Apart(R, g[i])
                                   /\ \A x \in ToSet(g[i]) : \E j \in 1 .. i : x \in ToSet(f[j])}
<1>2. 0 \in Good
  <2>1. 0 \in 0 .. n /\ Apart(R, <<>>)
    BY DEF Apart
  <2>. QED
    BY <1>1, <2>1, ToSetEmpty, Zenon
<1>3. ASSUME NEW i \in 1 .. n, i - 1 \in Good PROVE i \in Good
  <2>1. /\ g[i - 1] \in Seq(S) /\ f[i] \in Seq(S) /\ Apart(R, g[i - 1])
        /\ \A x \in ToSet(g[i - 1]) : \E j \in 1 .. i - 1 : x \in ToSet(f[j])
    BY <1>1, <1>3
  <2>2. ASSUME NEW x \in ToSet(g[i - 1]), NEW y \in ToSet(f[i]) PROVE <<x, y>> \notin R
    <3>1. PICK j \in 1 .. i - 1 : x \in ToSet(f[j])
      BY <2>1
    <3>2. j \in 1 .. n /\ j < i
      OBVIOUS
    <3>. QED
      BY <3>1, <3>2, Zenon
  <2>3. Apart(R, g[i - 1] \o f[i]) /\ ToSet(g[i - 1] \o f[i]) = ToSet(g[i - 1]) \union ToSet(f[i])
    BY <2>1, <2>2, ApartConcat, ToSetConcat
  <2>4. i \in 0 .. n /\ i \in 1 .. i /\ 1 .. i - 1 \subseteq 1 .. i
    OBVIOUS
  <2>5. \A x \in ToSet(g[i]) : \E j \in 1 .. i : x \in ToSet(f[j])
    BY <1>1, <2>1, <2>3, <2>4, Zenon
  <2>. QED
    BY <1>1, <2>3, <2>4, <2>5, Zenon
<1>4. n \in 0 .. n
  OBVIOUS
<1>5. n \in Good
  <2> HIDE DEF Good
  <2>. QED
    BY <1>2, <1>3, <1>4, CountsUp, Zenon
<1>. QED
  BY <1>1, <1>5, Zenon

-----------------------------------------------------------------------------
(* What PlanLayout plans. *)

\* The k-th device of a set that has so many is one of the set.
LEMMA SmallestType ==
  ASSUME NEW S, S \subseteq Dev, NEW k \in Nat \ {0}, k <= Cardinality(S)
  PROVE  Smallest(S, k) \in S
<1> DEFINE UpTo(n) == {e \in S : e <= n}
           Enough == {n \in Nat : k <= Cardinality(UpTo(n))}
<1>0. \A e \in S : e \in Nat /\ 1 <= e /\ e <= D
  BY DiskAssumption DEF Dev
<1>1. D \in Nat /\ IsFiniteSet(S)
  <2>1. IsFiniteSet(Dev)
    BY FS_Interval, DiskAssumption DEF Dev
  <2>. QED
    BY <2>1, FS_Subset, DiskAssumption
<1>2. \A n \in Nat : IsFiniteSet(UpTo(n)) /\ Cardinality(UpTo(n)) \in Nat
  <2>1. \A n \in Nat : UpTo(n) \in SUBSET S
    OBVIOUS
  <2>2. \A n \in Nat : IsFiniteSet(UpTo(n))
    BY <1>1, <2>1, FS_Subset
  <2>. QED
    BY <2>2, FS_CardinalityType
<1>3. D \in Enough
  <2>1. UpTo(D) = S
    BY <1>0
  <2>. QED
    BY <1>1, <2>1
<1>4. PICK n \in Enough : \A m \in Enough : n <= m
  BY <1>3, LeastNat
<1>5. n # 0
  <2>1. UpTo(0) = {}
    BY <1>0
  <2>2. Cardinality(UpTo(0)) = 0
    BY <2>1, FS_EmptySet
  <2>. QED
    BY <2>2
<1>6. n - 1 \in Nat /\ ~ (k <= Cardinality(UpTo(n - 1)))
  BY <1>4, <1>5
<1>7. UpTo(n) = IF n \in S THEN UpTo(n - 1) \union {n} ELSE UpTo(n - 1)
  <2>1. \A e \in S : e <= n <=> e <= n - 1 \/ e = n
    BY <1>0, <1>6
  <2>. QED
    BY <2>1
<1>8. Cardinality(UpTo(n - 1) \union {n}) = Cardinality(UpTo(n - 1)) + 1
  <2>1. n \notin UpTo(n - 1)
    BY <1>5
  <2>. QED
    BY <1>2, <1>6, <2>1, FS_AddElement
<1>9. n \in S /\ Cardinality(UpTo(n)) = k
  BY <1>2, <1>4, <1>6, <1>7, <1>8
<1>. QED
  BY <1>9 DEF Smallest

\* What PlanLayout may ask for, given what it saw.
Asked(see, c) ==
  /\ c.op = "pvcreate" => c.on \notin see.pvs /\ (c.on \in Named \/ c.on \in see.raw)
  /\ c.op = "vgcreate" => /\ c.on[1] \notin see.vgs
                          /\ \E i \in DOMAIN layout : c.on = <<layout[i].vg, DeviceOf(see, i)>>
  /\ c.op = "lvcreate" => c.on \notin see.lvs
  /\ c.op = "mkfs" => see.fs[c.on] # WantFS[c.on] /\ ~Refused(see, c.on)
  /\ c.op = "fstab" => c.on \notin see.fstab
  /\ c.op = "mount" => c.on \notin see.mounted

\* A change that is planned under a condition only.
LEMMA OnlyElements ==
  ASSUME NEW S, NEW c \in S, NEW p \in BOOLEAN
  PROVE  /\ Only(p, c) \in Seq(S)
         /\ \A x \in ToSet(Only(p, c)) : x = c /\ p
<1>1. <<>> \in Seq(S) /\ <<c>> \in Seq(S)
  BY EmptySeq
<1>2. ToSet(<<>>) = {} /\ ToSet(<<c>>) = {c}
  BY ToSetEmpty DEF ToSet
<1>. QED
  BY <1>1, <1>2 DEF Only

\* The changes planned for one volume.
LEMMA VolumeElements ==
  ASSUME NEW see, NEW l \in LV, ~Refused(see, l)
  PROVE  /\ PlanVolume(see, l) \in Seq(Change)
         /\ \A c \in ToSet(PlanVolume(see, l)) : Asked(see, c)
<1> DEFINE a == Only(l \notin see.lvs, [op |-> "lvcreate", on |-> l])
           b == Only(see.fs[l] # WantFS[l], [op |-> "mkfs", on |-> l])
           f == Only(l \notin see.fstab, [op |-> "fstab", on |-> l])
           m == Only(l \notin see.mounted, [op |-> "mount", on |-> l])
           Fine(s) == s \in Seq(Change) /\ \A c \in ToSet(s) : Asked(see, c)
<1>1. /\ [op |-> "lvcreate", on |-> l] \in Change /\ [op |-> "mkfs", on |-> l] \in Change
      /\ [op |-> "fstab", on |-> l] \in Change /\ [op |-> "mount", on |-> l] \in Change
  BY DEF Change
<1>2. Fine(a)
  <2>1. a \in Seq(Change) /\ \A x \in ToSet(a) : x = [op |-> "lvcreate", on |-> l] /\ l \notin see.lvs
    BY <1>1, OnlyElements
  <2>. QED
    BY <2>1 DEF Asked
<1>3. Fine(b)
  <2>1. b \in Seq(Change) /\ \A x \in ToSet(b) : x = [op |-> "mkfs", on |-> l] /\ see.fs[l] # WantFS[l]
    BY <1>1, OnlyElements
  <2>. QED
    BY <2>1 DEF Asked
<1>4. Fine(f)
  <2>1. f \in Seq(Change) /\ \A x \in ToSet(f) : x = [op |-> "fstab", on |-> l] /\ l \notin see.fstab
    BY <1>1, OnlyElements
  <2>. QED
    BY <2>1 DEF Asked
<1>5. Fine(m)
  <2>1. m \in Seq(Change) /\ \A x \in ToSet(m) : x = [op |-> "mount", on |-> l] /\ l \notin see.mounted
    BY <1>1, OnlyElements
  <2>. QED
    BY <2>1 DEF Asked
<1>6. ASSUME NEW s, NEW t, Fine(s), Fine(t) PROVE Fine(s \o t)
  BY <1>6, ConcatProperties, ToSetConcat
<1>7. PlanVolume(see, l) = a \o b \o f \o m
  BY Zenon DEF PlanVolume
<1> HIDE DEF a, b, f, m, Fine
<1>8. Fine(a \o b \o f \o m)
  BY <1>2, <1>3, <1>4, <1>5, <1>6
<1>. QED
  BY <1>7, <1>8 DEF Fine

\* An entry of a layout.
Entries == [dev : Dev \union {Tagged}, vg : VG, lvs : Seq(LV)]

\* The layout is a sequence of entries.
LEMMA LayoutType ==
  ASSUME layout \in Layouts
  PROVE  /\ Len(layout) \in Nat /\ DOMAIN layout = 1 .. Len(layout)
         /\ \A i \in DOMAIN layout :
              /\ layout[i].dev \in Dev \union {Tagged} /\ layout[i].vg \in VG
              /\ layout[i].lvs \in Seq(LV)
<1>1. layout \in Seq(Entries)
  BY DiskAssumption DEF Entries
<1>2. /\ Len(layout) \in Nat /\ DOMAIN layout = 1 .. Len(layout)
      /\ \A i \in DOMAIN layout : layout[i] \in Entries
  BY <1>1, LenProperties
<1>. QED
  BY <1>2 DEF Entries

\* Sets of devices are finite.
LEMMA DevFinite ==
  /\ IsFiniteSet(Dev)
  /\ \A S : S \subseteq Dev => IsFiniteSet(S) /\ Cardinality(S) \in Nat
<1>1. IsFiniteSet(Dev)
  BY FS_Interval, DiskAssumption DEF Dev
<1>. QED
  BY <1>1, FS_Subset, FS_CardinalityType

\* A device the layout gives entry i, when planning does not give up.
LEMMA DeviceType ==
  ASSUME layout \in Layouts, NEW see, see.raw \subseteq Dev,
         NEW i \in DOMAIN layout, DeviceOf(see, i) # 0
  PROVE  /\ DeviceOf(see, i) \in Dev
         /\ DeviceOf(see, i) \in Named \/ DeviceOf(see, i) \in see.raw
<1>1. /\ Len(layout) \in Nat /\ DOMAIN layout = 1 .. Len(layout)
      /\ layout[i].dev \in Dev \union {Tagged}
  BY LayoutType
<1>2. CASE layout[i].dev # Tagged
  BY <1>1, <1>2 DEF DeviceOf, Named
<1>3. CASE layout[i].dev = Tagged
  <2> DEFINE T == {j \in 1 .. i : layout[j].dev = Tagged}
  <2>1. i \in Nat /\ i \in T
    BY <1>1, <1>3
  <2>2. IsFiniteSet(T)
    <3>1. IsFiniteSet(1 .. i)
      BY <2>1, FS_Interval
    <3>. QED
      BY <3>1, FS_Subset
  <2>3. Cardinality(T) \in Nat \ {0}
    BY <2>1, <2>2, FS_CardinalityType, FS_EmptySet
  <2>4. TaggedUpTo(i) \in Nat \ {0}
    BY <2>3 DEF TaggedUpTo
  <2>5. /\ DeviceOf(see, i) = Smallest(see.raw, TaggedUpTo(i))
        /\ ~(TaggedUpTo(i) > Cardinality(see.raw))
    BY <1>3 DEF DeviceOf, FromPool
  <2>6. Cardinality(see.raw) \in Nat
    BY DevFinite
  <2>. QED
    BY <2>4, <2>5, <2>6, SmallestType
<1>. QED
  BY <1>2, <1>3

\* The changes planned for one entry.
LEMMA EntryElements ==
  ASSUME layout \in Layouts, NEW see, see.raw \subseteq Dev, ~PlanErrs(see),
         NEW i \in DOMAIN layout
  PROVE  /\ PlanEntry(see, i) \in Seq(Change)
         /\ \A c \in ToSet(PlanEntry(see, i)) : Asked(see, c)
<1> DEFINE d == DeviceOf(see, i)
           e == layout[i]
           vols == [k \in DOMAIN e.lvs |-> PlanVolume(see, e.lvs[k])]
           Fine(s) == s \in Seq(Change) /\ \A c \in ToSet(s) : Asked(see, c)
<1>1. /\ e.vg \in VG /\ e.lvs \in Seq(LV)
      /\ Len(e.lvs) \in Nat /\ DOMAIN e.lvs = 1 .. Len(e.lvs)
      /\ \A k \in DOMAIN e.lvs : e.lvs[k] \in LV
  <2>1. e.vg \in VG /\ e.lvs \in Seq(LV)
    BY LayoutType
  <2>. QED
    BY <2>1, LenProperties
<1>2. d \in Dev /\ (d \in Named \/ d \in see.raw)
  BY DeviceType DEF PlanErrs
<1>3. /\ [op |-> "error", on |-> d] \in Change /\ [op |-> "pvcreate", on |-> d] \in Change
      /\ [op |-> "vgcreate", on |-> <<e.vg, d>>] \in Change
  BY <1>1, <1>2 DEF Change
<1>4. Fine(<<[op |-> "error", on |-> d]>>)
  BY <1>3 DEF ToSet, Asked
<1>5. Fine(Only(d \notin see.pvs, [op |-> "pvcreate", on |-> d]))
  <2>1. /\ Only(d \notin see.pvs, [op |-> "pvcreate", on |-> d]) \in Seq(Change)
        /\ \A x \in ToSet(Only(d \notin see.pvs, [op |-> "pvcreate", on |-> d])) :
             x = [op |-> "pvcreate", on |-> d] /\ d \notin see.pvs
    BY <1>3, OnlyElements
  <2>. QED
    BY <1>2, <2>1 DEF Asked
<1>6. Fine(Only(e.vg \notin see.vgs, [op |-> "vgcreate", on |-> <<e.vg, d>>]))
  <2>1. /\ Only(e.vg \notin see.vgs, [op |-> "vgcreate", on |-> <<e.vg, d>>]) \in Seq(Change)
        /\ \A x \in ToSet(Only(e.vg \notin see.vgs, [op |-> "vgcreate", on |-> <<e.vg, d>>])) :
             x = [op |-> "vgcreate", on |-> <<e.vg, d>>] /\ e.vg \notin see.vgs
    BY <1>3, OnlyElements
  <2>. QED
    BY <2>1 DEF Asked
<1>7. d \in see.present => Fine(FlattenSeq(vols))
  <2> SUFFICES ASSUME d \in see.present PROVE Fine(FlattenSeq(vols))
    OBVIOUS
  <2>1. \A k \in DOMAIN e.lvs : ~Refused(see, e.lvs[k])
    BY DEF PlanErrs
  <2>2. \A k \in DOMAIN e.lvs : Fine(PlanVolume(see, e.lvs[k]))
    BY <1>1, <2>1, VolumeElements
  <2>3. vols \in [1 .. Len(e.lvs) -> Seq(Change)] /\ \A k \in 1 .. Len(e.lvs) : Fine(vols[k])
    BY <1>1, <2>2
  <2> HIDE DEF vols
  <2>4. /\ FlattenSeq(vols) \in Seq(Change)
        /\ \A x \in ToSet(FlattenSeq(vols)) : \E k \in 1 .. Len(e.lvs) : x \in ToSet(vols[k])
    BY <1>1, <2>3, FlattenFunction
  <2>. QED
    BY <2>3, <2>4
<1>8. ASSUME NEW s, NEW t, Fine(s), Fine(t) PROVE Fine(s \o t)
  BY <1>8, ConcatProperties, ToSetConcat
<1>9. PlanEntry(see, i) =
        IF d \notin see.present THEN <<[op |-> "error", on |-> d]>>
        ELSE Only(d \notin see.pvs, [op |-> "pvcreate", on |-> d])
             \o Only(e.vg \notin see.vgs, [op |-> "vgcreate", on |-> <<e.vg, d>>])
             \o FlattenSeq(vols)
  BY Zenon DEF PlanEntry
<1> HIDE DEF vols, Fine, d, e
<1>10. Fine(PlanEntry(see, i))
  BY <1>4, <1>5, <1>6, <1>7, <1>8, <1>9
<1>. QED
  BY <1>10 DEF Fine

\* The plan of the whole layout.
LEMMA PlanElements ==
  ASSUME layout \in Layouts, NEW see, see.raw \subseteq Dev, ~PlanErrs(see)
  PROVE  /\ Changes(see) \in Seq(Change)
         /\ \A c \in ToSet(Changes(see)) : Asked(see, c)
<1> DEFINE all == [i \in DOMAIN layout |-> PlanEntry(see, i)]
<1>1. Len(layout) \in Nat /\ DOMAIN layout = 1 .. Len(layout)
  BY LayoutType
<1>2. \A i \in DOMAIN layout :
        PlanEntry(see, i) \in Seq(Change) /\ \A c \in ToSet(PlanEntry(see, i)) : Asked(see, c)
  BY EntryElements
<1>3. all \in [1 .. Len(layout) -> Seq(Change)]
        /\ \A i \in 1 .. Len(layout) : \A c \in ToSet(all[i]) : Asked(see, c)
  BY <1>1, <1>2
<1>4. Changes(see) = FlattenSeq(all)
  BY DEF Changes
<1> HIDE DEF all
<1>5. /\ FlattenSeq(all) \in Seq(Change)
      /\ \A x \in ToSet(FlattenSeq(all)) : \E i \in 1 .. Len(layout) : x \in ToSet(all[i])
  BY <1>1, <1>3, FlattenFunction
<1>. QED
  BY <1>3, <1>4, <1>5

-----------------------------------------------------------------------------
(* Type correctness. *)

\* Which entries a kind of change is about.
LEMMA ChangeCases ==
  ASSUME NEW c \in Change
  PROVE  /\ c.op \in {"pvcreate", "error", "vgcreate", "lvcreate", "mkfs", "fstab", "mount"}
         /\ c.op \in {"pvcreate", "error"} => c.on \in Dev
         /\ c.op = "vgcreate" => c.on[1] \in VG /\ c.on[2] \in Dev
         /\ c.op \in {"lvcreate", "mkfs", "fstab", "mount"} => c.on \in LV
BY DEF Change

\* The type invariant in parts: the host, LVM keeping its own,
HostOK ==
  /\ disk \in [Dev -> {"absent", "raw", "data", "pv"}]
  /\ group \in [Dev -> VG \union {NoVG}]
  /\ vgs \subseteq VG /\ lvs \subseteq LV /\ fs \in [LV -> FS \union {NoFS}]
  /\ fstab \subseteq LV /\ mounted \subseteq lvs
  /\ \A d \in Dev : group[d] # NoVG => disk[d] = "pv"

\* groups of physical volumes, volumes and file systems in what they are made of,
Coherent(h) ==
  /\ \A d \in Dev : h.group[d] # NoVG => h.group[d] \in h.vgs
  /\ \A l \in h.lvs : Home(l) \subseteq h.vgs
  /\ h.mounted \subseteq h.lvs
  /\ \A l \in LV : h.fs[l] # NoFS => l \in h.lvs

\* and the process.
ProcessOK ==
  /\ layout \in Layouts /\ reformat \in BOOLEAN
  /\ pc \in {"idle", "planned", "applying", "undoing"}
  /\ plan \in Seq(Change) /\ applied \in Seq(Change)
  /\ next \in Nat /\ ret \in {"ok", "error"} /\ runs \in Nat /\ faults \in Nat
  /\ pc = "applying" => next > 0
  /\ pc = "undoing" => next <= Len(applied) /\ verb = "rollback"

\* The host changes only by a planned change or by the undo of an applied one.
LEMMA HostSteps ==
  ASSUME ProcessOK, [Next]_vars
  PROVE  \/ UNCHANGED host
         \/ \E c \in ToSet(plan) : pc = "applying" /\ Works(c) /\ Does(c)
         \/ \E c \in ToSet(applied) : pc = "undoing" /\ UndoWorks(c) /\ Undoes(c)
<1>1. ASSUME pc = "applying", next <= Len(plan)
      PROVE  plan[next] \in ToSet(plan)
  <2>1. next \in 1 .. Len(plan) /\ DOMAIN plan = 1 .. Len(plan)
    BY <1>1, LenProperties DEF ProcessOK
  <2>. QED
    BY <2>1 DEF ToSet
<1>2. ASSUME pc = "undoing", next > 0
      PROVE  applied[next] \in ToSet(applied)
  <2>1. next \in 1 .. Len(applied) /\ DOMAIN applied = 1 .. Len(applied)
    BY <1>2, LenProperties DEF ProcessOK
  <2>. QED
    BY <2>1 DEF ToSet
<1>3. CASE ApplyChange \/ ApplyStops
  BY <1>1, <1>3, Zenon DEF ApplyChange, ApplyStops
<1>4. CASE UndoChange \/ UndoStops
  BY <1>2, <1>4, Zenon DEF UndoChange, UndoStops
<1>5. CASE UNCHANGED host
  BY <1>5
<1>. QED
  BY <1>3, <1>4, <1>5, Zenon DEF Next, vars, Plan, BeginApply, ApplyReturns, BeginRollback, RollbackReturns, Restart, lvm, host

\* A command that works keeps the host in shape.
LEMMA DoesHost ==
  ASSUME HostOK, Coherent(HostNow), NEW c \in Change, Works(c), Does(c), UNCHANGED layout
  PROVE  HostOK' /\ Coherent(HostNow)'
<1> USE DiskAssumption DEF HostOK, Coherent, HostNow
<1>0. \A l : Home(l)' = Home(l)
  BY DEF Home
<1>1. CASE c.op = "pvcreate"
  <2>1. disk' = [disk EXCEPT ![c.on] = "pv"] /\ UNCHANGED <<group, vgs, lvs, fs, fstab, mounted>>
    BY <1>1 DEF Does
  <2>. QED
    BY <1>0, <1>1, <2>1, ChangeCases
<1>2. CASE c.op = "vgcreate"
  <2>1. /\ group' = [group EXCEPT ![c.on[2]] = c.on[1]] /\ vgs' = vgs \union {c.on[1]}
        /\ UNCHANGED <<disk, lvs, fs, fstab, mounted>> /\ disk[c.on[2]] = "pv"
    BY <1>2 DEF Does, Works
  <2>. QED
    BY <1>0, <1>2, <2>1, ChangeCases
<1>3. CASE c.op = "lvcreate"
  <2>1. lvs' = lvs \union {c.on} /\ UNCHANGED <<disk, group, vgs, fs, fstab, mounted>> /\ Home(c.on) \subseteq vgs
    BY <1>3 DEF Does, Works
  <2>. QED
    BY <1>0, <1>3, <2>1, ChangeCases
<1>4. CASE c.op = "mkfs"
  <2>1. fs' = [fs EXCEPT ![c.on] = WantFS[c.on]] /\ UNCHANGED <<disk, group, vgs, lvs, fstab, mounted>> /\ c.on \in lvs
    BY <1>4 DEF Does, Works
  <2>. QED
    BY <1>0, <1>4, <2>1, ChangeCases
<1>5. CASE c.op = "fstab"
  <2>1. fstab' = fstab \union {c.on} /\ UNCHANGED <<disk, group, vgs, lvs, fs, mounted>>
    BY <1>5 DEF Does, Works
  <2>. QED
    BY <1>0, <1>5, <2>1, ChangeCases
<1>6. CASE c.op = "mount"
  <2>1. mounted' = mounted \union {c.on} /\ UNCHANGED <<disk, group, vgs, lvs, fs, fstab>> /\ c.on \in lvs
    BY <1>6 DEF Does, Works
  <2>. QED
    BY <1>0, <1>6, <2>1, ChangeCases
<1>7. CASE c.op = "error"
  BY <1>7 DEF Works
<1>. QED
  BY <1>1, <1>2, <1>3, <1>4, <1>5, <1>6, <1>7, ChangeCases

\* So does an undo command that works.
LEMMA UndoesHost ==
  ASSUME HostOK, Coherent(HostNow), NEW c \in Change, UndoWorks(c), Undoes(c), UNCHANGED layout
  PROVE  HostOK' /\ Coherent(HostNow)'
<1> USE DiskAssumption DEF HostOK, Coherent, HostNow
<1>0. \A l : Home(l)' = Home(l)
  BY DEF Home
<1>00. fs' = [l \in LV |-> IF l \in lvs' THEN fs[l] ELSE NoFS]
  BY DEF Undoes
<1>1. CASE c.op = "pvcreate"
  <2>1. /\ disk' = [disk EXCEPT ![c.on] = "raw"] /\ group' = [group EXCEPT ![c.on] = NoVG]
        /\ UNCHANGED <<vgs, lvs, fstab, mounted>>
    BY <1>1 DEF Undoes
  <2>. QED
    BY <1>0, <1>00, <1>1, <2>1, ChangeCases
<1>2. CASE c.op = "vgcreate"
  <2>1. /\ group' = [d \in Dev |-> IF group[d] = c.on[1] THEN NoVG ELSE group[d]]
        /\ vgs' = vgs \ {c.on[1]} /\ lvs' = {l \in lvs : c.on[1] \notin Home(l)}
        /\ UNCHANGED <<disk, fstab, mounted>> /\ \A l \in mounted : c.on[1] \notin Home(l)
    BY <1>2 DEF Undoes, UndoWorks
  <2>. QED
    BY <1>0, <1>00, <1>2, <2>1, ChangeCases
<1>3. CASE c.op = "lvcreate"
  <2>1. lvs' = lvs \ {c.on} /\ UNCHANGED <<disk, group, vgs, fstab, mounted>> /\ c.on \notin mounted
    BY <1>3 DEF Undoes, UndoWorks
  <2>. QED
    BY <1>0, <1>00, <1>3, <2>1, ChangeCases
<1>4. CASE c.op \in {"mkfs", "fstab", "mount", "error"}
  <2>1. UNCHANGED <<disk, group, vgs, lvs>> /\ fstab' \subseteq fstab /\ mounted' \subseteq mounted
    BY <1>4 DEF Undoes
  <2>. QED
    BY <1>0, <1>00, <1>4, <2>1, ChangeCases
<1>. QED
  BY <1>1, <1>2, <1>3, <1>4, ChangeCases

\* Whatever a probe hides from Plan, it sees no disk that is not raw as raw.
LEMMA SeenRaw ==
  ASSUME HostOK
  PROVE  \A see \in {Seen} \union SeenAmiss : see.raw \subseteq Dev
<1>1. Seen.raw \subseteq Dev
  BY DEF Seen, RawDisks
<1>2. \A see \in SeenAmiss : see.raw = Seen.raw \/ see.raw = {}
  BY DEF Seen, SeenAmiss
<1>. QED
  BY <1>1, <1>2

\* The process starts typed.
LEMMA InitTyped == Init => HostOK /\ Coherent(HostNow) /\ ProcessOK
<1> SUFFICES ASSUME Init PROVE HostOK /\ Coherent(HostNow) /\ ProcessOK
  OBVIOUS
<1> USE DiskAssumption
<1>1. ProcessOK
  BY EmptySeq DEF Init, ProcessOK
<1>2. CASE NothingYet
  <2>1. /\ disk \in [Dev -> {"absent", "raw", "data"}] /\ group = [d \in Dev |-> NoVG]
        /\ vgs = {} /\ lvs = {} /\ fs = [l \in LV |-> NoFS] /\ fstab = {} /\ mounted = {}
    BY <1>2 DEF Init, NothingYet
  <2>2. HostOK
    BY <2>1 DEF HostOK
  <2>3. Coherent(HostNow)
    BY <2>1 DEF Coherent, HostNow
  <2>. QED
    BY <1>1, <2>2, <2>3
<1>3. ASSUME NEW d \in Dev, NEW l \in LV, NEW type \in FS \union {NoFS}, VolumeFound(d, l, type)
      PROVE  HostOK /\ Coherent(HostNow)
  <2>1. layout \in Layouts /\ 1 \in DOMAIN layout /\ layout[1].vg \in VG
    <3>1. layout \in Layouts
      BY DEF Init
    <3>2. layout # <<>>
      BY <1>3 DEF VolumeFound
    <3>3. layout \in Seq(Entries)
      BY <3>1, DiskAssumption DEF Entries
    <3>4. 1 \in 1 .. Len(layout)
      BY <3>2, <3>3, EmptySeq
    <3>. QED
      BY <3>1, <3>4, LayoutType
  <2>2. Home(l) \subseteq {layout[1].vg}
    BY <1>3, <2>1 DEF VolumeFound, Home
  <2>3. HostOK
    BY <1>3, <2>1 DEF Init, VolumeFound, HostOK
  <2>. QED
    BY <1>3, <2>1, <2>2, <2>3 DEF Init, VolumeFound, Coherent, HostNow
<1>. QED
  BY <1>1, <1>2, <1>3, Zenon DEF Init

\* Every step keeps the types.
LEMMA StepTyped ==
  HostOK /\ Coherent(HostNow) /\ ProcessOK /\ [Next]_vars
    => HostOK' /\ Coherent(HostNow)' /\ ProcessOK'
<1> SUFFICES ASSUME HostOK, Coherent(HostNow), ProcessOK, [Next]_vars
             PROVE  HostOK' /\ Coherent(HostNow)' /\ ProcessOK'
  OBVIOUS
<1>0. UNCHANGED layout
  BY DEF Next, vars, input, Plan, BeginApply, ApplyChange, ApplyStops, ApplyReturns,
         BeginRollback, UndoChange, UndoStops, RollbackReturns, Restart
<1>1. HostOK' /\ Coherent(HostNow)'
  <2>1. CASE UNCHANGED host
    BY <1>0, <2>1 DEF host, lvm, HostOK, Coherent, HostNow, Home
  <2>2. ToSet(plan) \subseteq Change /\ ToSet(applied) \subseteq Change
    BY ToSetType DEF ProcessOK
  <2>. QED
    BY <1>0, <2>1, <2>2, HostSteps, DoesHost, UndoesHost
<1>2. ProcessOK'
  <2> USE DEF ProcessOK, input, Fault
  <2>1. CASE Plan
    <3>1. PICK see \in {Seen} \union SeenAmiss :
            /\ IF see = Seen THEN UNCHANGED faults ELSE Fault
            /\ IF PlanErrs(see)
                 THEN ret' = "error" /\ pc' = "idle" /\ verb' = "plan" /\ UNCHANGED plan
                 ELSE ret' = "ok" /\ pc' = "planned" /\ verb' = "plan" /\ plan' = Changes(see)
      BY <2>1 DEF Plan
    <3>2. see.raw \subseteq Dev
      BY SeenRaw
    <3>3. ~PlanErrs(see) => Changes(see) \in Seq(Change)
      BY <3>2, PlanElements
    <3>. QED
      BY <2>1, <3>1, <3>3 DEF Plan
  <2>2. CASE BeginApply
    BY <2>2 DEF BeginApply
  <2>3. CASE ApplyChange
    <3>1. plan[next] \in Change
      BY <2>3, LenProperties DEF ApplyChange
    <3>2. applied' \in Seq(Change)
      BY <2>3, <3>1, AppendProperties DEF ApplyChange
    <3>. QED
      BY <2>3, <3>2 DEF ApplyChange
  <2>4. CASE ApplyStops
    BY <2>4 DEF ApplyStops
  <2>5. CASE ApplyReturns
    BY <2>5 DEF ApplyReturns
  <2>6. CASE BeginRollback
    BY <2>6, LenProperties DEF BeginRollback
  <2>7. CASE UndoChange
    BY <2>7, LenProperties DEF UndoChange
  <2>8. CASE UndoStops
    BY <2>8 DEF UndoStops
  <2>9. CASE RollbackReturns
    BY <2>9 DEF RollbackReturns
  <2>10. CASE Restart
    BY <2>10, EmptySeq DEF Restart
  <2>11. CASE UNCHANGED vars
    BY <2>11 DEF vars, process
  <2>. QED
    BY <2>1, <2>2, <2>3, <2>4, <2>5, <2>6, <2>7, <2>8, <2>9, <2>10, <2>11 DEF Next
<1>. QED
  BY <1>1, <1>2

\* In every reachable state the variables have their types, groups are made of
\* physical volumes, and only volumes are mounted.
THEOREM TypeCorrect == Spec => []TypeOK
<1>1. HostOK /\ Coherent(HostNow) /\ ProcessOK => TypeOK
  BY DEF HostOK, ProcessOK, TypeOK
<1>. QED
  BY <1>1, InitTyped, StepTyped, PTL DEF Spec

-----------------------------------------------------------------------------
(* What the process found is kept, and nobody's data is destroyed. *)

\* What a process that saw everything asks for, said of the host it started on.
AskedOfBorn(c) ==
  /\ c.op = "pvcreate" =>
       born.host.disk[c.on] # "pv" /\ (c.on \in Named \/ born.host.disk[c.on] = "raw")
  /\ c.op = "fstab" => c.on \notin born.host.fstab
  /\ c.op = "mkfs" => born.host.fs[c.on] = NoFS \/ reformat

\* Only what was not there can have been made.
Made(c) ==
  /\ c.op = "pvcreate" => born.host.group[c.on] = NoVG
  /\ c.op = "vgcreate" => c.on[1] \notin born.host.vgs
  /\ c.op = "lvcreate" => c.on \notin born.host.lvs
  /\ c.op = "mount" => c.on \notin born.host.mounted

\* The process keeps what it found; it undoes only what it made.
KeptInv ==
  /\ Coherent(born.host)
  /\ born.faults \in Nat /\ born.faults <= faults
  /\ verb = "none" => pc = "idle" /\ HostNow = born.host /\ plan = <<>> /\ applied = <<>>
  /\ ToSet(applied) \subseteq ToSet(plan)
  /\ Undisturbed => \A c \in ToSet(plan) : AskedOfBorn(c)
  /\ \A c \in ToSet(applied) : Made(c)
  /\ FoundIsKept /\ DataKept

\* A command Plan may ask for takes nothing the process found, nor data of others.
LEMMA DoesKeeps ==
  ASSUME HostOK, FoundIsKept, DataKept, NEW c \in Change, Works(c), Does(c),
         UNCHANGED <<born, layout, reformat>>, Undisturbed' => Undisturbed,
         Undisturbed => AskedOfBorn(c)
  PROVE  FoundIsKept' /\ DataKept' /\ Made(c)
<1> USE DEF HostOK, FoundIsKept, DataKept, Made, Named
<1>1. CASE c.op = "pvcreate"
  <2>1. /\ disk' = [disk EXCEPT ![c.on] = "pv"] /\ UNCHANGED <<group, vgs, lvs, fs, fstab, mounted>>
        /\ group[c.on] = NoVG /\ c.on \in Dev
    BY <1>1, ChangeCases DEF Does, Works
  <2>2. FoundIsKept' /\ Made(c)
    BY <1>1, <2>1
  <2>3. DataKept'
    BY <1>1, <2>1 DEF AskedOfBorn
  <2>. QED
    BY <2>2, <2>3
<1>2. CASE c.op = "vgcreate"
  <2>1. /\ group' = [group EXCEPT ![c.on[2]] = c.on[1]] /\ vgs' = vgs \union {c.on[1]}
        /\ UNCHANGED <<disk, lvs, fs, fstab, mounted>>
        /\ group[c.on[2]] = NoVG /\ c.on[1] \notin vgs
    BY <1>2 DEF Does, Works
  <2>. QED
    BY <1>2, <2>1
<1>3. CASE c.op = "lvcreate"
  <2>1. lvs' = lvs \union {c.on} /\ UNCHANGED <<disk, group, vgs, fs, fstab, mounted>> /\ c.on \notin lvs
    BY <1>3 DEF Does, Works
  <2>. QED
    BY <1>3, <2>1
<1>4. CASE c.op = "mkfs"
  <2>1. /\ fs' = [fs EXCEPT ![c.on] = WantFS[c.on]]
        /\ UNCHANGED <<disk, group, vgs, lvs, fstab, mounted>> /\ c.on \in LV
    BY <1>4, ChangeCases DEF Does
  <2>2. DataKept'
    BY <1>4, <2>1 DEF AskedOfBorn
  <2>. QED
    BY <1>4, <2>1, <2>2
<1>5. CASE c.op = "fstab"
  <2>1. fstab' = fstab \union {c.on} /\ UNCHANGED <<disk, group, vgs, lvs, fs, mounted>>
    BY <1>5 DEF Does
  <2>. QED
    BY <1>5, <2>1
<1>6. CASE c.op = "mount"
  <2>1. mounted' = mounted \union {c.on} /\ UNCHANGED <<disk, group, vgs, lvs, fs, fstab>> /\ c.on \notin mounted
    BY <1>6 DEF Does, Works
  <2>. QED
    BY <1>6, <2>1
<1>7. CASE c.op = "error"
  BY <1>7 DEF Works
<1>. QED
  BY <1>1, <1>2, <1>3, <1>4, <1>5, <1>6, <1>7, ChangeCases

\* Undoing what the process made takes nothing it found, nor data of others.
LEMMA UndoesKeeps ==
  ASSUME HostOK, Coherent(born.host), FoundIsKept, DataKept, NEW c \in Change,
         UndoWorks(c), Undoes(c), Made(c),
         UNCHANGED <<born, layout, reformat>>, Undisturbed' => Undisturbed,
         Undisturbed => AskedOfBorn(c)
  PROVE  FoundIsKept' /\ DataKept'
<1> USE DEF HostOK, FoundIsKept, DataKept, Named
<1>0. fs' = [l \in LV |-> IF l \in lvs' THEN fs[l] ELSE NoFS]
  BY DEF Undoes
<1>00. ASSUME born.host.lvs \subseteq lvs', NEW l \in LV, born.host.fs[l] # NoFS
       PROVE  fs'[l] = fs[l]
  BY <1>0, <1>00 DEF Coherent
<1>1. CASE c.op = "pvcreate"
  <2>1. /\ disk' = [disk EXCEPT ![c.on] = "raw"] /\ group' = [group EXCEPT ![c.on] = NoVG]
        /\ UNCHANGED <<vgs, lvs, fstab, mounted>> /\ born.host.group[c.on] = NoVG /\ c.on \in Dev
    BY <1>1, ChangeCases DEF Undoes, Made
  <2>2. FoundIsKept'
    BY <2>1
  <2>3. Undisturbed => \A d \in Dev \ Named : born.host.disk[d] = "data" => disk'[d] = "data"
    BY <1>1, <2>1 DEF AskedOfBorn
  <2>. QED
    BY <1>00, <2>2, <2>3
<1>2. CASE c.op = "vgcreate"
  <2>1. /\ group' = [d \in Dev |-> IF group[d] = c.on[1] THEN NoVG ELSE group[d]]
        /\ vgs' = vgs \ {c.on[1]} /\ lvs' = {l \in lvs : c.on[1] \notin Home(l)}
        /\ UNCHANGED <<disk, fstab, mounted>>
    BY <1>2 DEF Undoes
  <2>2. c.on[1] \notin born.host.vgs
    BY <1>2 DEF Made
  <2>3. \A l \in born.host.lvs : c.on[1] \notin Home(l)
    BY <2>2 DEF Coherent
  <2>4. \A d \in Dev : born.host.group[d] # NoVG => born.host.group[d] # c.on[1]
    BY <2>2 DEF Coherent
  <2>5. FoundIsKept'
    BY <2>1, <2>2, <2>3, <2>4
  <2>. QED
    BY <1>00, <2>1, <2>5
<1>3. CASE c.op = "lvcreate"
  <2>1. lvs' = lvs \ {c.on} /\ UNCHANGED <<disk, group, vgs, fstab, mounted>> /\ c.on \notin born.host.lvs
    BY <1>3 DEF Undoes, Made
  <2>2. FoundIsKept'
    BY <2>1
  <2>. QED
    BY <1>00, <2>1, <2>2
<1>4. CASE c.op \in {"mkfs", "fstab", "mount", "error"}
  <2>1. /\ UNCHANGED <<disk, group, vgs, lvs>>
        /\ fstab' = IF c.op = "fstab" THEN fstab \ {c.on} ELSE fstab
        /\ mounted' = IF c.op = "mount" THEN mounted \ {c.on} ELSE mounted
    BY <1>4 DEF Undoes
  <2>2. FoundIsKept'
    BY <2>1 DEF AskedOfBorn, Made
  <2>. QED
    BY <1>00, <2>1, <2>2
<1>. QED
  BY <1>1, <1>2, <1>3, <1>4, ChangeCases

\* It holds at the start.
LEMMA InitKept == Init => KeptInv
<1> SUFFICES ASSUME Init PROVE KeptInv
  OBVIOUS
<1>1. Coherent(born.host) /\ HostNow = born.host /\ born.faults = faults /\ faults = 0
        /\ plan = <<>> /\ applied = <<>> /\ pc = "idle"
  BY InitTyped DEF Init
<1>2. FoundIsKept /\ DataKept
  BY <1>1 DEF FoundIsKept, DataKept, HostNow
<1>. QED
  BY <1>1, <1>2, ToSetEmpty DEF KeptInv

\* Plan alone sets the plan, and asks for what is missing on the host it saw.
LEMMA PlanAsks ==
  ASSUME HostOK, ProcessOK, KeptInv, Plan
  PROVE  /\ born.faults <= faults'
         /\ Undisturbed' => Undisturbed /\ \A c \in ToSet(plan') : AskedOfBorn(c)'
<1>1. PICK see \in {Seen} \union SeenAmiss :
        /\ IF see = Seen THEN UNCHANGED faults ELSE Fault
        /\ IF PlanErrs(see)
             THEN ret' = "error" /\ pc' = "idle" /\ verb' = "plan" /\ UNCHANGED plan
             ELSE ret' = "ok" /\ pc' = "planned" /\ verb' = "plan" /\ plan' = Changes(see)
  BY DEF Plan
<1>2. /\ faults \in Nat /\ born.faults \in Nat /\ born.faults <= faults
      /\ HostNow = born.host /\ plan = <<>>
      /\ UNCHANGED <<born, layout, reformat>>
  BY DEF Plan, ProcessOK, KeptInv, input
<1>3. CASE see # Seen
  BY <1>1, <1>2, <1>3 DEF Fault, Undisturbed
<1>4. CASE see = Seen /\ PlanErrs(see)
  BY <1>1, <1>2, <1>4, ToSetEmpty DEF Undisturbed
<1>5. CASE see = Seen /\ ~PlanErrs(see)
  <2>1. Seen.raw \subseteq Dev
    BY DEF Seen, RawDisks
  <2>2. \A c \in ToSet(plan') : Asked(Seen, c) /\ c \in Change
    BY <1>1, <1>5, <2>1, PlanElements, ToSetType DEF ProcessOK
  <2>3. ASSUME NEW c \in Change, Asked(Seen, c) PROVE AskedOfBorn(c)'
    <3>1. /\ born'.host.disk = disk /\ born'.host.fstab = fstab /\ born'.host.fs = fs
      BY <1>2 DEF HostNow
    <3>2. c.op = "pvcreate" => disk[c.on] # "pv" /\ (c.on \in Named \/ disk[c.on] = "raw")
      BY <2>3, ChangeCases DEF Asked, Seen, RawDisks
    <3>3. c.op = "fstab" => c.on \notin fstab
      BY <2>3 DEF Asked, Seen
    <3>4. c.op = "mkfs" => fs[c.on] = NoFS \/ reformat
      BY <2>3 DEF Asked, Seen, Refused
    <3>. QED
      BY <1>2, <3>1, <3>2, <3>3, <3>4 DEF AskedOfBorn, Named
  <2>. QED
    BY <1>1, <1>2, <1>5, <2>2, <2>3 DEF Undisturbed
<1>. QED
  BY <1>3, <1>4, <1>5

\* Every step keeps what the process found.
LEMMA StepKept ==
  HostOK /\ Coherent(HostNow) /\ ProcessOK /\ ProcessOK' /\ KeptInv /\ [Next]_vars => KeptInv'
<1> SUFFICES ASSUME HostOK, Coherent(HostNow), ProcessOK, ProcessOK', KeptInv, [Next]_vars
             PROVE  KeptInv'
  OBVIOUS
<1>0. /\ faults \in Nat /\ born.faults \in Nat /\ born.faults <= faults
      /\ ToSet(plan) \subseteq Change /\ ToSet(applied) \subseteq Change
  BY ToSetType DEF ProcessOK, KeptInv
<1>1. ASSUME UNCHANGED <<host, layout, reformat, born, plan, applied>>, faults <= faults', faults' \in Nat,
             verb' # "none" \/ (verb = "none" /\ pc' = "idle")
      PROVE  KeptInv'
  <2>1. Undisturbed' => Undisturbed
    BY <1>0, <1>1 DEF Undisturbed
  <2>2. /\ \A c : AskedOfBorn(c)' = AskedOfBorn(c) /\ Made(c)' = Made(c)
        /\ HostNow' = HostNow /\ Coherent(born.host)' = Coherent(born.host)
    BY <1>1 DEF AskedOfBorn, Made, Named, HostNow, host, lvm, Coherent, Home
  <2>3. FoundIsKept' /\ DataKept'
    BY <1>1, <2>1 DEF KeptInv, FoundIsKept, DataKept, Named, host, lvm
  <2>. QED
    BY <1>0, <1>1, <2>1, <2>2, <2>3 DEF KeptInv
<1>2. CASE Plan
  <2>1. /\ born.faults <= faults' /\ (Undisturbed' => Undisturbed)
        /\ (Undisturbed' => \A c \in ToSet(plan') : AskedOfBorn(c)')
    BY <1>2, PlanAsks
  <2>2. /\ UNCHANGED <<host, layout, reformat, born, applied>> /\ verb' = "plan"
        /\ applied = <<>>
    BY <1>2 DEF Plan, input, KeptInv
  <2>3. Coherent(born.host)'
    BY <2>2 DEF KeptInv, Coherent, Home
  <2>4. FoundIsKept' /\ DataKept'
    BY <2>1, <2>2 DEF KeptInv, FoundIsKept, DataKept, Named, host, lvm
  <2>5. ToSet(applied') = {}
    BY <2>2, ToSetEmpty
  <2>. QED
    BY <1>0, <2>1, <2>2, <2>3, <2>4, <2>5 DEF KeptInv
<1>3. CASE BeginApply \/ ApplyReturns \/ BeginRollback \/ RollbackReturns
  <2>1. /\ UNCHANGED <<host, layout, reformat, born, plan, applied, faults>>
        /\ pc' = "idle" \/ verb' # "none"
        /\ verb # "none" => verb' # "none"
    BY <1>3 DEF BeginApply, ApplyReturns, BeginRollback, RollbackReturns, input
  <2>2. verb' # "none" \/ (verb = "none" /\ pc' = "idle")
    BY <1>3, <2>1 DEF BeginApply, ApplyReturns, BeginRollback, RollbackReturns
  <2>. QED
    BY <1>0, <1>1, <2>1, <2>2
<1>4. CASE ApplyChange \/ ApplyStops
  <2>1. /\ UNCHANGED <<layout, reformat, born, plan, verb>> /\ pc = "applying" /\ verb # "none"
        /\ faults <= faults' /\ faults' \in Nat
    BY <1>0, <1>4 DEF ApplyChange, ApplyStops, input, Fault, KeptInv
  <2>2. CASE UNCHANGED host /\ ApplyStops
    BY <1>1, <2>1, <2>2 DEF ApplyStops
  <2> DEFINE c == plan[next]
  <2>3. CASE Works(c) /\ Does(c)
    <3>1. c \in ToSet(plan) /\ c \in Change
      <4>1. next \in 1 .. Len(plan) /\ DOMAIN plan = 1 .. Len(plan)
        BY <1>4, LenProperties DEF ProcessOK, ApplyChange, ApplyStops
      <4>2. c \in ToSet(plan)
        BY <4>1 DEF ToSet
      <4>. QED
        BY <1>0, <4>2
    <3>2. Undisturbed' => Undisturbed
      BY <1>0, <2>1 DEF Undisturbed
    <3> HIDE DEF c
    <3>3. FoundIsKept' /\ DataKept' /\ Made(c)
      BY <2>1, <2>3, <3>1, <3>2, DoesKeeps DEF KeptInv
    <3>4. applied' = Append(applied, c) \/ applied' = applied
      BY <1>4 DEF ApplyChange, ApplyStops, c
    <3>5. ToSet(applied') \subseteq ToSet(applied) \union {c}
      <4>1. applied \in Seq(Change)
        BY DEF ProcessOK
      <4>2. ToSet(Append(applied, c)) = ToSet(applied) \union {c}
        BY <3>1, <4>1, ToSetAppend
      <4>. QED
        BY <3>4, <4>2
    <3>6. /\ \A x : AskedOfBorn(x)' = AskedOfBorn(x) /\ Made(x)' = Made(x)
          /\ Coherent(born.host)' = Coherent(born.host)
      BY <2>1 DEF AskedOfBorn, Made, Named, Coherent, Home
    <3>. QED
      BY <1>0, <2>1, <3>1, <3>2, <3>3, <3>5, <3>6 DEF KeptInv
  <2>. QED
    BY <1>4, <2>2, <2>3 DEF ApplyChange, ApplyStops
<1>5. CASE UndoChange \/ UndoStops
  <2>1. /\ UNCHANGED <<layout, reformat, born, plan, applied, verb>> /\ verb # "none"
        /\ faults <= faults' /\ faults' \in Nat
    BY <1>0, <1>5 DEF UndoChange, UndoStops, input, Fault, ProcessOK
  <2>2. CASE UNCHANGED host
    BY <1>1, <2>1, <2>2
  <2> DEFINE c == applied[next]
  <2>3. CASE UndoWorks(c) /\ Undoes(c)
    <3>1. c \in ToSet(applied) /\ c \in ToSet(plan) /\ c \in Change
      <4>1. next \in 1 .. Len(applied) /\ DOMAIN applied = 1 .. Len(applied)
        BY <1>5, LenProperties DEF ProcessOK, UndoChange, UndoStops
      <4>2. c \in ToSet(applied)
        BY <4>1 DEF ToSet
      <4>. QED
        BY <1>0, <4>2 DEF KeptInv
    <3>2. Undisturbed' => Undisturbed
      BY <1>0, <2>1 DEF Undisturbed
    <3> HIDE DEF c
    <3>3. FoundIsKept' /\ DataKept'
      BY <2>1, <2>3, <3>1, <3>2, UndoesKeeps DEF KeptInv
    <3>4. /\ \A x : AskedOfBorn(x)' = AskedOfBorn(x) /\ Made(x)' = Made(x)
          /\ Coherent(born.host)' = Coherent(born.host)
      BY <2>1 DEF AskedOfBorn, Made, Named, Coherent, Home
    <3>. QED
      BY <1>0, <2>1, <3>2, <3>3, <3>4 DEF KeptInv
  <2>. QED
    BY <1>5, <2>2, <2>3, Zenon DEF UndoChange, UndoStops
<1>6. CASE Restart
  <2>1. /\ UNCHANGED <<host, layout, faults>> /\ plan' = <<>> /\ applied' = <<>> /\ pc' = "idle"
        /\ born' = [host |-> HostNow, faults |-> faults]
    BY <1>6 DEF Restart
  <2>2. HostNow' = HostNow /\ Coherent(born.host)' /\ born'.host = HostNow'
    BY <2>1 DEF HostNow, host, lvm, Coherent, Home
  <2>3. FoundIsKept' /\ DataKept'
    BY <2>1, <2>2 DEF FoundIsKept, DataKept, HostNow
  <2>. QED
    BY <1>0, <2>1, <2>2, <2>3, ToSetEmpty DEF KeptInv
<1>7. CASE UNCHANGED vars
  BY <1>0, <1>1, <1>7 DEF vars, input, process, KeptInv
<1>. QED
  BY <1>2, <1>3, <1>4, <1>5, <1>6, <1>7 DEF Next

\* Whatever fails, no process takes a volume group, a volume, a mount or a place
\* in a group that it found, nor, unless something failed, a line of /etc/fstab.
THEOREM FoundKept == Spec => []FoundIsKept
<1>1. KeptInv => FoundIsKept
  BY DEF KeptInv
<1>. QED
  BY <1>1, InitTyped, StepTyped, InitKept, StepKept, PTL DEF Spec

\* No process that saw the host as it is destroys the data of a disk that the
\* manifest does not name, or a file system it was not told to.
THEOREM DataSafe == Spec => []DataKept
<1>1. KeptInv => DataKept
  BY DEF KeptInv
<1>. QED
  BY <1>1, InitTyped, StepTyped, InitKept, StepKept, PTL DEF Spec

-----------------------------------------------------------------------------
(* Rollback takes back what the process made. *)

\* What the process has done in the first n of its applied changes.
Did(n, op, x) == \E i \in 1 .. n : applied[i].op = op /\ applied[i].on = x
DidGroup(n, g) == \E i \in 1 .. n : applied[i].op = "vgcreate" /\ applied[i].on[1] = g
DidGroupOn(n, d) == \E i \in 1 .. n : applied[i].op = "vgcreate" /\ applied[i].on[2] = d

\* The host is what the process found and what those changes made of it; of a
\* line of fstab that two changes asked for, one undo command takes both.
HostSince(n) ==
  /\ \A d \in Dev : disk[d] = "pv" <=> born.host.disk[d] = "pv" \/ Did(n, "pvcreate", d)
  /\ \A d \in Dev : group[d] # born.host.group[d] => DidGroupOn(n, d)
  /\ \A i \in 1 .. n : applied[i].op = "vgcreate" => group[applied[i].on[2]] = applied[i].on[1]
  /\ \A g \in VG : g \in vgs <=> g \in born.host.vgs \/ DidGroup(n, g)
  /\ \A l \in LV : l \in lvs <=> l \in born.host.lvs \/ Did(n, "lvcreate", l)
  /\ \A l \in LV : l \in mounted <=> l \in born.host.mounted \/ Did(n, "mount", l)
  /\ \A l \in LV : l \in fstab => l \in born.host.fstab \/ Did(n, "fstab", l)

\* What the undo of c takes was made by c, and by none of the first n changes.
Alone(c, n) ==
  /\ c.op = "pvcreate" => ~Did(n, "pvcreate", c.on) /\ ~DidGroupOn(n, c.on)
  /\ c.op = "vgcreate" => /\ ~DidGroup(n, c.on[1]) /\ ~DidGroupOn(n, c.on[2])
                          /\ \A l \in LV : Did(n, "lvcreate", l) => c.on[1] \notin Home(l)
  /\ c.op = "lvcreate" => ~Did(n, "lvcreate", c.on) /\ ~Did(n, "mount", c.on)
  /\ c.op = "mount" => ~Did(n, "mount", c.on)

\* No undo takes what an earlier change made.
EachAlone == \A i \in 1 .. Len(applied) : Alone(applied[i], i - 1)

\* The changes of this process that still stand.
Standing == IF verb = "rollback" THEN next ELSE Len(applied)

\* The applied changes are the first of the plan.
InOrder ==
  /\ Len(applied) <= Len(plan)
  /\ \A i \in 1 .. Len(applied) : applied[i] = plan[i]
  /\ pc = "applying" => next = Len(applied) + 1 /\ verb = "apply"
  /\ pc = "planned" => verb = "plan"
  /\ verb \in {"none", "plan"} => applied = <<>>
  /\ verb = "rollback" => next <= Len(applied)
  /\ born.host.group \in [Dev -> VG \union {NoVG}]

\* The inductive invariant: what the undo commands have not yet taken stands.
RestoreInv ==
  /\ InOrder
  /\ Undisturbed /\ ClaimsAreDistinct =>
       /\ HostSince(Standing)
       /\ EachAlone
       /\ verb = "rollback" => ret = "ok"
       /\ verb = "rollback" /\ pc = "idle" => next = 0

\* One change more.
LEMMA DidMore ==
  ASSUME applied \in Seq(Change), NEW c, applied' = Append(applied, c), NEW n, n = Len(applied)
  PROVE  /\ \A op, x : Did(n + 1, op, x)' <=> Did(n, op, x) \/ (c.op = op /\ c.on = x)
         /\ \A g : DidGroup(n + 1, g)' <=> DidGroup(n, g) \/ (c.op = "vgcreate" /\ c.on[1] = g)
         /\ \A d : DidGroupOn(n + 1, d)' <=> DidGroupOn(n, d) \/ (c.op = "vgcreate" /\ c.on[2] = d)
<1>1. n \in Nat /\ applied'[n + 1] = c /\ \A i \in 1 .. n : applied'[i] = applied[i]
  BY AppendProperties, LenProperties
<1>2. \A i : i \in 1 .. n + 1 <=> i \in 1 .. n \/ i = n + 1
  BY <1>1
<1>3. n + 1 \in 1 .. n + 1
  BY <1>1
<1>. QED
  BY <1>1, <1>2, <1>3 DEF Did, DidGroup, DidGroupOn

\* One change less.
LEMMA DidLess ==
  ASSUME NEW n \in Nat \ {0}, NEW c, c = applied[n], UNCHANGED applied
  PROVE  /\ \A op, x : Did(n, op, x) <=> Did(n - 1, op, x)' \/ (c.op = op /\ c.on = x)
         /\ \A g : DidGroup(n, g) <=> DidGroup(n - 1, g)' \/ (c.op = "vgcreate" /\ c.on[1] = g)
         /\ \A d : DidGroupOn(n, d) <=> DidGroupOn(n - 1, d)' \/ (c.op = "vgcreate" /\ c.on[2] = d)
<1>1. \A i : i \in 1 .. n <=> i \in 1 .. n - 1 \/ i = n
  OBVIOUS
<1>. QED
  BY <1>1 DEF Did, DidGroup, DidGroupOn

\* A change is applied only when nothing before it made what it makes.
LEMMA AppliedAlone ==
  ASSUME HostOK, Coherent(HostNow), applied \in Seq(Change), NEW c \in Change, Works(c),
         NEW n, n = Len(applied), HostSince(n),
         c.op = "pvcreate" => \A i \in 1 .. n : applied[i] # c
  PROVE  Alone(c, n)
<1>0. NoVG \notin VG
  BY DiskAssumption
<1>1. \A i \in 1 .. n : applied[i] \in Change
  BY LenProperties
<1>2. ASSUME NEW d \in Dev, group[d] = NoVG PROVE ~DidGroupOn(n, d)
  BY <1>0, <1>1, <1>2, ChangeCases DEF HostSince, DidGroupOn
<1>3. CASE c.op = "pvcreate"
  <2>1. c.on \in Dev /\ group[c.on] = NoVG
    BY <1>3, ChangeCases DEF Works
  <2>2. \A i \in 1 .. n : applied[i].op = "pvcreate" /\ applied[i].on = c.on => applied[i] = c
    BY <1>1, <1>3 DEF Change
  <2>3. ~Did(n, "pvcreate", c.on)
    BY <1>3, <2>2 DEF Did
  <2>. QED
    BY <1>2, <1>3, <2>1, <2>3 DEF Alone
<1>4. CASE c.op = "vgcreate"
  <2>1. c.on[1] \in VG /\ c.on[1] \notin vgs /\ c.on[2] \in Dev /\ group[c.on[2]] = NoVG
    BY <1>4, ChangeCases DEF Works
  <2>2. ~DidGroup(n, c.on[1])
    BY <2>1 DEF HostSince
  <2>3. ~DidGroupOn(n, c.on[2])
    BY <1>2, <2>1
  <2>4. \A l \in LV : Did(n, "lvcreate", l) => c.on[1] \notin Home(l)
    BY <2>1 DEF HostSince, Coherent, HostNow
  <2>. QED
    BY <1>4, <2>2, <2>3, <2>4 DEF Alone
<1>5. CASE c.op = "lvcreate"
  BY <1>5, ChangeCases DEF Works, HostSince, HostOK, Alone
<1>6. CASE c.op = "mount"
  BY <1>6, ChangeCases DEF Works, HostSince, Alone
<1>. QED
  BY <1>3, <1>4, <1>5, <1>6 DEF Alone

\* Applying a change adds what it made.
LEMMA DoesSince ==
  ASSUME HostOK, applied \in Seq(Change), NEW c \in Change, Works(c), Does(c),
         NEW n, n = Len(applied), HostSince(n), Alone(c, n), Made(c),
         applied' = Append(applied, c), UNCHANGED born
  PROVE  HostSince(n + 1)'
<1>1. /\ \A op, x : Did(n + 1, op, x)' <=> Did(n, op, x) \/ (c.op = op /\ c.on = x)
      /\ \A g : DidGroup(n + 1, g)' <=> DidGroup(n, g) \/ (c.op = "vgcreate" /\ c.on[1] = g)
      /\ \A d : DidGroupOn(n + 1, d)' <=> DidGroupOn(n, d) \/ (c.op = "vgcreate" /\ c.on[2] = d)
  BY DidMore
<1>2. n \in Nat /\ applied'[n + 1] = c /\ \A i \in 1 .. n : applied'[i] = applied[i]
  BY AppendProperties, LenProperties
<1>3. \A d \in Dev : disk'[d] = "pv" <=> born'.host.disk[d] = "pv" \/ Did(n + 1, "pvcreate", d)'
  BY <1>1, ChangeCases DEF HostOK, HostSince, Does
<1>4. \A d \in Dev : group'[d] # born'.host.group[d] => DidGroupOn(n + 1, d)'
  BY <1>1, ChangeCases DEF HostOK, HostSince, Does
<1>5. ASSUME NEW i \in 1 .. n + 1, applied'[i].op = "vgcreate"
      PROVE  group'[applied'[i].on[2]] = applied'[i].on[1]
  <2>1. i \in 1 .. n \/ i = n + 1
    BY <1>2
  <2>2. CASE i = n + 1
    BY <1>2, <1>5, <2>2, ChangeCases DEF HostOK, Does
  <2>3. CASE i \in 1 .. n
    <3>1. applied'[i] = applied[i] /\ applied[i] \in Change /\ group[applied[i].on[2]] = applied[i].on[1]
      BY <1>2, <1>5, <2>3, LenProperties DEF HostSince
    <3>2. c.op = "vgcreate" => applied[i].on[2] # c.on[2]
      BY <1>5, <2>3, <3>1 DEF Alone, DidGroupOn
    <3>3. applied[i].on[2] \in Dev
      BY <1>5, <3>1, ChangeCases
    <3>. QED
      BY <3>1, <3>2, <3>3, ChangeCases DEF HostOK, Does
  <2>. QED
    BY <2>1, <2>2, <2>3
<1>6. /\ \A g \in VG : g \in vgs' <=> g \in born'.host.vgs \/ DidGroup(n + 1, g)'
      /\ \A l \in LV : l \in lvs' <=> l \in born'.host.lvs \/ Did(n + 1, "lvcreate", l)'
      /\ \A l \in LV : l \in mounted' <=> l \in born'.host.mounted \/ Did(n + 1, "mount", l)'
      /\ \A l \in LV : l \in fstab' => l \in born'.host.fstab \/ Did(n + 1, "fstab", l)'
  BY <1>1 DEF HostSince, Does
<1>. QED
  BY <1>3, <1>4, <1>5, <1>6 DEF HostSince

\* Undoing the last change that stands takes what it made, and only that.
LEMMA UndoesSince ==
  ASSUME HostOK, Coherent(born.host), FoundIsKept, applied \in Seq(Change),
         NEW n \in 1 .. Len(applied), HostSince(n), NEW c \in Change, c = applied[n],
         Alone(c, n - 1), Made(c), AskedOfBorn(c),
         UNCHANGED <<applied, born, layout>>
  PROVE  UndoWorks(c) /\ (Undoes(c) => HostSince(n - 1)')
<1>0. n \in Nat \ {0} /\ n - 1 \in Nat /\ NoVG \notin VG
  BY DiskAssumption, LenProperties
<1>1. /\ \A op, x : Did(n, op, x) <=> Did(n - 1, op, x)' \/ (c.op = op /\ c.on = x)
      /\ \A g : DidGroup(n, g) <=> DidGroup(n - 1, g)' \/ (c.op = "vgcreate" /\ c.on[1] = g)
      /\ \A d : DidGroupOn(n, d) <=> DidGroupOn(n - 1, d)' \/ (c.op = "vgcreate" /\ c.on[2] = d)
  BY <1>0, DidLess
<1>2. /\ \A op, x : Did(n - 1, op, x)' <=> Did(n - 1, op, x)
      /\ \A x : (DidGroup(n - 1, x)' <=> DidGroup(n - 1, x)) /\ (DidGroupOn(n - 1, x)' <=> DidGroupOn(n - 1, x))
      /\ \A l : Home(l)' = Home(l)
  BY DEF Did, DidGroup, DidGroupOn, Home
<1>3. UNCHANGED born /\ \A i \in 1 .. n - 1 : applied'[i] = applied[i] /\ applied[i] \in Change /\ i \in 1 .. n
  BY <1>0, LenProperties
<1>4. CASE c.op = "pvcreate"
  <2>1. c.on \in Dev /\ born.host.disk[c.on] # "pv" /\ born.host.group[c.on] = NoVG
    BY <1>4, ChangeCases DEF Made, AskedOfBorn
  <2>2. ~Did(n - 1, "pvcreate", c.on)' /\ ~DidGroupOn(n - 1, c.on)'
    BY <1>2, <1>4 DEF Alone
  <2>3. disk[c.on] = "pv"
    BY <1>1, <1>4, <2>1 DEF HostSince
  <2>4. UndoWorks(c)
    BY <1>4, <2>3 DEF UndoWorks
  <2>5. group[c.on] = NoVG
    BY <1>1, <1>4, <2>1, <2>2 DEF HostSince
  <2>6. ASSUME Undoes(c) PROVE HostSince(n - 1)'
    <3>1. /\ disk' = [disk EXCEPT ![c.on] = "raw"] /\ group' = [group EXCEPT ![c.on] = NoVG]
          /\ UNCHANGED <<vgs, lvs, fstab, mounted>>
      BY <1>4, <2>6 DEF Undoes
    <3>2. group' = group
      BY <2>5, <3>1 DEF HostOK
    <3>3. \A d \in Dev : disk'[d] = "pv" <=> born'.host.disk[d] = "pv" \/ Did(n - 1, "pvcreate", d)'
      BY <1>1, <1>3, <1>4, <2>1, <2>2, <3>1 DEF HostOK, HostSince
    <3>. QED
      BY <1>1, <1>3, <1>4, <3>1, <3>2, <3>3 DEF HostSince
  <2>. QED
    BY <2>4, <2>6
<1>5. CASE c.op = "vgcreate"
  <2> DEFINE g == c.on[1]
             d == c.on[2]
  <2>1. g \in VG /\ d \in Dev /\ g \notin born.host.vgs
    BY <1>5, ChangeCases DEF Made
  <2>2. /\ ~DidGroup(n - 1, g)' /\ ~DidGroupOn(n - 1, d)'
        /\ \A l \in LV : Did(n - 1, "lvcreate", l)' => g \notin Home(l)
    BY <1>2, <1>5 DEF Alone
  <2>3. g \in vgs /\ group[d] = g
    BY <1>0, <1>1, <1>5, <2>1 DEF HostSince
  <2>4. \A l \in lvs : g \notin Home(l)
    BY <1>1, <1>5, <2>1, <2>2 DEF HostOK, HostSince, Coherent
  <2>5. UndoWorks(c)
    BY <1>5, <2>3, <2>4 DEF UndoWorks, HostOK
  <2> HIDE DEF g, d
  <2>6. ASSUME Undoes(c) PROVE HostSince(n - 1)'
    <3>1. /\ group' = [x \in Dev |-> IF group[x] = g THEN NoVG ELSE group[x]]
          /\ vgs' = vgs \ {g} /\ lvs' = {l \in lvs : g \notin Home(l)}
          /\ UNCHANGED <<disk, fstab, mounted>>
      BY <1>5, <2>6 DEF Undoes, g
    <3>2. lvs' = lvs
      BY <2>4, <3>1
    <3>3. \A x \in Dev : group'[x] # born'.host.group[x] => DidGroupOn(n - 1, x)'
      <4>1. \A x \in Dev : born.host.group[x] # g
        BY <1>0, <2>1 DEF Coherent
      <4>2. \A x \in Dev : group[x] # born.host.group[x] => DidGroupOn(n - 1, x)' \/ x = d
        BY <1>1 DEF HostSince, d
      <4>. QED
        BY <1>3, <2>3, <3>1, <4>1, <4>2 DEF FoundIsKept
    <3>4. ASSUME NEW i \in 1 .. n - 1, applied'[i].op = "vgcreate"
          PROVE  group'[applied'[i].on[2]] = applied'[i].on[1]
      <4>1. applied'[i].on[1] # g
        BY <2>2, <3>4 DEF DidGroup
      <4>2. applied[i].on[2] \in Dev
        BY <1>3, <3>4, ChangeCases
      <4>. QED
        BY <1>3, <3>1, <3>4, <4>1, <4>2 DEF HostSince
    <3>5. \A x \in VG : x \in vgs' <=> x \in born'.host.vgs \/ DidGroup(n - 1, x)'
      BY <1>1, <1>3, <1>5, <2>1, <2>2, <3>1 DEF HostSince, g
    <3>. QED
      BY <1>1, <1>3, <1>5, <3>1, <3>2, <3>3, <3>4, <3>5 DEF HostSince
  <2>. QED
    BY <2>5, <2>6
<1>6. CASE c.op = "lvcreate"
  <2>1. c.on \in LV /\ c.on \notin born.host.lvs /\ ~Did(n - 1, "lvcreate", c.on)' /\ ~Did(n - 1, "mount", c.on)'
    BY <1>2, <1>6, ChangeCases DEF Made, Alone
  <2>2. c.on \in lvs /\ c.on \notin mounted
    BY <1>1, <1>6, <2>1 DEF HostSince, Coherent
  <2>3. UndoWorks(c)
    BY <1>6, <2>2 DEF UndoWorks
  <2>4. ASSUME Undoes(c) PROVE HostSince(n - 1)'
    <3>1. lvs' = lvs \ {c.on} /\ UNCHANGED <<disk, group, vgs, fstab, mounted>>
      BY <1>6, <2>4 DEF Undoes
    <3>. QED
      BY <1>1, <1>3, <1>6, <2>1, <3>1 DEF HostSince
  <2>. QED
    BY <2>3, <2>4
<1>7. CASE c.op \in {"mkfs", "fstab", "error"}
  <2>1. UndoWorks(c)
    BY <1>7 DEF UndoWorks
  <2>2. ASSUME Undoes(c) PROVE HostSince(n - 1)'
    <3>1. /\ UNCHANGED <<disk, group, vgs, lvs, mounted>>
          /\ fstab' = IF c.op = "fstab" THEN fstab \ {c.on} ELSE fstab
      BY <1>7, <2>2 DEF Undoes
    <3>. QED
      BY <1>1, <1>3, <1>7, <3>1 DEF HostSince
  <2>. QED
    BY <2>1, <2>2
<1>8. CASE c.op = "mount"
  <2>1. c.on \in LV /\ c.on \notin born.host.mounted /\ ~Did(n - 1, "mount", c.on)'
    BY <1>2, <1>8, ChangeCases DEF Made, Alone
  <2>2. UndoWorks(c)
    BY <1>1, <1>8, <2>1 DEF HostSince, UndoWorks
  <2>3. ASSUME Undoes(c) PROVE HostSince(n - 1)'
    <3>1. mounted' = mounted \ {c.on} /\ UNCHANGED <<disk, group, vgs, lvs, fstab>>
      BY <1>8, <2>3 DEF Undoes
    <3>. QED
      BY <1>1, <1>3, <1>8, <2>1, <3>1 DEF HostSince
  <2>. QED
    BY <2>2, <2>3
<1>. QED
  BY <1>4, <1>5, <1>6, <1>7, <1>8, ChangeCases

\* Nothing has been made at the start.
LEMMA SinceNothing ==
  ASSUME HostNow = born.host
  PROVE  HostSince(0)
<1>1. \A i : i \notin 1 .. 0
  OBVIOUS
<1>. QED
  BY <1>1 DEF HostSince, HostNow, Did, DidGroup, DidGroupOn

\* The invariant holds at the start.
LEMMA InitRestore == Init => RestoreInv
<1> SUFFICES ASSUME Init PROVE RestoreInv
  OBVIOUS
<1>1. /\ HostNow = born.host /\ pc = "idle" /\ verb = "none" /\ plan = <<>> /\ applied = <<>>
      /\ born.host.group = group
  BY DEF Init, HostNow
<1>2. Len(plan) = 0 /\ Len(applied) = 0 /\ \A i : i \notin 1 .. 0
  BY <1>1
<1>3. InOrder
  BY <1>1, <1>2, InitTyped DEF InOrder, HostOK
<1>4. HostSince(Standing)
  BY <1>1, <1>2, SinceNothing DEF Standing
<1>. QED
  BY <1>1, <1>2, <1>3, <1>4 DEF RestoreInv, EachAlone

\* The applied changes stay the first of the plan.
LEMMA StepInOrder ==
  HostOK /\ ProcessOK /\ ProcessOK' /\ KeptInv /\ InOrder /\ [Next]_vars => InOrder'
<1> SUFFICES ASSUME HostOK, ProcessOK, ProcessOK', KeptInv, InOrder, [Next]_vars
             PROVE  InOrder'
  OBVIOUS
<1>0. /\ Len(plan) \in Nat /\ Len(applied) \in Nat /\ next \in Nat
      /\ applied \in Seq(Change)
  BY LenProperties DEF ProcessOK
<1>1. CASE Plan
  <2>1. applied = <<>> /\ UNCHANGED <<applied, born>> /\ verb' = "plan" /\ pc' \in {"idle", "planned"}
    BY <1>1 DEF Plan, KeptInv
  <2>2. Len(applied) = 0 /\ Len(plan') \in Nat
    BY <2>1, LenProperties DEF ProcessOK
  <2>. QED
    BY <2>1, <2>2 DEF InOrder
<1>2. CASE BeginApply
  BY <1>0, <1>2 DEF BeginApply, InOrder
<1>3. CASE ApplyChange
  <2>1. /\ applied' = Append(applied, plan[next]) /\ next = Len(applied) + 1 /\ next <= Len(plan)
        /\ next' = next + 1 /\ UNCHANGED <<pc, plan, verb, born>> /\ pc = "applying" /\ verb = "apply"
    BY <1>3 DEF ApplyChange, InOrder
  <2>2. /\ Len(applied') = Len(applied) + 1
        /\ \A i \in 1 .. Len(applied') : i \in 1 .. Len(applied) \/ i = next
        /\ \A i \in 1 .. Len(applied) : applied'[i] = applied[i]
        /\ applied'[next] = plan[next]
    BY <1>0, <2>1, AppendProperties
  <2>. QED
    BY <1>0, <2>1, <2>2 DEF InOrder
<1>4. CASE ApplyStops
  BY <1>0, <1>4 DEF ApplyStops, InOrder
<1>5. CASE ApplyReturns
  BY <1>0, <1>5 DEF ApplyReturns, InOrder
<1>6. CASE BeginRollback
  BY <1>0, <1>6 DEF BeginRollback, InOrder
<1>7. CASE UndoChange
  BY <1>0, <1>7 DEF UndoChange, InOrder, ProcessOK
<1>8. CASE UndoStops
  BY <1>0, <1>8 DEF UndoStops, InOrder, ProcessOK
<1>9. CASE RollbackReturns
  BY <1>0, <1>9 DEF RollbackReturns, InOrder
<1>10. CASE Restart
  <2>1. /\ plan' = <<>> /\ applied' = <<>> /\ pc' = "idle" /\ verb' = "none"
        /\ born'.host.group = group
    BY <1>10 DEF Restart, HostNow
  <2>2. Len(plan') = 0 /\ Len(applied') = 0
    BY <2>1
  <2>. QED
    BY <2>1, <2>2 DEF InOrder, HostOK
<1>11. CASE UNCHANGED vars
  BY <1>11 DEF vars, process, InOrder
<1>. QED
  BY <1>1, <1>2, <1>3, <1>4, <1>5, <1>6, <1>7, <1>8, <1>9, <1>10, <1>11 DEF Next

\* Every step keeps the invariant.
LEMMA StepRestore ==
  HostOK /\ Coherent(HostNow) /\ ProcessOK /\ ProcessOK' /\ KeptInv /\ RestoreInv /\ [Next]_vars
    => RestoreInv'
<1> SUFFICES ASSUME HostOK, Coherent(HostNow), ProcessOK, ProcessOK', KeptInv, RestoreInv, [Next]_vars
             PROVE  RestoreInv'
  OBVIOUS
<1>0. /\ Len(plan) \in Nat /\ Len(applied) \in Nat /\ next \in Nat
      /\ applied \in Seq(Change) /\ plan \in Seq(Change)
      /\ \A i \in 1 .. Len(applied) : applied[i] \in ToSet(applied) /\ applied[i] \in Change
  BY LenProperties DEF ProcessOK, ToSet
<1>1. InOrder /\ InOrder'
  BY StepInOrder DEF RestoreInv
<1>2. SUFFICES ASSUME Undisturbed', ClaimsAreDistinct'
               PROVE  /\ HostSince(Standing)'
                      /\ EachAlone'
                      /\ verb' = "rollback" => ret' = "ok"
                      /\ verb' = "rollback" /\ pc' = "idle" => next' = 0
  BY <1>1 DEF RestoreInv
<1>3. CASE Plan \/ Restart
  <2>1. verb' \in {"none", "plan"} /\ HostNow' = born'.host
    BY <1>3 DEF Plan, Restart, KeptInv, HostNow, host, lvm
  <2>2. applied' = <<>> /\ Len(applied') = 0 /\ Standing' = 0
    BY <1>1, <2>1 DEF InOrder, Standing
  <2>3. HostSince(0)'
    BY <2>1 DEF HostSince, HostNow, Did, DidGroup, DidGroupOn
  <2>4. EachAlone'
    BY <2>2 DEF EachAlone
  <2>. QED
    BY <2>1, <2>2, <2>3, <2>4
<1>4. ASSUME UNCHANGED <<born, plan>>, faults <= faults'
      PROVE  /\ Undisturbed /\ ClaimsAreDistinct /\ UNCHANGED faults
             /\ HostSince(Standing) /\ EachAlone
             /\ verb = "rollback" => ret = "ok"
             /\ verb = "rollback" /\ pc = "idle" => next = 0
             /\ \A c \in ToSet(applied) : Made(c) /\ AskedOfBorn(c)
  <2>1. Undisturbed /\ UNCHANGED faults
    BY <1>2, <1>4 DEF Undisturbed, KeptInv, ProcessOK
  <2>2. ClaimsAreDistinct
    BY <1>2, <1>4 DEF ClaimsAreDistinct
  <2>. QED
    BY <2>1, <2>2 DEF RestoreInv, KeptInv
<1>5. CASE BeginApply \/ ApplyReturns \/ BeginRollback \/ RollbackReturns \/ UNCHANGED vars
  <2>1. UNCHANGED <<host, layout, born, plan, applied, faults>>
    BY <1>5 DEF BeginApply, ApplyReturns, BeginRollback, RollbackReturns, vars, input, process
  <2>2. faults <= faults'
    BY <2>1 DEF ProcessOK
  <2>3. /\ Standing' = Standing
        /\ verb' = "rollback" => ret' = "ok"
        /\ verb' = "rollback" /\ pc' = "idle" => next' = 0
    <3>1. /\ verb = "rollback" => ret = "ok"
          /\ verb = "rollback" /\ pc = "idle" => next = 0
      BY <1>4, <2>1, <2>2
    <3>2. CASE BeginApply
      BY <1>1, <3>2 DEF BeginApply, Standing, InOrder
    <3>3. CASE ApplyReturns
      BY <1>1, <3>3 DEF ApplyReturns, Standing, InOrder
    <3>4. CASE BeginRollback
      BY <3>4 DEF BeginRollback, Standing
    <3>5. CASE RollbackReturns \/ UNCHANGED vars
      BY <3>1, <3>5 DEF RollbackReturns, vars, process, Standing
    <3>. QED
      BY <1>5, <3>2, <3>3, <3>4, <3>5
  <2>4. HostSince(Standing)' /\ EachAlone'
    BY <1>4, <2>1, <2>2, <2>3 DEF HostSince, EachAlone, Alone, Home, Did, DidGroup, DidGroupOn, host, lvm
  <2>. QED
    BY <1>4, <2>1, <2>2, <2>3, <2>4
<1>6. CASE ApplyChange
  <2>0. PICK c, n : c = plan[next] /\ n = Len(applied)
    OBVIOUS
  <2>1. /\ applied' = Append(applied, c) /\ UNCHANGED <<verb, pc, born, plan, layout, faults>>
        /\ Works(c) /\ Does(c) /\ pc = "applying" /\ verb = "apply"
        /\ next = n + 1 /\ next <= Len(plan)
    BY <1>1, <1>6, <2>0 DEF ApplyChange, InOrder, input
  <2>2. c \in Change /\ next \in DOMAIN plan
    BY <1>0, <2>0, <2>1, LenProperties
  <2>3. /\ ClaimsAreDistinct /\ HostSince(n) /\ EachAlone /\ Undisturbed
    BY <1>4, <2>0, <2>1 DEF Standing, ProcessOK
  <2>4. c.op = "pvcreate" => \A i \in 1 .. n : applied[i] # c
    <3>1. \A i \in 1 .. n : applied[i] = plan[i] /\ i # next /\ i \in DOMAIN plan
      BY <1>0, <1>1, <2>0, <2>1, LenProperties DEF InOrder
    <3>. QED
      BY <2>0, <2>2, <2>3, <3>1 DEF ClaimsAreDistinct
  <2>5. Made(c)
    <3>1. c \in ToSet(applied')
      BY <1>0, <2>1, <2>2, ToSetAppend
    <3>2. KeptInv'
      BY StepKept
    <3>. QED
      BY <2>1, <3>1, <3>2 DEF KeptInv, Made
  <2>6. Alone(c, n)
    BY <1>0, <2>0, <2>1, <2>2, <2>3, <2>4, AppliedAlone
  <2>7. HostSince(n + 1)'
    BY <1>0, <2>0, <2>1, <2>2, <2>3, <2>5, <2>6, DoesSince
  <2>8. Len(applied') = n + 1 /\ Standing' = n + 1
    BY <1>0, <2>0, <2>1, <2>2, AppendProperties DEF Standing
  <2>9. EachAlone'
    <3>1. /\ n \in Nat /\ applied'[n + 1] = c
          /\ \A i \in 1 .. n : applied'[i] = applied[i]
      BY <1>0, <2>0, <2>1, <2>2, AppendProperties
    <3>2. ASSUME NEW i \in 1 .. n + 1 PROVE Alone(applied[i], i - 1)'
      <4>1. \A x : \A j \in 0 .. n : Alone(x, j)' <=> Alone(x, j)
        <5>1. \A j \in 0 .. n : \A k \in 1 .. j : applied'[k] = applied[k]
          BY <3>1
        <5>2. \A j \in 0 .. n : \A op, x : Did(j, op, x)' <=> Did(j, op, x)
          BY <5>1 DEF Did
        <5>3. \A j \in 0 .. n : \A x : /\ DidGroup(j, x)' <=> DidGroup(j, x)
                                       /\ DidGroupOn(j, x)' <=> DidGroupOn(j, x)
          BY <5>1 DEF DidGroup, DidGroupOn
        <5>4. \A x : Home(x)' = Home(x)
          BY <2>1 DEF Home
        <5>. QED
          BY <5>2, <5>3, <5>4 DEF Alone
      <4>2. CASE i = n + 1
        BY <2>6, <3>1, <4>1, <4>2
      <4>3. CASE i # n + 1
        <5>1. i \in 1 .. n /\ i - 1 \in 0 .. n
          BY <3>1, <4>3
        <5>. QED
          BY <2>0, <2>3, <3>1, <4>1, <5>1 DEF EachAlone
      <4>. QED
        BY <4>2, <4>3
    <3>. QED
      BY <2>8, <3>2 DEF EachAlone
  <2>. QED
    BY <2>1, <2>7, <2>8, <2>9
<1>7. CASE ApplyStops
  <2>1. /\ UNCHANGED <<born, plan, applied, verb, layout, next>> /\ faults <= faults' /\ pc = "applying"
        /\ ((Works(plan[next]) /\ Fault) \/ UNCHANGED <<host, faults>>)
    BY <1>7 DEF ApplyStops, input, Fault, ProcessOK
  <2>2. UNCHANGED host /\ verb = "apply"
    BY <1>1, <1>4, <2>1 DEF Fault, ProcessOK, InOrder
  <2>3. HostSince(Standing) /\ EachAlone
    BY <1>4, <2>1
  <2>4. HostSince(Standing)' /\ EachAlone'
    BY <2>1, <2>2, <2>3 DEF HostSince, EachAlone, Alone, Home, Did, DidGroup, DidGroupOn, Standing, host, lvm
  <2>. QED
    BY <2>1, <2>2, <2>4
<1>8. CASE UndoChange \/ UndoStops
  <2>0. PICK c, n : c = applied[next] /\ n = next
    OBVIOUS
  <2>1. /\ UNCHANGED <<born, plan, applied, verb, layout>> /\ faults <= faults'
        /\ pc = "undoing" /\ n > 0 /\ verb = "rollback"
    BY <1>8, <2>0 DEF UndoChange, UndoStops, input, Fault, ProcessOK
  <2>2. /\ HostSince(n) /\ EachAlone /\ ret = "ok" /\ UNCHANGED faults
        /\ \A x \in ToSet(applied) : Made(x) /\ AskedOfBorn(x)
    BY <1>4, <2>0, <2>1 DEF Standing
  <2>3. n \in 1 .. Len(applied) /\ c \in Change /\ Alone(c, n - 1) /\ Made(c) /\ AskedOfBorn(c)
    <3>1. n \in 1 .. Len(applied)
      BY <1>0, <1>1, <2>0, <2>1 DEF InOrder
    <3>. QED
      BY <1>0, <2>0, <2>2, <3>1 DEF EachAlone
  <2>4. UndoWorks(c) /\ (Undoes(c) => HostSince(n - 1)')
    BY <1>0, <2>0, <2>1, <2>2, <2>3, UndoesSince DEF KeptInv
  <2>5. Undoes(c) /\ next' = n - 1 /\ UNCHANGED <<pc, ret>>
    <3>1. ~UndoStops
      BY <2>0, <2>2, <2>4 DEF UndoStops, Fault, ProcessOK
    <3>. QED
      BY <1>8, <2>0, <3>1 DEF UndoChange
  <2>6. EachAlone'
    BY <2>1, <2>2 DEF EachAlone, Alone, Home, Did, DidGroup, DidGroupOn
  <2>7. Standing' = n - 1
    BY <2>1, <2>5 DEF Standing
  <2>. QED
    BY <2>1, <2>2, <2>4, <2>5, <2>6, <2>7
<1>. QED
  BY <1>3, <1>5, <1>6, <1>7, <1>8 DEF Next

\* A Rollback that nothing disturbs takes back all that Apply made, and succeeds,
\* unless the plan had claimed one device twice.
THEOREM RollbackTakesBack == Spec => []RollbackRestores
<1>1. HostOK /\ KeptInv /\ RestoreInv => RollbackRestores
  <2> SUFFICES ASSUME HostOK, KeptInv, RestoreInv,
                      pc = "idle", verb = "rollback", Undisturbed, ClaimsAreDistinct
               PROVE  /\ ret = "ok"
                      /\ group = born.host.group /\ vgs = born.host.vgs /\ lvs = born.host.lvs
                      /\ fstab = born.host.fstab /\ mounted = born.host.mounted
                      /\ \A d \in Dev : disk[d] = "pv" <=> born.host.disk[d] = "pv"
    BY DEF RollbackRestores
  <2>1. ret = "ok" /\ HostSince(0) /\ born.host.group \in [Dev -> VG \union {NoVG}]
    BY DEF RestoreInv, Standing, InOrder
  <2>2. /\ \A op, x : ~Did(0, op, x)
        /\ \A x : ~DidGroup(0, x) /\ ~DidGroupOn(0, x)
    BY DEF Did, DidGroup, DidGroupOn
  <2>3. group = born.host.group
    BY <2>1, <2>2 DEF HostSince, HostOK
  <2>4. FoundIsKept
    BY DEF KeptInv
  <2>5. vgs = born.host.vgs /\ lvs = born.host.lvs /\ mounted = born.host.mounted
    BY <2>1, <2>2, <2>4 DEF HostSince, HostOK, FoundIsKept
  <2>6. fstab = born.host.fstab
    BY <2>1, <2>2, <2>4 DEF HostSince, HostOK, FoundIsKept
  <2>. QED
    BY <2>1, <2>2, <2>3, <2>5, <2>6 DEF HostSince
<1>. QED
  BY <1>1, InitTyped, StepTyped, InitKept, StepKept, InitRestore, StepRestore, PTL DEF Spec

-----------------------------------------------------------------------------
(* A retry converges. *)

\* The changes an entry and a volume may need.
Pv(i)      == [op |-> "pvcreate", on |-> layout[i].dev]
Vg(i)      == [op |-> "vgcreate", on |-> <<layout[i].vg, layout[i].dev>>]
On(op, l)  == [op |-> op, on |-> l]
VolumeOps  == {"lvcreate", "mkfs", "fstab", "mount"}
OfVolume(l) == {On(op, l) : op \in VolumeOps}
OfVolumes(i) == UNION {OfVolume(l) : l \in ToSet(layout[i].lvs)}
OfEntry(i)  == {Pv(i), Vg(i)} \union OfVolumes(i)
Wanted      == UNION {OfEntry(i) : i \in DOMAIN layout}

\* Which change must come before which,
Needs ==
  {<<Pv(i), Vg(i)>> : i \in DOMAIN layout}
  \union (UNION {{<<Vg(i), On("lvcreate", l)>> : l \in ToSet(layout[i].lvs)} : i \in DOMAIN layout})
  \union (UNION {{<<On("lvcreate", l), On("mkfs", l)>>, <<On("lvcreate", l), On("mount", l)>>,
                  <<On("fstab", l), On("mount", l)>>, <<On("mkfs", l), On("mount", l)>>} : l \in LV})

\* and which must not.
Wrong ==
  {<<c, c>> : c \in Change}
  \union {<<On("mount", l), On("mkfs", l)>> : l \in LV}
  \union {<<Vg(i), Pv(i)>> : i \in DOMAIN layout}

\* The changes a host has no need of.
Done(h) ==
  {c \in Change :
     CASE c.op = "pvcreate" -> h.disk[c.on] = "pv"
       [] c.op = "vgcreate" -> c.on[1] \in h.vgs
       [] c.op = "lvcreate" -> c.on \in h.lvs
       [] c.op = "mkfs" -> h.fs[c.on] = WantFS[c.on]
       [] c.op = "fstab" -> c.on \in h.fstab
       [] c.op = "mount" -> c.on \in h.mounted
       [] OTHER -> FALSE}

\* s does what is missing of W, in an order that works where the changes of G are done.
Plans(G, W, s) ==
  /\ s \in Seq(Change) /\ ToSet(s) = W \ Done(HostNow)
  /\ Founded(Needs, G, s) /\ Apart(Wrong, s)

\* One after the other,
LEMMA PlansConcat ==
  ASSUME NEW G, NEW W, NEW V, NEW s, NEW t, Done(HostNow) \subseteq G,
         Plans(G, W, s), Plans(G \union W, V, t), \A x \in W, y \in V : <<x, y>> \notin Wrong
  PROVE  Plans(G, W \union V, s \o t)
<1>1. /\ s \in Seq(Change) /\ t \in Seq(Change)
      /\ ToSet(s) = W \ Done(HostNow) /\ ToSet(t) = V \ Done(HostNow)
      /\ Founded(Needs, G, s) /\ Founded(Needs, G \union W, t) /\ Apart(Wrong, s) /\ Apart(Wrong, t)
  BY DEF Plans
<1>2. G \union W = G \union ToSet(s)
  BY <1>1
<1>3. s \o t \in Seq(Change) /\ ToSet(s \o t) = ToSet(s) \union ToSet(t)
  BY <1>1, ConcatProperties, ToSetConcat
<1>4. Founded(Needs, G, s \o t)
  BY <1>1, <1>2, FoundedConcat
<1>5. Apart(Wrong, s \o t)
  BY <1>1, ApartConcat
<1>. QED
  BY <1>1, <1>3, <1>4, <1>5 DEF Plans

\* one that is asked for where it is missing,
LEMMA PlansOnly ==
  ASSUME NEW G, NEW c \in Change, NEW p \in BOOLEAN, p <=> c \notin Done(HostNow),
         \A x : <<x, c>> \in Needs => x \in G
  PROVE  Plans(G, {c}, Only(p, c))
<1>1. <<>> \in Seq(Change) /\ <<c>> \in Seq(Change) /\ ToSet(<<>>) = {} /\ ToSet(<<c>>) = {c}
  BY EmptySeq, ToSetEmpty DEF ToSet
<1>2. /\ Founded(Needs, G, <<>>) /\ Founded(Needs, G, <<c>>)
      /\ Apart(Wrong, <<>>) /\ Apart(Wrong, <<c>>)
  BY DEF Founded, Apart
<1>. QED
  BY <1>1, <1>2 DEF Only, Plans

\* and any number.
LEMMA PlansFlatten ==
  ASSUME NEW G, NEW n \in Nat, NEW w, NEW W, NEW f \in [1 .. n -> Seq(Change)],
         \A i \in 1 .. n : Plans(G, w[i], f[i]),
         \A i, j \in 1 .. n : i < j => \A x \in w[i], y \in w[j] : <<x, y>> \notin Wrong,
         \A x : x \in W <=> \E i \in 1 .. n : x \in w[i]
  PROVE  Plans(G, W, FlattenSeq(f))
<1>1. \A i \in 1 .. n : ToSet(f[i]) = w[i] \ Done(HostNow) /\ Founded(Needs, G, f[i]) /\ Apart(Wrong, f[i])
  BY DEF Plans
<1>2. /\ FlattenSeq(f) \in Seq(Change)
      /\ \A x \in ToSet(FlattenSeq(f)) : \E i \in 1 .. n : x \in ToSet(f[i])
      /\ \A i \in 1 .. n : ToSet(f[i]) \subseteq ToSet(FlattenSeq(f))
  BY FlattenFunction
<1>3. ToSet(FlattenSeq(f)) = W \ Done(HostNow)
  <2>1. \A x \in ToSet(FlattenSeq(f)) : x \in W /\ x \notin Done(HostNow)
    BY <1>1, <1>2
  <2>2. ASSUME NEW x, x \in W, x \notin Done(HostNow)
        PROVE  x \in ToSet(FlattenSeq(f))
    <3>1. PICK i \in 1 .. n : x \in w[i]
      BY <2>2
    <3>2. x \in ToSet(f[i])
      BY <1>1, <2>2, <3>1
    <3>. QED
      BY <1>2, <3>2
  <2>. QED
    BY <2>1, <2>2
<1>4. Founded(Needs, G, FlattenSeq(f))
  BY <1>1, FoundedFlatten
<1>5. Apart(Wrong, FlattenSeq(f))
  <2>1. \A i, j \in 1 .. n : i < j => \A x \in ToSet(f[i]), y \in ToSet(f[j]) : <<x, y>> \notin Wrong
    BY <1>1
  <2>. QED
    BY <1>1, <2>1, ApartFlatten
<1>. QED
  BY <1>2, <1>3, <1>4, <1>5 DEF Plans

\* The layout as RetryConverges asks for it: a disk and a group of its own for
\* every entry, every volume once, every disk present.
Explicit ==
  \A i \in DOMAIN layout :
    /\ layout[i].dev # Tagged /\ IsInjective(layout[i].lvs)
    /\ \A j \in DOMAIN layout :
         layout[j].dev = layout[i].dev \/ layout[j].vg = layout[i].vg => i = j

\* An entry of such a layout.
LEMMA EntryType ==
  ASSUME layout \in Layouts, Explicit, NEW i \in DOMAIN layout
  PROVE  /\ layout[i].dev \in Dev /\ layout[i].vg \in VG
         /\ Len(layout[i].lvs) \in Nat /\ DOMAIN layout[i].lvs = 1 .. Len(layout[i].lvs)
         /\ \A k \in 1 .. Len(layout[i].lvs) : layout[i].lvs[k] \in LV
         /\ ToSet(layout[i].lvs) = {layout[i].lvs[k] : k \in 1 .. Len(layout[i].lvs)}
         /\ \A l \in ToSet(layout[i].lvs) : l \in LV
         /\ \A j, k \in 1 .. Len(layout[i].lvs) : layout[i].lvs[j] = layout[i].lvs[k] => j = k
         /\ Pv(i) \in Change /\ Vg(i) \in Change
<1>1. /\ layout[i].dev \in Dev \union {Tagged} /\ layout[i].vg \in VG
      /\ layout[i].lvs \in Seq(LV)
  BY LayoutType
<1>2. layout[i].dev \in Dev /\ IsInjective(layout[i].lvs)
  BY <1>1 DEF Explicit
<1>3. /\ Len(layout[i].lvs) \in Nat /\ DOMAIN layout[i].lvs = 1 .. Len(layout[i].lvs)
      /\ \A k \in 1 .. Len(layout[i].lvs) : layout[i].lvs[k] \in LV
  BY <1>1, LenProperties
<1>4. ToSet(layout[i].lvs) = {layout[i].lvs[k] : k \in 1 .. Len(layout[i].lvs)}
  BY <1>3 DEF ToSet
<1>5. \A j, k \in 1 .. Len(layout[i].lvs) : layout[i].lvs[j] = layout[i].lvs[k] => j = k
  BY <1>2, <1>3 DEF IsInjective
<1>6. Pv(i) \in Change /\ Vg(i) \in Change
  BY <1>1, <1>2 DEF Pv, Vg, Change
<1>. QED
  BY <1>1, <1>2, <1>3, <1>4, <1>5, <1>6

\* The changes of a volume.
LEMMA VolumeType ==
  ASSUME NEW l \in LV
  PROVE  /\ \A op \in VolumeOps : On(op, l) \in Change /\ On(op, l).op = op /\ On(op, l).on = l
         /\ OfVolume(l) = {On("lvcreate", l), On("mkfs", l), On("fstab", l), On("mount", l)}
BY DEF VolumeOps, On, OfVolume, Change

\* What comes before a change,
LEMMA NeedsOf ==
  ASSUME NEW x, NEW c, <<x, c>> \in Needs
  PROVE  /\ c.op \in {"vgcreate", "lvcreate", "mkfs", "mount"}
         /\ c.op = "vgcreate" => \E i \in DOMAIN layout : x = Pv(i) /\ c = Vg(i)
         /\ c.op = "lvcreate" => \E i \in DOMAIN layout : x = Vg(i) /\ c.on \in ToSet(layout[i].lvs)
         /\ c.op = "mkfs" => x = On("lvcreate", c.on)
         /\ c.op = "mount" => x \in {On("lvcreate", c.on), On("fstab", c.on), On("mkfs", c.on)}
<1>1. CASE \E i \in DOMAIN layout : <<x, c>> = <<Pv(i), Vg(i)>>
  BY <1>1 DEF Vg
<1>2. CASE \E i \in DOMAIN layout : \E l \in ToSet(layout[i].lvs) : <<x, c>> = <<Vg(i), On("lvcreate", l)>>
  BY <1>2 DEF On
<1>3. CASE \E l \in LV :
             <<x, c>> \in {<<On("lvcreate", l), On("mkfs", l)>>, <<On("lvcreate", l), On("mount", l)>>,
                          <<On("fstab", l), On("mount", l)>>, <<On("mkfs", l), On("mount", l)>>}
  BY <1>3 DEF On
<1>. QED
  BY <1>1, <1>2, <1>3 DEF Needs

\* and what must not.
LEMMA WrongOf ==
  ASSUME NEW x, NEW y, <<x, y>> \in Wrong
  PROVE  \/ x = y
         \/ \E l \in LV : x = On("mount", l) /\ y = On("mkfs", l)
         \/ \E i \in DOMAIN layout : x = Vg(i) /\ y = Pv(i)
BY DEF Wrong

\* A volume belongs to one entry.
LEMMA OneEntry ==
  ASSUME layout \in Layouts, Explicit, NEW i \in DOMAIN layout, NEW j \in DOMAIN layout,
         NEW l, l \in ToSet(layout[i].lvs), l \in ToSet(layout[j].lvs)
  PROVE  i = j
<1>1. layout[i].vg # layout[j].vg => ToSet(layout[i].lvs) \intersect ToSet(layout[j].lvs) = {}
  BY DiskAssumption
<1>. QED
  BY <1>1 DEF Explicit

\* What is done on the host is what Plan sees there.
LEMMA DoneSeen ==
  ASSUME HostOK
  PROVE  /\ \A c \in Change : c.op = "pvcreate" => (c \in Done(HostNow) <=> c.on \in Seen.pvs)
         /\ \A c \in Change : c.op = "vgcreate" => (c \in Done(HostNow) <=> c.on[1] \in Seen.vgs)
         /\ \A c \in Change : c.op = "lvcreate" => (c \in Done(HostNow) <=> c.on \in Seen.lvs)
         /\ \A c \in Change : c.op = "mkfs" => (c \in Done(HostNow) <=> Seen.fs[c.on] = WantFS[c.on])
         /\ \A c \in Change : c.op = "fstab" => (c \in Done(HostNow) <=> c.on \in Seen.fstab)
         /\ \A c \in Change : c.op = "mount" => (c \in Done(HostNow) <=> c.on \in Seen.mounted)
<1>1. \A c \in Change : c.op = "pvcreate" => c.on \in Dev
  BY ChangeCases
<1>. QED
  BY <1>1 DEF Done, Seen, HostNow

\* The changes of a volume are planned in order,
LEMMA VolumePlans ==
  ASSUME HostOK, NEW l \in LV, NEW G, Done(HostNow) \subseteq G,
         \A x : <<x, On("lvcreate", l)>> \in Needs => x \in G
  PROVE  Plans(G, OfVolume(l), PlanVolume(Seen, l))
<1> DEFINE A == On("lvcreate", l)
           B == On("mkfs", l)
           F == On("fstab", l)
           M == On("mount", l)
           a == Only(l \notin Seen.lvs, A)
           b == Only(Seen.fs[l] # WantFS[l], B)
           f == Only(l \notin Seen.fstab, F)
           m == Only(l \notin Seen.mounted, M)
<1>1. /\ A \in Change /\ A.op = "lvcreate" /\ A.on = l /\ B \in Change /\ B.op = "mkfs" /\ B.on = l
      /\ F \in Change /\ F.op = "fstab" /\ F.on = l /\ M \in Change /\ M.op = "mount" /\ M.on = l
      /\ OfVolume(l) = {A, B, F, M}
  BY VolumeType DEF VolumeOps
<1>2. /\ l \notin Seen.lvs <=> A \notin Done(HostNow)
      /\ Seen.fs[l] # WantFS[l] <=> B \notin Done(HostNow)
      /\ l \notin Seen.fstab <=> F \notin Done(HostNow)
      /\ l \notin Seen.mounted <=> M \notin Done(HostNow)
  BY <1>1, DoneSeen
<1>3. PlanVolume(Seen, l) = a \o b \o f \o m
  BY Zenon DEF PlanVolume, On
<1>4. /\ \A x : <<x, B>> \in Needs => x = A
      /\ \A x : <<x, F>> \notin Needs
      /\ \A x : <<x, M>> \in Needs => x \in {A, B, F}
  BY <1>1, NeedsOf
<1>5. \A x, y : <<x, y>> \in Wrong => x = y \/ x.op = "vgcreate" \/ (x.op = "mount" /\ y.op = "mkfs")
  BY WrongOf DEF On, Vg
<1> HIDE DEF A, B, F, M
<1>6. Plans(G, {A}, a)
  BY <1>1, <1>2, PlansOnly DEF A
<1>7. Plans(G \union {A}, {B}, b)
  BY <1>1, <1>2, <1>4, PlansOnly
<1>8. Plans(G \union {A, B}, {F}, f)
  BY <1>1, <1>2, <1>4, PlansOnly
<1>9. Plans(G \union {A, B, F}, {M}, m)
  BY <1>1, <1>2, <1>4, PlansOnly
<1> HIDE DEF a, b, f, m
<1>10. Plans(G, {A, B}, a \o b)
  <2>1. \A x \in {A}, y \in {B} : <<x, y>> \notin Wrong
    BY <1>1, <1>5
  <2>2. Plans(G, {A} \union {B}, a \o b)
    BY <1>6, <1>7, <2>1, PlansConcat
  <2>3. {A} \union {B} = {A, B}
    OBVIOUS
  <2>. QED
    BY <2>2, <2>3
<1>11. Plans(G, {A, B, F}, a \o b \o f)
  <2>1. \A x \in {A, B}, y \in {F} : <<x, y>> \notin Wrong
    BY <1>1, <1>5
  <2>2. Plans(G, {A, B} \union {F}, a \o b \o f)
    BY <1>8, <1>10, <2>1, PlansConcat
  <2>3. {A, B} \union {F} = {A, B, F}
    OBVIOUS
  <2>. QED
    BY <2>2, <2>3
<1>12. Plans(G, {A, B, F, M}, a \o b \o f \o m)
  <2>1. \A x \in {A, B, F}, y \in {M} : <<x, y>> \notin Wrong
    BY <1>1, <1>5
  <2>2. Plans(G, {A, B, F} \union {M}, a \o b \o f \o m)
    BY <1>9, <1>11, <2>1, PlansConcat
  <2>3. {A, B, F} \union {M} = {A, B, F, M}
    OBVIOUS
  <2>. QED
    BY <2>2, <2>3
<1>. QED
  BY <1>1, <1>3, <1>12

\* those of an entry,
LEMMA EntryPlans ==
  ASSUME HostOK, layout \in Layouts, Explicit, NEW i \in DOMAIN layout,
         disk[layout[i].dev] # "absent"
  PROVE  Plans(Done(HostNow), OfEntry(i), PlanEntry(Seen, i))
<1> DEFINE d == layout[i].dev
           G == Done(HostNow)
           P == Pv(i)
           V == Vg(i)
           n == Len(layout[i].lvs)
           vols == [k \in 1 .. n |-> PlanVolume(Seen, layout[i].lvs[k])]
           of == [k \in 1 .. n |-> OfVolume(layout[i].lvs[k])]
           p == Only(d \notin Seen.pvs, P)
           v == Only(layout[i].vg \notin Seen.vgs, V)
<1>1. /\ d \in Dev /\ n \in Nat /\ DOMAIN layout[i].lvs = 1 .. n
      /\ \A k \in 1 .. n : layout[i].lvs[k] \in LV /\ layout[i].lvs[k] \in ToSet(layout[i].lvs)
      /\ \A j, k \in 1 .. n : layout[i].lvs[j] = layout[i].lvs[k] => j = k
      /\ P \in Change /\ V \in Change
  <2>1. \A k \in 1 .. n : layout[i].lvs[k] \in ToSet(layout[i].lvs)
    <3>1. ToSet(layout[i].lvs) = {layout[i].lvs[k] : k \in 1 .. n}
      BY EntryType, Zenon
    <3>. QED
      BY <3>1
  <2>. QED
    BY <2>1, EntryType, Zenon
<1>2. PlanEntry(Seen, i) = p \o v \o FlattenSeq(vols)
  <2>1. DeviceOf(Seen, i) = d /\ d \in Seen.present
    BY <1>1 DEF DeviceOf, Explicit, Seen
  <2>2. PlanEntry(Seen, i) =
          Only(d \notin Seen.pvs, [op |-> "pvcreate", on |-> d])
          \o Only(layout[i].vg \notin Seen.vgs, [op |-> "vgcreate", on |-> <<layout[i].vg, d>>])
          \o FlattenSeq([k \in DOMAIN layout[i].lvs |-> PlanVolume(Seen, layout[i].lvs[k])])
    BY <2>1, Zenon DEF PlanEntry
  <2>. QED
    BY <1>1, <2>2, Zenon DEF Pv, Vg
<1>3. /\ P.op = "pvcreate" /\ P.on = d /\ V.op = "vgcreate" /\ V.on[1] = layout[i].vg
  BY DEF Pv, Vg
<1>4. /\ d \notin Seen.pvs <=> P \notin G
      /\ layout[i].vg \notin Seen.vgs <=> V \notin G
  BY <1>1, <1>3, DoneSeen
<1>5. Plans(G, {P}, p)
  BY <1>1, <1>3, <1>4, NeedsOf, PlansOnly
<1>6. Plans(G \union {P}, {V}, v)
  <2>1. \A x : <<x, V>> \in Needs => x = P
    BY <1>1, <1>3, NeedsOf DEF Pv, Vg
  <2>. QED
    BY <1>1, <1>4, <2>1, PlansOnly
<1>7. \A k \in 1 .. n : Plans(G \union {P, V}, of[k], vols[k])
  <2> SUFFICES ASSUME NEW k \in 1 .. n, NEW l, l = layout[i].lvs[k]
               PROVE  Plans(G \union {P, V}, OfVolume(l), PlanVolume(Seen, l))
    OBVIOUS
  <2>1. l \in LV /\ l \in ToSet(layout[i].lvs)
    BY <1>1
  <2>2. ASSUME NEW x, <<x, On("lvcreate", l)>> \in Needs PROVE x = V
    <3>1. On("lvcreate", l).op = "lvcreate" /\ On("lvcreate", l).on = l
      BY DEF On
    <3>2. PICK j \in DOMAIN layout : x = Vg(j) /\ l \in ToSet(layout[j].lvs)
      BY <2>2, <3>1, NeedsOf
    <3>. QED
      BY <2>1, <3>2, OneEntry
  <2>. QED
    BY <2>1, <2>2, VolumePlans
<1>8. ASSUME NEW x, NEW y, <<x, y>> \in Wrong
      PROVE  \/ x = y \/ (x.op = "vgcreate" /\ y.op = "pvcreate")
             \/ (x.op = "mount" /\ y.op = "mkfs" /\ x.on = y.on)
  BY <1>8, WrongOf DEF On, Vg, Pv
<1>9. \A k \in 1 .. n : \A c \in of[k] : c.on = layout[i].lvs[k] /\ c.op \in VolumeOps
  BY <1>1 DEF OfVolume, On
<1>10. ASSUME NEW j \in 1 .. n, NEW k \in 1 .. n, j < k, NEW x \in of[j], NEW y \in of[k]
       PROVE  <<x, y>> \notin Wrong
  <2>1. x.on = layout[i].lvs[j] /\ y.on = layout[i].lvs[k] /\ x.op # "vgcreate"
    BY <1>9 DEF VolumeOps
  <2>2. x.on # y.on
    BY <1>1, <1>10, <2>1
  <2>. QED
    BY <1>8, <2>1, <2>2
<1>11. \A x : x \in OfVolumes(i) <=> \E k \in 1 .. n : x \in of[k]
  <2>1. ToSet(layout[i].lvs) = {layout[i].lvs[k] : k \in 1 .. n}
    BY EntryType
  <2>. QED
    BY <2>1 DEF OfVolumes
<1>12. vols \in [1 .. n -> Seq(Change)]
  <2>1. \A k \in 1 .. n : vols[k] \in Seq(Change)
    BY <1>7 DEF Plans
  <2>. QED
    BY <2>1
<1>13. \A c \in OfVolumes(i) : c.op \in VolumeOps
  BY DEF OfVolumes, OfVolume, On
<1> HIDE DEF vols, of, p, v, P, V, G
<1>14. Plans(G \union {P, V}, OfVolumes(i), FlattenSeq(vols))
  <2> HIDE DEF n
  <2>. QED
    BY <1>1, <1>7, <1>10, <1>11, <1>12, PlansFlatten
<1>15. Plans(G, {P, V}, p \o v)
  <2>1. \A x \in {P}, y \in {V} : <<x, y>> \notin Wrong
    BY <1>3, <1>8
  <2>2. Plans(G, {P} \union {V}, p \o v)
    BY <1>5, <1>6, <2>1, PlansConcat DEF G
  <2>3. {P} \union {V} = {P, V}
    OBVIOUS
  <2>. QED
    BY <2>2, <2>3
<1>16. Plans(G, {P, V} \union OfVolumes(i), p \o v \o FlattenSeq(vols))
  <2>1. \A x \in {P, V}, y \in OfVolumes(i) : <<x, y>> \notin Wrong
    BY <1>3, <1>8, <1>13 DEF VolumeOps
  <2>. QED
    BY <1>14, <1>15, <2>1, PlansConcat DEF G
<1>. QED
  BY <1>2, <1>16 DEF OfEntry, P, V, G

\* and those of the layout.
LEMMA LayoutPlans ==
  ASSUME HostOK, layout \in Layouts, Explicit,
         \A i \in DOMAIN layout : disk[layout[i].dev] # "absent"
  PROVE  Plans(Done(HostNow), Wanted, Changes(Seen))
<1> DEFINE n == Len(layout)
           all == [i \in 1 .. n |-> PlanEntry(Seen, i)]
           of == [i \in 1 .. n |-> OfEntry(i)]
<1>1. n \in Nat /\ DOMAIN layout = 1 .. n
  BY LayoutType
<1>2. Changes(Seen) = FlattenSeq(all)
  BY <1>1 DEF Changes
<1>3. \A i \in 1 .. n : Plans(Done(HostNow), of[i], all[i])
  BY <1>1, EntryPlans
<1>4. all \in [1 .. n -> Seq(Change)]
  <2>1. \A i \in 1 .. n : all[i] \in Seq(Change)
    BY <1>3 DEF Plans
  <2>. QED
    BY <2>1
<1>5. \A x : x \in Wanted <=> \E i \in 1 .. n : x \in of[i]
  BY <1>1 DEF Wanted
<1>6. ASSUME NEW i \in 1 .. n, NEW j \in 1 .. n, i < j, NEW x \in of[i], NEW y \in of[j]
      PROVE  <<x, y>> \notin Wrong
  <2>0. i \in DOMAIN layout /\ j \in DOMAIN layout /\ i # j /\ x \in OfEntry(i) /\ y \in OfEntry(j)
    BY <1>1, <1>6
  <2>1. layout[i].dev # layout[j].dev /\ layout[i].vg # layout[j].vg
    BY <2>0 DEF Explicit
  <2>2. /\ x.op = "vgcreate" => x = Vg(i)
        /\ x.op = "pvcreate" => x = Pv(i)
        /\ x.op \notin {"vgcreate", "pvcreate"} => x.on \in ToSet(layout[i].lvs)
        /\ y.op = "vgcreate" => y = Vg(j)
        /\ y.op = "pvcreate" => y = Pv(j)
        /\ y.op \notin {"vgcreate", "pvcreate"} => y.on \in ToSet(layout[j].lvs)
    BY <2>0 DEF OfEntry, OfVolumes, OfVolume, On, VolumeOps, Pv, Vg
  <2>3. x.on \in ToSet(layout[i].lvs) /\ y.on \in ToSet(layout[j].lvs) => x.on # y.on
    BY <2>0, OneEntry
  <2>4. x # y
    BY <2>1, <2>2, <2>3 DEF Pv, Vg
  <2>5. ~ \E l \in LV : x = On("mount", l) /\ y = On("mkfs", l)
    BY <2>2, <2>3 DEF On
  <2>6. ~ \E k \in DOMAIN layout : x = Vg(k) /\ y = Pv(k)
    BY <2>1, <2>2 DEF Pv, Vg
  <2>. QED
    BY <2>4, <2>5, <2>6, WrongOf
<1>7. \A i, j \in 1 .. n : i < j => \A x \in of[i], y \in of[j] : <<x, y>> \notin Wrong
  BY <1>6, Zenon
<1> HIDE DEF n, all, of
<1>8. Plans(Done(HostNow), Wanted, FlattenSeq(all))
  <2> DEFINE G == Done(HostNow)
             W == Wanted
  <2>1. /\ \A i \in 1 .. n : Plans(G, of[i], all[i])
        /\ \A x : x \in W <=> \E i \in 1 .. n : x \in of[i]
    BY <1>3, <1>5
  <2> HIDE DEF G, W
  <2>2. Plans(G, W, FlattenSeq(all))
    BY <1>1, <1>4, <1>7, <2>1, PlansFlatten
  <2>. QED
    BY <2>2 DEF G, W
<1>. QED
  BY <1>2, <1>8

-----------------------------------------------------------------------------

\* Groups are made of physical volumes, what is mounted has the file system it
\* should, and a disk of the manifest is in its entry's group or in none.
InPlace(h) ==
  /\ \A d \in Dev : h.group[d] # NoVG => h.disk[d] = "pv"
  /\ \A l \in h.mounted : h.fs[l] = WantFS[l]
  /\ Explicit => \A i \in DOMAIN layout : h.group[layout[i].dev] \in {NoVG, layout[i].vg}

\* The plan is what was missing when the process began, in an order that works.
PlanFits ==
  /\ ToSet(plan) = Wanted \ Done(born.host)
  /\ Founded(Needs, Done(born.host), plan) /\ Apart(Wrong, plan)

\* What Apply has made of the file systems and of fstab.
FilesSince ==
  \A l \in LV :
    /\ l \in born.host.fstab \/ Did(Len(applied), "fstab", l) => l \in fstab
    /\ fs[l] = IF Did(Len(applied), "mkfs", l) THEN WantFS[l] ELSE born.host.fs[l]

\* The inductive invariant: an Apply that nothing disturbs carries out the plan.
ConvergeInv ==
  /\ InPlace(HostNow) /\ InPlace(born.host)
  /\ Explicit => \A c \in ToSet(plan) : c.op = "vgcreate" => \E i \in DOMAIN layout : c = Vg(i)
  /\ Undisturbed /\ Feasible =>
       /\ pc = "planned" \/ verb = "apply" => PlanFits /\ FilesSince /\ ret = "ok"
       /\ pc = "idle" /\ verb = "apply" => Len(applied) = Len(plan)

\* A feasible layout is explicit, and its disks are present.
LEMMA FeasibleExplicit ==
  Feasible <=> /\ Explicit /\ \A i \in DOMAIN layout : disk[layout[i].dev] # "absent"
               /\ \A l \in Volumes : born.host.fs[l] \in {NoFS, WantFS[l]}
<1>1. Feasible => /\ Explicit /\ \A i \in DOMAIN layout : disk[layout[i].dev] # "absent"
                  /\ \A l \in Volumes : born.host.fs[l] \in {NoFS, WantFS[l]}
  BY Zenon DEF Feasible, Explicit
<1>2. /\ Explicit /\ \A i \in DOMAIN layout : disk[layout[i].dev] # "absent"
      /\ \A l \in Volumes : born.host.fs[l] \in {NoFS, WantFS[l]}
      => Feasible
  BY Zenon DEF Feasible, Explicit
<1>. QED
  BY <1>1, <1>2

\* What is wanted.
LEMMA WantedCases ==
  ASSUME layout \in Layouts, Explicit, NEW c \in Wanted
  PROVE  /\ c \in Change /\ c.op # "error"
         /\ c.op = "pvcreate" => \E i \in DOMAIN layout : c = Pv(i)
         /\ c.op = "vgcreate" => \E i \in DOMAIN layout : c = Vg(i)
         /\ c.op \notin {"pvcreate", "vgcreate"} =>
              \E i \in DOMAIN layout : c.on \in ToSet(layout[i].lvs) /\ c = On(c.op, c.on)
<1>1. PICK i \in DOMAIN layout : c \in OfEntry(i)
  BY DEF Wanted
<1>2. CASE c \in {Pv(i), Vg(i)}
  <2>1. Pv(i) \in Change /\ Pv(i).op = "pvcreate" /\ Vg(i) \in Change /\ Vg(i).op = "vgcreate"
    <3>1. Pv(i) \in Change /\ Vg(i) \in Change
      BY EntryType
    <3>. QED
      BY <3>1 DEF Pv, Vg
  <2>. QED
    BY <1>2, <2>1
<1>3. CASE c \in OfVolumes(i)
  <2>1. PICK l \in ToSet(layout[i].lvs), op \in VolumeOps : c = On(op, l)
    BY <1>3 DEF OfVolumes, OfVolume
  <2>2. l \in LV
    BY EntryType
  <2>. QED
    BY <2>1, <2>2, VolumeType DEF VolumeOps
<1>. QED
  BY <1>1, <1>2, <1>3 DEF OfEntry

\* What a change does is told by its command and what it is run on.
LEMMA SameChange ==
  ASSUME NEW x \in Change, NEW op, NEW l, x.op = op, x.on = l
  PROVE  x = On(op, l)
BY DEF Change, On

\* No change of the plan that Apply reaches has been done before.
LEMMA WorksWhenReached ==
  ASSUME HostOK, Coherent(HostNow), ProcessOK, InOrder, InPlace(HostNow), InPlace(born.host),
         PlanFits, FilesSince, Feasible, NEW n, n = Len(applied), HostSince(n),
         next = n + 1, next <= Len(plan)
  PROVE  Works(plan[next])
<1> DEFINE c == plan[next]
<1>0. /\ n \in Nat /\ next \in DOMAIN plan /\ plan \in Seq(Change)
      /\ Explicit /\ layout \in Layouts
      /\ \A i \in 1 .. n : applied[i] = plan[i] /\ i \in DOMAIN plan /\ i < next /\ applied[i] \in Change
  <2>1. n \in Nat /\ Len(plan) \in Nat /\ DOMAIN plan = 1 .. Len(plan) /\ n <= Len(plan)
    BY LenProperties DEF ProcessOK, InOrder
  <2>2. \A i \in 1 .. n : applied[i] \in Change
    BY LenProperties DEF ProcessOK
  <2>. QED
    BY <2>1, <2>2, FeasibleExplicit DEF ProcessOK, InOrder
<1>1. c \in Wanted /\ c \in Change /\ c \notin Done(born.host)
  <2>1. c \in ToSet(plan) /\ c \in Change
    BY <1>0, LenProperties DEF ToSet
  <2>. QED
    BY <2>1 DEF PlanFits
<1>2. \A x : <<x, c>> \in Needs => x \in Done(born.host) \/ \E j \in 1 .. n : applied[j] = x
  <2>1. \A x : <<x, c>> \in Needs => x \in Done(born.host) \/ \E j \in 1 .. next - 1 : plan[j] = x
    BY <1>0 DEF PlanFits, Founded
  <2>2. next - 1 = n
    BY <1>0
  <2>. QED
    BY <1>0, <2>1, <2>2
<1>3. \A j \in 1 .. n : applied[j] \in Wanted /\ <<applied[j], c>> \notin Wrong
  <2> SUFFICES ASSUME NEW j \in 1 .. n PROVE applied[j] \in Wanted /\ <<applied[j], c>> \notin Wrong
    OBVIOUS
  <2>1. applied[j] = plan[j] /\ j \in DOMAIN plan /\ j < next
    BY <1>0
  <2>2. applied[j] \in ToSet(plan)
    BY <2>1 DEF ToSet
  <2>3. <<plan[j], plan[next]>> \notin Wrong
    BY <1>0, <2>1 DEF PlanFits, Apart
  <2>. QED
    BY <2>1, <2>2, <2>3 DEF PlanFits
<1> HIDE DEF c
<1>4. \A op, l : Did(n, op, l) => \E j \in 1 .. n : applied[j] = On(op, l)
  BY <1>0, SameChange DEF Did
<1>5. ~ \E j \in 1 .. n : applied[j] = c
  BY <1>1, <1>3 DEF Wrong
<1>6. CASE c.op = "pvcreate"
  <2>1. PICK i \in DOMAIN layout : c = Pv(i)
    BY <1>0, <1>1, <1>6, WantedCases
  <2>2. c.on = layout[i].dev /\ layout[i].dev \in Dev
    BY <1>0, <2>1, EntryType DEF Pv
  <2>3. disk[layout[i].dev] # "absent" /\ born.host.disk[layout[i].dev] # "pv"
    BY <1>1, <1>6, <2>2, FeasibleExplicit DEF Done
  <2>4. born.host.group[layout[i].dev] = NoVG
    BY <2>2, <2>3 DEF InPlace
  <2>5. ~DidGroupOn(n, layout[i].dev)
    <3> SUFFICES ASSUME NEW j \in 1 .. n, applied[j].op = "vgcreate", applied[j].on[2] = layout[i].dev
                 PROVE  FALSE
      BY DEF DidGroupOn
    <3>1. PICK k \in DOMAIN layout : applied[j] = Vg(k)
      BY <1>0, <1>3, WantedCases
    <3>2. layout[k].dev = layout[i].dev
      BY <3>1 DEF Vg
    <3>3. k = i
      BY <1>0, <3>2 DEF Explicit
    <3>. QED
      BY <1>3, <2>1, <3>1, <3>3 DEF Wrong
  <2>6. group[layout[i].dev] = NoVG
    BY <2>2, <2>4, <2>5 DEF HostSince
  <2>. QED
    BY <1>6, <2>2, <2>3, <2>6 DEF Works, c
<1>7. CASE c.op = "vgcreate"
  <2>1. PICK i \in DOMAIN layout : c = Vg(i)
    BY <1>0, <1>1, <1>7, WantedCases
  <2>2. /\ c.on[1] = layout[i].vg /\ c.on[2] = layout[i].dev
        /\ layout[i].vg \in VG /\ layout[i].dev \in Dev /\ Pv(i) \in Change
    BY <1>0, <2>1, EntryType DEF Vg
  <2>3. layout[i].vg \notin born.host.vgs
    BY <1>1, <1>7, <2>2 DEF Done
  <2>4. ~DidGroup(n, layout[i].vg)
    <3> SUFFICES ASSUME NEW j \in 1 .. n, applied[j].op = "vgcreate", applied[j].on[1] = layout[i].vg
                 PROVE  FALSE
      BY DEF DidGroup
    <3>1. PICK k \in DOMAIN layout : applied[j] = Vg(k)
      BY <1>0, <1>3, WantedCases
    <3>2. layout[k].vg = layout[i].vg
      BY <3>1 DEF Vg
    <3>3. k = i
      BY <1>0, <3>2 DEF Explicit
    <3>. QED
      BY <1>5, <2>1, <3>1, <3>3
  <2>5. layout[i].vg \notin vgs
    BY <2>2, <2>3, <2>4 DEF HostSince
  <2>6. disk[layout[i].dev] = "pv"
    <3>1. <<Pv(i), c>> \in Needs
      BY <2>1 DEF Needs
    <3>2. Pv(i) \in Done(born.host) \/ \E j \in 1 .. n : applied[j] = Pv(i)
      BY <1>2, <3>1
    <3>3. Pv(i).op = "pvcreate" /\ Pv(i).on = layout[i].dev
      BY DEF Pv
    <3>4. born.host.disk[layout[i].dev] = "pv" \/ Did(n, "pvcreate", layout[i].dev)
      BY <3>2, <3>3 DEF Done, Did
    <3>. QED
      BY <2>2, <3>4 DEF HostSince
  <2>7. group[layout[i].dev] = NoVG
    <3>1. group[layout[i].dev] \in {NoVG, layout[i].vg}
      BY <1>0 DEF InPlace, HostNow
    <3>2. group[layout[i].dev] # NoVG => group[layout[i].dev] \in vgs
      BY <2>2 DEF Coherent, HostNow
    <3>. QED
      BY <2>5, <3>1, <3>2
  <2>. QED
    BY <1>7, <2>2, <2>5, <2>6, <2>7 DEF Works, c
<1>8. ASSUME NEW op \in VolumeOps, c.op = op
      PROVE  /\ c.on \in LV /\ c = On(op, c.on) /\ ~Did(n, op, c.on)
             /\ \E i \in DOMAIN layout : c.on \in ToSet(layout[i].lvs)
  <2>1. PICK i \in DOMAIN layout : c.on \in ToSet(layout[i].lvs) /\ c = On(c.op, c.on)
    BY <1>0, <1>1, <1>8, WantedCases DEF VolumeOps
  <2>2. c.on \in LV
    BY <1>0, <2>1, EntryType
  <2>. QED
    BY <1>4, <1>5, <1>8, <2>1, <2>2
<1>9. \A op \in VolumeOps : \A l \in LV : <<On(op, l), c>> \in Needs =>
        On(op, l) \in Done(born.host) \/ Did(n, op, l)
  BY <1>2 DEF On, Did
<1>10. ASSUME c.op \in {"mkfs", "mount"}
       PROVE  c.on \in lvs
  <2>1. c.on \in LV /\ c = On(c.op, c.on)
    BY <1>8, <1>10 DEF VolumeOps
  <2>2. <<On("lvcreate", c.on), c>> \in Needs
    BY <1>10, <2>1 DEF Needs
  <2>3. On("lvcreate", c.on) \in Done(born.host) \/ Did(n, "lvcreate", c.on)
    BY <1>9, <2>1, <2>2 DEF VolumeOps
  <2>4. c.on \in born.host.lvs \/ Did(n, "lvcreate", c.on)
    BY <2>3 DEF Done, On
  <2>. QED
    BY <2>1, <2>4 DEF HostSince
<1>11. CASE c.op = "lvcreate"
  <2>1. c.on \in LV /\ c = On("lvcreate", c.on) /\ ~Did(n, "lvcreate", c.on)
    BY <1>8, <1>11 DEF VolumeOps
  <2>2. c.on \notin lvs
    BY <1>1, <1>11, <2>1 DEF Done, HostSince
  <2>3. ASSUME NEW k \in DOMAIN layout, c.on \in ToSet(layout[k].lvs)
        PROVE  layout[k].vg \in vgs
    <3>1. <<Vg(k), c>> \in Needs
      BY <2>1, <2>3 DEF Needs
    <3>2. Vg(k) \in Done(born.host) \/ \E j \in 1 .. n : applied[j] = Vg(k)
      BY <1>2, <3>1
    <3>3. Vg(k).op = "vgcreate" /\ Vg(k).on[1] = layout[k].vg
      BY DEF Vg
    <3>4. layout[k].vg \in born.host.vgs \/ DidGroup(n, layout[k].vg)
      BY <3>2, <3>3 DEF Done, DidGroup
    <3>. QED
      BY <1>0, <3>4, EntryType DEF HostSince
  <2>4. Home(c.on) \subseteq vgs
    BY <2>3 DEF Home
  <2>. QED
    BY <1>11, <2>2, <2>4 DEF Works, c
<1>12. CASE c.op = "mkfs"
  <2>1. c.on \in LV /\ c = On("mkfs", c.on)
    BY <1>8, <1>12 DEF VolumeOps
  <2>2. c.on \notin born.host.mounted
    BY <1>1, <1>12 DEF Done, InPlace
  <2>3. ~Did(n, "mount", c.on)
    BY <1>3, <1>4, <2>1 DEF Wrong
  <2>. QED
    BY <1>10, <1>12, <2>1, <2>2, <2>3 DEF HostSince, Works, c
<1>13. CASE c.op = "fstab"
  BY <1>13 DEF Works, c
<1>14. CASE c.op = "mount"
  <2>1. c.on \in LV /\ c = On("mount", c.on) /\ ~Did(n, "mount", c.on)
    BY <1>8, <1>14 DEF VolumeOps
  <2>2. c.on \notin mounted
    BY <1>1, <1>14, <2>1 DEF Done, HostSince
  <2>3. <<On("fstab", c.on), c>> \in Needs /\ <<On("mkfs", c.on), c>> \in Needs
    BY <2>1 DEF Needs
  <2>4. /\ On("fstab", c.on) \in Done(born.host) \/ Did(n, "fstab", c.on)
        /\ On("mkfs", c.on) \in Done(born.host) \/ Did(n, "mkfs", c.on)
    BY <1>9, <2>1, <2>3 DEF VolumeOps
  <2>5. /\ c.on \in born.host.fstab \/ Did(n, "fstab", c.on)
        /\ born.host.fs[c.on] = WantFS[c.on] \/ Did(n, "mkfs", c.on)
    BY <2>4 DEF Done, On
  <2>6. c.on \in fstab /\ fs[c.on] = WantFS[c.on]
    BY <2>1, <2>5 DEF FilesSince
  <2>. QED
    BY <1>10, <1>14, <2>2, <2>6 DEF Works, c
<1>. QED
  BY <1>0, <1>1, <1>6, <1>7, <1>11, <1>12, <1>13, <1>14, WantedCases, ChangeCases

\* The plan claims nothing twice.
LEMMA FitsClaimsOnce ==
  ASSUME plan \in Seq(Change), PlanFits
  PROVE  ClaimsAreDistinct
<1> SUFFICES ASSUME NEW i \in DOMAIN plan, NEW j \in DOMAIN plan, plan[i] = plan[j], i # j
             PROVE  FALSE
  BY DEF ClaimsAreDistinct
<1>1. DOMAIN plan = 1 .. Len(plan) /\ Len(plan) \in Nat /\ plan[i] \in Change
  BY LenProperties
<1>2. i < j \/ j < i
  BY <1>1
<1>3. <<plan[i], plan[j]>> \in Wrong /\ <<plan[j], plan[i]>> \in Wrong
  BY <1>1 DEF Wrong
<1>. QED
  BY <1>2, <1>3 DEF PlanFits, Apart

\* A change adds what it makes to the file systems and to fstab.
LEMMA DoesFiles ==
  ASSUME HostOK, applied \in Seq(Change), NEW c \in Change, Does(c), FilesSince,
         applied' = Append(applied, c), UNCHANGED born
  PROVE  FilesSince'
<1>0. PICK n : n = Len(applied)
  OBVIOUS
<1>1. \A op, x : Did(n + 1, op, x)' <=> Did(n, op, x) \/ (c.op = op /\ c.on = x)
  BY <1>0, DidMore
<1>2. Len(applied') = n + 1
  BY <1>0, AppendProperties
<1>3. \A l \in LV : l \in born'.host.fstab \/ Did(n + 1, "fstab", l)' => l \in fstab'
  BY <1>0, <1>1 DEF FilesSince, Does
<1>4. ASSUME NEW l \in LV
      PROVE  fs'[l] = IF Did(n + 1, "mkfs", l)' THEN WantFS[l] ELSE born'.host.fs[l]
  <2>1. CASE c.op = "mkfs" /\ c.on = l
    <3>1. fs' = [fs EXCEPT ![l] = WantFS[l]]
      BY <2>1 DEF Does
    <3>. QED
      BY <1>1, <2>1, <3>1 DEF HostOK
  <2>2. CASE ~(c.op = "mkfs" /\ c.on = l)
    <3>1. fs'[l] = fs[l]
      BY <2>2 DEF HostOK, Does
    <3>2. Did(n + 1, "mkfs", l)' <=> Did(n, "mkfs", l)
      BY <1>1, <2>2
    <3>. QED
      BY <1>0, <3>1, <3>2 DEF FilesSince
  <2>. QED
    BY <2>1, <2>2
<1>. QED
  BY <1>2, <1>3, <1>4 DEF FilesSince

\* The invariant holds at the start.
LEMMA InitConverge == Init => ConvergeInv
<1> SUFFICES ASSUME Init PROVE ConvergeInv
  OBVIOUS
<1>1. /\ HostNow = born.host /\ pc = "idle" /\ verb = "none" /\ plan = <<>> /\ HostOK
      /\ mounted = {} /\ layout \in Layouts
  BY InitTyped DEF Init, HostNow
<1>2. ASSUME Explicit, NEW i \in DOMAIN layout PROVE group[layout[i].dev] \in {NoVG, layout[i].vg}
  <2>1. layout[i].dev \in Dev
    BY <1>1, <1>2, EntryType
  <2>2. CASE NothingYet
    BY <2>1, <2>2 DEF NothingYet
  <2>3. ASSUME NEW d \in Dev, NEW l \in LV, NEW type \in FS \union {NoFS}, VolumeFound(d, l, type)
        PROVE  group[layout[i].dev] \in {NoVG, layout[i].vg}
    <3>1. /\ layout # <<>> /\ layout[1].dev \in {d, Tagged}
          /\ group = [x \in Dev |-> IF x = d THEN layout[1].vg ELSE NoVG]
      BY <2>3 DEF VolumeFound
    <3>2. 1 \in DOMAIN layout
      <4>1. layout \in Seq(Entries) /\ DOMAIN layout = 1 .. Len(layout) /\ Len(layout) \in Nat
        BY <1>1, LayoutType, DiskAssumption, LenProperties DEF Entries
      <4>2. Len(layout) # 0
        BY <3>1, <4>1, EmptySeq
      <4>. QED
        BY <4>1, <4>2
    <3>3. layout[1].dev = d
      BY <1>2, <3>1, <3>2 DEF Explicit
    <3>4. layout[i].dev = d => i = 1
      BY <1>2, <3>2, <3>3 DEF Explicit
    <3>. QED
      BY <2>1, <3>1, <3>4
  <2>. QED
    BY <2>2, <2>3 DEF Init
<1>3. InPlace(HostNow)
  BY <1>1, <1>2 DEF InPlace, HostNow, HostOK
<1>4. ToSet(plan) = {}
  BY <1>1, ToSetEmpty
<1>. QED
  BY <1>1, <1>3, <1>4 DEF ConvergeInv

\* A change leaves everything in its place,
LEMMA DoesInPlace ==
  ASSUME HostOK, HostOK', layout \in Layouts, NEW c \in Change, Works(c), Does(c), InPlace(HostNow),
         UNCHANGED layout, Explicit /\ c.op = "vgcreate" => \E i \in DOMAIN layout : c = Vg(i)
  PROVE  InPlace(HostNow)'
<1>1. \A d \in Dev : group'[d] # NoVG => disk'[d] = "pv"
  BY DEF HostOK
<1>2. ASSUME NEW l \in mounted' PROVE fs'[l] = WantFS[l]
  BY <1>2, ChangeCases DEF HostOK, Works, Does, InPlace, HostNow
<1>3. ASSUME Explicit, NEW i \in DOMAIN layout PROVE group'[layout[i].dev] \in {NoVG, layout[i].vg}
  <2>1. layout[i].dev \in Dev /\ group[layout[i].dev] \in {NoVG, layout[i].vg}
    BY <1>3, EntryType DEF InPlace, HostNow
  <2>2. CASE c.op = "vgcreate"
    <3>1. PICK k \in DOMAIN layout : c = Vg(k)
      BY <1>3, <2>2
    <3>2. group' = [group EXCEPT ![layout[k].dev] = layout[k].vg]
      BY <2>2, <3>1 DEF Does, Vg
    <3>3. layout[k].dev = layout[i].dev => k = i
      BY <1>3 DEF Explicit
    <3>. QED
      BY <2>1, <3>2, <3>3 DEF HostOK
  <2>3. CASE c.op # "vgcreate"
    BY <2>1, <2>3 DEF Does
  <2>. QED
    BY <2>2, <2>3
<1>4. Explicit' = Explicit
  BY DEF Explicit
<1>. QED
  BY <1>1, <1>2, <1>3, <1>4 DEF InPlace, HostNow

\* and so does its undo.
LEMMA UndoesInPlace ==
  ASSUME HostOK, HostOK', layout \in Layouts, NEW c \in Change, Undoes(c), InPlace(HostNow),
         UNCHANGED layout
  PROVE  InPlace(HostNow)'
<1>1. \A d \in Dev : group'[d] # NoVG => disk'[d] = "pv"
  BY DEF HostOK
<1>2. ASSUME NEW l \in mounted' PROVE fs'[l] = WantFS[l]
  <2>1. l \in mounted /\ l \in lvs' /\ l \in LV
    BY <1>2 DEF HostOK, Undoes
  <2>2. fs'[l] = fs[l]
    BY <2>1 DEF Undoes
  <2>. QED
    BY <2>1, <2>2 DEF InPlace, HostNow
<1>3. ASSUME Explicit, NEW i \in DOMAIN layout PROVE group'[layout[i].dev] \in {NoVG, layout[i].vg}
  <2>1. layout[i].dev \in Dev /\ group[layout[i].dev] \in {NoVG, layout[i].vg}
    BY <1>3, EntryType DEF InPlace, HostNow
  <2>. QED
    BY <2>1, ChangeCases DEF HostOK, Undoes
<1>4. Explicit' = Explicit
  BY DEF Explicit
<1>. QED
  BY <1>1, <1>2, <1>3, <1>4 DEF InPlace, HostNow

\* A group that Plan asks for is one of the layout, on the disk it names.
LEMMA GroupsAsked ==
  ASSUME layout \in Layouts, Explicit, NEW see, NEW c \in Change, c.op = "vgcreate", Asked(see, c)
  PROVE  \E i \in DOMAIN layout : c = Vg(i)
<1>1. PICK i \in DOMAIN layout : c.on = <<layout[i].vg, DeviceOf(see, i)>>
  BY DEF Asked
<1>2. DeviceOf(see, i) = layout[i].dev
  BY DEF DeviceOf, Explicit
<1>. QED
  BY <1>1, <1>2 DEF Change, Vg

\* Everything stays in its place.
LEMMA StepInPlace ==
  HostOK /\ HostOK' /\ ProcessOK /\ KeptInv /\ ConvergeInv /\ [Next]_vars
    => /\ InPlace(HostNow)' /\ InPlace(born.host)'
       /\ Explicit' => \A c \in ToSet(plan') : c.op = "vgcreate" => \E i \in DOMAIN layout' : c = Vg(i)'
<1> SUFFICES ASSUME HostOK, HostOK', ProcessOK, KeptInv, ConvergeInv, [Next]_vars
             PROVE  /\ InPlace(HostNow)' /\ InPlace(born.host)'
                    /\ Explicit' => \A c \in ToSet(plan') : c.op = "vgcreate" =>
                                      \E i \in DOMAIN layout' : c = Vg(i)'
  OBVIOUS
<1>0. UNCHANGED layout
  BY DEF Next, vars, input, Plan, BeginApply, ApplyChange, ApplyStops, ApplyReturns,
         BeginRollback, UndoChange, UndoStops, RollbackReturns, Restart
<1>1. /\ layout \in Layouts /\ ToSet(plan) \subseteq Change /\ ToSet(applied) \subseteq ToSet(plan)
      /\ InPlace(HostNow) /\ InPlace(born.host)
      /\ Explicit => \A c \in ToSet(plan) : c.op = "vgcreate" => \E i \in DOMAIN layout : c = Vg(i)
  BY ToSetType DEF ProcessOK, KeptInv, ConvergeInv
<1>2. /\ Explicit' = Explicit /\ DOMAIN layout' = DOMAIN layout
      /\ \A i : Vg(i)' = Vg(i)
  BY <1>0 DEF Explicit, Vg
<1>3. InPlace(HostNow)'
  <2>1. CASE UNCHANGED host
    BY <1>0, <1>1, <1>2, <2>1 DEF InPlace, HostNow, host, lvm
  <2>2. ASSUME NEW c \in ToSet(plan), Works(c), Does(c)
        PROVE  InPlace(HostNow)'
    <3>1. Explicit /\ c.op = "vgcreate" => \E i \in DOMAIN layout : c = Vg(i)
      BY <1>1
    <3>. QED
      BY <1>0, <1>1, <2>2, <3>1, DoesInPlace
  <2>3. ASSUME NEW c \in ToSet(applied), Undoes(c)
        PROVE  InPlace(HostNow)'
    BY <1>0, <1>1, <2>3, UndoesInPlace
  <2>. QED
    BY <2>1, <2>2, <2>3, HostSteps
<1>4. InPlace(born.host)'
  <2>1. CASE Restart
    <3>1. born'.host = HostNow
      BY <2>1 DEF Restart
    <3>. QED
      BY <1>0, <1>1, <1>2, <3>1 DEF InPlace
  <2>2. CASE UNCHANGED born
    BY <1>0, <1>1, <1>2, <2>2 DEF InPlace
  <2>. QED
    BY <2>1, <2>2 DEF Next, vars, Plan, BeginApply, ApplyChange, ApplyStops, ApplyReturns,
                      BeginRollback, UndoChange, UndoStops, RollbackReturns
<1>5. ASSUME Explicit, NEW c \in ToSet(plan'), c.op = "vgcreate"
      PROVE  \E i \in DOMAIN layout : c = Vg(i)
  <2>1. CASE UNCHANGED plan
    BY <1>1, <1>5, <2>1
  <2>2. CASE Restart
    BY <1>5, <2>2, ToSetEmpty DEF Restart
  <2>3. CASE Plan /\ ~UNCHANGED plan
    <3>1. PICK see \in {Seen} \union SeenAmiss : ~PlanErrs(see) /\ plan' = Changes(see)
      BY <2>3 DEF Plan
    <3>2. see.raw \subseteq Dev
      BY SeenRaw
    <3>3. Asked(see, c) /\ c \in Change
      BY <1>1, <1>5, <3>1, <3>2, PlanElements, ToSetType
    <3>. QED
      BY <1>1, <1>5, <3>3, GroupsAsked
  <2>. QED
    BY <2>1, <2>2, <2>3 DEF Next, vars, process, BeginApply, ApplyChange, ApplyStops, ApplyReturns,
                            BeginRollback, UndoChange, UndoStops, RollbackReturns
<1>. QED
  BY <1>2, <1>3, <1>4, <1>5

\* A working command makes no disk appear or disappear.
LEMMA StepPresent ==
  ASSUME HostOK, ProcessOK, [Next]_vars, NEW d \in Dev
  PROVE  disk'[d] = "absent" <=> disk[d] = "absent"
<1>1. CASE UNCHANGED host
  BY <1>1 DEF host, lvm
<1>2. ToSet(plan) \subseteq Change /\ ToSet(applied) \subseteq Change
  BY ToSetType DEF ProcessOK
<1>3. ASSUME NEW c \in Change, Works(c), Does(c)
      PROVE  disk'[d] = "absent" <=> disk[d] = "absent"
  BY <1>3, ChangeCases DEF HostOK, Works, Does
<1>4. ASSUME NEW c \in Change, UndoWorks(c), Undoes(c)
      PROVE  disk'[d] = "absent" <=> disk[d] = "absent"
  BY <1>4, ChangeCases DEF HostOK, UndoWorks, Undoes
<1>. QED
  BY <1>1, <1>2, <1>3, <1>4, HostSteps

\* A layout that is feasible after a step was so before it.
LEMMA StepFeasible ==
  ASSUME HostOK, ProcessOK, [Next]_vars, UNCHANGED <<layout, born>>, Feasible'
  PROVE  Feasible
<1>1. Explicit' = Explicit /\ Volumes' = Volumes
  BY DEF Explicit, Volumes
<1>2. /\ Explicit' /\ \A i \in DOMAIN layout' : disk'[layout'[i].dev] # "absent"
      /\ \A l \in Volumes' : born'.host.fs[l] \in {NoFS, WantFS[l]}
  BY Zenon DEF Feasible, Explicit
<1>3. Explicit /\ \A l \in Volumes : born.host.fs[l] \in {NoFS, WantFS[l]}
  BY <1>1, <1>2
<1>4. ASSUME NEW i \in DOMAIN layout PROVE disk[layout[i].dev] # "absent"
  <2>1. layout[i].dev \in Dev
    BY <1>3, EntryType DEF ProcessOK
  <2>2. disk'[layout[i].dev] # "absent"
    BY <1>2
  <2>. QED
    BY <2>1, <2>2, StepPresent
<1>. QED
  BY <1>3, <1>4, FeasibleExplicit

\* A process that sees everything plans what is missing.
LEMMA PlanMakesFit ==
  ASSUME HostOK, ProcessOK, KeptInv, Plan, Feasible, Undisturbed', pc' = "planned"
  PROVE  PlanFits' /\ ret' = "ok"
<1>1. PICK see \in {Seen} \union SeenAmiss :
        /\ IF see = Seen THEN UNCHANGED faults ELSE Fault
        /\ IF PlanErrs(see)
             THEN ret' = "error" /\ pc' = "idle" /\ verb' = "plan" /\ UNCHANGED plan
             ELSE ret' = "ok" /\ pc' = "planned" /\ verb' = "plan" /\ plan' = Changes(see)
  BY DEF Plan
<1>2. /\ faults \in Nat /\ born.faults \in Nat /\ born.faults <= faults
      /\ HostNow = born.host /\ layout \in Layouts
      /\ UNCHANGED <<born, layout>>
  BY DEF Plan, ProcessOK, KeptInv, input
<1>3. see = Seen
  BY <1>1, <1>2 DEF Fault, Undisturbed
<1>4. plan' = Changes(Seen) /\ ret' = "ok"
  BY <1>1, <1>3
<1>5. Plans(Done(HostNow), Wanted, Changes(Seen))
  BY <1>2, FeasibleExplicit, LayoutPlans
<1>6. Plans(Done(born.host), Wanted, plan')
  BY <1>2, <1>4, <1>5
<1>7. ToSet(plan') = Wanted \ Done(born.host) /\ Founded(Needs, Done(born.host), plan') /\ Apart(Wrong, plan')
  BY <1>2, <1>6 DEF Plans
<1>8. Wanted' = Wanted /\ Needs' = Needs /\ Wrong' = Wrong /\ Done(born.host)' = Done(born.host)
  BY <1>2 DEF Wanted, OfEntry, OfVolumes, Needs, Wrong, Done, Pv, Vg
<1>. QED
  BY <1>4, <1>7, <1>8 DEF PlanFits

\* Every step keeps the invariant.
LEMMA StepConverge ==
  HostOK /\ HostOK' /\ Coherent(HostNow) /\ ProcessOK /\ ProcessOK' /\ KeptInv /\ RestoreInv /\ RestoreInv'
    /\ ConvergeInv /\ [Next]_vars => ConvergeInv'
<1> SUFFICES ASSUME HostOK, HostOK', Coherent(HostNow), ProcessOK, ProcessOK', KeptInv,
                    RestoreInv, RestoreInv', ConvergeInv, [Next]_vars
             PROVE  ConvergeInv'
  OBVIOUS
<1>0. /\ Len(plan) \in Nat /\ Len(applied) \in Nat /\ next \in Nat
      /\ plan \in Seq(Change) /\ applied \in Seq(Change)
      /\ InPlace(HostNow) /\ InPlace(born.host) /\ InOrder /\ InOrder'
      /\ faults \in Nat /\ born.faults \in Nat /\ born.faults <= faults /\ layout \in Layouts
  BY LenProperties DEF ProcessOK, ConvergeInv, RestoreInv, KeptInv
<1>1. SUFFICES ASSUME Undisturbed', Feasible'
               PROVE  /\ pc' = "planned" \/ verb' = "apply" => PlanFits' /\ FilesSince' /\ ret' = "ok"
                      /\ pc' = "idle" /\ verb' = "apply" => Len(applied') = Len(plan')
  BY StepInPlace DEF ConvergeInv
<1>2. CASE Restart
  BY <1>2 DEF Restart
<1>3. CASE BeginRollback \/ UndoChange \/ UndoStops \/ RollbackReturns
  <2>1. verb' # "apply" /\ pc' # "planned"
    BY <1>0, <1>3 DEF BeginRollback, UndoChange, UndoStops, RollbackReturns, ProcessOK
  <2>. QED
    BY <2>1
<1>4. ASSUME UNCHANGED <<layout, born>>, faults <= faults'
      PROVE  /\ Undisturbed /\ UNCHANGED faults /\ Feasible
             /\ pc = "planned" \/ verb = "apply" => PlanFits /\ FilesSince /\ ret = "ok"
             /\ pc = "idle" /\ verb = "apply" => Len(applied) = Len(plan)
             /\ UNCHANGED plan /\ PlanFits => PlanFits'
  <2>0. faults' = born.faults
    BY <1>1, <1>4 DEF Undisturbed
  <2>1. Undisturbed /\ UNCHANGED faults
    BY <1>0, <1>4, <2>0 DEF Undisturbed
  <2>2. Feasible
    BY <1>1, <1>4, StepFeasible
  <2>3. Wanted' = Wanted /\ Needs' = Needs /\ Wrong' = Wrong /\ Done(born.host)' = Done(born.host)
    BY <1>4 DEF Wanted, OfEntry, OfVolumes, Needs, Wrong, Done, Pv, Vg
  <2>. QED
    BY <2>1, <2>2, <2>3 DEF ConvergeInv, PlanFits
<1>5. CASE Plan
  <2>1. UNCHANGED <<host, layout, born, applied>> /\ faults <= faults' /\ verb' = "plan"
    BY <1>0, <1>5 DEF Plan, input, Fault
  <2>2. Feasible
    BY <1>4, <2>1
  <2>3. pc' = "planned" => PlanFits' /\ ret' = "ok"
    BY <1>1, <1>5, <2>2, PlanMakesFit
  <2>4. FilesSince'
    <3>1. applied' = <<>> /\ HostNow = born.host
      BY <1>5, <2>1 DEF KeptInv, Plan
    <3>2. Len(applied') = 0 /\ \A i : i \notin 1 .. 0
      BY <3>1
    <3>3. \A op, x : ~Did(Len(applied), op, x)'
      BY <3>2 DEF Did
    <3>. QED
      BY <2>1, <3>1, <3>3 DEF FilesSince, HostNow, host, lvm
  <2>. QED
    BY <2>1, <2>3, <2>4
<1>6. CASE BeginApply \/ ApplyReturns \/ UNCHANGED vars
  <2>1. /\ UNCHANGED <<host, layout, born, plan, applied, faults>>
        /\ BeginApply \/ ApplyReturns \/ UNCHANGED <<pc, verb, ret>>
    BY <1>6 DEF BeginApply, ApplyReturns, vars, input, process
  <2>2. faults <= faults'
    BY <1>0, <2>1
  <2>3. /\ pc = "planned" \/ verb = "apply" => PlanFits' /\ FilesSince' /\ ret = "ok"
        /\ pc = "idle" /\ verb = "apply" => Len(applied') = Len(plan')
    <3>1. FilesSince => FilesSince'
      BY <2>1 DEF FilesSince, Did, host, lvm
    <3>. QED
      BY <1>4, <2>1, <2>2, <3>1
  <2>4. CASE BeginApply
    BY <2>3, <2>4 DEF BeginApply
  <2>5. CASE ApplyReturns
    <3>1. verb = "apply" /\ verb' = "apply" /\ pc' = "idle" /\ ret' = "ok"
      BY <1>0, <2>5 DEF ApplyReturns, InOrder
    <3>2. Len(applied) = Len(plan)
      BY <1>0, <2>5 DEF ApplyReturns, InOrder
    <3>. QED
      BY <2>1, <2>3, <3>1, <3>2
  <2>. QED
    BY <2>1, <2>3, <2>4, <2>5
<1>7. ASSUME pc = "applying", next <= Len(plan), UNCHANGED <<layout, born>>, faults <= faults'
      PROVE  Works(plan[next]) /\ plan[next] \in Change /\ PlanFits /\ FilesSince /\ verb = "apply" /\ ret = "ok"
  <2>1. verb = "apply" /\ next = Len(applied) + 1
    BY <1>0, <1>7 DEF InOrder
  <2>2. PlanFits /\ FilesSince /\ Feasible /\ Undisturbed /\ ret = "ok"
    BY <1>4, <1>7, <2>1
  <2>3. ClaimsAreDistinct
    BY <1>0, <2>2, FitsClaimsOnce
  <2>4. HostSince(Len(applied))
    BY <2>1, <2>2, <2>3 DEF RestoreInv, Standing
  <2>5. plan[next] \in Change
    BY <1>0, <1>7, <2>1, LenProperties
  <2>. QED
    BY <1>0, <1>7, <2>1, <2>2, <2>4, <2>5, WorksWhenReached
<1>8. CASE ApplyChange
  <2>1. /\ UNCHANGED <<layout, born, plan, verb, ret, pc, faults>> /\ faults <= faults'
        /\ pc = "applying" /\ next <= Len(plan)
        /\ applied' = Append(applied, plan[next]) /\ Does(plan[next])
    BY <1>0, <1>8 DEF ApplyChange, input
  <2>2. plan[next] \in Change /\ PlanFits /\ FilesSince /\ verb = "apply" /\ ret = "ok"
    BY <1>7, <2>1
  <2>3. FilesSince'
    BY <1>0, <2>1, <2>2, DoesFiles
  <2>. QED
    BY <1>4, <2>1, <2>2, <2>3
<1>9. CASE ApplyStops
  <2>1. /\ UNCHANGED <<layout, born>> /\ faults <= faults' /\ pc = "applying" /\ next <= Len(plan)
        /\ ~Works(plan[next]) \/ faults' = faults + 1
    BY <1>0, <1>9 DEF ApplyStops, input, Fault
  <2>2. Works(plan[next]) /\ UNCHANGED faults
    BY <1>4, <1>7, <2>1
  <2>. QED
    BY <1>0, <2>1, <2>2
<1>. QED
  BY <1>2, <1>3, <1>5, <1>6, <1>8, <1>9 DEF Next

\* A retry succeeds: an Apply that nothing disturbs brings a feasible layout about.
THEOREM RetrySucceeds == Spec => []RetryConverges
<1>1. HostOK /\ ProcessOK /\ KeptInv /\ RestoreInv /\ ConvergeInv => RetryConverges
  <2> SUFFICES ASSUME HostOK, ProcessOK, KeptInv, RestoreInv, ConvergeInv,
                      pc = "idle", verb = "apply", Undisturbed, Feasible
               PROVE  /\ ret = "ok"
                      /\ Volumes \subseteq lvs \intersect mounted \intersect fstab
                      /\ \A l \in Volumes : fs[l] = WantFS[l]
    BY DEF RetryConverges
  <2>0. PICK n : n = Len(applied)
    OBVIOUS
  <2>1. PlanFits /\ FilesSince /\ ret = "ok" /\ n = Len(plan)
    BY <2>0 DEF ConvergeInv
  <2>2. /\ HostSince(n) /\ \A i \in 1 .. n : applied[i] = plan[i]
        /\ layout \in Layouts /\ Explicit /\ DOMAIN plan = 1 .. n
    BY <2>0, <2>1, FitsClaimsOnce, FeasibleExplicit, LenProperties DEF RestoreInv, InOrder, Standing, ProcessOK
  <2>3. ASSUME NEW l \in Volumes, NEW op \in VolumeOps
        PROVE  l \in LV /\ (On(op, l) \in Done(born.host) \/ Did(n, op, l))
    <3>1. PICK i \in DOMAIN layout : l \in ToSet(layout[i].lvs)
      BY <2>3 DEF Volumes
    <3>2. l \in LV
      BY <2>2, <3>1, EntryType
    <3>3. On(op, l) \in Wanted
      BY <3>1 DEF Wanted, OfEntry, OfVolumes, OfVolume
    <3>4. ASSUME On(op, l) \in ToSet(plan) PROVE Did(n, op, l)
      <4>1. PICK k \in 1 .. n : plan[k] = On(op, l)
        BY <2>2, <3>4 DEF ToSet
      <4>2. applied[k] = On(op, l)
        BY <2>2, <4>1
      <4>. QED
        BY <4>2 DEF Did, On
    <3>. QED
      BY <2>1, <3>2, <3>3, <3>4 DEF PlanFits
  <2>4. ASSUME NEW l \in Volumes
        PROVE  l \in lvs /\ l \in mounted /\ l \in fstab /\ fs[l] = WantFS[l]
    <3>1. /\ l \in LV
          /\ On("lvcreate", l) \in Done(born.host) \/ Did(n, "lvcreate", l)
          /\ On("mkfs", l) \in Done(born.host) \/ Did(n, "mkfs", l)
          /\ On("fstab", l) \in Done(born.host) \/ Did(n, "fstab", l)
          /\ On("mount", l) \in Done(born.host) \/ Did(n, "mount", l)
      BY <2>3, <2>4 DEF VolumeOps
    <3>2. /\ l \in born.host.lvs \/ Did(n, "lvcreate", l)
          /\ born.host.fs[l] = WantFS[l] \/ Did(n, "mkfs", l)
          /\ l \in born.host.fstab \/ Did(n, "fstab", l)
          /\ l \in born.host.mounted \/ Did(n, "mount", l)
      BY <3>1 DEF Done, On
    <3>3. l \in lvs /\ l \in mounted
      BY <2>2, <3>1, <3>2 DEF HostSince
    <3>4. l \in fstab /\ fs[l] = WantFS[l]
      BY <2>0, <2>1, <3>1, <3>2 DEF FilesSince
    <3>. QED
      BY <3>3, <3>4
  <2>. QED
    BY <2>1, <2>4
<1>. QED
  BY <1>1, InitTyped, StepTyped, InitKept, StepKept, InitRestore, StepRestore, InitConverge, StepConverge,
     PTL DEF Spec
=============================================================================
