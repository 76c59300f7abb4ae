--------------------------- MODULE HostsFileProofs ---------------------------
(***************************************************************************)
(* What holds of /etc/hosts for any lines, blocks, edits and failures: the *)
(* lines of others are kept, an Apply that nothing disturbs converges and  *)
(* warns when it writes a block that is shadowed, and a Rollback restores  *)
(* the block.                                                              *)
(***************************************************************************)
EXTENDS HostsFile, SequenceTheorems, WellFoundedInduction, TLAPS

-----------------------------------------------------------------------------
(* Sequences. *)

\* Every set of naturals that is not empty has a first element.
LEMMA LeastNat ==
  ASSUME NEW S, S \subseteq Nat, S # {}
  PROVE  \E n \in S : \A m \in S : n <= m
<1>1. PICK n \in S : \A m \in S : <<m, n>> \notin OpToRel(<, Nat)
  BY NatLessThanWellFounded, WFMin
<1>2. \A m \in S : ~ (m < n)
  BY <1>1, Zenon DEF OpToRel
<1>3. \A m \in S : n <= m
  BY <1>2
<1>. QED
  BY <1>3, Zenon

\* The elements of a sequence over S are in S (o.applied, r.Applied).
LEMMA ToSetType ==
  ASSUME NEW S, NEW s \in Seq(S)
  PROVE  ToSet(s) \subseteq S
BY RangeOfSeq DEF ToSet, Range

\* The empty sequence has no elements.
LEMMA ToSetEmpty == ToSet(<<>>) = {}
BY DEF ToSet

\* What holds at 0 and goes on holding from one to the next holds up to n.
LEMMA CountsUp ==
  ASSUME NEW n \in Nat, NEW Good, 0 \in Good,
         \A i \in 1 .. n : i - 1 \in Good => i \in Good
  PROVE  \A i \in 0 .. n : i \in Good
<1> DEFINE Bad == {i \in 0 .. n : i \notin Good}
<1> SUFFICES ASSUME Bad # {} PROVE FALSE
  OBVIOUS
<1>1. PICK i \in Bad : \A m \in Bad : i <= m
  <2>1. Bad \subseteq Nat
    OBVIOUS
  <2>. QED
    BY <2>1, LeastNat, Zenon
<1>2. i \in 1 .. n /\ i - 1 \in 0 .. n /\ i - 1 < i
  BY <1>1
<1>3. i - 1 \in Good
  BY <1>1, <1>2
<1>. QED
  BY <1>1, <1>2, <1>3

-----------------------------------------------------------------------------
(* The lines of others. *)

\* f is the sequence of the other lines among the first 0, 1, ... n of s.
Keeps(s, n, f) ==
  f = [i \in 0 .. n |->
         IF i = 0 THEN <<>>
         ELSE IF s[i] \in Others THEN Append(f[i - 1], s[i]) ELSE f[i - 1]]

\* There is such an f for the first n of s.
LEMMA KeepsExist ==
  ASSUME NEW s, NEW n \in Nat
  PROVE  \E f : Keeps(s, n, f)
<1> DEFINE Bad == {k \in Nat : ~ \E f : Keeps(s, k, f)}
<1> SUFFICES ASSUME Bad # {} PROVE FALSE
  OBVIOUS
<1>1. PICK k \in Bad : \A m \in Bad : k <= m
  BY LeastNat
<1>2. k # 0
  <2> DEFINE f == [i \in 0 .. 0 |-> <<>>]
  <2>1. \A i \in 0 .. 0 : i = 0
    OBVIOUS
  <2>2. Keeps(s, 0, f)
    BY <2>1 DEF Keeps
  <2>. QED
    BY <2>2, <1>1
<1>3. k - 1 \in Nat /\ ~(k <= k - 1)
  BY <1>1, <1>2
<1>4. PICK f : Keeps(s, k - 1, f)
  BY <1>1, <1>3, Zenon
<1> DEFINE g == [i \in 0 .. k |-> IF i = k THEN IF s[k] \in Others THEN Append(f[k - 1], s[k]) ELSE f[k - 1]
                                  ELSE f[i]]
<1>5. \A i \in 0 .. k : g[i] = IF i = 0 THEN <<>>
                               ELSE IF s[i] \in Others THEN Append(g[i - 1], s[i]) ELSE g[i - 1]
  <2> SUFFICES ASSUME NEW i \in 0 .. k
               PROVE  g[i] = IF i = 0 THEN <<>>
                             ELSE IF s[i] \in Others THEN Append(g[i - 1], s[i]) ELSE g[i - 1]
    OBVIOUS
  <2>1. CASE i = k
    <3>1. i - 1 \in 0 .. k /\ i - 1 # k
      BY <1>2, <2>1
    <3>. QED
      BY <1>2, <2>1, <3>1
  <2>2. CASE i # k
    <3>1. i \in 0 .. k - 1 /\ (i # 0 => i - 1 \in 0 .. k /\ i - 1 # k)
      BY <2>2
    <3>2. f[i] = IF i = 0 THEN <<>>
                 ELSE IF s[i] \in Others THEN Append(f[i - 1], s[i]) ELSE f[i - 1]
      BY <1>4, <3>1 DEF Keeps
    <3>. QED
      BY <2>2, <3>1, <3>2
  <2>. QED
    BY <2>1, <2>2
<1>6. Keeps(s, k, g)
  <2>1. g = [i \in 0 .. k |-> g[i]]
    OBVIOUS
  <2>. QED
    BY <2>1, <1>5, Zenon DEF Keeps
<1>. QED
  BY <1>1, <1>6

\* f gives the other lines of the first 0, 1, ... n of s, and at n all of them.
Stepwise(s, n, f) ==
  /\ f[0] = <<>> /\ f[n] = OtherLines(s)
  /\ \A i \in 0 .. n : f[i] \in Seq(Others)
  /\ \A i \in 1 .. n : f[i] = IF s[i] \in Others THEN Append(f[i - 1], s[i]) ELSE f[i - 1]

\* The other lines of s, one line at a time.
LEMMA OtherLinesBySteps ==
  ASSUME NEW s \in Seq(Line), NEW n, n = Len(s)
  PROVE  \E f : Stepwise(s, n, f)
<1> DEFINE f == CHOOSE f : Keeps(s, n, f)
<1>0. n \in Nat
  BY LenProperties
<1>1. Keeps(s, n, f)
  BY <1>0, KeepsExist, Zenon
<1>2. OtherLines(s) = f[n]
  BY Zenon DEF OtherLines, Keeps
<1> HIDE DEF f
<1>3. \A i \in 0 .. n : f[i] = IF i = 0 THEN <<>>
                                    ELSE IF s[i] \in Others THEN Append(f[i - 1], s[i]) ELSE f[i - 1]
  BY <1>1 DEF Keeps
<1>4. f[0] = <<>>
  BY <1>0, <1>3
<1>5. \A i \in 1 .. n : f[i] = IF s[i] \in Others THEN Append(f[i - 1], s[i]) ELSE f[i - 1]
  BY <1>0, <1>3
<1> DEFINE Good == {i \in 0 .. n : f[i] \in Seq(Others)}
<1>6. 0 \in Good
  <2>1. 0 \in 0 .. n /\ <<>> \in Seq(Others)
    BY <1>0, EmptySeq
  <2>. QED
    BY <1>4, <2>1, Zenon
<1>7. \A i \in 1 .. n : i - 1 \in Good => i \in Good
  <2> SUFFICES ASSUME NEW i \in 1 .. n, i - 1 \in Good PROVE f[i] \in Seq(Others)
    BY <1>0
  <2>1. s[i] \in Others => Append(f[i - 1], s[i]) \in Seq(Others)
    BY AppendProperties
  <2>. QED
    BY <1>5, <2>1
<1>8. \A i \in 0 .. n : i \in Good
  <2> HIDE DEF Good
  <2>. QED
    BY <1>0, <1>6, <1>7, CountsUp, Zenon
<1>. QED
  BY <1>2, <1>4, <1>5, <1>8, Zenon DEF Stepwise

\* Appending to the second of two sequences is appending to both together.
LEMMA AppendConcat ==
  \A s, t \in Seq(Others), e \in Others : Append(s \o t, e) = s \o Append(t, e)
<1> SUFFICES ASSUME NEW s \in Seq(Others), NEW t \in Seq(Others), NEW e \in Others
             PROVE  Append(s \o t, e) = s \o Append(t, e)
  OBVIOUS
<1> DEFINE u == <<e>>
<1>1. u \in Seq(Others)
  OBVIOUS
<1>2. s \o t \in Seq(Others)
  BY ConcatProperties
<1>3. Append(s \o t, e) = (s \o t) \o u
  BY <1>2, AppendIsConcat
<1>4. Append(t, e) = t \o u
  BY AppendIsConcat
<1> HIDE DEF u
<1>5. (s \o t) \o u = s \o (t \o u)
  BY <1>1, ConcatAssociative
<1>. QED
  BY <1>3, <1>4, <1>5, Zenon

\* The other lines of two files, one behind the other.
LEMMA OtherLinesConcat ==
  ASSUME NEW s \in Seq(Line), NEW t \in Seq(Line)
  PROVE  OtherLines(s \o t) = OtherLines(s) \o OtherLines(t)
<1> DEFINE u == s \o t
<1>0. PICK a \in Nat, b \in Nat : a = Len(s) /\ b = Len(t)
  BY LenProperties
<1>1. u \in Seq(Line) /\ Len(u) = a + b
  BY <1>0, ConcatProperties
<1>2. /\ \A i \in 1 .. a : u[i] = s[i]
      /\ \A i \in 1 .. b : u[a + i] = t[i]
  BY <1>0, ConcatProperties
<1> HIDE DEF u
<1>3. PICK f : Stepwise(s, a, f)
  BY <1>0, OtherLinesBySteps, Zenon
<1>4. PICK g : Stepwise(t, b, g)
  BY <1>0, OtherLinesBySteps, Zenon
<1>5. PICK h : Stepwise(u, a + b, h)
  BY <1>1, OtherLinesBySteps
<1> DEFINE First == {i \in 0 .. a : h[i] = f[i]}
           Then == {i \in 0 .. b : h[a + i] = f[a] \o g[i]}
<1>6. a \in First
  <2>1. 0 \in First
    BY <1>3, <1>5 DEF Stepwise
  <2>2. \A i \in 1 .. a : i - 1 \in First => i \in First
    <3> SUFFICES ASSUME NEW i \in 1 .. a, h[i - 1] = f[i - 1] PROVE h[i] = f[i]
      OBVIOUS
    <3>1. i \in 1 .. a + b /\ u[i] = s[i]
      BY <1>2
    <3>. QED
      BY <1>3, <1>5, <3>1 DEF Stepwise
  <2>3. a \in 0 .. a
    OBVIOUS
  <2>. QED
    <3> HIDE DEF First
    <3>. QED
      BY <2>1, <2>2, <2>3, CountsUp, Zenon
<1>7. b \in Then
  <2>0. a \in 0 .. a /\ f[a] \in Seq(Others)
    BY <1>3 DEF Stepwise
  <2>1. 0 \in Then
    <3>1. f[a] \o <<>> = f[a]
      BY <2>0, ConcatEmptySeq
    <3>2. a + 0 = a /\ 0 \in 0 .. b /\ h[a] = f[a]
      BY <1>6
    <3>. QED
      BY <1>4, <3>1, <3>2, Zenon DEF Stepwise
  <2>2. \A i \in 1 .. b : i - 1 \in Then => i \in Then
    <3> SUFFICES ASSUME NEW i \in 1 .. b, h[a + (i - 1)] = f[a] \o g[i - 1] PROVE h[a + i] = f[a] \o g[i]
      <4>1. \A i \in 1 .. b : i \in 0 .. b
        OBVIOUS
      <4>. QED
        BY <4>1, Zenon
    <3>1. a + i \in 1 .. a + b /\ u[a + i] = t[i] /\ (a + i) - 1 = a + (i - 1) /\ g[i - 1] \in Seq(Others)
      BY <1>2, <1>4 DEF Stepwise
    <3>2. CASE t[i] \in Others
      <4>1. h[a + i] = Append(f[a] \o g[i - 1], t[i]) /\ g[i] = Append(g[i - 1], t[i])
        BY <1>4, <1>5, <3>1, <3>2 DEF Stepwise
      <4>2. Append(f[a] \o g[i - 1], t[i]) = f[a] \o Append(g[i - 1], t[i])
        BY <2>0, <3>1, <3>2, AppendConcat, Zenon
      <4>. QED
        BY <4>1, <4>2, Zenon
    <3>3. CASE t[i] \notin Others
      BY <1>4, <1>5, <3>1, <3>3 DEF Stepwise
    <3>. QED
      BY <3>2, <3>3
  <2>3. b \in 0 .. b
    OBVIOUS
  <2>. QED
    <3> HIDE DEF Then
    <3>. QED
      BY <2>1, <2>2, <2>3, CountsUp, Zenon
<1>. QED
  BY <1>3, <1>4, <1>5, <1>6, <1>7 DEF u, Stepwise

\* Where there are none, there are none.
LEMMA NoOtherLines ==
  ASSUME NEW s \in Seq(Line), \A i \in DOMAIN s : s[i] \notin Others
  PROVE  OtherLines(s) = <<>>
<1>0. PICK a \in Nat : a = Len(s) /\ DOMAIN s = 1 .. a
  BY LenProperties
<1>1. PICK f : Stepwise(s, a, f)
  BY <1>0, OtherLinesBySteps, Zenon
<1> DEFINE Good == {i \in 0 .. a : f[i] = <<>>}
<1>2. 0 \in Good
  BY <1>1 DEF Stepwise
<1>3. \A i \in 1 .. a : i - 1 \in Good => i \in Good
  BY <1>0, <1>1 DEF Stepwise
<1>4. a \in 0 .. a
  OBVIOUS
<1>5. a \in Good
  <2> HIDE DEF Good
  <2>. QED
    BY <1>2, <1>3, <1>4, CountsUp, Zenon
<1>. QED
  BY <1>1, <1>5 DEF Stepwise

\* The other lines are lines of others.
LEMMA OtherLinesType == ASSUME NEW s \in Seq(Line) PROVE OtherLines(s) \in Seq(Others)
<1>1. PICK n \in Nat : n = Len(s)
  BY LenProperties
<1>2. n \in 0 .. n
  OBVIOUS
<1>3. PICK f : Stepwise(s, n, f)
  BY <1>1, OtherLinesBySteps, Zenon
<1>. QED
  BY <1>2, <1>3, Zenon DEF Stepwise

-----------------------------------------------------------------------------
(* Markers. *)

\* The lines of a block: the entries, and what a write that failed left of one.
Inner == Entries \union {Blank}

\* The block of lines is between j and i, and nothing behind it is marked.
Sandwich(lines, j, i) ==
  /\ i \in DOMAIN lines /\ lines[i] = End
  /\ j \in DOMAIN lines /\ lines[j] = Begin
  /\ j < i
  /\ \A k \in DOMAIN lines : k > i => lines[k] \notin {Begin, End}
  /\ \A k \in DOMAIN lines : j < k /\ k < i => lines[k] \in Inner
  /\ \A k \in DOMAIN lines : k < i /\ lines[k] = End => \A m \in 1 .. k : lines[m] # Begin

\* Nothing in the block is a marker or another line.
LEMMA InnerLines ==
  /\ Inner \subseteq Line
  /\ Begin \notin Inner /\ End \notin Inner /\ Blank \in Inner /\ Entries \subseteq Inner
  /\ \A l \in Inner : l \notin Others
  /\ \A o \in Others : o \notin {Begin, End, Blank}
BY HostsAssumption DEF Inner, Line

\* What is the largest is what CHOOSE chooses.
LEMMA LargestIs ==
  ASSUME NEW S, S \subseteq Nat, NEW n \in S, \A j \in S : j <= n
  PROVE  Largest(S) = n
<1>1. \A i \in S : (\A j \in S : j <= i) => i = n
  <2> SUFFICES ASSUME NEW i \in S, \A j \in S : j <= i PROVE i = n
    OBVIOUS
  <2>1. n <= i /\ i <= n
    OBVIOUS
  <2>. QED
    BY <2>1
<1>2. /\ Largest(S) \in S
      /\ \A j \in S : j <= Largest(S)
  <2>1. \E i \in S : \A j \in S : j <= i
    OBVIOUS
  <2>. QED
    BY <2>1, Zenon DEF Largest
<1>. QED
  BY <1>1, <1>2

\* The smallest of one.
LEMMA SmallestOne == ASSUME NEW n \in Nat PROVE Smallest({n}) = n
BY DEF Smallest

\* The smallest of naturals is one of them.
LEMMA SmallestOf ==
  ASSUME NEW S, S \subseteq Nat, S # {}
  PROVE  Smallest(S) \in S /\ \A j \in S : Smallest(S) <= j
<1>1. \E i \in S : \A j \in S : i <= j
  BY LeastNat
<1>. QED
  BY <1>1, Zenon DEF Smallest

\* A bounded set of naturals that is not empty has a largest element.
LEMMA HasLargest ==
  ASSUME NEW n \in Nat, NEW S, S \subseteq 0 .. n, S # {}
  PROVE  \E m \in S : \A j \in S : j <= m
<1> DEFINE T == {n - k : k \in S}
<1>1. T \subseteq Nat /\ T # {}
  <2>1. \A k \in S : k \in 0 .. n /\ n - k \in Nat
    OBVIOUS
  <2>2. PICK k \in S : TRUE
    OBVIOUS
  <2>3. n - k \in T
    BY <2>2
  <2>. QED
    BY <2>1, <2>3
<1>2. PICK d \in T : \A t \in T : d <= t
  BY <1>1, LeastNat, Zenon
<1>3. PICK m \in S : d = n - m
  BY <1>2
<1>4. ASSUME NEW j \in S PROVE j <= m
  <2>1. n - j \in T /\ d <= n - j
    BY <1>2
  <2>. QED
    BY <1>3, <2>1
<1>. QED
  BY <1>4

\* Where a block ends, it is what extractBlock finds.
LEMMA SandwichBlock ==
  ASSUME NEW lines \in Seq(Line), NEW j, NEW i, Sandwich(lines, j, i)
  PROVE  /\ Ends(lines) = {i} /\ HasBlock(lines)
         /\ LastBegin(lines) = j /\ Smallest(Ends(lines)) = i
         /\ extractBlock(lines) = SubSeq(lines, j + 1, i - 1)
         /\ extractBlock(lines) \in Seq(Inner)
         /\ outsideBlock(lines) = SubSeq(lines, 1, j - 1) \o SubSeq(lines, i + 1, Len(lines))
         /\ WellMarked(lines)
<1>0. DOMAIN lines = 1 .. Len(lines) /\ Len(lines) \in Nat
  BY LenProperties
<1>1. /\ j \in 1 .. Len(lines) /\ i \in 1 .. Len(lines) /\ j < i /\ lines[j] = Begin /\ lines[i] = End
      /\ \A k \in 1 .. Len(lines) : k > i => lines[k] \notin {Begin, End}
      /\ \A k \in 1 .. Len(lines) : j < k /\ k < i => lines[k] \in Inner
      /\ \A k \in 1 .. Len(lines) : k < i /\ lines[k] = End => \A m \in 1 .. k : lines[m] # Begin
  BY <1>0, Zenon DEF Sandwich
<1>2. LastBegin(lines) = j
  <2>1. \A k \in IndicesOf(lines, Begin) : k \in Nat /\ k <= j
    BY <1>0, <1>1, InnerLines, HostsAssumption DEF IndicesOf
  <2>2. j \in IndicesOf(lines, Begin)
    BY <1>0, <1>1 DEF IndicesOf
  <2>. QED
    BY <2>1, <2>2, LargestIs DEF LastBegin
<1>3. Ends(lines) = {i}
  <2>1. i \in Ends(lines)
    BY <1>0, <1>1 DEF Ends, IndicesOf
  <2>2. \A k \in Ends(lines) : k = i
    <3> SUFFICES ASSUME NEW k \in 1 .. Len(lines), lines[k] = End,
                        NEW m \in 1 .. Len(lines), lines[m] = Begin, m < k
                 PROVE  k = i
      BY <1>0 DEF Ends, IndicesOf
    <3>1. ~(k > i) /\ ~(k < i)
      BY <1>1
    <3>. QED
      BY <1>1, <3>1
  <2>. QED
    BY <2>1, <2>2
<1>4. Smallest(Ends(lines)) = i
  BY <1>1, <1>3, SmallestOne
<1>5. HasBlock(lines)
  BY <1>1, <1>2, <1>3, <1>4 DEF HasBlock
<1>6. /\ extractBlock(lines) = SubSeq(lines, j + 1, i - 1)
      /\ outsideBlock(lines) = SubSeq(lines, 1, j - 1) \o SubSeq(lines, i + 1, Len(lines))
  BY <1>2, <1>4, <1>5 DEF extractBlock, outsideBlock
<1>7. SubSeq(lines, j + 1, i - 1) \in Seq(Inner)
  <2>1. \A k \in j + 1 .. i - 1 : lines[k] \in Inner
    BY <1>1
  <2>. QED
    BY <1>1, <2>1, SubSeqProperties
<1>8. WellMarked(lines)
  <2>1. ToSet(extractBlock(lines)) \subseteq Inner
    BY <1>6, <1>7, ToSetType
  <2>. QED
    BY <1>0, <1>1, <1>3, <2>1 DEF WellMarked, Inner
<1>. QED
  BY <1>2, <1>3, <1>4, <1>5, <1>6, <1>7, <1>8

\* Where no block ends, there is none.
LEMMA NoSandwich ==
  ASSUME NEW lines, Ends(lines) = {}
  PROVE  /\ extractBlock(lines) = <<>> /\ outsideBlock(lines) = lines
         /\ WellMarked(lines)
BY DEF HasBlock, extractBlock, outsideBlock, WellMarked

\* A file that is well marked has its block between two markers, if one ends.
LEMMA MarkedSandwich ==
  ASSUME NEW lines \in Seq(Line), WellMarked(lines), Ends(lines) # {}
  PROVE  \E j, i : Sandwich(lines, j, i)
<1>0. DOMAIN lines = 1 .. Len(lines) /\ Len(lines) \in Nat
  BY LenProperties
<1>1. PICK i \in Ends(lines) : TRUE
  OBVIOUS
<1>2. /\ i \in 1 .. Len(lines) /\ lines[i] = End
      /\ \A k \in 1 .. Len(lines) : k > i => lines[k] \notin {Begin, End}
      /\ ToSet(extractBlock(lines)) \subseteq Inner
  BY <1>0, <1>1 DEF Ends, IndicesOf, WellMarked, Inner
<1>3. PICK b \in IndicesOf(lines, Begin) : b < i
  BY <1>1 DEF Ends
<1>4. IndicesOf(lines, Begin) \subseteq 0 .. Len(lines)
  BY <1>0 DEF IndicesOf
<1>5. PICK j \in IndicesOf(lines, Begin) : \A k \in IndicesOf(lines, Begin) : k <= j
  BY <1>0, <1>3, <1>4, HasLargest
<1>6. LastBegin(lines) = j
  <2>1. IndicesOf(lines, Begin) \subseteq Nat
    BY <1>4
  <2>. QED
    BY <1>5, <2>1, LargestIs DEF LastBegin
<1>7. j \in 1 .. Len(lines) /\ lines[j] = Begin /\ j < i
  <2>1. j \in 1 .. Len(lines) /\ lines[j] = Begin
    BY <1>0, <1>5 DEF IndicesOf
  <2>2. ~(j > i) /\ j # i
    BY <1>2, <2>1, HostsAssumption
  <2>. QED
    BY <1>2, <2>1, <2>2
<1>8. \A k \in 1 .. Len(lines) : k < i /\ lines[k] = End => \A m \in 1 .. k : lines[m] # Begin
  <2> SUFFICES ASSUME NEW k \in 1 .. Len(lines), k < i, lines[k] = End,
                      NEW m \in 1 .. k, lines[m] = Begin
               PROVE  FALSE
    OBVIOUS
  <2>1. m \in 1 .. Len(lines) /\ m < k
    BY <1>0, HostsAssumption
  <2>2. k \in Ends(lines)
    BY <1>0, <2>1 DEF Ends, IndicesOf
  <2>3. \A n \in DOMAIN lines : n > k => lines[n] \notin {Begin, End}
    BY <2>2 DEF WellMarked
  <2>. QED
    BY <1>0, <1>2, <2>3
<1>9. Ends(lines) = {i}
  <2> SUFFICES ASSUME NEW k \in Ends(lines) PROVE k = i
    BY <1>1
  <2>1. k \in 1 .. Len(lines) /\ lines[k] = End /\ \E m \in 1 .. Len(lines) : lines[m] = Begin /\ m < k
    BY <1>0 DEF Ends, IndicesOf
  <2>2. ~(k > i)
    BY <1>2, <2>1
  <2>3. ~(k < i)
    BY <1>0, <1>8, <2>1
  <2>. QED
    BY <1>2, <2>1, <2>2, <2>3
<1>10. Smallest(Ends(lines)) = i
  BY <1>2, <1>9, SmallestOne
<1>11. extractBlock(lines) = SubSeq(lines, j + 1, i - 1)
  BY <1>1, <1>6, <1>7, <1>10 DEF HasBlock, extractBlock
<1>12. \A k \in 1 .. Len(lines) : j < k /\ k < i => lines[k] \in Inner
  <2> SUFFICES ASSUME NEW k \in 1 .. Len(lines), j < k, k < i PROVE lines[k] \in Inner
    OBVIOUS
  <2>1. \A n \in j + 1 .. i - 1 : lines[n] \in Line
    BY <1>0, <1>2, <1>7, ElementOfSeq
  <2>2. /\ SubSeq(lines, j + 1, i - 1) \in Seq(Line)
        /\ Len(SubSeq(lines, j + 1, i - 1)) = i - 1 - j
        /\ SubSeq(lines, j + 1, i - 1)[k - j] = lines[k]
    BY <1>2, <1>7, <2>1, SubSeqProperties
  <2>3. k - j \in DOMAIN SubSeq(lines, j + 1, i - 1)
    <3>1. k - j \in 1 .. i - 1 - j
      BY <1>2, <1>7
    <3>2. DOMAIN SubSeq(lines, j + 1, i - 1) = 1 .. i - 1 - j
      BY <2>2, LenProperties
    <3>. QED
      BY <3>1, <3>2
  <2>4. lines[k] \in ToSet(extractBlock(lines))
    BY <1>11, <2>2, <2>3 DEF ToSet
  <2>. QED
    BY <1>2, <2>4
<1>. QED
  BY <1>0, <1>2, <1>7, <1>8, <1>12 DEF Sandwich

-----------------------------------------------------------------------------
(* What is outside the block, and a file put together again. *)

\* One sequence of lines and another behind it, line by line.
LEMMA Together ==
  \A s, t \in Seq(Line) :
    /\ Len(s) \in Nat /\ Len(t) \in Nat
    /\ s \o t \in Seq(Line) /\ Len(s \o t) = Len(s) + Len(t) /\ DOMAIN (s \o t) = 1 .. Len(s) + Len(t)
    /\ \A k \in 1 .. Len(s) : (s \o t)[k] = s[k]
    /\ \A k \in 1 .. Len(s) + Len(t) : k \notin 1 .. Len(s) =>
         k - Len(s) \in 1 .. Len(t) /\ (s \o t)[k] = t[k - Len(s)]
<1> SUFFICES ASSUME NEW s \in Seq(Line), NEW t \in Seq(Line)
             PROVE  /\ Len(s) \in Nat /\ Len(t) \in Nat
                    /\ s \o t \in Seq(Line) /\ Len(s \o t) = Len(s) + Len(t)
                    /\ DOMAIN (s \o t) = 1 .. Len(s) + Len(t)
                    /\ \A k \in 1 .. Len(s) : (s \o t)[k] = s[k]
                    /\ \A k \in 1 .. Len(s) + Len(t) : k \notin 1 .. Len(s) =>
                         k - Len(s) \in 1 .. Len(t) /\ (s \o t)[k] = t[k - Len(s)]
  BY Zenon
<1>1. Len(s) \in Nat /\ Len(t) \in Nat
  BY LenProperties
<1>2. /\ s \o t \in Seq(Line) /\ Len(s \o t) = Len(s) + Len(t)
      /\ \A k \in 1 .. Len(s) + Len(t) : (s \o t)[k] = IF k <= Len(s) THEN s[k] ELSE t[k - Len(s)]
  BY ConcatProperties
<1>3. DOMAIN (s \o t) = 1 .. Len(s) + Len(t)
  BY <1>2, LenProperties
<1>. QED
  BY <1>1, <1>2, <1>3

\* u is s and t behind it; they have a and b lines.
Joined(u, s, t, a, b) ==
  /\ u = s \o t /\ u \in Seq(Line)
  /\ Len(u) = a + b /\ DOMAIN u = 1 .. a + b
  /\ a \in Nat /\ b \in Nat
  /\ \A k \in 1 .. a : u[k] = s[k]
  /\ \A k \in 1 .. b : u[a + k] = t[k]

\* The same, to be used for lines that have a name.
LEMMA Join ==
  ASSUME NEW s \in Seq(Line), NEW t \in Seq(Line), NEW a, NEW b, Len(s) = a, Len(t) = b
  PROVE  \E u : Joined(u, s, t, a, b)
<1> DEFINE u == s \o t
<1>1. a \in Nat /\ b \in Nat
  BY LenProperties
<1>2. u \in Seq(Line) /\ Len(u) = a + b
  BY ConcatProperties
<1>3. DOMAIN u = 1 .. a + b
  BY <1>2, LenProperties
<1>4. \A k \in 1 .. a : u[k] = s[k]
  BY <1>1, ConcatProperties
<1>5. \A k \in 1 .. b : u[a + k] = t[k]
  BY <1>1, ConcatProperties
<1>6. Joined(u, s, t, a, b)
  BY <1>1, <1>2, <1>3, <1>4, <1>5, Zenon DEF Joined
<1>. QED
  BY <1>6, Zenon

\* u is the n lines of s behind its first i.
Slice(u, s, i, n) ==
  /\ u = SubSeq(s, i + 1, i + n) /\ u \in Seq(Line)
  /\ Len(u) = n /\ DOMAIN u = 1 .. n
  /\ \A k \in 1 .. n : u[k] = s[i + k]

\* There is one wherever there are as many lines.
LEMMA HasSlice ==
  ASSUME NEW s \in Seq(Line), NEW i \in Nat, NEW n \in Nat, i + n <= Len(s)
  PROVE  \E u : Slice(u, s, i, n)
<1> DEFINE u == SubSeq(s, i + 1, i + n)
<1>0. Len(s) \in Nat
  BY LenProperties
<1>1. \A k \in i + 1 .. i + n : s[k] \in Line
  BY <1>0, ElementOfSeq
<1>2. u \in Seq(Line) /\ Len(u) = n /\ \A k \in 1 .. n : u[k] = s[i + k]
  BY <1>1, SubSeqProperties
<1>3. DOMAIN u = 1 .. n
  BY <1>2, LenProperties
<1>4. Slice(u, s, i, n)
  BY <1>2, <1>3, Zenon DEF Slice
<1>. QED
  BY <1>4, Zenon

\* Two slices of the same lines are the same.
LEMMA SameLines ==
  ASSUME NEW s \in Seq(Line), NEW t \in Seq(Line), NEW n, Len(s) = n, Len(t) = n,
         \A k \in 1 .. n : s[k] = t[k]
  PROVE  s = t
  BY SeqEqual

\* What outsideBlock gives are the lines of the file without its block.
LEMMA OutsideType ==
  ASSUME NEW lines \in Seq(Line), WellMarked(lines)
  PROVE  /\ outsideBlock(lines) \in Seq(Line) /\ Ends(outsideBlock(lines)) = {}
         /\ OtherLines(outsideBlock(lines)) = OtherLines(lines)
         /\ extractBlock(lines) \in Seq(Inner)
<1>0. PICK n \in Nat : n = Len(lines) /\ DOMAIN lines = 1 .. n
  BY LenProperties
<1>1. CASE Ends(lines) = {}
  <2>1. <<>> \in Seq(Inner)
    BY EmptySeq
  <2>. QED
    BY <1>1, <2>1, NoSandwich, Zenon
<1>2. CASE Ends(lines) # {}
  <2>1. PICK j, i : Sandwich(lines, j, i)
    BY <1>2, MarkedSandwich
  <2>2. /\ i \in 1 .. n /\ lines[i] = End
        /\ j \in 1 .. n /\ lines[j] = Begin
        /\ j < i
        /\ \A k \in 1 .. n : k > i => lines[k] \notin {Begin, End}
        /\ \A k \in 1 .. n : j < k /\ k < i => lines[k] \in Inner
        /\ \A k \in 1 .. n : k < i /\ lines[k] = End => \A m \in 1 .. k : lines[m] # Begin
    BY <1>0, <2>1, Zenon DEF Sandwich
  <2>3. /\ SubSeq(lines, 1, j - 1) \in Seq(Line)
        /\ SubSeq(lines, j, i) \in Seq(Line)
        /\ SubSeq(lines, i + 1, n) \in Seq(Line)
    BY <1>0, <2>2
  <2>4. PICK x \in Seq(Line), y \in Seq(Line), z \in Seq(Line) :
          x = SubSeq(lines, 1, j - 1) /\ y = SubSeq(lines, j, i) /\ z = SubSeq(lines, i + 1, n)
    BY <2>3, Zenon
  <2>5. outsideBlock(lines) = x \o z /\ extractBlock(lines) \in Seq(Inner)
    BY <1>0, <2>1, <2>4, SandwichBlock
  <2>6. /\ x \in Seq(Line) /\ Len(x) = j - 1 /\ \A k \in 1 .. j - 1 : x[k] = lines[k]
        /\ y \in Seq(Line) /\ Len(y) = i - j + 1 /\ \A k \in 1 .. i - j + 1 : y[k] = lines[j + k - 1]
        /\ z \in Seq(Line) /\ Len(z) = n - i /\ \A k \in 1 .. n - i : z[k] = lines[i + k]
    BY <1>0, <2>2, <2>4
  <2>7. lines = x \o (y \o z)
    <3>1. lines = SubSeq(lines, 1, n)
      BY <1>0, SubSeqFull
    <3>2. y \o z = SubSeq(lines, j, n)
      <4>1. j \in 1 .. n + 1 /\ i \in j - 1 .. n /\ n \in i .. n
        BY <2>2
      <4>. QED
        BY <1>0, <2>4, <4>1, ConcatAdjacentSubSeq
    <3>3. x \o SubSeq(lines, j, n) = SubSeq(lines, 1, n)
      <4>1. 1 \in 1 .. n + 1 /\ j - 1 \in 1 - 1 .. n /\ n \in j - 1 .. n /\ (j - 1) + 1 = j
        BY <2>2
      <4>2. SubSeq(lines, 1, j - 1) \o SubSeq(lines, (j - 1) + 1, n) = SubSeq(lines, 1, n)
        BY <1>0, <4>1, ConcatAdjacentSubSeq
      <4>. QED
        BY <2>4, <4>1, <4>2
    <3>. QED
      BY <2>4, <3>1, <3>2, <3>3
  <2>8. OtherLines(y) = <<>>
    <3>1. \A k \in 1 .. i - j + 1 : y[k] \notin Others
      <4> SUFFICES ASSUME NEW k \in 1 .. i - j + 1 PROVE lines[j + k - 1] \notin Others
        BY <2>6
      <4>1. j + k - 1 \in 1 .. n /\ (j + k - 1 = j \/ j + k - 1 = i \/ (j < j + k - 1 /\ j + k - 1 < i))
        BY <2>2
      <4>. QED
        BY <2>2, <4>1, InnerLines
    <3>2. DOMAIN y = 1 .. i - j + 1
      BY <2>6, LenProperties
    <3>. QED
      BY <2>6, <3>1, <3>2, NoOtherLines
  <2>9. OtherLines(x \o z) = OtherLines(lines)
    <3>1. y \o z \in Seq(Line) /\ OtherLines(z) \in Seq(Others)
      BY <2>6, ConcatProperties, OtherLinesType
    <3>2. OtherLines(y \o z) = <<>> \o OtherLines(z)
      BY <2>6, <2>8, OtherLinesConcat
    <3>3. OtherLines(y \o z) = OtherLines(z)
      BY <3>1, <3>2, ConcatEmptySeq
    <3>4. OtherLines(x \o (y \o z)) = OtherLines(x) \o OtherLines(y \o z)
      BY <2>6, <3>1, OtherLinesConcat, Zenon
    <3>5. OtherLines(x \o z) = OtherLines(x) \o OtherLines(z)
      BY <2>6, OtherLinesConcat, Zenon
    <3>. QED
      BY <2>7, <3>3, <3>4, <3>5, Zenon
  <2>10. Ends(x \o z) = {}
    <3>0. j - 1 \in Nat /\ n - i \in Nat
      BY <1>0, <2>2
    <3>1. PICK p \in Nat, d \in Nat : p = j - 1 /\ d = n - i
      BY <3>0, Zenon
    <3>2. /\ DOMAIN (x \o z) = 1 .. p + d
          /\ \A k \in 1 .. p : (x \o z)[k] = x[k]
          /\ \A k \in 1 .. p + d : k \notin 1 .. p => k - p \in 1 .. d /\ (x \o z)[k] = z[k - p]
      <4>1. x \in Seq(Line) /\ z \in Seq(Line) /\ Len(x) = p /\ Len(z) = d
        BY <2>6, <3>1
      <4>. QED
        BY <4>1, Together
    <3>3. /\ \A k \in 1 .. p : x[k] = lines[k]
          /\ \A k \in 1 .. d : z[k] = lines[i + k]
      BY <2>6, <3>1
    <3> SUFFICES ASSUME NEW q \in 1 .. p + d, (x \o z)[q] = End,
                        NEW r \in 1 .. p + d, (x \o z)[r] = Begin, r < q
                 PROVE  FALSE
      BY <3>2, Zenon DEF Ends, IndicesOf
    <3>4. CASE q \in 1 .. p
      <4>1. r \in 1 .. p /\ q \in 1 .. n /\ q < i /\ r \in 1 .. q
        BY <2>2, <3>1, <3>4
      <4>2. lines[q] = End /\ lines[r] = Begin
        BY <3>2, <3>3, <3>4, <4>1
      <4>. QED
        BY <2>2, <4>1, <4>2
    <3>5. CASE q \notin 1 .. p
      <4>1. q - p \in 1 .. d /\ (x \o z)[q] = lines[i + (q - p)]
        BY <3>2, <3>3, <3>5
      <4>2. i + (q - p) \in 1 .. n /\ i + (q - p) > i
        BY <1>0, <2>2, <3>1, <4>1
      <4>. QED
        BY <2>2, <4>1, <4>2
    <3>. QED
      BY <3>4, <3>5
  <2>11. x \o z \in Seq(Line)
    BY <2>6, ConcatProperties
  <2>. QED
    BY <2>5, <2>9, <2>10, <2>11
<1>. QED
  BY <1>1, <1>2

\* The n first of lines are those up to the last that is not blank.
Text(lines, n) ==
  /\ n \in 0 .. Len(lines)
  /\ \A k \in n + 1 .. Len(lines) : lines[k] = Blank
  /\ n # 0 => lines[n] # Blank

\* TrimBlanks gives these,
LEMMA TrimIs ==
  ASSUME NEW lines \in Seq(Line), NEW n, Text(lines, n)
  PROVE  TrimBlanks(lines) = SubSeq(lines, 1, n)
<1>0. PICK a \in Nat : a = Len(lines) /\ DOMAIN lines = 1 .. a
  BY LenProperties
<1> DEFINE text == {i \in DOMAIN lines : lines[i] # Blank}
<1>1. n \in 0 .. a /\ (\A k \in n + 1 .. a : lines[k] = Blank) /\ (n # 0 => lines[n] # Blank)
  BY <1>0 DEF Text
<1>2. CASE n = 0
  <2>1. text = {}
    BY <1>0, <1>1, <1>2
  <2>2. SubSeq(lines, 1, 0) = <<>>
    BY SubSeqEmpty
  <2>. QED
    BY <1>2, <2>1, <2>2 DEF TrimBlanks
<1>3. CASE n # 0
  <2>1. n \in text /\ text \subseteq Nat /\ \A k \in text : k <= n
    BY <1>0, <1>1, <1>3
  <2>2. Largest(text) = n
    <3> HIDE DEF text
    <3>. QED
      BY <2>1, LargestIs
  <2>3. text # {}
    BY <2>1
  <2>. QED
    BY <2>2, <2>3, Zenon DEF TrimBlanks
<1>. QED
  BY <1>2, <1>3

\* and there are some, maybe none.
LEMMA HasText ==
  ASSUME NEW lines \in Seq(Line)
  PROVE  \E n : Text(lines, n)
<1>0. PICK a \in Nat : a = Len(lines) /\ DOMAIN lines = 1 .. a
  BY LenProperties
<1> DEFINE text == {i \in 1 .. a : lines[i] # Blank}
<1>1. CASE text = {}
  <2>1. Text(lines, 0)
    BY <1>0, <1>1 DEF Text
  <2>. QED
    BY <2>1
<1>2. CASE text # {}
  <2>1. PICK n \in text : \A k \in text : k <= n
    <3>1. text \subseteq 0 .. a
      OBVIOUS
    <3> HIDE DEF text
    <3>. QED
      BY <1>2, <3>1, HasLargest
  <2>2. Text(lines, n)
    BY <1>0, <2>1 DEF Text
  <2>. QED
    BY <2>2
<1>. QED
  BY <1>1, <1>2

\* m is mergeHosts of o, whose text is its first n lines, and b, of c lines.
Merged(m, o, n, b, c) ==
  /\ m = mergeHosts(o, b) /\ m \in Seq(Line) /\ Len(m) = n + c + 3 /\ DOMAIN m = 1 .. n + c + 3
  /\ \A k \in 1 .. n : m[k] = o[k]
  /\ m[n + 1] = Begin
  /\ \A k \in 1 .. c : m[n + 1 + k] = b[k]
  /\ m[n + c + 2] = End /\ m[n + c + 3] = Blank

\* mergeHosts, line by line.
LEMMA MergeLines ==
  ASSUME NEW o \in Seq(Line), NEW n \in Nat, Text(o, n), NEW b \in Seq(Inner), NEW c \in Nat, c = Len(b)
  PROVE  \E m : Merged(m, o, n, b, c)
<1>0. 0 \in Nat /\ 0 + n <= Len(o) /\ 0 + 1 = 1 /\ 0 + n = n
  BY LenProperties DEF Text
<1>1. PICK t : Slice(t, o, 0, n)
  BY <1>0, HasSlice, Zenon
<1>2. t = SubSeq(o, 1, n) /\ t \in Seq(Line) /\ Len(t) = n /\ \A k \in 1 .. n : t[k] = o[k]
  BY <1>0, <1>1 DEF Slice
<1>3. b \in Seq(Line)
  BY InnerLines, SeqMonotonic
<1>4. PICK x \in Seq(Line), z \in Seq(Line) : x = <<Begin>> /\ z = <<End, Blank>>
  <2>1. <<Begin>> \in Seq(Line) /\ <<End, Blank>> \in Seq(Line)
    BY DEF Line
  <2>. QED
    BY <2>1, Zenon
<1>5. Len(x) = 1 /\ x[1] = Begin /\ Len(z) = 2 /\ z[1] = End /\ z[2] = Blank
  BY <1>4
<1>6. mergeHosts(o, b) = ((t \o x) \o b) \o z
  BY <1>2, <1>4, TrimIs DEF mergeHosts
<1>7. PICK u : Joined(u, t, x, n, 1)
  BY <1>2, <1>5, Join, Zenon
<1>8. /\ u = t \o x /\ u \in Seq(Line) /\ Len(u) = n + 1
      /\ \A k \in 1 .. n : u[k] = o[k]
      /\ u[n + 1] = Begin
  BY <1>2, <1>5, <1>7 DEF Joined
<1>9. PICK v : Joined(v, u, b, n + 1, c)
  BY <1>3, <1>8, Join, Zenon
<1>10. /\ v = u \o b /\ v \in Seq(Line) /\ Len(v) = n + 1 + c
       /\ \A k \in 1 .. n + 1 : v[k] = u[k]
       /\ \A k \in 1 .. c : v[n + 1 + k] = b[k]
  BY <1>9, Zenon DEF Joined
<1>11. PICK m : Joined(m, v, z, n + 1 + c, 2)
  BY <1>5, <1>10, Join, Zenon
<1>12. /\ m = v \o z /\ m \in Seq(Line) /\ Len(m) = n + c + 3 /\ DOMAIN m = 1 .. n + c + 3
       /\ \A k \in 1 .. n + 1 + c : m[k] = v[k]
       /\ \A k \in 1 .. 2 : m[n + 1 + c + k] = z[k]
  <2>1. /\ m = v \o z /\ m \in Seq(Line) /\ Len(m) = n + 1 + c + 2 /\ DOMAIN m = 1 .. n + 1 + c + 2
        /\ \A k \in 1 .. n + 1 + c : m[k] = v[k]
        /\ \A k \in 1 .. 2 : m[n + 1 + c + k] = z[k]
    BY <1>11, Zenon DEF Joined
  <2>2. n + 1 + c + 2 = n + c + 3
    OBVIOUS
  <2>. QED
    BY <2>1, <2>2, Zenon
<1>13. m[n + c + 2] = End /\ m[n + c + 3] = Blank
  <2>1. n + 1 + c + 1 = n + c + 2 /\ n + 1 + c + 2 = n + c + 3 /\ 1 \in 1 .. 2 /\ 2 \in 1 .. 2
    OBVIOUS
  <2>. QED
    BY <1>5, <1>12, <2>1
<1>14. \A k \in 1 .. n : m[k] = o[k]
  <2> SUFFICES ASSUME NEW k \in 1 .. n PROVE m[k] = o[k]
    OBVIOUS
  <2>1. k \in 1 .. n + 1 + c /\ k \in 1 .. n + 1
    OBVIOUS
  <2>. QED
    BY <1>8, <1>10, <1>12, <2>1
<1>15. m[n + 1] = Begin
  <2>1. n + 1 \in 1 .. n + 1 + c /\ n + 1 \in 1 .. n + 1
    OBVIOUS
  <2>. QED
    BY <1>8, <1>10, <1>12, <2>1
<1>16. \A k \in 1 .. c : m[n + 1 + k] = b[k]
  <2> SUFFICES ASSUME NEW k \in 1 .. c PROVE m[n + 1 + k] = b[k]
    OBVIOUS
  <2>1. n + 1 + k \in 1 .. n + 1 + c
    OBVIOUS
  <2>. QED
    BY <1>10, <1>12, <2>1
<1>17. m = mergeHosts(o, b)
  BY <1>6, <1>8, <1>10, <1>12
<1>. QED
  BY <1>12, <1>13, <1>14, <1>15, <1>16, <1>17, Zenon DEF Merged

\* A file with lines behind it that are not of others has the same lines of others.
LEMMA OtherLinesBefore ==
  ASSUME NEW s \in Seq(Line), NEW t \in Seq(Line), \A k \in DOMAIN t : t[k] \notin Others
  PROVE  OtherLines(s \o t) = OtherLines(s)
<1>1. OtherLines(s \o t) = OtherLines(s) \o <<>>
  BY NoOtherLines, OtherLinesConcat
<1>2. OtherLines(s) \o <<>> = OtherLines(s)
  BY OtherLinesType, ConcatEmptySeq
<1>. QED
  BY <1>1, <1>2

\* A file that is put together again has the block between its markers.
LEMMA MergeSandwich ==
  ASSUME NEW o \in Seq(Line), Ends(o) = {}, NEW n \in Nat, Text(o, n),
         NEW b \in Seq(Inner), NEW c \in Nat, c = Len(b), NEW m, Merged(m, o, n, b, c)
  PROVE  Sandwich(m, n + 1, n + c + 2)
<1>1. DOMAIN b = 1 .. c /\ \A k \in 1 .. c : b[k] \in Inner
  BY LenProperties, ElementOfSeq
<1>2. PICK a \in Nat : a = Len(o) /\ DOMAIN o = 1 .. a /\ n <= a
  BY LenProperties DEF Text
<1>3. /\ DOMAIN m = 1 .. n + c + 3
      /\ \A k \in 1 .. n : m[k] = o[k]
      /\ m[n + 1] = Begin
      /\ \A k \in 1 .. c : m[n + 1 + k] = b[k]
      /\ m[n + c + 2] = End /\ m[n + c + 3] = Blank
  BY DEF Merged
<1>4. n + c + 2 \in 1 .. n + c + 3 /\ n + 1 \in 1 .. n + c + 3 /\ n + 1 < n + c + 2
  OBVIOUS
<1>5. ASSUME NEW k \in 1 .. n + c + 3, k > n + c + 2 PROVE m[k] \notin {Begin, End}
  <2>1. k = n + c + 3
    BY <1>5
  <2>. QED
    BY <1>3, <2>1, HostsAssumption
<1>6. ASSUME NEW k \in 1 .. n + c + 3, n + 1 < k, k < n + c + 2 PROVE m[k] \in Inner
  <2>1. k - (n + 1) \in 1 .. c /\ n + 1 + (k - (n + 1)) = k
    BY <1>6
  <2>2. m[k] = b[k - (n + 1)]
    BY <1>3, <2>1
  <2>. QED
    BY <1>1, <2>1, <2>2
<1>7. ASSUME NEW k \in 1 .. n + c + 3, k < n + c + 2, m[k] = End, NEW l \in 1 .. k, m[l] = Begin PROVE FALSE
  <2>1. k <= n
    <3>1. k # n + 1
      BY <1>3, <1>7, HostsAssumption
    <3>2. ~(n + 1 < k)
      BY <1>6, <1>7, InnerLines
    <3>. QED
      BY <1>7, <3>1, <3>2
  <2>2. k \in 1 .. a /\ l \in 1 .. a /\ o[k] = End /\ o[l] = Begin
    BY <1>2, <1>3, <1>7, <2>1
  <2>3. l < k
    BY <1>3, <1>7, HostsAssumption
  <2>4. k \in Ends(o)
    BY <1>2, <2>2, <2>3 DEF Ends, IndicesOf
  <2>. QED
    BY <2>4
<1>. QED
  BY <1>3, <1>4, <1>5, <1>6, <1>7, Zenon DEF Sandwich

\* It is well marked, and around the block is the text of what was outside: the
\* lines of others are the same.
LEMMA MergeShape ==
  ASSUME NEW o \in Seq(Line), Ends(o) = {}, NEW b \in Seq(Inner)
  PROVE  /\ mergeHosts(o, b) \in Seq(Line) /\ WellMarked(mergeHosts(o, b))
         /\ extractBlock(mergeHosts(o, b)) = b
         /\ TrimBlanks(outsideBlock(mergeHosts(o, b))) = TrimBlanks(o)
         /\ OtherLines(mergeHosts(o, b)) = OtherLines(o)
<1>0. PICK n : Text(o, n)
  BY HasText
<1>1. PICK a \in Nat : /\ a = Len(o) /\ DOMAIN o = 1 .. a /\ n \in Nat /\ n <= a
                       /\ \A k \in n + 1 .. a : o[k] = Blank
                       /\ n # 0 => o[n] # Blank
  BY <1>0, LenProperties DEF Text
<1>2. PICK c \in Nat : c = Len(b)
  BY LenProperties
<1>3. PICK m : Merged(m, o, n, b, c)
  BY <1>0, <1>1, <1>2, MergeLines, Zenon
<1>4. /\ m = mergeHosts(o, b) /\ m \in Seq(Line) /\ Len(m) = n + c + 3
      /\ \A k \in 1 .. n : m[k] = o[k]
      /\ \A k \in 1 .. c : m[n + 1 + k] = b[k]
      /\ m[n + c + 3] = Blank
  BY <1>3, Zenon DEF Merged
<1>5. Sandwich(m, n + 1, n + c + 2)
  BY <1>0, <1>1, <1>2, <1>3, MergeSandwich, Zenon
<1>6. /\ WellMarked(m)
      /\ extractBlock(m) = SubSeq(m, (n + 1) + 1, (n + c + 2) - 1)
      /\ outsideBlock(m) = SubSeq(m, 1, (n + 1) - 1) \o SubSeq(m, (n + c + 2) + 1, Len(m))
  BY <1>4, <1>5, SandwichBlock, Zenon
<1>7. extractBlock(m) = b
  <2>1. PICK x : Slice(x, m, n + 1, c)
    <3>1. n + 1 \in Nat /\ (n + 1) + c <= Len(m)
      BY <1>1, <1>4
    <3>. QED
      BY <1>4, <3>1, HasSlice, Zenon
  <2>2. x = extractBlock(m) /\ x \in Seq(Line) /\ Len(x) = c /\ \A k \in 1 .. c : x[k] = b[k]
    <3>1. (n + c + 2) - 1 = (n + 1) + c
      BY <1>1
    <3>. QED
      BY <1>4, <1>6, <2>1, <3>1 DEF Slice
  <2>3. b \in Seq(Line)
    BY InnerLines, SeqMonotonic
  <2>4. x = b
    BY <1>2, <2>2, <2>3, SeqEqual
  <2>. QED
    BY <2>2, <2>4
<1>8. PICK t : Slice(t, o, 0, n)
  <2>1. 0 \in Nat /\ 0 + n <= Len(o)
    BY <1>1
  <2>. QED
    BY <1>1, <2>1, HasSlice, Zenon
<1>9. t = SubSeq(o, 1, n) /\ t \in Seq(Line) /\ Len(t) = n /\ \A k \in 1 .. n : t[k] = o[k]
  BY <1>1, <1>8 DEF Slice
<1>10. PICK y : Slice(y, m, n + c + 2, 1)
  <2>1. n + c + 2 \in Nat /\ (n + c + 2) + 1 <= Len(m) /\ 1 \in Nat
    BY <1>1, <1>4
  <2>. QED
    BY <1>4, <2>1, HasSlice, Zenon
<1>11. /\ y = SubSeq(m, (n + c + 2) + 1, (n + c + 2) + 1)
      /\ y \in Seq(Line) /\ Len(y) = 1 /\ y[1] = Blank /\ DOMAIN y = 1 .. 1
  <2>1. (n + c + 2) + 1 = n + c + 3 /\ 1 \in 1 .. 1
    BY <1>1
  <2>. QED
    BY <1>4, <1>10, <2>1 DEF Slice
<1>12. outsideBlock(m) = t \o y
  <2>1. PICK x : Slice(x, m, 0, n)
    <3>1. 0 \in Nat /\ 0 + n <= Len(m)
      BY <1>1, <1>4
    <3>. QED
      BY <1>1, <1>4, <3>1, HasSlice, Zenon
  <2>2. x = SubSeq(m, 1, n) /\ x \in Seq(Line) /\ Len(x) = n /\ \A k \in 1 .. n : x[k] = o[k]
    BY <1>1, <1>4, <2>1 DEF Slice
  <2>3. x = t
    BY <1>9, <2>2, SeqEqual
  <2>4. (n + 1) - 1 = n /\ Len(m) = (n + c + 2) + 1
    BY <1>1, <1>4
  <2>. QED
    BY <1>6, <1>11, <2>2, <2>3, <2>4
<1>13. TrimBlanks(t \o y) = t
  <2>1. PICK u : Joined(u, t, y, n, 1)
    BY <1>9, <1>11, Join, Zenon
  <2>2. /\ u = t \o y /\ u \in Seq(Line) /\ Len(u) = n + 1
        /\ \A k \in 1 .. n : u[k] = o[k]
        /\ u[n + 1] = Blank
    BY <1>9, <1>11, <2>1 DEF Joined
  <2>3. Text(u, n)
    <3>1. n \in 0 .. Len(u)
      BY <1>1, <2>2
    <3>2. \A k \in n + 1 .. Len(u) : k = n + 1
      BY <1>1, <2>2
    <3>3. n # 0 => u[n] # Blank
      BY <1>1, <2>2
    <3>. QED
      BY <2>2, <3>1, <3>2, <3>3, Zenon DEF Text
  <2>4. TrimBlanks(u) = SubSeq(u, 1, n)
    BY <2>2, <2>3, TrimIs
  <2>5. PICK x : Slice(x, u, 0, n)
    <3>1. 0 \in Nat /\ 0 + n <= Len(u)
      BY <1>1, <2>2
    <3>. QED
      BY <1>1, <2>2, <3>1, HasSlice, Zenon
  <2>6. x = SubSeq(u, 1, n) /\ x \in Seq(Line) /\ Len(x) = n /\ \A k \in 1 .. n : x[k] = o[k]
    <3>1. 0 + 1 = 1 /\ 0 + n = n /\ \A k \in 1 .. n : 0 + k = k
      BY <1>1
    <3>2. x = SubSeq(u, 1, n) /\ x \in Seq(Line) /\ Len(x) = n /\ \A k \in 1 .. n : x[k] = u[k]
      BY <2>5, <3>1 DEF Slice
    <3>. QED
      BY <2>2, <3>2
  <2>7. x = t
    BY <1>9, <2>6, SeqEqual
  <2>. QED
    BY <2>2, <2>4, <2>6, <2>7
<1>14. TrimBlanks(o) = t
  BY <1>0, <1>9, TrimIs
<1>15. OtherLines(m) = OtherLines(t)
  <2>1. OtherLines(m) = OtherLines(t \o y)
    BY <1>4, <1>6, <1>12, OutsideType
  <2>2. \A k \in DOMAIN y : y[k] \notin Others
    BY <1>11, InnerLines
  <2>. QED
    BY <1>9, <1>11, <2>1, <2>2, OtherLinesBefore
<1>16. OtherLines(o) = OtherLines(t)
  <2>0. n \in Nat /\ a - n \in Nat /\ n + (a - n) = a /\ n + (a - n) <= Len(o)
    BY <1>1
  <2>1. PICK z : Slice(z, o, n, a - n)
    BY <2>0, HasSlice, Zenon
  <2>2. /\ z = SubSeq(o, n + 1, a) /\ z \in Seq(Line) /\ DOMAIN z = 1 .. a - n
        /\ \A k \in 1 .. a - n : z[k] = o[n + k]
    BY <2>0, <2>1 DEF Slice
  <2>3. o = t \o z
    <3>1. 1 \in 1 .. a + 1 /\ n \in 1 - 1 .. a /\ a \in n .. a
      BY <1>1
    <3>2. SubSeq(o, 1, n) \o SubSeq(o, n + 1, a) = SubSeq(o, 1, a)
      BY <1>1, <3>1, ConcatAdjacentSubSeq
    <3>3. SubSeq(o, 1, a) = o
      BY <1>1, SubSeqFull
    <3>. QED
      BY <1>9, <2>2, <3>2, <3>3
  <2>4. \A k \in DOMAIN z : z[k] \notin Others
    <3> SUFFICES ASSUME NEW k \in 1 .. a - n PROVE z[k] \notin Others
      BY <2>2
    <3>1. n + k \in n + 1 .. a
      BY <1>1
    <3>. QED
      BY <1>1, <2>2, <3>1, InnerLines
  <2>. QED
    <3>1. OtherLines(t \o z) = OtherLines(t)
      BY <1>9, <2>2, <2>4, OtherLinesBefore, Zenon
    <3>. QED
      BY <2>3, <3>1
<1>. QED
  BY <1>4, <1>6, <1>7, <1>12, <1>13, <1>14, <1>15, <1>16

-----------------------------------------------------------------------------
(* What a write that fails leaves, and the edits of others. *)

\* A file cut off behind some line is well marked if the whole is.
LEMMA CutMarked ==
  ASSUME NEW m \in Seq(Line), WellMarked(m), NEW k \in 0 .. Len(m)
  PROVE  /\ SubSeq(m, 1, k) \o <<Blank>> \in Seq(Line)
         /\ WellMarked(SubSeq(m, 1, k) \o <<Blank>>)
<1>0. PICK a \in Nat : a = Len(m) /\ DOMAIN m = 1 .. a /\ k \in Nat /\ k <= a
  BY LenProperties
<1>1. PICK x : Slice(x, m, 0, k)
  <2>1. 0 \in Nat /\ 0 + k <= Len(m)
    BY <1>0
  <2>. QED
    BY <1>0, <2>1, HasSlice, Zenon
<1>2. x = SubSeq(m, 1, k) /\ x \in Seq(Line) /\ Len(x) = k /\ \A i \in 1 .. k : x[i] = m[i]
  BY <1>0, <1>1 DEF Slice
<1>3. PICK y \in Seq(Line) : y = <<Blank>> /\ Len(y) = 1 /\ y[1] = Blank
  <2>1. <<Blank>> \in Seq(Line) /\ Len(<<Blank>>) = 1 /\ <<Blank>>[1] = Blank
    BY DEF Line
  <2>. QED
    BY <2>1, Zenon
<1>4. PICK u : Joined(u, x, y, k, 1)
  BY <1>2, <1>3, Join, Zenon
<1>5. /\ u = SubSeq(m, 1, k) \o <<Blank>> /\ u \in Seq(Line) /\ DOMAIN u = 1 .. k + 1
      /\ \A i \in 1 .. k : u[i] = m[i]
      /\ u[k + 1] = Blank
  BY <1>2, <1>3, <1>4 DEF Joined
<1>6. CASE Ends(u) = {}
  BY <1>5, <1>6, NoSandwich
<1>7. CASE Ends(u) # {}
  <2>1. PICK e \in 1 .. k + 1, b \in 1 .. k + 1 : u[e] = End /\ u[b] = Begin /\ b < e
    BY <1>5, <1>7 DEF Ends, IndicesOf
  <2>2. e \in 1 .. k /\ b \in 1 .. k /\ m[e] = End /\ m[b] = Begin
    <3>1. e # k + 1 /\ b # k + 1
      BY <1>5, <2>1, HostsAssumption
    <3>. QED
      BY <1>0, <1>5, <2>1, <3>1
  <2>3. e \in Ends(m)
    BY <1>0, <2>1, <2>2 DEF Ends, IndicesOf
  <2>4. PICK j, i : Sandwich(m, j, i)
    BY <2>3, MarkedSandwich
  <2>5. i = e
    BY <2>3, <2>4, SandwichBlock
  <2>6. /\ i \in 1 .. a /\ m[i] = End
        /\ j \in 1 .. a /\ m[j] = Begin
        /\ j < i
        /\ \A q \in 1 .. a : q > i => m[q] \notin {Begin, End}
        /\ \A q \in 1 .. a : j < q /\ q < i => m[q] \in Inner
        /\ \A q \in 1 .. a : q < i /\ m[q] = End => \A r \in 1 .. q : m[r] # Begin
    BY <1>0, <2>4, Zenon DEF Sandwich
  <2>7. i \in 1 .. k /\ j \in 1 .. k
    BY <1>0, <2>2, <2>5, <2>6
  <2>8. Sandwich(u, j, i)
    <3>1. i \in DOMAIN u /\ u[i] = End /\ j \in DOMAIN u /\ u[j] = Begin /\ j < i
      BY <1>5, <2>6, <2>7
    <3>2. ASSUME NEW q \in 1 .. k + 1, q > i PROVE u[q] \notin {Begin, End}
      <4>1. CASE q = k + 1
        BY <1>5, <4>1, HostsAssumption
      <4>2. CASE q # k + 1
        <5>1. q \in 1 .. k /\ q \in 1 .. a
          BY <1>0, <4>2
        <5>. QED
          BY <1>5, <2>6, <3>2, <5>1
      <4>. QED
        BY <4>1, <4>2
    <3>3. ASSUME NEW q \in 1 .. k + 1, j < q, q < i PROVE u[q] \in Inner
      <4>1. q \in 1 .. k /\ q \in 1 .. a
        BY <1>0, <2>7, <3>3
      <4>. QED
        BY <1>5, <2>6, <3>3, <4>1
    <3>4. ASSUME NEW q \in 1 .. k + 1, q < i, u[q] = End, NEW r \in 1 .. q PROVE u[r] # Begin
      <4>1. q \in 1 .. k /\ q \in 1 .. a /\ r \in 1 .. k
        BY <1>0, <2>7, <3>4
      <4>. QED
        BY <1>5, <2>6, <3>4, <4>1
    <3>. QED
      BY <1>5, <3>1, <3>2, <3>3, <3>4, Zenon DEF Sandwich
  <2>9. WellMarked(u)
    BY <1>5, <2>8, SandwichBlock, Zenon
  <2>. QED
    BY <1>5, <2>9
<1>. QED
  BY <1>6, <1>7

\* A line of others put anywhere outside the block leaves the file well marked.
LEMMA AddMarked ==
  ASSUME file \in Seq(Line), WellMarked(file), NEW p \in DOMAIN file, NEW l \in Others, ~InsideBlock(p)
  PROVE  InsertAt(file, p, l) \in Seq(Line) /\ WellMarked(InsertAt(file, p, l))
<1>0. PICK a \in Nat : a = Len(file) /\ DOMAIN file = 1 .. a /\ p \in 1 .. a
  BY LenProperties
<1>1. PICK x : Slice(x, file, 0, p - 1)
  <2>1. 0 \in Nat /\ p - 1 \in Nat /\ 0 + (p - 1) <= Len(file)
    BY <1>0
  <2>. QED
    BY <2>1, HasSlice, Zenon
<1>2. x = SubSeq(file, 1, p - 1) /\ x \in Seq(Line) /\ Len(x) = p - 1 /\ \A i \in 1 .. p - 1 : x[i] = file[i]
  BY <1>0, <1>1 DEF Slice
<1>3. PICK z : Slice(z, file, p - 1, a - p + 1)
  <2>1. p \in Int /\ a \in Int /\ 1 <= p /\ p <= a /\ Len(file) = a
    BY <1>0
  <2>2. p - 1 \in Nat /\ a - p + 1 \in Nat /\ (p - 1) + (a - p + 1) <= Len(file)
    BY <2>1
  <2>. QED
    BY <2>2, HasSlice, Zenon
<1>4. /\ z = SubSeq(file, p, a) /\ z \in Seq(Line) /\ Len(z) = a - p + 1
      /\ \A i \in 1 .. a - p + 1 : z[i] = file[p - 1 + i]
  <2>1. (p - 1) + 1 = p /\ (p - 1) + (a - p + 1) = a
    BY <1>0
  <2>. QED
    BY <1>3, <2>1 DEF Slice
<1>5. PICK y \in Seq(Line) : y = <<l>> /\ Len(y) = 1 /\ y[1] = l
  <2>1. <<l>> \in Seq(Line) /\ Len(<<l>>) = 1 /\ <<l>>[1] = l
    BY DEF Line
  <2>. QED
    BY <2>1, Zenon
<1>6. PICK v : Joined(v, x, y, p - 1, 1)
  BY <1>2, <1>5, Join, Zenon
<1>7. /\ v = x \o y /\ v \in Seq(Line) /\ Len(v) = p
      /\ \A i \in 1 .. p - 1 : v[i] = file[i]
      /\ v[p] = l
  <2>1. (p - 1) + 1 = p /\ 1 \in 1 .. 1
    BY <1>0
  <2>. QED
    BY <1>2, <1>5, <1>6, <2>1 DEF Joined
<1>8. PICK u : Joined(u, v, z, p, a - p + 1)
  BY <1>4, <1>7, Join, Zenon
<1>9. /\ u = v \o z /\ u \in Seq(Line) /\ DOMAIN u = 1 .. p + (a - p + 1)
      /\ \A i \in 1 .. p : u[i] = v[i]
      /\ \A i \in 1 .. a - p + 1 : u[p + i] = z[i]
  BY <1>8, Zenon DEF Joined
<1>10. u = InsertAt(file, p, l)
  BY <1>0, <1>2, <1>4, <1>5, <1>7, <1>9 DEF InsertAt
<1> DEFINE to(k) == IF k < p THEN k ELSE k + 1
<1>11. /\ DOMAIN u = 1 .. a + 1 /\ u[p] = l
       /\ \A k \in 1 .. a : to(k) \in 1 .. a + 1 /\ u[to(k)] = file[k]
       /\ \A q \in 1 .. a + 1 : q # p => \E k \in 1 .. a : to(k) = q
  <2>1. p + (a - p + 1) = a + 1 /\ p \in 1 .. p
    BY <1>0
  <2>2. ASSUME NEW k \in 1 .. a PROVE to(k) \in 1 .. a + 1 /\ u[to(k)] = file[k]
    <3>1. CASE k < p
      <4>1. k \in 1 .. p - 1 /\ k \in 1 .. p
        BY <1>0, <3>1
      <4>2. to(k) = k /\ k \in 1 .. a + 1
        BY <1>0, <3>1
      <4>3. u[k] = v[k] /\ v[k] = file[k]
        BY <1>7, <1>9, <4>1
      <4> HIDE DEF to
      <4>. QED
        BY <4>2, <4>3
    <3>2. CASE ~(k < p)
      <4>1. k - p + 1 \in 1 .. a - p + 1 /\ p + (k - p + 1) = k + 1 /\ p - 1 + (k - p + 1) = k
        BY <1>0, <3>2
      <4>2. u[p + (k - p + 1)] = z[k - p + 1] /\ z[k - p + 1] = file[p - 1 + (k - p + 1)]
        BY <1>4, <1>9, <4>1
      <4>3. to(k) = k + 1 /\ k + 1 \in 1 .. a + 1
        BY <1>0, <3>2
      <4> HIDE DEF to
      <4>. QED
        BY <4>1, <4>2, <4>3
    <3>. QED
      BY <3>1, <3>2
  <2>3. ASSUME NEW q \in 1 .. a + 1, q # p PROVE \E k \in 1 .. a : to(k) = q
    <3>1. CASE q < p
      <4>1. q \in 1 .. a /\ to(q) = q
        BY <1>0, <3>1
      <4>. QED
        BY <4>1
    <3>2. CASE q > p
      <4>1. q - 1 \in 1 .. a /\ to(q - 1) = q
        BY <1>0, <3>2
      <4>. QED
        BY <4>1
    <3>. QED
      BY <1>0, <2>3, <3>1, <3>2
  <2>. QED
    BY <1>7, <1>9, <2>1, <2>2, <2>3
<1>12. \A k, q \in 1 .. a : to(k) \in Nat /\ (k < q <=> to(k) < to(q))
  BY <1>0
<1>13. l \notin {Begin, End}
  BY InnerLines
<1> HIDE DEF to
<1>14. CASE Ends(u) = {}
  BY <1>9, <1>10, <1>14, NoSandwich
<1>15. CASE Ends(u) # {}
  <2>1. PICK e \in 1 .. a + 1, b \in 1 .. a + 1 : u[e] = End /\ u[b] = Begin /\ b < e
    BY <1>11, <1>15 DEF Ends, IndicesOf
  <2>2. PICK e1 \in 1 .. a, b1 \in 1 .. a : to(e1) = e /\ to(b1) = b
    <3>1. e # p /\ b # p
      BY <1>11, <1>13, <2>1
    <3>. QED
      BY <1>11, <3>1
  <2>3. file[e1] = End /\ file[b1] = Begin /\ b1 < e1
    BY <1>11, <1>12, <2>1, <2>2
  <2>4. e1 \in Ends(file)
    BY <1>0, <2>3 DEF Ends, IndicesOf
  <2>5. PICK j, i : Sandwich(file, j, i)
    BY <2>4, MarkedSandwich
  <2>6. /\ i \in 1 .. a /\ file[i] = End
        /\ j \in 1 .. a /\ file[j] = Begin
        /\ j < i
        /\ \A q \in 1 .. a : q > i => file[q] \notin {Begin, End}
        /\ \A q \in 1 .. a : j < q /\ q < i => file[q] \in Inner
        /\ \A q \in 1 .. a : q < i /\ file[q] = End => \A r \in 1 .. q : file[r] # Begin
    BY <1>0, <2>5, Zenon DEF Sandwich
  <2>7. ~(j < p /\ p <= i)
    <3>1. HasBlock(file) /\ LastBegin(file) = j /\ Smallest(Ends(file)) = i
      BY <2>5, SandwichBlock, Zenon
    <3>. QED
      BY <3>1, Zenon DEF InsideBlock
  <2>8. Sandwich(u, to(j), to(i))
    <3>1. /\ to(i) \in 1 .. a + 1 /\ u[to(i)] = End /\ to(j) \in 1 .. a + 1 /\ u[to(j)] = Begin
          /\ to(j) < to(i)
      BY <1>11, <1>12, <2>6
    <3>2. ASSUME NEW q \in 1 .. a + 1, q > to(i) PROVE u[q] \notin {Begin, End}
      <4>1. CASE q = p
        BY <1>11, <1>13, <4>1
      <4>2. CASE q # p
        <5>1. PICK k \in 1 .. a : to(k) = q
          BY <1>11, <4>2
        <5>2. k > i
          BY <1>12, <2>6, <3>2, <5>1
        <5>. QED
          BY <1>11, <2>6, <5>1, <5>2
      <4>. QED
        BY <4>1, <4>2
    <3>3. ASSUME NEW q \in 1 .. a + 1, to(j) < q, q < to(i) PROVE u[q] \in Inner
      <4>1. q # p
        BY <1>0, <2>6, <2>7, <3>3 DEF to
      <4>2. PICK k \in 1 .. a : to(k) = q
        BY <1>11, <4>1
      <4>3. j < k /\ k < i
        BY <1>12, <2>6, <3>3, <4>2
      <4>. QED
        BY <1>11, <2>6, <4>2, <4>3
    <3>4. ASSUME NEW q \in 1 .. a + 1, q < to(i), u[q] = End, NEW r \in 1 .. q, u[r] = Begin PROVE FALSE
      <4>1. q # p /\ r # p /\ r \in 1 .. a + 1 /\ r < q
        <5>1. q # p /\ r # p /\ r # q
          BY <1>11, <1>13, <3>4, HostsAssumption
        <5>. QED
          BY <1>0, <5>1
      <4>2. PICK k \in 1 .. a, c \in 1 .. a : to(k) = q /\ to(c) = r
        BY <1>11, <4>1
      <4>3. k < i /\ file[k] = End /\ c < k /\ file[c] = Begin
        BY <1>11, <1>12, <2>6, <3>4, <4>1, <4>2
      <4>. QED
        BY <1>0, <2>6, <4>3
    <3>. QED
      BY <1>11, <3>1, <3>2, <3>3, <3>4, Zenon DEF Sandwich
  <2>9. WellMarked(u)
    BY <1>9, <2>8, SandwichBlock, Zenon
  <2>. QED
    BY <1>9, <1>10, <2>9
<1>. QED
  BY <1>14, <1>15

\* So does taking away a line that is no marker.
LEMMA DropMarked ==
  ASSUME file \in Seq(Line), WellMarked(file), NEW p \in DOMAIN file, file[p] \in Entries \union Others
  PROVE  RemoveAt(file, p) \in Seq(Line) /\ WellMarked(RemoveAt(file, p))
<1>0. PICK a \in Nat : a = Len(file) /\ DOMAIN file = 1 .. a /\ p \in 1 .. a
  BY LenProperties
<1>1. PICK x : Slice(x, file, 0, p - 1)
  <2>1. 0 \in Nat /\ p - 1 \in Nat /\ 0 + (p - 1) <= Len(file)
    BY <1>0
  <2>. QED
    BY <2>1, HasSlice, Zenon
<1>2. x = SubSeq(file, 1, p - 1) /\ x \in Seq(Line) /\ Len(x) = p - 1 /\ \A i \in 1 .. p - 1 : x[i] = file[i]
  BY <1>0, <1>1 DEF Slice
<1>3. PICK z : Slice(z, file, p, a - p)
  <2>1. p \in Nat /\ a - p \in Nat /\ p + (a - p) <= Len(file)
    BY <1>0
  <2>. QED
    BY <2>1, HasSlice, Zenon
<1>4. /\ z = SubSeq(file, p + 1, a) /\ z \in Seq(Line) /\ Len(z) = a - p
      /\ \A i \in 1 .. a - p : z[i] = file[p + i]
  <2>1. p + (a - p) = a
    BY <1>0
  <2>. QED
    BY <1>3, <2>1 DEF Slice
<1>5. PICK u : Joined(u, x, z, p - 1, a - p)
  BY <1>2, <1>4, Join, Zenon
<1>6. /\ u = x \o z /\ u \in Seq(Line) /\ DOMAIN u = 1 .. (p - 1) + (a - p)
      /\ \A i \in 1 .. p - 1 : u[i] = x[i]
      /\ \A i \in 1 .. a - p : u[(p - 1) + i] = z[i]
  BY <1>5, Zenon DEF Joined
<1>7. u = RemoveAt(file, p)
  BY <1>0, <1>2, <1>4, <1>6 DEF RemoveAt
<1> DEFINE from(q) == IF q < p THEN q ELSE q + 1
           to(k) == IF k < p THEN k ELSE k - 1
<1>8. /\ DOMAIN u = 1 .. a - 1
      /\ \A q \in 1 .. a - 1 : from(q) \in 1 .. a /\ u[q] = file[from(q)]
      /\ \A k \in 1 .. a : k # p => to(k) \in 1 .. a - 1 /\ from(to(k)) = k
  <2>1. (p - 1) + (a - p) = a - 1
    BY <1>0
  <2>2. ASSUME NEW q \in 1 .. a - 1 PROVE from(q) \in 1 .. a /\ u[q] = file[from(q)]
    <3>1. CASE q < p
      <4>1. q \in 1 .. p - 1 /\ from(q) = q /\ q \in 1 .. a
        BY <1>0, <3>1
      <4>2. u[q] = file[q]
        BY <1>2, <1>6, <4>1
      <4> HIDE DEF from
      <4>. QED
        BY <4>1, <4>2
    <3>2. CASE ~(q < p)
      <4>1. /\ q - p + 1 \in 1 .. a - p /\ (p - 1) + (q - p + 1) = q /\ p + (q - p + 1) = q + 1
            /\ from(q) = q + 1 /\ q + 1 \in 1 .. a
        BY <1>0, <3>2
      <4>2. u[(p - 1) + (q - p + 1)] = z[q - p + 1] /\ z[q - p + 1] = file[p + (q - p + 1)]
        BY <1>4, <1>6, <4>1
      <4> HIDE DEF from
      <4>. QED
        BY <4>1, <4>2
    <3>. QED
      BY <3>1, <3>2
  <2>3. \A k \in 1 .. a : k # p => to(k) \in 1 .. a - 1 /\ from(to(k)) = k
    BY <1>0
  <2>. QED
    BY <1>6, <2>1, <2>2, <2>3
<1>9. /\ \A q, r \in 1 .. a - 1 : from(q) \in Nat /\ (q < r <=> from(q) < from(r))
      /\ \A q \in 1 .. a - 1 : q \in Nat
  BY <1>0
<1>10. file[p] \notin {Begin, End}
  BY HostsAssumption
<1> HIDE DEF from, to
<1>11. CASE Ends(u) = {}
  BY <1>6, <1>7, <1>11, NoSandwich
<1>12. CASE Ends(u) # {}
  <2>1. PICK e \in 1 .. a - 1, b \in 1 .. a - 1 : u[e] = End /\ u[b] = Begin /\ b < e
    BY <1>8, <1>12 DEF Ends, IndicesOf
  <2>2. from(e) \in Ends(file)
    <3>1. /\ from(e) \in 1 .. a /\ from(b) \in 1 .. a /\ from(b) < from(e)
          /\ file[from(e)] = End /\ file[from(b)] = Begin
      BY <1>8, <1>9, <2>1
    <3>. QED
      BY <1>0, <3>1 DEF Ends, IndicesOf
  <2>3. PICK j, i : Sandwich(file, j, i)
    BY <2>2, MarkedSandwich
  <2>4. /\ i \in 1 .. a /\ file[i] = End
        /\ j \in 1 .. a /\ file[j] = Begin
        /\ j < i
        /\ \A q \in 1 .. a : q > i => file[q] \notin {Begin, End}
        /\ \A q \in 1 .. a : j < q /\ q < i => file[q] \in Inner
        /\ \A q \in 1 .. a : q < i /\ file[q] = End => \A r \in 1 .. q : file[r] # Begin
    BY <1>0, <2>3, Zenon DEF Sandwich
  <2>5. PICK j1 \in 1 .. a - 1, i1 \in 1 .. a - 1 : from(j1) = j /\ from(i1) = i
    <3>1. i # p /\ j # p
      BY <1>10, <2>4
    <3>. QED
      BY <1>8, <2>4, <3>1
  <2>6. Sandwich(u, j1, i1)
    <3>1. u[i1] = End /\ u[j1] = Begin /\ j1 < i1
      BY <1>8, <1>9, <2>4, <2>5
    <3>2. ASSUME NEW q \in 1 .. a - 1, q > i1 PROVE u[q] \notin {Begin, End}
      <4>1. from(q) \in 1 .. a /\ from(q) > i /\ u[q] = file[from(q)]
        BY <1>8, <1>9, <2>5, <3>2
      <4>. QED
        BY <2>4, <4>1
    <3>3. ASSUME NEW q \in 1 .. a - 1, j1 < q, q < i1 PROVE u[q] \in Inner
      <4>1. from(q) \in 1 .. a /\ j < from(q) /\ from(q) < i /\ u[q] = file[from(q)]
        BY <1>8, <1>9, <2>5, <3>3
      <4>. QED
        BY <2>4, <4>1
    <3>4. ASSUME NEW q \in 1 .. a - 1, q < i1, u[q] = End, NEW r \in 1 .. q, u[r] = Begin PROVE FALSE
      <4>1. r \in 1 .. a - 1 /\ r < q
        BY <1>9, <3>4, HostsAssumption
      <4>2. /\ from(q) \in 1 .. a /\ from(r) \in 1 .. a /\ from(q) < i /\ from(r) < from(q)
            /\ file[from(q)] = End /\ file[from(r)] = Begin
        BY <1>8, <1>9, <2>5, <3>4, <4>1
      <4>3. from(r) \in 1 .. from(q)
        BY <4>2
      <4>. QED
        BY <2>4, <4>2, <4>3
    <3>. QED
      BY <1>8, <3>1, <3>2, <3>3, <3>4, Zenon DEF Sandwich
  <2>7. WellMarked(u)
    BY <1>6, <2>6, SandwichBlock, Zenon
  <2>. QED
    BY <1>6, <1>7, <2>7
<1>. QED
  BY <1>11, <1>12

\* Put together again from lines nobody has shadowed an entry in, a file has no
\* line that gives a name of the entry another address before it.
LEMMA MergeResolves ==
  ASSUME NEW o \in Seq(Line), NEW b \in Seq(Inner), NEW e \in Entries,
         ~findConflict(o, e), NEW f, f = mergeHosts(o, b)
  PROVE  \A i \in DOMAIN f : <<f[i], e>> \in Clash => \E j \in 1 .. i : f[j] = e
<1>0. PICK n : Text(o, n)
  BY HasText
<1>1. PICK a \in Nat : /\ a = Len(o) /\ DOMAIN o = 1 .. a /\ n \in Nat /\ n <= a
  BY <1>0, LenProperties DEF Text
<1>2. PICK c \in Nat : c = Len(b) /\ DOMAIN b = 1 .. c /\ \A k \in 1 .. c : b[k] \in Inner
  BY LenProperties, ElementOfSeq
<1>3. PICK m : Merged(m, o, n, b, c)
  BY <1>0, <1>1, <1>2, MergeLines, Zenon
<1>4. /\ f = m /\ DOMAIN f = 1 .. n + c + 3
      /\ \A k \in 1 .. n : f[k] = o[k]
      /\ f[n + 1] = Begin
      /\ \A k \in 1 .. c : f[n + 1 + k] = b[k]
      /\ f[n + c + 2] = End /\ f[n + c + 3] = Blank
  BY <1>3, Zenon DEF Merged
<1> SUFFICES ASSUME NEW i \in 1 .. n + c + 3, <<f[i], e>> \in Clash
             PROVE  \E j \in 1 .. i : f[j] = e
  BY <1>4
<1>5. f[i] \in Others
  BY HostsAssumption
<1>6. i \in 1 .. n
  <2>1. i # n + 1 /\ i # n + c + 2 /\ i # n + c + 3
    BY <1>4, <1>5, InnerLines
  <2>2. ~(n + 1 < i /\ i < n + c + 2)
    <3> SUFFICES ASSUME n + 1 < i, i < n + c + 2 PROVE FALSE
      OBVIOUS
    <3>1. i - (n + 1) \in 1 .. c /\ n + 1 + (i - (n + 1)) = i
      BY <1>1, <1>2
    <3>2. f[i] \in Inner
      BY <1>2, <1>4, <3>1
    <3>. QED
      BY <1>5, <3>2, InnerLines
  <2>. QED
    BY <1>1, <1>2, <2>1, <2>2
<1>7. i \in Naming(o, e) /\ Naming(o, e) \subseteq Nat /\ Naming(o, e) \subseteq 1 .. a
  <2>1. i \in 1 .. a /\ <<o[i], e>> \in Clash
    <3>1. f[i] = o[i]
      BY <1>4, <1>6
    <3>2. <<o[i], e>> \in Clash
      BY <3>1, Zenon
    <3>. QED
      BY <1>1, <1>6, <3>2
  <2>2. Naming(o, e) \subseteq 1 .. a
    BY <1>1 DEF Naming
  <2>3. i \in Naming(o, e)
    BY <1>1, <2>1 DEF Naming
  <2>. QED
    BY <2>2, <2>3
<1>8. PICK j \in Naming(o, e) : j = Smallest(Naming(o, e)) /\ \A k \in Naming(o, e) : j <= k
  BY <1>7, SmallestOf
<1>9. o[j] = e /\ j <= i
  BY <1>7, <1>8 DEF findConflict
<1>10. j \in 1 .. i /\ j \in 1 .. n
  BY <1>1, <1>6, <1>7, <1>8, <1>9
<1>. QED
  BY <1>4, <1>9, <1>10

-----------------------------------------------------------------------------
(* The invariant. *)

Changes == [before : Seq(Inner), after : Seq(Entries), hazard : {"none", "warn"}]

\* Types; the file and what Apply or Rollback read of it are well marked.
HostOK ==
  /\ file \in Seq(Line) /\ WellMarked(file)
  /\ outside \in Seq(Line)
  /\ pc \in {"writing", "rewriting"} => Ends(outside) = {}

ProcessOK ==
  /\ desired \in Blocks
  /\ pc \in {"idle", "planned", "writing", "undoing", "rewriting"}
  /\ pc \in {"planned", "writing"} => verb = "apply"
  /\ pc \in {"undoing", "rewriting"} => verb = "rollback"
  /\ change \in Changes /\ applied \in Seq(Changes)
  /\ left \in 0 .. Len(applied)
  /\ pc = "rewriting" => left > 0
  /\ verb \in {"none", "apply", "rollback"} /\ ret \in {"ok", "error", "failed"}
  /\ raced \in BOOLEAN

CountsOK ==
  /\ faults \in Nat /\ edits \in Nat
  /\ since.edits \in Nat /\ since.edits <= edits
  /\ born.faults \in Nat /\ born.faults <= faults
  /\ born.edits \in Nat /\ born.edits <= edits

\* The lines of others are where they were, also in what was read and not raced.
LinesKept ==
  /\ OthersKept
  /\ pc \in {"writing", "rewriting"} /\ ~raced => OtherLines(outside) = theirs

\* Without an edit since the verb began, the plan and the read are of the file.
FreshPlan ==
  edits = since.edits =>
    /\ pc \in {"planned", "writing"} =>
         /\ change.after = desired
         /\ change.hazard = Hazard(desired)
    /\ pc = "writing" => outside = outsideBlock(file)

\* Nothing has failed and nobody has edited since the process started.
Undisturbed == faults = born.faults /\ edits = born.edits

\* Then everything around the block is as it was, the first change carries the
\* block that was there, and Rollback is back at the one it reverses last.
WayBack ==
  Undisturbed =>
    /\ TrimBlanks(outsideBlock(file)) = TrimBlanks(outsideBlock(born.file))
    /\ pc \in {"planned", "writing"} => change.before = extractBlock(file)
    /\ pc \in {"writing", "rewriting"} => outside = outsideBlock(file)
    /\ applied # <<>> => applied[1].before = extractBlock(born.file)
    /\ applied = <<>> => extractBlock(file) = extractBlock(born.file)
    /\ pc \in {"undoing", "rewriting"} /\ left < Len(applied) =>
         extractBlock(file) = applied[left + 1].before

IInv ==
  /\ HostOK /\ ProcessOK /\ CountsOK
  /\ LinesKept /\ FreshPlan /\ ApplyConverges
  /\ WayBack /\ RollbackRestores

-----------------------------------------------------------------------------
(* Types and markers. *)

\* The actions of others.
Edits == \E p \in DOMAIN file : DropLine(p) \/ \E l \in Others : AddLine(l, p)

\* Every step is one of these.
LEMMA StepCases ==
  ASSUME [Next]_vars
  PROVE  \/ Plan \/ PlanFails \/ ApplyReads \/ ApplyCannotRead \/ ApplyWrites \/ ApplyCannotWrite
         \/ BeginRollback \/ UndoReads \/ UndoWrites \/ UndoFails \/ RollbackReturns
         \/ Restart \/ Kill \/ Edits
         \/ UNCHANGED vars
BY Zenon DEF Next, Edits

\* Declared blocks and recorded ones are blocks.
LEMMA BlockTypes ==
  ASSUME ProcessOK
  PROVE  /\ desired \in Seq(Entries) /\ desired \in Seq(Inner)
         /\ change.before \in Seq(Inner) /\ change.after \in Seq(Inner) /\ change.after \in Seq(Entries)
         /\ \A i \in 1 .. Len(applied) : applied[i] \in Changes /\ applied[i].before \in Seq(Inner)
         /\ pc = "rewriting" => left \in 1 .. Len(applied) /\ applied[left].before \in Seq(Inner)
         /\ DOMAIN applied = 1 .. Len(applied) /\ Len(applied) \in Nat
<1>1. \A b \in Seq(Entries) : b \in Seq(Inner)
  BY InnerLines, SeqMonotonic
<1>2. desired \in Seq(Entries)
  BY HostsAssumption DEF ProcessOK
<1>3. change \in Changes /\ applied \in Seq(Changes) /\ left \in 0 .. Len(applied)
  BY DEF ProcessOK
<1>4. \A i \in 1 .. Len(applied) : applied[i] \in Changes
  BY <1>3, ElementOfSeq
<1>5. \A d \in Changes : d.before \in Seq(Inner) /\ d.after \in Seq(Entries)
  BY DEF Changes
<1>6. DOMAIN applied = 1 .. Len(applied) /\ Len(applied) \in Nat
  BY <1>3, LenProperties
<1>7. pc = "rewriting" => left \in 1 .. Len(applied)
  BY <1>3, <1>6 DEF ProcessOK
<1>. QED
  BY <1>1, <1>2, <1>3, <1>4, <1>5, <1>6, <1>7

\* Whatever a write that fails leaves is well marked.
LEMMA LeftMarked ==
  ASSUME HostOK, Ends(outside) = {}, NEW b \in Seq(Inner), NEW f \in Leftovers(mergeHosts(outside, b))
  PROVE  f \in Seq(Line) /\ WellMarked(f)
<1>1. outside \in Seq(Line) /\ file \in Seq(Line) /\ WellMarked(file)
  BY DEF HostOK
<1>2. PICK m : m = mergeHosts(outside, b) /\ m \in Seq(Line) /\ WellMarked(m)
  BY <1>1, MergeShape
<1>3. f = file \/ \E k \in 0 .. Len(m) : f = SubSeq(m, 1, k) \o <<Blank>>
  BY <1>2 DEF Leftovers
<1>4. ASSUME NEW k \in 0 .. Len(m), f = SubSeq(m, 1, k) \o <<Blank>> PROVE f \in Seq(Line) /\ WellMarked(f)
  BY <1>2, <1>4, CutMarked
<1>. QED
  BY <1>1, <1>3, <1>4

\* The process starts with a file that is well marked.
LEMMA InitTyped == Init => HostOK /\ ProcessOK /\ CountsOK
<1> SUFFICES ASSUME Init PROVE HostOK /\ ProcessOK /\ CountsOK
  OBVIOUS
<1>1. HostOK
  BY HostsAssumption, BodiesAssumption, EmptySeq DEF Init, HostOK
<1>2. ProcessOK
  <2>1. NoChange \in Changes
    BY EmptySeq DEF NoChange, Changes
  <2>2. <<>> \in Seq(Changes) /\ Len(<<>>) = 0
    BY EmptySeq
  <2>3. applied \in Seq(Changes) /\ left \in 0 .. Len(applied)
    BY <2>2 DEF Init
  <2>4. desired \in Blocks /\ change \in Changes /\ raced \in BOOLEAN
    BY <2>1, Zenon DEF Init
  <2>. QED
    BY <2>3, <2>4 DEF Init, ProcessOK
<1>3. CountsOK
  BY DEF Init, CountsOK
<1>. QED
  BY <1>1, <1>2, <1>3

\* The file is well marked after every step, and so is what is read of it.
LEMMA HostStep ==
  ASSUME HostOK, ProcessOK, [Next]_vars
  PROVE  HostOK'
<1>0. /\ file \in Seq(Line) /\ WellMarked(file) /\ outside \in Seq(Line)
      /\ pc \in {"writing", "rewriting"} => Ends(outside) = {}
  BY DEF HostOK
<1> SUFFICES /\ file' \in Seq(Line) /\ WellMarked(file') /\ outside' \in Seq(Line)
             /\ pc' \in {"writing", "rewriting"} => Ends(outside') = {}
  BY DEF HostOK, WellMarked, Ends, IndicesOf, extractBlock, HasBlock, LastBegin
<1>1. ASSUME UNCHANGED file, UNCHANGED outside \/ outside' = <<>>, pc' \notin {"writing", "rewriting"}
      PROVE  /\ file' \in Seq(Line) /\ WellMarked(file') /\ outside' \in Seq(Line)
             /\ pc' \in {"writing", "rewriting"} => Ends(outside') = {}
  BY <1>0, <1>1, EmptySeq
<1>2. CASE Plan \/ PlanFails \/ ApplyCannotRead
  BY <1>1, <1>2 DEF Plan, PlanFails, ApplyCannotRead, Return
<1>3. CASE ApplyReads \/ UndoReads
  <2>1. UNCHANGED file /\ outside' = outsideBlock(file)
    BY <1>3 DEF ApplyReads, UndoReads
  <2>. QED
    BY <1>0, <2>1, OutsideType
<1>4. CASE ApplyWrites \/ UndoWrites
  <2>1. PICK b \in Seq(Inner) : file' = mergeHosts(outside, b)
    BY <1>4, BlockTypes DEF ApplyWrites, UndoWrites
  <2>2. Ends(outside) = {} /\ UNCHANGED outside /\ pc' \notin {"writing", "rewriting"}
    BY <1>0, <1>4 DEF ApplyWrites, UndoWrites, Return
  <2>. QED
    BY <1>0, <2>1, <2>2, MergeShape
<1>5. CASE ApplyCannotWrite \/ Kill \/ (UndoFails /\ pc = "rewriting")
  <2>1. PICK b \in Seq(Inner) : file' \in Leftovers(mergeHosts(outside, b))
    BY <1>5, BlockTypes DEF ApplyCannotWrite, Kill, UndoFails
  <2>2. /\ pc \in {"writing", "rewriting"} /\ pc' \notin {"writing", "rewriting"}
        /\ outside' \in {outside, <<>>}
    BY <1>5 DEF ApplyCannotWrite, Kill, UndoFails, Return, Start
  <2>. QED
    BY <1>0, <2>1, <2>2, LeftMarked, EmptySeq
<1>6. CASE BeginRollback \/ RollbackReturns \/ Restart \/ (UndoFails /\ pc # "rewriting")
  BY <1>1, <1>6 DEF BeginRollback, RollbackReturns, Restart, UndoFails, Return, Start
<1>7. CASE Edits
  <2>1. UNCHANGED <<outside, pc>>
    BY <1>7 DEF Edits, DropLine, AddLine, Edited, process
  <2>2. file' \in Seq(Line) /\ WellMarked(file')
    <3>1. ASSUME NEW p \in DOMAIN file, DropLine(p) PROVE file' \in Seq(Line) /\ WellMarked(file')
      BY <1>0, <3>1, DropMarked DEF DropLine
    <3>2. ASSUME NEW p \in DOMAIN file, NEW l \in Others, AddLine(l, p) PROVE file' \in Seq(Line) /\ WellMarked(file')
      BY <1>0, <3>2, AddMarked DEF AddLine
    <3>. QED
      BY <1>7, <3>1, <3>2 DEF Edits
  <2>. QED
    BY <1>0, <2>1, <2>2
<1>8. CASE UNCHANGED vars
  BY <1>0, <1>8 DEF vars, process
<1>. QED
  BY <1>2, <1>3, <1>4, <1>5, <1>6, <1>7, <1>8, StepCases

\* A new process starts in order.
LEMMA StartTyped ==
  ASSUME CountsOK, Start, faults' = faults, edits' = edits
  PROVE  ProcessOK' /\ CountsOK'
<1>1. NoChange \in Changes
  BY EmptySeq DEF NoChange, Changes
<1>2. <<>> \in Seq(Changes) /\ Len(<<>>) = 0
  BY EmptySeq
<1>3. ProcessOK'
  <2>1. applied' \in Seq(Changes) /\ left' \in 0 .. Len(applied')
    BY <1>2 DEF Start
  <2>2. desired' \in Blocks /\ change' \in Changes /\ raced' \in BOOLEAN
    BY <1>1, Zenon DEF Start
  <2>. QED
    BY <2>1, <2>2 DEF Start, ProcessOK
<1>4. CountsOK'
  BY DEF Start, CountsOK
<1>. QED
  BY <1>3, <1>4

\* The process keeps its shape.
LEMMA ProcessStep ==
  ASSUME HostOK, ProcessOK, CountsOK, [Next]_vars
  PROVE  ProcessOK' /\ CountsOK'
<1>0. /\ desired \in Blocks
      /\ change \in Changes /\ applied \in Seq(Changes) /\ left \in 0 .. Len(applied) /\ Len(applied) \in Nat
      /\ faults \in Nat /\ edits \in Nat
  BY BlockTypes DEF ProcessOK, CountsOK
<1>1. CASE Plan
  <2>1. change' \in Changes
    <3>1. extractBlock(file) \in Seq(Inner) /\ desired \in Seq(Entries) /\ Hazard(desired) \in {"none", "warn"}
      BY OutsideType, BlockTypes DEF HostOK, Hazard
    <3>2. NoChange \in Changes
      BY EmptySeq DEF NoChange, Changes
    <3>3. change' \in {NoChange, [before |-> extractBlock(file), after |-> desired, hazard |-> Hazard(desired)]}
      BY <1>1 DEF Plan
    <3>. QED
      BY <3>1, <3>2, <3>3 DEF Changes
  <2>. QED
    BY <1>0, <1>1, <2>1 DEF Plan, Call, ProcessOK, CountsOK, counts
<1>2. CASE PlanFails
  BY <1>0, <1>2 DEF PlanFails, Call, Fault, ProcessOK, CountsOK
<1>3. CASE ApplyReads \/ UndoReads
  BY <1>0, <1>3 DEF ApplyReads, UndoReads, ProcessOK, CountsOK, counts
<1>4. CASE ApplyCannotRead \/ ApplyCannotWrite
  BY <1>0, <1>4 DEF ApplyCannotRead, ApplyCannotWrite, Return, Fault, ProcessOK, CountsOK
<1>5. CASE ApplyWrites
  <2>1. applied' \in Seq(Changes) /\ Len(applied') = Len(applied) + 1
    BY <1>0, <1>5, AppendProperties DEF ApplyWrites
  <2>. QED
    BY <1>0, <1>5, <2>1 DEF ApplyWrites, Return, ProcessOK, CountsOK, counts
<1>6. CASE BeginRollback
  BY <1>0, <1>6 DEF BeginRollback, Call, ProcessOK, CountsOK, counts
<1>7. CASE UndoWrites
  BY <1>0, <1>7 DEF UndoWrites, ProcessOK, CountsOK, counts
<1>8. CASE UndoFails
  BY <1>0, <1>8 DEF UndoFails, Return, Fault, ProcessOK, CountsOK
<1>9. CASE RollbackReturns
  BY <1>0, <1>9 DEF RollbackReturns, Return, ProcessOK, CountsOK, counts
<1>10. CASE Restart \/ Kill
  <2>1. Start /\ faults' = faults /\ edits' = edits
    BY <1>10 DEF Restart, Kill
  <2>. QED
    BY <2>1, StartTyped
<1>11. CASE Edits
  <2>1. UNCHANGED <<process, faults, since, born>> /\ edits' = edits + 1 /\ raced' = TRUE
    BY <1>11 DEF Edits, DropLine, AddLine, Edited
  <2>. QED
    BY <1>0, <2>1 DEF process, ProcessOK, CountsOK
<1>12. CASE UNCHANGED vars
  BY <1>12 DEF vars, process, counts, ProcessOK, CountsOK
<1>. QED
  BY <1>1, <1>2, <1>3, <1>4, <1>5, <1>6, <1>7, <1>8, <1>9, <1>10, <1>11, <1>12, StepCases

-----------------------------------------------------------------------------
(* What a change that is written makes of the file. *)

\* Apply leaves the planned block between the lines it read.
LEMMA WrittenByApply ==
  ASSUME HostOK, ProcessOK, ApplyWrites
  PROVE  /\ extractBlock(file') = change.after
         /\ TrimBlanks(outsideBlock(file')) = TrimBlanks(outside)
         /\ OtherLines(file') = OtherLines(outside)
<1>1. outside \in Seq(Line) /\ Ends(outside) = {}
  BY DEF HostOK, ApplyWrites
<1>2. change.after \in Seq(Inner)
  BY BlockTypes
<1>3. file' = mergeHosts(outside, change.after)
  BY DEF ApplyWrites
<1>. QED
  BY <1>1, <1>2, <1>3, MergeShape

\* Rollback leaves the block the change replaced between the lines it read.
LEMMA WrittenByRollback ==
  ASSUME HostOK, ProcessOK, UndoWrites
  PROVE  /\ extractBlock(file') = applied[left].before
         /\ TrimBlanks(outsideBlock(file')) = TrimBlanks(outside)
         /\ OtherLines(file') = OtherLines(outside)
<1>1. outside \in Seq(Line) /\ Ends(outside) = {}
  BY DEF HostOK, UndoWrites
<1>2. applied[left].before \in Seq(Inner)
  BY BlockTypes DEF UndoWrites
<1>3. file' = mergeHosts(outside, applied[left].before)
  BY DEF UndoWrites
<1>. QED
  BY <1>1, <1>2, <1>3, MergeShape

\* No step but a change that is written loses a line of others; one that is
\* written has those that were there when the file was read.
LEMMA LinesStep ==
  ASSUME HostOK, ProcessOK, LinesKept, [Next]_vars
  PROVE  LinesKept'
<1>0. /\ OtherLines(file) = theirs
      /\ pc \in {"writing", "rewriting"} /\ ~raced => OtherLines(outside) = theirs
  BY DEF LinesKept, OthersKept
<1> SUFFICES /\ OtherLines(file') = theirs'
             /\ pc' \in {"writing", "rewriting"} /\ ~raced' => OtherLines(outside') = theirs'
  BY DEF LinesKept, OthersKept
<1>1. ASSUME UNCHANGED <<file, theirs>>, pc' \notin {"writing", "rewriting"}
      PROVE  /\ OtherLines(file') = theirs'
             /\ pc' \in {"writing", "rewriting"} /\ ~raced' => OtherLines(outside') = theirs'
  BY <1>0, <1>1
<1>2. ASSUME theirs' = OtherLines(file'), pc' \notin {"writing", "rewriting"} \/ raced'
      PROVE  /\ OtherLines(file') = theirs'
             /\ pc' \in {"writing", "rewriting"} /\ ~raced' => OtherLines(outside') = theirs'
  BY <1>2
<1>3. CASE Plan \/ PlanFails \/ ApplyCannotRead \/ BeginRollback \/ RollbackReturns \/ Restart
  BY <1>1, <1>3 DEF Plan, PlanFails, ApplyCannotRead, BeginRollback, RollbackReturns, Restart, Return, Start
<1>4. CASE ApplyReads \/ UndoReads
  <2>1. UNCHANGED <<file, theirs>> /\ outside' = outsideBlock(file)
    BY <1>4 DEF ApplyReads, UndoReads
  <2>2. OtherLines(outsideBlock(file)) = OtherLines(file)
    BY OutsideType DEF HostOK
  <2>. QED
    BY <1>0, <2>1, <2>2
<1>5. CASE ApplyWrites \/ UndoWrites
  <2>1. OtherLines(file') = OtherLines(outside)
    BY <1>5, WrittenByApply, WrittenByRollback
  <2>2. /\ pc \in {"writing", "rewriting"} /\ pc' \notin {"writing", "rewriting"}
        /\ theirs' = IF raced THEN OtherLines(file') ELSE theirs
    BY <1>5 DEF ApplyWrites, UndoWrites, Return
  <2>. QED
    BY <1>0, <2>1, <2>2
<1>6. CASE ApplyCannotWrite \/ Kill \/ (UndoFails /\ pc = "rewriting")
  BY <1>2, <1>6 DEF ApplyCannotWrite, Kill, UndoFails, Return, Start
<1>7. CASE UndoFails /\ pc # "rewriting"
  BY <1>1, <1>7 DEF UndoFails, Return
<1>8. CASE Edits
  BY <1>2, <1>8 DEF Edits, DropLine, AddLine, Edited
<1>9. CASE UNCHANGED vars
  BY <1>0, <1>9 DEF vars, process
<1>. QED
  BY <1>3, <1>4, <1>5, <1>6, <1>7, <1>8, <1>9, StepCases

-----------------------------------------------------------------------------
(* An Apply that nothing disturbs converges. *)

\* Without an edit a plan is still about the file when it is carried out.
LEMMA PlanStep ==
  ASSUME ProcessOK, CountsOK, FreshPlan, [Next]_vars
  PROVE  FreshPlan'
<1> SUFFICES ASSUME edits' = since'.edits
             PROVE  /\ pc' \in {"planned", "writing"} =>
                         /\ change'.after = desired'
                         /\ change'.hazard = Hazard(desired)'
                    /\ pc' = "writing" => outside' = outsideBlock(file')
  BY DEF FreshPlan
<1>1. ASSUME pc' \notin {"planned", "writing"}
      PROVE  /\ pc' \in {"planned", "writing"} =>
                  /\ change'.after = desired'
                  /\ change'.hazard = Hazard(desired)'
             /\ pc' = "writing" => outside' = outsideBlock(file')
  BY <1>1
<1>2. CASE Plan
  BY <1>2 DEF Plan, Hazard
<1>3. CASE ApplyReads
  BY <1>3 DEF ApplyReads, FreshPlan, Hazard, counts
<1>4. CASE PlanFails \/ ApplyCannotRead \/ ApplyWrites \/ ApplyCannotWrite
  BY <1>1, <1>4 DEF PlanFails, ApplyCannotRead, ApplyWrites, ApplyCannotWrite, Return
<1>5. CASE BeginRollback \/ UndoReads \/ UndoWrites \/ UndoFails \/ RollbackReturns
  BY <1>1, <1>5 DEF BeginRollback, UndoReads, UndoWrites, UndoFails, RollbackReturns, Return
<1>6. CASE Restart \/ Kill
  BY <1>1, <1>6 DEF Restart, Kill, Start
<1>7. CASE Edits
  <2>1. edits' = edits + 1 /\ since' = since
    BY <1>7 DEF Edits, DropLine, AddLine, Edited
  <2>2. edits \in Nat /\ since.edits \in Nat /\ since.edits <= edits
    BY DEF CountsOK
  <2>3. since'.edits = since.edits
    BY <2>1
  <2>4. since'.edits # edits + 1
    BY <2>2, <2>3
  <2>. QED
    BY <2>1, <2>4, Zenon
<1>8. CASE UNCHANGED vars
  BY <1>8 DEF vars, process, counts, FreshPlan, Hazard
<1>. QED
  BY <1>2, <1>3, <1>4, <1>5, <1>6, <1>7, <1>8, StepCases

\* What an Apply leaves is what the manifest declares, and unless it has warned
\* no line shadows a declared one.
LEMMA ConvergesStep ==
  ASSUME HostOK, ProcessOK, CountsOK, FreshPlan, ApplyConverges, [Next]_vars
  PROVE  ApplyConverges'
<1> SUFFICES ASSUME pc' = "idle", verb' = "apply", ret' = "ok", edits' = since'.edits
             PROVE  /\ extractBlock(file') = desired'
                    /\ change'.after = desired' /\ change'.hazard = "none" =>
                         \A d \in ToSet(desired') : Resolves(d)'
  BY DEF ApplyConverges
<1>1. CASE Plan
  <2>1. extractBlock(file) = desired /\ change' = NoChange /\ UNCHANGED <<file, desired>>
    BY <1>1 DEF Plan
  <2>2. change'.after = desired' => ToSet(desired') = {}
    BY <2>1, ToSetEmpty DEF NoChange
  <2>. QED
    BY <2>1, <2>2
<1>2. CASE ApplyWrites
  <2>1. /\ change.after = desired /\ change.hazard = Hazard(desired)
        /\ outside = outsideBlock(file) /\ desired' = desired /\ change' = change
    BY <1>2 DEF ApplyWrites, Return, FreshPlan, counts
  <2>2. extractBlock(file') = desired'
    BY <1>2, <2>1, WrittenByApply
  <2>3. ASSUME change.hazard = "none", NEW d \in ToSet(desired) PROVE Resolves(d)'
    <3>1. d \in Entries /\ desired \in Seq(Inner)
      BY <2>3, BlockTypes, ToSetType
    <3>2. ~findConflict(outside, d)
      BY <2>1, <2>3 DEF Hazard
    <3>3. outside \in Seq(Line)
      BY DEF HostOK
    <3>4. file' = mergeHosts(outside, desired)
      BY <1>2, <2>1 DEF ApplyWrites
    <3>5. \A i \in DOMAIN file' : <<file'[i], d>> \in Clash => \E j \in 1 .. i : file'[j] = d
      BY <3>1, <3>2, <3>3, <3>4, MergeResolves
    <3>. QED
      BY <3>5 DEF Resolves
  <2>. QED
    BY <2>1, <2>2, <2>3
<1>3. CASE PlanFails \/ ApplyReads \/ ApplyCannotRead \/ ApplyCannotWrite \/ UndoFails
  BY <1>3 DEF PlanFails, ApplyReads, ApplyCannotRead, ApplyCannotWrite, UndoFails, Return
<1>4. CASE BeginRollback \/ UndoReads \/ UndoWrites \/ RollbackReturns
  BY <1>4 DEF BeginRollback, Call, UndoReads, UndoWrites, RollbackReturns, Return, ProcessOK
<1>5. CASE Restart \/ Kill
  BY <1>5 DEF Restart, Kill, Start
<1>6. CASE Edits
  <2>1. edits' = edits + 1 /\ since' = since
    BY <1>6 DEF Edits, DropLine, AddLine, Edited
  <2>2. edits \in Nat /\ since.edits \in Nat /\ since.edits <= edits
    BY DEF CountsOK
  <2>3. since'.edits = since.edits
    BY <2>1
  <2>4. since'.edits # edits + 1
    BY <2>2, <2>3
  <2>. QED
    BY <2>1, <2>4, Zenon
<1>7. CASE UNCHANGED vars
  BY <1>7 DEF vars, process, counts, ApplyConverges, Resolves
<1>. QED
  BY <1>1, <1>2, <1>3, <1>4, <1>5, <1>6, <1>7, StepCases

-----------------------------------------------------------------------------
(* A Rollback that nothing disturbs restores. *)

\* A step that fails or that others make disturbs the process.
LEMMA Disturbs ==
  ASSUME CountsOK, born' = born, Fault \/ edits' = edits + 1
  PROVE  ~(faults' = born'.faults /\ edits' = born'.edits)
<1>1. /\ faults \in Nat /\ born.faults \in Nat /\ born.faults <= faults
      /\ edits \in Nat /\ born.edits \in Nat /\ born.edits <= edits
  BY DEF CountsOK
<1>2. born'.faults = born.faults /\ born'.edits = born.edits
  OBVIOUS
<1>3. faults' = faults + 1 \/ edits' = edits + 1
  BY DEF Fault
<1>4. born'.faults # faults + 1 /\ born'.edits # edits + 1
  BY <1>1, <1>2
<1>. QED
  BY <1>3, <1>4, Zenon

\* A change that is recorded goes behind the others.
LEMMA RecordGrows ==
  ASSUME ProcessOK, NEW d
  PROVE  /\ Append(applied, d) # <<>>
         /\ Append(applied, d)[1] = IF applied = <<>> THEN d ELSE applied[1]
<1>1. applied \in Seq(Changes)
  BY DEF ProcessOK
<1>2. PICK n \in Nat : n = Len(applied)
  BY <1>1, LenProperties
<1>3. Len(Append(applied, d)) = n + 1 /\ (n # 0 => Append(applied, d)[1] = applied[1])
      /\ Append(applied, d)[n + 1] = d
  BY <1>1, <1>2
<1>4. n = 0 <=> applied = <<>>
  BY <1>1, <1>2, EmptySeq
<1>5. Append(applied, d) # <<>>
  <2>1. Len(<<>>) # n + 1
    BY <1>2
  <2>. QED
    BY <1>3, <2>1, Zenon
<1>6. CASE applied = <<>>
  <2>1. n + 1 = 1
    BY <1>4, <1>6
  <2>. QED
    BY <1>3, <1>5, <1>6, <2>1
<1>7. CASE applied # <<>>
  BY <1>3, <1>4, <1>5, <1>7
<1>. QED
  BY <1>6, <1>7

\* The process still knows the way back to what it found.
LEMMA WayBackStep ==
  ASSUME HostOK, ProcessOK, CountsOK, WayBack, [Next]_vars
  PROVE  WayBack'
<1> SUFFICES ASSUME faults' = born'.faults, edits' = born'.edits
             PROVE  /\ TrimBlanks(outsideBlock(file')) = TrimBlanks(outsideBlock(born'.file))
                    /\ pc' \in {"planned", "writing"} => change'.before = extractBlock(file')
                    /\ pc' \in {"writing", "rewriting"} => outside' = outsideBlock(file')
                    /\ applied' # <<>> => applied'[1].before = extractBlock(born'.file)
                    /\ applied' = <<>> => extractBlock(file') = extractBlock(born'.file)
                    /\ pc' \in {"undoing", "rewriting"} /\ left' < Len(applied') =>
                         extractBlock(file') = applied'[left' + 1].before
  BY DEF WayBack, Undisturbed
<1>0. ASSUME UNCHANGED <<faults, edits, born>>
      PROVE  /\ TrimBlanks(outsideBlock(file)) = TrimBlanks(outsideBlock(born.file))
             /\ pc \in {"planned", "writing"} => change.before = extractBlock(file)
             /\ pc \in {"writing", "rewriting"} => outside = outsideBlock(file)
             /\ applied # <<>> => applied[1].before = extractBlock(born.file)
             /\ applied = <<>> => extractBlock(file) = extractBlock(born.file)
             /\ pc \in {"undoing", "rewriting"} /\ left < Len(applied) =>
                  extractBlock(file) = applied[left + 1].before
  BY <1>0 DEF WayBack, Undisturbed
<1>1. CASE Plan
  <2>1. /\ UNCHANGED <<faults, edits, born, file, applied>>
        /\ pc' \in {"idle", "planned"}
        /\ pc' = "planned" => change'.before = extractBlock(file)
    BY <1>1 DEF Plan, counts
  <2>. QED
    BY <1>0, <2>1
<1>2. CASE PlanFails \/ ApplyCannotRead \/ ApplyCannotWrite \/ UndoFails
  <2>1. Fault /\ born' = born
    BY <1>2 DEF PlanFails, ApplyCannotRead, ApplyCannotWrite, UndoFails
  <2>. QED
    BY <2>1, Disturbs
<1>3. CASE ApplyReads \/ UndoReads
  <2>1. /\ UNCHANGED <<faults, edits, born, file, change, applied, left>>
        /\ outside' = outsideBlock(file)
        /\ \/ pc = "planned" /\ pc' = "writing"
           \/ pc = "undoing" /\ pc' = "rewriting"
    BY <1>3 DEF ApplyReads, UndoReads, counts
  <2>. QED
    BY <1>0, <2>1
<1>4. CASE ApplyWrites
  <2>1. /\ UNCHANGED <<faults, edits, born>> /\ pc = "writing" /\ pc' = "idle"
        /\ applied' = Append(applied, change)
    BY <1>4 DEF ApplyWrites, Return, counts
  <2>2. /\ TrimBlanks(outsideBlock(file)) = TrimBlanks(outsideBlock(born.file))
        /\ change.before = extractBlock(file) /\ outside = outsideBlock(file)
        /\ applied # <<>> => applied[1].before = extractBlock(born.file)
        /\ applied = <<>> => extractBlock(file) = extractBlock(born.file)
    BY <1>0, <2>1
  <2>3. TrimBlanks(outsideBlock(file')) = TrimBlanks(outside)
    BY <1>4, WrittenByApply
  <2>4. applied' # <<>> /\ applied'[1] = IF applied = <<>> THEN change ELSE applied[1]
    BY <2>1, RecordGrows
  <2>5. applied'[1].before = extractBlock(born.file)
    BY <2>2, <2>4, Zenon
  <2>6. TrimBlanks(outsideBlock(file')) = TrimBlanks(outsideBlock(born.file))
    BY <2>2, <2>3, Zenon
  <2>7. born'.file = born.file
    BY <2>1
  <2>. QED
    BY <2>1, <2>4, <2>5, <2>6, <2>7
<1>5. CASE BeginRollback
  <2>1. /\ UNCHANGED <<faults, edits, born, file, applied>>
        /\ pc' = "undoing" /\ left' = Len(applied')
    BY <1>5 DEF BeginRollback, counts
  <2>2. ~(left' < Len(applied'))
    BY <2>1, BlockTypes
  <2>. QED
    BY <1>0, <2>1, <2>2
<1>6. CASE UndoWrites
  <2>1. /\ UNCHANGED <<faults, edits, born, applied>> /\ pc = "rewriting" /\ pc' = "undoing"
        /\ left' = left - 1
    BY <1>6 DEF UndoWrites, counts
  <2>2. left \in 1 .. Len(applied) /\ Len(applied) \in Nat
    BY <2>1, BlockTypes
  <2>3. /\ TrimBlanks(outsideBlock(file)) = TrimBlanks(outsideBlock(born.file))
        /\ outside = outsideBlock(file)
        /\ applied # <<>> => applied[1].before = extractBlock(born.file)
    BY <1>0, <2>1
  <2>4. /\ extractBlock(file') = applied[left].before
        /\ TrimBlanks(outsideBlock(file')) = TrimBlanks(outside)
    BY <1>6, WrittenByRollback
  <2>5. left' + 1 = left
    BY <2>1, <2>2
  <2>6. applied # <<>>
    <3>1. Len(<<>>) = 0
      OBVIOUS
    <3>. QED
      BY <2>2, <3>1
  <2>7. born'.file = born.file /\ applied' = applied
    BY <2>1
  <2>8. TrimBlanks(outsideBlock(file')) = TrimBlanks(outsideBlock(born.file))
    BY <2>3, <2>4, Zenon
  <2>. QED
    BY <2>1, <2>3, <2>4, <2>5, <2>6, <2>7, <2>8
<1>7. CASE RollbackReturns
  <2>1. UNCHANGED <<faults, edits, born, file, applied>> /\ pc' = "idle"
    BY <1>7 DEF RollbackReturns, Return, counts
  <2>. QED
    BY <1>0, <2>1
<1>8. CASE Restart \/ Kill
  <2>1. pc' = "idle" /\ applied' = <<>> /\ born'.file = file'
    BY <1>8 DEF Restart, Kill, Start
  <2>. QED
    BY <2>1
<1>9. CASE Edits
  <2>1. edits' = edits + 1 /\ born' = born
    BY <1>9 DEF Edits, DropLine, AddLine, Edited
  <2>. QED
    BY <2>1, Disturbs
<1>10. CASE UNCHANGED vars
  <2>1. UNCHANGED <<faults, edits, born, file, pc, change, outside, applied, left>>
    BY <1>10 DEF vars, process, counts
  <2>. QED
    BY <1>0, <2>1
<1>. QED
  BY <1>1, <1>2, <1>3, <1>4, <1>5, <1>6, <1>7, <1>8, <1>9, <1>10, StepCases

\* When Rollback returns it is there.
LEMMA RestoresStep ==
  ASSUME ProcessOK, CountsOK, WayBack, RollbackRestores, [Next]_vars
  PROVE  RollbackRestores'
<1> SUFFICES ASSUME pc' = "idle", verb' = "rollback", ret' = "ok",
                    faults' = born'.faults, edits' = born'.edits
             PROVE  /\ extractBlock(file') = extractBlock(born'.file)
                    /\ TrimBlanks(outsideBlock(file')) = TrimBlanks(outsideBlock(born'.file))
  BY DEF RollbackRestores
<1>1. CASE RollbackReturns
  <2>1. pc = "undoing" /\ left = 0 /\ UNCHANGED <<file, born, faults, edits>>
    BY <1>1 DEF RollbackReturns, counts
  <2>2. /\ TrimBlanks(outsideBlock(file)) = TrimBlanks(outsideBlock(born.file))
        /\ applied # <<>> => applied[1].before = extractBlock(born.file)
        /\ applied = <<>> => extractBlock(file) = extractBlock(born.file)
        /\ 0 < Len(applied) => extractBlock(file) = applied[0 + 1].before
    BY <2>1 DEF WayBack, Undisturbed
  <2>3. applied # <<>> => 0 < Len(applied)
    BY EmptySeq DEF ProcessOK
  <2>4. extractBlock(file) = extractBlock(born.file)
    BY <2>2, <2>3
  <2>. QED
    BY <2>1, <2>2, <2>4
<1>2. CASE PlanFails \/ ApplyCannotRead \/ ApplyCannotWrite \/ UndoFails
  <2>1. Fault /\ born' = born
    BY <1>2 DEF PlanFails, ApplyCannotRead, ApplyCannotWrite, UndoFails
  <2>. QED
    BY <2>1, Disturbs
<1>3. CASE Plan \/ ApplyReads \/ ApplyWrites
  BY <1>3 DEF Plan, Call, ApplyReads, ApplyWrites, Return, ProcessOK
<1>4. CASE BeginRollback \/ UndoReads \/ UndoWrites
  BY <1>4 DEF BeginRollback, UndoReads, UndoWrites
<1>5. CASE Restart \/ Kill
  BY <1>5 DEF Restart, Kill, Start
<1>6. CASE Edits
  <2>1. edits' = edits + 1 /\ born' = born
    BY <1>6 DEF Edits, DropLine, AddLine, Edited
  <2>. QED
    BY <2>1, Disturbs
<1>7. CASE UNCHANGED vars
  BY <1>7 DEF vars, process, counts, RollbackRestores
<1>. QED
  BY <1>1, <1>2, <1>3, <1>4, <1>5, <1>6, <1>7, StepCases

-----------------------------------------------------------------------------
(* The theorems. *)

\* The invariant holds when the first process starts.
LEMMA InitInv == Init => IInv
<1> SUFFICES ASSUME Init PROVE IInv
  OBVIOUS
<1>1. HostOK /\ ProcessOK /\ CountsOK
  BY InitTyped
<1>2. /\ pc = "idle" /\ verb = "none" /\ applied = <<>>
      /\ theirs = OtherLines(file) /\ born.file = file
  BY DEF Init
<1>3. LinesKept /\ FreshPlan /\ ApplyConverges /\ RollbackRestores
  BY <1>2 DEF LinesKept, OthersKept, FreshPlan, ApplyConverges, RollbackRestores
<1>4. WayBack
  BY <1>2 DEF WayBack
<1>. QED
  BY <1>1, <1>3, <1>4 DEF IInv

\* Every step keeps it.
LEMMA NextInv == IInv /\ [Next]_vars => IInv'
<1> SUFFICES ASSUME IInv, [Next]_vars PROVE IInv'
  OBVIOUS
<1>1. /\ HostOK /\ ProcessOK /\ CountsOK
      /\ LinesKept /\ FreshPlan /\ ApplyConverges
      /\ WayBack /\ RollbackRestores
  BY DEF IInv
<1>2. HostOK' /\ ProcessOK' /\ CountsOK'
  BY <1>1, HostStep, ProcessStep
<1>3. LinesKept' /\ FreshPlan' /\ ApplyConverges'
  BY <1>1, LinesStep, PlanStep, ConvergesStep
<1>4. WayBack' /\ RollbackRestores'
  BY <1>1, WayBackStep, RestoresStep
<1>. QED
  BY <1>2, <1>3, <1>4 DEF IInv

\* The types follow from it.
LEMMA InvTyped == IInv => TypeOK
<1> SUFFICES ASSUME IInv PROVE TypeOK
  OBVIOUS
<1>1. HostOK /\ ProcessOK /\ OtherLines(file) = theirs
  BY DEF IInv, LinesKept, OthersKept
<1>2. file \in Seq(Line) /\ outside \in Seq(Line) /\ theirs \in Seq(Others)
  BY <1>1, OtherLinesType DEF HostOK
<1>3. change.after \in Block /\ change.before \in Seq(Line)
  <2>1. change.before \in Seq(Inner) /\ change.after \in Seq(Entries)
    BY <1>1, BlockTypes
  <2>. QED
    BY <2>1, InnerLines, SeqMonotonic DEF Block
<1>4. \A i \in DOMAIN applied : applied[i].after \in Block
  <2>1. \A i \in 1 .. Len(applied) : applied[i] \in Changes
    BY <1>1, BlockTypes
  <2>2. DOMAIN applied = 1 .. Len(applied)
    BY <1>1, BlockTypes
  <2>. QED
    BY <2>1, <2>2 DEF Changes, Block
<1>5. pc = "rewriting" => left \in DOMAIN applied
  BY <1>1, BlockTypes
<1>6. /\ desired \in Blocks /\ raced \in BOOLEAN
      /\ pc \in {"idle", "planned", "writing", "undoing", "rewriting"}
      /\ verb \in {"none", "apply", "rollback"} /\ ret \in {"ok", "error", "failed"}
  BY <1>1 DEF ProcessOK
<1>. QED
  BY <1>2, <1>3, <1>4, <1>5, <1>6, Zenon DEF TypeOK

\* The invariant always holds.
LEMMA AlwaysInv == Spec => []IInv
BY InitInv, NextInv, PTL DEF Spec

\* The variables keep their shapes, and Rollback reverses only what is recorded.
THEOREM TypeCorrect == Spec => []TypeOK
BY AlwaysInv, InvTyped, PTL

\* "Lines outside the sandwich are never touched": no apply or rollback loses,
\* adds or reorders a line that is not linuxctl's, whatever fails and whoever
\* edits the file, but for an edit between a read and its write.
THEOREM OthersStay == Spec => []OthersKept
<1>1. IInv => OthersKept
  BY DEF IInv, LinesKept
<1>. QED
  BY <1>1, AlwaysInv, PTL

\* An Apply nobody disturbs leaves the declared block, also after writes that
\* were cut short; if it wrote that block and its plan carried no warning, no name
\* it declares is shadowed.
THEOREM Converges == Spec => []ApplyConverges
<1>1. IInv => ApplyConverges
  BY DEF IInv
<1>. QED
  BY <1>1, AlwaysInv, PTL

\* A Rollback nobody disturbs leaves the block and the text the process found.
THEOREM RollbackTakesBack == Spec => []RollbackRestores
<1>1. IInv => RollbackRestores
  BY DEF IInv
<1>. QED
  BY <1>1, AlwaysInv, PTL
=============================================================================
