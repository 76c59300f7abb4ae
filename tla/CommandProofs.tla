--------------------------- MODULE CommandProofs ----------------------------
(***************************************************************************)
(* What holds of merging for every preset and every list (merge.go): what  *)
(* the manifest lists itself is kept, and merging again changes nothing,   *)
(* so a rendered manifest can be rendered, or applied, again.  And what    *)
(* holds of every command on every stack, with every catalogue, host,      *)
(* number of faults and depth of documents.                                *)
(***************************************************************************)
EXTENDS Command, SequenceTheorems, WellFoundedInduction, TLAPS

-----------------------------------------------------------------------------
(* Sequences. *)

\* Every set of naturals that is not empty has a first element.
LEMMA LeastNat ==
  ASSUME NEW S, S \subseteq Nat, S # {}
  PROVE  \E n \in S : \A m \in S : n <= m
<1>1. PICK n \in S : \A m \in S : <<m, n>> \notin OpToRel(<, Nat)
  BY NatLessThanWellFounded, WFMin
<1>2. \A m \in S : ~ (m < n)
  BY <1>1, Zenon DEF OpToRel
<1>3. \A m \in S : n <= m
  BY <1>2
<1>. QED
  BY <1>3, Zenon

\* The elements of a sequence over S are in S (o.applied, r.Applied).
LEMMA ToSetType ==
  ASSUME NEW S, NEW s \in Seq(S)
  PROVE  ToSet(s) \subseteq S
BY RangeOfSeq DEF ToSet, Range

\* The empty sequence has no elements.
LEMMA ToSetEmpty == ToSet(<<>>) = {}
BY DEF ToSet

----------------------------------------------------------------------------
(* Overlays. *)

\* An overlay has the keys of both sides, and the first side's values where it has one.
LEMMA OverlayValues ==
  ASSUME NEW e, NEW p
  PROVE  /\ DOMAIN Overlay(e, p) = DOMAIN e \union DOMAIN p
         /\ \A k \in DOMAIN e : Overlay(e, p)[k] = e[k]
         /\ \A k \in DOMAIN p \ DOMAIN e : Overlay(e, p)[k] = p[k]
  BY DEF Overlay

\* Overlaying the same function again changes nothing (MergeDirectories, MergeSysctl).
LEMMA OverlayAgain ==
  ASSUME NEW e, NEW p
  PROVE  Overlay(Overlay(e, p), p) = Overlay(e, p)
<1> DEFINE o == Overlay(e, p)
<1>1. DOMAIN o \union DOMAIN p = DOMAIN o
  <2>1. DOMAIN o = DOMAIN e \union DOMAIN p
    BY OverlayValues, Zenon
  <2>. QED
    BY <2>1
<1>2. \A k \in DOMAIN o : (IF k \in DOMAIN o THEN o[k] ELSE p[k]) = o[k]
  OBVIOUS
<1>3. o = [k \in DOMAIN o |-> o[k]]
  BY DEF Overlay
<1>. QED
  BY <1>1, <1>2, <1>3, Zenon DEF Overlay

----------------------------------------------------------------------------
(* Packages and users. *)

\* Merging the same packages again changes nothing.
LEMMA PackagesAgain ==
  ASSUME NEW e, NEW p
  PROVE  MergePackages(MergePackages(e, p), p) = MergePackages(e, p)
<1> DEFINE i == p.install \union e.install
           r == p.remove \union e.remove
           M == MergePackages(e, p)
<1>1. M = [install |-> {n \in i : n \in r => n \in e.install}, remove |-> {n \in r : n \in i => n \in e.remove}]
  BY DEF MergePackages
<1>. QED
  BY <1>1 DEF MergePackages

\* Filling in the same user again changes nothing, nor filling a user from itself.
LEMMA UserAgain ==
  ASSUME NEW e, NEW p
  PROVE  /\ MergeUser(MergeUser(e, p), p) = MergeUser(e, p)
         /\ IsUser(p) => MergeUser(p, p) = p
  BY DEF MergeUser, IsUser

\* The users that merging gives: those on both sides filled in, the others as they are.
LEMMA UsersValues ==
  ASSUME NEW e, NEW p
  PROVE  LET users == MergeUsersGroups(e, p).users
         IN  /\ users = [u \in DOMAIN users |-> users[u]]
             /\ DOMAIN users = DOMAIN e.users \union DOMAIN p.users
             /\ \A u \in DOMAIN e.users \intersect DOMAIN p.users : users[u] = MergeUser(e.users[u], p.users[u])
             /\ \A u \in DOMAIN e.users \ DOMAIN p.users : users[u] = e.users[u]
             /\ \A u \in DOMAIN p.users \ DOMAIN e.users : users[u] = p.users[u]
<1> DEFINE both == DOMAIN e.users \intersect DOMAIN p.users
           filled == [u \in both |-> MergeUser(e.users[u], p.users[u])]
           rest == Overlay(e.users, p.users)
<1>1. MergeUsersGroups(e, p).users = Overlay(filled, rest)
  BY DEF MergeUsersGroups
<1>2. DOMAIN filled = both /\ \A u \in both : filled[u] = MergeUser(e.users[u], p.users[u])
  OBVIOUS
<1>3. Overlay(filled, rest) = [u \in DOMAIN Overlay(filled, rest) |-> Overlay(filled, rest)[u]]
  BY DEF Overlay
<1> HIDE DEF filled, rest
<1> DEFINE o == Overlay(filled, rest)
<1>4. /\ DOMAIN o = DOMAIN filled \union DOMAIN rest
      /\ \A u \in DOMAIN filled : o[u] = filled[u]
      /\ \A u \in DOMAIN rest \ DOMAIN filled : o[u] = rest[u]
  BY OverlayValues
<1>5. DOMAIN rest = DOMAIN e.users \union DOMAIN p.users
  BY OverlayValues DEF rest
<1>6. /\ \A u \in DOMAIN e.users : rest[u] = e.users[u]
      /\ \A u \in DOMAIN p.users \ DOMAIN e.users : rest[u] = p.users[u]
  BY OverlayValues DEF rest
<1> HIDE DEF o
<1>7. \A u \in both : o[u] = MergeUser(e.users[u], p.users[u])
  BY <1>2, <1>4
<1>8. DOMAIN o = DOMAIN rest /\ \A u \in DOMAIN rest \ both : o[u] = rest[u]
  BY <1>2, <1>4, <1>5
<1>9. MergeUsersGroups(e, p).users = o /\ o = [u \in DOMAIN o |-> o[u]]
  BY <1>1, <1>3 DEF o
<1>. QED
  BY <1>5, <1>7, <1>8, <1>6, <1>9

\* Merging the same users and groups again changes nothing.
LEMMA UsersGroupsAgain ==
  ASSUME NEW e, NEW p, \A u \in DOMAIN p.users : IsUser(p.users[u])
  PROVE  MergeUsersGroups(MergeUsersGroups(e, p), p) = MergeUsersGroups(e, p)
<1> DEFINE M == MergeUsersGroups(e, p)
           N == MergeUsersGroups(M, p)
<1>1. M.groups = Overlay(e.groups, p.groups) /\ N.groups = Overlay(M.groups, p.groups)
  BY DEF MergeUsersGroups
<1>2. N.groups = M.groups
  BY <1>1, OverlayAgain
<1>3. M = [groups |-> M.groups, users |-> M.users] /\ N = [groups |-> N.groups, users |-> N.users]
  BY DEF MergeUsersGroups
<1> HIDE DEF M, N
<1>4. /\ M.users = [u \in DOMAIN M.users |-> M.users[u]]
      /\ DOMAIN M.users = DOMAIN e.users \union DOMAIN p.users
      /\ \A u \in DOMAIN e.users \intersect DOMAIN p.users : M.users[u] = MergeUser(e.users[u], p.users[u])
      /\ \A u \in DOMAIN p.users \ DOMAIN e.users : M.users[u] = p.users[u]
  BY UsersValues DEF M
<1>5. /\ N.users = [u \in DOMAIN N.users |-> N.users[u]]
      /\ DOMAIN N.users = DOMAIN M.users \union DOMAIN p.users
      /\ \A u \in DOMAIN M.users \intersect DOMAIN p.users : N.users[u] = MergeUser(M.users[u], p.users[u])
      /\ \A u \in DOMAIN M.users \ DOMAIN p.users : N.users[u] = M.users[u]
  BY UsersValues DEF N
<1>6. ASSUME NEW u \in DOMAIN M.users PROVE N.users[u] = M.users[u]
  <2>1. CASE u \notin DOMAIN p.users
    BY <2>1, <1>5
  <2>2. CASE u \in DOMAIN p.users \ DOMAIN e.users
    BY <2>2, <1>4, <1>5, UserAgain
  <2>3. CASE u \in DOMAIN p.users \intersect DOMAIN e.users
    BY <2>3, <1>4, <1>5, UserAgain
  <2>. QED
    BY <2>1, <2>2, <2>3
<1>7. DOMAIN N.users = DOMAIN M.users
  BY <1>4, <1>5
<1>8. N.users = M.users
  BY <1>4, <1>5, <1>6, <1>7
<1>. QED
  BY <1>2, <1>3, <1>8 DEF M, N

----------------------------------------------------------------------------
(* Every category. *)

\* Whatever the category, merging the same preset again changes nothing.
THEOREM MergeAgain ==
  ASSUME NEW c \in Categories, NEW e, NEW p, IsList(c, p)
  PROVE  Merge(c, Merge(c, e, p), p) = Merge(c, e, p)
<1>1. CASE c = "packages"
  <2>1. \A x : Merge(c, x, p) = MergePackages(x, p)
    BY <1>1 DEF Merge
  <2>. QED
    BY <2>1, PackagesAgain
<1>2. CASE c = "users_groups"
  <2>1. \A x : Merge(c, x, p) = MergeUsersGroups(x, p)
    BY <1>2 DEF Merge
  <2>2. \A u \in DOMAIN p.users : IsUser(p.users[u])
    BY <1>2 DEF IsList
  <2>. QED
    BY <2>1, <2>2, UsersGroupsAgain
<1>3. CASE c \in {"directories", "sysctl", "limits"}
  <2>1. \A x : Merge(c, x, p) = Overlay(x, p)
    BY <1>3 DEF Merge, MergeDirectories, MergeSysctl, MergeLimits
  <2>. QED
    BY <2>1, OverlayAgain
<1>. QED
  BY <1>1, <1>2, <1>3 DEF Categories

\* A rendered manifest renders as itself (runConfigRender): its presets, still named
\* in it, add nothing to the lists they have been merged into.
THEOREM RenderAgain ==
  ASSUME NEW m, IsManifest(m)
  PROVE  Rendered(Rendered(m)) = Rendered(m)
<1> DEFINE r == Rendered(m)
<1>1. r = [kind |-> m.kind, bundle |-> m.bundle, preset |-> m.preset,
           list |-> [c \in Categories |-> Merged(m, c)]]
  BY DEF Rendered, IsManifest
<1> HIDE DEF r
<1>2. ASSUME NEW c \in Categories PROVE Merged(r, c) = r.list[c]
  <2>1. r.preset[c] = m.preset[c] /\ r.list[c] = Merged(m, c)
    BY <1>1
  <2>2. CASE m.preset[c] # Unset /\ ResolvesCategory(c, m.preset[c])
    <3> DEFINE p == Catalogue[<<c, m.preset[c]>>].spec
    <3>1. Merged(m, c) = Merge(c, m.list[c], p) /\ Merged(r, c) = Merge(c, r.list[c], p)
      BY <2>1, <2>2 DEF Merged
    <3>2. IsList(c, p)
      BY <2>2, CatalogueAssumption DEF ResolvesCategory
    <3> HIDE DEF p
    <3>. QED
      BY <2>1, <3>1, <3>2, MergeAgain
  <2>3. CASE ~(m.preset[c] # Unset /\ ResolvesCategory(c, m.preset[c]))
    BY <2>1, <2>3 DEF Merged
  <2>. QED
    BY <2>2, <2>3
<1>3. Rendered(r) = [kind |-> r.kind, bundle |-> r.bundle, preset |-> r.preset,
                     list |-> [c \in Categories |-> Merged(r, c)]]
  BY <1>1 DEF Rendered
<1>4. [c \in Categories |-> Merged(r, c)] = r.list
  BY <1>1, <1>2
<1>. QED
  BY <1>1, <1>3, <1>4 DEF r

----------------------------------------------------------------------------
(* Consent. *)

\* Before a change is planned, and before the plan is carried out, a command that
\* asks for consent has got it (runApply, runManager).
Asked ==
  /\ args \in Invocations
  /\ OnlyWithConsent
  /\ pc = "plan" => ~RefusesAtOnce
  /\ pc = "apply" => args.verb = "apply" /\ ~RefusesAtOnce /\ ~RefusesPlan

\* A process that applies without a dry run has consent.
LEMMA ApplyingIsConsented == Asked /\ pc = "apply" /\ ~args.dry => Consented
  BY CommandAssumption DEF Asked, RefusesAtOnce, RefusesPlan, Consented

\* Neither the command line nor what counts as consent changes.
LEMMA ConsentIsFixed ==
  ASSUME UNCHANGED args
  PROVE  /\ RefusesAtOnce' = RefusesAtOnce
         /\ RefusesPlan' = RefusesPlan
         /\ Consented' = Consented
  BY DEF RefusesAtOnce, RefusesPlan, Consented

\* A command starts with the host it met.
LEMMA AskedInit == Init => Asked
  BY DEF Init, Asked, OnlyWithConsent, LinuxOnly

\* Every step keeps to it: Start and BeginApply look at the flags, and only
\* ApplyNext and ApplyFails change the host.
LEMMA AskedNext == Asked /\ [Next]_vars => Asked'
<1> SUFFICES ASSUME Asked, [Next]_vars PROVE Asked'
  OBVIOUS
<1>1. ASSUME UNCHANGED <<args, host, born>>, pc' \notin {"plan", "apply"} PROVE Asked'
  BY <1>1, ConsentIsFixed DEF Asked, OnlyWithConsent
<1>2. ASSUME UNCHANGED <<args, host, born>>, pc' = pc PROVE Asked'
  BY <1>2, ConsentIsFixed DEF Asked, OnlyWithConsent
<1>3. ASSUME UNCHANGED <<args, host, born>>, pc = "dial", Start PROVE Asked'
  <2>1. pc' = "plan" => ~RefusesAtOnce
    BY <1>3 DEF Start, Ends
  <2>2. pc' # "apply"
    BY <1>3 DEF Start, Ends
  <2>. QED
    BY <1>3, <2>1, <2>2, ConsentIsFixed DEF Asked, OnlyWithConsent
<1>4. CASE ReadEnv
  <2>1. UNCHANGED <<args, host, born>> /\ (pc' = "resolve" \/ pc' = pc)
    BY <1>4 DEF ReadEnv, LoadRest
  <2>. QED
    BY <2>1, <1>1, <1>2
<1>5. CASE Overflow
  BY <1>5, <1>1 DEF Overflow, LoadRest
<1>6. CASE ResolveEnv
  <2>1. UNCHANGED <<args, host, born>> /\ (pc' = "dial" \/ pc' = pc)
    BY <1>6 DEF ResolveEnv, Loaded, LoadRest
  <2>. QED
    BY <2>1, <1>1, <1>2
<1>7. CASE LoadEnvFails
  BY <1>7, <1>1 DEF LoadEnvFails, LoadRest
<1>8. CASE FallBack
  BY <1>8, <1>1 DEF FallBack, Loaded, LoadRest
<1>9. CASE FallBackFails
  BY <1>9, <1>1 DEF FallBackFails, Ends, LoadRest
<1>10. CASE Render
  BY <1>10, <1>1 DEF Render, Ends, LoadRest
<1>11. CASE Check
  BY <1>11, <1>1 DEF Check, Ends, LoadRest
<1>12. CASE Open
  BY <1>12, <1>3 DEF Open, SessionRest
<1>13. CASE DialFails
  BY <1>13, <1>2 DEF DialFails, SessionRest
<1>14. CASE GivesUp
  BY <1>14, <1>3 DEF GivesUp, SessionRest
<1>15. CASE PlanErrs
  BY <1>15, <1>1 DEF PlanErrs, Ends, CommandRest
<1>16. CASE PlanNext
  BY <1>16, <1>2 DEF PlanNext, CommandRest
<1>17. CASE Tell
  BY <1>17, <1>1 DEF Tell, Ends, CommandRest
<1>18. CASE BeginApply
  <2>1. UNCHANGED <<args, host, born>> /\ args.verb = "apply" /\ ~RefusesAtOnce
    BY <1>18 DEF BeginApply, CommandRest, Asked
  <2>2. pc' = "done" \/ (pc' = "apply" /\ ~RefusesPlan)
    BY <1>18 DEF BeginApply, Ends
  <2>. QED
    BY <2>1, <2>2, ConsentIsFixed DEF Asked, OnlyWithConsent
<1>19. CASE ApplyNext
  <2>1. pc = "apply" /\ pc' = pc /\ UNCHANGED <<args, born>>
    BY <1>19 DEF ApplyNext, ApplyRest, CommandRest
  <2>2. CASE args.dry
    <3>1. UNCHANGED host
      BY <1>19, <2>2 DEF ApplyNext
    <3>. QED
      BY <2>1, <3>1, <1>2
  <2>3. CASE ~args.dry
    BY <2>1, <2>3, ApplyingIsConsented, ConsentIsFixed DEF Asked, OnlyWithConsent
  <2>. QED
    BY <2>2, <2>3
<1>20. CASE ApplyFails
  <2>1. pc = "apply" /\ pc' = pc /\ UNCHANGED <<args, born>> /\ ~args.dry
    BY <1>20 DEF ApplyFails, ApplyRest, CommandRest
  <2>. QED
    BY <2>1, ApplyingIsConsented, ConsentIsFixed DEF Asked, OnlyWithConsent
<1>21. CASE ApplyReturns
  BY <1>21, <1>1 DEF ApplyReturns, Ends, CommandRest
<1>22. CASE LoseSession
  BY <1>22, <1>2 DEF LoseSession
<1>23. CASE UNCHANGED vars
  BY <1>23, <1>2 DEF vars
<1>. QED
  BY <1>4, <1>5, <1>6, <1>7, <1>8, <1>9, <1>10, <1>11, <1>12, <1>13, <1>14, <1>15, <1>16,
     <1>17, <1>18, <1>19, <1>20, <1>21, <1>22, <1>23 DEF Next, Step

\* Without consent, or in a dry run, no command changes the host, whatever the
\* documents say and whatever fails.
THEOREM ConsentNeeded == Spec => []OnlyWithConsent
<1>1. Asked => OnlyWithConsent
  BY DEF Asked
<1>. QED
  BY <1>1, AskedInit, AskedNext, PTL DEF Spec

----------------------------------------------------------------------------
(* What a list asks for. *)

\* The pairs of an overlay are the first side's, and the other's with other keys.
LEMMA PairsOfOverlay ==
  ASSUME NEW e, NEW p
  PROVE  Pairs(Overlay(e, p)) = Pairs(e) \union {x \in Pairs(p) : x[1] \notin KeysOf(Pairs(e))}
<1>1. KeysOf(Pairs(e)) = DOMAIN e
  <2>1. \A k \in DOMAIN e : <<k, e[k]>>[1] = k
    OBVIOUS
  <2>. QED
    BY <2>1 DEF KeysOf, Pairs
<1>2. \A x \in Pairs(p) : x[1] \in DOMAIN p /\ x = <<x[1], p[x[1]]>>
  BY DEF Pairs
<1>3. DOMAIN Overlay(e, p) = DOMAIN e \union DOMAIN p
  BY OverlayValues
<1>4. /\ \A k \in DOMAIN e : Overlay(e, p)[k] = e[k]
      /\ \A k \in DOMAIN p \ DOMAIN e : Overlay(e, p)[k] = p[k]
  BY OverlayValues
<1>5. ASSUME NEW x \in Pairs(Overlay(e, p))
      PROVE  x \in Pairs(e) \union {y \in Pairs(p) : y[1] \notin DOMAIN e}
  <2>1. PICK k \in DOMAIN e \union DOMAIN p : x = <<k, Overlay(e, p)[k]>>
    BY <1>3, <1>5 DEF Pairs
  <2>2. CASE k \in DOMAIN e
    BY <1>4, <2>1, <2>2 DEF Pairs
  <2>3. CASE k \notin DOMAIN e
    BY <1>4, <2>1, <2>3 DEF Pairs
  <2>. QED
    BY <2>2, <2>3
<1>6. ASSUME NEW x \in Pairs(e) \union {y \in Pairs(p) : y[1] \notin DOMAIN e}
      PROVE  x \in Pairs(Overlay(e, p))
  <2>1. CASE x \in Pairs(e)
    <3>1. PICK k \in DOMAIN e : x = <<k, e[k]>>
      BY <2>1 DEF Pairs
    <3>. QED
      BY <1>3, <1>4, <3>1 DEF Pairs
  <2>2. CASE x \in Pairs(p) /\ x[1] \notin DOMAIN e
    <3>1. x[1] \in DOMAIN p \ DOMAIN e /\ x = <<x[1], Overlay(e, p)[x[1]]>>
      BY <1>2, <1>4, <2>2
    <3>. QED
      BY <1>3, <3>1 DEF Pairs
  <2>. QED
    BY <1>6, <2>1, <2>2
<1>. QED
  BY <1>1, <1>5, <1>6

\* Where no users are filled in, the given items count whose key is not the manifest's.
LEMMA TogetherPlain ==
  ASSUME NEW c, c # "users_groups", NEW own, NEW given
  PROVE  Together(c, own, given) = own \union {g \in given : g[1] \notin KeysOf(own)}
<1> DEFINE alike == {ij \in own \X given : ij[1][1] = ij[2][1]}
           users == {ij \in alike : c = "users_groups" /\ ij[1][1][1] = "user"}
<1>1. users = {}
  OBVIOUS
<1>2. \A g \in given : g \in {ij[2] : ij \in alike} <=> g[1] \in KeysOf(own)
  <2> SUFFICES ASSUME NEW g \in given PROVE g \in {ij[2] : ij \in alike} <=> g[1] \in KeysOf(own)
    OBVIOUS
  <2>1. ASSUME g \in {ij[2] : ij \in alike} PROVE g[1] \in KeysOf(own)
    <3>1. PICK ij \in own \X given : ij[1][1] = ij[2][1] /\ g = ij[2]
      BY <2>1
    <3>. QED
      BY <3>1 DEF KeysOf
  <2>2. ASSUME g[1] \in KeysOf(own) PROVE g \in {ij[2] : ij \in alike}
    <3>1. PICK o \in own : o[1] = g[1]
      BY <2>2 DEF KeysOf
    <3>2. <<o, g>> \in alike /\ <<o, g>>[2] = g
      BY <3>1
    <3> HIDE DEF alike
    <3>. QED
      BY <3>2
  <2>. QED
    BY <2>1, <2>2
<1>3. Together(c, own, given) = (own \ {ij[1] : ij \in users}) \union (given \ {ij[2] : ij \in alike})
                                \union {<<ij[1][1], MeantUser(ij[1][2], ij[2][2])>> : ij \in users}
  BY DEF Together
<1> HIDE DEF alike, users
<1>. QED
  BY <1>1, <1>2, <1>3

\* For groups and users: the users of both sides are filled in.
LEMMA TogetherUsers ==
  ASSUME NEW own, NEW given, NEW x
  PROVE  x \in Together("users_groups", own, given) <=>
           \/ x \in own /\ ~(x[1][1] = "user" /\ x[1] \in KeysOf(given))
           \/ x \in given /\ x[1] \notin KeysOf(own)
           \/ \E i \in own, g \in given : i[1] = g[1] /\ i[1][1] = "user" /\ x = <<i[1], MeantUser(i[2], g[2])>>
<1> DEFINE alike == {ij \in own \X given : ij[1][1] = ij[2][1]}
           users == {ij \in alike : ij[1][1][1] = "user"}
<1>1. Together("users_groups", own, given)
        = (own \ {ij[1] : ij \in users}) \union (given \ {ij[2] : ij \in alike})
          \union {<<ij[1][1], MeantUser(ij[1][2], ij[2][2])>> : ij \in users}
  BY DEF Together
<1>2. \A i \in own, g \in given : /\ i[1] = g[1] => <<i, g>> \in alike
                                  /\ i[1] = g[1] /\ i[1][1] = "user" => <<i, g>> \in users
                                  /\ <<i, g>>[1] = i /\ <<i, g>>[2] = g
  OBVIOUS
<1>3. \A ij \in alike : ij[1] \in own /\ ij[2] \in given /\ ij[1][1] = ij[2][1]
  OBVIOUS
<1>4. \A ij \in users : ij \in alike /\ ij[1][1][1] = "user"
  OBVIOUS
<1> HIDE DEF alike, users
<1>5. x \in {ij[1] : ij \in users} <=> x \in own /\ x[1][1] = "user" /\ x[1] \in KeysOf(given)
  <2>1. ASSUME NEW ij \in users, x = ij[1] PROVE x \in own /\ x[1][1] = "user" /\ x[1] \in KeysOf(given)
    BY <1>3, <1>4, <2>1 DEF KeysOf
  <2>2. ASSUME x \in own, x[1][1] = "user", NEW g \in given, x[1] = g[1] PROVE x \in {ij[1] : ij \in users}
    <3>1. <<x, g>> \in users /\ <<x, g>>[1] = x
      BY <1>2, <2>2
    <3>. QED
      BY <3>1
  <2>. QED
    BY <2>1, <2>2 DEF KeysOf
<1>6. x \in {ij[2] : ij \in alike} <=> x \in given /\ x[1] \in KeysOf(own)
  <2>1. ASSUME NEW ij \in alike, x = ij[2] PROVE x \in given /\ x[1] \in KeysOf(own)
    BY <1>3, <2>1 DEF KeysOf
  <2>2. ASSUME x \in given, NEW i \in own, i[1] = x[1] PROVE x \in {ij[2] : ij \in alike}
    <3>1. <<i, x>> \in alike /\ <<i, x>>[2] = x
      BY <1>2, <2>2
    <3>. QED
      BY <3>1
  <2>. QED
    BY <2>1, <2>2 DEF KeysOf
<1>7. x \in {<<ij[1][1], MeantUser(ij[1][2], ij[2][2])>> : ij \in users} <=>
        \E i \in own, g \in given : i[1] = g[1] /\ i[1][1] = "user" /\ x = <<i[1], MeantUser(i[2], g[2])>>
  <2>1. ASSUME NEW ij \in users, x = <<ij[1][1], MeantUser(ij[1][2], ij[2][2])>>
        PROVE  \E i \in own, g \in given : i[1] = g[1] /\ i[1][1] = "user" /\ x = <<i[1], MeantUser(i[2], g[2])>>
    BY <1>3, <1>4, <2>1
  <2>2. ASSUME NEW i \in own, NEW g \in given, i[1] = g[1], i[1][1] = "user", x = <<i[1], MeantUser(i[2], g[2])>>
        PROVE  x \in {<<ij[1][1], MeantUser(ij[1][2], ij[2][2])>> : ij \in users}
    <3>1. <<i, g>> \in users /\ <<i, g>>[1] = i /\ <<i, g>>[2] = g
      BY <1>2, <2>2
    <3>2. x = <<(<<i, g>>[1])[1], MeantUser((<<i, g>>[1])[2], (<<i, g>>[2])[2])>>
      BY <2>2
    <3>. QED
      BY <3>1, <3>2
  <2>. QED
    BY <2>1, <2>2
<1>. QED
  BY <1>1, <1>5, <1>6, <1>7

\* Packages: what merging gives is the two sides' items put together.
LEMMA PackagesTogether ==
  ASSUME NEW e, NEW p, p.install \intersect p.remove = {}
  PROVE  Items("packages", MergePackages(e, p)) = Together("packages", Items("packages", e), Items("packages", p))
<1> DEFINE own == Items("packages", e)
           given == Items("packages", p)
           M == MergePackages(e, p)
<1>1. \A l : Items("packages", l) = (l.install \X {"installed"}) \union (l.remove \X {Absent})
  BY DEF Items
<1>2. /\ M.install = {n \in p.install \union e.install : n \in p.remove \union e.remove => n \in e.install}
      /\ M.remove = {n \in p.remove \union e.remove : n \in p.install \union e.install => n \in e.remove}
  BY DEF MergePackages
<1>3. \A l, x : x \in Items("packages", l) <=>
        \/ \E n \in l.install : x = <<n, "installed">>
        \/ \E n \in l.remove : x = <<n, Absent>>
  BY <1>1
<1>4. \A n : n \in KeysOf(own) <=> n \in e.install \union e.remove
  <2>1. ASSUME NEW n, n \in KeysOf(own) PROVE n \in e.install \union e.remove
    <3>1. PICK i \in own : i[1] = n
      BY <2>1 DEF KeysOf
    <3>. QED
      BY <1>3, <3>1
  <2>2. ASSUME NEW n, n \in e.install PROVE n \in KeysOf(own)
    <3>1. <<n, "installed">> \in own /\ <<n, "installed">>[1] = n
      BY <1>3, <2>2
    <3>. QED
      BY <3>1 DEF KeysOf
  <2>3. ASSUME NEW n, n \in e.remove PROVE n \in KeysOf(own)
    <3>1. <<n, Absent>> \in own /\ <<n, Absent>>[1] = n
      BY <1>3, <2>3
    <3>. QED
      BY <3>1 DEF KeysOf
  <2>. QED
    BY <2>1, <2>2, <2>3
<1> HIDE DEF own, given, M
<1>5. Together("packages", own, given) = own \union {g \in given : g[1] \notin KeysOf(own)}
  BY TogetherPlain
<1>6. ASSUME NEW x \in Items("packages", M) PROVE x \in Together("packages", own, given)
  <2>1. CASE \E n \in M.install : x = <<n, "installed">>
    <3>1. PICK n \in M.install : x = <<n, "installed">>
      BY <2>1
    <3>2. CASE n \in e.install
      BY <1>3, <1>5, <3>1, <3>2 DEF own
    <3>3. CASE n \notin e.install
      <4>1. n \in p.install /\ n \notin e.install \union e.remove
        BY <1>2, <3>1, <3>3
      <4>2. x \in given /\ x[1] = n
        BY <1>3, <3>1, <4>1 DEF given
      <4>. QED
        BY <1>4, <1>5, <4>1, <4>2
    <3>. QED
      BY <3>2, <3>3
  <2>2. CASE \E n \in M.remove : x = <<n, Absent>>
    <3>1. PICK n \in M.remove : x = <<n, Absent>>
      BY <2>2
    <3>2. CASE n \in e.remove
      BY <1>3, <1>5, <3>1, <3>2 DEF own
    <3>3. CASE n \notin e.remove
      <4>1. n \in p.remove /\ n \notin e.install \union e.remove
        BY <1>2, <3>1, <3>3
      <4>2. x \in given /\ x[1] = n
        BY <1>3, <3>1, <4>1 DEF given
      <4>. QED
        BY <1>4, <1>5, <4>1, <4>2
    <3>. QED
      BY <3>2, <3>3
  <2>. QED
    BY <1>3, <1>6, <2>1, <2>2
<1>7. ASSUME NEW x \in Together("packages", own, given) PROVE x \in Items("packages", M)
  <2>1. CASE x \in own
    <3>1. ASSUME NEW n \in e.install, x = <<n, "installed">> PROVE x \in Items("packages", M)
      BY <1>2, <1>3, <3>1
    <3>2. ASSUME NEW n \in e.remove, x = <<n, Absent>> PROVE x \in Items("packages", M)
      BY <1>2, <1>3, <3>2
    <3>. QED
      BY <1>3, <2>1, <3>1, <3>2 DEF own
  <2>2. CASE x \in given /\ x[1] \notin KeysOf(own)
    <3>1. ASSUME NEW n \in p.install, x = <<n, "installed">> PROVE x \in Items("packages", M)
      <4>1. n \in M.install
        <5>1. x[1] = n
          BY <3>1
        <5>. QED
          BY <1>2, <1>4, <2>2, <5>1
      <4>. QED
        BY <1>3, <3>1, <4>1
    <3>2. ASSUME NEW n \in p.remove, x = <<n, Absent>> PROVE x \in Items("packages", M)
      <4>1. n \in M.remove
        <5>1. x[1] = n
          BY <3>2
        <5>. QED
          BY <1>2, <1>4, <2>2, <5>1
      <4>. QED
        BY <1>3, <3>2, <4>1
    <3>. QED
      BY <1>3, <2>2, <3>1, <3>2 DEF given
  <2>. QED
    BY <1>5, <1>7, <2>1, <2>2
<1>. QED
  BY <1>6, <1>7 DEF own, given, M

\* A user without placeholders is what merging makes of one.
PlainUser(u) == IsUser(u) /\ u.keys \intersect DOMAIN Secrets = {}

\* Keys that are no placeholders stay.
LEMMA PlainKeys ==
  ASSUME NEW K, K \intersect DOMAIN Secrets = {}
  PROVE  {Resolve(k) : k \in K} = K
<1>1. \A k \in K : Resolve(k) = k
  BY DEF Resolve
<1>. QED
  BY <1>1

\* The merged user is the one that is meant.
LEMMA UserMeant ==
  ASSUME NEW e, NEW p, PlainUser(e), PlainUser(p)
  PROVE  MergeUser(e, p) = MeantUser(e, p)
<1> DEFINE K == IF e.keys = {} THEN p.keys ELSE e.keys
<1>1. K \intersect DOMAIN Secrets = {}
  BY DEF PlainUser
<1>2. {Resolve(k) : k \in K} = K
  BY <1>1, PlainKeys
<1>3. MeantUser(e, p) = [uid |-> IF e.uid = Unset THEN p.uid ELSE e.uid,
                         groups |-> e.groups \union p.groups,
                         shell |-> IF e.shell = Unset THEN p.shell ELSE e.shell,
                         keys |-> {Resolve(k) : k \in K}, sudo |-> e.sudo]
  BY DEF MeantUser
<1> HIDE DEF K
<1>4. MeantUser(e, p) = [uid |-> IF e.uid = Unset THEN p.uid ELSE e.uid,
                         groups |-> e.groups \union p.groups,
                         shell |-> IF e.shell = Unset THEN p.shell ELSE e.shell,
                         keys |-> K, sudo |-> e.sudo]
  BY <1>2, <1>3
<1>5. e.groups \union p.groups = p.groups \union e.groups
  OBVIOUS
<1>. QED
  BY <1>4, <1>5 DEF MergeUser, K

\* What a list of groups and users asks for.
LEMMA UserItems ==
  ASSUME NEW l, NEW x
  PROVE  /\ x \in Items("users_groups", l) <=>
              \/ \E g \in DOMAIN l.groups : x = <<<<"group", g>>, l.groups[g]>>
              \/ \E u \in DOMAIN l.users : x = <<<<"user", u>>, l.users[u]>>
         /\ x \in KeysOf(Items("users_groups", l)) <=>
              \/ \E g \in DOMAIN l.groups : x = <<"group", g>>
              \/ \E u \in DOMAIN l.users : x = <<"user", u>>
<1>1. Items("users_groups", l) = {<<<<"group", q[1]>>, q[2]>> : q \in Pairs(l.groups)}
                                 \union {<<<<"user", q[1]>>, q[2]>> : q \in Pairs(l.users)}
  BY DEF Items
<1>2. \A y : y \in Items("users_groups", l) <=>
              \/ \E g \in DOMAIN l.groups : y = <<<<"group", g>>, l.groups[g]>>
              \/ \E u \in DOMAIN l.users : y = <<<<"user", u>>, l.users[u]>>
  <2>1. /\ \A q \in Pairs(l.groups) : \E g \in DOMAIN l.groups : q[1] = g /\ q[2] = l.groups[g]
        /\ \A q \in Pairs(l.users) : \E u \in DOMAIN l.users : q[1] = u /\ q[2] = l.users[u]
    BY DEF Pairs
  <2>2. ASSUME NEW y \in Items("users_groups", l)
        PROVE  \/ \E g \in DOMAIN l.groups : y = <<<<"group", g>>, l.groups[g]>>
               \/ \E u \in DOMAIN l.users : y = <<<<"user", u>>, l.users[u]>>
    BY <1>1, <2>1, <2>2
  <2>3. ASSUME NEW g \in DOMAIN l.groups PROVE <<<<"group", g>>, l.groups[g]>> \in Items("users_groups", l)
    <3>1. /\ <<g, l.groups[g]>> \in Pairs(l.groups)
          /\ <<g, l.groups[g]>>[1] = g /\ <<g, l.groups[g]>>[2] = l.groups[g]
      BY DEF Pairs
    <3>. QED
      BY <1>1, <3>1
  <2>4. ASSUME NEW u \in DOMAIN l.users PROVE <<<<"user", u>>, l.users[u]>> \in Items("users_groups", l)
    <3>1. /\ <<u, l.users[u]>> \in Pairs(l.users)
          /\ <<u, l.users[u]>>[1] = u /\ <<u, l.users[u]>>[2] = l.users[u]
      BY DEF Pairs
    <3>. QED
      BY <1>1, <3>1
  <2>. QED
    BY <2>2, <2>3, <2>4, Zenon
<1>3. ASSUME NEW i \in Items("users_groups", l), x = i[1]
      PROVE  \/ \E g \in DOMAIN l.groups : x = <<"group", g>>
             \/ \E u \in DOMAIN l.users : x = <<"user", u>>
  BY <1>2, <1>3
<1>4. ASSUME NEW g \in DOMAIN l.groups, x = <<"group", g>> PROVE \E i \in Items("users_groups", l) : x = i[1]
  <2>1. <<<<"group", g>>, l.groups[g]>>[1] = x
    BY <1>4
  <2>. QED
    BY <1>2, <2>1
<1>5. ASSUME NEW u \in DOMAIN l.users, x = <<"user", u>> PROVE \E i \in Items("users_groups", l) : x = i[1]
  <2>1. <<<<"user", u>>, l.users[u]>>[1] = x
    BY <1>5
  <2>. QED
    BY <1>2, <2>1
<1>6. x \in KeysOf(Items("users_groups", l)) <=> \E i \in Items("users_groups", l) : x = i[1]
  BY DEF KeysOf
<1>. QED
  BY <1>2, <1>3, <1>4, <1>5, <1>6, Zenon

\* Groups and users: what merging gives is the two sides' items put together.
LEMMA UsersTogether ==
  ASSUME NEW e, NEW p,
         \A u \in DOMAIN e.users : PlainUser(e.users[u]),
         \A u \in DOMAIN p.users : PlainUser(p.users[u])
  PROVE  Items("users_groups", MergeUsersGroups(e, p))
           = Together("users_groups", Items("users_groups", e), Items("users_groups", p))
<1> DEFINE M == MergeUsersGroups(e, p)
           own == Items("users_groups", e)
           given == Items("users_groups", p)
<1>1. /\ DOMAIN M.groups = DOMAIN e.groups \union DOMAIN p.groups
      /\ \A g \in DOMAIN e.groups : M.groups[g] = e.groups[g]
      /\ \A g \in DOMAIN p.groups \ DOMAIN e.groups : M.groups[g] = p.groups[g]
  <2>1. M.groups = Overlay(e.groups, p.groups)
    BY DEF MergeUsersGroups
  <2>2. /\ DOMAIN Overlay(e.groups, p.groups) = DOMAIN e.groups \union DOMAIN p.groups
        /\ \A g \in DOMAIN e.groups : Overlay(e.groups, p.groups)[g] = e.groups[g]
        /\ \A g \in DOMAIN p.groups \ DOMAIN e.groups : Overlay(e.groups, p.groups)[g] = p.groups[g]
    BY OverlayValues
  <2> HIDE DEF M
  <2>. QED
    BY <2>1, <2>2
<1> HIDE DEF M
<1>2. /\ M.users = [u \in DOMAIN M.users |-> M.users[u]]
      /\ DOMAIN M.users = DOMAIN e.users \union DOMAIN p.users
      /\ \A u \in DOMAIN e.users \intersect DOMAIN p.users : M.users[u] = MergeUser(e.users[u], p.users[u])
      /\ \A u \in DOMAIN e.users \ DOMAIN p.users : M.users[u] = e.users[u]
      /\ \A u \in DOMAIN p.users \ DOMAIN e.users : M.users[u] = p.users[u]
  BY UsersValues DEF M
<1>3. \A u \in DOMAIN e.users \intersect DOMAIN p.users : M.users[u] = MeantUser(e.users[u], p.users[u])
  BY <1>2, UserMeant
<1> HIDE DEF own, given
<1>4. /\ \A x : x \in Items("users_groups", M) <=>
              \/ \E g \in DOMAIN M.groups : x = <<<<"group", g>>, M.groups[g]>>
              \/ \E u \in DOMAIN M.users : x = <<<<"user", u>>, M.users[u]>>
      /\ \A x : x \in own <=>
              \/ \E g \in DOMAIN e.groups : x = <<<<"group", g>>, e.groups[g]>>
              \/ \E u \in DOMAIN e.users : x = <<<<"user", u>>, e.users[u]>>
      /\ \A x : x \in given <=>
              \/ \E g \in DOMAIN p.groups : x = <<<<"group", g>>, p.groups[g]>>
              \/ \E u \in DOMAIN p.users : x = <<<<"user", u>>, p.users[u]>>
  BY UserItems DEF own, given
<1>5. /\ \A g : <<"group", g>> \in KeysOf(own) <=> g \in DOMAIN e.groups
      /\ \A u : <<"user", u>> \in KeysOf(own) <=> u \in DOMAIN e.users
      /\ \A u : <<"user", u>> \in KeysOf(given) <=> u \in DOMAIN p.users
  BY UserItems DEF own, given
<1>6. ASSUME NEW g \in DOMAIN M.groups
      PROVE  <<<<"group", g>>, M.groups[g]>> \in Together("users_groups", own, given)
  <2> DEFINE x == <<<<"group", g>>, M.groups[g]>>
  <2>1. x[1] = <<"group", g>> /\ x[1][1] # "user"
    OBVIOUS
  <2>2. CASE g \in DOMAIN e.groups
    <3>1. x \in own
      BY <1>1, <1>4, <2>2
    <3> HIDE DEF x
    <3>2. x \in Together("users_groups", own, given)
      BY <2>1, <3>1, TogetherUsers
    <3>. QED
      BY <3>2 DEF x
  <2>3. CASE g \notin DOMAIN e.groups
    <3>1. x \in given /\ x[1] \notin KeysOf(own)
      BY <1>1, <1>4, <1>5, <1>6, <2>1, <2>3
    <3> HIDE DEF x
    <3>2. x \in Together("users_groups", own, given)
      BY <3>1, TogetherUsers
    <3>. QED
      BY <3>2 DEF x
  <2>. QED
    BY <2>2, <2>3
<1>7. ASSUME NEW u \in DOMAIN M.users
      PROVE  <<<<"user", u>>, M.users[u]>> \in Together("users_groups", own, given)
  <2> DEFINE x == <<<<"user", u>>, M.users[u]>>
  <2>1. x[1] = <<"user", u>> /\ x[1][1] = "user"
    OBVIOUS
  <2>2. CASE u \in DOMAIN e.users \ DOMAIN p.users
    <3>1. x \in own /\ x[1] \notin KeysOf(given)
      BY <1>2, <1>4, <1>5, <2>1, <2>2
    <3> HIDE DEF x
    <3>2. x \in Together("users_groups", own, given)
      BY <3>1, TogetherUsers
    <3>. QED
      BY <3>2 DEF x
  <2>3. CASE u \in DOMAIN p.users \ DOMAIN e.users
    <3>1. x \in given /\ x[1] \notin KeysOf(own)
      BY <1>2, <1>4, <1>5, <2>1, <2>3
    <3> HIDE DEF x
    <3>2. x \in Together("users_groups", own, given)
      BY <3>1, TogetherUsers
    <3>. QED
      BY <3>2 DEF x
  <2>4. CASE u \in DOMAIN e.users \intersect DOMAIN p.users
    <3> DEFINE i == <<<<"user", u>>, e.users[u]>>
               j == <<<<"user", u>>, p.users[u]>>
    <3>1. /\ i \in own /\ j \in given /\ i[1] = j[1] /\ i[1][1] = "user"
          /\ i[1] = <<"user", u>> /\ i[2] = e.users[u] /\ j[2] = p.users[u]
      BY <1>4, <2>4
    <3>2. x = <<i[1], MeantUser(i[2], j[2])>>
      BY <1>3, <2>4, <3>1
    <3> HIDE DEF x, i, j
    <3>3. x \in Together("users_groups", own, given)
      BY <3>1, <3>2, TogetherUsers
    <3>. QED
      BY <3>3 DEF x
  <2>. QED
    BY <1>2, <2>2, <2>3, <2>4
<1>8. ASSUME NEW x \in Together("users_groups", own, given) PROVE x \in Items("users_groups", M)
  <2>1. \/ x \in own /\ ~(x[1][1] = "user" /\ x[1] \in KeysOf(given))
        \/ x \in given /\ x[1] \notin KeysOf(own)
        \/ \E i \in own, g \in given : i[1] = g[1] /\ i[1][1] = "user" /\ x = <<i[1], MeantUser(i[2], g[2])>>
    BY TogetherUsers
  <2>2. CASE x \in own /\ ~(x[1][1] = "user" /\ x[1] \in KeysOf(given))
    <3>1. ASSUME NEW g \in DOMAIN e.groups, x = <<<<"group", g>>, e.groups[g]>> PROVE x \in Items("users_groups", M)
      BY <1>1, <1>4, <3>1
    <3>2. ASSUME NEW u \in DOMAIN e.users, x = <<<<"user", u>>, e.users[u]>> PROVE x \in Items("users_groups", M)
      <4>1. x[1] = <<"user", u>> /\ x[1][1] = "user"
        BY <3>2
      <4>2. u \notin DOMAIN p.users
        BY <1>5, <2>2, <4>1
      <4>. QED
        BY <1>2, <1>4, <3>2, <4>2
    <3>. QED
      BY <1>4, <2>2, <3>1, <3>2
  <2>3. CASE x \in given /\ x[1] \notin KeysOf(own)
    <3>1. ASSUME NEW g \in DOMAIN p.groups, x = <<<<"group", g>>, p.groups[g]>> PROVE x \in Items("users_groups", M)
      <4>1. x[1] = <<"group", g>>
        BY <3>1
      <4>2. g \notin DOMAIN e.groups
        BY <1>5, <2>3, <4>1
      <4>. QED
        BY <1>1, <1>4, <3>1, <4>2
    <3>2. ASSUME NEW u \in DOMAIN p.users, x = <<<<"user", u>>, p.users[u]>> PROVE x \in Items("users_groups", M)
      <4>1. x[1] = <<"user", u>>
        BY <3>2
      <4>2. u \notin DOMAIN e.users
        BY <1>5, <2>3, <4>1
      <4>. QED
        BY <1>2, <1>4, <3>2, <4>2
    <3>. QED
      BY <1>4, <2>3, <3>1, <3>2
  <2>4. ASSUME NEW i \in own, NEW j \in given, i[1] = j[1], i[1][1] = "user", x = <<i[1], MeantUser(i[2], j[2])>>
        PROVE  x \in Items("users_groups", M)
    <3>1. PICK u \in DOMAIN e.users : i = <<<<"user", u>>, e.users[u]>>
      BY <1>4, <2>4
    <3>2. PICK v \in DOMAIN p.users : j = <<<<"user", v>>, p.users[v]>>
      <4>1. j[1][1] = "user"
        BY <2>4
      <4>. QED
        BY <1>4, <4>1
    <3>3. u = v
      BY <2>4, <3>1, <3>2
    <3>4. x = <<<<"user", u>>, M.users[u]>>
      BY <1>3, <2>4, <3>1, <3>2, <3>3
    <3>. QED
      BY <1>2, <1>4, <3>4
  <2>. QED
    BY <2>1, <2>2, <2>3, <2>4
<1>. QED
  BY <1>4, <1>6, <1>7, <1>8 DEF M, own, given

\* Whatever the category, merging a preset gives the two sides' items put together.
LEMMA MergeTogether ==
  ASSUME NEW c \in Categories, NEW e, NEW p,
         c = "packages" => p.install \intersect p.remove = {},
         c = "users_groups" => /\ \A u \in DOMAIN e.users : PlainUser(e.users[u])
                               /\ \A u \in DOMAIN p.users : PlainUser(p.users[u])
  PROVE  Items(c, Merge(c, e, p)) = Together(c, Items(c, e), Items(c, p))
<1>1. CASE c = "packages"
  <2>1. Merge(c, e, p) = MergePackages(e, p)
    BY <1>1 DEF Merge
  <2>. QED
    BY <1>1, <2>1, PackagesTogether
<1>2. CASE c = "users_groups"
  <2>1. Merge(c, e, p) = MergeUsersGroups(e, p)
    BY <1>2 DEF Merge
  <2>. QED
    BY <1>2, <2>1, UsersTogether
<1>3. CASE c \in {"directories", "sysctl", "limits"}
  <2>1. Merge(c, e, p) = Overlay(e, p)
    BY <1>3 DEF Merge, MergeDirectories, MergeSysctl, MergeLimits
  <2>2. \A l : Items(c, l) = Pairs(l)
    BY <1>3 DEF Items
  <2>3. Together(c, Pairs(e), Pairs(p)) = Pairs(e) \union {x \in Pairs(p) : x[1] \notin KeysOf(Pairs(e))}
    BY <1>3, TogetherPlain
  <2>4. Pairs(Overlay(e, p)) = Pairs(e) \union {x \in Pairs(p) : x[1] \notin KeysOf(Pairs(e))}
    BY PairsOfOverlay
  <2>. QED
    BY <2>1, <2>2, <2>3, <2>4, Zenon
<1>. QED
  BY <1>1, <1>2, <1>3 DEF Categories

\* Without a preset the own items are all.
LEMMA TogetherNone ==
  ASSUME NEW c, NEW own
  PROVE  Together(c, own, {}) = own
<1>1. CASE c = "users_groups"
  <2>1. KeysOf({}) = {}
    BY DEF KeysOf
  <2>2. \A x : x \in Together("users_groups", own, {}) <=> x \in own
    BY <2>1, TogetherUsers
  <2>. QED
    BY <1>1, <2>2
<1>2. CASE c # "users_groups"
  <2>1. \A given : Together(c, own, given) = own \union {g \in given : g[1] \notin KeysOf(own)}
    BY <1>2, TogetherPlain
  <2>. QED
    BY <2>1
<1>. QED
  BY <1>1, <1>2

----------------------------------------------------------------------------
(* Manifests. *)

\* The users of a manifest without placeholders.
LEMMA PlainUsers ==
  ASSUME NEW m, IsManifest(m), Placeholders(m) = {}
  PROVE  \A u \in DOMAIN m.list["users_groups"].users : PlainUser(m.list["users_groups"].users[u])
<1> DEFINE users == m.list["users_groups"].users
<1>1. \A u \in DOMAIN users : IsUser(users[u])
  BY DEF IsManifest, IsList, Categories
<1>2. \A u \in DOMAIN users : users[u] \in Range(users)
  BY DEF Range
<1>3. \A u \in DOMAIN users : \A k \in users[u].keys : k \in Keys(m)
  BY <1>2 DEF Keys
<1>. QED
  BY <1>1, <1>3 DEF Placeholders, PlainUser

\* A manifest whose keys are written as they are stays as it is.
LEMMA KeysStay ==
  ASSUME NEW m, IsManifest(m), NEW written, \A k \in Keys(m) : written[k] = k
  PROVE  WithKeys(m, written) = m
<1> DEFINE ug == m.list["users_groups"]
           users == ug.users
           new == [u \in DOMAIN users |-> [users[u] EXCEPT !.keys = {written[k] : k \in users[u].keys}]]
<1>1. ASSUME NEW u \in DOMAIN users PROVE [users[u] EXCEPT !.keys = {written[k] : k \in users[u].keys}] = users[u]
  <2>1. IsUser(users[u])
    BY DEF IsManifest, IsList, Categories
  <2>2. users[u] \in Range(users)
    BY DEF Range
  <2>3. \A k \in users[u].keys : k \in Keys(m)
    BY <2>2 DEF Keys
  <2>4. {written[k] : k \in users[u].keys} = users[u].keys
    BY <2>3
  <2> HIDE DEF users
  <2>5. [users[u] EXCEPT !.keys = users[u].keys] = users[u]
    BY <2>1 DEF IsUser
  <2>. QED
    BY <2>4, <2>5
<1>2. ug = [groups |-> ug.groups, users |-> [u \in DOMAIN users |-> users[u]]]
  BY DEF IsManifest
<1>3. new = [u \in DOMAIN users |-> users[u]]
  BY <1>1
<1>4. new = users
  <2>1. \A g, f : [groups |-> g, users |-> f].users = f
    OBVIOUS
  <2>2. users = [u \in DOMAIN users |-> users[u]]
    BY <1>2, <2>1, Zenon
  <2>. QED
    BY <1>3, <2>2, Zenon
<1>5. m.list = [c \in Categories |-> m.list[c]] /\ "users_groups" \in Categories
  BY DEF IsManifest, Categories
<1>6. m = [kind |-> m.kind, bundle |-> m.bundle, preset |-> m.preset, list |-> m.list]
  BY DEF IsManifest
<1>7. WithKeys(m, written) = [m EXCEPT !.list["users_groups"].users = new]
  BY Zenon DEF WithKeys
<1> HIDE DEF new
<1>8. [ug EXCEPT !.users = new] = ug
  BY <1>2, <1>4
<1> HIDE DEF users
<1>9. [m.list EXCEPT !["users_groups"] = ug] = m.list
  BY <1>5 DEF ug
<1>10. [m EXCEPT !.list = m.list] = m
  BY <1>6
<1>11. WithKeys(m, written) = [m EXCEPT !.list = [m.list EXCEPT !["users_groups"] = [ug EXCEPT !.users = new]]]
  BY <1>7
<1>. QED
  BY <1>8, <1>9, <1>10, <1>11

\* A manifest with a bundle names the presets that are meant.
LEMMA Expanded ==
  ASSUME NEW m, IsManifest(m)
  PROVE  LET l == expandBundleOnLinux(m)
         IN  /\ IsManifest(l)
             /\ l.kind = m.kind /\ l.bundle = m.bundle /\ l.list = m.list
             /\ BundleKnown(m) =>
                   \A c \in Categories : l.preset[c] = MeantPreset(m, c) /\ MeantPreset(l, c) = l.preset[c]
<1> DEFINE l == expandBundleOnLinux(m)
<1>1. m = [kind |-> m.kind, bundle |-> m.bundle, preset |-> m.preset, list |-> m.list]
      /\ m.preset = [c \in Categories |-> m.preset[c]]
  BY DEF IsManifest
<1>2. CASE m.bundle = Unset
  <2>1. l = m
    BY <1>2 DEF expandBundleOnLinux
  <2>2. \A c \in Categories : MeantPreset(m, c) = m.preset[c]
    BY <1>2, CatalogueAssumption DEF MeantPreset
  <2>. QED
    BY <2>1, <2>2
<1>3. CASE m.bundle # Unset
  <2> DEFINE new == [c \in Categories |-> IF m.preset[c] # Unset THEN m.preset[c] ELSE Bundles[m.bundle].child[c]]
  <2>1. BundleKnown(m) => m.bundle \in DOMAIN Bundles
    BY <1>3 DEF BundleKnown, BundleExpands
  <2>2. l = [m EXCEPT !.preset = new]
    BY <1>3, Zenon DEF expandBundleOnLinux
  <2>3. BundleKnown(m) => \A c \in Categories : new[c] = MeantPreset(m, c)
    BY <2>1 DEF MeantPreset
  <2>4. new = [c \in Categories |-> new[c]]
    OBVIOUS
  <2>5. \A c \in Categories : new[c] = Unset => Bundles[m.bundle].child[c] = Unset
    OBVIOUS
  <2> HIDE DEF new, l
  <2>6. l = [kind |-> m.kind, bundle |-> m.bundle, preset |-> new, list |-> m.list]
    BY <1>1, <2>2
  <2>7. l.kind = m.kind /\ l.bundle = m.bundle /\ l.preset = new /\ l.list = m.list
    BY <2>6
  <2>8. IsManifest(l)
    BY <2>4, <2>6, <2>7 DEF IsManifest
  <2>9. BundleKnown(m) => \A c \in Categories : MeantPreset(l, c) = new[c]
    BY <2>1, <2>5, <2>7 DEF MeantPreset
  <2>. QED
    BY <2>3, <2>7, <2>8, <2>9 DEF l
<1>. QED
  BY <1>2, <1>3

\* A manifest without placeholders has nothing to be resolved.
LEMMA PlainStays ==
  ASSUME NEW l, IsManifest(l), Placeholders(l) = {}
  PROVE  resolveLinuxSecrets(l) = l
<1> DEFINE written == [k \in Keys(l) |-> Resolve(k)]
<1>1. \A k \in Keys(l) : written[k] = k
  BY DEF Placeholders, Resolve
<1>2. resolveLinuxSecrets(l) = WithKeys(l, written)
  BY DEF resolveLinuxSecrets
<1> HIDE DEF written
<1>. QED
  BY <1>1, <1>2, KeysStay

\* A manifest that names the presets it means, and has no placeholders, has them
\* merged in as it is meant.
LEMMA MergedMeans ==
  ASSUME NEW l, IsManifest(l), Placeholders(l) = {}, NEW c \in Categories, MeantPreset(l, c) = l.preset[c]
  PROVE  Items(c, Merged(l, c)) = MeantItems(l, c)
<1>1. resolveLinuxSecrets(l) = l
  BY PlainStays
<1>2. MeantItems(l, c) = Together(c, Items(c, l.list[c]), Given(l, c))
  BY <1>1 DEF MeantItems
<1>3. CASE l.preset[c] # Unset /\ ResolvesCategory(c, l.preset[c])
  <2> DEFINE x == <<c, l.preset[c]>>
             p == Catalogue[x].spec
  <2>1. Merged(l, c) = Merge(c, l.list[c], p) /\ Given(l, c) = Items(c, p)
    BY <1>3 DEF Merged, Given
  <2>2. x \in DOMAIN Catalogue /\ x[1] = c
    BY <1>3 DEF ResolvesCategory
  <2> HIDE DEF x
  <2>3. c = "packages" => p.install \intersect p.remove = {}
    BY <2>2, CatalogueAssumption
  <2>4. c = "users_groups" => \A u \in DOMAIN p.users : PlainUser(p.users[u])
    <3> SUFFICES ASSUME c = "users_groups", NEW u \in DOMAIN p.users PROVE PlainUser(p.users[u])
      OBVIOUS
    <3>1. IsUser(p.users[u])
      BY <2>2, CatalogueAssumption DEF IsList
    <3>2. p.users[u] \in Range(p.users)
      BY DEF Range
    <3>. QED
      BY <2>2, <3>1, <3>2, DocumentsAssumption DEF PlainUser
  <2>5. c = "users_groups" => \A u \in DOMAIN l.list[c].users : PlainUser(l.list[c].users[u])
    BY PlainUsers
  <2> HIDE DEF p
  <2>6. Items(c, Merge(c, l.list[c], p)) = Together(c, Items(c, l.list[c]), Items(c, p))
    BY <2>3, <2>4, <2>5, MergeTogether
  <2>. QED
    BY <1>2, <2>1, <2>6
<1>4. CASE ~(l.preset[c] # Unset /\ ResolvesCategory(c, l.preset[c]))
  <2>1. Merged(l, c) = l.list[c] /\ Given(l, c) = {}
    BY <1>4 DEF Merged, Given
  <2>. QED
    BY <1>2, <2>1, TogetherNone
<1>. QED
  BY <1>3, <1>4

\* Rendering a manifest without placeholders gives one that means the same.
LEMMA RenderedMeans ==
  ASSUME NEW l, IsManifest(l), Placeholders(l) = {}, \A c \in Categories : MeantPreset(l, c) = l.preset[c]
  PROVE  LET r == Rendered(l)
         IN  /\ IsManifest(r) /\ Placeholders(r) = {}
             /\ \A c \in Categories : /\ Items(c, r.list[c]) = MeantItems(l, c)
                                      /\ MeantItems(r, c) = MeantItems(l, c)
<1> DEFINE r == Rendered(l)
<1>1. /\ r = [kind |-> l.kind, bundle |-> l.bundle, preset |-> l.preset,
              list |-> [c \in Categories |-> Merged(l, c)]]
      /\ l.preset = [c \in Categories |-> l.preset[c]]
  BY DEF Rendered, IsManifest
<1> HIDE DEF r
<1>2. /\ r = [kind |-> r.kind, bundle |-> r.bundle, preset |-> r.preset, list |-> r.list]
      /\ r.bundle = l.bundle /\ r.preset = l.preset
      /\ r.list = [c \in Categories |-> r.list[c]]
      /\ \A c \in Categories : r.list[c] = Merged(l, c)
  BY <1>1
<1> DEFINE ug == r.list["users_groups"]
<1>3. /\ ug = [groups |-> ug.groups, users |-> [u \in DOMAIN ug.users |-> ug.users[u]]]
      /\ \A u \in DOMAIN ug.users : PlainUser(ug.users[u])
  <2> DEFINE c == "users_groups"
             e == l.list[c]
  <2>1. ug = Merged(l, c) /\ c \in Categories
    BY <1>2 DEF Categories
  <2>2. \A u \in DOMAIN e.users : PlainUser(e.users[u])
    BY PlainUsers
  <2>3. CASE l.preset[c] # Unset /\ ResolvesCategory(c, l.preset[c])
    <3> DEFINE x == <<c, l.preset[c]>>
               p == Catalogue[x].spec
    <3>1. ug = MergeUsersGroups(e, p)
      BY <2>1, <2>3 DEF Merged, Merge
    <3>2. x \in DOMAIN Catalogue /\ x[1] = c
      BY <2>3 DEF ResolvesCategory
    <3> HIDE DEF x
    <3>3. \A u \in DOMAIN p.users : PlainUser(p.users[u])
      <4> SUFFICES ASSUME NEW u \in DOMAIN p.users PROVE PlainUser(p.users[u])
        OBVIOUS
      <4>1. IsUser(p.users[u])
        BY <3>2, CatalogueAssumption DEF IsList
      <4>2. p.users[u] \in Range(p.users)
        BY DEF Range
      <4>. QED
        BY <3>2, <4>1, <4>2, DocumentsAssumption DEF PlainUser
    <3> HIDE DEF p, e, ug
    <3>4. /\ ug.users = [u \in DOMAIN ug.users |-> ug.users[u]]
          /\ DOMAIN ug.users = DOMAIN e.users \union DOMAIN p.users
          /\ \A u \in DOMAIN e.users \intersect DOMAIN p.users : ug.users[u] = MergeUser(e.users[u], p.users[u])
          /\ \A u \in DOMAIN e.users \ DOMAIN p.users : ug.users[u] = e.users[u]
          /\ \A u \in DOMAIN p.users \ DOMAIN e.users : ug.users[u] = p.users[u]
      BY <3>1, UsersValues
    <3>5. \A f, g : PlainUser(f) /\ PlainUser(g) => PlainUser(MergeUser(f, g))
      BY DEF PlainUser, IsUser, MergeUser
    <3>6. ug = [groups |-> ug.groups, users |-> ug.users]
      BY <3>1 DEF MergeUsersGroups
    <3>7. \A u \in DOMAIN ug.users : PlainUser(ug.users[u])
      BY <2>2, <3>3, <3>4, <3>5
    <3>. QED
      BY <3>4, <3>6, <3>7, Zenon DEF ug
  <2>4. CASE ~(l.preset[c] # Unset /\ ResolvesCategory(c, l.preset[c]))
    <3>1. ug = e
      BY <2>1, <2>4 DEF Merged
    <3>2. e = [groups |-> e.groups, users |-> [u \in DOMAIN e.users |-> e.users[u]]]
      BY DEF IsManifest
    <3>. QED
      BY <2>2, <3>1, <3>2, Zenon
  <2>. QED
    BY <2>3, <2>4
<1>4. IsManifest(r)
  <2>1. \A c \in Categories : IsList(c, r.list[c])
    BY <1>3 DEF IsList, PlainUser
  <2> HIDE DEF ug
  <2>2. r.preset = [c \in Categories |-> r.preset[c]]
    BY <1>1, <1>2
  <2>. QED
    BY <1>2, <1>3, <2>1, <2>2, Zenon DEF IsManifest, ug
<1>5. Placeholders(r) = {}
  BY <1>3 DEF Placeholders, Keys, Range, PlainUser
<1>6. \A c \in Categories : MeantPreset(r, c) = MeantPreset(l, c)
  BY <1>2 DEF MeantPreset
<1>7. Rendered(r) = r
  BY RenderAgain DEF r
<1>8. ASSUME NEW c \in Categories
      PROVE  Items(c, r.list[c]) = MeantItems(l, c) /\ MeantItems(r, c) = MeantItems(l, c)
  <2>1. Items(c, Merged(l, c)) = MeantItems(l, c)
    BY MergedMeans
  <2>2. Items(c, Merged(r, c)) = MeantItems(r, c)
    BY <1>2, <1>4, <1>5, <1>6, MergedMeans
  <2>3. Merged(r, c) = r.list[c]
    <3>1. Rendered(r) = [r EXCEPT !.list = [d \in Categories |-> Merged(r, d)]]
      BY DEF Rendered
    <3>2. r.list = [d \in Categories |-> Merged(r, d)]
      <4>1. \A f : [r EXCEPT !.list = f].list = f
        BY <1>2
      <4>. QED
        BY <1>7, <3>1, <4>1, Zenon
    <3>. QED
      BY <3>2
  <2>. QED
    BY <1>2, <2>1, <2>2, <2>3
<1>. QED
  BY <1>4, <1>5, <1>8 DEF r

----------------------------------------------------------------------------
(* Rendering. *)

\* A render command has the file's own manifest in hand, and then what it prints
\* (runConfigRender).
Printed ==
  args.cmd = "render" =>
    /\ pc \in {"fallback", "dial", "done"}
    /\ pc = "dial" => LoadsLinux(args.file) /\ linux = LoadLinux(args.file)
    /\ pc = "done" /\ exit = "ok" =>
         LET r == Rendered(LoadLinux(args.file))
         IN  LoadsLinux(args.file) /\ linux = WithKeys(r, [k \in Keys(r) |-> Redact(k)])

\* A command of a kind that loads only a linux.yaml starts with that.
LEMMA PrintedInit == Init => Printed
  BY DEF Init, Printed, LinuxOnly

\* FallBack loads it, and Render prints it.
LEMMA PrintedNext == Printed /\ [Next]_vars => Printed'
<1> SUFFICES ASSUME Printed, [Next]_vars, args'.cmd = "render" PROVE Printed'
  BY DEF Printed
<1>1. ASSUME UNCHANGED <<args, pc, linux, exit>> PROVE Printed'
  BY <1>1 DEF Printed
<1>2. UNCHANGED args
  BY DEF Next, Step, ReadEnv, Overflow, ResolveEnv, LoadEnvFails, FallBack, FallBackFails, Render, Check,
     Open, DialFails, GivesUp, PlanErrs, PlanNext, Tell, BeginApply, ApplyNext, ApplyFails, ApplyReturns,
     LoseSession, LoadRest, SessionRest, CommandRest, ApplyRest, vars
<1>3. pc \in {"fallback", "dial", "done"} /\ args.cmd = "render"
  BY <1>2 DEF Printed
<1>4. CASE FallBack
  <2>1. pc' = "dial" /\ LoadsLinux(args.file) /\ linux' = LoadLinux(args.file)
    BY <1>4 DEF FallBack, Loaded
  <2>. QED
    BY <1>2, <2>1 DEF Printed
<1>5. CASE FallBackFails
  <2>1. pc' = "done" /\ exit' = "error"
    BY <1>5 DEF FallBackFails, Ends
  <2>. QED
    BY <2>1 DEF Printed
<1>6. CASE Render
  <2>1. /\ pc' = "done" /\ pc = "dial"
        /\ linux' = WithKeys(Rendered(linux), [k \in Keys(Rendered(linux)) |-> Redact(k)])
    BY <1>6 DEF Render, Ends
  <2>2. linux = LoadLinux(args.file) /\ LoadsLinux(args.file)
    BY <1>3, <2>1 DEF Printed
  <2> DEFINE L == LoadLinux(args.file)
  <2>3. linux' = WithKeys(Rendered(L), [k \in Keys(Rendered(L)) |-> Redact(k)])
    BY <2>1, <2>2, Zenon
  <2>4. args'.file = args.file /\ pc' # "dial" /\ pc' \in {"fallback", "dial", "done"}
    BY <1>2, <2>1
  <2>. QED
    BY <2>2, <2>3, <2>4, Zenon DEF Printed
<1>7. CASE UNCHANGED vars
  BY <1>7, <1>1 DEF vars, loading
<1>8. ~(ReadEnv \/ Overflow \/ ResolveEnv)
  BY <1>3 DEF ReadEnv, Overflow, ResolveEnv
<1>9. ~LoadEnvFails
  BY <1>3 DEF LoadEnvFails
<1>10. ~(Check \/ Open \/ DialFails \/ GivesUp)
  BY <1>3 DEF Check, Open, DialFails, GivesUp, OnHost
<1>11. ~(PlanErrs \/ PlanNext \/ Tell \/ BeginApply \/ LoseSession)
  BY <1>3 DEF PlanErrs, PlanNext, Tell, BeginApply, LoseSession
<1>12. ~(ApplyNext \/ ApplyFails \/ ApplyReturns)
  BY <1>3 DEF ApplyNext, ApplyFails, ApplyReturns
<1>. QED
  BY <1>4, <1>5, <1>6, <1>7, <1>8, <1>9, <1>10, <1>11, <1>12 DEF Next, Step

\* What config render prints of a linux.yaml without secrets means what the file does,
\* and means it still when it is loaded as a file of its own.
THEOREM RenderKeepsMeaning == Spec => []RenderedMeansTheSame
<1>1. Printed => RenderedMeansTheSame
  <2> SUFFICES ASSUME Printed, pc = "done", args.cmd = "render", exit = "ok", Files[args.file].kind = "Linux",
                      Placeholders(Files[args.file].manifest) = {},
                      NEW c \in Categories
               PROVE  LET m == Files[args.file].manifest
                      IN  /\ Items(c, linux.list[c]) = MeantItems(m, c)
                          /\ MeantItems(linux, c) = MeantItems(m, c)
    BY Zenon DEF RenderedMeansTheSame
  <2> DEFINE m == Files[args.file].manifest
             l == expandBundleOnLinux(m)
             r == Rendered(l)
  <2>1. args.file \in DOMAIN Files /\ BundleKnown(m) /\ LoadLinux(args.file) = l
    BY DEF Printed, LoadsLinux, Exists, LoadLinux, Decoded
  <2>2. IsManifest(m)
    <3>1. m \in Manifests
      BY <2>1 DEF Manifests, EnvFiles
    <3>. QED
      BY <3>1, DocumentsAssumption
  <2>3. linux = WithKeys(r, [k \in Keys(r) |-> Redact(k)])
    BY <2>1 DEF Printed
  <2> HIDE DEF m, l
  <2>4. /\ IsManifest(l) /\ l.bundle = m.bundle /\ l.list = m.list
        /\ \A d \in Categories : l.preset[d] = MeantPreset(m, d) /\ MeantPreset(l, d) = l.preset[d]
    BY <2>1, <2>2, Expanded DEF l
  <2>5. Placeholders(l) = {}
    BY <2>4 DEF Placeholders, Keys, m
  <2>6. /\ IsManifest(r) /\ Placeholders(r) = {}
        /\ Items(c, r.list[c]) = MeantItems(l, c) /\ MeantItems(r, c) = MeantItems(l, c)
    BY <2>4, <2>5, RenderedMeans
  <2> HIDE DEF r
  <2>7. linux = r
    <3> DEFINE written == [k \in Keys(r) |-> Redact(k)]
    <3>1. \A k \in Keys(r) : written[k] = k
      BY <2>6 DEF Placeholders, Redact
    <3> HIDE DEF written
    <3>2. WithKeys(r, written) = r
      BY <2>6, <3>1, KeysStay
    <3>. QED
      BY <2>3, <3>2 DEF written
  <2>8. MeantItems(l, c) = MeantItems(m, c)
    <3>1. MeantPreset(l, c) = MeantPreset(m, c)
      BY <2>4
    <3>2. Given(l, c) = Given(m, c)
      BY <3>1 DEF Given
    <3>3. Placeholders(m) = {}
      BY DEF m
    <3>4. resolveLinuxSecrets(l) = l /\ resolveLinuxSecrets(m) = m
      BY <2>2, <2>4, <2>5, <3>3, PlainStays
    <3>. QED
      BY <2>4, <3>2, <3>4 DEF MeantItems
  <2>. QED
    BY <2>6, <2>7, <2>8 DEF m
<1>. QED
  BY <1>1, PrintedInit, PrintedNext, PTL DEF Spec

----------------------------------------------------------------------------
(* Loaded manifests. *)

\* The users of a list with their keys written anew.
NewUsers(users, written) ==
  [u \in DOMAIN users |-> [users[u] EXCEPT !.keys = {written[k] : k \in users[u].keys}]]

\* And the lists of a manifest.
NewLists(list, written) ==
  LET ug == list["users_groups"]
  IN  [list EXCEPT !["users_groups"] = [groups |-> ug.groups, users |-> NewUsers(ug.users, written)]]

\* What writing the keys of a manifest anew changes of it.
LEMMA WithKeysShape ==
  ASSUME NEW m, IsManifest(m), NEW written
  PROVE  LET l  == WithKeys(m, written)
             ug == m.list["users_groups"]
         IN  /\ l = [kind |-> m.kind, bundle |-> m.bundle, preset |-> m.preset, list |-> l.list]
             /\ l.list = NewLists(m.list, written)
             /\ DOMAIN l.list = Categories
             /\ l.list["users_groups"] = [groups |-> ug.groups, users |-> NewUsers(ug.users, written)]
             /\ \A c \in Categories \ {"users_groups"} : l.list[c] = m.list[c]
<1> DEFINE l == WithKeys(m, written)
           ug == m.list["users_groups"]
           users == ug.users
           new == NewUsers(users, written)
<1>1. m = [kind |-> m.kind, bundle |-> m.bundle, preset |-> m.preset, list |-> m.list]
      /\ DOMAIN m.list = Categories /\ "users_groups" \in Categories
  BY DEF IsManifest, Categories
<1>2. ug = [groups |-> ug.groups, users |-> [u \in DOMAIN users |-> users[u]]]
  BY DEF IsManifest
<1>3. l = [m EXCEPT !.list["users_groups"].users = new]
  BY Zenon DEF WithKeys, NewUsers
<1> HIDE DEF new, l, users
<1>4. l = [m EXCEPT !.list = [m.list EXCEPT !["users_groups"] = [ug EXCEPT !.users = new]]]
  BY <1>3
<1>5. [ug EXCEPT !.users = new] = [groups |-> ug.groups, users |-> new]
  BY <1>2
<1> DEFINE list == [m.list EXCEPT !["users_groups"] = [groups |-> ug.groups, users |-> new]]
<1>6. /\ DOMAIN list = Categories /\ list["users_groups"] = [groups |-> ug.groups, users |-> new]
      /\ \A c \in Categories \ {"users_groups"} : list[c] = m.list[c]
  BY <1>1
<1>7. l = [m EXCEPT !.list = list]
  BY <1>4, <1>5, Zenon
<1> HIDE DEF list, ug
<1>8. l = [kind |-> m.kind, bundle |-> m.bundle, preset |-> m.preset, list |-> list]
  BY <1>1, <1>7
<1>9. l.list = list /\ l = [kind |-> m.kind, bundle |-> m.bundle, preset |-> m.preset, list |-> l.list]
  BY <1>8
<1>. QED
  BY <1>6, <1>9, Zenon DEF l, list, ug, users, new, NewLists

\* A manifest with its secrets resolved has no more placeholders.
LEMMA Resolved ==
  ASSUME NEW m, IsManifest(m)
  PROVE  LET l == resolveLinuxSecrets(m)
         IN  /\ IsManifest(l) /\ Placeholders(l) = {}
             /\ l.kind = m.kind /\ l.bundle = m.bundle /\ l.preset = m.preset
             /\ \A c \in Categories \ {"users_groups"} : l.list[c] = m.list[c]
<1> DEFINE l == resolveLinuxSecrets(m)
           written == [k \in Keys(m) |-> Resolve(k)]
           users == m.list["users_groups"].users
           new == NewUsers(users, written)
           ug == [groups |-> m.list["users_groups"].groups, users |-> new]
<1>1. l = WithKeys(m, written)
  BY DEF resolveLinuxSecrets
<1>2. \A k \in Keys(m) : written[k] \notin DOMAIN Secrets
  BY DocumentsAssumption DEF Resolve
<1> HIDE DEF written
<1>3. /\ l = [kind |-> m.kind, bundle |-> m.bundle, preset |-> m.preset, list |-> l.list]
      /\ DOMAIN l.list = Categories
      /\ l.list["users_groups"] = ug
      /\ \A c \in Categories \ {"users_groups"} : l.list[c] = m.list[c]
      /\ l.list = [m.list EXCEPT !["users_groups"] = ug]
  <2>1. NewLists(m.list, written) = [m.list EXCEPT !["users_groups"] = ug]
    BY DEF NewLists
  <2> HIDE DEF l, ug
  <2>2. /\ l = [kind |-> m.kind, bundle |-> m.bundle, preset |-> m.preset, list |-> l.list]
        /\ l.list = NewLists(m.list, written)
        /\ DOMAIN l.list = Categories
        /\ l.list["users_groups"] = ug
        /\ \A c \in Categories \ {"users_groups"} : l.list[c] = m.list[c]
    BY <1>1, WithKeysShape, Zenon DEF ug
  <2>. QED
    BY <2>1, <2>2
<1>4. ASSUME NEW u \in DOMAIN users
      PROVE  IsUser(new[u]) /\ \A k \in new[u].keys : k \notin DOMAIN Secrets
  <2> DEFINE K == {written[k] : k \in users[u].keys}
  <2>1. IsUser(users[u])
    BY DEF IsManifest, IsList, Categories
  <2>2. users[u] \in Range(users)
    BY DEF Range
  <2>3. \A k \in users[u].keys : k \in Keys(m)
    BY <2>2 DEF Keys
  <2>4. \A k \in K : k \notin DOMAIN Secrets
    BY <1>2, <2>3
  <2>5. new[u] = [users[u] EXCEPT !.keys = K]
    BY DEF NewUsers
  <2> HIDE DEF new, K, users
  <2>. QED
    BY <2>1, <2>4, <2>5 DEF IsUser
<1>5. DOMAIN new = DOMAIN users /\ new = [u \in DOMAIN new |-> new[u]]
  BY DEF NewUsers
<1> HIDE DEF l, new, users
<1>6. l.kind = m.kind /\ l.bundle = m.bundle /\ l.preset = m.preset
      /\ l = [kind |-> l.kind, bundle |-> l.bundle, preset |-> l.preset, list |-> l.list]
  BY <1>3
<1>7. ug.groups = m.list["users_groups"].groups /\ ug.users = new
  OBVIOUS
<1>8. IsManifest(l)
  <2>1. \A c \in Categories : IsList(c, l.list[c])
    <3> SUFFICES ASSUME NEW c \in Categories PROVE IsList(c, l.list[c])
      OBVIOUS
    <3>1. CASE c = "users_groups"
      BY <1>3, <1>4, <1>5, <1>7, <3>1 DEF IsList
    <3>2. CASE c # "users_groups"
      BY <3>2 DEF IsList
    <3>. QED
      BY <3>1, <3>2
  <2>2. l.preset = [c \in Categories |-> l.preset[c]]
    BY <1>6 DEF IsManifest
  <2>3. l.list = [c \in Categories |-> l.list[c]]
    <3>1. m.list = [c \in Categories |-> m.list[c]]
      BY DEF IsManifest
    <3>. QED
      BY <1>3, <3>1
  <2>4. ug = [groups |-> ug.groups, users |-> [u \in DOMAIN ug.users |-> ug.users[u]]]
    <3>1. ug.users = [u \in DOMAIN ug.users |-> ug.users[u]]
      BY <1>5, <1>7, Zenon
    <3>2. ug = [groups |-> ug.groups, users |-> ug.users]
      OBVIOUS
    <3>. QED
      BY <3>1, <3>2, Zenon
  <2> HIDE DEF ug
  <2>. QED
    BY <1>3, <1>6, <2>1, <2>2, <2>3, <2>4, Zenon DEF IsManifest
<1>9. Placeholders(l) = {}
  <2>1. \A v \in Range(ug.users) : \A k \in v.keys : k \notin DOMAIN Secrets
    BY <1>4, <1>5, <1>7 DEF Range
  <2>. QED
    BY <1>3, <2>1 DEF Placeholders, Keys
<1>. QED
  BY <1>3, <1>6, <1>8, <1>9 DEF l

\* Resolving looks at the lists only.
LEMMA ResolvedLists ==
  ASSUME NEW m, IsManifest(m), NEW l, IsManifest(l), l.list = m.list
  PROVE  resolveLinuxSecrets(l).list = resolveLinuxSecrets(m).list
<1>1. Keys(l) = Keys(m)
  BY DEF Keys
<1> DEFINE written == [k \in Keys(m) |-> Resolve(k)]
<1>2. resolveLinuxSecrets(l) = WithKeys(l, written) /\ resolveLinuxSecrets(m) = WithKeys(m, written)
  BY <1>1, Zenon DEF resolveLinuxSecrets
<1> HIDE DEF written
<1>3. WithKeys(m, written).list = NewLists(m.list, written) /\ WithKeys(l, written).list = NewLists(l.list, written)
  BY WithKeysShape, Zenon
<1>. QED
  BY <1>2, <1>3, Zenon

\* A manifest as loading leaves it: its bundle expanded, its secrets resolved.
Done(m) == resolveLinuxSecrets(expandBundleOnLinux(m))

\* What a loaded manifest is, and that it stays so when it is loaded again, as an
\* inherited inline manifest is.
LEMMA DoneShape ==
  ASSUME NEW m, IsManifest(m), BundleKnown(m)
  PROVE  LET l == Done(m)
         IN  /\ IsManifest(l) /\ Placeholders(l) = {}
             /\ l.kind = m.kind /\ l.bundle = m.bundle
             /\ l.list = resolveLinuxSecrets(m).list
             /\ \A c \in Categories \ {"users_groups"} : l.list[c] = m.list[c]
             /\ \A c \in Categories : l.preset[c] = MeantPreset(m, c) /\ MeantPreset(l, c) = l.preset[c]
             /\ Done(l) = l
<1> DEFINE e == expandBundleOnLinux(m)
           l == resolveLinuxSecrets(e)
<1>1. /\ IsManifest(e) /\ e.kind = m.kind /\ e.bundle = m.bundle /\ e.list = m.list
      /\ \A c \in Categories : e.preset[c] = MeantPreset(m, c) /\ MeantPreset(e, c) = e.preset[c]
  BY Expanded
<1>2. l = Done(m)
  BY DEF Done
<1> HIDE DEF e
<1>3. /\ IsManifest(l) /\ Placeholders(l) = {}
      /\ l.kind = e.kind /\ l.bundle = e.bundle /\ l.preset = e.preset
      /\ \A c \in Categories \ {"users_groups"} : l.list[c] = e.list[c]
  BY <1>1, Resolved
<1>4. l.list = resolveLinuxSecrets(m).list
  BY <1>1, ResolvedLists
<1> HIDE DEF l
<1>5. \A c \in Categories : MeantPreset(l, c) = l.preset[c]
  BY <1>1, <1>3 DEF MeantPreset
<1>6. expandBundleOnLinux(l) = l
  <2>1. CASE l.bundle = Unset
    BY <2>1 DEF expandBundleOnLinux
  <2>2. CASE l.bundle # Unset
    <3> DEFINE new == [c \in Categories |-> IF l.preset[c] # Unset THEN l.preset[c] ELSE Bundles[l.bundle].child[c]]
    <3>1. l.bundle \in DOMAIN Bundles
      BY <1>1, <1>3, <2>2 DEF BundleKnown, BundleExpands
    <3>2. expandBundleOnLinux(l) = [l EXCEPT !.preset = new]
      BY <2>2, Zenon DEF expandBundleOnLinux
    <3>3. \A c \in Categories : new[c] = l.preset[c]
      BY <1>5, <3>1 DEF MeantPreset
    <3>4. l.preset = [c \in Categories |-> l.preset[c]]
          /\ l = [kind |-> l.kind, bundle |-> l.bundle, preset |-> l.preset, list |-> l.list]
      BY <1>3 DEF IsManifest
    <3>5. new = l.preset
      BY <3>3, <3>4
    <3> HIDE DEF new
    <3>6. [l EXCEPT !.preset = l.preset] = l
      BY <3>4
    <3>. QED
      BY <3>2, <3>5, <3>6, Zenon
  <2>. QED
    BY <2>1, <2>2
<1>7. resolveLinuxSecrets(l) = l
  BY <1>3, PlainStays
<1>8. Done(l) = l
  BY <1>6, <1>7 DEF Done
<1>. QED
  BY <1>1, <1>2, <1>3, <1>4, <1>5, <1>8

\* A loaded manifest means what it is loaded from.
LEMMA DoneMeans ==
  ASSUME NEW m, IsManifest(m), BundleKnown(m), NEW c \in Categories
  PROVE  /\ Items(c, Merged(Done(m), c)) = MeantItems(m, c)
         /\ c \in {"sysctl", "limits"} => Items(c, Done(m).list[c]) = Items(c, m.list[c])
<1> DEFINE l == Done(m)
<1>1. /\ IsManifest(l) /\ Placeholders(l) = {}
      /\ l.list = resolveLinuxSecrets(m).list
      /\ \A d \in Categories \ {"users_groups"} : l.list[d] = m.list[d]
      /\ l.preset[c] = MeantPreset(m, c) /\ MeantPreset(l, c) = l.preset[c]
  BY DoneShape
<1> HIDE DEF l
<1>2. Items(c, Merged(l, c)) = MeantItems(l, c)
  BY <1>1, MergedMeans
<1>3. resolveLinuxSecrets(l) = l
  BY <1>1, PlainStays
<1>4. Given(l, c) = Given(m, c)
  BY <1>1 DEF Given
<1>5. MeantItems(l, c) = MeantItems(m, c)
  BY <1>1, <1>3, <1>4 DEF MeantItems
<1>6. c \in {"sysctl", "limits"} => Items(c, l.list[c]) = Items(c, m.list[c])
  BY <1>1
<1>. QED
  BY <1>2, <1>5, <1>6 DEF l

\* Items are pairs.
LEMMA ItemsArePairs ==
  ASSUME NEW c \in Categories, NEW list, NEW i \in Items(c, list)
  PROVE  i = <<i[1], i[2]>>
<1>1. CASE c = "packages"
  <2>1. i \in (list.install \X {"installed"}) \union (list.remove \X {Absent})
    BY <1>1 DEF Items
  <2>. QED
    BY <2>1
<1>2. CASE c = "users_groups"
  BY <1>2, UserItems
<1>3. CASE c \in {"directories", "sysctl", "limits"}
  <2>1. i \in Pairs(list)
    BY <1>3 DEF Items
  <2>. QED
    BY <2>1 DEF Pairs
<1>. QED
  BY <1>1, <1>2, <1>3 DEF Categories

\* A list asks for one value of every key, unless it wants a package and wants it gone.
LEMMA ItemsAgree ==
  ASSUME NEW c \in Categories, NEW list, c = "packages" => list.install \intersect list.remove = {},
         NEW i \in Items(c, list), NEW j \in Items(c, list), i[1] = j[1]
  PROVE  i = j
<1>1. CASE c = "packages"
  <2>1. \A x \in Items(c, list) : \/ x[1] \in list.install /\ x = <<x[1], "installed">>
                                  \/ x[1] \in list.remove /\ x = <<x[1], Absent>>
    BY <1>1 DEF Items
  <2>. QED
    BY <1>1, <2>1
<1>2. CASE c = "users_groups"
  BY <1>2, UserItems
<1>3. CASE c \in {"directories", "sysctl", "limits"}
  <2>1. i \in Pairs(list) /\ j \in Pairs(list)
    BY <1>3 DEF Items
  <2>. QED
    BY <2>1 DEF Pairs
<1>. QED
  BY <1>1, <1>2, <1>3 DEF Categories

\* Merging does not bring a contradiction into a list of packages.
LEMMA MergedAgrees ==
  ASSUME NEW l, ~Contradictory(l)
  PROVE  Merged(l, "packages").install \intersect Merged(l, "packages").remove = {}
<1> DEFINE e == l.list["packages"]
<1>1. e.install \intersect e.remove = {}
  BY DEF Contradictory
<1>2. CASE Merged(l, "packages") = e
  BY <1>1, <1>2
<1>3. ASSUME NEW p, Merged(l, "packages") = MergePackages(e, p)
      PROVE  Merged(l, "packages").install \intersect Merged(l, "packages").remove = {}
  BY <1>1, <1>3 DEF MergePackages
<1>4. Merged(l, "packages") = e \/ \E p : Merged(l, "packages") = MergePackages(e, p)
  BY DEF Merged, Merge
<1>. QED
  BY <1>2, <1>3, <1>4

----------------------------------------------------------------------------
(* A document, its base, the base of that. *)

\* f gives the first 0, 1, ... n bases of p.
Bases(p, n, f) == f = [i \in 0 .. n |-> IF i = 0 THEN p ELSE Base(f[i - 1])]

\* There is such an f.
LEMMA BasesExist ==
  ASSUME NEW p, NEW n \in Nat
  PROVE  \E f : Bases(p, n, f)
<1> DEFINE Bad == {k \in Nat : ~ \E f : Bases(p, k, f)}
<1> SUFFICES ASSUME Bad # {} PROVE FALSE
  OBVIOUS
<1>1. PICK k \in Bad : \A m \in Bad : k <= m
  BY LeastNat
<1>2. k # 0
  <2> DEFINE f == [i \in 0 .. 0 |-> p]
  <2>1. \A i \in 0 .. 0 : i = 0
    OBVIOUS
  <2>2. Bases(p, 0, f)
    BY <2>1 DEF Bases
  <2>. QED
    BY <2>2, <1>1
<1>3. k - 1 \in Nat /\ ~(k <= k - 1)
  BY <1>1, <1>2
<1>4. PICK f : Bases(p, k - 1, f)
  BY <1>1, <1>3, Zenon
<1> DEFINE g == [i \in 0 .. k |-> IF i = k THEN Base(f[k - 1]) ELSE f[i]]
<1>5. \A i \in 0 .. k : g[i] = IF i = 0 THEN p ELSE Base(g[i - 1])
  <2> SUFFICES ASSUME NEW i \in 0 .. k
               PROVE  g[i] = IF i = 0 THEN p ELSE Base(g[i - 1])
    OBVIOUS
  <2>1. CASE i = k
    <3>1. i - 1 \in 0 .. k /\ i - 1 # k
      BY <1>2, <2>1
    <3>. QED
      BY <1>2, <2>1, <3>1
  <2>2. CASE i # k
    <3>1. i \in 0 .. k - 1 /\ (i # 0 => i - 1 \in 0 .. k /\ i - 1 # k)
      BY <2>2
    <3>2. f[i] = IF i = 0 THEN p ELSE Base(f[i - 1])
      BY <1>4, <3>1 DEF Bases
    <3>. QED
      BY <2>2, <3>1, <3>2
  <2>. QED
    BY <2>1, <2>2
<1>6. Bases(p, k, g)
  <2>1. g = [i \in 0 .. k |-> g[i]]
    OBVIOUS
  <2>. QED
    BY <2>1, <1>5, Zenon DEF Bases
<1>. QED
  BY <1>1, <1>6

\* The chain of a document starts with it, and every other is the base of the one before.
LEMMA ChainSteps ==
  ASSUME NEW p
  PROVE  /\ Chain(p)[0] = p
         /\ \A n \in 1 .. MaxDepth : Chain(p)[n] = Base(Chain(p)[n - 1])
<1> DEFINE f == CHOOSE f : Bases(p, MaxDepth, f)
<1>0. MaxDepth \in Nat
  BY CommandAssumption
<1>1. Bases(p, MaxDepth, f)
  BY <1>0, BasesExist, Zenon
<1>2. Chain(p) = f
  BY Zenon DEF Chain, Bases
<1> HIDE DEF f
<1>3. \A i \in 0 .. MaxDepth : f[i] = IF i = 0 THEN p ELSE Base(f[i - 1])
  BY <1>1 DEF Bases
<1>. QED
  BY <1>0, <1>2, <1>3

----------------------------------------------------------------------------
(* Loading. *)

\* From the n-th document of f's chain on, the k-th is the first that declares a manifest.
Nearest(f, n, k) ==
  /\ k \in Declarers(f) /\ n <= k
  /\ \A j \in Declarers(f) : n <= j => k <= j

\* What the n-th document comes to, with what it inherits: the manifest it declares is
\* that of the first declarer from there on, loaded already if it is inline.
Fits(f, e, n) ==
  Declares(e) =>
    /\ IsEnv(Chain(f)[n])
    /\ \E k \in 0 .. MaxDepth :
         LET d == Files[Chain(f)[k]]
         IN  /\ Nearest(f, n, k) /\ e.ref = d.ref
             /\ e.inline = d.inline \/ (d.inline # Unset /\ e.inline = Done(d.inline))

\* A document as it is decoded.
IsEnvelope(e) == e = [kind |-> e.kind, head |-> e.head, extends |-> e.extends, ref |-> e.ref, inline |-> e.inline]

\* While the stack is loaded, its documents are the first of the chain, and all but
\* the last are env.yaml files.
OpenTo(f, s, n) ==
  /\ s \in Seq({Chain(f)[i] : i \in 0 .. MaxDepth}) /\ Len(s) = n + 1
  /\ \A i \in 0 .. n : s[i + 1] = Chain(f)[i]
  /\ \A i \in 0 .. n : i < n => IsEnv(Chain(f)[i])

\* And of a document that is read, the innermost is in hand with what it inherits.
Opened ==
  pc \in {"read", "resolve"} =>
    \E n \in Nat :
      /\ n < MaxDepth /\ OpenTo(args.file, stack, n)
      /\ pc = "resolve" => IsEnvelope(env) /\ Fits(args.file, env, n)

\* A document that is no env.yaml declares nothing.
LEMMA ReadEnvShape ==
  ASSUME NEW p, Exists(p)
  PROVE  /\ IsEnvelope(readEnv(p))
         /\ IsEnv(p) => readEnv(p) = Files[p]
         /\ ~IsEnv(p) => ~Declares(readEnv(p)) /\ readEnv(p).extends = Unset
<1>1. CASE IsEnv(p)
  <2>1. p \in EnvFiles
    BY <1>1 DEF IsEnv, Exists, EnvFiles
  <2>2. Files[p] = [kind |-> "Env", head |-> Files[p].head, extends |-> Files[p].extends,
                    ref |-> Files[p].ref, inline |-> Files[p].inline]
    BY <2>1, DocumentsAssumption
  <2>3. readEnv(p) = Files[p]
    BY <1>1 DEF readEnv, IsEnv
  <2>4. IsEnvelope(Files[p])
    BY <2>2 DEF IsEnvelope
  <2>. QED
    BY <1>1, <2>3, <2>4
<1>2. CASE ~IsEnv(p)
  <2>1. readEnv(p) = [kind |-> "Env", head |-> "bad", extends |-> Unset, ref |-> Unset, inline |-> Unset]
    BY <1>2 DEF readEnv, IsEnv
  <2>. QED
    BY <1>2, <2>1 DEF IsEnvelope, Declares
<1>. QED
  BY <1>1, <1>2

\* What the last document declares, it declares first.
LEMMA FitsRead ==
  ASSUME NEW f, NEW n \in 0 .. MaxDepth, Exists(Chain(f)[n])
  PROVE  Fits(f, readEnv(Chain(f)[n]), n)
<1>1. SUFFICES ASSUME Declares(readEnv(Chain(f)[n])) PROVE Fits(f, readEnv(Chain(f)[n]), n)
  BY DEF Fits
<1>2. IsEnv(Chain(f)[n]) /\ readEnv(Chain(f)[n]) = Files[Chain(f)[n]]
  BY <1>1, ReadEnvShape
<1>3. n \in Declarers(f)
  BY <1>1, <1>2 DEF Declarers
<1>4. Nearest(f, n, n)
  BY <1>3, CommandAssumption DEF Nearest
<1>. QED
  BY <1>2, <1>4, Zenon DEF Fits

\* The heir declares its own, or what its base came to.
LEMMA FitsMerge ==
  ASSUME NEW f, NEW n \in 0 .. MaxDepth, n + 1 \in 0 .. MaxDepth, NEW e, Fits(f, e, n + 1), IsEnv(Chain(f)[n])
  PROVE  LET o == mergeEnv(e, readEnv(Chain(f)[n]))
         IN  IsEnvelope(o) /\ Fits(f, o, n)
<1> DEFINE d == readEnv(Chain(f)[n])
           o == mergeEnv(e, d)
<1>1. IsEnvelope(d) /\ d = Files[Chain(f)[n]]
  BY ReadEnvShape DEF IsEnv
<1>2. n \in Declarers(f) <=> Declares(d)
  BY <1>1 DEF Declarers
<1>3. CASE Declares(d)
  <2>1. o.ref = d.ref /\ o.inline = d.inline /\ IsEnvelope(o)
    BY <1>3 DEF mergeEnv, IsEnvelope
  <2>2. Nearest(f, n, n)
    BY <1>2, <1>3, CommandAssumption DEF Nearest
  <2>. QED
    BY <1>1, <2>1, <2>2, Zenon DEF Fits
<1>4. CASE ~Declares(d) /\ ~Declares(e)
  <2>1. ~Declares(o) /\ IsEnvelope(o)
    BY <1>4 DEF mergeEnv, IsEnvelope, Declares
  <2>. QED
    BY <2>1, Zenon DEF Fits
<1>5. CASE ~Declares(d) /\ Declares(e)
  <2>1. o.ref = e.ref /\ o.inline = e.inline /\ IsEnvelope(o)
    BY <1>5 DEF mergeEnv, IsEnvelope
  <2>2. PICK k \in 0 .. MaxDepth :
          LET g == Files[Chain(f)[k]]
          IN  /\ Nearest(f, n + 1, k) /\ e.ref = g.ref
              /\ e.inline = g.inline \/ (g.inline # Unset /\ e.inline = Done(g.inline))
    BY <1>5, Zenon DEF Fits
  <2>3. Nearest(f, n, k)
    <3>1. \A j \in Declarers(f) : j \in Nat
      BY CommandAssumption DEF Declarers
    <3>2. n \in Nat /\ k \in Nat
      BY CommandAssumption
    <3>. QED
      BY <1>2, <1>5, <2>2, <3>1, <3>2 DEF Nearest
  <2> HIDE DEF o
  <2>4. LET g == Files[Chain(f)[k]]
        IN  o.ref = g.ref /\ (o.inline = g.inline \/ (g.inline # Unset /\ o.inline = Done(g.inline)))
    BY <2>1, <2>2
  <2>5. Fits(f, o, n)
    BY <2>3, <2>4, Zenon DEF Fits
  <2>. QED
    BY <2>1, <2>5 DEF o
<1>. QED
  BY <1>3, <1>4, <1>5

\* The last document of the stack, and the stack with one more or one less.
LEMMA OpenToTop ==
  ASSUME NEW f, NEW n \in Nat, n < MaxDepth, NEW s, OpenTo(f, s, n)
  PROVE  /\ Last(s) = Chain(f)[n]
         /\ n + 1 < MaxDepth /\ IsEnv(Chain(f)[n]) =>
              OpenTo(f, Append(s, Base(Chain(f)[n])), n + 1)
         /\ n # 0 => OpenTo(f, Front(s), n - 1) /\ Last(Front(s)) = Chain(f)[n - 1] /\ IsEnv(Chain(f)[n - 1])
<1> DEFINE ch == Chain(f)
           S == {ch[i] : i \in 0 .. MaxDepth}
<1>0. MaxDepth \in Nat
  BY CommandAssumption
<1>1. /\ s \in Seq(S) /\ Len(s) = n + 1
      /\ \A i \in 0 .. n : s[i + 1] = ch[i]
      /\ \A i \in 0 .. n : i < n => IsEnv(ch[i])
  BY DEF OpenTo
<1>2. Last(s) = ch[n]
  <2>1. Last(s) = s[n + 1] /\ n \in 0 .. n
    BY <1>1 DEF Last
  <2> HIDE DEF ch
  <2>. QED
    BY <1>1, <2>1
<1>3. \A i \in 0 .. MaxDepth : ch[i] \in S
  OBVIOUS
<1>4. ASSUME n + 1 < MaxDepth, IsEnv(ch[n]) PROVE OpenTo(f, Append(s, Base(ch[n])), n + 1)
  <2>1. n + 1 \in 1 .. MaxDepth /\ (n + 1) - 1 = n
    BY <1>0, <1>4
  <2>2. Base(ch[n]) = ch[n + 1]
    BY <2>1, ChainSteps
  <2>3. ch[n + 1] \in S
    BY <1>3, <2>1
  <2> HIDE DEF S
  <2> DEFINE t == Append(s, ch[n + 1])
  <2>4. t \in Seq(S) /\ Len(t) = n + 2 /\ t[n + 2] = ch[n + 1] /\ \A i \in 1 .. n + 1 : t[i] = s[i]
    BY <1>1, <2>3, AppendProperties
  <2> HIDE DEF t, ch
  <2>5. ASSUME NEW i \in 0 .. n + 1 PROVE t[i + 1] = ch[i] /\ (i < n + 1 => IsEnv(ch[i]))
    <3>1. CASE i = n + 1
      BY <2>4, <3>1
    <3>2. CASE i # n + 1
      <4>1. i \in 0 .. n /\ i + 1 \in 1 .. n + 1 /\ (i = n \/ i < n)
        BY <3>2
      <4>. QED
        BY <1>1, <1>4, <2>4, <4>1
    <3>. QED
      BY <3>1, <3>2
  <2>6. OpenTo(f, t, n + 1)
    BY <2>4, <2>5 DEF OpenTo, ch, S
  <2>. QED
    BY <2>2, <2>6 DEF t, ch
<1>5. ASSUME n # 0 PROVE OpenTo(f, Front(s), n - 1) /\ Last(Front(s)) = ch[n - 1] /\ IsEnv(ch[n - 1])
  <2> DEFINE t == Front(s)
  <2>0. n - 1 \in 0 .. n /\ n - 1 < n /\ Len(s) - 1 = n /\ n \in 1 .. Len(s)
    BY <1>1, <1>5
  <2> HIDE DEF S
  <2>1. t = SubSeq(s, 1, n)
    BY <2>0 DEF Front
  <2>2. t \in Seq(S) /\ Len(t) = n /\ \A i \in 1 .. n : t[i] = s[i]
    BY <1>1, <2>0, <2>1, SubSeqProperties
  <2> HIDE DEF t, ch
  <2>3. \A i \in 0 .. n - 1 : t[i + 1] = ch[i] /\ IsEnv(ch[i])
    <3> SUFFICES ASSUME NEW i \in 0 .. n - 1 PROVE t[i + 1] = ch[i] /\ IsEnv(ch[i])
      OBVIOUS
    <3>1. i \in 0 .. n /\ i + 1 \in 1 .. n /\ i < n
      OBVIOUS
    <3>. QED
      BY <1>1, <2>2, <3>1
  <2>4. OpenTo(f, t, n - 1)
    <3>1. Len(t) = (n - 1) + 1
      BY <2>2
    <3>. QED
      BY <2>2, <2>3, <3>1 DEF OpenTo, ch, S
  <2>5. Last(t) = ch[n - 1] /\ IsEnv(ch[n - 1])
    <3>1. Last(t) = t[n] /\ n = (n - 1) + 1
      BY <2>2 DEF Last
    <3>. QED
      BY <1>1, <2>0, <2>2, <2>3, <3>1
  <2>. QED
    BY <2>4, <2>5 DEF t, ch
<1>. QED
  BY <1>2, <1>4, <1>5

\* What is in hand when the stack that f names is loaded: nothing, or what it means.
HandOf(f, l) ==
  \/ l = Empty("Env")
  \/ \E m \in MeantManifests(f) : m \in Manifests /\ BundleKnown(m) /\ l = Done(m)

\* The manifests that the files declare are as they are decoded.
LEMMA DeclaredShape ==
  ASSUME NEW p, IsEnv(p), Files[p].inline # Unset
  PROVE  Files[p].inline \in Manifests /\ IsManifest(Files[p].inline)
<1>1. p \in EnvFiles
  BY DEF IsEnv, Exists, EnvFiles
<1>2. Files[p].inline \in Manifests
  BY <1>1 DEF Manifests
<1>. QED
  BY <1>2, DocumentsAssumption

\* Loading leaves the bundle named.
LEMMA DoneBundle ==
  ASSUME NEW m, IsManifest(m)
  PROVE  BundleKnown(Done(m)) => BundleKnown(m)
<1> DEFINE e == expandBundleOnLinux(m)
<1>1. IsManifest(e) /\ e.bundle = m.bundle
  BY Expanded
<1>2. Done(m).bundle = e.bundle
  BY <1>1, Resolved DEF Done
<1>. QED
  BY <1>1, <1>2 DEF BundleKnown, BundleExpands

\* An inline manifest that is inherited is resolved, which it stays.
LEMMA InheritedFits ==
  ASSUME NEW f, NEW n, IsEnvelope(env), Fits(f, env, n), Reachable
  PROVE  Fits(f, Inherited, n)
<1>1. CASE env.ref # Unset
  BY <1>1 DEF Inherited
<1>2. CASE env.ref = Unset
  <2> DEFINE o == [env EXCEPT !.inline = Done(env.inline)]
  <2>1. env.inline # Unset /\ BundleKnown(env.inline)
    BY <1>2 DEF Reachable
  <2>2. Inherited = o
    BY <1>2, Zenon DEF Inherited, Target, Done
  <2>3. o.ref = Unset /\ o.inline = Done(env.inline)
    BY <1>2 DEF IsEnvelope
  <2>4. IsEnv(Chain(f)[n])
    BY <2>1 DEF Fits, Declares
  <2>5. PICK k \in 0 .. MaxDepth :
          LET d == Files[Chain(f)[k]]
          IN  /\ Nearest(f, n, k) /\ env.ref = d.ref
              /\ env.inline = d.inline \/ (d.inline # Unset /\ env.inline = Done(d.inline))
    BY <2>1, Zenon DEF Fits, Declares
  <2> DEFINE d == Files[Chain(f)[k]]
  <2>6. d.inline # Unset /\ d.ref = Unset
    BY <1>2, <2>1, <2>5
  <2>7. IsManifest(d.inline)
    <3>1. k \in Declarers(f)
      BY <2>5 DEF Nearest
    <3>2. IsEnv(Chain(f)[k])
      BY <3>1 DEF Declarers
    <3>. QED
      BY <2>6, <3>2, DeclaredShape
  <2> HIDE DEF d, o
  <2>8. Done(env.inline) = Done(d.inline)
    <3>1. CASE env.inline = d.inline
      BY <3>1
    <3>2. CASE env.inline = Done(d.inline)
      <4>1. BundleKnown(d.inline)
        BY <2>1, <2>7, <3>2, DoneBundle
      <4>2. Done(Done(d.inline)) = Done(d.inline)
        BY <2>7, <4>1, DoneShape
      <4>. QED
        BY <3>2, <4>2
    <3>. QED
      BY <2>5, <3>1, <3>2 DEF d
  <2>9. o.ref = d.ref /\ d.inline # Unset /\ o.inline = Done(d.inline)
    BY <2>3, <2>6, <2>8
  <2>10. Fits(f, o, n)
    BY <2>4, <2>5, <2>9, Zenon DEF Fits, d
  <2>. QED
    BY <2>2, <2>10
<1>. QED
  BY <1>1, <1>2

\* What a file gives that is read as a linux.yaml, unless placeholders stay in it.
LEMMA FileInHand ==
  ASSUME NEW f, LoadsLinux(f), Files[f].kind = "Linux" => Placeholders(Files[f].manifest) = {}
  PROVE  HandOf(f, LoadLinux(f))
<1>0. f \in DOMAIN Files
  BY DEF LoadsLinux, Exists
<1>1. CASE Files[f].kind = "Linux"
  <2> DEFINE m == Files[f].manifest
  <2>1. m \in Manifests /\ IsManifest(m)
    <3>1. m \in Manifests
      BY <1>0, <1>1 DEF Manifests, EnvFiles
    <3>. QED
      BY <3>1, DocumentsAssumption
  <2>2. BundleKnown(m) /\ LoadLinux(f) = expandBundleOnLinux(m)
    BY <1>1 DEF LoadsLinux, LoadLinux, Decoded
  <2>3. m \in MeantManifests(f)
    BY <1>0, <1>1 DEF MeantManifests, Exists
  <2>4. Placeholders(m) = {}
    BY <1>1
  <2> HIDE DEF m
  <2> DEFINE e == expandBundleOnLinux(m)
  <2>5. IsManifest(e) /\ e.list = m.list
    BY <2>1, <2>2, Expanded
  <2>6. Placeholders(e) = {}
    BY <2>4, <2>5 DEF Placeholders, Keys
  <2> HIDE DEF e
  <2>7. resolveLinuxSecrets(e) = e
    BY <2>5, <2>6, PlainStays
  <2>8. LoadLinux(f) = Done(m)
    BY <2>2, <2>7 DEF Done, e
  <2>. QED
    BY <2>1, <2>2, <2>3, <2>8 DEF HandOf
<1>2. CASE Files[f].kind # "Linux"
  <2>1. LoadLinux(f) = expandBundleOnLinux(Empty("Env"))
    BY <1>2 DEF LoadLinux, Decoded
  <2>2. LoadLinux(f) = Empty("Env")
    BY <2>1 DEF Empty, expandBundleOnLinux
  <2>. QED
    BY <2>2 DEF HandOf
<1>. QED
  BY <1>1, <1>2

\* A manifest of the wrong kind is not valid.
LEMMA EmptyIsInvalid == ~Valid(resolveLinuxSecrets(Empty("Env")))
<1> DEFINE m == Empty("Env")
<1>1. m.kind = "Env" /\ m = [kind |-> m.kind, bundle |-> m.bundle, preset |-> m.preset, list |-> m.list]
  BY DEF Empty
<1> HIDE DEF m
<1>2. ASSUME NEW w PROVE WithKeys(m, w).kind = "Env"
  <2> DEFINE users == m.list["users_groups"].users
             new == [u \in DOMAIN users |-> [users[u] EXCEPT !.keys = {w[k] : k \in users[u].keys}]]
  <2>1. WithKeys(m, w) = [m EXCEPT !.list["users_groups"].users = new]
    BY Zenon DEF WithKeys
  <2> HIDE DEF new
  <2>. QED
    BY <1>1, <2>1
<1>3. resolveLinuxSecrets(m).kind = "Env"
  BY <1>2 DEF resolveLinuxSecrets
<1>. QED
  BY <1>3 DEF Valid, m

\* A stack that is loaded from its env.yaml files gives what it means.
LEMMA EnvInHand ==
  ASSUME OpenTo(args.file, stack, 0), Fits(args.file, env, 0), Resolvable, ~Departs
  PROVE  HandOf(args.file, resolveLinuxSecrets(Target))
<1> DEFINE f == args.file
<1>1. Top = f /\ Chain(f)[0] = f
  <2>1. 0 < MaxDepth /\ 0 \in Nat
    BY CommandAssumption
  <2>2. Last(stack) = Chain(f)[0]
    BY <2>1, OpenToTop
  <2>. QED
    BY <2>2, ChainSteps DEF Top
<1>2. Declares(env) /\ Reachable /\ Valid(resolveLinuxSecrets(Target))
  BY DEF Resolvable, Reachable, Declares
<1>3. IsEnv(f)
  BY <1>1, <1>2 DEF Fits
<1>4. PICK k \in 0 .. MaxDepth :
        LET d == Files[Chain(f)[k]]
        IN  /\ Nearest(f, 0, k) /\ env.ref = d.ref
            /\ env.inline = d.inline \/ (d.inline # Unset /\ env.inline = Done(d.inline))
  BY <1>2, Zenon DEF Fits
<1> DEFINE q == Chain(f)[k]
           d == Files[q]
<1>5. k \in Declarers(f) /\ Min(Declarers(f)) = k
  <2>1. k \in Declarers(f) /\ \A j \in Declarers(f) : j \in Nat /\ k <= j
    BY <1>4, CommandAssumption DEF Nearest, Declarers
  <2> DEFINE D == Declarers(f)
  <2> HIDE DEF D
  <2>2. k \in D /\ \A j \in D : j \in Nat /\ k <= j
    BY <2>1 DEF D
  <2>3. \A x \in D : (\A y \in D : x <= y) => x = k
    BY <2>2
  <2>4. Min(D) = k
    BY <2>2, <2>3 DEF Min
  <2>. QED
    BY <2>1, <2>4 DEF D
<1>6. IsEnv(q)
  BY <1>5 DEF Declarers
<1>7. MeantManifests(f) = DeclaredBy(q)
  <2>1. Files[f].kind # "Linux"
    BY <1>3 DEF IsEnv
  <2>. QED
    BY <1>5, <2>1 DEF MeantManifests
<1>8. ~(d.ref # Unset /\ d.ref.dir = Here /\ q.dir # f.dir)
  BY <1>5 DEF Departs
<1>9. env.ref = d.ref /\ (env.inline = d.inline \/ (d.inline # Unset /\ env.inline = Done(d.inline)))
  BY <1>4
<1>10. CASE env.ref # Unset
  <2> DEFINE r == Join(q.dir, d.ref)
  <2>1. d.inline = Unset
    <3>1. q \in EnvFiles
      BY <1>6 DEF IsEnv, Exists, EnvFiles
    <3>. QED
      BY <1>9, <1>10, <3>1, DocumentsAssumption
  <2>2. RefPath = r
    <3>1. Join(f.dir, d.ref) = Join(q.dir, d.ref)
      BY <1>8, <1>9, <1>10 DEF Join
    <3>. QED
      BY <1>1, <1>9, <3>1 DEF RefPath
  <2> HIDE DEF r
  <2>3. LoadsLinux(r) /\ Target = LoadLinux(r)
    BY <1>2, <1>10, <2>2 DEF Reachable, Target
  <2>4. CASE Files[r].kind = "Linux"
    <3>1. r \in DOMAIN Files
      BY <2>3 DEF LoadsLinux, Exists
    <3>2. Files[r].manifest \in Manifests
      BY <2>4, <3>1 DEF Manifests, EnvFiles
    <3>3. Files[r].manifest \in DeclaredBy(q)
      BY <2>1, <2>4, <3>1 DEF DeclaredBy, Exists, r
    <3>4. BundleKnown(Files[r].manifest) /\ Target = expandBundleOnLinux(Files[r].manifest)
      BY <2>3, <2>4 DEF LoadsLinux, LoadLinux, Decoded
    <3>. QED
      BY <1>7, <3>2, <3>3, <3>4 DEF HandOf, Done
  <2>5. CASE Files[r].kind # "Linux"
    <3>1. Target = expandBundleOnLinux(Empty("Env"))
      BY <2>3, <2>5 DEF LoadLinux, Decoded
    <3>2. Target = Empty("Env")
      BY <3>1 DEF Empty, expandBundleOnLinux
    <3>. QED
      BY <1>2, <3>2, EmptyIsInvalid
  <2>. QED
    BY <2>4, <2>5
<1>11. CASE env.ref = Unset
  <2>1. env.inline # Unset /\ BundleKnown(env.inline) /\ resolveLinuxSecrets(Target) = Done(env.inline)
    BY <1>2, <1>11 DEF Reachable, Target, Done
  <2>2. d.inline # Unset
    BY <1>9, <2>1
  <2>3. d.inline \in Manifests /\ IsManifest(d.inline)
    BY <1>6, <2>2, DeclaredShape
  <2>4. d.inline \in MeantManifests(f)
    BY <1>7, <2>2 DEF DeclaredBy
  <2> HIDE DEF d
  <2>5. BundleKnown(d.inline)
    BY <1>9, <2>1, <2>3, DoneBundle
  <2>6. Done(env.inline) = Done(d.inline)
    BY <1>9, <2>3, <2>5, DoneShape
  <2>. QED
    BY <2>1, <2>3, <2>4, <2>5, <2>6 DEF HandOf
<1>. QED
  BY <1>10, <1>11

\* The command line stays, and with it what departs from the documents.
LEMMA ArgsStay == [Next]_vars => UNCHANGED <<args, born>> /\ Departs' = Departs
<1>1. [Next]_vars => UNCHANGED <<args, born>>
  BY DEF Next, Step, ReadEnv, Overflow, ResolveEnv, LoadEnvFails, FallBack, FallBackFails, Render, Check,
     Open, DialFails, GivesUp, PlanErrs, PlanNext, Tell, BeginApply, ApplyNext, ApplyFails, ApplyReturns,
     LoseSession, LoadRest, SessionRest, CommandRest, ApplyRest, vars
<1>. QED
  BY <1>1 DEF Departs

\* Once the stack is loaded, no step but Render changes the manifest in hand.
LEMMA HandStays ==
  ASSUME [Next]_vars, pc \notin {"read", "resolve", "fallback"}, args.cmd # "render"
  PROVE  linux' = linux /\ pc' \notin {"read", "resolve", "fallback"}
<1>1. ~(ReadEnv \/ Overflow \/ ResolveEnv \/ LoadEnvFails \/ FallBack \/ FallBackFails \/ Render)
  BY DEF ReadEnv, Overflow, ResolveEnv, LoadEnvFails, FallBack, FallBackFails, Render
<1>2. ASSUME UNCHANGED <<pc, loading>> PROVE linux' = linux /\ pc' \notin {"read", "resolve", "fallback"}
  BY <1>2 DEF loading
<1>3. ASSUME pc' \in {"plan", "apply", "done"}, UNCHANGED loading
      PROVE linux' = linux /\ pc' \notin {"read", "resolve", "fallback"}
  BY <1>3 DEF loading
<1>4. Start => pc' \in {"plan", "done"}
  BY DEF Start, Ends
<1>5. CASE Check
  BY <1>5, <1>3 DEF Check, Ends
<1>6. CASE Open
  BY <1>6, <1>3, <1>4 DEF Open, SessionRest
<1>7. CASE DialFails
  BY <1>7, <1>2 DEF DialFails, SessionRest
<1>8. CASE GivesUp
  BY <1>8, <1>3, <1>4 DEF GivesUp, SessionRest
<1>9. CASE PlanErrs
  BY <1>9, <1>3 DEF PlanErrs, Ends, CommandRest
<1>10. CASE PlanNext
  BY <1>10, <1>2 DEF PlanNext, CommandRest
<1>11. CASE Tell
  BY <1>11, <1>3 DEF Tell, Ends, CommandRest
<1>12. CASE BeginApply
  BY <1>12, <1>3 DEF BeginApply, Ends, CommandRest
<1>13. CASE ApplyNext
  BY <1>13, <1>2 DEF ApplyNext, ApplyRest, CommandRest
<1>14. CASE ApplyFails
  BY <1>14, <1>2 DEF ApplyFails, ApplyRest, CommandRest
<1>15. CASE ApplyReturns
  BY <1>15, <1>3 DEF ApplyReturns, Ends, CommandRest
<1>16. CASE LoseSession
  BY <1>16, <1>2 DEF LoseSession
<1>17. CASE UNCHANGED vars
  BY <1>17, <1>2 DEF vars
<1>. QED
  BY <1>1, <1>5, <1>6, <1>7, <1>8, <1>9, <1>10, <1>11, <1>12, <1>13, <1>14, <1>15, <1>16, <1>17 DEF Next, Step

\* At first the file of the command line is open.
LEMMA OpenedInit == Init => Opened
<1> SUFFICES ASSUME Init, pc \in {"read", "resolve"} PROVE Opened
  BY DEF Opened
<1> DEFINE f == args.file
<1>1. pc = "read" /\ stack = <<f>> /\ 0 < MaxDepth /\ MaxDepth \in Nat
  BY CommandAssumption DEF Init
<1>2. Chain(f)[0] = f
  BY ChainSteps
<1>3. f \in {Chain(f)[i] : i \in 0 .. MaxDepth}
  BY <1>1, <1>2
<1>4. OpenTo(f, <<f>>, 0)
  <2> DEFINE S == {Chain(f)[i] : i \in 0 .. MaxDepth}
  <2> HIDE DEF S
  <2>1. <<f>> \in Seq(S) /\ Len(<<f>>) = 1 /\ <<f>>[1] = f
    BY <1>3 DEF S
  <2>. QED
    BY <1>2, <2>1 DEF OpenTo, S
<1>. QED
  BY <1>1, <1>4, Zenon DEF Opened

\* ReadEnv opens the base, or begins to resolve; ResolveEnv returns to the heir.
LEMMA OpenedNext == Opened /\ [Next]_vars => Opened'
<1> SUFFICES ASSUME Opened, [Next]_vars, pc' \in {"read", "resolve"} PROVE Opened'
  BY DEF Opened
<1> DEFINE f == args.file
<1>0. args' = args /\ MaxDepth \in Nat /\ f' = f
  BY ArgsStay, CommandAssumption
<1>1. ASSUME UNCHANGED <<pc, stack, env>> PROVE Opened'
  BY <1>0, <1>1 DEF Opened
<1>2. CASE ReadEnv
  <2>1. pc = "read"
    BY <1>2 DEF ReadEnv
  <2>2. PICK n \in Nat : n < MaxDepth /\ OpenTo(f, stack, n)
    BY <2>1 DEF Opened
  <2>3. /\ Top = Chain(f)[n]
        /\ n + 1 < MaxDepth /\ IsEnv(Chain(f)[n]) => OpenTo(f, Append(stack, Base(Chain(f)[n])), n + 1)
    BY <2>2, OpenToTop DEF Top
  <2>4. Exists(Top) /\ n \in 0 .. MaxDepth
    BY <1>0, <1>2, <2>2 DEF ReadEnv
  <2> DEFINE e == readEnv(Top)
  <2>5. IsEnvelope(e) /\ (IsEnv(Top) => e = Files[Top]) /\ (~IsEnv(Top) => e.extends = Unset)
    BY <2>4, ReadEnvShape
  <2>6. CASE e.extends = Unset
    <3>1. pc' = "resolve" /\ env' = e /\ stack' = stack
      BY <1>2, <2>6 DEF ReadEnv
    <3>2. Fits(f, e, n)
      BY <2>3, <2>4, FitsRead
    <3>. QED
      BY <1>0, <2>2, <2>5, <3>1, <3>2, Zenon DEF Opened
  <2>7. CASE e.extends # Unset
    <3>1. IsEnv(Top) /\ e = Files[Top]
      BY <2>5, <2>7
    <3>2. /\ Len(stack) < MaxDepth /\ stack' = Append(stack, Join(Top.dir, e.extends)) /\ pc' = "read"
      BY <1>2, <2>7 DEF ReadEnv
    <3>3. Base(Chain(f)[n]) = Join(Top.dir, e.extends)
      BY <2>3, <2>7, <3>1 DEF Base
    <3>4. n + 1 < MaxDepth /\ n + 1 \in Nat
      BY <2>2, <3>2 DEF OpenTo
    <3>5. OpenTo(f, stack', n + 1)
      BY <2>3, <3>1, <3>2, <3>3, <3>4
    <3>6. pc' # "resolve"
      BY <3>2
    <3>. QED
      BY <1>0, <3>4, <3>5, <3>6, Zenon DEF Opened
  <2>. QED
    BY <2>6, <2>7
<1>3. CASE ResolveEnv
  <2>1. pc = "resolve" /\ Resolvable
    BY <1>3 DEF ResolveEnv
  <2>2. PICK n \in Nat : n < MaxDepth /\ OpenTo(f, stack, n) /\ IsEnvelope(env) /\ Fits(f, env, n)
    BY <2>1 DEF Opened
  <2>3. Len(stack) # 1 /\ stack' = Front(stack) /\ env' = mergeEnv(Inherited, readEnv(Last(Front(stack)))) /\ pc' = pc
    BY <1>3, <2>1 DEF ResolveEnv, Loaded
  <2>4. n # 0
    BY <2>2, <2>3 DEF OpenTo
  <2>5. OpenTo(f, Front(stack), n - 1) /\ Last(Front(stack)) = Chain(f)[n - 1] /\ IsEnv(Chain(f)[n - 1])
    BY <2>2, <2>4, OpenToTop
  <2>6. Fits(f, Inherited, n)
    BY <2>1, <2>2, InheritedFits DEF Resolvable
  <2>7. n - 1 \in Nat /\ n - 1 < MaxDepth /\ n - 1 \in 0 .. MaxDepth /\ (n - 1) + 1 \in 0 .. MaxDepth /\ (n - 1) + 1 = n
    BY <1>0, <2>2, <2>4
  <2> DEFINE o == mergeEnv(Inherited, readEnv(Chain(f)[n - 1]))
  <2>8. IsEnvelope(o) /\ Fits(f, o, n - 1)
    <3> DEFINE i == Inherited
               k == n - 1
    <3>1. Fits(f, i, k + 1) /\ k \in 0 .. MaxDepth /\ k + 1 \in 0 .. MaxDepth /\ IsEnv(Chain(f)[k])
      BY <2>5, <2>6, <2>7
    <3> HIDE DEF i, k
    <3>2. LET p == mergeEnv(i, readEnv(Chain(f)[k])) IN IsEnvelope(p) /\ Fits(f, p, k)
      BY <3>1, FitsMerge
    <3>. QED
      BY <3>2 DEF i, k
  <2>9. env' = o
    BY <2>3, <2>5
  <2> HIDE DEF o
  <2>. QED
    BY <1>0, <2>3, <2>5, <2>7, <2>8, <2>9, Zenon DEF Opened
<1>4. CASE Overflow \/ LoadEnvFails \/ FallBack \/ FallBackFails \/ Render
  BY <1>4 DEF Overflow, LoadEnvFails, FallBack, FallBackFails, Render, Ends, Loaded
<1>5. CASE /\ pc \in {"read", "resolve", "fallback"}
           /\ ~(ReadEnv \/ ResolveEnv \/ Overflow \/ LoadEnvFails \/ FallBack \/ FallBackFails \/ Render)
  <2>1. UNCHANGED vars
    BY <1>5 DEF Next, Step, Check, Open, DialFails, GivesUp, PlanErrs, PlanNext, Tell, BeginApply,
       ApplyNext, ApplyFails, ApplyReturns, LoseSession
  <2>. QED
    BY <1>1, <2>1 DEF vars, loading
<1>6. CASE pc \notin {"read", "resolve", "fallback"} /\ args.cmd # "render"
  BY <1>6, HandStays
<1>7. CASE pc \notin {"read", "resolve", "fallback"} /\ args.cmd = "render" /\ ~Render
  <2>1. [Next]_vars => UNCHANGED vars \/ PlanErrs \/ PlanNext \/ Tell \/ BeginApply
    \/ ApplyNext \/ ApplyFails \/ ApplyReturns \/ LoseSession
    BY <1>7 DEF Next, Step, ReadEnv, Overflow, ResolveEnv, LoadEnvFails, FallBack, FallBackFails, Check, Open,
       DialFails, GivesUp, OnHost
  <2>2. UNCHANGED <<stack, env>>
    BY <2>1 DEF vars, loading, PlanErrs, PlanNext, Tell, BeginApply, ApplyNext, ApplyFails, ApplyReturns,
       LoseSession, CommandRest, ApplyRest
  <2>3. pc' = pc \/ pc' \notin {"read", "resolve"}
    BY <2>1 DEF vars, PlanErrs, PlanNext, Tell, BeginApply, ApplyNext, ApplyFails, ApplyReturns,
       LoseSession, CommandRest, ApplyRest, Ends
  <2>. QED
    BY <1>1, <2>2, <2>3
<1>. QED
  BY <1>2, <1>3, <1>4, <1>5, <1>6, <1>7

----------------------------------------------------------------------------
(* What a command has in hand. *)

\* Until it has planned, a command has changed nothing and reports nothing.
Untouched ==
  /\ DOMAIN host = Categories /\ DOMAIN plan = Categories
  /\ pc \in {"read", "resolve", "fallback", "dial", "plan", "apply", "done"}
  /\ pc \notin {"plan", "apply", "done"} => host = born /\ report = "none" /\ \A c \in Categories : plan[c] = {}
  /\ pc = "plan" => host = born /\ report = "none"
  /\ LinuxOnly =>
       /\ pc \in {"fallback", "dial", "done"} /\ report = "none"
       /\ host = born /\ \A c \in Categories : plan[c] = {}

\* At first no command has.
LEMMA UntouchedInit == Init => Untouched
  BY DocumentsAssumption DEF Init, Untouched

\* Only ApplyNext and ApplyFails change the host, only Tell and BeginApply report.
LEMMA UntouchedNext == Untouched /\ [Next]_vars => Untouched'
<1> SUFFICES ASSUME Untouched, [Next]_vars PROVE Untouched'
  OBVIOUS
<1>0. UNCHANGED <<args, born>> /\ LinuxOnly' = LinuxOnly
  BY ArgsStay DEF LinuxOnly
<1>1. ASSUME UNCHANGED <<pc, host, report, plan>> PROVE Untouched'
  BY <1>0, <1>1 DEF Untouched
<1>2. ASSUME pc \notin {"plan", "apply", "done"}, UNCHANGED <<host, report, plan>>,
             pc' \in {"read", "resolve", "fallback", "dial", "plan", "apply", "done"},
             LinuxOnly => pc' \in {"fallback", "dial", "done"}
      PROVE  Untouched'
  BY <1>0, <1>2 DEF Untouched
<1>3. CASE ReadEnv \/ ResolveEnv
  <2>1. pc' \in {"read", "resolve", "dial"} /\ pc \in {"read", "resolve"} /\ UNCHANGED <<host, report, plan>>
    BY <1>3 DEF ReadEnv, ResolveEnv, Loaded, LoadRest, working
  <2>2. ~LinuxOnly
    BY <2>1 DEF Untouched
  <2>. QED
    BY <1>2, <2>1, <2>2
<1>4. CASE Overflow \/ LoadEnvFails \/ FallBack \/ FallBackFails \/ Render \/ Check
  <2>1. pc' \in {"fallback", "dial", "done"} /\ pc \in {"read", "resolve", "fallback", "dial"}
        /\ UNCHANGED <<host, report, plan>>
    BY <1>4 DEF Overflow, LoadEnvFails, FallBack, FallBackFails, Render, Check, Ends, Loaded, LoadRest, working
  <2>. QED
    BY <1>2, <2>1
<1>5. CASE Open \/ GivesUp
  <2>1. Start => pc' \in {"plan", "done"}
    BY DEF Start, Ends
  <2>2. pc' \in {"plan", "done"} /\ pc = "dial" /\ ~LinuxOnly /\ UNCHANGED <<host, report, plan>>
    BY <1>5, <2>1 DEF Open, GivesUp, OnHost, LinuxOnly, SessionRest
  <2>. QED
    BY <1>2, <2>2
<1>6. CASE DialFails
  BY <1>6, <1>1 DEF DialFails, SessionRest
<1>7. CASE LoseSession
  BY <1>7, <1>1 DEF LoseSession, working
<1>8. CASE UNCHANGED vars
  BY <1>8, <1>1 DEF vars, working
<1>9. CASE PlanErrs \/ PlanNext \/ Tell \/ BeginApply
  <2>1. pc = "plan" /\ host' = host /\ pc' \in {"plan", "apply", "done"}
    BY <1>9 DEF PlanErrs, PlanNext, Tell, BeginApply, Ends
  <2>2. DOMAIN plan' = DOMAIN plan
    BY <1>9 DEF PlanErrs, PlanNext, Tell, BeginApply, working
  <2>3. pc' = "plan" => report' = report
    BY <1>9 DEF PlanErrs, PlanNext, Tell, BeginApply, Ends
  <2>. QED
    BY <1>0, <2>1, <2>2, <2>3 DEF Untouched
<1>10. CASE ApplyNext \/ ApplyFails \/ ApplyReturns
  <2>1. pc = "apply" /\ pc' \in {"apply", "done"} /\ plan' = plan
    BY <1>10 DEF ApplyNext, ApplyFails, ApplyReturns, ApplyRest, Ends, working
  <2>2. DOMAIN host' = DOMAIN host
    BY <1>10 DEF ApplyNext, ApplyFails, ApplyReturns
  <2>. QED
    BY <1>0, <2>1, <2>2 DEF Untouched
<1>. QED
  BY <1>3, <1>4, <1>5, <1>6, <1>7, <1>8, <1>9, <1>10 DEF Next, Step

\* Where the manifest in hand counts: on the way to the host, and after it if the
\* command succeeded or changed something.
Counts == pc \in {"dial", "plan", "apply"} \/ (pc = "done" /\ (exit = "ok" \/ host # born))

\* There it is what the stack means.
InHand == Counts => args.cmd = "render" \/ Departs \/ HandOf(args.file, linux)

\* At first there is none.
LEMMA InHandInit == Init => InHand
  BY DEF Init, InHand, Counts

\* ResolveEnv and FallBack put it there.
LEMMA InHandNext == Opened /\ Untouched /\ InHand /\ [Next]_vars => InHand'
<1> SUFFICES ASSUME Opened, Untouched, InHand, [Next]_vars PROVE InHand'
  OBVIOUS
<1>0. UNCHANGED args /\ Departs' = Departs
  BY ArgsStay
<1> SUFFICES ASSUME Counts', args.cmd # "render", ~Departs PROVE HandOf(args.file, linux')
  BY <1>0 DEF InHand
<1>1. CASE pc \notin {"read", "resolve", "fallback"}
  <2>1. linux' = linux
    BY <1>1, HandStays
  <2>2. Counts
    <3>1. CASE pc \in {"dial", "plan", "apply"}
      BY <3>1 DEF Counts
    <3>2. CASE pc = "done"
      <4>1. UNCHANGED vars
        BY <3>2 DEF Next, Step, ReadEnv, Overflow, ResolveEnv, LoadEnvFails, FallBack, FallBackFails, Render, Check,
           Open, DialFails, GivesUp, PlanErrs, PlanNext, Tell, BeginApply, ApplyNext, ApplyFails, ApplyReturns, LoseSession
      <4>2. UNCHANGED <<pc, exit, host, born>>
        BY <4>1 DEF vars
      <4>. QED
        BY <4>2 DEF Counts
    <3>. QED
      BY <1>1, <3>1, <3>2 DEF Untouched
  <2>. QED
    BY <2>1, <2>2 DEF InHand
<1>2. CASE pc \in {"read", "resolve", "fallback"}
  <2>1. pc' \in {"read", "resolve", "fallback"} => FALSE
    BY DEF Counts
  <2>2. ASSUME pc' = "done", exit' # "ok", UNCHANGED <<host, born>> PROVE FALSE
    BY <1>2, <2>2 DEF Counts, Untouched
  <2>3. ~(ReadEnv \/ LoadEnvFails \/ UNCHANGED vars)
    BY <1>2, <2>1 DEF ReadEnv, LoadEnvFails, vars
  <2>4. ~(Overflow \/ FallBackFails)
    BY <2>2 DEF Overflow, FallBackFails, Ends, LoadRest
  <2>5. CASE FallBack
    <3>1. LoadsLinux(args.file) /\ linux' = LoadLinux(args.file)
      BY <2>5 DEF FallBack, Loaded
    <3>2. Files[args.file].kind = "Linux" => Placeholders(Files[args.file].manifest) = {}
      BY <3>1 DEF Departs, LoadsLinux
    <3>. QED
      BY <3>1, <3>2, FileInHand
  <2>6. CASE ResolveEnv
    <3>1. pc = "resolve" /\ Resolvable /\ pc' \notin {"read", "resolve"}
      BY <2>1, <2>6 DEF ResolveEnv
    <3>2. Len(stack) = 1 /\ linux' = resolveLinuxSecrets(Target)
      BY <2>6, <3>1 DEF ResolveEnv, Loaded
    <3>3. PICK n \in Nat : OpenTo(args.file, stack, n) /\ Fits(args.file, env, n)
      BY <3>1 DEF Opened
    <3>4. n = 0
      <4>1. Len(stack) = n + 1
        BY <3>3, Zenon DEF OpenTo
      <4>. QED
        BY <3>2, <4>1
    <3>. QED
      BY <3>1, <3>2, <3>3, <3>4, EnvInHand
  <2>7. ~(Render \/ Check \/ Open \/ DialFails \/ GivesUp \/ PlanErrs \/ PlanNext \/ Tell \/ BeginApply
          \/ ApplyNext \/ ApplyFails \/ ApplyReturns \/ LoseSession)
    BY <1>2 DEF Render, Check, Open, DialFails, GivesUp, PlanErrs, PlanNext, Tell, BeginApply,
       ApplyNext, ApplyFails, ApplyReturns, LoseSession
  <2>. QED
    BY <2>3, <2>4, <2>5, <2>6, <2>7 DEF Next, Step
<1>. QED
  BY <1>1, <1>2

----------------------------------------------------------------------------
(* Planning and applying. *)

\* What is still to be planned or applied are categories.
Queued ==
  /\ args \in Invocations
  /\ pc \in {"plan", "apply"} => todo \in Seq(Categories)

\* The categories of a command that goes to the host.
LEMMA CategoriesOfType ==
  ASSUME args \in Invocations, ~LinuxOnly
  PROVE  CategoriesOf \in Seq(Categories)
<1>1. args.cmd \in {"apply", "diff", "package", "user", "dir"}
  BY CommandAssumption DEF LinuxOnly
<1>2. \/ CategoriesOf = <<"packages", "users_groups", "directories", "sysctl", "limits">>
      \/ CategoriesOf = <<"packages">> \/ CategoriesOf = <<"users_groups">> \/ CategoriesOf = <<"directories">>
  BY <1>1 DEF CategoriesOf
<1>3. /\ "packages" \in Categories /\ "users_groups" \in Categories /\ "directories" \in Categories
      /\ "sysctl" \in Categories /\ "limits" \in Categories
  BY DEF Categories
<1>4. \A a, b, c, d, e \in Categories : <<a, b, c, d, e>> \in Seq(Categories) /\ <<a>> \in Seq(Categories)
  OBVIOUS
<1>5. <<"packages", "users_groups", "directories", "sysctl", "limits">> \in Seq(Categories)
  BY <1>3, <1>4, Zenon
<1>6. /\ <<"packages">> \in Seq(Categories) /\ <<"users_groups">> \in Seq(Categories)
      /\ <<"directories">> \in Seq(Categories)
  BY <1>3, <1>4, Zenon
<1>. QED
  BY <1>2, <1>5, <1>6, Zenon

\* At first nothing is to be planned yet.
LEMMA QueuedInit == Init => Queued
  BY DEF Init, Queued, LinuxOnly

\* Start and BeginApply line all of them up, and one after the other is done.
LEMMA QueuedNext == Untouched /\ Queued /\ [Next]_vars => Queued'
<1> SUFFICES ASSUME Untouched, Queued, [Next]_vars, pc' \in {"plan", "apply"} PROVE todo' \in Seq(Categories)
  BY ArgsStay DEF Queued
<1>1. CASE pc \notin {"plan", "apply"}
  <2>1. Open \/ GivesUp
    BY <1>1 DEF Next, Step, ReadEnv, Overflow, ResolveEnv, LoadEnvFails, FallBack, FallBackFails, Render, Check,
       DialFails, PlanErrs, PlanNext, Tell, BeginApply, ApplyNext, ApplyFails, ApplyReturns, LoseSession, Loaded, Ends, vars
  <2>2. Start /\ ~LinuxOnly
    BY <2>1 DEF Open, GivesUp, OnHost, LinuxOnly
  <2>3. todo' = CategoriesOf
    BY <2>2 DEF Start, Ends
  <2>. QED
    BY <2>2, <2>3, CategoriesOfType DEF Queued
<1>2. CASE pc \in {"plan", "apply"}
  <2>1. todo \in Seq(Categories) /\ ~LinuxOnly
    BY <1>2 DEF Queued, Untouched
  <2>2. todo' = todo \/ (todo # <<>> /\ todo' = Tail(todo)) \/ todo' = CategoriesOf
    BY <1>2 DEF Next, Step, ReadEnv, Overflow, ResolveEnv, LoadEnvFails, FallBack, FallBackFails, Render, Check,
       Open, DialFails, GivesUp, PlanErrs, PlanNext, Tell, BeginApply, ApplyNext, ApplyFails, ApplyReturns, LoseSession,
       Ends, vars, working
  <2>. QED
    BY <2>1, <2>2, CategoriesOfType, HeadTailProperties DEF Queued
<1>. QED
  BY <1>1, <1>2

\* What a set of items asks for under a key is one of the items.
LEMMA ValueValues ==
  ASSUME NEW S, \A i \in S : i = <<i[1], i[2]>>
  PROVE  /\ DOMAIN ValueOf(S) = KeysOf(S)
         /\ \A k \in KeysOf(S) : <<k, ValueOf(S)[k]>> \in S
<1>1. DOMAIN ValueOf(S) = KeysOf(S)
  BY DEF ValueOf
<1>2. ASSUME NEW k \in KeysOf(S) PROVE <<k, ValueOf(S)[k]>> \in S
  <2>1. \E i \in S : i[1] = k
    BY <1>2 DEF KeysOf
  <2> DEFINE i == CHOOSE i \in S : i[1] = k
  <2>2. i \in S /\ i[1] = k
    BY <2>1, Zenon
  <2>3. ValueOf(S)[k] = i[2]
    BY <1>2 DEF ValueOf
  <2> HIDE DEF i
  <2>4. i = <<i[1], i[2]>>
    BY <2>2
  <2>. QED
    BY <2>2, <2>3, <2>4
<1>. QED
  BY <1>1, <1>2

\* What is wanted are items.
LEMMA DesiredArePairs ==
  ASSUME NEW c \in Categories, NEW i \in Desired(c)
  PROVE  i = <<i[1], i[2]>>
  BY ItemsArePairs DEF Desired

\* What is written over a category keeps the rest of it, but in an owned file.
LEMMA WrittenValues ==
  ASSUME NEW c, NEW new
  PROVE  /\ DOMAIN Written(c, new) = DOMAIN new \union (IF c \in OwnedFiles THEN {} ELSE DOMAIN host[c])
         /\ \A k \in DOMAIN new : Written(c, new)[k] = new[k]
         /\ c \notin OwnedFiles => \A k \in DOMAIN host[c] \ DOMAIN new : Written(c, new)[k] = host[c][k]
<1>1. CASE c \in OwnedFiles
  BY <1>1 DEF Written
<1>2. CASE c \notin OwnedFiles
  <2>1. Written(c, new) = Overlay(new, host[c])
    BY <1>2 DEF Written
  <2> DEFINE o == Overlay(new, host[c])
  <2>2. /\ DOMAIN o = DOMAIN new \union DOMAIN host[c]
        /\ \A k \in DOMAIN new : o[k] = new[k]
        /\ \A k \in DOMAIN host[c] \ DOMAIN new : o[k] = host[c][k]
    BY OverlayValues
  <2>3. Written(c, new) = o
    BY <2>1
  <2> HIDE DEF o
  <2>. QED
    BY <1>2, <2>2, <2>3
<1>. QED
  BY <1>1, <1>2

\* Category c becomes now when the changes of the keys in D are carried out, wholly or in part.
Moves(c, now, D) ==
  /\ D \subseteq KeysOf(plan[c])
  /\ DOMAIN now = D \union (IF c \in OwnedFiles THEN {} ELSE DOMAIN host[c])
  /\ \A k \in D : now[k] \in Left(c, k, ValueOf(plan[c])[k])
  /\ c \notin OwnedFiles => \A k \in DOMAIN host[c] \ D : now[k] = host[c][k]

\* Carrying out a plan makes every item of it.
LEMMA CarriedOutMoves ==
  ASSUME NEW c, \A i \in plan[c] : i = <<i[1], i[2]>>
  PROVE  /\ Moves(c, CarriedOut(c), KeysOf(plan[c]))
         /\ \A k \in KeysOf(plan[c]) : CarriedOut(c)[k] = Made(c, k, ValueOf(plan[c])[k])
<1> DEFINE want == ValueOf(plan[c])
           new == [k \in DOMAIN want |-> Made(c, k, want[k])]
<1>1. DOMAIN want = KeysOf(plan[c])
  BY ValueValues
<1>2. CarriedOut(c) = Written(c, new)
  BY DEF CarriedOut
<1>3. DOMAIN new = DOMAIN want /\ \A k \in DOMAIN want : new[k] = Made(c, k, want[k])
  OBVIOUS
<1> HIDE DEF new, want
<1>4. \A k : Made(c, k, want[k]) \in Left(c, k, want[k])
  BY DEF Left
<1>5. /\ DOMAIN Written(c, new) = DOMAIN new \union (IF c \in OwnedFiles THEN {} ELSE DOMAIN host[c])
      /\ \A k \in DOMAIN new : Written(c, new)[k] = new[k]
      /\ c \notin OwnedFiles => \A k \in DOMAIN host[c] \ DOMAIN new : Written(c, new)[k] = host[c][k]
  BY WrittenValues
<1>. QED
  BY <1>1, <1>2, <1>3, <1>4, <1>5 DEF Moves, want

\* When commands fail some of it may be made, and some half-made.
LEMMA LeftOverMoves ==
  ASSUME NEW c, NEW now \in LeftOver(c), \A i \in plan[c] : i = <<i[1], i[2]>>
  PROVE  now = host[c] \/ \E D : Moves(c, now, D)
<1> DEFINE want == ValueOf(plan[c])
           left == [k \in DOMAIN want |-> Left(c, k, want[k])]
           over(D) == {g \in [D -> UNION Range(left)] : \A k \in D : g[k] \in left[k]}
           parts == UNION {over(D) : D \in SUBSET DOMAIN want}
<1>1. DOMAIN want = KeysOf(plan[c])
  BY ValueValues
<1>2. LeftOver(c) = {host[c]} \union {Written(c, g) : g \in parts}
  BY Zenon DEF LeftOver
<1>3. \A k \in DOMAIN want : left[k] = Left(c, k, want[k])
  OBVIOUS
<1>4. ASSUME NEW g \in parts PROVE \E D \in SUBSET DOMAIN want : g \in over(D)
  BY <1>4
<1> HIDE DEF parts
<1>5. ASSUME NEW g \in parts, now = Written(c, g) PROVE \E D : Moves(c, now, D)
  <2>1. PICK D \in SUBSET DOMAIN want : g \in over(D)
    BY <1>4
  <2> HIDE DEF left
  <2>2. DOMAIN g = D /\ \A k \in D : g[k] \in left[k]
    BY <2>1
  <2>3. \A k \in D : g[k] \in Left(c, k, want[k])
    BY <1>3, <2>2
  <2> HIDE DEF want
  <2>4. /\ DOMAIN Written(c, g) = DOMAIN g \union (IF c \in OwnedFiles THEN {} ELSE DOMAIN host[c])
        /\ \A k \in DOMAIN g : Written(c, g)[k] = g[k]
        /\ c \notin OwnedFiles => \A k \in DOMAIN host[c] \ DOMAIN g : Written(c, g)[k] = host[c][k]
    BY WrittenValues
  <2>5. Moves(c, now, D)
    BY <1>1, <1>5, <2>1, <2>2, <2>3, <2>4 DEF Moves, want
  <2>. QED
    BY <2>5
<1>. QED
  BY <1>2, <1>5

\* What is wanted under key k.
Wanted(c, k) == {i[2] : i \in {j \in Desired(c) : j[1] = k}}

\* Every field of account u is as found, as wanted, or half-made with a failure.
ByField(u, k, fl) ==
  \A f \in Fields : \E d \in Wanted("users_groups", k) :
    \/ u[f] = Found(born, k, d)[f]
    \/ u[f] = d[f] /\ d[f] # Nothing(f)
    \/ fl /\ f \in {"keys", "sudo"} /\ u[f] = Half

\* Item k of category c, which is now, is as it was found or as it is wanted.
Follows(c, k, now, fl) ==
  \/ (k \in DOMAIN now <=> k \in DOMAIN born[c]) /\ (k \in DOMAIN now => now[k] = born[c][k])
  \/ Account(c, k) /\ k \in DOMAIN now /\ ByField(now[k], k, fl)
  \/ /\ ~Account(c, k) /\ k \in DOMAIN now
     /\ now[k] \in Wanted(c, k) \/ (fl /\ Wanted(c, k) # {} /\ now[k] = Half)
  \/ c \in OwnedFiles /\ Desired(c) # {} /\ k \notin DOMAIN now /\ (Wanted(c, k) = {} \/ fl)

\* A field of a changed account is what it was or what is wanted.
LEMMA ChangedFields ==
  ASSUME NEW f, NEW d, NEW n \in 1 .. 4, NEW x \in Fields
  PROVE  \/ Changed(f, d, n)[x] = f[x]
         \/ Changed(f, d, n)[x] = d[x] /\ d[x] # Nothing(x)
<1>1. /\ Changed(f, d, n).uid = f.uid
      /\ Changed(f, d, n).groups = IF n >= 1 /\ d.groups # {} THEN d.groups ELSE f.groups
      /\ Changed(f, d, n).shell = IF n >= 2 /\ d.shell # Unset THEN d.shell ELSE f.shell
      /\ Changed(f, d, n).keys = IF n >= 3 /\ d.keys # {} THEN d.keys ELSE f.keys
      /\ Changed(f, d, n).sudo = IF n >= 4 /\ d.sudo # Unset THEN d.sudo ELSE f.sudo
  BY DEF Changed
<1>2. /\ Nothing("uid") = Unset /\ Nothing("shell") = Unset /\ Nothing("sudo") = Unset
      /\ Nothing("groups") = {} /\ Nothing("keys") = {}
  BY DEF Nothing
<1>. QED
  BY <1>1, <1>2 DEF Fields

\* And so it is when the commands stop on the way.
LEMMA HalfMadeFields ==
  ASSUME NEW k, NEW d, NEW v \in HalfMade(k, d), NEW x \in Fields
  PROVE  \/ v[x] = Found(host, k, d)[x]
         \/ v[x] = d[x] /\ d[x] # Nothing(x)
         \/ x \in {"keys", "sudo"} /\ v[x] = Half
<1> DEFINE f == Found(host, k, d)
<1>1. \/ \E n \in 1 .. 4 : v = Changed(f, d, n)
      \/ v = [Changed(f, d, 2) EXCEPT !.keys = Half]
      \/ v = [Changed(f, d, 3) EXCEPT !.sudo = Half]
  BY DEF HalfMade
<1> HIDE DEF f
<1>2. CASE \E n \in 1 .. 4 : v = Changed(f, d, n)
  BY <1>2, ChangedFields DEF f
<1>3. ASSUME NEW n \in {2, 3}, NEW y \in {"keys", "sudo"}, v = [Changed(f, d, n) EXCEPT ![y] = Half]
      PROVE  \/ v[x] = f[x]
             \/ v[x] = d[x] /\ d[x] # Nothing(x)
             \/ x \in {"keys", "sudo"} /\ v[x] = Half
  <2>1. DOMAIN Changed(f, d, n) = Fields /\ n \in 1 .. 4
    BY DEF Changed, Fields
  <2>2. \/ Changed(f, d, n)[x] = f[x]
        \/ Changed(f, d, n)[x] = d[x] /\ d[x] # Nothing(x)
    BY <2>1, ChangedFields
  <2>3. v[x] = Changed(f, d, n)[x] \/ (x = y /\ v[x] = Half)
    BY <1>3, <2>1
  <2>. QED
    BY <2>2, <2>3
<1>. QED
  BY <1>1, <1>2, <1>3 DEF f

\* So an account whose fields are right keeps them right.
LEMMA AccountFollows ==
  ASSUME NEW k, Account("users_groups", k), NEW d \in Wanted("users_groups", k),
         Follows("users_groups", k, host["users_groups"], failed), NEW fl, failed => fl,
         NEW v,
         \A x \in Fields : \/ v[x] = Found(host, k, d)[x]
                           \/ v[x] = d[x] /\ d[x] # Nothing(x)
                           \/ fl /\ x \in {"keys", "sudo"} /\ v[x] = Half
  PROVE  ByField(v, k, fl)
<1> SUFFICES ASSUME NEW x \in Fields
             PROVE  \E e \in Wanted("users_groups", k) :
                      \/ v[x] = Found(born, k, e)[x]
                      \/ v[x] = e[x] /\ e[x] # Nothing(x)
                      \/ fl /\ x \in {"keys", "sudo"} /\ v[x] = Half
  BY DEF ByField
<1> DEFINE h == host["users_groups"]
           b == born["users_groups"]
<1>1. CASE v[x] # Found(host, k, d)[x]
  BY <1>1
<1>2. CASE v[x] = Found(host, k, d)[x]
  <2>1. CASE (k \in DOMAIN h <=> k \in DOMAIN b) /\ (k \in DOMAIN h => h[k] = b[k])
    <3>1. Found(host, k, d) = Found(born, k, d)
      BY <2>1 DEF Found
    <3>. QED
      BY <1>2, <3>1
  <2>2. CASE k \in DOMAIN h /\ ByField(h[k], k, failed)
    <3>1. Found(host, k, d) = h[k]
      BY <2>2 DEF Found
    <3>. QED
      BY <1>2, <2>2, <3>1 DEF ByField
  <2>. QED
    BY <2>1, <2>2 DEF Follows, OwnedFiles
<1>. QED
  BY <1>1, <1>2

\* What is planned under a key is wanted under it.
LEMMA PlannedIsWanted ==
  ASSUME NEW c \in Categories, plan[c] \subseteq Desired(c), NEW k \in KeysOf(plan[c])
  PROVE  ValueOf(plan[c])[k] \in Wanted(c, k)
<1>1. \A i \in plan[c] : i = <<i[1], i[2]>>
  BY DesiredArePairs
<1> DEFINE d == ValueOf(plan[c])[k]
           i == <<k, d>>
<1>2. i \in Desired(c)
  BY <1>1, ValueValues
<1>3. i[1] = k /\ i[2] = d
  OBVIOUS
<1> HIDE DEF d, i
<1>4. d \in Wanted(c, k)
  BY <1>2, <1>3 DEF Wanted
<1>. QED
  BY <1>4 DEF d

\* No change takes an item anywhere else.
LEMMA MovesFollow ==
  ASSUME NEW c \in Categories, plan[c] \subseteq Desired(c), plan[c] # {},
         c \in OwnedFiles => plan[c] = Desired(c),
         NEW now, NEW D, Moves(c, now, D), NEW fl, failed => fl,
         fl \/ (D = KeysOf(plan[c]) /\ \A k \in D : now[k] = Made(c, k, ValueOf(plan[c])[k])),
         NEW k, Follows(c, k, host[c], failed)
  PROVE  Follows(c, k, now, fl)
<1>1. ASSUME k \in DOMAIN now <=> k \in DOMAIN host[c], k \in DOMAIN now => now[k] = host[c][k]
      PROVE  Follows(c, k, now, fl)
  BY <1>1 DEF Follows, ByField
<1>2. CASE k \notin D /\ c \notin OwnedFiles
  BY <1>1, <1>2 DEF Moves
<1>3. CASE k \notin D /\ c \in OwnedFiles
  <2>1. k \notin DOMAIN now /\ Desired(c) # {}
    BY <1>3 DEF Moves
  <2>2. fl \/ Wanted(c, k) = {}
    BY <1>3 DEF KeysOf, Wanted
  <2>. QED
    BY <1>3, <2>1, <2>2 DEF Follows
<1>4. CASE k \in D
  <2> DEFINE d == ValueOf(plan[c])[k]
  <2>1. d \in Wanted(c, k) /\ k \in DOMAIN now /\ now[k] \in Left(c, k, d)
    BY <1>4, PlannedIsWanted DEF Moves
  <2>2. fl \/ now[k] = Made(c, k, d)
    BY <1>4
  <2> HIDE DEF d
  <2>3. CASE Refused(c, k)
    <3>1. k \in DOMAIN host[c] /\ now[k] = host[c][k]
      BY <2>1, <2>3 DEF Left, Made, Refused
    <3>. QED
      BY <1>1, <2>1, <3>1
  <2>4. CASE ~Refused(c, k) /\ Account(c, k)
    <3>1. c = "users_groups"
      BY <2>4 DEF Account
    <3>2. Made(c, k, d) = Changed(Found(host, k, d), d, 4)
      BY <2>4 DEF Made
    <3>3. now[k] = Made(c, k, d) \/ (fl /\ now[k] \in HalfMade(k, d))
      BY <2>1, <2>2, <2>4, <3>1 DEF Left
    <3>4. \A x \in Fields : \/ now[k][x] = Found(host, k, d)[x]
                            \/ now[k][x] = d[x] /\ d[x] # Nothing(x)
                            \/ fl /\ x \in {"keys", "sudo"} /\ now[k][x] = Half
      BY <3>2, <3>3, ChangedFields, HalfMadeFields
    <3>5. ByField(now[k], k, fl)
      BY <2>1, <2>4, <3>1, <3>4, AccountFollows
    <3>. QED
      BY <2>1, <2>4, <3>5 DEF Follows
  <2>5. CASE ~Refused(c, k) /\ ~Account(c, k)
    <3>1. now[k] = Made(c, k, d) \/ (fl /\ now[k] = Half)
      BY <2>1, <2>2, <2>5 DEF Left
    <3>2. CASE d = Unset /\ At(host, c, k) # Absent /\ now[k] = Made(c, k, d)
      <4>1. k \in DOMAIN host[c] /\ now[k] = host[c][k]
        BY <2>5, <3>2 DEF Made, At
      <4>. QED
        BY <1>1, <2>1, <4>1
    <3>3. CASE ~(d = Unset /\ At(host, c, k) # Absent) /\ now[k] = Made(c, k, d)
      <4>1. now[k] = d
        BY <2>5, <3>3 DEF Made
      <4>. QED
        BY <2>1, <2>5, <4>1 DEF Follows
    <3>4. CASE fl /\ now[k] = Half
      BY <2>1, <2>5, <3>4 DEF Follows
    <3>. QED
      BY <3>1, <3>2, <3>3, <3>4
  <2>. QED
    BY <2>3, <2>4, <2>5
<1>. QED
  BY <1>2, <1>3, <1>4

\* What is planned is wanted, all of it if the file is the manager's own, and every item
\* of the host is as the command found it or as it is wanted.
Kept ==
  \A c \in Categories :
    /\ plan[c] \subseteq Desired(c)
    /\ c \in OwnedFiles => plan[c] \in {{}, Desired(c)}
    /\ host[c] = born[c] \/ Desired(c) # {}
    /\ \A k : Follows(c, k, host[c], failed)

\* At first the host is as it is found.
LEMMA KeptInit == Init => Kept
  BY DEF Init, Kept, Follows

\* What drifts is wanted.
LEMMA DriftIsWanted ==
  ASSUME NEW c, NEW B
  PROVE  Drift(c, B) \subseteq Desired(c) /\ (c \in OwnedFiles => Drift(c, B) \in {{}, Desired(c)})
  BY DEF Drift

\* The drift of category c is planned, with what is seen in part and, of sysctl, all.
Plans(c) ==
  \E B \in SUBSET KeysOf(Desired(c)), X \in SUBSET HalfSeen(c),
     K \in {{}} \union (IF c = "sysctl" THEN {Desired(c)} ELSE {}) :
    /\ blind' = blind \union ({c} \X B)
    /\ plan' = [plan EXCEPT ![c] = Drift(c, B) \union X \union K]

\* So PlanNext does with the first category.
LEMMA Planned ==
  ASSUME PlanNext, NEW c, c = Head(todo)
  PROVE  Plans(c)
<1> DEFINE h == Head(todo)
<1>1. \E B \in SUBSET KeysOf(Desired(h)), X \in SUBSET HalfSeen(h),
         K \in {{}} \union (IF h = "sysctl" THEN {Desired(h)} ELSE {}) :
        /\ blind' = blind \union ({h} \X B)
        /\ plan' = [plan EXCEPT ![h] = Drift(h, B) \union X \union K]
  BY Zenon DEF PlanNext
<1>2. h = c
  OBVIOUS
<1> HIDE DEF h
<1>3. PICK B \in SUBSET KeysOf(Desired(h)), X \in SUBSET HalfSeen(h),
           K \in {{}} \union (IF h = "sysctl" THEN {Desired(h)} ELSE {}) :
        /\ blind' = blind \union ({h} \X B)
        /\ plan' = [plan EXCEPT ![h] = Drift(h, B) \union X \union K]
  BY <1>1, Zenon
<1>4. B \in SUBSET KeysOf(Desired(c)) /\ X \in SUBSET HalfSeen(c)
  BY <1>2
<1>5. K \in {{}} \union (IF c = "sysctl" THEN {Desired(c)} ELSE {})
  BY <1>2
<1>6. blind' = blind \union ({c} \X B)
  BY <1>2, <1>3
<1>7. plan' = [plan EXCEPT ![c] = Drift(c, B) \union X \union K]
  BY <1>2, <1>3
<1>. QED
  BY <1>4, <1>5, <1>6, <1>7, Zenon DEF Plans

\* A plan holds what is wanted, and ApplyNext and ApplyFails carry out what is planned.
LEMMA KeptNext == Untouched /\ Queued /\ Kept /\ Untouched' /\ [Next]_vars => Kept'
<1> SUFFICES ASSUME Untouched, Queued, Kept, Untouched', [Next]_vars PROVE Kept'
  OBVIOUS
<1>0. UNCHANGED <<args, born>> /\ LinuxOnly' = LinuxOnly
  BY ArgsStay DEF LinuxOnly
<1>1. ASSUME host' = born, \A c \in Categories : plan'[c] = {} PROVE Kept'
  BY <1>0, <1>1 DEF Kept, Follows
<1>2. CASE LinuxOnly
  BY <1>0, <1>1, <1>2 DEF Untouched
<1>3. CASE pc \notin {"plan", "apply", "done"}
  <2>1. UNCHANGED <<host, plan>>
    BY <1>3 DEF Next, Step, ReadEnv, Overflow, ResolveEnv, LoadEnvFails, FallBack, FallBackFails, Render, Check,
       Open, DialFails, GivesUp, PlanErrs, PlanNext, Tell, BeginApply, ApplyNext, ApplyFails, ApplyReturns, LoseSession,
       LoadRest, SessionRest, working, vars
  <2>. QED
    BY <1>1, <1>3, <2>1 DEF Untouched
<1>4. CASE ~LinuxOnly /\ pc \in {"plan", "apply", "done"}
  <2>1. linux' = linux
    BY <1>4, HandStays DEF LinuxOnly
  <2>2. \A c \in Categories : Desired(c)' = Desired(c)
    BY <1>0, <2>1 DEF Desired
  <2>3. ASSUME NEW c \in Categories, NEW k,
               \/ Follows(c, k, host'[c], failed')
               \/ host'[c] = host[c] /\ (failed => failed') /\ Follows(c, k, host[c], failed)
        PROVE  Follows(c, k, host[c], failed)'
    <3>1. /\ Wanted(c, k)' = Wanted(c, k) /\ Desired(c)' = Desired(c)
          /\ Wanted("users_groups", k)' = Wanted("users_groups", k)
      BY <2>2 DEF Wanted, Categories
    <3>. QED
      BY <1>0, <2>3, <3>1 DEF Follows, ByField, Found
  <2>4. ASSUME \A c \in Categories : host'[c] = host[c], plan' = plan, failed => failed' PROVE Kept'
    BY <1>0, <2>2, <2>3, <2>4 DEF Kept
  <2>5. CASE PlanNext
    <3>1. PICK c \in Categories : c = Head(todo)
      BY <2>5, HeadTailProperties DEF PlanNext, Queued
    <3>2. PICK B \in SUBSET KeysOf(Desired(c)), X \in SUBSET HalfSeen(c),
               K \in {{}} \union (IF c = "sysctl" THEN {Desired(c)} ELSE {}) :
            /\ blind' = blind \union ({c} \X B)
            /\ plan' = [plan EXCEPT ![c] = Drift(c, B) \union X \union K]
      <4>1. Plans(c)
        BY <2>5, <3>1, Planned
      <4>. QED
        BY <4>1, Zenon DEF Plans
    <3>3. X \subseteq Desired(c) /\ (c \in OwnedFiles => X = {})
      BY DEF HalfSeen, Account, OwnedFiles
    <3>4. /\ Drift(c, B) \union X \union K \subseteq Desired(c)
          /\ c \in OwnedFiles => Drift(c, B) \union X \union K \in {{}, Desired(c)}
      BY <3>2, <3>3, DriftIsWanted
    <3>5. \A d \in Categories : plan'[d] \subseteq Desired(d) /\ (d \in OwnedFiles => plan'[d] \in {{}, Desired(d)})
      BY <3>2, <3>4 DEF Kept, Untouched
    <3>6. UNCHANGED <<host, failed>>
      BY <2>5 DEF PlanNext
    <3>. QED
      BY <1>0, <2>2, <2>3, <3>5, <3>6 DEF Kept
  <2>6. ASSUME NEW c \in Categories, plan[c] # {}, plan' = plan, NEW now, host' = [host EXCEPT ![c] = now],
               failed => failed', NEW D, Moves(c, now, D),
               failed' \/ (D = KeysOf(plan[c]) /\ \A k \in D : now[k] = Made(c, k, ValueOf(plan[c])[k]))
        PROVE  Kept'
    <3>1. host'[c] = now /\ \A d \in Categories \ {c} : host'[d] = host[d]
      BY <2>6 DEF Untouched
    <3>2. plan[c] \subseteq Desired(c) /\ (c \in OwnedFiles => plan[c] = Desired(c))
      BY <2>6 DEF Kept
    <3>3. \A k : Follows(c, k, now, failed')
      BY <2>6, <3>2, MovesFollow DEF Kept
    <3>4. \A d \in Categories : \A k : Follows(d, k, host[d], failed)'
      BY <2>3, <2>6, <3>1, <3>3 DEF Kept
    <3>5. Desired(c) # {}
      BY <2>6, <3>2
    <3>. QED
      BY <1>0, <2>2, <2>6, <3>1, <3>4, <3>5 DEF Kept
  <2>7. CASE ApplyNext \/ ApplyFails
    <3>1. PICK c \in Categories : c = Head(todo)
      BY <2>7, HeadTailProperties DEF ApplyNext, ApplyFails, Queued
    <3>2. plan' = plan /\ (failed => failed')
      BY <2>7 DEF ApplyNext, ApplyFails, ApplyRest
    <3>3. \A i \in plan[c] : i = <<i[1], i[2]>>
      BY DesiredArePairs DEF Kept
    <3>4. \/ UNCHANGED host
          \/ plan[c] # {} /\ host' = [host EXCEPT ![c] = CarriedOut(c)]
          \/ plan[c] # {} /\ failed' /\ \E left \in LeftOver(c) : host' = [host EXCEPT ![c] = left]
      BY <2>7, <3>1 DEF ApplyNext, ApplyFails
    <3>5. CASE UNCHANGED host
      BY <2>4, <3>2, <3>5
    <3>6. CASE plan[c] # {} /\ host' = [host EXCEPT ![c] = CarriedOut(c)]
      <4> DEFINE now == CarriedOut(c)
      <4>1. Moves(c, now, KeysOf(plan[c])) /\ \A k \in KeysOf(plan[c]) : now[k] = Made(c, k, ValueOf(plan[c])[k])
        BY <3>3, CarriedOutMoves
      <4> HIDE DEF now
      <4>. QED
        BY <2>6, <3>2, <3>6, <4>1 DEF now
    <3>7. CASE plan[c] # {} /\ failed' /\ \E left \in LeftOver(c) : host' = [host EXCEPT ![c] = left]
      <4>1. PICK now \in LeftOver(c) : host' = [host EXCEPT ![c] = now]
        BY <3>7
      <4>2. CASE now = host[c]
        <5>1. \A d \in Categories : host'[d] = host[d]
          BY <4>1, <4>2 DEF Untouched
        <5>. QED
          BY <2>4, <3>2, <5>1
      <4>3. ASSUME NEW D, Moves(c, now, D) PROVE Kept'
        BY <2>6, <3>2, <3>7, <4>1, <4>3
      <4>. QED
        BY <3>3, <4>2, <4>3, LeftOverMoves
    <3>. QED
      BY <3>4, <3>5, <3>6, <3>7
  <2>8. CASE Check \/ Open \/ DialFails \/ GivesUp \/ PlanErrs \/ Tell \/ BeginApply \/ ApplyReturns \/ LoseSession \/ UNCHANGED vars
    <3>1. UNCHANGED <<host, plan, failed>>
      BY <1>4, <2>8 DEF Check, Open, DialFails, GivesUp, PlanErrs, Tell, BeginApply, ApplyReturns, LoseSession,
         LoadRest, SessionRest, working, vars
    <3>. QED
      BY <2>4, <3>1
  <2>9. ~(ReadEnv \/ Overflow \/ ResolveEnv \/ LoadEnvFails \/ FallBack \/ FallBackFails \/ Render)
    BY <1>4 DEF ReadEnv, Overflow, ResolveEnv, LoadEnvFails, FallBack, FallBackFails, Render
  <2>. QED
    BY <2>5, <2>7, <2>8, <2>9 DEF Next, Step
<1>. QED
  BY <1>2, <1>3, <1>4

\* What a command wants of a category is nothing, or what the documents mean.
LEMMA DesiredIsMeant ==
  ASSUME NEW c \in Categories, HandOf(args.file, linux), ~Departs
  PROVE  \/ linux = Empty("Env") /\ Desired(c) = {}
         \/ \E m \in MeantManifests(args.file) :
              m \in Manifests /\ BundleKnown(m) /\ linux = Done(m) /\ Desired(c) = Applied(m, c)
<1>1. args.cmd \notin {"package", "user"}
  BY DEF Departs
<1>2. Desired(c) = Items(c, IF c \in {"sysctl", "limits"} THEN linux.list[c] ELSE Merged(linux, c))
  BY <1>1 DEF Desired
<1>3. CASE linux = Empty("Env")
  <2>1. linux.preset[c] = Unset /\ linux.list = NoLists
    BY <1>3 DEF Empty
  <2>2. Merged(linux, c) = NoLists[c] /\ linux.list[c] = NoLists[c]
    BY <2>1 DEF Merged
  <2>3. Desired(c) = Items(c, NoLists[c])
    BY <1>2, <2>2
  <2>4. Items(c, NoLists[c]) = {}
    <3>1. Pairs(<<>>) = {}
      BY DEF Pairs
    <3>2. CASE c = "packages"
      BY <3>2 DEF Items, NoLists
    <3>3. CASE c = "users_groups"
      <4>1. NoLists[c].groups = <<>> /\ NoLists[c].users = <<>>
        BY <3>3 DEF NoLists
      <4>. QED
        BY <3>1, <3>3, <4>1 DEF Items
    <3>4. CASE c \in {"directories", "sysctl", "limits"}
      <4>1. NoLists[c] = <<>>
        BY <3>4 DEF NoLists
      <4>2. Items(c, NoLists[c]) = Pairs(NoLists[c])
        BY <3>4 DEF Items
      <4>. QED
        BY <3>1, <4>1, <4>2
    <3>. QED
      BY <3>2, <3>3, <3>4 DEF Categories
  <2>. QED
    BY <1>3, <2>3, <2>4
<1>4. ASSUME NEW m \in MeantManifests(args.file), m \in Manifests, BundleKnown(m), linux = Done(m)
      PROVE  Desired(c) = Applied(m, c)
  <2>1. IsManifest(m)
    BY <1>4, DocumentsAssumption
  <2>2. /\ Items(c, Merged(linux, c)) = MeantItems(m, c)
        /\ c \in {"sysctl", "limits"} => Items(c, linux.list[c]) = Items(c, m.list[c])
    BY <1>4, <2>1, DoneMeans
  <2>3. CASE c \in {"sysctl", "limits"}
    BY <1>2, <2>2, <2>3 DEF Applied
  <2>4. CASE c \notin {"sysctl", "limits"}
    BY <1>2, <2>2, <2>4 DEF Applied
  <2>. QED
    BY <2>3, <2>4
<1>. QED
  BY <1>3, <1>4 DEF HandOf

\* What a command has in hand, plans and does, at every moment.
Faithful == Asked /\ Opened /\ Untouched /\ InHand /\ Queued /\ Kept

\* It begins so,
LEMMA FaithfulInit == Init => Faithful
  BY AskedInit, OpenedInit, UntouchedInit, InHandInit, QueuedInit, KeptInit DEF Faithful

\* and stays so.
LEMMA FaithfulNext == Faithful /\ [Next]_vars => Faithful'
  BY AskedNext, OpenedNext, UntouchedNext, InHandNext, QueuedNext, KeptNext DEF Faithful

\* What follows what is wanted is properly as the documents say.
LEMMA FollowingIsProper ==
  ASSUME NEW c \in Categories, NEW k, Follows(c, k, host[c], failed)
  PROVE  Proper(c, k, Desired(c))
<1> DEFINE now == At(host, c, k)
<1>1. k \in DOMAIN host[c] => now = host[c][k]
  BY DEF At
<1>2. CASE (k \in DOMAIN host[c] <=> k \in DOMAIN born[c]) /\ (k \in DOMAIN host[c] => host[c][k] = born[c][k])
  <2>1. now = At(born, c, k)
    BY <1>2 DEF At
  <2>. QED
    BY <2>1 DEF Proper
<1>3. CASE Account(c, k) /\ k \in DOMAIN host[c] /\ ByField(host[c][k], k, failed)
  <2>1. c = "users_groups"
    BY <1>3 DEF Account
  <2>2. FieldByField(k, Wanted("users_groups", k))
    BY <1>3, <2>1 DEF FieldByField, ByField
  <2>. QED
    BY <1>3, <2>1, <2>2 DEF Proper, Wanted
<1>4. CASE /\ ~Account(c, k) /\ k \in DOMAIN host[c]
           /\ host[c][k] \in Wanted(c, k) \/ (failed /\ Wanted(c, k) # {} /\ host[c][k] = Half)
  BY <1>1, <1>4 DEF Proper, Wanted
<1>5. CASE c \in OwnedFiles /\ Desired(c) # {} /\ k \notin DOMAIN host[c] /\ (Wanted(c, k) = {} \/ failed)
  <2>1. now = Absent
    BY <1>5 DEF At
  <2>. QED
    BY <1>5, <2>1 DEF Proper, Wanted
<1>. QED
  BY <1>2, <1>3, <1>4, <1>5 DEF Follows

\* Whatever fails on the way, and however the stack is loaded: a command changes the
\* host only with the consent it asks for, and every item only to what the documents
\* mean, an account field by field; what a failed command leaves half-made is counted
\* as a failure.
THEOREM OnlyAsMeant == Spec => []HostOnlyAsMeant
<1>1. Faithful => HostOnlyAsMeant
  <2> SUFFICES ASSUME Faithful, NEW c \in Categories, ~Departs, host[c] # born[c]
               PROVE  \E m \in MeantManifests(args.file) : \A k : Proper(c, k, Applied(m, c))
    BY Zenon DEF HostOnlyAsMeant, Faithful, Asked
  <2>1. host # born
    OBVIOUS
  <2>2. ~LinuxOnly /\ Counts
    BY <2>1 DEF Faithful, Untouched, Counts
  <2>3. HandOf(args.file, linux)
    BY <2>2 DEF Faithful, InHand, LinuxOnly
  <2>4. Desired(c) # {} /\ \A k : Proper(c, k, Desired(c))
    BY FollowingIsProper DEF Faithful, Kept
  <2>5. PICK m \in MeantManifests(args.file) : Desired(c) = Applied(m, c)
    BY <2>3, <2>4, DesiredIsMeant
  <2>. QED
    BY <2>4, <2>5
<1>. QED
  BY <1>1, FaithfulInit, FaithfulNext, PTL DEF Spec

----------------------------------------------------------------------------
(* What a command claims. *)

\* No key is wanted to have two values.
OneValue == \A c \in Categories : \A i, j \in Desired(c) : i[1] = j[1] => i = j

\* All that is wanted of a category is as a command may claim it.
AsDesired(c) == \A i \in Desired(c) : AsClaimed(c, i)

\* And all of it that no change is planned for.
RestAsDesired(c) == \A i \in Desired(c) \ plan[c] : AsClaimed(c, i)

\* What is not planned to be changed is right, what is applied is right, and so is all
\* of it when the command ends with nothing to change, or with all of it changed.
Carried ==
  /\ pc = "apply" => report = "drift"
  /\ ~Departs /\ ~LinuxOnly /\ OneValue =>
       /\ pc = "plan" => \A c \in ToSet(CategoriesOf) : c \in ToSet(todo) \/ RestAsDesired(c)
       /\ pc = "apply" /\ ~failed =>
            \A c \in ToSet(CategoriesOf) : RestAsDesired(c) /\ (c \in ToSet(todo) \/ args.dry \/ AsDesired(c))
       /\ pc = "done" /\ exit = "ok" /\ ~failed
          /\ (report = "clean" \/ (args.verb = "apply" /\ ~args.dry /\ report = "drift"))
            => \A c \in ToSet(CategoriesOf) : AsDesired(c)

\* At first there is nothing to claim.
LEMMA CarriedInit == Init => Carried
  BY DEF Init, Carried, LinuxOnly

\* The elements of a sequence are its head and those of its tail.
LEMMA ToSetTail ==
  ASSUME NEW s \in Seq(Categories), s # <<>>, NEW c \in ToSet(s), c # Head(s)
  PROVE  c \in ToSet(Tail(s))
<1>1. PICK i \in 1 .. Len(s) : c = s[i]
  BY DEF ToSet
<1>2. i # 1 /\ Len(s) \in Nat
  BY <1>1, LenProperties
<1>3. i - 1 \in 1 .. Len(Tail(s)) /\ Tail(s)[i - 1] = s[i]
  BY <1>1, <1>2, HeadTailProperties
<1>4. Tail(s) \in Seq(Categories)
  BY HeadTailProperties
<1>5. DOMAIN Tail(s) = 1 .. Len(Tail(s))
  BY <1>4, LenProperties
<1> DEFINE t == Tail(s)
           k == i - 1
<1>6. c = t[k] /\ k \in DOMAIN t
  BY <1>1, <1>3, <1>5
<1> HIDE DEF t, k
<1>7. c \in ToSet(t)
  BY <1>6 DEF ToSet
<1>. QED
  BY <1>7 DEF t

\* With a session a plan leaves out only what is there, or not there if it should be gone
\* and its query failed, and without a session only what is not wanted at all.
LEMMA DriftLeavesRight ==
  ASSUME NEW c \in Categories, HandOf(args.file, linux), ~Departs,
         c = "packages" => alive \/ Desired("packages") = {},
         NEW B, NEW i \in Desired(c) \ Drift(c, B)
  PROVE  InAccord(c, i[1], i[2], At(host, c, i[1])) \/ (i[2] = Absent /\ i[1] \in B)
<1> DEFINE seen == IF alive /\ i[1] \notin B THEN At(host, c, i[1]) ELSE Absent
<1>1. CASE c \in OwnedFiles
  <2>1. i \in Pairs(host[c])
    BY <1>1 DEF Drift
  <2>2. At(host, c, i[1]) = i[2] /\ ~Account(c, i[1])
    BY <1>1, <2>1 DEF Pairs, At, Account, OwnedFiles
  <2>. QED
    BY <2>2 DEF InAccord
<1>2. CASE c \notin OwnedFiles
  <2>1. InAccord(c, i[1], i[2], seen)
    BY <1>2 DEF Drift
  <2>2. CASE alive /\ i[1] \notin B
    BY <2>1, <2>2
  <2>3. CASE ~(alive /\ i[1] \notin B)
    <3>1. i[2] = Absent
      BY <2>1, <2>3 DEF InAccord
    <3>2. CASE alive
      BY <2>3, <3>1, <3>2
    <3>3. CASE ~alive
      <4>1. c # "packages"
        BY <3>3
      <4>2. PICK m \in MeantManifests(args.file) : m \in Manifests /\ Desired(c) = Applied(m, c)
        BY DesiredIsMeant
      <4>. QED
        BY <3>1, <4>1, <4>2, PresenceAssumption
    <3>. QED
      BY <3>2, <3>3
  <2>. QED
    BY <2>2, <2>3
<1>. QED
  BY <1>1, <1>2

\* All commands for an account set all that they can set.
LEMMA ChangedIsRight ==
  ASSUME NEW f, NEW d
  PROVE  /\ SameButId(d, Changed(f, d, 4)) /\ OpenOr(d.sudo, Changed(f, d, 4).sudo)
         /\ Changed(f, d, 4).uid = f.uid
<1>1. /\ Changed(f, d, 4).uid = f.uid
      /\ Changed(f, d, 4).groups = IF d.groups # {} THEN d.groups ELSE f.groups
      /\ Changed(f, d, 4).shell = IF d.shell # Unset THEN d.shell ELSE f.shell
      /\ Changed(f, d, 4).keys = IF d.keys # {} THEN d.keys ELSE f.keys
      /\ Changed(f, d, 4).sudo = IF d.sudo # Unset THEN d.sudo ELSE f.sudo
  BY DEF Changed
<1>. QED
  BY <1>1 DEF SameButId, OpenOr

\* An account that was not there when the command began has the uid that is wanted.
LEMMA NewUid ==
  ASSUME NEW k, Account("users_groups", k), NEW d, \A e \in Wanted("users_groups", k) : e = d,
         Follows("users_groups", k, host["users_groups"], failed), k \notin DOMAIN born["users_groups"]
  PROVE  Found(host, k, d).uid = d.uid
<1> DEFINE h == host["users_groups"]
<1>1. CASE k \notin DOMAIN h
  BY <1>1 DEF Found, Blank
<1>2. CASE k \in DOMAIN h
  <2>1. ByField(h[k], k, failed)
    BY <1>2 DEF Follows, OwnedFiles
  <2>2. "uid" \in Fields /\ "uid" \notin {"keys", "sudo"}
    BY DEF Fields
  <2>3. h[k]["uid"] = Found(born, k, d)["uid"] \/ h[k]["uid"] = d["uid"]
    BY <2>1, <2>2 DEF ByField
  <2>4. Found(born, k, d)["uid"] = d["uid"]
    BY DEF Found, Blank
  <2>5. Found(host, k, d) = h[k]
    BY <1>2 DEF Found
  <2>. QED
    BY <2>3, <2>4, <2>5
<1>. QED
  BY <1>1, <1>2

\* When all that is planned of a category is carried out, all of it is as it is claimed.
LEMMA CarriedOutIsRight ==
  ASSUME NEW c \in Categories, DOMAIN host = Categories, host' = [host EXCEPT ![c] = CarriedOut(c)],
         UNCHANGED <<plan, blind, born>>,
         plan[c] \subseteq Desired(c), plan[c] # {}, c \in OwnedFiles => plan[c] = Desired(c),
         OneValue, RestAsDesired(c), \A k : Follows(c, k, host[c], failed),
         \A i \in plan[c] : ~Refused(c, i[1]),
         NEW i \in Desired(c)
  PROVE  AsClaimed(c, i)'
<1> DEFINE k == i[1]
           d == i[2]
           now == CarriedOut(c)
<1>1. /\ Moves(c, now, KeysOf(plan[c]))
      /\ \A x \in KeysOf(plan[c]) : now[x] = Made(c, x, ValueOf(plan[c])[x])
  BY DesiredArePairs, CarriedOutMoves
<1>2. host'[c] = now
  OBVIOUS
<1> HIDE DEF now
<1>3. \A e \in Wanted(c, k) : e = d
  BY DEF Wanted, OneValue
<1> HIDE DEF k, d
<1>4. CASE i \in plan[c]
  <2>1. k \in KeysOf(plan[c]) /\ ~Refused(c, k)
    BY <1>4 DEF KeysOf, k
  <2>2. ValueOf(plan[c])[k] = d
    BY <1>3, <2>1, PlannedIsWanted
  <2>3. k \in DOMAIN now /\ now[k] = Made(c, k, d)
    BY <1>1, <2>1, <2>2 DEF Moves
  <2>4. At(host, c, k)' = now[k]
    <3>1. At(host', c, k) = now[k]
      BY <1>2, <2>3 DEF At
    <3>. QED
      BY <3>1 DEF At
  <2>5. CASE Account(c, k)
    <3>1. c = "users_groups" /\ now[k] = Changed(Found(host, k, d), d, 4)
      BY <2>1, <2>3, <2>5 DEF Made, Account
    <3>2. /\ SameButId(d, now[k]) /\ OpenOr(d.sudo, now[k].sudo)
          /\ now[k].uid = Found(host, k, d).uid
      BY <3>1, ChangedIsRight
    <3>3. k \in DOMAIN born[c] \/ OpenOr(d.uid, now[k].uid)
      BY <1>3, <2>5, <3>1, <3>2, NewUid DEF OpenOr
    <3>. QED
      BY <1>2, <1>4, <2>3, <2>4, <2>5, <3>2, <3>3 DEF AsClaimed, k, d
  <2>6. CASE ~Account(c, k)
    <3>1. InAccord(c, k, d, now[k])
      <4>1. CASE d = Unset /\ At(host, c, k) # Absent
        <5>1. now[k] = At(host, c, k)
          BY <2>1, <2>3, <2>6, <4>1 DEF Made, At
        <5>. QED
          BY <2>6, <4>1, <5>1 DEF InAccord
      <4>2. CASE ~(d = Unset /\ At(host, c, k) # Absent)
        <5>1. now[k] = d
          BY <2>1, <2>3, <2>6, <4>2 DEF Made
        <5>. QED
          BY <2>6, <5>1 DEF InAccord
      <4>. QED
        BY <4>1, <4>2
    <3>. QED
      BY <2>4, <2>6, <3>1 DEF AsClaimed, k, d
  <2>. QED
    BY <2>5, <2>6
<1>5. CASE i \notin plan[c]
  <2>1. c \notin OwnedFiles /\ AsClaimed(c, i)
    BY <1>5 DEF RestAsDesired
  <2>2. k \notin KeysOf(plan[c])
    BY <1>5 DEF KeysOf, OneValue, k
  <2>3. At(host, c, k)' = At(host, c, k)
    <3>1. At(host', c, k) = At(host, c, k)
      BY <1>1, <1>2, <2>1, <2>2 DEF Moves, At
    <3>. QED
      BY <3>1 DEF At
  <2>. QED
    BY <1>5, <2>1, <2>3 DEF AsClaimed, k, d
<1>. QED
  BY <1>4, <1>5

\* PlanNext plans what is not right, ApplyNext makes right what is planned, and with
\* the last category the claim is true.
LEMMA CarriedNext == Faithful /\ Carried /\ [Next]_vars => Carried'
<1> SUFFICES ASSUME Faithful, Carried, [Next]_vars PROVE Carried'
  OBVIOUS
<1>0. /\ UNCHANGED <<args, born>> /\ LinuxOnly' = LinuxOnly /\ Departs' = Departs
      /\ CategoriesOf' = CategoriesOf
  BY ArgsStay DEF LinuxOnly, CategoriesOf
<1>1. CASE pc \notin {"plan", "apply", "done"}
  <2>1. /\ pc' # "apply" /\ report' = "none"
        /\ pc' = "plan" => todo' = CategoriesOf
    <3>1. report = "none"
      BY <1>1 DEF Faithful, Untouched
    <3>2. report' = report /\ pc' # "apply" /\ (pc' = "plan" => Start)
      BY <1>1 DEF Next, Step, ReadEnv, Overflow, ResolveEnv, LoadEnvFails, FallBack, FallBackFails, Render, Check,
         Open, DialFails, GivesUp, PlanErrs, PlanNext, Tell, BeginApply, ApplyNext, ApplyFails, ApplyReturns, LoseSession,
         Start, Ends, Loaded, LoadRest, SessionRest, working, vars
    <3>3. pc' = "plan" => todo' = CategoriesOf
      BY <3>2 DEF Start, Ends
    <3>. QED
      BY <3>1, <3>2, <3>3
  <2>. QED
    BY <1>0, <2>1 DEF Carried
<1>2. CASE pc = "done"
  <2>1. UNCHANGED vars
    BY <1>2 DEF Next, Step, ReadEnv, Overflow, ResolveEnv, LoadEnvFails, FallBack, FallBackFails, Render, Check,
       Open, DialFails, GivesUp, PlanErrs, PlanNext, Tell, BeginApply, ApplyNext, ApplyFails, ApplyReturns, LoseSession
  <2>2. UNCHANGED <<pc, linux, todo, plan, blind, failed, report, exit, host>>
    BY <2>1 DEF vars, loading, working
  <2>3. \A c : Desired(c)' = Desired(c)
    BY <1>0, <2>2 DEF Desired
  <2>4. \A c, i : AsClaimed(c, i)' = AsClaimed(c, i)
    BY <1>0, <2>2 DEF AsClaimed, At
  <2>5. \A c : AsDesired(c)' = AsDesired(c) /\ RestAsDesired(c)' = RestAsDesired(c)
    BY <2>2, <2>3, <2>4 DEF AsDesired, RestAsDesired
  <2>. QED
    BY <1>0, <2>2, <2>3, <2>5 DEF Carried, OneValue
<1>3. CASE pc \in {"plan", "apply"}
  <2>1. linux' = linux /\ ~LinuxOnly
    BY <1>3, HandStays DEF Faithful, Untouched, LinuxOnly
  <2>2. \A c \in Categories : Desired(c)' = Desired(c)
    BY <1>0, <2>1 DEF Desired
  <2>3. OneValue' = OneValue
    BY <2>2 DEF OneValue
  <2>4. pc' = "apply" => report' = "drift"
    <3>1. CASE BeginApply
      BY <3>1 DEF BeginApply, Reports, Ends
    <3>2. CASE ~BeginApply
      BY <1>3, <3>2 DEF Carried, Next, Step, ReadEnv, Overflow, ResolveEnv, LoadEnvFails, FallBack, FallBackFails, Render, Check,
         Open, DialFails, GivesUp, PlanErrs, PlanNext, Tell, ApplyNext, ApplyFails, ApplyReturns, LoseSession,
         Ends, ApplyRest, working, vars
    <3>. QED
      BY <3>1, <3>2
  <2> SUFFICES ASSUME ~Departs, OneValue
               PROVE  /\ pc' = "plan" => \A c \in ToSet(CategoriesOf) : c \in ToSet(todo') \/ RestAsDesired(c)'
                      /\ pc' = "apply" /\ ~failed' =>
                           \A c \in ToSet(CategoriesOf) :
                             RestAsDesired(c)' /\ (c \in ToSet(todo') \/ args.dry \/ AsDesired(c)')
                      /\ pc' = "done" /\ exit' = "ok" /\ ~failed'
                         /\ (report' = "clean" \/ (args.verb = "apply" /\ ~args.dry /\ report' = "drift"))
                           => \A c \in ToSet(CategoriesOf) : AsDesired(c)'
    BY <1>0, <2>3, <2>4 DEF Carried
  <2>5. ToSet(CategoriesOf) \subseteq Categories
    BY <2>1, CategoriesOfType, ToSetType DEF Faithful, Queued
  <2>6. todo \in Seq(Categories) /\ HandOf(args.file, linux) /\ DOMAIN host = Categories /\ DOMAIN plan = Categories
    BY <1>3, <2>1 DEF Faithful, Queued, InHand, Counts, Untouched, LinuxOnly
  <2>7. \A c \in Categories : AsDesired(c)' <=> \A i \in Desired(c) : AsClaimed(c, i)'
    BY <2>2 DEF AsDesired
  <2>8. \A c \in Categories : RestAsDesired(c)' <=> \A i \in Desired(c) \ plan'[c] : AsClaimed(c, i)'
    BY <2>2 DEF RestAsDesired
  <2>9. ASSUME NEW c \in Categories, host'[c] = host[c], plan'[c] = plan[c], blind \subseteq blind'
        PROVE  (AsDesired(c) => AsDesired(c)') /\ (RestAsDesired(c) => RestAsDesired(c)')
    <3>1. \A i : AsClaimed(c, i) => AsClaimed(c, i)'
      BY <1>0, <2>9 DEF AsClaimed, At
    <3>. QED
      BY <2>7, <2>8, <2>9, <3>1 DEF AsDesired, RestAsDesired
  <2>10. ASSUME NEW c \in Categories, plan[c] = {}, RestAsDesired(c) PROVE AsDesired(c)
    BY <2>10 DEF AsDesired, RestAsDesired
  <2>11. todo = <<>> => ToSet(todo) = {}
    BY ToSetEmpty
  <2>12. CASE pc = "plan"
    <3>1. \A c \in ToSet(CategoriesOf) : c \in ToSet(todo) \/ RestAsDesired(c)
      BY <2>1, <2>12 DEF Carried
    <3>2. CASE UNCHANGED <<pc, todo, plan, blind, host>>
      BY <2>5, <2>9, <2>12, <3>1, <3>2
    <3>3. CASE PlanErrs
      BY <3>3 DEF PlanErrs, Ends
    <3>4. CASE PlanNext
      <4>1. PICK c \in Categories : c = Head(todo)
        BY <2>6, <3>4, HeadTailProperties DEF PlanNext
      <4>2. /\ pc' = "plan" /\ host' = host /\ todo # <<>> /\ todo' = Tail(todo)
            /\ c = "packages" => alive \/ Desired("packages") = {}
        BY <2>12, <3>4, <4>1 DEF PlanNext
      <4>3. PICK B \in SUBSET KeysOf(Desired(c)), X \in SUBSET HalfSeen(c),
                 K \in {{}} \union (IF c = "sysctl" THEN {Desired(c)} ELSE {}) :
              /\ blind' = blind \union ({c} \X B)
              /\ plan' = [plan EXCEPT ![c] = Drift(c, B) \union X \union K]
        <5>1. Plans(c)
          BY <3>4, <4>1, Planned
        <5>. QED
          BY <5>1, Zenon DEF Plans
      <4>4. /\ Drift(c, B) \subseteq plan'[c]
            /\ \A d \in Categories \ {c} : plan'[d] = plan[d]
            /\ blind \subseteq blind' /\ \A k \in B : <<c, k>> \in blind'
        BY <2>6, <4>1, <4>3
      <4>5. \A i \in Desired(c) \ plan'[c] : AsClaimed(c, i)'
        <5> SUFFICES ASSUME NEW i \in Desired(c) \ plan'[c] PROVE AsClaimed(c, i)'
          OBVIOUS
        <5>1. InAccord(c, i[1], i[2], At(host, c, i[1])) \/ (i[2] = Absent /\ i[1] \in B)
          BY <2>6, <4>2, <4>1, <4>4, DriftLeavesRight
        <5>2. At(host, c, i[1])' = At(host, c, i[1])
          BY <4>2 DEF At
        <5>. QED
          BY <4>4, <5>1, <5>2 DEF AsClaimed
      <4>6. \A d \in ToSet(todo) \ {c} : d \in ToSet(todo')
        BY <2>6, <4>2, <4>1, ToSetTail
      <4>7. ASSUME NEW d \in ToSet(CategoriesOf) PROVE d \in ToSet(todo') \/ RestAsDesired(d)'
        <5>1. CASE d = c
          BY <2>8, <4>1, <4>5, <5>1
        <5>2. CASE d # c /\ d \in ToSet(todo)
          BY <4>6, <5>2
        <5>3. CASE d # c /\ d \notin ToSet(todo)
          BY <2>5, <2>9, <3>1, <4>2, <4>4, <4>7, <5>3
        <5>. QED
          BY <5>1, <5>2, <5>3
      <4>. QED
        BY <4>2, <4>7
    <3>5. ASSUME todo = <<>>, host' = host, plan' = plan, blind' = blind
          PROVE  \A c \in ToSet(CategoriesOf) : RestAsDesired(c)' /\ (~InDrift => AsDesired(c)')
      <4> SUFFICES ASSUME NEW c \in ToSet(CategoriesOf) PROVE RestAsDesired(c)' /\ (~InDrift => AsDesired(c)')
        OBVIOUS
      <4>1. RestAsDesired(c) /\ c \in Categories
        BY <2>5, <2>11, <3>1, <3>5
      <4>2. ~InDrift => AsDesired(c)
        BY <2>10, <4>1 DEF InDrift
      <4>. QED
        BY <2>9, <3>5, <4>1, <4>2
    <3>6. CASE Tell
      <4>1. /\ todo = <<>> /\ host' = host /\ plan' = plan /\ blind' = blind /\ pc' = "done" /\ args.verb # "apply"
            /\ report' = "clean" => ~InDrift
        BY <3>6 DEF Tell, Ends, Reports
      <4>. QED
        BY <3>5, <4>1
    <3>7. CASE BeginApply
      <4>1. /\ todo = <<>> /\ host' = host /\ plan' = plan /\ blind' = blind
            /\ report' = (IF InDrift THEN "drift" ELSE "clean")
            /\ \/ pc' = "done" /\ ~InDrift
               \/ pc' = "done" /\ InDrift /\ exit' = "error"
               \/ pc' = "apply" /\ todo' = CategoriesOf
        BY <3>7 DEF BeginApply, Ends, Reports
      <4>2. CASE pc' = "done"
        BY <3>5, <4>1, <4>2
      <4>3. CASE pc' = "apply"
        BY <3>5, <4>1, <4>3
      <4>. QED
        BY <4>1, <4>2, <4>3
    <3>8. CASE LoseSession \/ UNCHANGED vars
      BY <3>2, <3>8 DEF LoseSession, working, vars
    <3>9. ~(ReadEnv \/ Overflow \/ ResolveEnv \/ LoadEnvFails \/ FallBack \/ FallBackFails \/ Render \/ Check
            \/ Open \/ DialFails \/ GivesUp \/ ApplyNext \/ ApplyFails \/ ApplyReturns)
      BY <2>12 DEF ReadEnv, Overflow, ResolveEnv, LoadEnvFails, FallBack, FallBackFails, Render, Check,
         Open, DialFails, GivesUp, ApplyNext, ApplyFails, ApplyReturns
    <3>. QED
      BY <3>3, <3>4, <3>6, <3>7, <3>8, <3>9 DEF Next, Step
  <2>13. CASE pc = "apply"
    <3>1. /\ report = "drift"
          /\ (~failed => \A c \in ToSet(CategoriesOf) : RestAsDesired(c) /\ (c \in ToSet(todo) \/ args.dry \/ AsDesired(c)))
      BY <2>1, <2>13 DEF Carried
    <3>2. CASE UNCHANGED <<pc, todo, plan, blind, host, failed>>
      BY <2>5, <2>9, <2>13, <3>1, <3>2
    <3>3. CASE ApplyFails
      BY <2>13, <3>3 DEF ApplyFails, ApplyRest
    <3>4. CASE ApplyReturns
      <4>1. /\ todo = <<>> /\ host' = host /\ plan' = plan /\ blind' = blind /\ failed' = failed
            /\ report' = report /\ pc' = "done"
        BY <3>4 DEF ApplyReturns, Ends, working
      <4>2. ~failed /\ ~args.dry => \A c \in ToSet(CategoriesOf) : AsDesired(c)'
        BY <2>5, <2>9, <2>11, <3>1, <4>1
      <4>. QED
        BY <3>1, <4>1, <4>2
    <3>5. CASE ApplyNext
      <4>1. PICK c \in Categories : c = Head(todo)
        BY <2>6, <3>5, HeadTailProperties DEF ApplyNext
      <4>2. /\ pc' = "apply" /\ todo # <<>> /\ todo' = Tail(todo) /\ plan' = plan /\ blind' = blind
            /\ \/ (args.dry \/ plan[c] = {}) /\ host' = host /\ failed' = failed
               \/ /\ ~args.dry /\ plan[c] # {} /\ host' = [host EXCEPT ![c] = CarriedOut(c)]
                  /\ failed' = (failed \/ \E i \in plan[c] : Refused(c, i[1]))
        BY <2>13, <3>5, <4>1 DEF ApplyNext, ApplyRest
      <4>3. \A d \in ToSet(todo) \ {c} : d \in ToSet(todo')
        BY <2>6, <4>2, <4>1, ToSetTail
      <4>4. CASE (args.dry \/ plan[c] = {}) /\ host' = host /\ failed' = failed
        <5> SUFFICES ASSUME ~failed, NEW d \in ToSet(CategoriesOf)
                     PROVE  RestAsDesired(d)' /\ (d \in ToSet(todo') \/ args.dry \/ AsDesired(d)')
          BY <4>2, <4>4
        <5>1. (RestAsDesired(d) => RestAsDesired(d)') /\ (AsDesired(d) => AsDesired(d)')
          BY <2>5, <2>9, <4>2, <4>4
        <5>2. CASE d = c
          <6>1. RestAsDesired(d) /\ (d \in ToSet(todo) \/ args.dry \/ AsDesired(d))
            BY <3>1
          <6>2. CASE args.dry
            BY <5>1, <6>1, <6>2
          <6>3. CASE plan[c] = {}
            <7>1. plan[d] = {} /\ d \in Categories
              BY <4>1, <5>2, <6>3
            <7>. QED
              BY <2>10, <5>1, <6>1, <7>1
          <6>. QED
            BY <4>4, <6>2, <6>3
        <5>3. CASE d # c
          BY <3>1, <4>3, <5>1, <5>3
        <5>. QED
          BY <5>2, <5>3
      <4>5. CASE /\ ~args.dry /\ plan[c] # {} /\ host' = [host EXCEPT ![c] = CarriedOut(c)]
                 /\ failed' = (failed \/ \E i \in plan[c] : Refused(c, i[1]))
        <5> SUFFICES ASSUME ~failed, \A i \in plan[c] : ~Refused(c, i[1]), NEW d \in ToSet(CategoriesOf)
                     PROVE  RestAsDesired(d)' /\ (d \in ToSet(todo') \/ AsDesired(d)')
          BY <4>2, <4>5
        <5>1. RestAsDesired(d) /\ (d \in ToSet(todo) \/ AsDesired(d))
          BY <3>1, <4>5
        <5>2. CASE d = c
          <6>1. /\ plan[c] \subseteq Desired(c) /\ (c \in OwnedFiles => plan[c] = Desired(c))
                /\ \A k : Follows(c, k, host[c], failed)
            BY <4>1, <4>5 DEF Faithful, Kept
          <6>2. \A i \in Desired(c) : AsClaimed(c, i)'
            BY <1>0, <2>6, <4>2, <4>1, <4>5, <5>1, <5>2, <6>1, CarriedOutIsRight
          <6>. QED
            BY <2>7, <2>8, <4>1, <5>2, <6>2
        <5>3. CASE d # c
          <6>1. host'[d] = host[d]
            BY <2>5, <2>6, <4>1, <4>5, <5>3
          <6>2. (RestAsDesired(d) => RestAsDesired(d)') /\ (AsDesired(d) => AsDesired(d)')
            BY <2>5, <2>9, <4>2, <6>1
          <6>. QED
            BY <4>3, <5>1, <5>3, <6>2
        <5>. QED
          BY <5>2, <5>3
      <4>. QED
        BY <4>2, <4>4, <4>5
    <3>6. CASE LoseSession \/ UNCHANGED vars
      BY <3>2, <3>6 DEF LoseSession, working, vars
    <3>7. ~(ReadEnv \/ Overflow \/ ResolveEnv \/ LoadEnvFails \/ FallBack \/ FallBackFails \/ Render \/ Check
            \/ Open \/ DialFails \/ GivesUp \/ PlanErrs \/ PlanNext \/ Tell \/ BeginApply)
      BY <2>13 DEF ReadEnv, Overflow, ResolveEnv, LoadEnvFails, FallBack, FallBackFails, Render, Check,
         Open, DialFails, GivesUp, PlanErrs, PlanNext, Tell, BeginApply
    <3>. QED
      BY <3>3, <3>4, <3>5, <3>6, <3>7 DEF Next, Step
  <2>. QED
    BY <1>3, <2>12, <2>13
<1>. QED
  BY <1>1, <1>2, <1>3 DEF Faithful, Untouched

\* The documents mean at most one manifest.
LEMMA OneManifest ==
  ASSUME NEW f, NEW m \in MeantManifests(f), NEW l \in MeantManifests(f)
  PROVE  m = l
<1>1. \A q : \A a, b \in DeclaredBy(q) : a = b
  BY DEF DeclaredBy
<1>2. CASE Exists(f) /\ Files[f].kind = "Linux"
  BY <1>2 DEF MeantManifests
<1>3. CASE ~(Exists(f) /\ Files[f].kind = "Linux")
  <2>1. \E q : MeantManifests(f) \subseteq DeclaredBy(q)
    BY <1>3, Zenon DEF MeantManifests
  <2>. QED
    BY <1>1, <2>1
<1>. QED
  BY <1>2, <1>3

\* A manifest without a contradiction asks for one value of every key.
LEMMA OneValueUnless ==
  ASSUME ~Departs, NEW m \in MeantManifests(args.file), m \in Manifests, BundleKnown(m), linux = Done(m),
         ~Contradictory(m)
  PROVE  OneValue
<1> SUFFICES ASSUME NEW c \in Categories, NEW i \in Desired(c), NEW j \in Desired(c), i[1] = j[1]
             PROVE  i = j
  BY DEF OneValue
<1> DEFINE list == IF c \in {"sysctl", "limits"} THEN linux.list[c] ELSE Merged(linux, c)
<1>1. Desired(c) = Items(c, list)
  BY DEF Desired, Departs
<1>2. c = "packages" => list.install \intersect list.remove = {}
  <2> SUFFICES ASSUME c = "packages"
               PROVE  Merged(linux, "packages").install \intersect Merged(linux, "packages").remove = {}
    OBVIOUS
  <2>1. IsManifest(m)
    BY DocumentsAssumption
  <2>2. linux.list["packages"] = m.list["packages"]
    BY <2>1, DoneShape DEF Categories
  <2>3. ~Contradictory(linux)
    BY <2>2 DEF Contradictory
  <2>. QED
    BY <2>3, MergedAgrees
<1> HIDE DEF list
<1>. QED
  BY <1>1, <1>2, ItemsAgree

\* A command that says there is nothing to change, or that it changed all it planned
\* without a failure, leaves the host as the documents mean it, as far as the managers
\* compare and set it: what is not planned was right, with a session or without one,
\* but for a package to be removed whose query failed, and what is planned was carried
\* out.  Of an account that is not changed nobody has looked at the sudo rule.
THEOREM ClaimsHold == Spec => []ClaimsAreTrue
<1>1. Faithful /\ Carried => ClaimsAreTrue
  <2> SUFFICES ASSUME Faithful, Carried, pc = "done", exit = "ok", ~failed, ~Departs, linux.kind = "Linux",
                      report = "clean" \/ (args.verb = "apply" /\ Consented /\ report = "drift"),
                      NEW m \in MeantManifests(args.file), ~Contradictory(m),
                      NEW c \in ToSet(CategoriesOf), NEW i \in Applied(m, c)
               PROVE  AsClaimed(c, i)
    BY Zenon DEF ClaimsAreTrue
  <2>1. ~LinuxOnly
    BY DEF Faithful, Untouched
  <2>2. HandOf(args.file, linux)
    BY <2>1 DEF Faithful, InHand, Counts, LinuxOnly
  <2>3. linux # Empty("Env")
    BY DEF Empty
  <2>4. c \in Categories
    BY <2>1, CategoriesOfType, ToSetType DEF Faithful, Queued
  <2>5. Desired(c) = Applied(m, c)
    BY <2>2, <2>3, <2>4, DesiredIsMeant, OneManifest
  <2>6. OneValue
    BY <2>2, <2>3, OneManifest, OneValueUnless DEF HandOf
  <2>7. AsDesired(c)
    BY <2>1, <2>6 DEF Carried, Consented
  <2>. QED
    BY <2>5, <2>7 DEF AsDesired
<1>2. Spec => []Carried
  <2>1. Faithful /\ Carried /\ [Next]_vars => (Faithful /\ Carried)'
    BY FaithfulNext, CarriedNext
  <2>. QED
    BY <2>1, FaithfulInit, CarriedInit, PTL DEF Spec
<1>. QED
  BY <1>1, <1>2, FaithfulInit, FaithfulNext, PTL DEF Spec
=============================================================================
