------------------------------ MODULE Presets -------------------------------
(***************************************************************************)
(* Bundles and presets, and how they merge with what a manifest lists      *)
(* itself (registry.go, merge.go, loader.go's expandBundleOnLinux).        *)
(* A manifest is [kind, bundle, preset, list]: per category the name of a  *)
(* preset, and its own list.  Directories, sysctl and limits are functions *)
(* from path or key to value, packages [install, remove], users_groups     *)
(* [groups, users] with a gid per group and a record per user.             *)
(***************************************************************************)
EXTENDS Naturals, TLC

CONSTANTS
  Catalogue, \* the embedded presets: <<category, name>> to [tier, spec]
  Bundles,   \* the embedded bundles: name to [tier, child], a preset's name per category
  Unset

Categories == {"packages", "users_groups", "directories", "sysctl", "limits"}

IsUser(u) == u = [uid |-> u.uid, groups |-> u.groups, shell |-> u.shell, keys |-> u.keys, sudo |-> u.sudo]

\* A list of category c, as far as merging is concerned.
IsList(c, list) == c = "users_groups" => \A u \in DOMAIN list.users : IsUser(list.users[u])

\* No preset wants a package and wants it gone, and no name is given to nothing.
ASSUME CatalogueAssumption ==
  /\ \A x \in DOMAIN Catalogue :
       /\ IsList(x[1], Catalogue[x].spec)
       /\ x[1] = "packages" => Catalogue[x].spec.install \intersect Catalogue[x].spec.remove = {}
  /\ Unset \notin DOMAIN Bundles

----------------------------------------------------------------------------
(* Which preset a name stands for. *)

tierRank == ("community" :> 1) @@ ("business" :> 2) @@ ("enterprise" :> 3)

\* Every caller asks for the community tier.
Allowed(tier) == tierRank[tier] <= tierRank["community"]

ResolvesCategory(c, name) ==
  <<c, name>> \in DOMAIN Catalogue /\ Allowed(Catalogue[<<c, name>>].tier)

BundleExpands(b) == b \in DOMAIN Bundles /\ Allowed(Bundles[b].tier)

\* A bundle fills only the presets that the manifest leaves open.
expandBundleOnLinux(m) ==
  IF m.bundle = Unset THEN m
  ELSE [m EXCEPT !.preset = [c \in Categories |-> IF @[c] # Unset THEN @[c]
                                                  ELSE Bundles[m.bundle].child[c]]]

----------------------------------------------------------------------------
(* Merging; e is the explicit side. *)

Overlay(e, p) == [k \in DOMAIN e \union DOMAIN p |-> IF k \in DOMAIN e THEN e[k] ELSE p[k]]

MergeDirectories(e, p) == Overlay(e, p)
MergeSysctl(e, p)      == Overlay(e, p)
MergeLimits(e, p)      == Overlay(e, p)

\* Groups are united, uid, shell and keys filled in, a sudo rule is not.
MergeUser(e, p) ==
  [uid    |-> IF e.uid = Unset THEN p.uid ELSE e.uid,
   groups |-> p.groups \union e.groups,
   shell  |-> IF e.shell = Unset THEN p.shell ELSE e.shell,
   keys   |-> IF e.keys = {} THEN p.keys ELSE e.keys,
   sudo   |-> e.sudo]

MergeUsersGroups(e, p) ==
  LET both == DOMAIN e.users \intersect DOMAIN p.users
  IN  [groups |-> Overlay(e.groups, p.groups),
       users  |-> Overlay([u \in both |-> MergeUser(e.users[u], p.users[u])], Overlay(e.users, p.users))]

\* Mutant: the preset wins where the two sides contradict each other.
PresetPackagesWin(e, p) ==
  LET install == p.install \union e.install
      remove  == p.remove \union e.remove
  IN  [install |-> {n \in install : n \in remove => n \in p.install},
       remove  |-> {n \in remove : n \in install => n \in p.remove}]

\* A name on both lists stays where the explicit side has it, on both if need be.
MergePackages(e, p) ==
  LET install == p.install \union e.install
      remove  == p.remove \union e.remove
  IN  [install |-> {n \in install : n \in remove => n \in e.install},
       remove  |-> {n \in remove : n \in install => n \in e.remove}]

Merge(c, e, p) ==
  CASE c = "packages"     -> MergePackages(e, p)
    [] c = "users_groups" -> MergeUsersGroups(e, p)
    [] c = "directories"  -> MergeDirectories(e, p)
    [] c = "sysctl"       -> MergeSysctl(e, p)
    [] c = "limits"       -> MergeLimits(e, p)

\* What a manifest lists with its preset merged in; a preset that is unknown or not
\* licensed is logged and left out.
Merged(m, c) ==
  IF m.preset[c] # Unset /\ ResolvesCategory(c, m.preset[c])
  THEN Merge(c, m.list[c], Catalogue[<<c, m.preset[c]>>].spec) ELSE m.list[c]

\* config render merges every category.
Rendered(m) == [m EXCEPT !.list = [c \in Categories |-> Merged(m, c)]]
=============================================================================
