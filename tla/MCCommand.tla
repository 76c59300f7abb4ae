----------------------------- MODULE MCCommand ------------------------------
(***************************************************************************)
(* Two directories with the stacks that tell the ways of loading apart,    *)
(* and every command on each of them.                                      *)
(***************************************************************************)
EXTENDS Command

CONSTANTS lab, prod,
  linuxYaml, envYaml, dev, over, loop, broken, gen, joins, twice, unknown,
  std, rac, slim, pro,
  git, vim, nc, dba, web, app, bash, sh, nopasswd, data, logs, root, swap, shm, nofile, low, high,
  vaultKey, genKey, key1, key2

----------------------------------------------------------------------------
(* What is embedded. *)

Spec0(S) == [tier |-> "community", spec |-> S]

NewUser == [uid |-> Unset, groups |-> {}, shell |-> Unset, keys |-> {}, sudo |-> Unset]

MCCatalogue ==
  (<<"packages", std>> :> Spec0([install |-> {git, nc}, remove |-> {}]))
  @@ (<<"packages", slim>> :> Spec0([install |-> {vim}, remove |-> {git}]))
  @@ (<<"packages", pro>> :> [tier |-> "business", spec |-> [install |-> {vim}, remove |-> {}]])
  @@ (<<"users_groups", std>> :>
        Spec0([groups |-> (dba :> low),
               users |-> (app :> [NewUser EXCEPT !.uid = high, !.groups = {dba}, !.shell = sh, !.keys = {key2}])]))
  @@ (<<"directories", std>> :> Spec0((data :> root) @@ (logs :> root)))
  @@ (<<"sysctl", std>> :> Spec0((swap :> low) @@ (shm :> low)))
  @@ (<<"limits", std>> :> Spec0(nofile :> low))

MCBundles ==
  (std :> [tier |-> "community", child |-> [c \in Categories |-> std]])
  @@ (rac :> [tier |-> "enterprise", child |-> [c \in Categories |-> std]])

MCSecrets == (vaultKey :> key1) @@ (genKey :> Unset)

----------------------------------------------------------------------------
(* Documents. *)

With(bundle, pk, pkgs, ug, dirs, sys) ==
  [kind |-> "Linux", bundle |-> bundle,
   preset |-> [c \in Categories |-> IF c = "packages" THEN pk ELSE Unset],
   list |-> [packages |-> pkgs, users_groups |-> ug, directories |-> dirs, sysctl |-> sys, limits |-> <<>>]]

NoPackages == [install |-> {}, remove |-> {}]
NoUsers    == [groups |-> <<>>, users |-> <<>>]

One(u) == [groups |-> (web :> low), users |-> (app :> u)]

\* Fills in and contradicts what the bundle brings.
Standard == With(std, Unset, [install |-> {vim}, remove |-> {nc}],
                 One([NewUser EXCEPT !.groups = {web}, !.sudo = nopasswd]), (data :> app), (swap :> high))

\* Names a preset of its own next to the bundle, and a key that is in the vault.
Secretive == With(std, slim, NoPackages, One([NewUser EXCEPT !.keys = {vaultKey}, !.shell = bash]), <<>>, <<>>)

Licensed  == With(Unset, pro, [install |-> {git}, remove |-> {}], NoUsers, (data :> root), <<>>)
Generated == With(Unset, Unset, [install |-> {git}, remove |-> {}], One([NewUser EXCEPT !.keys = {genKey}]), <<>>, <<>>)
Joining   == With(std, Unset, NoPackages, One([NewUser EXCEPT !.groups = {dba}]), <<>>, <<>>)
Both      == With(Unset, Unset, [install |-> {git}, remove |-> {git}], NoUsers, (logs :> app), <<>>)
Unknown   == With(rac, Unset, [install |-> {git}, remove |-> {}], NoUsers, <<>>, <<>>)

File(d, n) == [dir |-> d, name |-> n]

Linux(m)      == [kind |-> "Linux", manifest |-> m]
Env(h, e, r)  == [kind |-> "Env", head |-> h, extends |-> e, ref |-> r, inline |-> Unset]
Inline(e, m)  == [kind |-> "Env", head |-> "good", extends |-> e, ref |-> Unset, inline |-> m]

MCFiles ==
  (File(lab, linuxYaml) :> Linux(Standard))
  @@ (File(lab, envYaml) :> Env("good", Unset, File(Here, linuxYaml)))
  @@ (File(lab, dev) :> Env("open", File(Here, envYaml), Unset))
  @@ (File(lab, over) :> Inline(File(Here, dev), Secretive))
  @@ (File(prod, linuxYaml) :> Linux(Secretive))
  @@ (File(prod, envYaml) :> Env("open", File(lab, envYaml), Unset))
  @@ (File(prod, dev) :> Env("open", File(lab, over), File(lab, linuxYaml)))
  @@ (File(prod, over) :> Env("open", File(lab, over), Unset))
  @@ (File(lab, loop) :> Env("good", File(Here, loop), File(Here, linuxYaml)))
  @@ (File(lab, broken) :> Env("good", Unset, File(Here, envYaml)))
  @@ (File(lab, gen) :> Inline(Unset, Generated))
  @@ (File(lab, joins) :> Inline(Unset, Joining))
  @@ (File(lab, twice) :> Linux(Both))
  @@ (File(lab, pro) :> Linux(Licensed))
  @@ (File(lab, unknown) :> Linux(Unknown))

----------------------------------------------------------------------------

Bare == [c \in Categories |-> <<>>]

\* The account has another uid than the preset's.
Used ==
  [Bare EXCEPT !["packages"] = (nc :> "installed") @@ (git :> "installed"),
               !["users_groups"] = (<<"group", web>> :> low)
                                   @@ (<<"user", app>> :> [NewUser EXCEPT !.uid = low, !.sudo = nopasswd]),
               !["directories"] = (logs :> app) @@ (data :> root),
               !["sysctl"] = shm :> high]

\* As Standard means it, but for the sudo rule.
Near ==
  [Bare EXCEPT !["packages"] = (git :> "installed") @@ (vim :> "installed"),
               !["users_groups"] =
                  (<<"group", web>> :> low) @@ (<<"group", dba>> :> low)
                  @@ (<<"user", app>> :> [uid |-> high, groups |-> {dba, web}, shell |-> sh,
                                          keys |-> {key2}, sudo |-> Unset]),
               !["directories"] = (data :> app) @@ (logs :> root),
               !["sysctl"] = swap :> high]

MCHosts == {Bare, Used, Near}

Line(c, v, f, y, d, r) == [cmd |-> c, verb |-> v, file |-> f, yes |-> y, dry |-> d, remote |-> r]

Paths == DOMAIN MCFiles \union {File(prod, unknown)}

MCInvocations ==
  {Line(cv[1], cv[2], f, TRUE, FALSE, TRUE) :
     cv \in {<<"apply", "apply">>, <<"apply", "verify">>, <<"dir", "verify">>, <<"user", "apply">>},
     f \in Paths}
  \union {Line(cv[1], cv[2], f, FALSE, FALSE, FALSE) :
     cv \in {<<"apply", "apply">>, <<"apply", "plan">>, <<"apply", "rollback">>, <<"diff", "diff">>,
             <<"package", "apply">>, <<"user", "verify">>, <<"dir", "apply">>,
             <<"render", "render">>, <<"validate", "validate">>},
     f \in Paths}
  \union {Line(c, "apply", f, FALSE, TRUE, FALSE) : c \in {"apply", "package", "dir"}, f \in Paths}
=============================================================================
