----------------------------- MODULE MCAccounts -----------------------------
(***************************************************************************)
(* The example of the manual: oracle in oinstall and dba, with a manifest  *)
(* that names the primary group among the groups, and one that does not;   *)
(* and a manifest that leaves the home to the host.                        *)
(***************************************************************************)
EXTENDS Accounts

CONSTANTS oracle, oinstall, dba, home, u01, bash, nologin, hash, nopasswd, k1, k2

MCGroupOrder == <<oinstall, dba>>
MCUserOrder  == <<oracle>>

Oracle ==
  [uid |-> 1, gid |-> oinstall, groups |-> {oinstall, dba}, home |-> u01, shell |-> bash,
   keys |-> {k1}, password |-> hash, sudo |-> nopasswd]

MCManifests ==
  {[groups |-> (oinstall :> 1) @@ (dba :> 2), users |-> (oracle :> [Oracle EXCEPT !.home = home]),
    authorized |-> (oracle :> {k1})],
   [groups |-> (dba :> 2), users |-> (oracle :> [Oracle EXCEPT !.groups = {dba}]),
    authorized |-> <<>>],
   [groups |-> (oinstall :> None), users |-> (oracle :> [Oracle EXCEPT !.uid = None, !.home = None, !.groups = {}]),
    authorized |-> (oracle :> {k2})]}

Bare == [gid |-> (oinstall :> None) @@ (dba :> None), acct |-> (oracle :> None),
         keys |-> (oracle :> [x \in Homes |-> {}]), sudo |-> (oracle :> None)]

MCHosts ==
  {Bare,
   [Bare EXCEPT !.gid[oinstall] = 1, !.gid[dba] = 3],
   [Bare EXCEPT !.gid[oinstall] = 2,
                !.acct[oracle] = [uid |-> 1, primary |-> oinstall, supp |-> {}, home |-> home,
                                  shell |-> nologin, password |-> None],
                !.keys[oracle][home] = {k2}]}
=============================================================================
