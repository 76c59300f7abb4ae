------------------------------ MODULE MCMounts ------------------------------
(***************************************************************************)
(* Two points, one below the other, a share of each kind, and hosts that   *)
(* are bare or hold an earlier mount and an fstab line.                    *)
(***************************************************************************)
EXTENDS Mounts

CONSTANTS data, sub, nfs, cifs, bind, tmp, disk, oracle

MCAbove == (data :> {}) @@ (sub :> {data})
MCType  == (nfs :> "nfs") @@ (cifs :> "cifs") @@ (bind :> "bind") @@ (tmp :> "tmpfs") @@ (disk :> "bind")

Dir(p, o)      == [point |-> p, owner |-> o]
Mount(p, s, k) == [point |-> p, source |-> s, persistent |-> k]

MCManifests ==
  {[dirs |-> <<Dir(data, oracle), Dir(sub, oracle)>>, mounts |-> <<Mount(data, nfs, FALSE), Mount(sub, tmp, FALSE)>>],
   [dirs |-> <<Dir(sub, Unset)>>, mounts |-> <<Mount(sub, cifs, FALSE), Mount(data, bind, FALSE)>>],
   [dirs |-> <<>>, mounts |-> <<Mount(data, nfs, TRUE)>>]}

Bare == [table |-> <<>>,
         owner |-> [o \in {<<s, Root>> : s \in {nfs, cifs, bind, disk}} |-> Plain],
         creds |-> [s \in Sources |-> "none"], fstab |-> {}]

\* A disk is mounted at data, and the share too, for good.
Used == [Bare EXCEPT
          !.table = <<[point |-> data, source |-> disk, fs |-> disk], [point |-> data, source |-> nfs, fs |-> nfs]>>,
          !.owner = (<<Root, data>> :> Plain) @@ Bare.owner,
          !.fstab = {[source |-> nfs, point |-> data]}]

\* An empty directory, and the share mounted below it.
Below == [Bare EXCEPT
          !.table = <<[point |-> sub, source |-> cifs, fs |-> cifs]>>,
          !.owner = (<<Root, data>> :> Plain) @@ (<<Root, sub>> :> oracle) @@ Bare.owner,
          !.creds[cifs] = "good"]

MCHosts == {Bare, Used, Below}
=============================================================================
