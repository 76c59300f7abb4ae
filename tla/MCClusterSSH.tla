---------------------------- MODULE MCClusterSSH ----------------------------
(* Two nodes of a cluster, the two default accounts, one administrator's key. *)
EXTENDS ClusterSSH

CONSTANTS grid, oracle, admin, bastion

MCUsers == <<grid, oracle>>
\* Every account exists, or grid has none on the second node.
MCHosted == {Node \X User, (Node \X User) \ {<<2, grid>>}}
\* No keys, all keys, or some; one account's public half may be empty.
Keys(g1, o1, g2, o2) ==
  [n \in Node |-> [u \in User |-> IF n = 1 THEN IF u = grid THEN g1 ELSE o1
                                 ELSE IF u = grid THEN g2 ELSE o2]]
MCFound == {Keys("none", "none", "none", "none"), Keys("whole", "none", "none", "whole"),
            Keys("whole", "empty", "none", "none"), Keys("whole", "whole", "whole", "empty")}
MCOutside == {bastion}
MCOthers == {admin}
=============================================================================
