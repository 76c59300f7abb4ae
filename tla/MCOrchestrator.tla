--------------------------- MODULE MCOrchestrator ---------------------------
(***************************************************************************)
(* Five managers for TLC, in their real order and of every temper:         *)
(*   1 package   asks the host for its distribution first; the package's   *)
(*               post-install script also creates the user and the group   *)
(*   2 user      groupadd and useradd fail on what exists; goes on after a *)
(*               failed change, but its rollback stops at a failed command *)
(*   3 mount     stops at its first failed change; mounting takes a tool   *)
(*               from the package and names the user                       *)
(*   4 firewall  ends with a reload, ignores failed undo commands          *)
(*   5 service   a unit that runs as the user: userdel refuses while it    *)
(*               runs; ignores failed undo commands                        *)
(* Every probe reads a failure as "not there".                             *)
(***************************************************************************)
EXTENDS Orchestrator

CONSTANTS pkg, grp, usr, mnt, port, svc

MCN == 5
MCChange == {pkg, grp, usr, mnt, port, svc}
MCWanted == <<<<pkg>>, <<grp, usr>>, <<mnt>>, <<port>>, <<svc>>>>
MCNeeds == [c \in MCChange |-> IF c = usr THEN {grp}
                              ELSE IF c = mnt THEN {pkg, usr}
                              ELSE IF c = svc THEN {usr} ELSE {}]
MCProvides == [c \in MCChange |-> IF c = pkg THEN {grp, usr} ELSE {}]
MCHides == [c \in MCChange |-> {}]
MCExclusive == {grp, usr}
MCQuiet == MCChange
MCUndoable == {pkg, grp, usr, port, svc}
MCStops == {3}
MCSwallows == {4, 5}
MCProbes == {1}
MCReloads == {4}
MCShared == {pkg, usr, svc}

\* The conditions under which the proofs speak of RollbackRestores hold of these.
ASSUME MCEffectsInOrder == NeedsComeFirst /\ CompanionsStand
=============================================================================
