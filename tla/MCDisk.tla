------------------------------- MODULE MCDisk -------------------------------
(***************************************************************************)
(* Three disks besides the system disk, and manifests with two entries:    *)
(* both by tag, both by device, or one of each, in either order.           *)
(***************************************************************************)
EXTENDS Disk

CONSTANTS data, arch, u01, u02, xfs, ext4

Entry(d, v, l) == [dev |-> d, vg |-> v, lvs |-> <<l>>]
MCLayouts ==
  {<<Entry(x, data, u01), Entry(y, arch, u02)>> :
     x \in {Tagged, 1}, y \in {Tagged, 2}}
  \union {<<[dev |-> 1, vg |-> data, lvs |-> <<u01, u02>>]>>}
MCWantFS == [l \in {u01, u02} |-> xfs]
=============================================================================
