----------------------------- MODULE MCHostsFile -----------------------------
(***************************************************************************)
(* Two lines of other people, one of which gives rac01 another address,    *)
(* two declared entries, and files without a block, or with one in the     *)
(* middle; a block at the end, and what a cut-off write leaves of one,     *)
(* come about in the run.                                                  *)
(***************************************************************************)
EXTENDS HostsFile

CONSTANTS localhost, oldrac01, rac01, rac02

MCClash  == {<<oldrac01, rac01>>}
MCBlocks == {<<rac01>>, <<rac01, rac02>>}
MCBodies ==
  {<<localhost, oldrac01, Blank>>,
   <<localhost, Begin, rac02, End, oldrac01, Blank>>}
=============================================================================
