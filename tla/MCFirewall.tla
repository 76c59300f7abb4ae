----------------------------- MODULE MCFirewall -----------------------------
(***************************************************************************)
(* Two zones, a port and a source, and three manifests: one that declares  *)
(* one zone, one that declares both and no rule for one of them, and one   *)
(* that wants no firewall.                                                 *)
(***************************************************************************)
EXTENDS Firewall

CONSTANTS public, default, ssh, lan

In(z, n) == [zone |-> z, name |-> n]

MCKind == (ssh :> "port") @@ (lan :> "source")

MCManifests ==
  {[enabled |-> TRUE,  zones |-> {public}, rules |-> {In(public, ssh), In(public, lan)}],
   [enabled |-> TRUE,  zones |-> {public, default}, rules |-> {In(default, ssh)}],
   [enabled |-> FALSE, zones |-> {}, rules |-> {}]}
=============================================================================
