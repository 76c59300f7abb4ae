----------------------------- MODULE MCOwnedFile -----------------------------
(***************************************************************************)
(* Two keys of which one may be refused, two values, manifests that        *)
(* declare nothing, one key or both, and a file that is missing, somebody  *)
(* else's, or what an earlier manifest left.                               *)
(***************************************************************************)
EXTENDS OwnedFile

CONSTANTS shmmax, unknown, small, big

MCKeyOrder  == <<shmmax, unknown>>
MCManifests == {shmmax :> big, (shmmax :> big) @@ (unknown :> small), <<>>}
MCFiles     ==
  {Absent, <<>>, <<Header, <<shmmax, small>>>>, <<Header, <<shmmax, big>>>>,
   <<<<unknown, small>>, <<shmmax, big>>>>}
=============================================================================
