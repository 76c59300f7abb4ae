---------------------------- MODULE ManagedHost ----------------------------
(***************************************************************************)
(* What one linuxctl process promises the owner of a host, whatever the    *)
(* managers are: the host changes only while the process is writing or     *)
(* undoing, writing puts a change in effect, and undoing takes away only   *)
(* what this very process put there.  A change is "in effect" when a Plan  *)
(* would no longer list it.                                                *)
(*                                                                         *)
(* Orchestrator implements this specification.                             *)
(***************************************************************************)
EXTENDS Naturals

CONSTANTS
  Change,    \* the changes the desired state may call for
  Provides,  \* Provides[c]: the changes that come into effect with c
  Hides      \* Hides[c]: the changes that stop being in effect with c

VARIABLES
  host,    \* the changes in effect on the host
  mode,    \* what the process is doing to the host
  mine,    \* the changes the process remembers having made
  drifts   \* how often somebody else has changed the host

vars == <<host, mode, mine, drifts>>

(***************************************************************************)
(* The host once the command of change c has done its work.                *)
(***************************************************************************)
AfterEffect(h, c) == ((h \union {c}) \union Provides[c]) \ Hides[c]

Init ==
  /\ host \in SUBSET Change
  /\ mode = "idle"
  /\ mine = {}
  /\ drifts = 0

Begin ==
  /\ mode = "idle"
  /\ mode' \in {"writing", "undoing"}
  /\ UNCHANGED <<host, mine, drifts>>

Write(c) ==
  /\ mode = "writing"
  /\ host' = AfterEffect(host, c)
  /\ mine' \in {mine, mine \union {c}}
  /\ UNCHANGED <<mode, drifts>>

Undo(c) ==
  /\ mode = "undoing"
  /\ c \in mine
  /\ host' = host \ {c}
  /\ UNCHANGED <<mode, mine, drifts>>

End ==
  /\ mode # "idle"
  /\ mode' = "idle"
  /\ UNCHANGED <<host, mine, drifts>>

\* The process ends, or is killed: the host stays as it is, the memory is gone.
Restart ==
  /\ mode' = "idle"
  /\ mine' = {}
  /\ UNCHANGED <<host, drifts>>

\* Somebody else puts a change in effect on the host, or takes one away.
Drift(c) ==
  /\ host' \in {host \union {c}, host \ {c}}
  /\ drifts' = drifts + 1
  /\ UNCHANGED <<mode, mine>>

Next ==
  \/ Begin
  \/ End
  \/ Restart
  \/ \E c \in Change : Write(c) \/ Undo(c) \/ Drift(c)

Spec == Init /\ [][Next]_vars
=============================================================================
