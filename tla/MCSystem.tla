------------------------------ MODULE MCSystem ------------------------------
(***************************************************************************)
(* A tool, its library and a daemon that needs the library; a manifest for *)
(* each of the ways in which the managers meet.                            *)
(***************************************************************************)
EXTENDS System

CONSTANTS tool, lib, daemon, unit, httpd, oldName, newName, dhcp, corp

MCNeeds     == (tool :> {lib}) @@ (daemon :> {lib}) @@ (lib :> {})
MCShippedBy == (unit :> daemon)

Service(u, e, s) == [unit |-> u, enabled |-> e, state |-> s]

Nil == [install |-> {}, remove |-> {}, services |-> <<>>, mode |-> Unset,
        booleans |-> <<>>, name |-> Unset, dns |-> Unset]

MCManifests ==
  {[Nil EXCEPT !.install = {daemon, tool}, !.services = <<Service(unit, TRUE, "running")>>],
   [Nil EXCEPT !.install = {lib}, !.remove = {tool}, !.services = <<Service(unit, FALSE, "stopped")>>],
   [Nil EXCEPT !.remove = {daemon}, !.services = <<Service(unit, FALSE, "stopped")>>],
   [Nil EXCEPT !.mode = "enforcing", !.booleans = (httpd :> TRUE), !.install = {tool}],
   [Nil EXCEPT !.mode = "permissive", !.name = newName, !.dns = corp],
   [Nil EXCEPT !.mode = "disabled", !.booleans = (httpd :> FALSE)]}

Bare == [installed |-> {}, unit |-> (unit :> Absent), config |-> "enforcing", running |-> "enforcing",
         on |-> {}, static |-> oldName, transient |-> oldName, dns |-> dhcp]

Running == [Bare EXCEPT !.installed = {lib, daemon, tool},
                        !.unit = (unit :> [file |-> "enabled", active |-> TRUE]),
                        !.on = {httpd}, !.config = "permissive", !.dns = Nothing]

\* SELinux was enabled in the file and the host not rebooted yet.
Pending == [Bare EXCEPT !.installed = {lib}, !.config = "permissive", !.running = "disabled"]

Off == [Bare EXCEPT !.installed = {lib, daemon}, !.unit = (unit :> [file |-> "static", active |-> FALSE]),
                    !.config = "disabled", !.running = "disabled", !.transient = newName]

Without == [Bare EXCEPT !.installed = {lib, daemon}, !.unit = (unit :> [file |-> "masked", active |-> TRUE]),
                        !.config = Unset, !.running = Unset]

MCHosts == {Bare, Running, Pending, Off, Without}
=============================================================================
