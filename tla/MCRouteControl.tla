---------------------------- MODULE MCRouteControl ----------------------------
(* Small instances of RouteControl.  "a" and "a2" (a branch spelled with a     *)
(* slash or with a dash) are two identities with one hostname.                 *)
EXTENDS RouteControl, TLC

MCHostOf == [i \in Ids |-> IF i \in {"a", "a2"} THEN "host" ELSE i]

MCIds == {"a", "a2", "ui"}
MCLeaseA == {"a"}
MCLegacy == {"a2"}
MCSystem == {"ui"}
MCSystemHosts == {"web", "host"}
NoIds == {}

NoScans == {}
\* A scan finds nothing, or a server of its own on identity a2.
MCScans == {[i \in Ids |-> None], [[i \in Ids |-> None] EXCEPT !["a2"] = 2]}
=============================================================================
