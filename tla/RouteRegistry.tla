---------------------------- MODULE RouteRegistry ----------------------------
(***************************************************************************)
(* What docs/architecture.md promises of a route transaction, without its  *)
(* steps: the registry and the document Traefik reads change together or   *)
(* not at all, no two routes share a hostname, and readiness tells whether *)
(* the last transaction was published.  RouteControl implements it when    *)
(* renewals are timely and process discovery is off.                       *)
(***************************************************************************)
CONSTANT Routers    \* the (hostname, port) pairs a document may hold

VARIABLES
    registry,   \* the routes the daemon has committed
    document,   \* the routes Traefik serves
    status      \* "down", "behind" or "ready": GET /ready answers 200 when "ready"

OneHostEach(R) == \A r, s \in R : r.host = s.host => r = s

Init == registry = {} /\ document = {} /\ status = "down"

\* A transaction commits.
Publish ==
    /\ registry' \in SUBSET Routers
    /\ OneHostEach(registry')
    /\ document' = registry'
    /\ status' = "ready"

\* A transaction is under way or has failed: nothing that is served changes.
Hold ==
    /\ status \in {"ready", "behind"}
    /\ status' = "behind"
    /\ UNCHANGED <<registry, document>>

\* The daemon starts again with an empty registry; the document is on disk.
Restart == registry' = {} /\ status' = "down" /\ UNCHANGED document

Next == Publish \/ Hold \/ Restart

Spec == Init /\ [][Next]_<<registry, document, status>>

\* What the steps keep true: the document is the registry of a daemon that is up.
DocumentIsRegistry == status # "down" => document = registry
=============================================================================
