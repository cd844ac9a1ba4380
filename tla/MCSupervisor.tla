----------------------------- MODULE MCSupervisor -----------------------------
(* Small instances of Supervisor: a database that is created by a command, a   *)
(* server that needs it, and a site that needs the server.                     *)
EXTENDS Supervisor, TLC

MCServices == {"db", "api", "web"}
MCOrder == <<"db", "api", "web">>

Chain == [s \in MCServices |-> CASE s = "db" -> {} [] s = "api" -> {"db"} [] s = "web" -> {"api"}]
Fork == [s \in MCServices |-> IF s = "db" THEN {} ELSE {"db"}]

\* A created resource under two continuing services, the first with a listener to
\* discover and a route; two resources, the second on top of the first, the first with
\* a required route, and a job beside the second; jobs only, with a required and an
\* optional route.
MCPlans == {
    [needs |-> Chain, exits |-> {"db"}, resources |-> {"db"}, routed |-> {"api"},
     required |-> {"api"}, listens |-> {"api"}],
    [needs |-> Fork, exits |-> MCServices, resources |-> {"db", "api"}, routed |-> {"db"},
     required |-> {"db"}, listens |-> {}],
    [needs |-> Chain, exits |-> MCServices, resources |-> {}, routed |-> {"db", "web"},
     required |-> {"web"}, listens |-> {"db"}]}

=============================================================================
