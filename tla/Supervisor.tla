------------------------------ MODULE Supervisor ------------------------------
(***************************************************************************)
(* The supervisor of a development session                                 *)
(* (internal/devsession/supervisor/supervisor.go), with the parts of the   *)
(* command runner (internal/devsession/command/runner.go) and of the route *)
(* manager (internal/devsession/routes/manager.go) it drives.              *)
(*                                                                         *)
(* Run, the main loop, starts one worker per service once the service's    *)
(* dependencies are ready, and learns of everything that happens from one  *)
(* bounded queue of events.  The workers (runService), the processes they  *)
(* start, the route failures, the goroutine that forwards these to the     *)
(* queue and the user's interrupt interleave with it.                      *)
(*                                                                         *)
(* Abstractions.  A process is alive, exited with status zero ("ok") or    *)
(* dead; the descendants it leaves in its process group are not modelled.  *)
(* Recovering and Active are one state of a route, the code tests them     *)
(* together.  The event log and what OnEvent reports are left out.  A      *)
(* process that is told to stop stops: Terminate ends with a SIGKILL.      *)
(***************************************************************************)
EXTENDS Naturals, Sequences, SequencesExt

CONSTANTS
    Services,
    Order,      \* Plan.Order: the services, dependencies first
    Plans       \* the session plans Run may be called with

\* A plan: what each service depends on, and which services complete by exiting,
\* have a shutdown command, have a route, have a route that is not optional, and
\* have a step between the start and the wait that can fail (the discovery of a
\* listener, the expansion of an endpoint).
Plan == [needs : [Services -> SUBSET Services], exits : SUBSET Services,
         resources : SUBSET Services, routed : SUBSET Services,
         required : SUBSET Services, listens : SUBSET Services]

ASSUME OrderIsOfServices == Order \in Seq(Services)
ASSUME OrderIsComplete == \A s \in Services : \E k \in DOMAIN Order : Order[k] = s
ASSUME OrderIsStrict == \A j, k \in DOMAIN Order : Order[j] = Order[k] => j = k
ASSUME PlansAreSound == \A p \in Plans :
    /\ p \in Plan
    /\ p.required \subseteq p.routed
    /\ \A k \in DOMAIN Order : \A d \in p.needs[Order[k]] : \E j \in 1..(k-1) : Order[j] = d

VARIABLES
    plan,       \* the session plan, fixed
    main,       \* progress of Run
    states,     \* Run's view of each service
    active,     \* services with a worker whose last event is not consumed
    registered, \* services whose shutdown command is to run
    primary,    \* primaryErr # nil (and then runCtx is cancelled)
    heard,      \* externalDone has been received
    outcome,    \* what Run returns
    events,     \* the queue
    worker,     \* progress of each runService
    proc,       \* each service's process
    route,      \* each service's entry in the route manager
    failing,    \* route failures that have not reached the queue
    interrupted,\* the context Run was given is cancelled
    ran,        \* shutdown commands, in the order they were started
    skipped     \* services whose shutdown command could not be started

loop == <<main, states, active, registered, primary, heard, outcome>>
vars == <<plan, loop, events, worker, proc, route, failing, interrupted, ran, skipped>>

Kinds == {"starting", "ready", "success", "failed", "stopped", "shutdown", "route"}
Terminal == {"success", "failed", "stopped"}
Event(kind, s) == [kind |-> kind, service |-> s]

\* Variant: room for one event per service.
CapacityForStarts == Len(Order)

\* The queue's capacity, and whether another event fits.
Capacity == 4 * Len(Order) + 1
Room == Len(events) < Capacity

\* Variant: a failure does not cancel the context.
CancelledByInterrupt == interrupted

\* runCtx.Err() # nil.
Cancelled == interrupted \/ primary

-----------------------------------------------------------------------------
(* Run: the main loop.                                                     *)

Init == /\ plan \in Plans
        /\ main = "loop"
        /\ states = [s \in Services |-> "pending"]
        /\ active = {} /\ registered = {}
        /\ primary = FALSE /\ heard = FALSE /\ outcome = "none"
        /\ events = <<>>
        /\ worker = [s \in Services |-> "idle"]
        /\ proc = [s \in Services |-> "none"]
        /\ route = [s \in Services |-> "none"]
        /\ failing = {} /\ interrupted = FALSE /\ ran = <<>> /\ skipped = {}

\* Variant: a started dependency is enough.
DependenciesStarted(s) == \A d \in plan.needs[s] : states[d] \in {"starting", "ready", "success"}

DependenciesReady(s) == \A d \in plan.needs[s] : states[d] \in {"ready", "success"}
DependencyFailed(s) == \E d \in plan.needs[s] : states[d] \in {"failed", "blocked", "stopped"}

\* RouteManager.Active
RoutesActive == \E s \in Services : route[s] = "active"

\* The top of the loop: a scheduling pass, unless the session is ending.
Loop == /\ main = "loop" /\ ~Cancelled
        /\ main' = "schedule"
        /\ UNCHANGED <<plan, states, active, registered, primary, heard, outcome, events,
                       worker, proc, route, failing, interrupted, ran, skipped>>

\* The pass, one service at a time: the first pending one (starting or blocking a
\* service never makes an earlier one eligible) is blocked or started.
Eligible == {k \in DOMAIN Order : /\ states[Order[k]] = "pending"
                                  /\ DependencyFailed(Order[k]) \/ DependenciesReady(Order[k])}
Schedule ==
    /\ main = "schedule" /\ Eligible # {}
    /\ LET s == Order[CHOOSE k \in Eligible : \A j \in Eligible : k <= j] IN
       IF DependencyFailed(s)
       THEN /\ states' = [states EXCEPT ![s] = "blocked"]
            /\ UNCHANGED <<active, events, worker>>
       ELSE /\ Room
            /\ states' = [states EXCEPT ![s] = "starting"]
            /\ active' = active \cup {s}
            /\ events' = Append(events, Event("starting", s))
            /\ worker' = [worker EXCEPT ![s] = "starting"]
    /\ UNCHANGED <<plan, main, registered, primary, heard, outcome, proc, route, failing,
                   interrupted, ran, skipped>>

\* Whether the loop has nothing to wait for but an interrupt.
Settled == /\ active = {} /\ ~primary /\ ~interrupted
           /\ \A s \in Services : states[s] \notin {"pending", "starting", "ready"}
Complete == Settled /\ registered = {} /\ ~RoutesActive

\* With no worker left Run ends: in error or because it was interrupted, after
\* the cleanup; or because every service has completed and holds nothing.
Decide ==
    /\ \/ main = "loop" /\ Cancelled
       \/ main = "schedule" /\ Eligible = {}
    /\ \/ /\ active = {} /\ Cancelled
          /\ main' = "release"
          /\ outcome' = IF primary THEN "failed" ELSE "stopped"
          /\ states' = IF primary
                       THEN [s \in Services |-> IF states[s] = "pending" THEN "blocked"
                                                ELSE states[s]]
                       ELSE states
       \/ /\ Complete
          /\ main' = "ended" /\ outcome' = "ok"
          /\ UNCHANGED states
       \/ /\ ~(active = {} /\ Cancelled) /\ ~Complete
          /\ main' = "select"
          /\ UNCHANGED <<states, outcome>>
    /\ UNCHANGED <<plan, active, registered, primary, heard, events, worker, proc,
                   route, failing, interrupted, ran, skipped>>

\* select: the interrupt ...
HearInterrupt ==
    /\ main = "select" /\ interrupted /\ ~heard
    /\ heard' = TRUE /\ main' = "loop"
    /\ UNCHANGED <<plan, states, active, registered, primary, outcome, events, worker,
                   proc, route, failing, interrupted, ran, skipped>>

\* What an event says of its service ...
StatesAfter(e) == IF e.kind \in Terminal \cup {"ready"}
                  THEN [states EXCEPT ![e.service] = e.kind] ELSE states

\* ... and whether it is the failure the session ends with: the first one, of a
\* service or of a required route, unless the session is already ending.
IsPrimary(e) == /\ ~Cancelled
                /\ e.kind = "failed" \/ (e.kind = "route" /\ e.service \in plan.required)

\* ... or the next event.
Consume ==
    /\ main = "select" /\ events # <<>>
    /\ main' = "loop"
    /\ events' = Tail(events)
    /\ LET e == Head(events) IN
       /\ registered' = IF e.kind = "shutdown" THEN registered \cup {e.service} ELSE registered
       /\ active' = IF e.kind \in Terminal THEN active \ {e.service} ELSE active
       /\ states' = StatesAfter(e)
       /\ primary' = (primary \/ IsPrimary(e))
    /\ UNCHANGED <<plan, heard, outcome, worker, proc, route, failing, interrupted, ran, skipped>>

\* releaseRoutesAndShutdown: first every lease is stopped (an error is only
\* joined to the result) ...
ReleaseRoutes ==
    /\ main = "release"
    /\ main' = "shutdown"
    /\ route' = [s \in Services |-> IF route[s] = "none" THEN "none" ELSE "released"]
    /\ outcome' \in {outcome, "failed"}
    /\ UNCHANGED <<plan, states, active, registered, primary, heard, events, worker, proc,
                   failing, interrupted, ran, skipped>>

\* Variant: dependencies first.
FirstToStop(ks) == CHOOSE k \in ks : \A j \in ks : k <= j

\* ... then the shutdown commands are run, dependents first: one starts, and may
\* fail or be late, or its command cannot be expanded or started. Either way the
\* error is joined to the result and the next one has its turn.
NextToStop(ks) == CHOOSE k \in ks : \A j \in ks : j <= k
Handled == ToSet(ran) \cup skipped
Unhandled == {k \in DOMAIN Order : Order[k] \in registered \ Handled}
RunShutdown ==
    /\ main = "shutdown"
    /\ \/ /\ Unhandled # {}
          /\ ran' = Append(ran, Order[NextToStop(Unhandled)])
          /\ outcome' \in {outcome, "failed"}
          /\ UNCHANGED <<main, skipped>>
       \/ /\ Unhandled # {}
          /\ skipped' = skipped \cup {Order[NextToStop(Unhandled)]}
          /\ outcome' = "failed"
          /\ UNCHANGED <<main, ran>>
       \/ /\ Unhandled = {}
          /\ main' = "ended"
          /\ UNCHANGED <<ran, skipped, outcome>>
    /\ UNCHANGED <<plan, states, active, registered, primary, heard, events, worker, proc,
                   route, failing, interrupted>>

-----------------------------------------------------------------------------
(* runService: one worker per service.                                     *)

\* Variant: the process is left to its context.
Unterminated(s) == proc

\* emit of a last state: the process is terminated, then the event is sent.
Terminated(s) == [proc EXCEPT ![s] = IF @ = "alive" THEN "dead" ELSE @]
End(s, kind) ==
    /\ Room
    /\ proc' = Terminated(s)
    /\ events' = Append(events, Event(kind, s))
    /\ worker' = [worker EXCEPT ![s] = "done"]
    /\ UNCHANGED <<plan, loop, failing, interrupted, ran, skipped>>
Finish(s, kind) == End(s, kind) /\ UNCHANGED route

\* A failure is reported as a stop when the session is ending; which of them it
\* is has been decided before the process is terminated and the event is sent.
Verdicts == IF Cancelled THEN {"stopped", "failed"} ELSE {"failed"}
Fail(s) == \E kind \in Verdicts : Finish(s, kind)

Continue(s, pc) ==
    /\ worker' = [worker EXCEPT ![s] = pc]
    /\ UNCHANGED <<plan, loop, events, proc, route, failing, interrupted, ran, skipped>>

\* The service is prepared and Runner.Start finds the session alive; from there
\* on it no longer looks whether it is ...
Admit(s) == worker[s] = "starting" /\ ~Cancelled /\ Continue(s, "forking")

\* ... the process starts, whatever has happened since ...
Launch(s) == /\ worker[s] = "forking"
             /\ proc' = [proc EXCEPT ![s] = "alive"]
             /\ worker' = [worker EXCEPT ![s] = "launched"]
             /\ UNCHANGED <<plan, loop, events, route, failing, interrupted, ran, skipped>>

\* ... or the preparation, the look or the start fails.
LaunchFails(s) == worker[s] \in {"starting", "forking"} /\ Fail(s)

\* Listener discovery and the expansion of endpoints.
Resolve(s) == /\ worker[s] = "launched"
              /\ Continue(s, IF s \in plan.exits THEN "waiting" ELSE "probing")
ResolveFails(s) == /\ worker[s] = "launched" /\ s \in plan.listens
                   /\ Finish(s, "failed")

\* Variant: nothing is registered once the session is ending.
RegistersUnlessCancelled(s) == proc[s] = "ok" /\ s \in plan.resources /\ ~Cancelled

\* An exit-completing service: its command must succeed; the shutdown command is
\* registered before anything else is looked at.
Registers(s) == proc[s] = "ok" /\ s \in plan.resources
AwaitExit(s) ==
    /\ worker[s] = "waiting" /\ proc[s] \in {"ok", "dead"}
    /\ IF Registers(s) THEN Room /\ events' = Append(events, Event("shutdown", s))
                       ELSE UNCHANGED events
    /\ worker' = [worker EXCEPT ![s] = "exited"]
    /\ UNCHANGED <<plan, loop, proc, route, failing, interrupted, ran, skipped>>

JudgeExit(s) == /\ worker[s] = "exited"
                /\ IF Cancelled \/ proc[s] = "dead" THEN Fail(s) ELSE Continue(s, "probing")

\* readiness.Check: bounded by its timeout, cut short when the session ends or
\* the process of a continuing service does.
Probe(s) == worker[s] = "probing" /\ Continue(s, "activating")
ProbeFails(s) == worker[s] = "probing" /\ Fail(s)

\* activateRoute: the lease is acquired; or it is not, which an optional route
\* survives.
Activate(s) == /\ worker[s] = "activating" /\ s \in plan.routed /\ route[s] = "none"
               /\ \E r \in {"active"} \cup IF s \in plan.required THEN {} ELSE {"unavailable"} :
                     route' = [route EXCEPT ![s] = r]
               /\ worker' = [worker EXCEPT ![s] = "ready"]
               /\ UNCHANGED <<plan, loop, events, proc, failing, interrupted, ran, skipped>>
NothingToActivate(s) == /\ worker[s] = "activating" /\ s \notin plan.routed
                        /\ Continue(s, "ready")
ActivateFails(s) == /\ worker[s] = "activating" /\ s \in plan.required
                    /\ route' = [route EXCEPT ![s] = "failed"]
                    /\ \E kind \in Verdicts : End(s, kind)

ReportReady(s) == /\ worker[s] = "ready" /\ Room
                  /\ events' = Append(events, Event("ready", s))
                  /\ worker' = [worker EXCEPT ![s] = "serving"]
                  /\ UNCHANGED <<plan, loop, proc, route, failing, interrupted, ran, skipped>>

\* After readiness an exit-completing service has succeeded; a continuing one
\* is expected never to exit.
Succeed(s) == worker[s] = "serving" /\ s \in plan.exits /\ Finish(s, "success")
ServiceExits(s) == /\ worker[s] = "serving" /\ s \notin plan.exits
                   /\ proc[s] \in {"ok", "dead"}
                   /\ Fail(s)

-----------------------------------------------------------------------------
(* The surroundings.                                                       *)

\* A process ends by itself, or because its context is cancelled.
Exit(s) == /\ proc[s] = "alive"
           /\ \E status \in {"ok", "dead"} : proc' = [proc EXCEPT ![s] = status]
           /\ UNCHANGED <<plan, loop, events, worker, route, failing, interrupted, ran, skipped>>

\* A lease is lost for good (a conflict, or a recovery that takes too long).
RouteFails(s) == /\ route[s] = "active"
                 /\ route' = [route EXCEPT ![s] = "failed"]
                 /\ failing' = failing \cup {s}
                 /\ UNCHANGED <<plan, loop, events, worker, proc, interrupted, ran, skipped>>

\* The failure reaches the queue.
Forward(s) == /\ s \in failing /\ Room /\ main # "ended"
              /\ failing' = failing \ {s}
              /\ events' = Append(events, Event("route", s))
              /\ UNCHANGED <<plan, loop, worker, proc, route, interrupted, ran, skipped>>

Interrupt == /\ ~interrupted /\ main # "ended"
             /\ interrupted' = TRUE
             /\ UNCHANGED <<plan, loop, events, worker, proc, route, failing, ran, skipped>>

Returned == main = "ended" /\ UNCHANGED vars

Run == Loop \/ Schedule \/ Decide \/ HearInterrupt \/ Consume
           \/ ReleaseRoutes \/ RunShutdown
RunService(s) ==
    \/ Admit(s) \/ Launch(s) \/ LaunchFails(s) \/ Resolve(s) \/ ResolveFails(s)
    \/ AwaitExit(s) \/ JudgeExit(s) \/ Probe(s) \/ ProbeFails(s) \/ Activate(s) \/ NothingToActivate(s)
    \/ ActivateFails(s) \/ ReportReady(s) \/ Succeed(s) \/ ServiceExits(s)

Next == \/ Run
        \/ \E s \in Services : RunService(s) \/ Exit(s) \/ RouteFails(s) \/ Forward(s)
        \/ Interrupt
        \/ Returned

Spec == Init /\ [][Next]_vars

\* Goroutines are scheduled; a process whose context is cancelled is killed.
\* Nothing makes a process exit by itself, a route fail, or the user interrupt.
Fairness == /\ WF_vars(Run)
            /\ \A s \in Services : /\ WF_vars(RunService(s))
                                   /\ WF_vars(Cancelled /\ Exit(s))
                                   /\ WF_vars(Forward(s))
FairSpec == Spec /\ Fairness

-----------------------------------------------------------------------------
(* Properties.                                                             *)

\* Every variable has its type, and the queue stays within its capacity.
TypeOK ==
    /\ plan \in Plans
    /\ main \in {"loop", "schedule", "select", "release", "shutdown", "ended"}
    /\ states \in [Services -> {"pending", "blocked", "starting", "ready"} \cup Terminal]
    /\ active \subseteq Services /\ registered \subseteq Services
    /\ primary \in BOOLEAN /\ heard \in BOOLEAN /\ interrupted \in BOOLEAN
    /\ outcome \in {"none", "ok", "failed", "stopped"}
    /\ events \in Seq([kind : Kinds, service : Services]) /\ Len(events) <= Capacity
    /\ worker \in [Services -> {"idle", "starting", "forking", "launched", "waiting", "exited",
                                "probing", "activating", "ready", "serving", "done"}]
    /\ proc \in [Services -> {"none", "alive", "ok", "dead"}]
    /\ route \in [Services -> {"none", "active", "unavailable", "failed", "released"}]
    /\ failing \subseteq Services
    /\ ran \in Seq(Services) /\ skipped \subseteq Services

\* A process is started only over dependencies that are up: an exit-completing
\* dependency has exited with status zero, and the route of a dependency has
\* been acquired (or given up, if it is optional) - dependenciesReady against
\* the order of the worker's own steps.
StartsOverDependencies ==
    \A s \in Services : proc[s] # "none" => \A d \in plan.needs[s] :
        /\ d \in plan.exits => proc[d] = "ok"
        /\ d \in plan.routed => route[d] # "none"

\* When Run has returned no process it started is alive, no worker is left and
\* no route is being kept alive; and it returns without an error, uninterrupted,
\* only when every service succeeded and none has left a resource that a
\* shutdown command would stop.
NothingOutlivesRun ==
    /\ main = "ended" => \A s \in Services :
          proc[s] # "alive" /\ worker[s] \in {"idle", "done"} /\ route[s] # "active"
    /\ outcome = "ok" => /\ \A s \in Services : states[s] = "success" /\ proc[s] = "ok"
                         /\ plan.resources \cap plan.exits = {}

\* The start command of s has succeeded: whatever it created exists.
Created(s) == s \in plan.resources \cap plan.exits /\ proc[s] = "ok"

\* "An exit-completing service's shutdown command is registered once its start
\* command succeeds, even if readiness later fails"
\* (docs/configuration-driven-development-sessions.md:212): however the session
\* ends, what was created has been stopped, or Run returns an error because the
\* command that would have stopped it could not be started (runShutdownCommands).
\* Not so a service with a listener to discover or an endpoint to expand: that may
\* fail between its start and the registration.
CreatedIsStoppedOrReported ==
    main = "ended" => \A s \in Services \ plan.listens : Created(s) =>
        s \in ToSet(ran) \/ (s \in skipped /\ outcome = "failed")

\* A shutdown command starts only when every process is gone and every route is
\* released, after the shutdown commands of the services that depend on its
\* own had their turn, and for a service whose command did succeed.
ShutdownIsLast ==
    [][ran' # ran =>
        /\ \A s \in Services : proc[s] # "alive" /\ route[s] \in {"none", "released"}
        /\ LET s == Last(ran') IN
           /\ Created(s) /\ s \notin Handled
           /\ \A t \in registered : s \in plan.needs[t] => t \in Handled]_vars

\* Run never waits for room in the queue that only it empties: whenever it is
\* about to start a service there is room for the event it sends itself.
RunNeverBlocks == main = "schedule" /\ Eligible # {} => Room

\* Whatever ends a session does end it: an interrupt, a process that fails, a
\* continuing service that exits or a required route that is lost.
Trouble == \/ Cancelled
           \/ \E s \in Services : proc[s] \in {"dead"} \cup IF s \in plan.exits THEN {} ELSE {"ok"}
           \/ \E s \in plan.required : route[s] = "failed"
TroubleEndsRun == Trouble ~> main = "ended"

-----------------------------------------------------------------------------
(* What the session sees of Run is what the module Supervision promises.   *)

Phase == CASE main \in {"release", "shutdown"} -> "cleaning"
           [] main = "ended" -> "returned"
           [] OTHER -> "open"
Admitted == {s \in Services : worker[s] = "forking"}
Begun == {s \in Services : proc[s] # "none"}
Running == {s \in Services : proc[s] = "alive"}
Result == IF main = "ended" THEN outcome ELSE "none"

Promise == INSTANCE Supervision WITH
    needs <- plan.needs, phase <- Phase, due <- Admitted, begun <- Begun, up <- Running,
    owed <- registered, stopped <- ToSet(ran), missed <- skipped, cancelled <- interrupted,
    result <- Result

ImplementsSupervision == Promise!Spec
=============================================================================
