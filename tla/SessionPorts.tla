---------------------------- MODULE SessionPorts ----------------------------
(***************************************************************************)
(* From a session's configuration to the numbers its services are told:    *)
(* the choice of the services and of their order (devsession/plan), the    *)
(* ports given to the names of the configuration (devsession/ports), the   *)
(* recheck before each start and the discovery of a listener               *)
(* (devsession/session and devsession/supervisor), while other processes   *)
(* of the machine open and close listeners.                                *)
(*                                                                         *)
(* Services and port names are numbers, in the order the code sorts their  *)
(* names.  Abstractions: of a service's text only the ports it mentions    *)
(* are kept; the fields checked one by one (validateService) and the       *)
(* identity of a route are left out; a route has the number of its port    *)
(* name, which the code copies wherever that changes; a service's process  *)
(* opens the listeners of all the ports it owns in one step.  How the      *)
(* supervisor's loop learns of a worker's progress is module Supervisor.   *)
(***************************************************************************)
EXTENDS Naturals, Sequences, FiniteSets, SequencesExt

CONSTANTS
    Services,
    PortNames,
    Top,        \* the last port number, 65535
    Configs     \* the configurations, and the machines, a session may be started with

None == 0
Numbers == 1..Top

\* A configuration: what each service depends on, the services asked for, the
\* declared ports with their mode and its one or two bounds, the port of each
\* service's route, the ports each service's text and the shared environment
\* mention, the services with an optional route, those that complete by exiting
\* and have a shutdown command, and whether the daemon answers; the numbers other
\* processes of the machine listen on at first and, a bound of the model, how many
\* listeners these open or close later.
Config == [needs : [Services -> SUBSET Services], roots : (SUBSET Services) \ {{}},
           declared : SUBSET PortNames,
           mode : [PortNames -> {"fixed", "first_free", "random", "discover"}],
           low : [PortNames -> Numbers], high : [PortNames -> Numbers],
           route : [Services -> PortNames \cup {None}],
           mentions : [Services -> SUBSET PortNames], shared : SUBSET PortNames,
           optional : SUBSET Services, resources : SUBSET Services, daemon : BOOLEAN,
           taken : SUBSET Numbers, moves : Nat]

ASSUME NamesAreSorted == Services \subseteq Nat \ {None} /\ PortNames \subseteq Nat \ {None}
\* A configuration is a file.
ASSUME NamesAreFinite == IsFiniteSet(Services) /\ IsFiniteSet(PortNames)
\* Bounds are ordered (modeOf), and the model leaves out a service that completes by
\* exiting and is asked for a listener of its own.
ASSUME ConfigsAreSound == \A c \in Configs :
    /\ c \in Config
    /\ \A p \in PortNames : c.low[p] <= c.high[p]
    /\ \A s \in c.resources : \A p \in PortNames : c.mode[p] = "discover" => c.route[s] # p
ASSUME TopIsANumber == Top \in Nat \ {0}

VARIABLES
    cfg,
    stage,      \* what the session is doing
    selected,   \* the services Select keeps
    used,       \* the port names it keeps
    order,      \* Plan.Order
    owner,      \* Plan.PortOwners
    ports,      \* Plan.Ports: the number of each name, None when it has none yet
    known,      \* the ports of the session's runtime, which shutdown commands read
    deferred,   \* the deferred ports of that runtime
    todo,       \* names Resolve or Reallocate has still to give a number
    reserved,   \* their map of numbers in use
    fresh,      \* the result of a Reallocate under way
    holder,     \* the service whose BeforeStart holds planMu and portMu
    phase,      \* progress of each service
    given,      \* the ports of each service's StartPlan
    bound,      \* the number the owner of each name listens on
    cancelled,  \* the session's context is cancelled
    skipped,    \* services whose shutdown command was not run
    outside,    \* numbers other processes listen on
    moves

prepared == <<cfg, selected, used, order, owner>>
recheck == <<todo, reserved, fresh, holder>>
runtime == <<known, deferred>>
world == <<outside, moves>>
vars == <<cfg, stage, selected, used, order, owner, ports, known, deferred, todo, reserved, fresh, holder,
          phase, given, bound, cancelled, skipped, outside, moves>>

\* The least of the names in S, the head of the list the code sorts.
First(S) == {x \in S : \A y \in S : x <= y}

NoPorts == [p \in PortNames |-> None]
Busy == outside \cup ({bound[p] : p \in PortNames} \ {None})
Discovered(p) == cfg.mode[p] = "discover"

(***************************************************************************)
(* Selection.                                                              *)
(***************************************************************************)
\* dependencyClosure.
Closure(needs, roots) ==
    {s \in Services : \A C \in SUBSET Services :
        (roots \subseteq C /\ \A t \in C : needs[t] \subseteq C) => s \in C}

Upstream(s) == Closure(cfg.needs, cfg.needs[s])
Asked == Closure(cfg.needs, cfg.roots)

\* The search for a cycle, the first half of topologicalOrder.
Cyclic == \E s \in Asked : s \in Upstream(s)

\* The port names Select keeps.
Needed == cfg.shared \cup (UNION {cfg.mentions[s] : s \in Asked})
          \cup ({cfg.route[s] : s \in Asked} \ {None})

Routing(p) == {s \in Asked : cfg.route[s] = p}
Mentioning(p) == {s \in Asked : p \in cfg.mentions[s]}

Ambiguous(p) == Routing(p) = {} /\ Cardinality(Mentioning(p)) > 1
Unowned(p) == Routing(p) = {} /\ Mentioning(p) = {}
Owners(p) == IF p \notin Needed \/ Unowned(p) THEN {None}
             ELSE IF Routing(p) # {} THEN Routing(p) ELSE Mentioning(p)

Init ==
    /\ cfg \in Configs
    /\ stage = "select" /\ selected = {} /\ used = {} /\ order = <<>> /\ owner = NoPorts
    /\ ports = NoPorts /\ known = NoPorts /\ deferred = {}
    /\ todo = {} /\ reserved = {} /\ fresh = NoPorts /\ holder = None
    /\ phase = [s \in Services |-> "waiting"]
    /\ given = [s \in Services |-> NoPorts]
    /\ bound = NoPorts /\ cancelled = FALSE /\ skipped = {}
    /\ outside = cfg.taken /\ moves = 0

Refuse == stage' = "refused"

\* Select, and the owners prepare works out: the service with a route on the port,
\* any of them when there are several, else the one service that mentions it.
Select ==
    /\ stage = "select"
    /\ IF \/ Cyclic
          \/ ~(Needed \subseteq cfg.declared)
          \/ \E p \in Needed : Ambiguous(p) \/ (Discovered(p) /\ Unowned(p))
       THEN Refuse /\ UNCHANGED <<selected, used, owner>>
       ELSE /\ stage' = "reserve"
            /\ selected' = Asked
            /\ used' = Needed
            /\ owner' \in {o \in [PortNames -> Services \cup {None}] :
                             \A p \in PortNames : o[p] \in Owners(p)}
    /\ UNCHANGED <<cfg, order, ports, runtime, recheck, phase, given, bound, cancelled, skipped, world>>

(***************************************************************************)
(* Resolve.                                                                *)
(***************************************************************************)
\* Mutant of Fixed: the first loop sees no fixed port.
FixedLater == {}

Fixed == {p \in used : cfg.mode[p] = "fixed"}

\* The first loop of Resolve reserves every fixed number.
Reserve ==
    /\ stage = "reserve"
    /\ IF \E p, q \in Fixed : p # q /\ cfg.low[p] = cfg.low[q]
       THEN Refuse /\ UNCHANGED <<todo, reserved>>
       ELSE stage' = "resolve" /\ todo' = used /\ reserved' = {cfg.low[p] : p \in Fixed}
    /\ UNCHANGED <<prepared, ports, runtime, fresh, holder, phase, given, bound, cancelled, skipped, world>>


\* What the search for a number for p may end with, None when it fails.  A random
\* search gives up after a number of draws.
Outcomes(p) ==
    LET Free(S) == S \ (reserved \cup Busy)
        range == cfg.low[p]..cfg.high[p]
        upward == Free(cfg.low[p]..Top)
    IN  CASE cfg.mode[p] = "fixed" -> {IF cfg.low[p] \in Busy THEN None ELSE cfg.low[p]}
          [] cfg.mode[p] = "first_free" -> IF upward = {} THEN {None} ELSE First(upward)
          [] cfg.mode[p] = "random" -> Free(range) \cup (IF Free(range) = range THEN {} ELSE {None})
          [] OTHER -> {}

\* One name of Resolve's second loop.
Resolve ==
    /\ stage = "resolve"
    /\ \E p \in First(todo) :
         \/ /\ Discovered(p)
            /\ todo' = todo \ {p}
            /\ UNCHANGED <<stage, ports, reserved>>
         \/ \E n \in Outcomes(p) :
              IF n = None THEN Refuse /\ UNCHANGED <<ports, todo, reserved>>
              ELSE /\ ports' = [ports EXCEPT ![p] = n]
                   /\ reserved' = reserved \cup {n}
                   /\ todo' = todo \ {p}
                   /\ UNCHANGED stage
    /\ UNCHANGED <<prepared, runtime, fresh, holder, phase, given, bound, cancelled, skipped, world>>

\* ResolveRoutes: a route that is not optional needs the daemon.
ResolveRoutes ==
    /\ stage = "resolve" /\ todo = {}
    /\ IF ~cfg.daemon /\ \E s \in selected \ cfg.optional : cfg.route[s] # None
       THEN Refuse ELSE stage' = "order"
    /\ reserved' = {}
    /\ UNCHANGED <<prepared, ports, runtime, todo, fresh, holder, phase, given, bound, cancelled, skipped, world>>

(***************************************************************************)
(* Build: the second half of topologicalOrder.                             *)
(***************************************************************************)
\* Mutant of Unblocked: a service is ready when one dependency is missing.
UnblockedEarly ==
    {s \in selected \ ToSet(order) : Cardinality((cfg.needs[s] \cap selected) \ ToSet(order)) <= 1}

Unblocked == {s \in selected \ ToSet(order) : cfg.needs[s] \cap selected \subseteq ToSet(order)}

OrderNext ==
    /\ stage = "order"
    /\ \E s \in First(Unblocked) : order' = Append(order, s)
    /\ UNCHANGED <<cfg, stage, selected, used, owner, ports, runtime, recheck, phase, given, bound, cancelled, skipped, world>>

\* The order is complete, or Build reports a cycle; the session's runtime is made
\* from the plan.
Build ==
    /\ stage = "order" /\ Unblocked = {}
    /\ IF ToSet(order) = selected
       THEN /\ stage' = "running"
            /\ known' = ports
            /\ deferred' = {p \in used : Discovered(p)}
       ELSE Refuse /\ UNCHANGED runtime
    /\ UNCHANGED <<prepared, ports, recheck, phase, given, bound, cancelled, skipped, world>>

(***************************************************************************)
(* The start of a service.                                                 *)
(***************************************************************************)
Own(s) == {p \in used : owner[p] = s}

DependenciesUp(s) == \A d \in cfg.needs[s] : phase[d] = "up"

\* The supervisor starts a worker, which calls BeforeStart.
Begin(s) ==
    /\ stage = "running" /\ ~cancelled
    /\ s \in selected /\ phase[s] = "waiting" /\ DependenciesUp(s)
    /\ phase' = [phase EXCEPT ![s] = "asked"]
    /\ UNCHANGED <<prepared, stage, ports, runtime, recheck, given, bound, cancelled, skipped, world>>

\* Mutant of Rechecked: every port is rechecked before each start.
RecheckedAll(s) == {p \in used : ~Discovered(p)}

Rechecked(s) == {p \in Own(s) : ~Discovered(p)}

\* Mutant of InUse: the other names' numbers are not reserved.
InUseByNobody(s, numbers) == {}

InUse(s, numbers) == {numbers[p] : p \in PortNames \ Rechecked(s)} \ {None}

\* BeforeStart has its locks: ports discovered since the last start enter the plan,
\* and Reallocate reserves the numbers of the names it is not asked about.
EnterBeforeStart(s) ==
    /\ stage = "running" /\ phase[s] = "asked" /\ holder = None
    /\ LET current == [p \in PortNames |->
                         IF Discovered(p) /\ known[p] # None THEN known[p] ELSE ports[p]]
       IN  /\ ports' = current
           /\ fresh' = current
           /\ reserved' = InUse(s, current)
    /\ todo' = Rechecked(s)
    /\ holder' = s
    /\ phase' = [phase EXCEPT ![s] = "rechecking"]
    /\ UNCHANGED <<prepared, stage, runtime, given, bound, cancelled, skipped, world>>

Kept(p) == fresh[p] # None /\ fresh[p] \notin reserved \cup Busy

\* One name of Reallocate: it keeps its number when that is still free, else it is
\* given another one.
Reallocate ==
    /\ stage = "running" /\ holder # None
    /\ \E p \in First(todo) :
         \E n \in IF Kept(p) THEN {fresh[p]} ELSE Outcomes(p) \ {None} :
           /\ fresh' = [fresh EXCEPT ![p] = n]
           /\ reserved' = reserved \cup {n}
           /\ todo' = todo \ {p}
    /\ UNCHANGED <<prepared, stage, ports, runtime, holder, phase, given, bound, cancelled, skipped, world>>

Unlock == holder' = None /\ todo' = {} /\ reserved' = {} /\ fresh' = NoPorts

\* Reallocate finds no number: its result is dropped, the worker fails.
ReallocateFails ==
    /\ stage = "running" /\ holder # None
    /\ \E p \in First(todo) : ~Kept(p) /\ None \in Outcomes(p)
    /\ phase' = [phase EXCEPT ![holder] = "failed"]
    /\ cancelled' = TRUE
    /\ Unlock
    /\ UNCHANGED <<prepared, stage, ports, runtime, given, bound, skipped, world>>

\* BeforeStart installs the result and makes the StartPlan of the service from it.
\* The session's runtime loses every discovered port.
LeaveBeforeStart ==
    /\ stage = "running" /\ holder # None /\ todo = {}
    /\ ports' = fresh
    /\ known' = [p \in PortNames |-> IF Discovered(p) THEN None ELSE fresh[p]]
    /\ given' = [given EXCEPT ![holder] = fresh]
    /\ phase' = [phase EXCEPT ![holder] = "planned"]
    /\ Unlock
    /\ UNCHANGED <<prepared, stage, deferred, bound, cancelled, skipped, world>>

\* Runner.Start: the session may have been cancelled since it looked.
Launch(s) ==
    /\ stage = "running" /\ phase[s] = "planned"
    /\ phase' = [phase EXCEPT ![s] = "launched"]
    /\ UNCHANGED <<prepared, stage, ports, runtime, recheck, given, bound, cancelled, skipped, world>>

\* The phases of a service that has a process.
Alive == {"launched", "started", "found", "up"}

DiscoverNames(s) == {p \in Own(s) : Discovered(p)}
Listening(s) == \A p \in Own(s) : bound[p] # None

\* The numbers a process may come to listen on: those it was told, and one of its own
\* choice for a discovered port.
Listeners(s) == {n \in [Own(s) -> Numbers \ Busy] :
                   \A p \in Own(s) \ DiscoverNames(s) : n[p] = given[s][p]}

Listen(s) ==
    /\ stage = "running" /\ phase[s] \in {"launched", "started"}
    /\ Own(s) # {} /\ ~Listening(s)
    /\ \E n \in Listeners(s) :
         bound' = [p \in PortNames |-> IF p \in Own(s) THEN n[p] ELSE bound[p]]
    /\ UNCHANGED <<prepared, stage, ports, runtime, recheck, phase, given, cancelled, skipped, world>>

\* startPorts: the ports a worker reports, none before its process was started.
Reported(s) == IF phase[s] = "planned" THEN NoPorts ELSE given[s]

\* OnEvent, which needs planMu: the ports of the event, a copy of those of the
\* worker's StartPlan, overwrite the plan's.
Report(s) ==
    /\ holder = None
    /\ ports' = [p \in PortNames |-> IF Reported(s)[p] # None THEN Reported(s)[p] ELSE ports[p]]

ReportStarting(s) ==
    /\ stage = "running" /\ phase[s] = "launched"
    /\ Report(s)
    /\ phase' = [phase EXCEPT ![s] = "started"]
    /\ UNCHANGED <<prepared, stage, runtime, recheck, given, bound, cancelled, skipped, world>>

\* The scan of the process finds its listener; the port enters the session's runtime
\* and the worker's own, under portMu.
Discover(s) ==
    /\ stage = "running" /\ phase[s] = "started" /\ holder = None
    /\ Cardinality(DiscoverNames(s)) = 1 /\ Listening(s)
    /\ LET p == CHOOSE q \in DiscoverNames(s) : TRUE IN
         /\ known' = [known EXCEPT ![p] = bound[p]]
         /\ deferred' = deferred \ {p}
         /\ given' = [given EXCEPT ![s][p] = bound[p]]
    /\ phase' = [phase EXCEPT ![s] = "found"]
    /\ UNCHANGED <<prepared, stage, ports, recheck, bound, cancelled, skipped, world>>

\* Readiness and the route have succeeded.
ReportReady(s) ==
    /\ stage = "running" /\ ~cancelled
    /\ phase[s] = IF DiscoverNames(s) = {} THEN "started" ELSE "found"
    /\ Listening(s)
    /\ Report(s)
    /\ phase' = [phase EXCEPT ![s] = "up"]
    /\ UNCHANGED <<prepared, stage, runtime, recheck, given, bound, cancelled, skipped, world>>

(***************************************************************************)
(* The end of a service and of the session.                                *)
(***************************************************************************)
\* Its process is gone, and its last event carries its ports as the others do.
EndService(s, how) ==
    /\ Report(s)
    /\ phase' = [phase EXCEPT ![s] = how]
    /\ bound' = [p \in PortNames |-> IF p \in Own(s) THEN None ELSE bound[p]]
    /\ UNCHANGED <<prepared, stage, runtime, recheck, given, skipped, world>>

\* A number the process was told is taken, or it owns several discovered ports.
CannotServe(s) ==
    /\ stage = "running" /\ phase[s] \in {"launched", "started"}
    /\ \/ ~Listening(s) /\ Listeners(s) = {}
       \/ Cardinality(DiscoverNames(s)) > 1
    /\ EndService(s, "failed") /\ cancelled' = TRUE

\* Anything else that keeps a process from starting, ends it or fails its readiness,
\* its discovery or its route.  A resource's process has already exited when the
\* resource is up.
Fails(s) ==
    /\ stage = "running" /\ phase[s] \in Alive \cup {"planned"} /\ ~(s \in cfg.resources /\ phase[s] = "up")
    /\ EndService(s, "failed") /\ cancelled' = TRUE

Stoppable(s) == phase[s] \in Alive \cup {"planned"} /\ ~(s \in cfg.resources /\ phase[s] = "up")

\* A worker notices that the session is being stopped.
Stops(s) ==
    /\ stage = "running" /\ cancelled /\ Stoppable(s)
    /\ EndService(s, "stopped") /\ UNCHANGED cancelled

Interrupt ==
    /\ stage = "running" /\ ~cancelled
    /\ cancelled' = TRUE
    /\ UNCHANGED <<prepared, stage, ports, runtime, recheck, phase, given, bound, skipped, world>>

Working(s) == /\ phase[s] \notin {"waiting", "failed", "stopped"}
              /\ ~(s \in cfg.resources /\ phase[s] = "up")
Registered == {s \in cfg.resources : phase[s] = "up"}

\* A reference to a port that has no number and is not deferred is an error.
Expands(s) == \A p \in cfg.mentions[s] \cup cfg.shared : known[p] # None \/ p \in deferred

\* runShutdownCommands, once no worker is left: a command that cannot be expanded is
\* reported and left out.
CleanUp ==
    /\ stage = "running" /\ cancelled
    /\ \A s \in Services : ~Working(s)
    /\ stage' = "ended"
    /\ skipped' = {s \in Registered : ~Expands(s)}
    /\ UNCHANGED <<prepared, ports, runtime, recheck, phase, given, bound, cancelled, world>>

(***************************************************************************)
(* The other processes of the machine.                                     *)
(***************************************************************************)
OutsideOpens ==
    /\ stage \notin {"refused", "ended"} /\ moves < cfg.moves
    /\ \E n \in Numbers \ Busy : outside' = outside \cup {n}
    /\ moves' = moves + 1
    /\ UNCHANGED <<prepared, stage, ports, runtime, recheck, phase, given, bound, cancelled, skipped>>

OutsideCloses ==
    /\ stage \notin {"refused", "ended"} /\ moves < cfg.moves
    /\ \E n \in outside : outside' = outside \ {n}
    /\ moves' = moves + 1
    /\ UNCHANGED <<prepared, stage, ports, runtime, recheck, phase, given, bound, cancelled, skipped>>

\* The session is over.
Over == stage \in {"refused", "ended"} /\ UNCHANGED vars

Prepare == Select \/ Reserve \/ Resolve \/ ResolveRoutes \/ OrderNext \/ Build

Progress(s) == \/ Begin(s) \/ EnterBeforeStart(s) \/ Launch(s) \/ Listen(s) \/ ReportStarting(s)
               \/ Discover(s) \/ ReportReady(s) \/ CannotServe(s) \/ Stops(s)

Recheck == Reallocate \/ ReallocateFails \/ LeaveBeforeStart

Next ==
    \/ Prepare
    \/ Recheck
    \/ \E s \in Services : Progress(s) \/ Fails(s)
    \/ Interrupt
    \/ CleanUp
    \/ OutsideOpens
    \/ OutsideCloses
    \/ Over

\* Every goroutine runs on; nobody has to stop the session, and nothing is assumed
\* of other processes.
Fairness ==
    /\ WF_vars(Prepare) /\ WF_vars(Recheck) /\ WF_vars(CleanUp)
    /\ \A s \in Services : WF_vars(Progress(s))

Spec == Init /\ [][Next]_vars /\ Fairness

(***************************************************************************)
(* Properties.                                                             *)
(***************************************************************************)
PortMap == [PortNames -> Numbers \cup {None}]

\* Every variable has its type.
TypeOK ==
    /\ cfg \in Configs
    /\ stage \in {"select", "reserve", "resolve", "order", "running", "ended", "refused"}
    /\ selected \subseteq Services /\ used \subseteq PortNames
    /\ order \in Seq(Services) /\ owner \in [PortNames -> Services \cup {None}]
    /\ ports \in PortMap /\ known \in PortMap /\ fresh \in PortMap /\ bound \in PortMap
    /\ deferred \subseteq PortNames /\ todo \subseteq PortNames /\ reserved \subseteq Numbers
    /\ holder \in Services \cup {None}
    /\ phase \in [Services -> Alive \cup {"waiting", "asked", "rechecking", "planned", "failed", "stopped"}]
    /\ given \in [Services -> PortMap]
    /\ cancelled \in BOOLEAN /\ skipped \subseteq Services
    /\ outside \subseteq Numbers /\ moves \in 0..cfg.moves

\* Whatever other processes do while Resolve probes, the numbers it ends with are
\* all different.
ResolvedUnique ==
    stage = "order" => \A p, q \in used : p # q /\ ports[p] = ports[q] => ports[p] = None

\* The services in an order in which each comes after its dependencies.
Topological(o) == \A j \in DOMAIN o : cfg.needs[o[j]] \cap selected \subseteq {o[k] : k \in 1..(j-1)}

Earlier(o, u) == \E k \in DOMAIN o : o[k] < u[k] /\ \A j \in 1..(k-1) : o[j] = u[j]

\* Whatever order the maps of the configuration are walked in, the plan's order is
\* the first, in the order of names, of all those that respect the dependencies; and
\* once Select has found no cycle Build finds none.
OrderIsFirst ==
    /\ stage = "order" /\ Unblocked = {} => ToSet(order) = selected
    /\ stage = "running" =>
         /\ order \in SetToSeqs(selected) /\ Topological(order)
         /\ \A o \in SetToSeqs(selected) : Topological(o) /\ o # order => Earlier(order, o)

\* The services that have a StartPlan.
Told == {s \in Services : phase[s] \in Alive \cup {"planned"}}

\* A service is told the number that the service it depends on was told to listen on.
Agrees(t, p) == owner[p] \in Upstream(t) \cap Told => given[t][p] = given[owner[p]][p]

\* A dependent is told the number of its dependency's port.  When it is not, the
\* number is one that a third service, which does not depend on the owner of the
\* port, was told before the owner was given another.
StaleOnlyFromABranch ==
    \A t \in Told : \A p \in used :
        \/ Agrees(t, p)
        \/ \E u \in Services \ {owner[p]} : owner[p] \notin Upstream(u) /\ given[u][p] = given[t][p]

\* Two services are not told to listen on the same number, unless services were told an
\* old number of each of the two ports.
Settled(p) == \A u \in Told : given[u][p] = given[owner[p]][p]
ServicesDoNotClash ==
    \A p, q \in used :
        /\ ~Discovered(p) /\ ~Discovered(q)
        /\ owner[p] # owner[q] /\ {owner[p], owner[q]} \subseteq Told
        /\ Settled(p) \/ Settled(q)
        => given[owner[p]][p] # given[owner[q]][q]

\* Every shutdown command of a service that came up is run.
ShutdownCommandsRun == skipped = {}

=============================================================================
