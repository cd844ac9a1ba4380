------------------------- MODULE SessionPorts_proofs -------------------------
(***************************************************************************)
(* Proofs about SessionPorts, for every configuration and whatever         *)
(* listeners other processes open and close: the numbers Resolve gives are *)
(* all different; the plan's order is the first that respects the          *)
(* dependencies; and a service is told the number its dependency listens   *)
(* on, unless a service of another branch was told an older one, and no    *)
(* number another service was told to listen on.                           *)
(*                                                                         *)
(* The last two rest on one invariant: what a number may be that Resolve   *)
(* or Reallocate gave, what a service's turn says of those it depends on,  *)
(* and that nobody but the holder of its locks writes the plan's ports     *)
(* between the two ends of a BeforeStart.                                  *)
(***************************************************************************)
EXTENDS SessionPorts, FiniteSetTheorems, WellFoundedInduction, TLAPS

(***************************************************************************)
(* Unique numbers.                                                         *)
(***************************************************************************)
Mode == {"fixed", "first_free", "random", "discover"}

Preparing == {"select", "reserve", "resolve", "order"}

\* The types the arguments below need.
Types ==
    /\ used \subseteq PortNames
    /\ cfg \in Configs
    /\ stage \in Preparing => ports \in [PortNames -> Numbers \cup {None}]

\* No two of the names S have one number.
Apart(S) == \A p, q \in S : p # q /\ ports[p] = ports[q] => ports[p] = None

\* While Resolve walks through the names: a name it has not reached has no number, the
\* numbers it gave are reserved, and those of the fixed ports were from the start, so
\* that no other name can have got one of them.
Walk ==
    /\ todo \subseteq used
    /\ \A p \in todo : ports[p] = None
    /\ \A p \in Fixed : cfg.low[p] \in reserved
    /\ \A p, q \in Fixed : cfg.low[p] = cfg.low[q] => p = q
    /\ \A p \in used \ todo : ports[p] \in reserved \cup {None}
    /\ \A p \in used \ todo : \A q \in Fixed : ports[p] = cfg.low[q] => p = q
    /\ Apart(used)

UniqueInv ==
    /\ Types
    /\ stage \in {"select", "reserve"} => ports = NoPorts
    /\ stage = "resolve" => Walk
    /\ stage = "order" => Apart(used)

LEMMA ConfigTypes ==
    ASSUME cfg \in Configs
    PROVE  /\ cfg.mode \in [PortNames -> Mode]
           /\ cfg.low \in [PortNames -> Numbers]
           /\ cfg.high \in [PortNames -> Numbers]
           /\ cfg.shared \subseteq PortNames
           /\ cfg.mentions \in [Services -> SUBSET PortNames]
           /\ cfg.route \in [Services -> PortNames \cup {None}]
           /\ cfg.needs \in [Services -> SUBSET Services]
  <1>1. cfg \in Config
    BY ConfigsAreSound
  <1> QED
    BY <1>1 DEF Config, Mode

LEMMA NeededNames == ASSUME cfg \in Configs PROVE Needed \subseteq PortNames
  <1>1. \A s \in Asked : s \in Services
    BY DEF Asked, Closure
  <1>2. /\ cfg.shared \subseteq PortNames
        /\ \A s \in Asked : cfg.mentions[s] \subseteq PortNames
        /\ \A s \in Asked : cfg.route[s] \in PortNames \cup {None}
    BY <1>1, ConfigTypes
  <1>3. UNION {cfg.mentions[s] : s \in Asked} \subseteq PortNames
    BY <1>2
  <1>4. {cfg.route[s] : s \in Asked} \ {None} \subseteq PortNames
    BY <1>2
  <1> QED
    BY <1>2, <1>3, <1>4 DEF Needed

\* The searches return a number outside the reserved ones, or the number of a fixed port.
LEMMA SearchResult ==
    ASSUME cfg \in Configs, NEW p \in PortNames, NEW n \in Outcomes(p), n # None
    PROVE  /\ n \in Numbers
           /\ cfg.mode[p] = "fixed" => n = cfg.low[p]
           /\ cfg.mode[p] # "fixed" => n \notin reserved
  <1>0. /\ cfg.mode[p] \in Mode
        /\ cfg.low[p] \in Numbers
        /\ cfg.high[p] \in Numbers
    BY ConfigTypes
  <1>1. CASE cfg.mode[p] = "fixed"
    BY <1>0, <1>1 DEF Outcomes
  <1>2. CASE cfg.mode[p] = "first_free"
    <2>1. n \in (cfg.low[p]..Top) \ (reserved \cup Busy)
      BY <1>2 DEF Outcomes, First
    <2> QED
      BY <2>1, <1>0, <1>2, TopIsANumber DEF Numbers
  <1>3. CASE cfg.mode[p] = "random"
    <2>1. n \in (cfg.low[p]..cfg.high[p]) \ (reserved \cup Busy)
      BY <1>3 DEF Outcomes
    <2> QED
      BY <2>1, <1>0, <1>3, TopIsANumber DEF Numbers
  <1>4. CASE cfg.mode[p] = "discover"
    BY <1>4 DEF Outcomes
  <1> QED
    BY <1>0, <1>1, <1>2, <1>3, <1>4 DEF Mode

LEMMA UniqueInit == Init => UniqueInv
  BY DEF Init, UniqueInv, Types, NoPorts, None, Preparing

\* One name of Resolve: the others keep their numbers, and the name gets one that no
\* other has.
LEMMA ResolveKeepsUnique ==
    ASSUME UniqueInv, Resolve
    PROVE  UniqueInv'
  <1>1. PICK p \in First(todo) :
          \/ /\ Discovered(p)
             /\ todo' = todo \ {p}
             /\ UNCHANGED <<stage, ports, reserved>>
          \/ \E n \in Outcomes(p) :
               IF n = None THEN Refuse /\ UNCHANGED <<ports, todo, reserved>>
               ELSE /\ ports' = [ports EXCEPT ![p] = n]
                    /\ reserved' = reserved \cup {n}
                    /\ todo' = todo \ {p}
                    /\ UNCHANGED stage
    BY DEF Resolve
  <1>2. stage = "resolve" /\ Walk /\ Types /\ UNCHANGED <<cfg, used>>
    BY DEF Resolve, UniqueInv, prepared
  <1>3. p \in todo /\ p \in used /\ p \in PortNames
    BY <1>2 DEF First, Walk, Types
  <1>4. Fixed' = Fixed
    BY <1>2 DEF Fixed
  <1>5. CASE Discovered(p) /\ todo' = todo \ {p} /\ UNCHANGED <<stage, ports, reserved>>
    <2>1. p \notin Fixed /\ ports[p] = None
      BY <1>2, <1>3, <1>5 DEF Fixed, Discovered, Walk
    <2>2. \A q \in Fixed : cfg.low[q] # None
      BY <1>2, ConfigTypes DEF Types, Fixed, Numbers, None
    <2>3. Walk'
      BY <1>2, <1>3, <1>4, <1>5, <2>1, <2>2 DEF Walk, Apart
    <2> QED
      BY <1>2, <1>5, <2>3 DEF UniqueInv, Types
  <1>6. ASSUME NEW n \in Outcomes(p), n # None,
               ports' = [ports EXCEPT ![p] = n],
               reserved' = reserved \cup {n}, todo' = todo \ {p}, UNCHANGED stage
        PROVE  UniqueInv'
    <2>1. /\ n \in Numbers
          /\ cfg.mode[p] = "fixed" => n = cfg.low[p]
          /\ cfg.mode[p] # "fixed" => n \notin reserved
      BY <1>2, <1>3, <1>6, SearchResult DEF Types
    <2>2. Types'
      BY <1>2, <1>3, <1>6, <2>1 DEF Types
    <2>3. /\ ports'[p] = n
          /\ \A q \in PortNames : q # p => ports'[q] = ports[q]
      BY <1>2, <1>3, <1>6 DEF Types, Preparing
    <2>4. n # None
      BY <1>6
    <2>5. \A q \in used \ todo : ports[q] # n
      BY <1>2, <1>3, <2>1, <2>4 DEF Walk, Fixed
    <2>6. \A q \in used : q # p => ports'[q] # n
      BY <1>2, <2>3, <2>4, <2>5 DEF Walk, Types
    <2>7. Apart(used)'
      BY <1>2, <1>3, <2>3, <2>6 DEF Walk, Apart, Types
    <2>8. \A q \in Fixed : n = cfg.low[q] => p = q
      BY <1>2, <1>3, <2>1 DEF Walk, Fixed
    <2>9. Walk'
      <3>1. todo' \subseteq used' /\ \A q \in todo' : ports'[q] = None
        BY <1>2, <1>6, <2>3 DEF Walk, Types
      <3>2. \A q \in Fixed' : cfg'.low[q] \in reserved'
        BY <1>2, <1>4, <1>6 DEF Walk
      <3>3. \A q, r \in Fixed' : cfg'.low[q] = cfg'.low[r] => q = r
        BY <1>2, <1>4 DEF Walk
      <3>4. \A q \in used' \ todo' : ports'[q] \in reserved' \cup {None}
        BY <1>2, <1>3, <1>6, <2>3 DEF Walk, Types
      <3>5. \A q \in used' \ todo' : \A r \in Fixed' : ports'[q] = cfg'.low[r] => q = r
        BY <1>2, <1>3, <1>4, <1>6, <2>3, <2>8 DEF Walk, Types
      <3> QED
        BY <3>1, <3>2, <3>3, <3>4, <3>5, <2>7 DEF Walk
    <2> QED
      BY <1>2, <1>6, <2>2, <2>9 DEF UniqueInv
  <1>7. ASSUME Refuse, UNCHANGED ports
        PROVE  UniqueInv'
    BY <1>2, <1>7 DEF Refuse, UniqueInv, Types, Preparing
  <1> QED
    BY <1>1, <1>5, <1>6, <1>7

\* Every other step of the preparation.
LEMMA PreparationKeepsUnique ==
    ASSUME UniqueInv, Select \/ Reserve \/ ResolveRoutes \/ OrderNext \/ Build
    PROVE  UniqueInv'
  <1>1. CASE Select
    <2>1. Needed \subseteq PortNames
      BY NeededNames DEF UniqueInv, Types
    <2> QED
      BY <1>1, <2>1 DEF Select, Refuse, UniqueInv, Types, Preparing, NoPorts
  <1>2. CASE Reserve
    <2>0. stage = "reserve" /\ ports = NoPorts /\ Types /\ UNCHANGED <<cfg, used, ports>>
      BY <1>2 DEF Reserve, UniqueInv, prepared
    <2>1. CASE stage' = "refused"
      BY <2>0, <2>1 DEF UniqueInv, Types, Preparing
    <2>2. CASE /\ ~\E p, q \in Fixed : p # q /\ cfg.low[p] = cfg.low[q]
               /\ stage' = "resolve" /\ todo' = used /\ reserved' = {cfg.low[p] : p \in Fixed}
      <3>1. \A p \in used : ports[p] = None
        BY <2>0 DEF NoPorts, Types
      <3>2. Fixed' = Fixed
        BY <2>0 DEF Fixed
      <3>3. Walk'
        BY <2>0, <2>2, <3>1, <3>2 DEF Walk, Apart
      <3> QED
        BY <2>0, <2>2, <3>3 DEF UniqueInv, Types, Preparing
    <2> QED
      BY <1>2, <2>1, <2>2 DEF Reserve, Refuse
  <1>3. CASE ResolveRoutes
    BY <1>3 DEF ResolveRoutes, Refuse, UniqueInv, Types, Walk, Apart, Preparing, prepared
  <1>4. CASE OrderNext
    BY <1>4 DEF OrderNext, UniqueInv, Types, Apart, Preparing
  <1>5. CASE Build
    BY <1>5 DEF Build, Refuse, UniqueInv, Types, Preparing, prepared
  <1> QED
    BY <1>1, <1>2, <1>3, <1>4, <1>5

\* Every step that is not one of the preparation: other processes change nothing of the
\* session's, the rest happens once it runs.
RestOfNext ==
    \/ Recheck
    \/ \E s \in Services : Progress(s) \/ Fails(s)
    \/ Interrupt
    \/ CleanUp
    \/ OutsideOpens
    \/ OutsideCloses
    \/ Over

LEMMA RestOfNextLeavesThePlan ==
    ASSUME RestOfNext
    PROVE  /\ UNCHANGED prepared
           /\ \/ stage = "running" /\ stage' \in {"running", "ended"}
              \/ UNCHANGED <<stage, ports, todo, reserved>>
  <1>1. CASE Recheck
    BY <1>1 DEF Recheck, Reallocate, ReallocateFails, LeaveBeforeStart
  <1>2. CASE \E s \in Services : Progress(s) \/ Fails(s)
    <2>1. PICK s \in Services : Progress(s) \/ Fails(s)
      BY <1>2
    <2>2. CASE Begin(s) \/ EnterBeforeStart(s) \/ Launch(s) \/ Listen(s)
      BY <2>2 DEF Begin, EnterBeforeStart, Launch, Listen
    <2>3. CASE ReportStarting(s) \/ Discover(s) \/ ReportReady(s)
      BY <2>3 DEF ReportStarting, Discover, ReportReady
    <2>4. CASE CannotServe(s) \/ Stops(s) \/ Fails(s)
      BY <2>4 DEF CannotServe, Stops, Fails, EndService, Report
    <2> QED
      BY <2>1, <2>2, <2>3, <2>4 DEF Progress
  <1>3. CASE Interrupt \/ CleanUp
    BY <1>3 DEF Interrupt, CleanUp
  <1>4. CASE OutsideOpens \/ OutsideCloses
    BY <1>4 DEF OutsideOpens, OutsideCloses, recheck
  <1>5. CASE Over
    BY <1>5 DEF Over, vars, prepared
  <1> QED
    BY <1>1, <1>2, <1>3, <1>4, <1>5 DEF RestOfNext

LEMMA UniqueNext == UniqueInv /\ [Next]_vars => UniqueInv'
  <1> SUFFICES ASSUME UniqueInv, [Next]_vars PROVE UniqueInv'
    OBVIOUS
  <1>1. CASE Prepare
    BY <1>1, ResolveKeepsUnique, PreparationKeepsUnique DEF Prepare
  <1>2. CASE RestOfNext
    <2>1. UNCHANGED <<cfg, used>>
      BY <1>2, RestOfNextLeavesThePlan DEF prepared
    <2>2. CASE stage = "running" /\ stage' \in {"running", "ended"}
      BY <2>1, <2>2 DEF UniqueInv, Types, Preparing
    <2>3. CASE UNCHANGED <<stage, ports, todo, reserved>>
      BY <2>1, <2>3 DEF UniqueInv, Types, Walk, Apart, Fixed
    <2> QED
      BY <1>2, <2>2, <2>3, RestOfNextLeavesThePlan
  <1>3. CASE UNCHANGED vars
    BY <1>3 DEF vars, UniqueInv, Types, Walk, Apart, Fixed
  <1> QED
    BY <1>1, <1>2, <1>3 DEF Next, RestOfNext

\* Whatever the configuration and whatever other processes do while Resolve probes,
\* the numbers it ends with are all different.
THEOREM ResolvedPortsAreUnique == Spec => []ResolvedUnique
  <1>1. UniqueInv => ResolvedUnique
    BY DEF UniqueInv, Apart, ResolvedUnique
  <1> QED
    BY <1>1, UniqueInit, UniqueNext, PTL DEF Spec

(***************************************************************************)
(* The order of the plan.                                                  *)
(***************************************************************************)
\* A running session has every service it needs in its order, each one once and after
\* everything it depends on.
DependenciesFirst ==
    stage = "running" =>
        /\ ToSet(order) = selected
        /\ \A j, k \in DOMAIN order : order[j] = order[k] => j = k
        /\ \A j \in DOMAIN order : cfg.needs[order[j]] \subseteq {order[k] : k \in 1..(j-1)}

\* The services chosen are closed under dependencies, and so are those in the order.
OrderInv ==
    /\ cfg \in Configs /\ selected \subseteq Services /\ order \in Seq(selected)
    /\ \A s \in selected : cfg.needs[s] \subseteq selected
    /\ stage \in {"select", "reserve", "resolve"} => order = <<>>
    /\ \A j, k \in DOMAIN order : order[j] = order[k] => j = k
    /\ \A j \in DOMAIN order : cfg.needs[order[j]] \subseteq {order[k] : k \in 1..(j-1)}
    /\ stage = "running" => ToSet(order) = selected

LEMMA ClosureIsClosed ==
    ASSUME cfg \in Configs, NEW s \in Asked
    PROVE  s \in Services /\ cfg.needs[s] \subseteq Asked
  <1>1. s \in Services /\ cfg.needs[s] \subseteq Services
    BY ConfigTypes DEF Asked, Closure
  <1>2. ASSUME NEW d \in cfg.needs[s], NEW C \in SUBSET Services,
               cfg.roots \subseteq C, \A t \in C : cfg.needs[t] \subseteq C
        PROVE  d \in C
    <2>1. s \in C
      BY <1>2 DEF Asked, Closure
    <2> QED
      BY <1>2, <2>1
  <1> QED
    BY <1>1, <1>2 DEF Asked, Closure

\* The service Build appends has all its dependencies in the order and is not in it.
LEMMA AppendKeepsOrder ==
    ASSUME OrderInv, OrderNext
    PROVE  OrderInv'
  <1>1. PICK s \in First(Unblocked) : order' = Append(order, s)
    BY DEF OrderNext
  <1>2. stage = "order" /\ UNCHANGED <<cfg, stage, selected>>
    BY DEF OrderNext
  <1>3. s \in selected /\ s \notin ToSet(order) /\ cfg.needs[s] \subseteq ToSet(order)
    BY <1>1 DEF First, Unblocked, OrderInv
  <1>4. /\ order' \in Seq(selected)
        /\ Len(order') = Len(order) + 1
        /\ Len(order) \in Nat
        /\ \A k \in 1..Len(order) : order'[k] = order[k]
        /\ order'[Len(order) + 1] = s
    BY <1>1, <1>3 DEF OrderInv
  <1>5. /\ DOMAIN order = 1..Len(order)
        /\ DOMAIN order' = 1..(Len(order) + 1)
    BY <1>4 DEF OrderInv
  <1>6. ToSet(order) = {order[k] : k \in 1..Len(order)}
    BY <1>5 DEF ToSet
  <1>7. \A j, k \in DOMAIN order' : order'[j] = order'[k] => j = k
    <2>1. \A k \in 1..Len(order) : order'[k] # s
      BY <1>3, <1>4, <1>6
    <2>2. \A j, k \in 1..Len(order) : order'[j] = order'[k] => j = k
      BY <1>4, <1>5 DEF OrderInv
    <2> QED
      BY <1>4, <1>5, <2>1, <2>2
  <1>8. ASSUME NEW j \in DOMAIN order'
        PROVE  cfg.needs[order'[j]] \subseteq {order'[k] : k \in 1..(j-1)}
    <2>1. CASE j = Len(order) + 1
      <3>1. {order'[k] : k \in 1..(j-1)} = {order[k] : k \in 1..Len(order)}
        BY <1>4, <2>1
      <3> QED
        BY <1>3, <1>4, <1>6, <2>1, <3>1
    <2>2. CASE j \in 1..Len(order)
      <3>1. {order'[k] : k \in 1..(j-1)} = {order[k] : k \in 1..(j-1)}
        BY <1>4, <2>2
      <3> QED
        BY <1>4, <1>5, <2>2, <3>1 DEF OrderInv
    <2> QED
      BY <1>4, <1>5, <2>1, <2>2
  <1> QED
    BY <1>2, <1>4, <1>7, <1>8 DEF OrderInv

LEMMA OrderNextInv == OrderInv /\ [Next]_vars => OrderInv'
  <1> SUFFICES ASSUME OrderInv, [Next]_vars PROVE OrderInv'
    OBVIOUS
  <1>1. CASE Select
    <2>1. CASE Refuse /\ UNCHANGED <<cfg, selected, order>>
      BY <2>1 DEF OrderInv, Refuse
    <2>2. CASE stage' = "reserve" /\ selected' = Asked /\ UNCHANGED <<cfg, order>>
      <3>1. order = <<>>
        BY <1>1 DEF Select, OrderInv
      <3>2. Asked \subseteq Services /\ \A s \in Asked : cfg.needs[s] \subseteq Asked
        BY ClosureIsClosed DEF OrderInv
      <3> QED
        BY <2>2, <3>1, <3>2 DEF OrderInv
    <2> QED
      BY <1>1, <2>1, <2>2 DEF Select
  <1>2. CASE Reserve \/ Resolve \/ ResolveRoutes
    <2>1. UNCHANGED <<cfg, selected, order>> /\ stage' # "running"
      BY <1>2 DEF Reserve, Resolve, ResolveRoutes, prepared, Refuse
    <2>2. order = <<>>
      BY <1>2 DEF Reserve, Resolve, ResolveRoutes, OrderInv
    <2> QED
      BY <2>1, <2>2 DEF OrderInv
  <1>3. CASE OrderNext
    BY <1>3, AppendKeepsOrder
  <1>4. CASE Build
    BY <1>4 DEF Build, Refuse, OrderInv, prepared
  <1>5. CASE RestOfNext
    <2>1. UNCHANGED <<cfg, selected, order>>
      BY <1>5, RestOfNextLeavesThePlan DEF prepared
    <2> QED
      BY <1>5, <2>1, RestOfNextLeavesThePlan DEF OrderInv
  <1>6. CASE UNCHANGED vars
    BY <1>6 DEF vars, OrderInv
  <1> QED
    BY <1>1, <1>2, <1>3, <1>4, <1>5, <1>6 DEF Next, Prepare, RestOfNext

\* For every configuration, a session that runs has a complete order of its services
\* in which each one comes once and after its dependencies.
THEOREM PlanOrderRespectsDependencies == Spec => []DependenciesFirst
  <1>1. Init => OrderInv
    BY DEF Init, OrderInv
  <1>2. OrderInv => DependenciesFirst
    BY DEF OrderInv, DependenciesFirst
  <1> QED
    BY <1>1, <1>2, OrderNextInv, PTL DEF Spec

(***************************************************************************)
(* Types.                                                                  *)
(***************************************************************************)
Phase == Alive \cup {"waiting", "asked", "rechecking", "planned", "failed", "stopped"}

\* TypeOK in three parts, a step of one service leaves the first one alone.
PlanTypes ==
    /\ cfg \in Configs
    /\ stage \in {"select", "reserve", "resolve", "order", "running", "ended", "refused"}
    /\ selected \subseteq Services /\ used \subseteq PortNames
    /\ order \in Seq(Services) /\ owner \in [PortNames -> Services \cup {None}]

PortTypes ==
    /\ ports \in PortMap /\ known \in PortMap /\ fresh \in PortMap /\ bound \in PortMap
    /\ deferred \subseteq PortNames /\ todo \subseteq PortNames /\ reserved \subseteq Numbers
    /\ holder \in Services \cup {None}
    /\ outside \subseteq Numbers

ServiceTypes ==
    /\ phase \in [Services -> Phase]
    /\ given \in [Services -> PortMap]
    /\ cancelled \in BOOLEAN /\ skipped \subseteq Services
    /\ moves \in 0..cfg.moves

LEMMA TypesParts == TypeOK <=> PlanTypes /\ PortTypes /\ ServiceTypes
  BY DEF TypeOK, PlanTypes, PortTypes, ServiceTypes, Phase

LEMMA NextTypes == PlanTypes' /\ PortTypes' /\ ServiceTypes' => TypeOK'
  BY DEF TypeOK, PlanTypes, PortTypes, ServiceTypes, Phase

LEMMA NextTyped == TypeOK' => PlanTypes' /\ PortTypes' /\ ServiceTypes'
  BY DEF TypeOK, PlanTypes, PortTypes, ServiceTypes, Phase

LEMMA NoPortsType == NoPorts \in PortMap
  BY DEF NoPorts, PortMap

LEMMA TypesInit == Init => TypeOK
  <1> SUFFICES ASSUME Init PROVE TypeOK
    OBVIOUS
  <1>1. cfg \in Configs /\ cfg \in Config
    BY ConfigsAreSound DEF Init
  <1>2. cfg.taken \subseteq Numbers /\ cfg.moves \in Nat
    BY <1>1 DEF Config
  <1>3. PlanTypes
    BY DEF Init, PlanTypes, NoPorts
  <1>4. PortTypes
    BY <1>2, NoPortsType DEF Init, PortTypes
  <1>5. ServiceTypes
    <2>1. moves \in 0..cfg.moves
      BY <1>2 DEF Init
    <2>2. given \in [Services -> PortMap]
      BY NoPortsType DEF Init
    <2>3. phase \in [Services -> Phase] /\ cancelled \in BOOLEAN /\ skipped \subseteq Services
      BY DEF Init, Phase
    <2> QED
      BY <2>1, <2>2, <2>3 DEF ServiceTypes
  <1> QED
    BY <1>3, <1>4, <1>5, TypesParts

LEMMA FixedNumbers ==
    ASSUME cfg \in Configs, used \subseteq PortNames
    PROVE  {cfg.low[p] : p \in Fixed} \subseteq Numbers
  BY ConfigTypes DEF Fixed

LEMMA PreparationTypes ==
    ASSUME TypeOK, Prepare
    PROVE  TypeOK'
  <1>0. PlanTypes /\ PortTypes /\ ServiceTypes
    BY TypesParts
  <1> USE DEF prepared, recheck, runtime, world
  <1>1. UNCHANGED <<phase, given, cancelled, skipped, moves, cfg>> => ServiceTypes'
    BY <1>0 DEF ServiceTypes
  <1>2. CASE Select
    <2>1. Needed \subseteq PortNames /\ Asked \subseteq Services
      BY <1>0, NeededNames DEF PlanTypes, Asked, Closure
    <2>2. PlanTypes'
      BY <1>0, <1>2, <2>1 DEF Select, Refuse, PlanTypes
    <2>3. PortTypes'
      BY <1>0, <1>2 DEF Select, PortTypes
    <2> QED
      BY <1>1, <1>2, <2>2, <2>3, NextTypes DEF Select
  <1>3. CASE Reserve
    <2>1. PlanTypes'
      BY <1>0, <1>3 DEF Reserve, Refuse, PlanTypes
    <2>2. PortTypes'
      BY <1>0, <1>3, FixedNumbers DEF Reserve, PortTypes, PlanTypes
    <2> QED
      BY <1>1, <1>3, <2>1, <2>2, NextTypes DEF Reserve
  <1>4. CASE Resolve
    <2>1. PICK p \in First(todo) :
            \/ todo' = todo \ {p} /\ UNCHANGED <<stage, ports, reserved>>
            \/ \E n \in Outcomes(p) :
                 IF n = None THEN Refuse /\ UNCHANGED <<ports, todo, reserved>>
                 ELSE /\ ports' = [ports EXCEPT ![p] = n]
                      /\ reserved' = reserved \cup {n}
                      /\ todo' = todo \ {p}
                      /\ UNCHANGED stage
      BY <1>4 DEF Resolve
    <2>2. p \in PortNames
      BY <1>0, <2>1 DEF First, PortTypes
    <2>3. UNCHANGED <<prepared, known, deferred, fresh, holder, bound, outside>>
      BY <1>4 DEF Resolve
    <2>4. \A n \in Outcomes(p) : n # None => n \in Numbers
      BY <1>0, <2>2, SearchResult DEF PlanTypes
    <2>5. PlanTypes' /\ PortTypes'
      <3>1. CASE todo' = todo \ {p} /\ UNCHANGED <<stage, ports, reserved>>
        BY <1>0, <2>3, <3>1 DEF PlanTypes, PortTypes
      <3>2. CASE Refuse /\ UNCHANGED <<ports, todo, reserved>>
        BY <1>0, <2>3, <3>2 DEF PlanTypes, PortTypes, Refuse
      <3>3. ASSUME NEW n \in Numbers, ports' = [ports EXCEPT ![p] = n],
                   reserved' = reserved \cup {n}, todo' = todo \ {p}, UNCHANGED stage
            PROVE  PlanTypes' /\ PortTypes'
        BY <1>0, <2>2, <2>3, <3>3 DEF PlanTypes, PortTypes, PortMap
      <3> QED
        BY <2>1, <2>4, <3>1, <3>2, <3>3
    <2> QED
      BY <1>1, <1>4, <2>5, NextTypes DEF Resolve
  <1>5. CASE ResolveRoutes \/ Build
    <2>1. PlanTypes'
      BY <1>0, <1>5 DEF ResolveRoutes, Build, Refuse, PlanTypes
    <2>2. PortTypes'
      BY <1>0, <1>5 DEF ResolveRoutes, Build, PortTypes, PlanTypes
    <2> QED
      BY <1>1, <1>5, <2>1, <2>2, NextTypes DEF ResolveRoutes, Build
  <1>6. CASE OrderNext
    <2>1. \A s \in First(Unblocked) : s \in Services
      BY <1>0 DEF First, Unblocked, PlanTypes
    <2>2. PlanTypes'
      BY <1>0, <1>6, <2>1 DEF OrderNext, PlanTypes
    <2>3. PortTypes'
      BY <1>0, <1>6 DEF OrderNext, PortTypes
    <2> QED
      BY <1>1, <1>6, <2>2, <2>3, NextTypes DEF OrderNext
  <1> QED
    BY <1>2, <1>3, <1>4, <1>5, <1>6 DEF Prepare

LEMMA RecheckTypes ==
    ASSUME TypeOK, Recheck
    PROVE  TypeOK'
  <1>0. PlanTypes /\ PortTypes /\ ServiceTypes
    BY TypesParts
  <1>1. PlanTypes'
    BY <1>0 DEF Recheck, Reallocate, ReallocateFails, LeaveBeforeStart, prepared, PlanTypes
  <1>2. CASE Reallocate
    <2>1. PICK p \in First(todo) :
            \E n \in IF Kept(p) THEN {fresh[p]} ELSE Outcomes(p) \ {None} :
              /\ fresh' = [fresh EXCEPT ![p] = n]
              /\ reserved' = reserved \cup {n}
              /\ todo' = todo \ {p}
      BY <1>2 DEF Reallocate
    <2>2. p \in PortNames
      BY <1>0, <2>1 DEF First, PortTypes
    <2>3. \A n \in IF Kept(p) THEN {fresh[p]} ELSE Outcomes(p) \ {None} : n \in Numbers
      <3>1. CASE Kept(p)
        BY <1>0, <2>2, <3>1 DEF Kept, PortTypes, PortMap
      <3>2. CASE ~Kept(p)
        BY <1>0, <2>2, <3>2, SearchResult DEF PlanTypes
      <3> QED
        BY <3>1, <3>2
    <2>4. PICK n \in Numbers : /\ fresh' = [fresh EXCEPT ![p] = n]
                               /\ reserved' = reserved \cup {n}
                               /\ todo' = todo \ {p}
      BY <2>1, <2>3
    <2>5. PortTypes'
      BY <1>0, <1>2, <2>2, <2>4 DEF Reallocate, runtime, world, PortTypes, PortMap
    <2>6. ServiceTypes'
      BY <1>0, <1>2 DEF Reallocate, prepared, world, ServiceTypes
    <2> QED
      BY <1>1, <2>5, <2>6, NextTypes
  <1>3. CASE ReallocateFails
    <2>1. PortTypes'
      BY <1>0, <1>3, NoPortsType DEF ReallocateFails, Unlock, runtime, world, PortTypes
    <2>2. ServiceTypes'
      BY <1>0, <1>3 DEF ReallocateFails, prepared, world, ServiceTypes, Phase
    <2> QED
      BY <1>1, <2>1, <2>2, NextTypes
  <1>4. CASE LeaveBeforeStart
    <2>1. known' \in PortMap
      BY <1>0, <1>4 DEF LeaveBeforeStart, PortTypes, PortMap
    <2>2. PortTypes'
      BY <1>0, <1>4, <2>1, NoPortsType DEF LeaveBeforeStart, Unlock, world, PortTypes
    <2>3. ServiceTypes'
      BY <1>0, <1>4 DEF LeaveBeforeStart, prepared, world, ServiceTypes, PortTypes, Phase
    <2> QED
      BY <1>1, <2>2, <2>3, NextTypes
  <1> QED
    BY <1>2, <1>3, <1>4 DEF Recheck

\* An event of a worker leaves the plan with the numbers of its StartPlan.
LEMMA ReportTypes ==
    ASSUME TypeOK, NEW s \in Services, Report(s)
    PROVE  ports' \in PortMap
  <1>1. Reported(s) \in PortMap
    BY NoPortsType DEF Reported, TypeOK
  <1> QED
    BY <1>1 DEF Report, TypeOK, PortMap

LEMMA EndServiceTypes ==
    ASSUME TypeOK, NEW s \in Services, NEW how \in {"failed", "stopped"}, EndService(s, how),
           cancelled' \in BOOLEAN
    PROVE  TypeOK'
  <1>0. PlanTypes /\ PortTypes /\ ServiceTypes
    BY TypesParts
  <1>1. PlanTypes'
    BY <1>0 DEF EndService, prepared, PlanTypes
  <1>2. bound' \in PortMap
    BY <1>0 DEF EndService, PortTypes, PortMap
  <1>3. ports' \in PortMap
    BY ReportTypes DEF EndService
  <1>4. PortTypes'
    BY <1>0, <1>2, <1>3 DEF EndService, runtime, recheck, world, PortTypes
  <1>5. ServiceTypes'
    BY <1>0 DEF EndService, prepared, world, ServiceTypes, Phase
  <1> QED
    BY <1>1, <1>4, <1>5, NextTypes

LEMMA ProgressTypes ==
    ASSUME TypeOK, NEW s \in Services, Progress(s) \/ Fails(s)
    PROVE  TypeOK'
  <1>0. PlanTypes /\ PortTypes /\ ServiceTypes
    BY TypesParts
  <1> USE DEF prepared, recheck, runtime, world
  <1>1. CASE Begin(s) \/ Launch(s)
    <2>1. PlanTypes' /\ PortTypes'
      BY <1>0, <1>1 DEF Begin, Launch, PlanTypes, PortTypes
    <2>2. ServiceTypes'
      BY <1>0, <1>1 DEF Begin, Launch, ServiceTypes, Phase, Alive
    <2> QED
      BY <2>1, <2>2, NextTypes
  <1>2. CASE EnterBeforeStart(s)
    <2>1. PlanTypes'
      BY <1>0, <1>2 DEF EnterBeforeStart, PlanTypes
    <2>2. PICK current : /\ current = [p \in PortNames |-> IF Discovered(p) /\ known[p] # None
                                                            THEN known[p] ELSE ports[p]]
                         /\ ports' = current /\ fresh' = current
                         /\ reserved' = InUse(s, current)
      BY <1>2 DEF EnterBeforeStart
    <2>3. current \in PortMap
      BY <1>0, <2>2 DEF PortTypes, PortMap
    <2>4. InUse(s, current) \subseteq Numbers
      BY <2>3 DEF InUse, PortMap
    <2>5. Rechecked(s) \subseteq PortNames
      BY <1>0 DEF Rechecked, Own, PlanTypes
    <2>6. PortTypes'
      BY <1>0, <1>2, <2>2, <2>3, <2>4, <2>5 DEF EnterBeforeStart, PortTypes
    <2>7. ServiceTypes'
      BY <1>0, <1>2 DEF EnterBeforeStart, ServiceTypes, Phase
    <2> QED
      BY <2>1, <2>6, <2>7, NextTypes
  <1>3. CASE Listen(s)
    <2>1. PICK n \in Listeners(s) :
            bound' = [p \in PortNames |-> IF p \in Own(s) THEN n[p] ELSE bound[p]]
      BY <1>3 DEF Listen
    <2>2. \A p \in Own(s) : n[p] \in Numbers
      BY <2>1 DEF Listeners
    <2>3. bound' \in PortMap
      BY <1>0, <2>1, <2>2 DEF PortTypes, PortMap
    <2>4. PlanTypes' /\ PortTypes'
      BY <1>0, <1>3, <2>3 DEF Listen, PlanTypes, PortTypes
    <2>5. ServiceTypes'
      BY <1>0, <1>3 DEF Listen, ServiceTypes
    <2> QED
      BY <2>4, <2>5, NextTypes
  <1>4. CASE ReportStarting(s) \/ ReportReady(s)
    <2>1. ports' \in PortMap
      BY <1>4, ReportTypes DEF ReportStarting, ReportReady
    <2>2. PlanTypes' /\ PortTypes'
      BY <1>0, <1>4, <2>1 DEF ReportStarting, ReportReady, PlanTypes, PortTypes
    <2>3. ServiceTypes'
      BY <1>0, <1>4 DEF ReportStarting, ReportReady, ServiceTypes, Phase, Alive
    <2> QED
      BY <2>2, <2>3, NextTypes
  <1>5. CASE Discover(s)
    <2>1. PICK p : /\ known' = [known EXCEPT ![p] = bound[p]]
                   /\ deferred' = deferred \ {p}
                   /\ given' = [given EXCEPT ![s][p] = bound[p]]
      BY <1>5 DEF Discover
    <2>2. known' \in PortMap
      BY <1>0, <2>1 DEF PortTypes, PortMap
    <2>3. given' \in [Services -> PortMap]
      BY <1>0, <2>1 DEF PortTypes, ServiceTypes, PortMap
    <2>4. PlanTypes' /\ PortTypes'
      BY <1>0, <1>5, <2>1, <2>2 DEF Discover, PlanTypes, PortTypes
    <2>5. ServiceTypes'
      BY <1>0, <1>5, <2>3 DEF Discover, ServiceTypes, Phase, Alive
    <2> QED
      BY <2>4, <2>5, NextTypes
  <1>6. CASE CannotServe(s) \/ Fails(s) \/ Stops(s)
    <2>1. \E how \in {"failed", "stopped"} : EndService(s, how)
      BY <1>6 DEF CannotServe, Fails, Stops
    <2>2. cancelled' \in BOOLEAN
      BY <1>0, <1>6 DEF CannotServe, Fails, Stops, ServiceTypes
    <2> QED
      BY <2>1, <2>2, EndServiceTypes
  <1> QED
    BY <1>1, <1>2, <1>3, <1>4, <1>5, <1>6 DEF Progress

LEMMA TypesNext == TypeOK /\ [Next]_vars => TypeOK'
  <1> SUFFICES ASSUME TypeOK, [Next]_vars PROVE TypeOK'
    OBVIOUS
  <1>0. PlanTypes /\ PortTypes /\ ServiceTypes
    BY TypesParts
  <1> USE DEF prepared, recheck, runtime, world
  <1>1. CASE Interrupt \/ CleanUp
    <2>1. PlanTypes' /\ PortTypes'
      BY <1>0, <1>1 DEF Interrupt, CleanUp, PlanTypes, PortTypes
    <2>2. ServiceTypes'
      <3>1. Registered \subseteq Services
        BY <1>0, ConfigsAreSound DEF Registered, PlanTypes, Config
      <3> QED
        BY <1>0, <1>1, <3>1 DEF Interrupt, CleanUp, ServiceTypes
    <2> QED
      BY <2>1, <2>2, NextTypes
  <1>2. CASE OutsideOpens \/ OutsideCloses
    <2>1. PlanTypes' /\ PortTypes'
      BY <1>0, <1>2 DEF OutsideOpens, OutsideCloses, PlanTypes, PortTypes
    <2>2. cfg.moves \in Nat
      BY <1>0, ConfigsAreSound DEF PlanTypes, Config
    <2>3. moves' \in 0..cfg.moves
      BY <1>0, <1>2, <2>2 DEF OutsideOpens, OutsideCloses, ServiceTypes
    <2>4. ServiceTypes'
      BY <1>0, <1>2, <2>3 DEF OutsideOpens, OutsideCloses, ServiceTypes
    <2> QED
      BY <2>1, <2>4, NextTypes
  <1>3. CASE UNCHANGED vars
    <2>1. PlanTypes' /\ PortTypes' /\ ServiceTypes'
      BY <1>0, <1>3 DEF vars, PlanTypes, PortTypes, ServiceTypes
    <2> QED
      BY <2>1, NextTypes
  <1> QED
    BY <1>1, <1>2, <1>3, PreparationTypes, RecheckTypes, ProgressTypes DEF Next, Over

\* Every reachable state is well typed, for every configuration.
THEOREM TypeCorrect == Spec => []TypeOK
  BY TypesInit, TypesNext, PTL DEF Spec

(***************************************************************************)
(* The order is the first one.                                             *)
(***************************************************************************)
\* Select has found no cycle in what it keeps; each service was the first, by name,
\* of those that could come at its place.
Before(j) == {order[k] : k \in 1..(j-1)}

FirstInv ==
    /\ OrderInv
    /\ stage \in {"reserve", "resolve", "order", "running"} => selected = Asked /\ ~Cyclic
    /\ \A j \in DOMAIN order : \A x \in selected :
         x \notin Before(j) /\ cfg.needs[x] \subseteq Before(j) => order[j] <= x

LEMMA DependenciesOfDependencies ==
    ASSUME cfg \in Configs, NEW s \in Services, NEW d \in cfg.needs[s]
    PROVE  d \in Upstream(s) /\ Upstream(d) \subseteq Upstream(s)
  <1>1. d \in Services
    BY ConfigTypes
  <1>2. d \in Upstream(s)
    BY <1>1 DEF Upstream, Closure
  <1>3. ASSUME NEW x \in Upstream(d), NEW C \in SUBSET Services,
               cfg.needs[s] \subseteq C, \A t \in C : cfg.needs[t] \subseteq C
        PROVE  x \in C
    <2>1. cfg.needs[d] \subseteq C
      BY <1>3
    <2> QED
      BY <1>3, <2>1 DEF Upstream, Closure
  <1>4. \A x \in Upstream(d) : x \in Services
    BY DEF Upstream, Closure
  <1>5. \A x \in Upstream(d) : x \in Upstream(s)
    BY <1>3, <1>4 DEF Upstream, Closure
  <1> QED
    BY <1>2, <1>5

\* Of services that are not their own dependencies, one has none among the others.
LEMMA SomeServiceIsFirst ==
    ASSUME cfg \in Configs, NEW S \in SUBSET Services, S # {}, \A s \in S : s \notin Upstream(s)
    PROVE  \E s \in S : cfg.needs[s] \cap S = {}
  <1> DEFINE U == {Upstream(s) : s \in S}
  <1>1. U \subseteq SUBSET Services
    BY DEF Upstream, Closure
  <1>2. IsWellFoundedOn(StrictSubsetOrdering(Services), SUBSET Services)
    BY FS_StrictSubsetOrderingWellFounded, FS_FiniteSubsetsOfFinite, NamesAreFinite
  <1>3. U # {}
    OBVIOUS
  <1>4. PICK u \in U : \A v \in U : <<v, u>> \notin StrictSubsetOrdering(Services)
    <2> HIDE DEF U
    <2> QED
      BY <1>1, <1>2, <1>3, WFMin
  <1>5. PICK s \in S : u = Upstream(s)
    BY <1>4
  <1>6. ASSUME NEW d \in cfg.needs[s] \cap S PROVE FALSE
    <2>1. d \in Upstream(s) /\ Upstream(d) \subseteq Upstream(s)
      BY DependenciesOfDependencies
    <2>2. Upstream(d) # Upstream(s)
      BY <2>1
    <2>3. <<Upstream(d), Upstream(s)>> \in (SUBSET Services) \X (SUBSET Services)
      BY DEF Upstream, Closure
    <2>4. <<Upstream(d), Upstream(s)>> \in StrictSubsetOrdering(Services)
      BY <2>1, <2>2, <2>3 DEF StrictSubsetOrdering
    <2> QED
      BY <1>4, <1>5, <2>4
  <1> QED
    BY <1>6

LEMMA FirstAppend ==
    ASSUME FirstInv, OrderNext
    PROVE  FirstInv'
  <1>1. PICK s \in First(Unblocked) : order' = Append(order, s)
    BY DEF OrderNext
  <1>2. UNCHANGED <<cfg, stage, selected>> /\ OrderInv
    BY DEF OrderNext, FirstInv
  <1>3. s \in selected
    BY <1>1 DEF First, Unblocked
  <1>4. /\ Len(order) \in Nat /\ DOMAIN order = 1..Len(order)
        /\ DOMAIN order' = 1..(Len(order) + 1)
        /\ \A k \in 1..Len(order) : order'[k] = order[k]
        /\ order'[Len(order) + 1] = s
    BY <1>1, <1>2, <1>3 DEF OrderInv
  <1>5. \A j \in DOMAIN order' : {order'[k] : k \in 1..(j-1)} = {order[k] : k \in 1..(j-1)}
    BY <1>4
  <1>6. ASSUME NEW j \in DOMAIN order', NEW x \in selected,
               x \notin Before(j), cfg.needs[x] \subseteq Before(j)
        PROVE  order'[j] <= x
    <2>1. CASE j \in 1..Len(order)
      BY <1>4, <1>6, <2>1 DEF FirstInv
    <2>2. CASE j = Len(order) + 1
      <3>1. Before(j) = ToSet(order)
        BY <1>4, <2>2 DEF Before, ToSet
      <3>2. x \in Unblocked
        BY <1>6, <3>1 DEF Unblocked
      <3> QED
        BY <1>1, <1>4, <2>2, <3>2 DEF First
    <2> QED
      BY <1>4, <2>1, <2>2
  <1>7. \A j \in DOMAIN order' : \A x \in selected' :
          x \notin {order'[k] : k \in 1..(j-1)}
             /\ cfg'.needs[x] \subseteq {order'[k] : k \in 1..(j-1)} => order'[j] <= x
    BY <1>2, <1>5, <1>6 DEF Before
  <1>8. Asked' = Asked /\ Cyclic' = Cyclic
    BY <1>2 DEF Asked, Cyclic, Upstream
  <1>9. OrderInv'
    BY <1>2, AppendKeepsOrder
  <1> QED
    BY <1>2, <1>7, <1>8, <1>9 DEF FirstInv, Before

LEMMA FirstNext == FirstInv /\ [Next]_vars => FirstInv'
  <1> SUFFICES ASSUME FirstInv, [Next]_vars PROVE FirstInv'
    OBVIOUS
  <1>1. OrderInv /\ OrderInv'
    BY OrderNextInv DEF FirstInv
  <1>2. CASE OrderNext
    BY <1>2, FirstAppend
  <1>3. CASE Select
    <2>1. order = <<>> /\ order' = <<>> /\ cfg' = cfg
      BY <1>1, <1>3 DEF Select, OrderInv
    <2>2. Asked' = Asked /\ Cyclic' = Cyclic
      BY <2>1 DEF Asked, Cyclic, Upstream
    <2> QED
      BY <1>1, <1>3, <2>1, <2>2 DEF Select, Refuse, FirstInv
  <1>4. ASSUME UNCHANGED <<cfg, selected, order>>,
               stage' \in {"reserve", "resolve", "order", "running"}
                  => stage \in {"reserve", "resolve", "order", "running"}
        PROVE  FirstInv'
    <2>1. Asked' = Asked /\ Cyclic' = Cyclic
      BY <1>4 DEF Asked, Cyclic, Upstream
    <2> QED
      BY <1>1, <1>4, <2>1 DEF FirstInv, Before
  <1>5. CASE Reserve \/ Resolve \/ ResolveRoutes \/ Build
    BY <1>4, <1>5 DEF Reserve, Resolve, ResolveRoutes, Build, prepared, Refuse
  <1>6. CASE RestOfNext
    BY <1>4, <1>6, RestOfNextLeavesThePlan DEF prepared
  <1>7. CASE UNCHANGED vars
    BY <1>4, <1>7 DEF vars
  <1> QED
    BY <1>2, <1>3, <1>5, <1>6, <1>7 DEF Next, Prepare, RestOfNext

\* Build cannot meet a cycle that Select has not found.
LEMMA NoLateCycle ==
    ASSUME FirstInv, stage = "order", Unblocked = {}
    PROVE  ToSet(order) = selected
  <1>1. ToSet(order) \subseteq selected
    BY DEF FirstInv, OrderInv, ToSet
  <1>2. ASSUME ToSet(order) # selected PROVE FALSE
    <2> DEFINE S == selected \ ToSet(order)
    <2>1. S # {} /\ S \in SUBSET Services
      BY <1>1, <1>2 DEF FirstInv, OrderInv
    <2>2. \A s \in S : s \notin Upstream(s)
      BY DEF FirstInv, Cyclic
    <2>3. PICK s \in S : cfg.needs[s] \cap S = {}
      <3> HIDE DEF S
      <3> QED
        BY <2>1, <2>2, SomeServiceIsFirst DEF FirstInv, OrderInv
    <2>4. s \in Unblocked
      BY <2>3 DEF Unblocked, FirstInv, OrderInv
    <2> QED
      BY <2>4
  <1> QED
    BY <1>2

LEMMA LeastPlace ==
    ASSUME NEW K \in SUBSET Nat, K # {}
    PROVE  \E k \in K : \A j \in Nat : j < k => j \notin K
  <1>1. IsWellFoundedOn(OpToRel(<, Nat), Nat)
    BY NatLessThanWellFounded
  <1>2. PICK k \in K : \A j \in K : <<j, k>> \notin OpToRel(<, Nat)
    BY <1>1, WFMin
  <1>3. \A j \in K : ~(j < k)
    BY <1>2 DEF OpToRel
  <1> QED
    BY <1>3

\* A complete order in which each service was the first that could come at its place
\* is the first of all those that respect the dependencies.
LEMMA CompleteIsFirst ==
    ASSUME FirstInv, stage = "running"
    PROVE  /\ order \in SetToSeqs(selected) /\ Topological(order)
           /\ \A o \in SetToSeqs(selected) : Topological(o) /\ o # order => Earlier(order, o)
  <1> DEFINE n == Len(order)
  <1>0. OrderInv /\ order \in Seq(selected) /\ ToSet(order) = selected
    BY DEF FirstInv, OrderInv
  <1>1. n \in Nat /\ DOMAIN order = 1..n /\ order \in [1..n -> selected]
    BY <1>0
  <1>2. \A j, k \in 1..n : order[j] = order[k] => j = k
    BY <1>0, <1>1 DEF OrderInv
  <1>3. order \in Bijection(1..n, selected)
    <2>1. \A s \in selected : \E k \in 1..n : order[k] = s
      BY <1>0, <1>1 DEF ToSet
    <2> QED
      BY <1>1, <1>2, <2>1 DEF Bijection, Injection, Surjection, IsInjective
  <1>4. Cardinality(selected) = n
    BY <1>1, <1>3, FS_CountingElements DEF ExistsBijection
  <1>5. order \in SetToSeqs(selected)
    BY <1>1, <1>2, <1>4 DEF SetToSeqs
  <1>6. Topological(order)
    BY <1>0 DEF OrderInv, Topological
  <1>7. ASSUME NEW o \in SetToSeqs(selected), Topological(o), o # order
        PROVE  Earlier(order, o)
    <2>1. o \in [1..n -> selected] /\ \A i, j \in 1..n : i # j => o[i] # o[j]
      BY <1>4, <1>7 DEF SetToSeqs
    <2> DEFINE K == {k \in 1..n : o[k] # order[k]}
    <2>2. K # {}
      BY <1>1, <1>7, <2>1
    <2>3. K \in SUBSET Nat
      OBVIOUS
    <2>4. PICK k \in K : \A j \in Nat : j < k => j \notin K
      <3> HIDE DEF K
      <3> QED
        BY <2>2, <2>3, LeastPlace
    <2>5. k \in 1..n /\ \A j \in 1..(k-1) : j \in 1..n /\ o[j] = order[j]
      BY <1>1, <2>4
    <2>6. {o[j] : j \in 1..(k-1)} = Before(k)
      BY <2>5 DEF Before
    <2>7. o[k] \in selected /\ o[k] \notin Before(k)
      BY <2>1, <2>5, <2>6
    <2>8. cfg.needs[o[k]] \subseteq Before(k)
      <3>1. cfg.needs[o[k]] \cap selected \subseteq {o[j] : j \in 1..(k-1)}
        BY <1>7, <2>1, <2>5 DEF Topological
      <3> QED
        BY <1>0, <2>6, <2>7, <3>1 DEF OrderInv
    <2>9. order[k] <= o[k]
      BY <1>1, <2>5, <2>7, <2>8 DEF FirstInv
    <2>10. order[k] \in Nat /\ o[k] \in Nat
      BY <1>0, <1>1, <2>5, <2>7, NamesAreSorted DEF OrderInv
    <2>11. order[k] < o[k]
      BY <2>4, <2>9, <2>10
    <2> QED
      BY <1>1, <2>5, <2>11 DEF Earlier
  <1> QED
    BY <1>5, <1>6, <1>7

\* For every configuration: the order of a running session is the first, in the order
\* of names, of all those that respect the dependencies, and once Select has found no
\* cycle topologicalOrder finds none.
THEOREM PlanOrderIsFirst == Spec => []OrderIsFirst
  <1>1. Init => FirstInv
    BY DEF Init, FirstInv, OrderInv
  <1>2. FirstInv => OrderIsFirst
    BY NoLateCycle, CompleteIsFirst DEF OrderIsFirst
  <1> QED
    BY <1>1, <1>2, FirstNext, PTL DEF Spec

(***************************************************************************)
(* What the services are told.                                             *)
(***************************************************************************)
\* The names that are given a number by a search.
Probed(p) == p \in used /\ ~Discovered(p)

\* Resolve and Reallocate may give a name p the number n: a fixed port has its own, and
\* the port of a service never has the fixed number of another's.
May(p, n) ==
    /\ n # None
    /\ p \in Fixed => n = cfg.low[p]
    /\ \A q \in Fixed : owner[q] # owner[p] => n # cfg.low[q]

\* The services that have a StartPlan, by their phases, and those that have none yet.
ToldIn(ph) == {s \in Services : ph[s] \in Alive \cup {"planned"}}
Untold == {"waiting", "asked", "rechecking"}
Past == {"up", "failed", "stopped"}

\* n is the number p's owner was told, or one that a service was told which does not
\* depend on the owner and may have been told before it.
Fits(p, n, told) ==
    \/ n = told[owner[p]][p]
    \/ /\ n # None
       /\ \E u \in Services \ {owner[p]} : owner[p] \notin Upstream(u) /\ told[u][p] = n

\* Until the session runs no service is on its way, and the numbers are Resolve's.
BeforeRun ==
    /\ stage \in Preparing \cup {"refused"} =>
         /\ holder = None /\ known = NoPorts
         /\ \A s \in Services : phase[s] = "waiting"
    /\ stage \in Preparing => \A p \in used : Discovered(p) => ports[p] = None
    /\ stage = "resolve" => \A p \in used \ todo : Probed(p) => May(p, ports[p])
    /\ stage = "order" => \A p \in used : Probed(p) => May(p, ports[p])

\* A service is only asked for once those it depends on have been up, and has no
\* StartPlan until its BeforeStart is over.
Turns ==
    /\ \A s \in Services : phase[s] # "waiting" => \A d \in cfg.needs[s] : phase[d] \in Past
    /\ \A s \in Services : phase[s] \in Untold => given[s] = NoPorts
    /\ \A s \in Services : phase[s] = "rechecking" <=> holder = s

\* Between the first and the last step of a BeforeStart nobody else writes the plan's
\* ports; the numbers of the names it does not recheck are reserved, and those it has
\* given differ from them.
RecheckingOf(h, left, new, reserve) ==
    /\ left \subseteq Rechecked(h)
    /\ \A q \in PortNames \ Rechecked(h) : new[q] = ports[q] /\ new[q] \in reserve \cup {None}
    /\ \A p \in Rechecked(h) : May(p, new[p])
    /\ \A p \in Rechecked(h) \ left : \A q \in PortNames \ Rechecked(h) :
         Probed(q) => new[p] # new[q]

Rechecking == holder # None => stage = "running" /\ RecheckingOf(holder, todo, fresh, reserved)

\* The plan and the StartPlans have numbers that Resolve or Reallocate gave; those of a
\* port whose owner was told its number fit; and within one StartPlan the service's own
\* ports differ from all others.
PlansOf(plan, told, ph) ==
    \A p \in PortNames : Probed(p) =>
        /\ May(p, plan[p])
        /\ \A s \in ToldIn(ph) : May(p, told[s][p])
        /\ owner[p] \in ToldIn(ph) =>
             /\ Fits(p, plan[p], told)
             /\ \A s \in ToldIn(ph) : Fits(p, told[s][p], told)
             /\ \A q \in PortNames : Probed(q) /\ owner[q] # owner[p] =>
                                       told[owner[p]][p] # told[owner[p]][q]

Plans == stage \in {"running", "ended"} => PlansOf(ports, given, phase)

\* A discovered port has no number but the one its owner's process listens on, which
\* is in the plan as long as the owner is up, and in the StartPlan of what depends on it.
Searching == Untold \cup {"planned", "launched", "started"}

DiscoveryOf(p, number, plan, session, told, ph) ==
    /\ ph[owner[p]] \in Searching => number = None
    /\ ph[owner[p]] \in {"found", "up"} => number # None
    /\ plan[p] \in {None, number} /\ session[p] \in {None, number}
    /\ \A s \in Services : told[s][p] \in {None, number}
    /\ ph[owner[p]] = "up" =>
         /\ plan[p] = number
         /\ \A t \in ToldIn(ph) : owner[p] \in Upstream(t) => told[t][p] = number

DiscoveriesOf(plan, session, told, ph) ==
    \A p \in used : Discovered(p) /\ owner[p] # None =>
        DiscoveryOf(p, told[owner[p]][p], plan, session, told, ph)

Discoveries == stage \in {"running", "ended"} => DiscoveriesOf(ports, known, given, phase)

StartPlans == BeforeRun /\ Turns /\ Rechecking /\ Plans /\ Discoveries

PortsInv == TypeOK /\ UniqueInv /\ StartPlans

LEMMA StartPlansInit == Init => StartPlans
  <1> SUFFICES ASSUME Init PROVE StartPlans
    OBVIOUS
  <1>1. None \notin Services
    BY NamesAreSorted
  <1>2. BeforeRun
    BY DEF Init, BeforeRun, Preparing
  <1>3. Turns
    BY <1>1 DEF Init, Turns, Untold
  <1> QED
    BY <1>2, <1>3 DEF Init, StartPlans, Rechecking, Plans, Discoveries

(* What depends on a service, however far, is only asked for once the service has *)
(* been up.                                                                       *)
LEMMA UpstreamIsPast ==
    ASSUME TypeOK, Turns, NEW t \in Services, phase[t] # "waiting", NEW o \in Upstream(t)
    PROVE  phase[o] \in Past
  <1> DEFINE C == {s \in Services : phase[s] \in Past}
  <1>1. cfg.needs[t] \subseteq C
    BY ConfigTypes DEF TypeOK, Turns
  <1>2. \A s \in C : cfg.needs[s] \subseteq C
    BY ConfigTypes DEF TypeOK, Turns, Past
  <1>3. C \in SUBSET Services
    OBVIOUS
  <1>4. o \in C
    BY <1>1, <1>2, <1>3 DEF Upstream, Closure
  <1> QED
    BY <1>4

LEMMA ToldServices == Told = ToldIn(phase)
  BY DEF Told, ToldIn

LEMMA UpAreTold == \A o : phase[o] \in Past \cap (Alive \cup {"planned"}) => phase[o] = "up"
  BY DEF Past, Alive

\* The invariant has the properties.
LEMMA StaleFromInv ==
    ASSUME PortsInv
    PROVE  StaleOnlyFromABranch
  <1>1. SUFFICES ASSUME NEW t \in Told, NEW p \in used, ~Agrees(t, p)
                 PROVE  \E u \in Services \ {owner[p]} :
                           owner[p] \notin Upstream(u) /\ given[u][p] = given[t][p]
    BY DEF StaleOnlyFromABranch
  <1>2. owner[p] \in Upstream(t) /\ owner[p] \in Told /\ given[t][p] # given[owner[p]][p]
    BY <1>1 DEF Agrees
  <1>3. t \in Services /\ phase[t] # "waiting" /\ owner[p] \in Services /\ owner[p] # None
    BY <1>2, NamesAreSorted DEF Told, Alive
  <1>4. stage \in {"running", "ended"}
    BY <1>3 DEF PortsInv, StartPlans, BeforeRun, TypeOK, Preparing
  <1>5. CASE Discovered(p)
    <2>1. phase[owner[p]] \in Past
      BY <1>2, <1>3, UpstreamIsPast DEF PortsInv, StartPlans
    <2>2. phase[owner[p]] = "up"
      BY <1>2, <2>1, UpAreTold DEF Told
    <2>3. DiscoveryOf(p, given[owner[p]][p], ports, known, given, phase)
      BY <1>3, <1>4, <1>5 DEF PortsInv, StartPlans, Discoveries, DiscoveriesOf
    <2>4. given[t][p] = given[owner[p]][p]
      BY <1>1, <1>2, <2>2, <2>3, ToldServices DEF DiscoveryOf
    <2> QED
      BY <1>2, <2>4
  <1>6. CASE ~Discovered(p)
    <2>1. Probed(p) /\ p \in PortNames
      BY <1>6 DEF Probed, PortsInv, TypeOK
    <2>2. PlansOf(ports, given, phase)
      BY <1>4 DEF PortsInv, StartPlans, Plans
    <2>3. Fits(p, given[t][p], given)
      BY <1>1, <1>2, <2>1, <2>2, ToldServices DEF PlansOf
    <2> QED
      BY <1>2, <2>3 DEF Fits
  <1> QED
    BY <1>5, <1>6

\* The owner of p knows another's number of q, and was given a different one for p.
LEMMA ToldApart ==
    ASSUME PortsInv, NEW p \in used, NEW q \in used, ~Discovered(p), ~Discovered(q),
           owner[p] # owner[q], owner[p] \in Told, owner[q] \in Told, Settled(q)
    PROVE  given[owner[p]][p] # given[owner[q]][q]
  <1>1. Probed(p) /\ Probed(q) /\ p \in PortNames /\ q \in PortNames
    BY DEF Probed, PortsInv, TypeOK
  <1>2. stage \in {"running", "ended"}
    BY DEF PortsInv, StartPlans, BeforeRun, TypeOK, Preparing, Told, Alive
  <1>3. PlansOf(ports, given, phase)
    BY <1>2 DEF PortsInv, StartPlans, Plans
  <1>4. given[owner[p]][p] # given[owner[p]][q]
    BY <1>1, <1>3, ToldServices DEF PlansOf
  <1>5. given[owner[p]][q] = given[owner[q]][q]
    BY DEF Settled
  <1> QED
    BY <1>4, <1>5

LEMMA ClashFromInv ==
    ASSUME PortsInv
    PROVE  ServicesDoNotClash
  <1>1. SUFFICES ASSUME NEW p \in used, NEW q \in used, ~Discovered(p), ~Discovered(q),
                        owner[p] # owner[q], owner[p] \in Told, owner[q] \in Told,
                        Settled(p) \/ Settled(q)
                 PROVE  given[owner[p]][p] # given[owner[q]][q]
    BY DEF ServicesDoNotClash
  <1> QED
    BY <1>1, ToldApart

\* The preparation of the session.
LEMMA StartPlansPreparation ==
    ASSUME PortsInv, Prepare, TypeOK'
    PROVE  StartPlans'
  <1>0. TypeOK /\ UniqueInv /\ BeforeRun /\ Turns
    BY DEF PortsInv, StartPlans
  <1>2. stage \in Preparing /\ UNCHANGED <<cfg, fresh, holder, phase, given>>
    <2>1. CASE Select \/ Reserve \/ Resolve
      BY <2>1 DEF Select, Reserve, Resolve, Preparing, prepared, recheck
    <2>2. CASE ResolveRoutes \/ OrderNext \/ Build
      BY <2>2 DEF ResolveRoutes, OrderNext, Build, Preparing, prepared, recheck
    <2> QED
      BY <2>1, <2>2 DEF Prepare
  <1>3. /\ holder = None /\ known = NoPorts
        /\ \A s \in Services : phase[s] = "waiting"
    BY <1>0, <1>2 DEF BeforeRun
  <1>4. Turns'
    BY <1>0, <1>2 DEF Turns
  <1>5. Rechecking'
    BY <1>2, <1>3 DEF Rechecking
  <1>6. CASE Build /\ stage' = "running"
    <2>1. UNCHANGED <<cfg, used, owner, ports>> /\ known' = ports /\ stage = "order"
      BY <1>6 DEF Build, Refuse, prepared
    <2>2. BeforeRun'
      BY <1>6 DEF BeforeRun, Preparing
    <2>3. ToldIn(phase) = {}
      BY <1>3 DEF ToldIn, Alive
    <2>4. \A p \in PortNames : Probed(p) => May(p, ports[p])
      BY <1>0, <2>1 DEF BeforeRun, Probed
    <2>5. PlansOf(ports, given, phase)
      BY <2>3, <2>4 DEF PlansOf
    <2>6. Plans'
      BY <1>2, <2>1, <2>5 DEF Plans, PlansOf, Probed, Discovered, May, Fixed, Fits, Upstream
    <2>7. \A s \in Services : given[s] = NoPorts
      BY <1>0, <1>3 DEF Turns, Untold
    <2>8. \A p \in used : Discovered(p) => ports[p] = None
      BY <1>0, <2>1 DEF BeforeRun, Preparing
    <2>9. ASSUME NEW p \in used, Discovered(p), owner[p] # None
          PROVE  DiscoveryOf(p, given[owner[p]][p], ports, ports, given, phase)
      <3>1. p \in PortNames /\ owner[p] \in Services
        BY <1>0, <2>9 DEF TypeOK
      <3>2. \A s \in Services : given[s][p] = None
        BY <2>7, <3>1 DEF NoPorts
      <3>3. ports[p] = None /\ phase[owner[p]] = "waiting"
        BY <1>3, <2>8, <2>9, <3>1
      <3> QED
        BY <3>1, <3>2, <3>3 DEF DiscoveryOf
    <2>10. Discoveries'
      BY <1>2, <2>1, <2>9 DEF Discoveries, DiscoveriesOf, DiscoveryOf, Discovered, Upstream
    <2> QED
      BY <1>4, <1>5, <2>2, <2>6, <2>10 DEF StartPlans
  <1>7. CASE ~(Build /\ stage' = "running")
    <2>1. stage' \in Preparing \cup {"refused"} /\ UNCHANGED known
      BY <1>7 DEF Prepare, Select, Reserve, Resolve, ResolveRoutes, OrderNext, Build, Preparing,
           Refuse, runtime
    <2>2. Plans' /\ Discoveries'
      BY <2>1 DEF Plans, Discoveries, Preparing
    <2>3. BeforeRun'
      <3>1. /\ holder' = None /\ known' = NoPorts
            /\ \A s \in Services : phase'[s] = "waiting"
        BY <1>2, <1>3, <2>1
      <3>2. CASE Select
        <4>1. stage' \in {"reserve", "refused"} /\ ports' = NoPorts
          BY <1>0, <3>2 DEF Select, Refuse, UniqueInv
        <4>2. used' \subseteq PortNames
          BY DEF TypeOK
        <4> QED
          BY <3>1, <4>1, <4>2 DEF BeforeRun, NoPorts, Preparing
      <3>3. CASE Reserve
        <4>1. /\ UNCHANGED <<cfg, used, ports>> /\ stage \in Preparing
              /\ stage' = "refused" \/ (stage' = "resolve" /\ todo' = used)
          BY <3>3 DEF Reserve, Refuse, prepared, Preparing
        <4> QED
          BY <1>0, <3>1, <4>1 DEF BeforeRun, Discovered, Preparing
      <3>4. CASE ResolveRoutes \/ OrderNext \/ Build
        <4>1. UNCHANGED <<cfg, used, owner, ports>> /\ stage \in Preparing
          BY <3>4 DEF ResolveRoutes, OrderNext, Build, prepared, Preparing
        <4>2. \/ stage' = "refused"
              \/ stage' = "order" /\ stage = "order"
              \/ stage' = "order" /\ stage = "resolve" /\ todo = {}
          BY <1>7, <3>4 DEF ResolveRoutes, OrderNext, Build, Refuse
        <4> QED
          BY <1>0, <3>1, <4>1, <4>2 DEF BeforeRun, Discovered, Preparing, Probed, May, Fixed
      <3>5. CASE Resolve
        <4>1. PICK p \in First(todo) :
                \/ Discovered(p) /\ todo' = todo \ {p} /\ UNCHANGED <<stage, ports, reserved>>
                \/ \E n \in Outcomes(p) :
                     IF n = None THEN Refuse /\ UNCHANGED <<ports, todo, reserved>>
                     ELSE /\ ports' = [ports EXCEPT ![p] = n]
                          /\ reserved' = reserved \cup {n}
                          /\ todo' = todo \ {p}
                          /\ UNCHANGED stage
          BY <3>5 DEF Resolve
        <4>2. stage = "resolve" /\ Walk /\ UNCHANGED <<cfg, used, owner>>
          BY <1>0, <3>5 DEF Resolve, UniqueInv, prepared
        <4>3. p \in todo /\ p \in used /\ p \in PortNames
          BY <1>0, <4>1, <4>2 DEF First, Walk, TypeOK
        <4>4. CASE Discovered(p) /\ todo' = todo \ {p} /\ UNCHANGED <<stage, ports, reserved>>
          BY <1>0, <3>1, <4>2, <4>4 DEF BeforeRun, Discovered, Probed, May, Fixed, Preparing
        <4>5. CASE stage' = "refused"
          BY <3>1, <4>5 DEF BeforeRun, Preparing
        <4>6. ASSUME NEW n \in Outcomes(p), n # None, ports' = [ports EXCEPT ![p] = n],
                     todo' = todo \ {p}, UNCHANGED stage
              PROVE  BeforeRun'
          <5>1. /\ cfg.mode[p] = "fixed" => n = cfg.low[p]
                /\ cfg.mode[p] # "fixed" => n \notin reserved
            BY <1>0, <4>3, <4>6, SearchResult DEF TypeOK
          <5>2. \A q \in Fixed : /\ cfg.low[q] \in reserved
                                 /\ p \in Fixed /\ cfg.low[q] = cfg.low[p] => q = p
            BY <4>2 DEF Walk
          <5>3. May(p, n)
            BY <4>3, <4>6, <5>1, <5>2 DEF May, Fixed
          <5>4. ports'[p] = n /\ \A q \in PortNames : q # p => ports'[q] = ports[q]
            BY <1>0, <4>3, <4>6 DEF TypeOK, PortMap
          <5>5. \A q \in used \ todo' : Probed(q) => May(q, ports'[q])
            BY <1>0, <4>2, <4>6, <5>3, <5>4 DEF BeforeRun, Probed, TypeOK
          <5>6. ~Discovered(p)
            BY <4>6 DEF Outcomes, Discovered
          <5>7. \A q \in used : Discovered(q) => ports'[q] = None
            BY <1>0, <4>2, <5>4, <5>6 DEF BeforeRun, Preparing, TypeOK
          <5> QED
            BY <3>1, <4>2, <4>6, <5>5, <5>7 DEF BeforeRun, Discovered, Probed, May, Fixed, Preparing
        <4> QED
          BY <4>1, <4>4, <4>5, <4>6 DEF Refuse
      <3> QED
        BY <3>2, <3>3, <3>4, <3>5 DEF Prepare
    <2> QED
      BY <1>4, <1>5, <2>2, <2>3 DEF StartPlans
  <1> QED
    BY <1>6, <1>7

(* Steps of a running session: the parts of the invariant, from what a step       *)
(* leaves of the plan, of the session's runtime, of the StartPlans and the phases. *)
LEMMA PlansNext ==
    ASSUME UNCHANGED <<cfg, used, owner>>, PlansOf(ports', given', phase')
    PROVE  Plans'
  BY DEF Plans, PlansOf, Probed, Discovered, May, Fixed, Fits, Upstream, ToldIn

LEMMA DiscoveriesNext ==
    ASSUME UNCHANGED <<cfg, used, owner>>, DiscoveriesOf(ports', known', given', phase')
    PROVE  Discoveries'
  BY DEF Discoveries, DiscoveriesOf, DiscoveryOf, Discovered, Upstream, ToldIn

\* Nobody is told anything new of the ports with a search, and the plan's number of such
\* a port is the one it had or one that a service was told.
LEMMA PlansKept ==
    ASSUME TypeOK, NEW plan \in PortMap, NEW told \in [Services -> PortMap],
           NEW ph \in [Services -> Phase],
           PlansOf(ports, given, phase), ToldIn(ph) \subseteq ToldIn(phase),
           \A p \in PortNames : Probed(p) =>
              /\ \A s \in Services : told[s][p] = given[s][p]
              /\ plan[p] = ports[p] \/ \E s \in ToldIn(phase) : plan[p] = given[s][p]
    PROVE  PlansOf(plan, told, ph)
  <1>1. SUFFICES ASSUME NEW p \in PortNames, Probed(p)
                 PROVE  /\ May(p, plan[p])
                        /\ \A s \in ToldIn(ph) : May(p, told[s][p])
                        /\ owner[p] \in ToldIn(ph) =>
                             /\ Fits(p, plan[p], told)
                             /\ \A s \in ToldIn(ph) : Fits(p, told[s][p], told)
                             /\ \A q \in PortNames : Probed(q) /\ owner[q] # owner[p] =>
                                        told[owner[p]][p] # told[owner[p]][q]
    BY DEF PlansOf
  <1>2. \A s \in ToldIn(ph) : s \in ToldIn(phase) /\ s \in Services
    BY DEF ToldIn
  <1>3. \A s \in Services : told[s][p] = given[s][p]
    BY <1>1
  <1>4. /\ May(p, ports[p])
        /\ \A s \in ToldIn(phase) : s \in Services /\ May(p, given[s][p])
    BY <1>1 DEF PlansOf, ToldIn
  <1>5. May(p, plan[p])
    BY <1>1, <1>4
  <1>6. \A s \in ToldIn(ph) : May(p, told[s][p])
    BY <1>2, <1>3, <1>4
  <1>7. ASSUME owner[p] \in ToldIn(ph)
        PROVE  /\ Fits(p, plan[p], told)
               /\ \A s \in ToldIn(ph) : Fits(p, told[s][p], told)
               /\ \A q \in PortNames : Probed(q) /\ owner[q] # owner[p] =>
                          told[owner[p]][p] # told[owner[p]][q]
    <2>1. owner[p] \in ToldIn(phase) /\ owner[p] \in Services
      BY <1>2, <1>7
    <2>2. /\ Fits(p, ports[p], given)
          /\ \A s \in ToldIn(phase) : Fits(p, given[s][p], given)
          /\ \A q \in PortNames : Probed(q) /\ owner[q] # owner[p] =>
                          given[owner[p]][p] # given[owner[p]][q]
      BY <1>1, <2>1 DEF PlansOf
    <2>3. ASSUME NEW n, Fits(p, n, given) PROVE Fits(p, n, told)
      BY <1>3, <2>1, <2>3 DEF Fits
    <2>4. Fits(p, plan[p], told)
      BY <1>1, <2>2, <2>3
    <2>5. \A s \in ToldIn(ph) : Fits(p, told[s][p], told)
      BY <1>2, <1>3, <2>2, <2>3
    <2>6. \A q \in PortNames : Probed(q) /\ owner[q] # owner[p] =>
                          told[owner[p]][p] # told[owner[p]][q]
      BY <1>1, <2>1, <2>2
    <2> QED
      BY <2>4, <2>5, <2>6
  <1> QED
    BY <1>5, <1>6, <1>7

\* No discovered port gets another number, and no dependent of a service is told anything
\* while the service comes up.
LEMMA DiscoveryKept ==
    ASSUME NEW p \in PortNames, owner[p] \in Services, NEW number, NEW plan, NEW session,
           NEW told, NEW ph \in [Services -> Phase],
           DiscoveryOf(p, number, ports, known, given, phase),
           plan[p] \in {None, number}, session[p] \in {None, number},
           \A s \in Services : told[s][p] = given[s][p],
           ph[owner[p]] \in Searching => phase[owner[p]] \in Searching,
           ph[owner[p]] \in {"found", "up"} => phase[owner[p]] \in {"found", "up"},
           ph[owner[p]] = "up" => plan[p] = number,
           ph[owner[p]] = "up" =>
              \/ phase[owner[p]] = "up" /\ ToldIn(ph) \subseteq ToldIn(phase)
              \/ \A t \in ToldIn(ph) : owner[p] \notin Upstream(t)
    PROVE  DiscoveryOf(p, number, plan, session, told, ph)
  <1>1. \A t \in ToldIn(ph) : t \in Services
    BY DEF ToldIn
  <1>2. ASSUME ph[owner[p]] = "up", NEW t \in ToldIn(ph), owner[p] \in Upstream(t)
        PROVE  told[t][p] = number
    <2>1. phase[owner[p]] = "up" /\ t \in ToldIn(phase)
      BY <1>2
    <2> QED
      BY <1>1, <1>2, <2>1 DEF DiscoveryOf
  <1> QED
    BY <1>2 DEF DiscoveryOf

\* A step that only moves the phase of a service that is not told anything by it.
LEMMA StartPlansKept ==
    ASSUME PortsInv, TypeOK', stage \in {"running", "ended"}, stage' \in {"running", "ended"},
           UNCHANGED <<cfg, used, owner, ports, known, given>>,
           ToldIn(phase') \subseteq ToldIn(phase),
           \A s \in Services :
              /\ phase'[s] \in Searching => phase[s] \in Searching
              /\ phase'[s] \in {"found", "up"} => phase'[s] = phase[s]
    PROVE  BeforeRun' /\ Plans' /\ Discoveries'
  <1>1. BeforeRun'
    BY DEF BeforeRun, Preparing
  <1>2. /\ ports' \in PortMap /\ given' \in [Services -> PortMap] /\ phase' \in [Services -> Phase]
    BY NextTyped DEF ServiceTypes, PortTypes
  <1>3. PlansOf(ports, given, phase) /\ DiscoveriesOf(ports, known, given, phase) /\ TypeOK
    BY DEF PortsInv, StartPlans, Plans, Discoveries
  <1>4. Plans'
    BY <1>2, <1>3, PlansKept, PlansNext
  <1>5. ASSUME NEW p \in used, Discovered(p), owner[p] # None
        PROVE  DiscoveryOf(p, given'[owner[p]][p], ports', known', given', phase')
    <2>1. p \in PortNames /\ owner[p] \in Services
      BY <1>3, <1>5 DEF TypeOK
    <2>2. DiscoveryOf(p, given[owner[p]][p], ports, known, given, phase)
      BY <1>3, <1>5 DEF DiscoveriesOf
    <2>3. /\ ports[p] \in {None, given[owner[p]][p]} /\ known[p] \in {None, given[owner[p]][p]}
          /\ phase[owner[p]] = "up" => ports[p] = given[owner[p]][p]
      BY <2>2 DEF DiscoveryOf
    <2> QED
      BY <1>2, <2>1, <2>2, <2>3, DiscoveryKept
  <1>6. DiscoveriesOf(ports', known', given', phase')
    BY <1>5 DEF DiscoveriesOf, Discovered
  <1> QED
    BY <1>1, <1>4, <1>6, DiscoveriesNext

LEMMA RecheckingKept ==
    ASSUME Rechecking, stage' = stage, UNCHANGED <<cfg, used, owner, ports, recheck>>
    PROVE  Rechecking'
  <1>1. UNCHANGED <<holder, todo, fresh, reserved>>
    BY DEF recheck
  <1>2. Fixed' = Fixed
    BY DEF Fixed
  <1> QED
    BY <1>1, <1>2 DEF Rechecking, RecheckingOf, Rechecked, Own, Discovered, Probed, May

\* Steps that concern none of this: of other processes, and of listeners.
LEMMA StartPlansUntouched ==
    ASSUME PortsInv,
           UNCHANGED <<cfg, stage, used, owner, ports, known, recheck, phase, given>>
    PROVE  StartPlans'
  <1>1. UNCHANGED <<holder, todo, fresh, reserved>>
    BY DEF recheck
  <1>2. Fixed' = Fixed
    BY DEF Fixed
  <1>3. BeforeRun'
    BY <1>1, <1>2 DEF PortsInv, StartPlans, BeforeRun, Discovered, Probed, May
  <1>4. Turns'
    BY <1>1 DEF PortsInv, StartPlans, Turns
  <1>5. Rechecking'
    BY RecheckingKept DEF PortsInv, StartPlans
  <1>6. Plans'
    <2>1. CASE stage \in {"running", "ended"}
      BY <2>1, PlansNext DEF PortsInv, StartPlans, Plans
    <2>2. CASE stage \notin {"running", "ended"}
      BY <2>2 DEF Plans
    <2> QED
      BY <2>1, <2>2
  <1>7. Discoveries'
    <2>1. CASE stage \in {"running", "ended"}
      BY <2>1, DiscoveriesNext DEF PortsInv, StartPlans, Discoveries
    <2>2. CASE stage \notin {"running", "ended"}
      BY <2>2 DEF Discoveries
    <2> QED
      BY <2>1, <2>2
  <1> QED
    BY <1>3, <1>4, <1>5, <1>6, <1>7 DEF StartPlans

\* A service is asked for or its process is started.
LEMMA StartPlansBegin ==
    ASSUME PortsInv, TypeOK', NEW s \in Services, Begin(s) \/ Launch(s)
    PROVE  StartPlans'
  <1> USE DEF prepared, runtime
  <1>1. /\ UNCHANGED <<cfg, stage, used, owner, ports, known, recheck, given>>
        /\ stage = "running"
    BY DEF Begin, Launch
  <1>2. \/ phase[s] = "waiting" /\ DependenciesUp(s) /\ phase' = [phase EXCEPT ![s] = "asked"]
        \/ phase[s] = "planned" /\ phase' = [phase EXCEPT ![s] = "launched"]
    BY DEF Begin, Launch
  <1>3. /\ phase \in [Services -> Phase] /\ cfg \in Configs
        /\ UNCHANGED holder /\ holder \in Services \cup {None}
    BY <1>1 DEF PortsInv, TypeOK, Phase, recheck
  <1>4. ToldIn(phase') \subseteq ToldIn(phase)
    BY <1>2, <1>3 DEF ToldIn, Alive
  <1>5. \A x \in Services :
           /\ phase'[x] \in Searching => phase[x] \in Searching
           /\ phase'[x] \in {"found", "up"} => phase'[x] = phase[x]
    BY <1>2, <1>3 DEF Searching, Untold
  <1>6. BeforeRun' /\ Plans' /\ Discoveries'
    BY <1>1, <1>4, <1>5, StartPlansKept
  <1>7. Rechecking'
    BY <1>1, RecheckingKept DEF PortsInv, StartPlans
  <1>8. Turns'
    <2>1. Turns /\ \A x \in Services : cfg.needs[x] \subseteq Services
      BY <1>3, ConfigTypes DEF PortsInv, StartPlans
    <2>2. \A x \in Services : phase'[x] # "waiting" => \A d \in cfg.needs[x] : phase'[d] \in Past
      BY <1>2, <1>3, <2>1 DEF Turns, Past, DependenciesUp
    <2>3. \A x \in Services : phase'[x] \in Untold => given[x] = NoPorts
      BY <1>2, <1>3, <2>1 DEF Turns, Untold
    <2>4. \A x \in Services : phase'[x] = "rechecking" <=> holder = x
      BY <1>2, <1>3, <2>1 DEF Turns
    <2> QED
      BY <1>1, <1>3, <2>2, <2>3, <2>4 DEF Turns
  <1> QED
    BY <1>6, <1>7, <1>8 DEF StartPlans

\* No worker is left when the shutdown commands run, so nobody holds the locks.
LEMMA StartPlansCleanUp ==
    ASSUME PortsInv, TypeOK', CleanUp
    PROVE  StartPlans'
  <1> USE DEF prepared, runtime
  <1>1. /\ UNCHANGED <<cfg, used, owner, ports, known, recheck, phase, given>>
        /\ stage = "running" /\ stage' = "ended"
    BY DEF CleanUp
  <1>2. BeforeRun' /\ Plans' /\ Discoveries'
    <2>1. \A x \in Services :
           /\ phase'[x] \in Searching => phase[x] \in Searching
           /\ phase'[x] \in {"found", "up"} => phase'[x] = phase[x]
      BY <1>1
    <2> QED
      BY <1>1, <2>1, StartPlansKept
  <1>3. Turns'
    BY <1>1 DEF PortsInv, StartPlans, Turns, recheck
  <1>4. holder = None
    <2>1. ASSUME holder # None PROVE FALSE
      <3>1. holder \in Services /\ phase[holder] = "rechecking"
        BY <2>1 DEF PortsInv, StartPlans, Turns, TypeOK
      <3>2. ~Working(holder)
        BY <3>1 DEF CleanUp
      <3> QED
        BY <3>1, <3>2 DEF Working
    <2> QED
      BY <2>1
  <1>5. Rechecking'
    BY <1>1, <1>4 DEF Rechecking, recheck
  <1> QED
    BY <1>2, <1>3, <1>5 DEF StartPlans

(* BeforeStart.                                                                   *)
LEMMA StartPlansEnter ==
    ASSUME PortsInv, TypeOK', NEW s \in Services, EnterBeforeStart(s)
    PROVE  StartPlans'
  <1> USE DEF prepared, runtime
  <1>1. /\ UNCHANGED <<cfg, stage, used, owner, known, given>>
        /\ stage = "running" /\ phase[s] = "asked" /\ holder = None /\ holder' = s
        /\ todo' = Rechecked(s) /\ phase' = [phase EXCEPT ![s] = "rechecking"]
    BY DEF EnterBeforeStart
  <1>2. PICK current : /\ current = [p \in PortNames |-> IF Discovered(p) /\ known[p] # None
                                                          THEN known[p] ELSE ports[p]]
                       /\ ports' = current /\ fresh' = current
                       /\ reserved' = InUse(s, current)
    BY DEF EnterBeforeStart
  <1>3. /\ phase \in [Services -> Phase] /\ cfg \in Configs /\ TypeOK
        /\ known \in PortMap /\ ports \in PortMap /\ given \in [Services -> PortMap]
    BY DEF PortsInv, TypeOK, Phase
  <1>4. current \in PortMap
    BY <1>2, <1>3 DEF PortMap
  <1>5. phase' \in [Services -> Phase]
    BY <1>1, <1>3 DEF Phase
  <1>6. ToldIn(phase') \subseteq ToldIn(phase)
    BY <1>1, <1>3 DEF ToldIn, Alive
  <1>7. BeforeRun'
    BY <1>1 DEF BeforeRun, Preparing
  <1>8. PlansOf(ports, given, phase) /\ DiscoveriesOf(ports, known, given, phase)
    BY <1>1 DEF PortsInv, StartPlans, Plans, Discoveries
  <1>9. PlansOf(current, given, phase')
    <2>1. \A p \in PortNames : Probed(p) => current[p] = ports[p]
      BY <1>2 DEF Probed
    <2> QED
      BY <1>3, <1>4, <1>5, <1>6, <1>8, <2>1, PlansKept
  <1>10. Plans'
    BY <1>1, <1>2, <1>9, PlansNext
  <1>11. ASSUME NEW p \in used, Discovered(p), owner[p] # None
         PROVE  DiscoveryOf(p, given[owner[p]][p], current, known, given, phase')
    <2>1. p \in PortNames /\ owner[p] \in Services
      BY <1>3, <1>11 DEF TypeOK
    <2>2. DiscoveryOf(p, given[owner[p]][p], ports, known, given, phase)
      BY <1>8, <1>11 DEF DiscoveriesOf
    <2>3. /\ ports[p] \in {None, given[owner[p]][p]} /\ known[p] \in {None, given[owner[p]][p]}
          /\ phase[owner[p]] = "up" => ports[p] = given[owner[p]][p]
      BY <2>2 DEF DiscoveryOf
    <2>4. /\ current[p] \in {None, given[owner[p]][p]}
          /\ phase[owner[p]] = "up" => current[p] = given[owner[p]][p]
      BY <1>2, <2>1, <2>3
    <2>5. /\ phase'[owner[p]] \in Searching => phase[owner[p]] \in Searching
          /\ phase'[owner[p]] \in {"found", "up"} => phase'[owner[p]] = phase[owner[p]]
      BY <1>1, <1>3, <2>1 DEF Searching, Untold
    <2> QED
      BY <1>5, <1>6, <2>1, <2>2, <2>3, <2>4, <2>5, DiscoveryKept
  <1>12. Discoveries'
    <2>1. DiscoveriesOf(current, known, given, phase')
      BY <1>11 DEF DiscoveriesOf
    <2> QED
      BY <1>1, <1>2, <2>1, DiscoveriesNext
  <1>13. Turns'
    <2>1. Turns /\ \A x \in Services : cfg.needs[x] \subseteq Services
      BY <1>3, ConfigTypes DEF PortsInv, StartPlans
    <2>2. \A x \in Services : phase'[x] # "waiting" => \A d \in cfg.needs[x] : phase'[d] \in Past
      BY <1>1, <1>3, <2>1 DEF Turns, Past
    <2>3. \A x \in Services : phase'[x] \in Untold => given[x] = NoPorts
      BY <1>1, <1>3, <2>1 DEF Turns, Untold
    <2>4. \A x \in Services : phase'[x] = "rechecking" <=> holder' = x
      BY <1>1, <1>3, <2>1, NamesAreSorted DEF Turns
    <2> QED
      BY <1>1, <2>2, <2>3, <2>4 DEF Turns
  <1>14. Rechecking'
    <2>1. /\ Rechecked(s) \subseteq PortNames
          /\ \A p \in Rechecked(s) : Probed(p) /\ p \in PortNames
      BY <1>3 DEF Rechecked, Own, Probed, TypeOK
    <2>2. \A q \in PortNames \ Rechecked(s) : current[q] \in InUse(s, current) \cup {None}
      BY DEF InUse
    <2>3. \A p \in Rechecked(s) : May(p, current[p])
      BY <1>9, <2>1 DEF PlansOf
    <2>4. Fixed' = Fixed
      BY <1>1 DEF Fixed
    <2> QED
      BY <1>1, <1>2, <2>1, <2>2, <2>3, <2>4
         DEF Rechecking, RecheckingOf, Rechecked, Own, Discovered, May
  <1> QED
    BY <1>7, <1>10, <1>12, <1>13, <1>14 DEF StartPlans

\* What is known while a service is in its BeforeStart.
LEMMA WhileHeld ==
    ASSUME PortsInv, stage = "running", holder # None
    PROVE  /\ TypeOK /\ Turns /\ holder \in Services /\ phase[holder] = "rechecking"
           /\ RecheckingOf(holder, todo, fresh, reserved)
           /\ PlansOf(ports, given, phase) /\ DiscoveriesOf(ports, known, given, phase)
           /\ Rechecked(holder) \subseteq PortNames
           /\ \A p \in Rechecked(holder) : Probed(p) /\ owner[p] = holder
  BY DEF PortsInv, StartPlans, Turns, Rechecking, Plans, Discoveries, TypeOK, Rechecked, Own, Probed

\* The number a search of Reallocate ends with is one the name may have, and none of
\* those of the names that are not rechecked.
LEMMA ReallocatedNumber ==
    ASSUME PortsInv, stage = "running", holder # None, NEW p \in First(todo),
           NEW n \in IF Kept(p) THEN {fresh[p]} ELSE Outcomes(p) \ {None}
    PROVE  /\ May(p, n)
           /\ \A q \in PortNames \ Rechecked(holder) : Probed(q) => n # fresh[q]
  <1>1. /\ RecheckingOf(holder, todo, fresh, reserved) /\ PlansOf(ports, given, phase)
        /\ cfg \in Configs /\ holder \in Services /\ Rechecked(holder) \subseteq PortNames
        /\ \A q \in Rechecked(holder) : Probed(q) /\ owner[q] = holder
    BY WhileHeld DEF TypeOK
  <1>2. p \in Rechecked(holder)
    BY <1>1 DEF First, RecheckingOf
  <1>3. \A q \in PortNames : Probed(q) => May(q, ports[q])
    BY <1>1 DEF PlansOf
  <1>4. Probed(p) /\ owner[p] = holder /\ p \in PortNames /\ May(p, fresh[p]) /\ May(p, ports[p])
    BY <1>1, <1>2, <1>3 DEF RecheckingOf
  <1>5. ASSUME NEW q \in PortNames \ Rechecked(holder), Probed(q)
        PROVE  owner[q] # holder /\ fresh[q] = ports[q] /\ fresh[q] \in reserved
               /\ May(q, fresh[q])
    <2>1. fresh[q] = ports[q] /\ fresh[q] \in reserved \cup {None} /\ May(q, ports[q])
      BY <1>1, <1>3, <1>5 DEF RecheckingOf
    <2>2. owner[q] # holder
      BY <1>5 DEF Rechecked, Own, Probed
    <2> QED
      BY <2>1, <2>2 DEF May
  <1>6. CASE p \in Fixed
    <2>1. n = cfg.low[p]
      <3>1. CASE Kept(p)
        BY <1>4, <1>6, <3>1 DEF May
      <3>2. CASE ~Kept(p)
        BY <1>1, <1>4, <1>6, <3>2, SearchResult DEF Fixed
      <3> QED
        BY <3>1, <3>2
    <2>2. May(p, n)
      BY <1>4, <1>6, <2>1 DEF May
    <2>3. \A q \in PortNames \ Rechecked(holder) : Probed(q) => n # fresh[q]
      BY <1>4, <1>5, <1>6, <2>1 DEF May
    <2> QED
      BY <2>2, <2>3
  <1>7. CASE p \notin Fixed
    <2>1. n # None /\ n \notin reserved
      <3>1. CASE Kept(p)
        BY <3>1 DEF Kept
      <3>2. CASE ~Kept(p)
        BY <1>1, <1>4, <1>7, <3>2, SearchResult DEF Fixed, Probed
      <3> QED
        BY <3>1, <3>2
    <2>2. \A q \in PortNames \ Rechecked(holder) : Probed(q) => n # fresh[q]
      BY <1>5, <2>1
    <2>3. ASSUME NEW q \in Fixed, owner[q] # owner[p] PROVE n # cfg.low[q]
      <3>1. Probed(q) /\ q \in PortNames
        BY <1>1, <2>3, WhileHeld DEF Fixed, Probed, Discovered, TypeOK
      <3>2. q \notin Rechecked(holder)
        BY <1>4, <2>3 DEF Rechecked, Own
      <3>3. fresh[q] = cfg.low[q]
        BY <1>5, <2>3, <3>1, <3>2 DEF May
      <3> QED
        BY <2>2, <3>1, <3>2, <3>3
    <2> QED
      BY <1>7, <2>1, <2>2, <2>3 DEF May
  <1> QED
    BY <1>6, <1>7

LEMMA StartPlansReallocate ==
    ASSUME PortsInv, TypeOK', Reallocate
    PROVE  StartPlans'
  <1> USE DEF prepared, runtime
  <1>1. /\ UNCHANGED <<cfg, stage, used, owner, ports, known, holder, phase, given>>
        /\ stage = "running" /\ holder # None
    BY DEF Reallocate
  <1>2. PICK p \in First(todo) :
          \E n \in IF Kept(p) THEN {fresh[p]} ELSE Outcomes(p) \ {None} :
             /\ fresh' = [fresh EXCEPT ![p] = n]
             /\ reserved' = reserved \cup {n}
             /\ todo' = todo \ {p}
    BY DEF Reallocate
  <1>3. PICK n \in IF Kept(p) THEN {fresh[p]} ELSE Outcomes(p) \ {None} :
             /\ fresh' = [fresh EXCEPT ![p] = n]
             /\ reserved' = reserved \cup {n}
             /\ todo' = todo \ {p}
    BY <1>2
  <1>4. /\ May(p, n)
        /\ \A q \in PortNames \ Rechecked(holder) : Probed(q) => n # fresh[q]
    BY <1>1, ReallocatedNumber
  <1>5. /\ RecheckingOf(holder, todo, fresh, reserved)
        /\ Rechecked(holder) \subseteq PortNames /\ fresh \in PortMap
    BY <1>1, WhileHeld DEF TypeOK
  <1>6. p \in todo /\ p \in Rechecked(holder)
    BY <1>5 DEF First, RecheckingOf
  <1>7. fresh'[p] = n /\ \A q \in PortNames : q # p => fresh'[q] = fresh[q]
    BY <1>3, <1>5, <1>6 DEF PortMap
  <1>8. RecheckingOf(holder, todo', fresh', reserved')
    <2>1. todo' \subseteq Rechecked(holder)
      BY <1>3, <1>5 DEF RecheckingOf
    <2>2. \A q \in PortNames \ Rechecked(holder) :
             fresh'[q] = ports[q] /\ fresh'[q] \in reserved' \cup {None}
      BY <1>3, <1>5, <1>6, <1>7 DEF RecheckingOf
    <2>3. \A q \in Rechecked(holder) : May(q, fresh'[q])
      BY <1>4, <1>5, <1>7 DEF RecheckingOf
    <2>4. \A r \in Rechecked(holder) \ todo' : \A q \in PortNames \ Rechecked(holder) :
             Probed(q) => fresh'[r] # fresh'[q]
      BY <1>3, <1>4, <1>5, <1>6, <1>7 DEF RecheckingOf
    <2> QED
      BY <2>1, <2>2, <2>3, <2>4 DEF RecheckingOf
  <1>9. Rechecking'
    <2>1. Fixed' = Fixed
      BY <1>1 DEF Fixed
    <2> QED
      BY <1>1, <1>8, <2>1
         DEF Rechecking, RecheckingOf, Rechecked, Own, Discovered, Probed, May
  <1>10. BeforeRun' /\ Plans' /\ Discoveries'
    <2>1. \A x \in Services :
           /\ phase'[x] \in Searching => phase[x] \in Searching
           /\ phase'[x] \in {"found", "up"} => phase'[x] = phase[x]
      BY <1>1
    <2> QED
      BY <1>1, <2>1, StartPlansKept
  <1>11. Turns'
    BY <1>1 DEF PortsInv, StartPlans, Turns
  <1> QED
    BY <1>9, <1>10, <1>11 DEF StartPlans

LEMMA StartPlansFail ==
    ASSUME PortsInv, TypeOK', ReallocateFails
    PROVE  StartPlans'
  <1> USE DEF prepared, runtime
  <1>1. /\ UNCHANGED <<cfg, stage, used, owner, ports, known, given>>
        /\ stage = "running" /\ holder # None /\ holder' = None
        /\ phase' = [phase EXCEPT ![holder] = "failed"]
    BY DEF ReallocateFails, Unlock
  <1>2. /\ TypeOK /\ Turns /\ holder \in Services /\ phase[holder] = "rechecking"
        /\ phase \in [Services -> Phase] /\ cfg \in Configs
    BY <1>1, WhileHeld DEF TypeOK, Phase
  <1>3. ToldIn(phase') \subseteq ToldIn(phase)
    BY <1>1, <1>2 DEF ToldIn, Alive
  <1>4. \A x \in Services :
           /\ phase'[x] \in Searching => phase[x] \in Searching
           /\ phase'[x] \in {"found", "up"} => phase'[x] = phase[x]
    BY <1>1, <1>2 DEF Searching, Untold
  <1>5. BeforeRun' /\ Plans' /\ Discoveries'
    BY <1>1, <1>3, <1>4, StartPlansKept
  <1>6. Rechecking'
    BY <1>1 DEF Rechecking
  <1>7. Turns'
    <2>1. \A x \in Services : cfg.needs[x] \subseteq Services
      BY <1>2, ConfigTypes
    <2>2. \A x \in Services : phase'[x] # "waiting" => \A d \in cfg.needs[x] : phase'[d] \in Past
      BY <1>1, <1>2, <2>1 DEF Turns, Past
    <2>3. \A x \in Services : phase'[x] \in Untold => given[x] = NoPorts
      BY <1>1, <1>2 DEF Turns, Untold
    <2>4. \A x \in Services : phase'[x] = "rechecking" <=> holder' = x
      BY <1>1, <1>2, NamesAreSorted DEF Turns
    <2> QED
      BY <1>1, <2>2, <2>3, <2>4 DEF Turns
  <1> QED
    BY <1>5, <1>6, <1>7 DEF StartPlans

LEMMA StartPlansLeave ==
    ASSUME PortsInv, TypeOK', LeaveBeforeStart
    PROVE  StartPlans'
  <1> USE DEF prepared, runtime
  <1> DEFINE h == holder
             told == [given EXCEPT ![h] = fresh]
             ph == [phase EXCEPT ![h] = "planned"]
  <1>1. /\ UNCHANGED <<cfg, stage, used, owner>>
        /\ stage = "running" /\ holder # None /\ holder' = None /\ todo = {}
        /\ ports' = fresh /\ given' = told /\ phase' = ph
        /\ known' = [p \in PortNames |-> IF Discovered(p) THEN None ELSE fresh[p]]
    BY DEF LeaveBeforeStart, Unlock
  <1>2. /\ TypeOK /\ Turns /\ h \in Services /\ phase[h] = "rechecking"
        /\ RecheckingOf(h, {}, fresh, reserved)
        /\ PlansOf(ports, given, phase) /\ DiscoveriesOf(ports, known, given, phase)
        /\ Rechecked(h) \subseteq PortNames
        /\ \A p \in Rechecked(h) : Probed(p) /\ owner[p] = h
    BY <1>1, WhileHeld
  <1>3. /\ phase \in [Services -> Phase] /\ given \in [Services -> PortMap] /\ cfg \in Configs
        /\ fresh \in PortMap /\ ports \in PortMap /\ h # None
    BY <1>1, <1>2 DEF TypeOK, Phase
  <1>4. /\ told[h] = fresh /\ ph[h] = "planned" /\ given[h] = NoPorts
        /\ \A s \in Services : s # h => told[s] = given[s] /\ ph[s] = phase[s]
    BY <1>2, <1>3 DEF Turns, Untold
  <1>5. \A s \in ToldIn(ph) : s \in Services /\ (s # h => s \in ToldIn(phase))
    BY <1>4 DEF ToldIn
  <1>6. \A s \in ToldIn(phase) : s \in Services /\ s # h /\ h \notin Upstream(s)
    <2>1. ASSUME NEW s \in ToldIn(phase) PROVE s \in Services /\ s # h /\ h \notin Upstream(s)
      <3>1. s \in Services /\ phase[s] # "waiting" /\ s # h
        BY <1>2, <2>1 DEF ToldIn, Alive
      <3>2. ASSUME h \in Upstream(s) PROVE FALSE
        BY <1>2, <3>1, <3>2, UpstreamIsPast DEF Past
      <3> QED
        BY <3>1, <3>2
    <2> QED
      BY <2>1
  <1>7. \A q \in PortNames \ Rechecked(h) : fresh[q] = ports[q]
    BY <1>2 DEF RecheckingOf
  <1> HIDE DEF told, ph
  <1>8. ASSUME NEW p \in PortNames, Probed(p)
        PROVE  /\ May(p, fresh[p])
               /\ \A s \in ToldIn(ph) : May(p, told[s][p])
               /\ owner[p] \in ToldIn(ph) =>
                    /\ Fits(p, fresh[p], told)
                    /\ \A s \in ToldIn(ph) : Fits(p, told[s][p], told)
                    /\ \A q \in PortNames : Probed(q) /\ owner[q] # owner[p] =>
                                              told[owner[p]][p] # told[owner[p]][q]
    <2>1. May(p, ports[p]) /\ \A s \in ToldIn(phase) : May(p, given[s][p])
      BY <1>2, <1>8 DEF PlansOf
    <2>2. May(p, fresh[p])
      BY <1>2, <1>7, <1>8, <2>1 DEF RecheckingOf
    <2>3. \A s \in ToldIn(ph) : May(p, told[s][p])
      BY <1>4, <1>5, <2>1, <2>2
    <2>4. ASSUME owner[p] = h
          PROVE  /\ \A s \in ToldIn(ph) : Fits(p, told[s][p], told)
                 /\ Fits(p, fresh[p], told)
                 /\ \A q \in PortNames : Probed(q) /\ owner[q] # owner[p] => told[h][p] # told[h][q]
      <3>1. p \in Rechecked(h)
        BY <1>8, <2>4 DEF Probed, Rechecked, Own
      <3>2. Fits(p, fresh[p], told)
        BY <1>4, <2>4 DEF Fits
      <3>3. ASSUME NEW s \in ToldIn(ph), s # h PROVE Fits(p, told[s][p], told)
        <4>1. s \in ToldIn(phase) /\ s \in Services /\ h \notin Upstream(s)
          BY <1>5, <1>6, <3>3
        <4>2. told[s][p] # None
          BY <2>3, <3>3 DEF May
        <4> QED
          BY <2>4, <3>3, <4>1, <4>2 DEF Fits
      <3>4. \A q \in PortNames : Probed(q) /\ owner[q] # owner[p] => q \notin Rechecked(h)
        BY <2>4 DEF Rechecked, Own
      <3>5. \A q \in PortNames : Probed(q) /\ owner[q] # owner[p] => told[h][p] # told[h][q]
        BY <1>2, <1>4, <3>1, <3>4 DEF RecheckingOf
      <3> QED
        BY <1>4, <3>2, <3>3, <3>5
    <2>5. ASSUME owner[p] # h, owner[p] \in ToldIn(ph)
          PROVE  /\ \A s \in ToldIn(ph) : Fits(p, told[s][p], told)
                 /\ Fits(p, fresh[p], told)
                 /\ \A q \in PortNames : Probed(q) /\ owner[q] # owner[p] =>
                                           told[owner[p]][p] # told[owner[p]][q]
      <3>1. owner[p] \in ToldIn(phase) /\ owner[p] \in Services /\ told[owner[p]] = given[owner[p]]
        BY <1>4, <1>5, <2>5
      <3>2. /\ Fits(p, ports[p], given)
            /\ \A s \in ToldIn(phase) : Fits(p, given[s][p], given)
            /\ \A q \in PortNames : Probed(q) /\ owner[q] # owner[p] =>
                                      given[owner[p]][p] # given[owner[p]][q]
        BY <1>2, <1>8, <3>1 DEF PlansOf
      <3>3. ASSUME NEW n, n # None, Fits(p, n, given) PROVE Fits(p, n, told)
        <4>1. given[h][p] = None
          BY <1>4 DEF NoPorts
        <4> QED
          BY <1>4, <3>1, <3>3, <4>1 DEF Fits
      <3>4. p \notin Rechecked(h)
        BY <2>5 DEF Rechecked, Own
      <3>5. Fits(p, fresh[p], told)
        BY <1>7, <2>2, <3>2, <3>3, <3>4 DEF May
      <3>6. ASSUME NEW s \in ToldIn(ph) PROVE Fits(p, told[s][p], told)
        <4>1. CASE s = h
          BY <1>4, <3>5, <4>1
        <4>2. CASE s # h
          <5>1. s \in ToldIn(phase) /\ told[s] = given[s]
            BY <1>4, <1>5, <4>2
          <5>2. given[s][p] # None
            BY <2>1, <5>1 DEF May
          <5> QED
            BY <3>2, <3>3, <5>1, <5>2
        <4> QED
          BY <4>1, <4>2
      <3> QED
        BY <3>1, <3>2, <3>5, <3>6
    <2> QED
      BY <2>2, <2>3, <2>4, <2>5
  <1>9. Plans'
    <2>1. PlansOf(fresh, told, ph)
      BY <1>8 DEF PlansOf
    <2> QED
      BY <1>1, <2>1, PlansNext
  <1>10. ASSUME NEW p \in used, Discovered(p), owner[p] # None
         PROVE  DiscoveryOf(p, told[owner[p]][p], fresh, known', told, ph)
    <2> DEFINE o == owner[p]
    <2>1. p \in PortNames /\ o \in Services
      BY <1>2, <1>10 DEF TypeOK
    <2>2. DiscoveryOf(p, given[o][p], ports, known, given, phase)
      BY <1>2, <1>10 DEF DiscoveriesOf
    <2>3. fresh[p] = ports[p] /\ known'[p] = None
      BY <1>1, <1>7, <1>10, <2>1 DEF Rechecked
    <2>4. o = h => given[o][p] = None /\ ports[p] = None
      BY <1>2, <2>2 DEF DiscoveryOf, Searching, Untold
    <2>5. told[o][p] = given[o][p]
      BY <1>4, <2>1, <2>3, <2>4
    <2>6. /\ ports[p] \in {None, given[o][p]}
          /\ \A s \in Services : told[s][p] \in {None, given[o][p]}
      BY <1>4, <2>2, <2>3 DEF DiscoveryOf
    <2>7. /\ ph[o] \in Searching => phase[o] \in Searching
          /\ ph[o] \in {"found", "up"} => phase[o] = ph[o] /\ o # h
      BY <1>2, <1>4, <2>1 DEF Searching, Untold
    <2>8. ASSUME ph[o] = "up"
          PROVE  fresh[p] = given[o][p]
                 /\ \A t \in ToldIn(ph) : o \in Upstream(t) => told[t][p] = given[o][p]
      <3>1. phase[o] = "up" /\ ports[p] = given[o][p]
        BY <2>2, <2>7, <2>8 DEF DiscoveryOf
      <3>2. \A t \in ToldIn(phase) : o \in Upstream(t) => given[t][p] = given[o][p]
        BY <2>2, <3>1 DEF DiscoveryOf
      <3> QED
        BY <1>4, <1>5, <2>3, <3>1, <3>2
    <2>9. /\ ph[o] \in Searching => given[o][p] = None
          /\ ph[o] \in {"found", "up"} => given[o][p] # None
      BY <2>2, <2>7 DEF DiscoveryOf
    <2> HIDE DEF o
    <2>10. DiscoveryOf(p, given[o][p], fresh, known', told, ph)
      BY <2>3, <2>6, <2>8, <2>9 DEF DiscoveryOf, o
    <2> QED
      BY <2>5, <2>10 DEF o
  <1>11. Discoveries'
    <2>1. DiscoveriesOf(fresh, known', told, ph)
      BY <1>10 DEF DiscoveriesOf
    <2> QED
      BY <1>1, <2>1, DiscoveriesNext
  <1>12. Turns'
    <2>1. \A x \in Services : cfg.needs[x] \subseteq Services
      BY <1>3, ConfigTypes
    <2>2. \A x \in Services : ph[x] # "waiting" => \A d \in cfg.needs[x] : ph[d] \in Past
      BY <1>2, <1>4, <2>1 DEF Turns, Past
    <2>3. \A x \in Services : ph[x] \in Untold => told[x] = NoPorts
      BY <1>2, <1>4 DEF Turns, Untold
    <2>4. \A x \in Services : ph[x] = "rechecking" <=> None = x
      BY <1>2, <1>4, NamesAreSorted DEF Turns
    <2> QED
      BY <1>1, <2>2, <2>3, <2>4 DEF Turns
  <1>13. BeforeRun' /\ Rechecking'
    BY <1>1 DEF BeforeRun, Preparing, Rechecking
  <1> QED
    BY <1>9, <1>11, <1>12, <1>13 DEF StartPlans

(* A worker's event, with the numbers of its StartPlan.                           *)
Moves(s, x) ==
    /\ stage = "running" /\ holder = None /\ s \in ToldIn(phase)
    /\ phase' = [phase EXCEPT ![s] = x]
    /\ UNCHANGED <<cfg, stage, used, owner, known, recheck, given>>

LEMMA ReportMoves ==
    ASSUME NEW s \in Services,
           ReportStarting(s) \/ ReportReady(s) \/ CannotServe(s) \/ Fails(s) \/ Stops(s)
    PROVE  /\ Report(s)
           /\ \/ phase[s] = "launched" /\ Moves(s, "started")
              \/ /\ phase[s] = IF DiscoverNames(s) = {} THEN "started" ELSE "found"
                 /\ Moves(s, "up")
              \/ Moves(s, "failed")
              \/ Moves(s, "stopped")
  <1> USE DEF prepared, runtime
  <1>1. CASE ReportStarting(s)
    BY <1>1 DEF ReportStarting, Report, Moves, ToldIn, Alive
  <1>2. CASE ReportReady(s)
    BY <1>2 DEF ReportReady, Report, Moves, ToldIn, Alive
  <1>3. CASE CannotServe(s)
    BY <1>3 DEF CannotServe, EndService, Report, Moves, ToldIn, Alive
  <1>4. CASE Fails(s)
    BY <1>4 DEF Fails, EndService, Report, Moves, ToldIn, Alive
  <1>5. CASE Stops(s)
    BY <1>5 DEF Stops, Stoppable, EndService, Report, Moves, ToldIn, Alive
  <1> QED
    BY <1>1, <1>2, <1>3, <1>4, <1>5

LEMMA StartPlansReport ==
    ASSUME PortsInv, TypeOK', NEW s \in Services,
           ReportStarting(s) \/ ReportReady(s) \/ CannotServe(s) \/ Fails(s) \/ Stops(s)
    PROVE  StartPlans'
  <1>1. PICK x \in {"started", "up", "failed", "stopped"} :
           /\ Moves(s, x) /\ Report(s)
           /\ x = "started" => phase[s] = "launched"
           /\ x = "up" => phase[s] = IF DiscoverNames(s) = {} THEN "started" ELSE "found"
    BY ReportMoves
  <1>2. /\ stage = "running" /\ holder = None /\ s \in ToldIn(phase)
        /\ phase' = [phase EXCEPT ![s] = x]
        /\ UNCHANGED <<cfg, stage, used, owner, known, holder, given>>
        /\ phase[s] \in Alive \cup {"planned"}
    BY <1>1 DEF Moves, recheck, ToldIn
  <1>3. /\ TypeOK /\ Turns /\ phase \in [Services -> Phase] /\ cfg \in Configs
        /\ ports \in PortMap /\ given \in [Services -> PortMap]
        /\ PlansOf(ports, given, phase) /\ DiscoveriesOf(ports, known, given, phase)
    BY <1>2 DEF PortsInv, TypeOK, Phase, StartPlans, Plans, Discoveries
  <1>4. ports' \in PortMap /\ phase' \in [Services -> Phase]
    BY NextTyped DEF PortTypes, ServiceTypes
  <1>5. phase'[s] = x /\ \A t \in Services : t # s => phase'[t] = phase[t]
    BY <1>2, <1>3
  <1>6. ToldIn(phase') \subseteq ToldIn(phase)
    BY <1>2, <1>5 DEF ToldIn
  <1>7. ASSUME NEW p \in PortNames
        PROVE  \/ ports'[p] = ports[p] /\ Reported(s)[p] = None
               \/ ports'[p] = Reported(s)[p] /\ Reported(s) = given[s] /\ ports'[p] # None
    <2>1. ports'[p] = IF Reported(s)[p] # None THEN Reported(s)[p] ELSE ports[p]
      BY <1>1 DEF Report
    <2>2. Reported(s) = given[s] \/ Reported(s)[p] = None
      BY DEF Reported, NoPorts
    <2> QED
      BY <2>1, <2>2
  <1>8. Plans'
    <2>1. \A p \in PortNames :
             ports'[p] = ports[p] \/ \E t \in ToldIn(phase) : ports'[p] = given[t][p]
      BY <1>2, <1>7
    <2>2. PlansOf(ports', given, phase')
      BY <1>3, <1>4, <1>6, <2>1, PlansKept
    <2> QED
      BY <1>2, <2>2, PlansNext
  <1>9. ASSUME NEW p \in used, Discovered(p), owner[p] # None
        PROVE  DiscoveryOf(p, given[owner[p]][p], ports', known, given, phase')
    <2> DEFINE o == owner[p]
    <2>1. p \in PortNames /\ o \in Services
      BY <1>3, <1>9 DEF TypeOK
    <2>2. DiscoveryOf(p, given[o][p], ports, known, given, phase)
      BY <1>3, <1>9 DEF DiscoveriesOf
    <2>3. ports'[p] \in {None, given[o][p]} /\ known[p] \in {None, given[o][p]}
      BY <1>7, <2>1, <2>2 DEF DiscoveryOf
    <2>4. phase'[o] \in Searching => phase[o] \in Searching
      BY <1>1, <1>2, <1>5, <2>1 DEF Searching, Untold
    <2>5. o = s => p \in DiscoverNames(s)
      BY <1>9 DEF DiscoverNames, Own
    <2>6. o = s /\ phase'[o] \in {"found", "up"} => x = "up" /\ phase[s] = "found"
      BY <1>1, <1>5, <2>5
    <2>7. phase'[o] \in {"found", "up"} => phase[o] \in {"found", "up"}
      BY <1>5, <2>1, <2>6
    <2>8. ASSUME phase'[o] = "up" PROVE ports'[p] = given[o][p]
      <3>1. CASE o = s
        <4>1. phase[s] = "found" /\ given[o][p] # None
          BY <2>2, <2>6, <2>8, <3>1 DEF DiscoveryOf
        <4>2. Reported(s) = given[s]
          BY <4>1 DEF Reported
        <4>3. Reported(s)[p] = given[o][p] /\ Reported(s)[p] # None
          BY <3>1, <4>1, <4>2
        <4> HIDE DEF o
        <4> QED
          BY <1>7, <2>1, <4>3
      <3>2. CASE o # s
        <4>1. ports[p] = given[o][p] /\ given[o][p] # None
          BY <1>5, <2>1, <2>2, <2>8, <3>2 DEF DiscoveryOf
        <4>2. given[s][p] \in {None, given[o][p]}
          BY <2>2 DEF DiscoveryOf
        <4> QED
          BY <1>7, <2>1, <4>1, <4>2
      <3> QED
        BY <3>1, <3>2
    <2>9. ASSUME phase'[o] = "up"
          PROVE  \/ phase[o] = "up" /\ ToldIn(phase') \subseteq ToldIn(phase)
                 \/ \A t \in ToldIn(phase') : o \notin Upstream(t)
      <3>1. CASE o # s
        BY <1>5, <1>6, <2>1, <2>9, <3>1
      <3>2. CASE o = s
        <4>1. phase[o] = "found"
          BY <2>6, <2>9, <3>2
        <4>2. ASSUME NEW t \in ToldIn(phase'), o \in Upstream(t) PROVE FALSE
          <5>1. t \in Services /\ phase[t] # "waiting"
            BY <1>6, <4>2 DEF ToldIn, Alive
          <5>2. phase[o] \in Past
            BY <1>3, <4>2, <5>1, UpstreamIsPast
          <5> QED
            BY <4>1, <5>2 DEF Past
        <4> QED
          BY <4>2
      <3> QED
        BY <3>1, <3>2
    <2> QED
      BY <1>4, <2>1, <2>2, <2>3, <2>4, <2>7, <2>8, <2>9, DiscoveryKept
  <1>10. Discoveries'
    <2>1. DiscoveriesOf(ports', known, given, phase')
      BY <1>9 DEF DiscoveriesOf
    <2> QED
      BY <1>2, <2>1, DiscoveriesNext
  <1>11. Turns'
    <2>1. \A t \in Services : cfg.needs[t] \subseteq Services
      BY <1>3, ConfigTypes
    <2>2. phase[s] \in Past => x \in Past
      BY <1>1 DEF Past
    <2>3. \A t \in Services : phase'[t] # "waiting" => \A d \in cfg.needs[t] : phase'[d] \in Past
      <3>1. phase[s] # "waiting"
        BY <1>2 DEF Alive
      <3> QED
        BY <1>3, <1>5, <2>1, <2>2, <3>1 DEF Turns
    <2>4. \A t \in Services : phase'[t] \in Untold => given[t] = NoPorts
      BY <1>3, <1>5 DEF Turns, Untold
    <2>5. \A t \in Services : phase'[t] = "rechecking" <=> holder = t
      BY <1>2, <1>3, <1>5, NamesAreSorted DEF Turns
    <2> QED
      BY <1>2, <2>3, <2>4, <2>5 DEF Turns
  <1>12. BeforeRun' /\ Rechecking'
    BY <1>2 DEF BeforeRun, Preparing, Rechecking
  <1> QED
    BY <1>8, <1>10, <1>11, <1>12 DEF StartPlans

\* The scan finds the listener of a service's only discovered port.
LEMMA StartPlansDiscover ==
    ASSUME PortsInv, TypeOK', NEW s \in Services, Discover(s)
    PROVE  StartPlans'
  <1> USE DEF prepared, runtime
  <1>1. /\ UNCHANGED <<cfg, stage, used, owner, ports, holder>>
        /\ stage = "running" /\ phase[s] = "started" /\ holder = None
        /\ Cardinality(DiscoverNames(s)) = 1 /\ Listening(s)
        /\ phase' = [phase EXCEPT ![s] = "found"]
    BY DEF Discover, recheck
  <1>2. PICK r : r = CHOOSE q \in DiscoverNames(s) : TRUE
    OBVIOUS
  <1>3. known' = [known EXCEPT ![r] = bound[r]] /\ given' = [given EXCEPT ![s][r] = bound[r]]
    BY <1>2 DEF Discover
  <1>4. /\ TypeOK /\ Turns /\ phase \in [Services -> Phase] /\ cfg \in Configs
        /\ ports \in PortMap /\ known \in PortMap /\ given \in [Services -> PortMap]
        /\ PlansOf(ports, given, phase) /\ DiscoveriesOf(ports, known, given, phase)
    BY <1>1 DEF PortsInv, TypeOK, Phase, StartPlans, Plans, Discoveries
  <1>5. DiscoverNames(s) = {r}
    <2>1. IsFiniteSet(DiscoverNames(s))
      BY <1>4, NamesAreFinite, FS_Subset DEF DiscoverNames, Own, TypeOK
    <2>2. PICK q : DiscoverNames(s) = {q}
      BY <1>1, <2>1, FS_Singleton
    <2> QED
      BY <1>2, <2>2
  <1>6. /\ r \in PortNames /\ r \in used /\ Discovered(r) /\ owner[r] = s /\ bound[r] # None
        /\ \A q \in used : Discovered(q) /\ owner[q] = s => q = r
    BY <1>1, <1>4, <1>5 DEF DiscoverNames, Own, Listening, TypeOK
  <1>7. /\ phase'[s] = "found" /\ \A t \in Services : t # s => phase'[t] = phase[t]
        /\ phase' \in [Services -> Phase] /\ given' \in [Services -> PortMap]
    BY <1>1, <1>4, NextTyped DEF ServiceTypes
  <1>8. /\ given'[s][r] = bound[r] /\ known'[r] = bound[r]
        /\ \A q \in PortNames : q # r => known'[q] = known[q] /\ given'[s][q] = given[s][q]
        /\ \A t \in Services : t # s => given'[t] = given[t]
    BY <1>3, <1>4, <1>6 DEF PortMap
  <1>9. ToldIn(phase') = ToldIn(phase)
    BY <1>1, <1>7 DEF ToldIn, Alive
  <1>10. Plans'
    <2>1. \A p \in PortNames : Probed(p) => \A t \in Services : given'[t][p] = given[t][p]
      BY <1>6, <1>8 DEF Probed
    <2>2. PlansOf(ports, given', phase')
      BY <1>4, <1>7, <1>9, <2>1, PlansKept
    <2> QED
      BY <1>1, <2>2, PlansNext
  <1>11. ASSUME NEW p \in used, Discovered(p), owner[p] # None
         PROVE  DiscoveryOf(p, given'[owner[p]][p], ports, known', given', phase')
    <2> DEFINE o == owner[p]
    <2>1. p \in PortNames /\ o \in Services
      BY <1>4, <1>11 DEF TypeOK
    <2>2. DiscoveryOf(p, given[o][p], ports, known, given, phase)
      BY <1>4, <1>11 DEF DiscoveriesOf
    <2>3. CASE o = s
      <3>1. p = r
        BY <1>6, <1>11, <2>3
      <3>2. ports[p] = None /\ \A t \in Services : given[t][p] = None
        BY <1>1, <2>2, <2>3 DEF DiscoveryOf, Searching
      <3>3. \A t \in Services : given'[t][p] \in {None, bound[r]}
        BY <1>8, <3>1, <3>2
      <3> QED
        BY <1>6, <1>7, <1>8, <2>3, <3>1, <3>2, <3>3 DEF DiscoveryOf, Searching, Untold
    <2>4. CASE o # s
      <3>1. p # r
        BY <1>6, <2>4
      <3>2. \A t \in Services : given'[t][p] = given[t][p]
        BY <1>8, <2>1, <3>1
      <3>3. known'[p] = known[p] /\ phase'[o] = phase[o]
        BY <1>7, <1>8, <2>1, <2>4, <3>1
      <3>4. \A t \in ToldIn(phase) : t \in Services
        BY DEF ToldIn
      <3> QED
        BY <1>9, <2>1, <2>2, <3>2, <3>3, <3>4 DEF DiscoveryOf
    <2> QED
      BY <2>3, <2>4
  <1>12. Discoveries'
    <2>1. DiscoveriesOf(ports, known', given', phase')
      BY <1>11 DEF DiscoveriesOf
    <2> QED
      BY <1>1, <2>1, DiscoveriesNext
  <1>13. Turns'
    <2>1. \A t \in Services : cfg.needs[t] \subseteq Services
      BY <1>4, ConfigTypes
    <2>2. \A t \in Services : phase'[t] # "waiting" => \A d \in cfg.needs[t] : phase'[d] \in Past
      BY <1>1, <1>4, <1>7, <2>1 DEF Turns, Past
    <2>3. \A t \in Services : phase'[t] \in Untold => given'[t] = NoPorts
      BY <1>4, <1>7, <1>8 DEF Turns, Untold
    <2>4. \A t \in Services : phase'[t] = "rechecking" <=> holder = t
      BY <1>1, <1>4, <1>7 DEF Turns
    <2> QED
      BY <1>1, <2>2, <2>3, <2>4 DEF Turns
  <1>14. BeforeRun' /\ Rechecking'
    BY <1>1 DEF BeforeRun, Preparing, Rechecking
  <1> QED
    BY <1>10, <1>12, <1>13, <1>14 DEF StartPlans

LEMMA PortsNext == PortsInv /\ [Next]_vars => PortsInv'
  <1> SUFFICES ASSUME PortsInv, [Next]_vars PROVE PortsInv'
    OBVIOUS
  <1>0. TypeOK' /\ UniqueInv'
    BY TypesNext, UniqueNext DEF PortsInv
  <1>1. CASE Prepare
    BY <1>0, <1>1, StartPlansPreparation DEF PortsInv
  <1>2. CASE Recheck
    BY <1>0, <1>2, StartPlansReallocate, StartPlansFail, StartPlansLeave DEF PortsInv, Recheck
  <1>3. ASSUME NEW s \in Services, Progress(s) \/ Fails(s) PROVE PortsInv'
    <2>1. CASE Listen(s)
      BY <1>0, <2>1, StartPlansUntouched DEF PortsInv, Listen, prepared, runtime
    <2>2. CASE Begin(s) \/ Launch(s)
      BY <1>0, <2>2, StartPlansBegin DEF PortsInv
    <2>3. CASE EnterBeforeStart(s)
      BY <1>0, <2>3, StartPlansEnter DEF PortsInv
    <2>4. CASE Discover(s)
      BY <1>0, <2>4, StartPlansDiscover DEF PortsInv
    <2>5. CASE ReportStarting(s) \/ ReportReady(s) \/ CannotServe(s) \/ Fails(s) \/ Stops(s)
      BY <1>0, <2>5, StartPlansReport DEF PortsInv
    <2> QED
      BY <1>3, <2>1, <2>2, <2>3, <2>4, <2>5 DEF Progress
  <1>4. CASE CleanUp
    BY <1>0, <1>4, StartPlansCleanUp DEF PortsInv
  <1>5. CASE Interrupt \/ OutsideOpens \/ OutsideCloses
    BY <1>0, <1>5, StartPlansUntouched
       DEF PortsInv, Interrupt, OutsideOpens, OutsideCloses, prepared, runtime
  <1>6. CASE UNCHANGED vars
    BY <1>0, <1>6, StartPlansUntouched DEF PortsInv, vars, recheck
  <1> QED
    BY <1>1, <1>2, <1>3, <1>4, <1>5, <1>6 DEF Next, Over

THEOREM PortsInvariant == Spec => []PortsInv
  <1>1. Init => PortsInv
    BY TypesInit, UniqueInit, StartPlansInit DEF PortsInv
  <1> QED
    BY <1>1, PortsNext, PTL DEF Spec

\* For every configuration, whatever other processes of the machine do: a service is told
\* the number its dependency listens on, or one that a service which does not depend on
\* that dependency was told (Reallocate, OnEvent).
THEOREM DependentsAreTold == Spec => []StaleOnlyFromABranch
  BY PortsInvariant, StaleFromInv, PTL

\* For every configuration, whatever other processes of the machine do: BeforeStart gives
\* no service the number another service was told to listen on, unless services were told
\* an old number of each of the two ports.
THEOREM ServicesGetTheirOwn == Spec => []ServicesDoNotClash
  BY PortsInvariant, ClashFromInv, PTL

=============================================================================
