--------------------------- MODULE Supervisor_proofs ---------------------------
(***************************************************************************)
(* Proofs about Supervisor, for any services, any order of them and any    *)
(* plans: what is started runs over dependencies that are up, nothing the  *)
(* session started outlives Run, a created resource is stopped, the        *)
(* shutdown commands come last, Run does not wait for its own queue, and   *)
(* what the session sees of all this is the module Supervision.            *)
(*                                                                         *)
(* They rest on one invariant of each service, which says what its worker  *)
(* has done by what Run has been told of it or will be, once it has read   *)
(* its queue; on the last state of a service being the last thing that is  *)
(* queued about it; and on nothing being queued twice.                     *)
(***************************************************************************)
EXTENDS Supervisor, FiniteSetTheorems, SequenceTheorems, WellFoundedInduction, TLAPS

-----------------------------------------------------------------------------
(* The inductive invariant                                                 *)

Messages == [kind : Kinds, service : Services]
Notices  == Kinds \ {"route"}

\* An event is in the queue; Run believes, or will once it has read the queue.
Queued(kind, s) == Event(kind, s) \in Range(events)
Says(kind, s)   == states[s] = kind \/ Queued(kind, s)

Up(s) == /\ proc[s] # "none"
         /\ s \in plan.exits => proc[s] = "ok"
         /\ s \in plan.routed => route[s] # "none"

Late == {"probing", "activating", "ready", "serving"}

(* How far the worker is, by the service's process and route.              *)
Progress(s) ==
    /\ worker[s] = "idle" <=> states[s] \in {"pending", "blocked"}
    /\ worker[s] \in {"idle", "starting", "forking"} => proc[s] = "none"
    /\ worker[s] \notin {"idle", "starting", "forking", "done"} => proc[s] # "none"
    /\ worker[s] \in {"waiting", "exited"} => s \in plan.exits
    /\ worker[s] = "exited" => proc[s] \in {"ok", "dead"}
    /\ worker[s] \in Late /\ s \in plan.exits => proc[s] = "ok"
    /\ worker[s] = "done" => proc[s] # "alive"
    /\ worker[s] \in {"ready", "serving"} => Up(s)
    /\ route[s] # "none" => worker[s] \in {"ready", "serving", "done"}

(* What the queue tells of a service, by its worker.                       *)
Accounted(s) ==
    /\ worker[s] \notin {"idle", "done"} => s \in active
    /\ worker[s] = "idle" => s \notin active
    /\ s \notin active => \A kind \in Notices : ~Queued(kind, s)
    /\ \A kind \in Terminal : Queued(kind, s) => worker[s] = "done"

(* What the last states mean.                                              *)
Meant(s) ==
    /\ Says("ready", s) \/ Says("success", s) => worker[s] \in {"serving", "done"} /\ Up(s)
    /\ Says("success", s) => worker[s] = "done" /\ s \in plan.exits
    /\ Says("stopped", s) \/ states[s] \in {"failed", "blocked"} => Cancelled

(* A shutdown command is registered, or is about to be, exactly for what   *)
(* the service has created.                                                *)
Kept(s) ==
    /\ s \in registered \/ Queued("shutdown", s) => Created(s)
    /\ Created(s) /\ (\/ worker[s] \in {"exited"} \cup Late
                      \/ worker[s] = "done" /\ (s \notin plan.listens \/ Says("success", s)))
       => s \in registered \/ Queued("shutdown", s)

Sound(s) == Progress(s) /\ Accounted(s) /\ Meant(s) /\ Kept(s)

StartedOverUp == \A s \in Services : worker[s] # "idle" => \A d \in plan.needs[s] : Up(d)

(* The last state of a service is the last notice of it.                   *)
LastIsLast == \A i, j \in DOMAIN events :
    /\ events[i].kind \in Terminal /\ events[j].kind \in Notices
    /\ events[i].service = events[j].service
    => j <= i

Ending == main \in {"release", "shutdown", "ended"}
EndsEmpty ==
    /\ Ending => active = {}
    /\ main = "shutdown" => \A s \in Services : route[s] \in {"none", "released"}
    /\ main = "ended" => /\ \A s \in Services : route[s] # "active"
                         /\ registered \subseteq Handled
    /\ skipped # {} => outcome = "failed"
    /\ outcome # "none" => Ending
    /\ outcome = "ok" => /\ main = "ended" /\ registered = {}
                         /\ \A s \in Services : states[s] = "success"

IInv == /\ \A s \in Services : Sound(s)
        /\ StartedOverUp /\ LastIsLast /\ EndsEmpty

-----------------------------------------------------------------------------
(* The queue                                                               *)

LEMMA RangeAppend ==
    ASSUME NEW S, NEW q \in Seq(S), NEW e \in S
    PROVE  Range(Append(q, e)) = Range(q) \cup {e}
  <1>1. Append(q, e) \in Seq(S) /\ Len(q) \in Nat
    BY AppendProperties, LenProperties
  <1>2. DOMAIN Append(q, e) = 1..(Len(q) + 1) /\ DOMAIN q = 1..Len(q)
    BY <1>1, AppendProperties, LenProperties
  <1>3. \A i \in 1..Len(q) : Append(q, e)[i] = q[i]
    BY AppendProperties
  <1>4. Append(q, e)[Len(q) + 1] = e
    BY AppendProperties
  <1>5. 1..(Len(q) + 1) = 1..Len(q) \cup {Len(q) + 1}
    BY <1>1
  <1> QED
    BY <1>1, <1>2, <1>3, <1>4, <1>5 DEF Range

\* The first of a sequence, and those behind it.
LEMMA TailShift ==
    ASSUME NEW S, NEW q \in Seq(S), q # <<>>
    PROVE  /\ Head(q) = q[1] /\ 1 \in DOMAIN q
           /\ \A i \in DOMAIN Tail(q) : /\ i \in Nat \ {0} /\ i + 1 \in DOMAIN q
                                        /\ Tail(q)[i] = q[i + 1]
           /\ \A i \in DOMAIN q : i = 1 \/ (i - 1 \in DOMAIN Tail(q) /\ Tail(q)[i - 1] = q[i])
  <1>1. /\ Head(q) \in S /\ Tail(q) \in Seq(S) /\ Len(Tail(q)) = Len(q) - 1
        /\ \A i \in 1..Len(Tail(q)) : Tail(q)[i] = q[i + 1]
    BY HeadTailProperties
  <1>2. Len(q) \in Nat \ {0} /\ DOMAIN q = 1..Len(q) /\ DOMAIN Tail(q) = 1..(Len(q) - 1)
    BY <1>1, EmptySeq, LenProperties
  <1>3. Head(q) = q[1]
    BY <1>2
  <1> QED
    BY <1>1, <1>2, <1>3

LEMMA RangeTail ==
    ASSUME NEW S, NEW q \in Seq(S), q # <<>>
    PROVE  Range(q) = Range(Tail(q)) \cup {Head(q)}
  <1>1. ASSUME NEW e \in Range(q) PROVE e \in Range(Tail(q)) \cup {Head(q)}
    <2>1. PICK i \in DOMAIN q : e = q[i]
      BY <1>1 DEF Range
    <2>2. i = 1 \/ (i - 1 \in DOMAIN Tail(q) /\ Tail(q)[i - 1] = e)
      BY <2>1, TailShift
    <2> QED
      BY <2>1, <2>2, TailShift DEF Range
  <1>2. ASSUME NEW e \in Range(Tail(q)) PROVE e \in Range(q)
    <2>1. PICK i \in DOMAIN Tail(q) : e = Tail(q)[i]
      BY <1>2 DEF Range
    <2> QED
      BY <2>1, TailShift DEF Range
  <1>3. Head(q) \in Range(q)
    BY TailShift DEF Range
  <1> QED
    BY <1>1, <1>2, <1>3

LEMMA EventIsMessage ==
    \A kind \in Kinds, s \in Services : Event(kind, s) \in Messages
  BY DEF Event, Messages

LEMMA EventsDiffer ==
    ASSUME NEW j, NEW k, NEW s, NEW t, Event(j, s) = Event(k, t)
    PROVE  j = k /\ s = t
  BY DEF Event

Tells(kind, s) ==
    \A k \in Kinds, t \in Services : Queued(k, t)' <=> Queued(k, t) \/ (k = kind /\ t = s)

LEMMA SendEffect ==
    ASSUME TypeOK, NEW kind \in Kinds, NEW s \in Services,
           Room, events' = Append(events, Event(kind, s))
    PROVE  events' \in Seq(Messages) /\ Len(events') <= Capacity /\ Tells(kind, s)
  <1>1. events \in Seq(Messages) /\ Event(kind, s) \in Messages
    BY EventIsMessage DEF TypeOK, Messages
  <1>2. events' \in Seq(Messages) /\ Len(events') = Len(events) + 1 /\ Len(events) \in Nat
    BY <1>1, AppendProperties, LenProperties
  <1>3. Len(Order) \in Nat
    BY OrderIsOfServices, LenProperties
  <1>4. Len(events') <= Capacity
    BY <1>2, <1>3 DEF Room, Capacity
  <1>5. Range(events') = Range(events) \cup {Event(kind, s)}
    BY <1>1, RangeAppend
  <1>6. Tells(kind, s)
    BY <1>5, EventsDiffer DEF Tells, Queued
  <1> QED
    BY <1>2, <1>4, <1>6

LEMMA SendKeepsLast ==
    ASSUME TypeOK, LastIsLast, NEW kind \in Kinds, NEW s \in Services,
           events' = Append(events, Event(kind, s)),
           kind \in Notices => \A k \in Terminal : ~Queued(k, s)
    PROVE  LastIsLast'
  <1>1. events \in Seq(Messages) /\ Event(kind, s) \in Messages
    BY EventIsMessage DEF TypeOK, Messages
  <1>2. /\ Len(events) \in Nat /\ DOMAIN events = 1..Len(events)
        /\ DOMAIN events' = 1..(Len(events) + 1)
        /\ \A i \in 1..Len(events) : events'[i] = events[i]
        /\ events'[Len(events) + 1] = Event(kind, s)
    BY <1>1, AppendProperties, LenProperties
  <1>3. SUFFICES ASSUME NEW i \in DOMAIN events', NEW j \in DOMAIN events',
                        events'[i].kind \in Terminal, events'[j].kind \in Notices,
                        events'[i].service = events'[j].service
                 PROVE  j <= i
    BY DEF LastIsLast
  <1>4. CASE i = Len(events) + 1
    BY <1>2, <1>4
  <1>5. CASE i # Len(events) + 1 /\ j # Len(events) + 1
    BY <1>2, <1>3, <1>5 DEF LastIsLast
  <1>6. CASE i # Len(events) + 1 /\ j = Len(events) + 1
    <2>1. i \in DOMAIN events /\ events[i] \in Messages /\ events'[i] = events[i]
      BY <1>1, <1>2, <1>6
    <2>2. events[i] = Event(events[i].kind, s)
      BY <1>2, <1>3, <1>6, <2>1 DEF Event, Messages
    <2>3. Queued(events[i].kind, s)
      BY <2>1, <2>2 DEF Queued, Range
    <2>4. kind \in Notices
      BY <1>2, <1>3, <1>6 DEF Event
    <2> QED
      BY <1>3, <2>1, <2>3, <2>4
  <1> QED
    BY <1>4, <1>5, <1>6

LEMMA TakeEffect ==
    ASSUME TypeOK, events # <<>>, events' = Tail(events)
    PROVE  /\ events' \in Seq(Messages) /\ Len(events') <= Capacity
           /\ \E kind \in Kinds, s \in Services :
                 /\ Head(events) = Event(kind, s) /\ Queued(kind, s)
                 /\ \A k \in Kinds, t \in Services :
                       /\ Queued(k, t)' => Queued(k, t)
                       /\ Queued(k, t) => Queued(k, t)' \/ (k = kind /\ t = s)
                 /\ LastIsLast /\ kind \in Terminal =>
                       \A k \in Notices : ~Queued(k, s)'
           /\ LastIsLast => LastIsLast'
  <1>1. events \in Seq(Messages)
    BY DEF TypeOK, Messages
  <1>2. /\ Head(events) \in Messages /\ events' \in Seq(Messages)
        /\ Len(events') = Len(events) - 1 /\ Len(events) \in Nat
    BY <1>1, HeadTailProperties, LenProperties
  <1>3. Len(events') <= Capacity
    <2>1. Len(Order) \in Nat
      BY OrderIsOfServices, LenProperties
    <2> QED
      BY <1>2, <2>1 DEF TypeOK, Capacity
  <1>4. PICK kind \in Kinds, s \in Services : Head(events) = Event(kind, s)
    BY <1>2 DEF Messages, Event
  <1>5. Range(events) = Range(events') \cup {Event(kind, s)}
    BY <1>1, <1>4, RangeTail
  <1>6. Queued(kind, s)
    BY <1>5 DEF Queued
  <1>7. \A k \in Kinds, t \in Services :
           /\ Queued(k, t)' => Queued(k, t)
           /\ Queued(k, t) => Queued(k, t)' \/ (k = kind /\ t = s)
    BY <1>5, EventsDiffer DEF Queued
  <1>8. ASSUME LastIsLast, kind \in Terminal, NEW k \in Notices PROVE ~Queued(k, s)'
    <2>1. SUFFICES ASSUME NEW i \in DOMAIN events', events'[i] = Event(k, s) PROVE FALSE
      BY DEF Queued, Range
    <2>2. /\ 1 \in DOMAIN events /\ events[1] = Event(kind, s)
          /\ i + 1 \in DOMAIN events /\ events[i + 1] = Event(k, s) /\ i \in Nat \ {0}
      BY <1>1, <1>4, <2>1, TailShift
    <2> QED
      BY <1>8, <2>2 DEF LastIsLast, Event
  <1>9. ASSUME LastIsLast PROVE LastIsLast'
    <2>1. SUFFICES ASSUME NEW i \in DOMAIN events', NEW j \in DOMAIN events',
                          events'[i].kind \in Terminal, events'[j].kind \in Notices,
                          events'[i].service = events'[j].service
                   PROVE  j <= i
      BY DEF LastIsLast
    <2>2. /\ i \in Nat /\ j \in Nat /\ i + 1 \in DOMAIN events /\ j + 1 \in DOMAIN events
          /\ events'[i] = events[i + 1] /\ events'[j] = events[j + 1]
      BY <1>1, TailShift
    <2> QED
      BY <1>9, <2>1, <2>2 DEF LastIsLast
  <1> QED
    BY <1>2, <1>3, <1>4, <1>6, <1>7, <1>8, <1>9

-----------------------------------------------------------------------------
(* The order of the services                                               *)

\* Of some positions one is the first, and one the last.
Below == {p \in Nat \X Nat : p[1] < p[2]}

LEMMA LeastOf ==
    ASSUME NEW K \in SUBSET Nat, K # {}
    PROVE  \E k \in K : \A j \in K : k <= j
  <1>1. IsWellFoundedOn(Below, Nat)
    BY NatLessThanWellFounded DEF OpToRel, Below
  <1>2. PICK k \in K : \A j \in K : <<j, k>> \notin Below
    BY <1>1, WFMin
  <1>3. ASSUME NEW j \in K PROVE k <= j
    <2>1. <<j, k>> \in Nat \X Nat /\ <<j, k>>[1] = j /\ <<j, k>>[2] = k
      OBVIOUS
    <2> QED
      BY <1>2, <2>1 DEF Below
  <1> QED
    BY <1>3

LEMMA GreatestOf ==
    ASSUME NEW n \in Nat, NEW K \in SUBSET (1..n), K # {}
    PROVE  \E k \in K : \A j \in K : j <= k
  <1> DEFINE D == {n - k : k \in K}
  <1>1. \A k \in K : n - k \in Nat /\ n - k \in D
    OBVIOUS
  <1>2. D \in SUBSET Nat /\ D # {}
    BY <1>1
  <1>3. PICK d \in D : \A e \in D : d <= e
    <2> HIDE DEF D
    <2> QED
      BY <1>2, LeastOf
  <1>4. PICK k \in K : d = n - k
    BY <1>3
  <1>5. ASSUME NEW j \in K PROVE j <= k
    BY <1>1, <1>3, <1>4
  <1> QED
    BY <1>5

LEMMA Positions ==
    /\ Len(Order) \in Nat /\ DOMAIN Order = 1..Len(Order)
    /\ \A k \in DOMAIN Order : Order[k] \in Services
  BY OrderIsOfServices, LenProperties

-----------------------------------------------------------------------------
(* What each step of a worker does                                         *)

\* Whatever is about s only: Run and the other services see at most an event.
Rest  == <<plan, main, states, active, registered, primary, heard, outcome, interrupted, ran,
           skipped>>
Moves(s) == /\ UNCHANGED Rest
            /\ \A t \in Services \ {s} :
                   worker'[t] = worker[t] /\ proc'[t] = proc[t] /\ route'[t] = route[t]
Silent   == \A k \in Kinds, t \in Services : Queued(k, t)' <=> Queued(k, t)

LEMMA SilentIf == events' = events => Silent
  BY DEF Silent, Queued

LEMMA EndEffect ==
    ASSUME TypeOK, NEW s \in Services, NEW kind \in Terminal, End(s, kind),
           route' \in [Services -> {"none", "active", "unavailable", "failed", "released"}],
           \A t \in Services \ {s} : route'[t] = route[t]
    PROVE  /\ TypeOK' /\ Moves(s) /\ Tells(kind, s)
           /\ worker'[s] = "done" /\ proc'[s] # "alive"
           /\ proc'[s] = IF proc[s] = "alive" THEN "dead" ELSE proc[s]
           /\ proc[s] # "ok" => proc'[s] # "ok"
           /\ events' = Append(events, Event(kind, s))
  <1>1. events' \in Seq(Messages) /\ Len(events') <= Capacity /\ Tells(kind, s)
    BY SendEffect DEF End, Kinds, Terminal
  <1> QED
    BY <1>1 DEF TypeOK, End, Terminated, Moves, Rest, loop, Messages, Capacity

\* Nothing that Sound says of a service has changed.
Same(t) ==
    /\ plan' = plan /\ (Cancelled => Cancelled')
    /\ worker'[t] = worker[t] /\ proc'[t] = proc[t] /\ route'[t] = route[t]
    /\ states'[t] = states[t]
    /\ t \in active' <=> t \in active
    /\ t \in registered' <=> t \in registered
    /\ \A k \in Kinds : Queued(k, t)' <=> Queued(k, t)

LEMMA SoundStays ==
    ASSUME NEW t \in Services, Sound(t), Same(t)
    PROVE  Sound(t)'
  <1>1. Progress(t)'
    BY DEF Sound, Same, Progress, Up
  <1>2. Accounted(t)'
    BY DEF Sound, Same, Accounted, Notices, Terminal, Kinds
  <1>3. Meant(t)'
    BY DEF Sound, Same, Meant, Says, Up, Kinds
  <1>4. Kept(t)'
    BY DEF Sound, Same, Kept, Says, Created, Kinds
  <1> QED
    BY <1>1, <1>2, <1>3, <1>4 DEF Sound

\* What is up stays up, and what has not begun begins by Run only.
Grows(s) == /\ proc[s] # "none" => proc'[s] # "none"
            /\ proc[s] = "ok" => proc'[s] = "ok"
            /\ route[s] # "none" => route'[s] # "none"
            /\ worker[s] = "idle" => worker'[s] = "idle"

\* A step of a worker, or of its process or route, as far as IInv is concerned.
LEMMA MoveKeeps ==
    ASSUME TypeOK, IInv, NEW s \in Services, Moves(s), Grows(s), Sound(s)', LastIsLast',
           Silent \/ \E kind \in Kinds : Tells(kind, s),
           Ending => \/ route'[s] = route[s]
                     \/ route'[s] \notin {"none", "active"} /\ main # "shutdown"
    PROVE  IInv'
  <1>1. \A t \in Services \ {s} : Same(t)
    BY DEF Moves, Rest, Same, Silent, Tells, Cancelled
  <1>2. \A t \in Services : Sound(t)'
    BY <1>1, SoundStays DEF IInv
  <1>3. StartedOverUp'
    <2>1. \A d \in Services : Up(d) => Up(d)'
      BY DEF Moves, Rest, Grows, Up
    <2>2. \A t \in Services : worker'[t] # "idle" => worker[t] # "idle"
      BY DEF Moves, Grows
    <2>3. plan' = plan /\ \A t \in Services : plan.needs[t] \subseteq Services
      BY PlansAreSound DEF Moves, Rest, TypeOK, Plan
    <2> QED
      BY <2>1, <2>2, <2>3 DEF IInv, StartedOverUp
  <1>4. EndsEmpty'
    BY DEF Moves, Rest, IInv, EndsEmpty, Ending, Handled
  <1> QED
    BY <1>2, <1>3, <1>4 DEF IInv

LEMMA EndKeeps ==
    ASSUME TypeOK, IInv, NEW s \in Services, NEW kind \in Terminal, End(s, kind),
           route' \in [Services -> {"none", "active", "unavailable", "failed", "released"}],
           \A t \in Services \ {s} : route'[t] = route[t],
           route'[s] = route[s] \/ (s \in plan.required /\ route'[s] = "failed"),
           worker[s] \notin {"idle", "done"},
           kind = "stopped" => Cancelled,
           kind = "success" => worker[s] = "serving" /\ s \in plan.exits,
           worker[s] = "waiting" => FALSE,
           worker[s] = "launched" => s \in plan.listens
    PROVE  TypeOK' /\ IInv'
  <1>1. /\ TypeOK' /\ Moves(s) /\ Tells(kind, s)
        /\ worker'[s] = "done" /\ proc'[s] # "alive"
        /\ proc'[s] = IF proc[s] = "alive" THEN "dead" ELSE proc[s]
        /\ proc[s] # "ok" => proc'[s] # "ok"
        /\ events' = Append(events, Event(kind, s))
    BY EndEffect
  <1>2. Sound(s) /\ s \in active /\ kind \in Kinds
    BY DEF IInv, Sound, Accounted, Terminal, Kinds
  <1>3. Progress(s)'
    BY <1>1, <1>2 DEF Sound, Progress, Moves, Rest, Late
  <1>4. Accounted(s)'
    BY <1>1, <1>2 DEF Sound, Accounted, Moves, Rest
  <1>5. Up(s) => Up(s)'
    BY <1>1 DEF Moves, Rest, Up
  <1>6. Meant(s)'
    BY <1>1, <1>2, <1>5 DEF Sound, Progress, Meant, Says, Moves, Rest, Tells, Kinds, Terminal,
                            Cancelled
  <1>7. Kept(s)'
    BY <1>1, <1>2 DEF Sound, Progress, Kept, Meant, Says, Moves, Rest, Tells, Kinds, Terminal,
                      Created, Late, TypeOK
  <1>8. LastIsLast'
    BY <1>1, <1>2, SendKeepsLast DEF IInv, Sound, Accounted
  <1>9. Grows(s)
    BY <1>1 DEF Grows
  <1>10. ~Ending
    BY <1>2 DEF IInv, EndsEmpty
  <1> QED
    BY <1>1, <1>2, <1>3, <1>4, <1>6, <1>7, <1>8, <1>9, <1>10, MoveKeeps DEF Sound

\* A worker that goes on, without an event ...
LEMMA ContinueKeeps ==
    ASSUME TypeOK, IInv, NEW s \in Services, NEW pc, Continue(s, pc),
           \/ worker[s] = "starting" /\ pc = "forking"
           \/ worker[s] = "launched" /\ pc = IF s \in plan.exits THEN "waiting" ELSE "probing"
           \/ worker[s] = "exited" /\ proc[s] # "dead" /\ pc = "probing"
           \/ worker[s] = "probing" /\ pc = "activating"
           \/ worker[s] = "activating" /\ s \notin plan.routed /\ pc = "ready"
    PROVE  TypeOK' /\ IInv'
  <1>1. TypeOK' /\ Moves(s) /\ Silent /\ worker'[s] = pc /\ proc' = proc /\ route' = route
        /\ events' = events
    BY SilentIf DEF TypeOK, Continue, Moves, Rest, loop, Capacity
  <1>2. Sound(s)
    BY DEF IInv
  <1>3. Progress(s)'
    BY <1>1, <1>2 DEF Sound, Progress, Moves, Rest, Late, Up
  <1>4. Accounted(s)'
    BY <1>1, <1>2 DEF Sound, Accounted, Moves, Rest, Silent, Notices, Terminal, Kinds
  <1>5. Meant(s)'
    BY <1>1, <1>2 DEF Sound, Meant, Says, Moves, Rest, Silent, Kinds, Cancelled
  <1>6. Kept(s)'
    BY <1>1, <1>2 DEF Sound, Progress, Kept, Says, Moves, Rest, Silent, Kinds, Created, Late
  <1>7. LastIsLast'
    BY <1>1 DEF LastIsLast, IInv
  <1>8. Grows(s)
    BY <1>1 DEF Grows
  <1>9. route'[s] = route[s]
    BY <1>1
  <1> QED
    BY <1>1, <1>3, <1>4, <1>5, <1>6, <1>7, <1>8, <1>9, MoveKeeps DEF Sound

\* ... the start of its process ...
LEMMA LaunchKeeps ==
    ASSUME TypeOK, IInv, NEW s \in Services, Launch(s)
    PROVE  TypeOK' /\ IInv'
  <1>1. TypeOK' /\ Moves(s) /\ Silent /\ worker'[s] = "launched" /\ proc'[s] = "alive"
        /\ worker[s] = "forking" /\ route' = route /\ events' = events
    BY SilentIf DEF TypeOK, Launch, Moves, Rest, loop, Capacity
  <1>2. Sound(s)
    BY DEF IInv
  <1>3. Progress(s)'
    BY <1>1, <1>2 DEF Sound, Progress, Moves, Rest, Late
  <1>4. Accounted(s)'
    BY <1>1, <1>2 DEF Sound, Accounted, Moves, Rest, Silent, Notices, Terminal, Kinds
  <1>5. Meant(s)'
    BY <1>1, <1>2 DEF Sound, Meant, Says, Moves, Rest, Silent, Kinds, Cancelled
  <1>6. Kept(s)'
    BY <1>1, <1>2 DEF Sound, Progress, Kept, Says, Moves, Rest, Silent, Kinds, Created, Late
  <1>7. LastIsLast'
    BY <1>1 DEF LastIsLast, IInv
  <1>8. Grows(s)
    BY <1>1, <1>2 DEF Grows, Sound, Progress
  <1>9. route'[s] = route[s]
    BY <1>1
  <1> QED
    BY <1>1, <1>3, <1>4, <1>5, <1>6, <1>7, <1>8, <1>9, MoveKeeps DEF Sound

\* ... the end of the command of an exit-completing service ...
LEMMA AwaitExitKeeps ==
    ASSUME TypeOK, IInv, NEW s \in Services, AwaitExit(s)
    PROVE  TypeOK' /\ IInv'
  <1> USE DEF AwaitExit
  <1>1. Sound(s) /\ s \in plan.exits
    BY DEF IInv, Sound, Progress
  <1>2. CASE Registers(s)
    <2>1. events' \in Seq(Messages) /\ Len(events') <= Capacity /\ Tells("shutdown", s)
      BY <1>2, SendEffect DEF Kinds
    <2>2. TypeOK' /\ Moves(s) /\ worker'[s] = "exited" /\ proc' = proc /\ route' = route
      BY <2>1 DEF TypeOK, Moves, Rest, loop, Capacity, Messages
    <2>3. Created(s)
      BY <1>1, <1>2 DEF Registers, Created
    <2>4. Progress(s)'
      BY <1>1, <2>2 DEF Sound, Progress, Moves, Rest, Late
    <2>5. Accounted(s)'
      BY <1>1, <2>1, <2>2 DEF Sound, Accounted, Moves, Rest, Tells, Notices, Terminal, Kinds
    <2>6. Meant(s)'
      BY <1>1, <2>1, <2>2 DEF Sound, Meant, Says, Moves, Rest, Tells, Kinds, Cancelled
    <2>7. Kept(s)'
      BY <1>1, <2>1, <2>2, <2>3 DEF Kept, Moves, Rest, Tells, Kinds, Created
    <2>8. LastIsLast'
      BY <1>1, <1>2, SendKeepsLast DEF IInv, Sound, Accounted, Kinds
    <2>9. Grows(s)
      BY <2>2 DEF Grows
    <2>10. route'[s] = route[s]
      BY <2>2
    <2> QED
      BY <2>1, <2>2, <2>4, <2>5, <2>6, <2>7, <2>8, <2>9, <2>10, MoveKeeps DEF Sound, Kinds
  <1>3. CASE ~Registers(s)
    <2>1. TypeOK' /\ Moves(s) /\ Silent /\ worker'[s] = "exited" /\ proc' = proc
          /\ route' = route /\ events' = events
      BY <1>3, SilentIf DEF TypeOK, Moves, Rest, loop, Capacity
    <2>2. Progress(s)'
      BY <1>1, <2>1 DEF Sound, Progress, Moves, Rest, Late
    <2>3. Accounted(s)'
      BY <1>1, <2>1 DEF Sound, Accounted, Moves, Rest, Silent, Notices, Terminal, Kinds
    <2>4. Meant(s)'
      BY <1>1, <2>1 DEF Sound, Meant, Says, Moves, Rest, Silent, Kinds, Cancelled
    <2>5. Kept(s)'
      BY <1>1, <1>3, <2>1 DEF Sound, Kept, Moves, Rest, Silent, Kinds, Created, Registers
    <2>6. LastIsLast'
      BY <2>1 DEF LastIsLast, IInv
    <2>7. Grows(s)
      BY <2>1 DEF Grows
    <2>8. route'[s] = route[s]
      BY <2>1
    <2> QED
      BY <2>1, <2>2, <2>3, <2>4, <2>5, <2>6, <2>7, <2>8, MoveKeeps DEF Sound
  <1> QED
    BY <1>2, <1>3

\* ... its route ...
LEMMA ActivateKeeps ==
    ASSUME TypeOK, IInv, NEW s \in Services, Activate(s)
    PROVE  TypeOK' /\ IInv'
  <1>1. TypeOK' /\ Moves(s) /\ Silent /\ worker'[s] = "ready" /\ proc' = proc
        /\ worker[s] = "activating" /\ route'[s] \in {"active", "unavailable"} /\ events' = events
    BY SilentIf DEF TypeOK, Activate, Moves, Rest, loop, Capacity
  <1>2. Sound(s) /\ s \in active
    BY <1>1 DEF IInv, Sound, Accounted
  <1>3. Progress(s)'
    BY <1>1, <1>2 DEF Sound, Progress, Moves, Rest, Late, Up
  <1>4. Accounted(s)'
    BY <1>1, <1>2 DEF Sound, Accounted, Moves, Rest, Silent, Notices, Terminal, Kinds
  <1>5. Meant(s)'
    BY <1>1, <1>2 DEF Sound, Meant, Says, Moves, Rest, Silent, Kinds, Cancelled
  <1>6. Kept(s)'
    BY <1>1, <1>2 DEF Sound, Progress, Kept, Says, Moves, Rest, Silent, Kinds, Created, Late
  <1>7. LastIsLast'
    BY <1>1 DEF LastIsLast, IInv
  <1>8. Grows(s)
    BY <1>1 DEF Grows
  <1>9. ~Ending
    BY <1>2 DEF IInv, EndsEmpty
  <1> QED
    BY <1>1, <1>3, <1>4, <1>5, <1>6, <1>7, <1>8, <1>9, MoveKeeps DEF Sound

\* ... and the report that it is ready.
LEMMA ReportReadyKeeps ==
    ASSUME TypeOK, IInv, NEW s \in Services, ReportReady(s)
    PROVE  TypeOK' /\ IInv'
  <1> USE DEF ReportReady
  <1>1. Sound(s) /\ Up(s)
    BY DEF IInv, Sound, Progress
  <1>2. events' \in Seq(Messages) /\ Len(events') <= Capacity /\ Tells("ready", s)
    BY SendEffect DEF Kinds
  <1>3. TypeOK' /\ Moves(s) /\ worker'[s] = "serving" /\ proc' = proc /\ route' = route
    BY <1>2 DEF TypeOK, Moves, Rest, loop, Capacity, Messages
  <1>4. Up(s)'
    BY <1>1, <1>3 DEF Up, Moves, Rest
  <1>5. Progress(s)'
    BY <1>1, <1>3, <1>4 DEF Sound, Progress, Moves, Rest, Late
  <1>6. Accounted(s)'
    BY <1>1, <1>2, <1>3 DEF Sound, Accounted, Moves, Rest, Tells, Notices, Terminal, Kinds
  <1>7. Meant(s)'
    BY <1>1, <1>2, <1>3, <1>4 DEF Sound, Meant, Says, Moves, Rest, Tells, Kinds, Cancelled
  <1>8. Kept(s)'
    BY <1>1, <1>2, <1>3 DEF Sound, Kept, Says, Moves, Rest, Tells, Kinds, Created, Late
  <1>9. LastIsLast'
    BY <1>1, SendKeepsLast DEF IInv, Sound, Accounted, Kinds
  <1>10. Grows(s)
    BY <1>3 DEF Grows
  <1>11. route'[s] = route[s]
    BY <1>3
  <1> QED
    BY <1>2, <1>3, <1>5, <1>6, <1>7, <1>8, <1>9, <1>10, <1>11, MoveKeeps DEF Sound, Kinds

\* The surroundings.
LEMMA ExitKeeps ==
    ASSUME TypeOK, IInv, NEW s \in Services, Exit(s)
    PROVE  TypeOK' /\ IInv'
  <1>1. TypeOK' /\ Moves(s) /\ Silent /\ worker' = worker /\ proc'[s] \in {"ok", "dead"}
        /\ proc[s] = "alive" /\ route' = route /\ events' = events
    BY SilentIf DEF TypeOK, Exit, Moves, Rest, loop, Capacity
  <1>2. Sound(s)
    BY DEF IInv
  <1>3. Progress(s)'
    BY <1>1, <1>2 DEF Sound, Progress, Moves, Rest, Late, Up
  <1>4. Accounted(s)'
    BY <1>1, <1>2 DEF Sound, Accounted, Moves, Rest, Silent, Notices, Terminal, Kinds
  <1>5. Meant(s)'
    BY <1>1, <1>2 DEF Sound, Meant, Says, Moves, Rest, Silent, Kinds, Cancelled, Up
  <1>6. Kept(s)'
    BY <1>1, <1>2 DEF Sound, Progress, Kept, Says, Moves, Rest, Silent, Kinds, Created, Late
  <1>7. LastIsLast'
    BY <1>1 DEF LastIsLast, IInv
  <1>8. Grows(s)
    BY <1>1 DEF Grows
  <1>9. route'[s] = route[s]
    BY <1>1
  <1> QED
    BY <1>1, <1>3, <1>4, <1>5, <1>6, <1>7, <1>8, <1>9, MoveKeeps DEF Sound

LEMMA RouteFailsKeeps ==
    ASSUME TypeOK, IInv, NEW s \in Services, RouteFails(s)
    PROVE  TypeOK' /\ IInv'
  <1>1. TypeOK' /\ Moves(s) /\ Silent /\ worker' = worker /\ proc' = proc
        /\ route[s] = "active" /\ route'[s] = "failed" /\ events' = events
    BY SilentIf DEF TypeOK, RouteFails, Moves, Rest, loop, Capacity
  <1>2. Sound(s)
    BY DEF IInv
  <1>3. Progress(s)'
    BY <1>1, <1>2 DEF Sound, Progress, Moves, Rest, Late, Up
  <1>4. Accounted(s)'
    BY <1>1, <1>2 DEF Sound, Accounted, Moves, Rest, Silent, Notices, Terminal, Kinds
  <1>5. Meant(s)'
    BY <1>1, <1>2 DEF Sound, Meant, Says, Moves, Rest, Silent, Kinds, Cancelled, Up
  <1>6. Kept(s)'
    BY <1>1, <1>2 DEF Sound, Progress, Kept, Says, Moves, Rest, Silent, Kinds, Created, Late
  <1>7. LastIsLast'
    BY <1>1 DEF LastIsLast, IInv
  <1>8. Grows(s)
    BY <1>1 DEF Grows
  <1>9. main # "shutdown"
    BY <1>1 DEF IInv, EndsEmpty
  <1> QED
    BY <1>1, <1>3, <1>4, <1>5, <1>6, <1>7, <1>8, <1>9, MoveKeeps DEF Sound

LEMMA ForwardKeeps ==
    ASSUME TypeOK, IInv, NEW s \in Services, Forward(s)
    PROVE  TypeOK' /\ IInv'
  <1> USE DEF Forward
  <1>1. events' \in Seq(Messages) /\ Len(events') <= Capacity /\ Tells("route", s)
    BY SendEffect DEF Kinds
  <1>2. TypeOK' /\ Moves(s) /\ worker' = worker /\ proc' = proc /\ route' = route
    BY <1>1 DEF TypeOK, Moves, Rest, loop, Capacity, Messages
  <1>3. Sound(s)
    BY DEF IInv
  <1>4. Progress(s)'
    BY <1>2, <1>3 DEF Sound, Progress, Moves, Rest, Late, Up
  <1>5. Accounted(s)'
    BY <1>1, <1>2, <1>3 DEF Sound, Accounted, Moves, Rest, Tells, Notices, Terminal, Kinds
  <1>6. Meant(s)'
    BY <1>1, <1>2, <1>3 DEF Sound, Meant, Says, Moves, Rest, Tells, Kinds, Cancelled, Up
  <1>7. Kept(s)'
    BY <1>1, <1>2, <1>3 DEF Sound, Kept, Says, Moves, Rest, Tells, Kinds, Created, Late
  <1>8. LastIsLast'
    BY SendKeepsLast DEF IInv, Notices, Kinds
  <1>9. Grows(s)
    BY <1>2 DEF Grows
  <1>10. route'[s] = route[s]
    BY <1>2
  <1> QED
    BY <1>1, <1>2, <1>4, <1>5, <1>6, <1>7, <1>8, <1>9, <1>10, MoveKeeps DEF Sound, Kinds

\* A worker ends, or goes on: every step of runService.
LEMMA WorkerKeeps ==
    ASSUME TypeOK, IInv, NEW s \in Services, RunService(s)
    PROVE  TypeOK' /\ IInv'
  <1>1. Sound(s) /\ "failed" \in Terminal /\ "success" \in Terminal
    BY DEF IInv, Terminal
  <1>2. ASSUME NEW kind \in Terminal, Finish(s, kind), worker[s] \notin {"idle", "done", "waiting"},
               kind = "stopped" => Cancelled,
               kind = "success" => worker[s] = "serving" /\ s \in plan.exits,
               worker[s] = "launched" => s \in plan.listens
        PROVE  TypeOK' /\ IInv'
    BY <1>2, EndKeeps DEF Finish, TypeOK
  <1>3. ASSUME Fail(s), worker[s] \notin {"idle", "done", "waiting", "launched"}
        PROVE  TypeOK' /\ IInv'
    <2>1. PICK kind \in Verdicts : Finish(s, kind)
      BY <1>3 DEF Fail
    <2>2. kind \in Terminal /\ kind # "success" /\ (kind = "stopped" => Cancelled)
      BY DEF Verdicts, Terminal
    <2> QED
      BY <1>2, <1>3, <2>1, <2>2
  <1>4. CASE LaunchFails(s)
    BY <1>4, <1>3 DEF LaunchFails
  <1>5. CASE Admit(s) \/ Launch(s)
    BY <1>5, ContinueKeeps, LaunchKeeps DEF Admit
  <1>6. CASE Resolve(s)
    BY <1>6, ContinueKeeps DEF Resolve
  <1>7. CASE ResolveFails(s)
    BY <1>1, <1>2, <1>7 DEF ResolveFails
  <1>8. CASE AwaitExit(s)
    BY <1>8, AwaitExitKeeps
  <1>9. CASE JudgeExit(s)
    BY <1>9, <1>3, ContinueKeeps DEF JudgeExit
  <1>10. CASE Probe(s)
    BY <1>10, ContinueKeeps DEF Probe
  <1>11. CASE ProbeFails(s)
    BY <1>11, <1>3 DEF ProbeFails
  <1>12. CASE Activate(s)
    BY <1>12, ActivateKeeps
  <1>13. CASE NothingToActivate(s)
    BY <1>13, ContinueKeeps DEF NothingToActivate
  <1>14. CASE ActivateFails(s)
    <2>1. /\ route' \in [Services -> {"none", "active", "unavailable", "failed", "released"}]
          /\ \A t \in Services \ {s} : route'[t] = route[t]
          /\ route'[s] = "failed" /\ s \in plan.required
      BY <1>14 DEF ActivateFails, TypeOK
    <2>2. PICK kind \in Verdicts : End(s, kind) /\ worker[s] = "activating"
      BY <1>14 DEF ActivateFails
    <2>3. kind \in Terminal /\ kind # "success" /\ (kind = "stopped" => Cancelled)
      BY DEF Verdicts, Terminal
    <2> QED
      BY <2>1, <2>2, <2>3, EndKeeps
  <1>15. CASE ReportReady(s)
    BY <1>15, ReportReadyKeeps
  <1>16. CASE Succeed(s)
    BY <1>1, <1>2, <1>16 DEF Succeed
  <1>17. CASE ServiceExits(s)
    BY <1>17, <1>3 DEF ServiceExits
  <1> QED
    BY <1>4, <1>5, <1>6, <1>7, <1>8, <1>9, <1>10, <1>11, <1>12, <1>13, <1>14, <1>15, <1>16,
       <1>17 DEF RunService

-----------------------------------------------------------------------------
(* What each step of Run does                                              *)

\* A step of Run that looks, and touches neither a service nor the queue.
LEMMA LookKeeps ==
    ASSUME IInv, EndsEmpty', Cancelled => Cancelled',
           UNCHANGED <<plan, states, active, registered, events, worker, proc, route>>
    PROVE  IInv'
  <1>1. Silent
    BY SilentIf
  <1>2. \A t \in Services : Same(t)
    BY <1>1 DEF Same, Silent
  <1>3. \A t \in Services : Sound(t)'
    BY <1>2, SoundStays DEF IInv
  <1>4. StartedOverUp' /\ LastIsLast'
    BY DEF IInv, StartedOverUp, LastIsLast, Up
  <1> QED
    BY <1>3, <1>4 DEF IInv

LEMMA LoopKeeps ==
    ASSUME TypeOK, IInv, Loop \/ HearInterrupt \/ Interrupt
    PROVE  TypeOK' /\ IInv'
  <1>1. TypeOK'
    BY DEF TypeOK, Loop, HearInterrupt, Interrupt, loop, Capacity
  <1>2. /\ UNCHANGED <<plan, states, active, registered, events, worker, proc, route>>
        /\ Cancelled => Cancelled'
    BY DEF Loop, HearInterrupt, Interrupt, loop, Cancelled
  <1>3. EndsEmpty'
    BY DEF Loop, HearInterrupt, Interrupt, loop, IInv, EndsEmpty, Ending
  <1> QED
    BY <1>1, <1>2, <1>3, LookKeeps

\* The service the pass has come to is blocked, or started.
Blocks(s) == /\ states' = [states EXCEPT ![s] = "blocked"]
             /\ UNCHANGED <<active, events, worker>>
Starts(s) == /\ Room
             /\ states' = [states EXCEPT ![s] = "starting"]
             /\ active' = active \cup {s}
             /\ events' = Append(events, Event("starting", s))
             /\ worker' = [worker EXCEPT ![s] = "starting"]

LEMMA ScheduleEffect ==
    ASSUME TypeOK, Schedule
    PROVE  \E s \in Services :
              /\ states[s] = "pending"
              /\ (DependencyFailed(s) /\ Blocks(s)) \/ (DependenciesReady(s) /\ Starts(s))
  <1> DEFINE first == CHOOSE k \in Eligible : \A j \in Eligible : k <= j
  <1>1. Eligible # {} /\ Eligible \in SUBSET Nat
    BY Positions DEF Schedule, Eligible
  <1>2. first \in Eligible
    BY <1>1, LeastOf
  <1> HIDE DEF first
  <1>3. PICK s : s = Order[first]
    OBVIOUS
  <1>4. s \in Services /\ states[s] = "pending" /\ (DependencyFailed(s) \/ DependenciesReady(s))
    BY <1>2, <1>3, Positions DEF Eligible
  <1>5. IF DependencyFailed(s) THEN Blocks(s) ELSE Starts(s)
    BY <1>3 DEF Schedule, first, Blocks, Starts
  <1> QED
    BY <1>4, <1>5

LEMMA ScheduleKeeps ==
    ASSUME TypeOK, IInv, Schedule
    PROVE  TypeOK' /\ IInv'
  <1>1. UNCHANGED <<plan, main, registered, primary, heard, outcome, proc, route, failing,
                    interrupted, ran, skipped>> /\ main = "schedule"
    BY DEF Schedule
  <1>2. PICK s \in Services :
              /\ states[s] = "pending"
              /\ (DependencyFailed(s) /\ Blocks(s)) \/ (DependenciesReady(s) /\ Starts(s))
    BY ScheduleEffect
  <1>4. plan.needs[s] \subseteq Services
    BY PlansAreSound DEF TypeOK, Plan
  <1>5. Sound(s) /\ worker[s] = "idle" /\ s \notin active /\ proc[s] = "none" /\ route[s] = "none"
        /\ \A kind \in Notices : ~Queued(kind, s)
    BY <1>2 DEF IInv, Sound, Progress, Accounted
  <1>6. EndsEmpty'
    BY <1>1 DEF IInv, EndsEmpty, Ending
  <1>7. CASE DependencyFailed(s) /\ Blocks(s)
    <2>1. TypeOK'
      BY <1>1, <1>7 DEF TypeOK, Blocks, Capacity
    <2>2. Cancelled
      BY <1>4, <1>7 DEF DependencyFailed, IInv, Sound, Meant, Says
    <2>3. Silent
      BY <1>7, SilentIf DEF Blocks
    <2>4. \A t \in Services \ {s} : Same(t)
      BY <1>1, <1>7, <2>3 DEF Same, Silent, Blocks, TypeOK, Cancelled
    <2>5. states'[s] = "blocked" /\ worker'[s] = "idle"
      BY <1>5, <1>7 DEF Blocks, TypeOK
    <2>6. Progress(s)'
      BY <1>1, <1>5, <2>5 DEF Sound, Progress, Late
    <2>7. Accounted(s)'
      BY <1>1, <1>5, <1>7, <2>3, <2>5 DEF Accounted, Silent, Notices, Terminal, Kinds, Blocks
    <2>8. Meant(s)' /\ Kept(s)'
      BY <1>1, <1>5, <2>2, <2>3, <2>5
      DEF Sound, Meant, Kept, Says, Silent, Kinds, Notices, Cancelled, Created, Late
    <2>9. StartedOverUp' /\ LastIsLast'
      BY <1>1, <1>7 DEF IInv, StartedOverUp, LastIsLast, Up, Blocks
    <2> QED
      BY <1>6, <2>1, <2>4, <2>6, <2>7, <2>8, <2>9, SoundStays DEF IInv, Sound
  <1>8. CASE DependenciesReady(s) /\ Starts(s)
    <2>1. events' \in Seq(Messages) /\ Len(events') <= Capacity /\ Tells("starting", s)
      BY <1>8, SendEffect DEF Starts, Kinds
    <2>2. TypeOK'
      BY <1>1, <1>8, <2>1 DEF TypeOK, Starts, Messages, Capacity
    <2>3. \A t \in Services \ {s} : Same(t)
      BY <1>1, <1>8, <2>1 DEF Same, Tells, Starts, TypeOK, Cancelled
    <2>4. states'[s] = "starting" /\ worker'[s] = "starting" /\ s \in active'
      BY <1>8 DEF Starts, TypeOK
    <2>5. Progress(s)'
      BY <1>1, <1>5, <2>4 DEF Progress, Late
    <2>6. Accounted(s)'
      BY <1>5, <2>1, <2>4 DEF Accounted, Tells, Notices, Terminal, Kinds
    <2>7. Meant(s)' /\ Kept(s)'
      BY <1>1, <1>5, <2>1, <2>4
      DEF Sound, Meant, Kept, Says, Tells, Kinds, Notices, Cancelled, Created, Late
    <2>8. \A d \in plan.needs[s] : Up(d)
      BY <1>4, <1>8 DEF DependenciesReady, IInv, Sound, Meant, Says
    <2>9. StartedOverUp'
      BY <1>1, <1>8, <2>8 DEF IInv, StartedOverUp, Up, Starts, TypeOK
    <2>10. LastIsLast'
      BY <1>5, <1>8, SendKeepsLast DEF IInv, Starts, Kinds, Terminal, Notices
    <2> QED
      BY <1>6, <2>2, <2>3, <2>5, <2>6, <2>7, <2>9, <2>10, SoundStays DEF IInv, Sound
  <1> QED
    BY <1>2, <1>7, <1>8

\* Run decides that it is done, or that it waits. That it is done without an
\* error means that every service has succeeded and nothing is registered.
LEMMA DecideKeeps ==
    ASSUME TypeOK, IInv, Decide
    PROVE  TypeOK' /\ IInv'
  <1>1. UNCHANGED <<plan, active, registered, primary, heard, events, worker, proc, route,
                    failing, interrupted, ran, skipped>> /\ main \in {"loop", "schedule"}
    BY DEF Decide
  <1>2. ~Ending /\ outcome = "none" /\ skipped = {}
    BY <1>1 DEF IInv, EndsEmpty, Ending
  <1>3. CASE /\ active = {} /\ Cancelled
             /\ main' = "release"
             /\ outcome' = IF primary THEN "failed" ELSE "stopped"
             /\ states' = IF primary
                          THEN [s \in Services |-> IF states[s] = "pending" THEN "blocked"
                                                   ELSE states[s]]
                          ELSE states
    <2>1. TypeOK'
      BY <1>1, <1>3 DEF TypeOK, Capacity
    <2>2. EndsEmpty'
      BY <1>1, <1>2, <1>3 DEF EndsEmpty, Ending
    <2>3. \A s \in Services : Sound(s)'
      <3>1. SUFFICES ASSUME NEW s \in Services PROVE Sound(s)'
        OBVIOUS
      <3>2. Sound(s) /\ Silent /\ (Cancelled => Cancelled')
        BY <1>1, SilentIf DEF IInv, Cancelled
      <3>3. CASE states'[s] = states[s]
        BY <1>1, <3>2, <3>3, SoundStays DEF Same, Silent
      <3>4. CASE states[s] = "pending" /\ states'[s] = "blocked"
        <4>1. worker[s] = "idle" /\ s \notin active
          BY <3>2, <3>4 DEF Sound, Progress, Accounted
        <4>2. Progress(s)'
          BY <1>1, <3>2, <3>4, <4>1 DEF Sound, Progress, Up
        <4>3. Accounted(s)'
          BY <1>1, <3>2, <4>1 DEF Sound, Accounted, Silent, Notices, Terminal, Kinds
        <4>4. Meant(s)' /\ Kept(s)'
          BY <1>1, <1>3, <3>2, <3>4, <4>1
          DEF Sound, Meant, Kept, Says, Silent, Kinds, Cancelled, Created, Late, Up
        <4> QED
          BY <4>2, <4>3, <4>4 DEF Sound
      <3> QED
        BY <1>3, <3>3, <3>4
    <2>4. StartedOverUp' /\ LastIsLast'
      BY <1>1 DEF IInv, StartedOverUp, LastIsLast, Up
    <2> QED
      BY <2>1, <2>2, <2>3, <2>4 DEF IInv
  <1>4. CASE Complete /\ main' = "ended" /\ outcome' = "ok" /\ UNCHANGED states
    <2>1. TypeOK'
      BY <1>1, <1>4 DEF TypeOK, Capacity
    <2>2. \A s \in Services : states[s] = "success"
      <3>1. \A s \in Services : states[s] \in {"success", "failed", "stopped", "blocked"}
        BY <1>4 DEF Complete, Settled, TypeOK, Terminal
      <3>2. ~Cancelled
        BY <1>4 DEF Complete, Settled, Cancelled
      <3> QED
        BY <3>1, <3>2 DEF IInv, Sound, Meant, Says
    <2>3. \A s \in Services : route[s] # "active"
      BY <1>4 DEF Complete, RoutesActive
    <2>4. EndsEmpty'
      BY <1>1, <1>2, <1>4, <2>2, <2>3 DEF EndsEmpty, Ending, Complete, Settled
    <2> QED
      BY <1>1, <1>4, <2>1, <2>4, LookKeeps DEF Cancelled
  <1>5. CASE main' = "select" /\ UNCHANGED <<states, outcome>>
    <2>1. TypeOK'
      BY <1>1, <1>5 DEF TypeOK, Capacity
    <2>2. EndsEmpty'
      BY <1>1, <1>2, <1>5 DEF EndsEmpty, Ending
    <2> QED
      BY <1>1, <1>5, <2>1, <2>2, LookKeeps DEF Cancelled
  <1> QED
    BY <1>3, <1>4, <1>5 DEF Decide

\* Run reads an event: what was queued it now knows.
LEMMA ConsumeKeeps ==
    ASSUME TypeOK, IInv, Consume
    PROVE  TypeOK' /\ IInv'
  <1>1. /\ UNCHANGED <<plan, heard, outcome, worker, proc, route, failing, interrupted, ran,
                       skipped>>
        /\ main = "select" /\ main' = "loop" /\ events # <<>> /\ events' = Tail(events)
    BY DEF Consume
  <1>2. events' \in Seq(Messages) /\ Len(events') <= Capacity /\ LastIsLast'
    BY <1>1, TakeEffect DEF IInv
  <1>3. PICK kind \in Kinds, s \in Services :
            /\ Head(events) = Event(kind, s) /\ Queued(kind, s)
            /\ \A k \in Kinds, t \in Services :
                  /\ Queued(k, t)' => Queued(k, t)
                  /\ Queued(k, t) => Queued(k, t)' \/ (k = kind /\ t = s)
            /\ LastIsLast /\ kind \in Terminal => \A k \in Notices : ~Queued(k, s)'
    BY <1>1, TakeEffect
  <1>4. /\ registered' = IF kind = "shutdown" THEN registered \cup {s} ELSE registered
        /\ active' = IF kind \in Terminal THEN active \ {s} ELSE active
        /\ states' = IF kind \in Terminal \cup {"ready"}
                     THEN [states EXCEPT ![s] = kind] ELSE states
        /\ primary' \in BOOLEAN /\ (primary => primary')
        /\ kind = "failed" => Cancelled \/ primary'
    <2>1. PICK e : e = Head(events) /\ e.kind = kind /\ e.service = s
      BY <1>3 DEF Event
    <2>2. /\ registered' = IF kind = "shutdown" THEN registered \cup {s} ELSE registered
          /\ active' = IF kind \in Terminal THEN active \ {s} ELSE active
      BY <2>1 DEF Consume
    <2>3. states' = IF kind \in Terminal \cup {"ready"}
                    THEN [states EXCEPT ![s] = kind] ELSE states
      BY <2>1 DEF Consume, StatesAfter
    <2>4. primary' = (primary \/ IsPrimary(e))
      BY <2>1 DEF Consume
    <2>5. IsPrimary(e) \in BOOLEAN /\ (kind = "failed" => Cancelled \/ IsPrimary(e))
      BY <2>1 DEF IsPrimary
    <2>6. /\ primary' \in BOOLEAN /\ (primary => primary')
          /\ kind = "failed" => Cancelled \/ primary'
      BY <2>4, <2>5 DEF TypeOK
    <2> QED
      BY <2>2, <2>3, <2>6
  <1>5. TypeOK'
    BY <1>1, <1>2, <1>4 DEF TypeOK, Messages, Capacity, Terminal
  <1>6. Cancelled => Cancelled'
    BY <1>1, <1>4 DEF Cancelled
  <1>7. \A t \in Services \ {s} : Same(t)
    BY <1>1, <1>3, <1>4, <1>6 DEF Same, TypeOK
  <1>8. Sound(s) /\ \A k \in Notices : ~Queued(k, s)' \/ Queued(k, s)
    BY <1>3 DEF IInv, Notices
  <1>9. /\ kind \in Notices => worker[s] # "idle"
        /\ kind \in Terminal => worker[s] = "done" /\ kind \in Notices
                                /\ \A k \in Notices : ~Queued(k, s)'
    BY <1>3, <1>8 DEF IInv, Sound, Accounted, Notices, Terminal, Kinds
  <1>10. states'[s] = IF kind \in Terminal \cup {"ready"} THEN kind ELSE states[s]
    BY <1>4 DEF TypeOK
  <1>11. Progress(s)'
    BY <1>1, <1>8, <1>9, <1>10 DEF Sound, Progress, Up, Notices, Terminal, Kinds
  <1>12. Accounted(s)'
    BY <1>1, <1>3, <1>4, <1>8, <1>9 DEF Sound, Accounted, Notices, Terminal, Kinds
  <1>13. \A k \in {"ready", "success", "stopped"} : Says(k, s)' => Says(k, s)
    BY <1>3, <1>10 DEF Says, Terminal, Kinds
  <1>14. Says("success", s) => worker[s] = "done" /\ s \in plan.exits
    BY <1>8 DEF Sound, Meant
  <1>15. Meant(s)'
    <2>1. Up(s) => Up(s)'
      BY <1>1 DEF Up
    <2>2. states'[s] = "failed" => Cancelled'
      BY <1>4, <1>6, <1>8, <1>10 DEF Sound, Meant, Cancelled
    <2>3. states'[s] = "blocked" => Cancelled'
      BY <1>3, <1>6, <1>8, <1>10 DEF Sound, Meant, Terminal
    <2> QED
      BY <1>1, <1>6, <1>8, <1>13, <2>1, <2>2, <2>3 DEF Sound, Meant
  <1>16. Kept(s)'
    <2>1. s \in registered' \/ Queued("shutdown", s)'
          <=> s \in registered \/ Queued("shutdown", s)
      BY <1>3, <1>4 DEF Kinds
    <2> QED
      BY <1>1, <1>8, <1>13, <2>1 DEF Sound, Kept, Created
  <1>17. StartedOverUp'
    BY <1>1 DEF IInv, StartedOverUp, Up
  <1>18. EndsEmpty'
    BY <1>1 DEF IInv, EndsEmpty, Ending
  <1> QED
    BY <1>2, <1>5, <1>7, <1>11, <1>12, <1>15, <1>16, <1>17, <1>18, SoundStays DEF IInv, Sound

LEMMA ReleaseRoutesKeeps ==
    ASSUME TypeOK, IInv, ReleaseRoutes
    PROVE  TypeOK' /\ IInv'
  <1>1. /\ UNCHANGED <<plan, states, active, registered, primary, heard, events, worker, proc,
                       failing, interrupted, ran, skipped>>
        /\ main = "release" /\ main' = "shutdown"
        /\ \A s \in Services : route'[s] = IF route[s] = "none" THEN "none" ELSE "released"
        /\ outcome' \in {outcome, "failed"}
    BY DEF ReleaseRoutes
  <1>2. TypeOK'
    BY DEF ReleaseRoutes, TypeOK, Capacity
  <1>3. EndsEmpty'
    BY <1>1 DEF IInv, EndsEmpty, Ending
  <1>4. Silent /\ (Cancelled => Cancelled')
    BY <1>1, SilentIf DEF Cancelled
  <1>5. \A s \in Services : Up(s)' <=> Up(s)
    BY <1>1 DEF Up
  <1>6. ASSUME NEW s \in Services PROVE Sound(s)'
    <2>1. Sound(s)
      BY DEF IInv
    <2>2. Progress(s)'
      BY <1>1, <1>5, <2>1 DEF Sound, Progress
    <2>3. Accounted(s)'
      BY <1>1, <1>4, <2>1 DEF Sound, Accounted, Silent, Notices, Terminal, Kinds
    <2>4. Meant(s)'
      BY <1>1, <1>4, <1>5, <2>1 DEF Sound, Meant, Says, Silent, Kinds
    <2>5. Kept(s)'
      BY <1>1, <1>4, <2>1 DEF Sound, Kept, Says, Created, Silent, Kinds
    <2> QED
      BY <2>2, <2>3, <2>4, <2>5 DEF Sound
  <1>7. StartedOverUp'
    <2>1. plan.needs \in [Services -> SUBSET Services]
      BY PlansAreSound DEF TypeOK, Plan
    <2> QED
      BY <1>1, <1>5, <2>1 DEF IInv, StartedOverUp
  <1>8. LastIsLast'
    BY <1>1 DEF IInv, LastIsLast
  <1> QED
    BY <1>2, <1>3, <1>6, <1>7, <1>8 DEF IInv

\* The service whose shutdown command has its turn is the last, in the plan's
\* order, of the registered ones that did not have theirs.
LastUnhandled(k) == /\ k \in DOMAIN Order /\ Order[k] \in registered \ Handled
                    /\ \A j \in DOMAIN Order : Order[j] \in registered \ Handled => j <= k

LEMMA ShutdownEffect ==
    ASSUME TypeOK, IInv, RunShutdown
    PROVE  \/ \E k \in DOMAIN Order :
                 /\ LastUnhandled(k) /\ main' = main
                 /\ \/ /\ ran' = Append(ran, Order[k])
                       /\ outcome' \in {outcome, "failed"} /\ skipped' = skipped
                    \/ /\ skipped' = skipped \cup {Order[k]}
                       /\ outcome' = "failed" /\ ran' = ran
           \/ /\ main' = "ended" /\ UNCHANGED <<ran, skipped, outcome>>
              /\ registered \subseteq Handled
  <1>1. Unhandled \in SUBSET (1..Len(Order)) /\ Len(Order) \in Nat
    BY Positions DEF Unhandled
  <1>2. CASE Unhandled # {}
    <2>1. \E k \in Unhandled : \A j \in Unhandled : j <= k
      BY <1>1, <1>2, GreatestOf
    <2>2. NextToStop(Unhandled) \in Unhandled
          /\ \A j \in Unhandled : j <= NextToStop(Unhandled)
      BY <2>1 DEF NextToStop
    <2>3. PICK k : k = NextToStop(Unhandled)
      OBVIOUS
    <2>4. LastUnhandled(k)
      BY <2>2, <2>3 DEF LastUnhandled, Unhandled
    <2>5. /\ main' = main
          /\ \/ /\ ran' = Append(ran, Order[k])
                /\ outcome' \in {outcome, "failed"} /\ skipped' = skipped
             \/ /\ skipped' = skipped \cup {Order[k]}
                /\ outcome' = "failed" /\ ran' = ran
      BY <1>2, <2>3 DEF RunShutdown
    <2> QED
      BY <2>4, <2>5 DEF LastUnhandled
  <1>3. CASE Unhandled = {}
    <2>1. main' = "ended" /\ UNCHANGED <<ran, skipped, outcome>>
      BY <1>3 DEF RunShutdown
    <2>2. registered \subseteq Handled
      BY <1>3, OrderIsComplete DEF TypeOK, Unhandled
    <2> QED
      BY <2>1, <2>2
  <1> QED
    BY <1>2, <1>3

\* The last registered service in the plan's order is needed by none of the others.
LEMMA DependentsFirst ==
    ASSUME TypeOK, NEW k, LastUnhandled(k)
    PROVE  \A t \in registered : Order[k] \in plan.needs[t] => t \in Handled
  <1> USE DEF LastUnhandled
  <1> SUFFICES ASSUME NEW t \in registered, Order[k] \in plan.needs[t], t \notin Handled
               PROVE  FALSE
    OBVIOUS
  <1>1. PICK i \in DOMAIN Order : Order[i] = t
    BY OrderIsComplete DEF TypeOK
  <1>2. PICK j \in 1..(i - 1) : Order[j] = Order[k]
    BY <1>1, PlansAreSound DEF TypeOK
  <1>3. i <= k
    BY <1>1
  <1>4. j = k
    BY <1>1, <1>2, Positions, OrderIsStrict
  <1> QED
    BY <1>1, <1>2, <1>3, <1>4, Positions

LEMMA RunShutdownKeeps ==
    ASSUME TypeOK, IInv, RunShutdown
    PROVE  TypeOK' /\ IInv'
  <1>1. /\ UNCHANGED <<plan, states, active, registered, primary, heard, events, worker, proc,
                       route, failing, interrupted>>
        /\ main = "shutdown"
    BY DEF RunShutdown
  <1>2. \/ \E k \in DOMAIN Order :
              /\ LastUnhandled(k) /\ main' = main
              /\ \/ /\ ran' = Append(ran, Order[k])
                    /\ outcome' \in {outcome, "failed"} /\ skipped' = skipped
                 \/ /\ skipped' = skipped \cup {Order[k]}
                    /\ outcome' = "failed" /\ ran' = ran
        \/ /\ main' = "ended" /\ UNCHANGED <<ran, skipped, outcome>>
           /\ registered \subseteq Handled
    BY ShutdownEffect
  <1>3. TypeOK'
    <2>1. ran' \in Seq(Services)
      <3>1. ran \in Seq(Services)
        BY <1>1 DEF TypeOK
      <3>2. \A k \in DOMAIN Order : Append(ran, Order[k]) \in Seq(Services)
        BY <3>1, Positions, AppendProperties
      <3> QED
        BY <1>2, <3>1, <3>2
    <2>2. skipped' \subseteq Services
      BY <1>2, Positions DEF TypeOK
    <2>3. main' \in {"shutdown", "ended"} /\ outcome' \in {outcome, "failed"}
      BY <1>1, <1>2
    <2> QED
      BY <1>1, <2>1, <2>2, <2>3 DEF TypeOK, Capacity
  <1>4. EndsEmpty'
    <2>1. CASE main' = main
      BY <1>1, <1>2, <2>1 DEF IInv, EndsEmpty, Ending
    <2>2. CASE main' = "ended" /\ UNCHANGED <<ran, skipped, outcome>>
                /\ registered \subseteq Handled
      BY <1>1, <2>2 DEF IInv, EndsEmpty, Ending, Handled
    <2> QED
      BY <1>2, <2>1, <2>2
  <1> QED
    BY <1>1, <1>3, <1>4, LookKeeps DEF Cancelled

-----------------------------------------------------------------------------
(* The invariant                                                           *)

LEMMA InitSound == Init => TypeOK /\ IInv
  <1> SUFFICES ASSUME Init PROVE TypeOK /\ IInv
    OBVIOUS
  <1>1. events = <<>> /\ DOMAIN events = {} /\ ran = <<>> /\ skipped = {}
    BY DEF Init
  <1>2. TypeOK
    <2>1. Len(events) <= Capacity /\ events \in Seq([kind : Kinds, service : Services])
      BY <1>1, Positions, EmptySeq DEF Capacity
    <2> QED
      BY <1>1, <2>1, EmptySeq DEF Init, TypeOK
  <1>3. \A kind, s : ~Queued(kind, s)
    BY <1>1 DEF Queued, Range
  <1>4. \A s \in Services : Sound(s)
    BY <1>3 DEF Init, Sound, Progress, Accounted, Meant, Kept, Says, Created, Late
  <1>5. StartedOverUp /\ LastIsLast /\ EndsEmpty
    BY <1>1 DEF Init, StartedOverUp, LastIsLast, EndsEmpty, Ending
  <1> QED
    BY <1>2, <1>4, <1>5 DEF IInv

LEMMA StepSound == TypeOK /\ IInv /\ [Next]_vars => TypeOK' /\ IInv'
  <1> SUFFICES ASSUME TypeOK, IInv, [Next]_vars PROVE TypeOK' /\ IInv'
    OBVIOUS
  <1>1. CASE UNCHANGED vars
    <2>1. TypeOK'
      BY <1>1 DEF vars, loop, TypeOK, Capacity
    <2>2. EndsEmpty'
      BY <1>1 DEF vars, loop, IInv, EndsEmpty, Ending, Handled
    <2> QED
      BY <1>1, <2>1, <2>2, LookKeeps DEF vars, loop, Cancelled
  <1>2. CASE Run
    BY <1>2, LoopKeeps, ScheduleKeeps, DecideKeeps, ConsumeKeeps, ReleaseRoutesKeeps,
       RunShutdownKeeps DEF Run
  <1>3. ASSUME NEW s \in Services, RunService(s) \/ Exit(s) \/ RouteFails(s) \/ Forward(s)
        PROVE  TypeOK' /\ IInv'
    BY <1>3, WorkerKeeps, ExitKeeps, RouteFailsKeeps, ForwardKeeps
  <1>4. CASE Interrupt
    BY <1>4, LoopKeeps
  <1> QED
    BY <1>1, <1>2, <1>3, <1>4 DEF Next, Returned

\* Every variable has its type, and what Run has been told, or will be, of a
\* service is what its worker has done.
THEOREM SupervisorInvariant == Spec => [](TypeOK /\ IInv)
  BY InitSound, StepSound, PTL DEF Spec

-----------------------------------------------------------------------------
(* The properties                                                          *)

\* StartsOverDependencies: Run starts a process only over dependencies that are
\* up (dependenciesReady in supervisor.go), whatever its queue still holds.
THEOREM StartsAreOverDependencies == Spec => []StartsOverDependencies
  <1>1. TypeOK /\ IInv => StartsOverDependencies
    BY DEF IInv, Sound, Progress, StartedOverUp, StartsOverDependencies, Up
  <1> QED
    BY <1>1, SupervisorInvariant, PTL

\* NothingOutlivesRun: when Run has returned, no process it started is alive and
\* no route is kept alive; and that it returns without an error means that
\* every service has succeeded.
THEOREM RunLeavesNothing == Spec => []NothingOutlivesRun
  <1>1. TypeOK /\ IInv => NothingOutlivesRun
    <2> SUFFICES ASSUME TypeOK, IInv PROVE NothingOutlivesRun
      OBVIOUS
    <2>1. ASSUME main = "ended", NEW s \in Services
          PROVE  proc[s] # "alive" /\ worker[s] \in {"idle", "done"} /\ route[s] # "active"
      <3>1. s \notin active /\ route[s] # "active"
        BY <2>1 DEF IInv, EndsEmpty, Ending
      <3> QED
        BY <3>1 DEF IInv, Sound, Progress, Accounted
    <2>2. ASSUME outcome = "ok"
          PROVE  /\ \A s \in Services : states[s] = "success" /\ proc[s] = "ok"
                 /\ plan.resources \cap plan.exits = {}
      <3>1. registered = {} /\ active = {} /\ \A s \in Services : states[s] = "success"
        BY <2>2 DEF IInv, EndsEmpty, Ending
      <3>2. ASSUME NEW s \in Services PROVE proc[s] = "ok" /\ s \notin plan.resources
        <4>1. Says("success", s) /\ Sound(s) /\ s \notin registered /\ ~Queued("shutdown", s)
          BY <3>1 DEF Says, IInv, Sound, Accounted, Notices, Kinds
        <4>2. worker[s] = "done" /\ proc[s] = "ok" /\ s \in plan.exits
          BY <4>1 DEF Sound, Meant, Up
        <4> QED
          BY <4>1, <4>2 DEF Sound, Kept, Created
      <3>3. plan.exits \subseteq Services
        BY PlansAreSound DEF TypeOK, Plan
      <3> QED
        BY <3>1, <3>2, <3>3
    <2> QED
      BY <2>1, <2>2 DEF NothingOutlivesRun
  <1> QED
    BY <1>1, SupervisorInvariant, PTL

\* CreatedIsStoppedOrReported: whatever the start command of a service without a
\* listener has created has its turn to be stopped, even when readiness, the route
\* or the session fails later, and Run does not keep it from its caller if the
\* command that would have stopped it could not be started.
THEOREM CreatedAreStoppedOrReported == Spec => []CreatedIsStoppedOrReported
  <1>1. TypeOK /\ IInv => CreatedIsStoppedOrReported
    <2> SUFFICES ASSUME TypeOK, IInv, main = "ended", NEW s \in Services, s \notin plan.listens,
                        Created(s)
                 PROVE  s \in ToSet(ran) \/ (s \in skipped /\ outcome = "failed")
      BY DEF CreatedIsStoppedOrReported
    <2>1. active = {} /\ registered \subseteq Handled /\ (skipped # {} => outcome = "failed")
      BY DEF IInv, EndsEmpty, Ending
    <2>2. Sound(s) /\ ~Queued("shutdown", s) /\ worker[s] \in {"idle", "done"}
      BY <2>1 DEF IInv, Sound, Accounted, Notices, Kinds
    <2>3. worker[s] = "done"
      BY <2>2 DEF Sound, Progress, Created
    <2>4. s \in Handled
      BY <2>1, <2>2, <2>3 DEF Sound, Kept
    <2> QED
      BY <2>1, <2>4 DEF Handled
  <1> QED
    BY <1>1, SupervisorInvariant, PTL

\* ShutdownIsLast: a shutdown command starts when no process is alive and no
\* route is held, after those of its dependents, for what did succeed.
THEOREM ShutdownsAreLast == Spec => ShutdownIsLast
  <1>1. ASSUME TypeOK, IInv, [Next]_vars, ran' # ran
        PROVE  /\ \A s \in Services : proc[s] # "alive" /\ route[s] \in {"none", "released"}
               /\ LET s == Last(ran') IN
                  /\ Created(s) /\ s \notin Handled
                  /\ \A t \in registered : s \in plan.needs[t] => t \in Handled
    <2>1. RunShutdown
      BY <1>1 DEF Next, vars, loop, Run, Loop, Schedule, Decide, HearInterrupt, Consume,
                  ReleaseRoutes, RunService, Admit, Launch, LaunchFails, Resolve,
                  ResolveFails, AwaitExit, JudgeExit, Probe, ProbeFails, Activate,
                  NothingToActivate, ActivateFails, ReportReady, Succeed, ServiceExits,
                  Finish, Fail, End, Continue,
                  Exit, RouteFails, Forward, Interrupt, Returned
    <2>2. active = {} /\ \A s \in Services : route[s] \in {"none", "released"}
      BY <1>1, <2>1 DEF RunShutdown, IInv, EndsEmpty, Ending
    <2>3. \A s \in Services : proc[s] # "alive"
      BY <1>1, <2>2 DEF IInv, Sound, Accounted, Progress
    <2>4. PICK k \in DOMAIN Order : LastUnhandled(k) /\ ran' = Append(ran, Order[k])
      BY <1>1, <2>1, ShutdownEffect
    <2>5. Last(ran') = Order[k]
      BY <1>1, <2>4, Positions, AppendProperties, LenProperties DEF Last, TypeOK
    <2>6. Created(Order[k]) /\ Order[k] \notin Handled
      BY <1>1, <2>4, Positions DEF IInv, Sound, Kept, LastUnhandled
    <2>7. \A t \in registered : Order[k] \in plan.needs[t] => t \in Handled
      BY <1>1, <2>4, DependentsFirst
    <2> QED
      BY <2>2, <2>3, <2>4, <2>5, <2>6, <2>7
  <1> QED
    BY <1>1, SupervisorInvariant, PTL DEF Spec, ShutdownIsLast

-----------------------------------------------------------------------------
(* What the session is promised                                            *)

(* How Run comes to its end: what it returns is settled before the         *)
(* cleanup, and a service is shut down after whatever needs it.            *)
Closing ==
    /\ Handled # {} => main \in {"shutdown", "ended"}
    /\ \A t \in registered : plan.needs[t] \cap Handled # {} => t \in Handled
    /\ Ending => outcome # "none"
    /\ outcome = "stopped" => interrupted

\* Everything a step of a worker, a process, a route or the user leaves alone.
Aside == <<plan, main, registered, outcome, ran, skipped>>

LEMMA OthersStandAside ==
    ASSUME NEW s \in Services, RunService(s) \/ Exit(s) \/ RouteFails(s) \/ Forward(s)
    PROVE  UNCHANGED <<Aside, interrupted>>
  BY DEF RunService, Admit, Launch, LaunchFails, Resolve, ResolveFails, AwaitExit, JudgeExit,
         Probe, ProbeFails, Activate, NothingToActivate, ActivateFails, ReportReady, Succeed,
         ServiceExits, Finish, Fail, End, Continue, Exit, RouteFails, Forward, loop, Aside

LEMMA SetOfNone == ToSet(<<>>) = {}
  BY DEF ToSet

LEMMA SameHandled ==
    ASSUME ran' = ran, skipped' = skipped
    PROVE  Handled' = Handled
  BY DEF Handled

LEMMA SetOfAppend ==
    ASSUME NEW S, NEW q \in Seq(S), NEW e \in S
    PROVE  /\ ToSet(Append(q, e)) = ToSet(q) \cup {e}
           /\ Append(q, e) # <<>>
  <1>1. Append(q, e) \in Seq(S) /\ Len(Append(q, e)) = Len(q) + 1 /\ Len(q) \in Nat
    BY AppendProperties, LenProperties
  <1>2. DOMAIN Append(q, e) = 1..Len(Append(q, e)) /\ DOMAIN q = 1..Len(q)
    BY <1>1, LenProperties
  <1>3. ToSet(Append(q, e)) = Range(Append(q, e)) /\ ToSet(q) = Range(q)
    BY <1>2 DEF ToSet, Range
  <1> QED
    BY <1>1, <1>3, RangeAppend, EmptySeq

\* The turn of one more service, or the end.
LEMMA ShutdownHandles ==
    ASSUME TypeOK, IInv, RunShutdown
    PROVE  \/ \E k \in DOMAIN Order :
                 LastUnhandled(k) /\ main' = main /\ Handled' = Handled \cup {Order[k]}
           \/ main' = "ended" /\ Handled' = Handled /\ registered \subseteq Handled
  <1>1. ASSUME NEW k \in DOMAIN Order, ran' = Append(ran, Order[k]), skipped' = skipped
        PROVE  Handled' = Handled \cup {Order[k]}
    <2>1. ToSet(ran') = ToSet(ran) \cup {Order[k]}
      BY <1>1, Positions, SetOfAppend DEF TypeOK
    <2> QED
      BY <1>1, <2>1 DEF Handled
  <1>2. ASSUME NEW k \in DOMAIN Order, skipped' = skipped \cup {Order[k]}, ran' = ran
        PROVE  Handled' = Handled \cup {Order[k]}
    BY <1>2 DEF Handled
  <1> QED
    BY <1>1, <1>2, ShutdownEffect, SameHandled

LEMMA StepCloses ==
    ASSUME TypeOK, IInv, Closing, [Next]_vars
    PROVE  Closing'
  <1>1. ASSUME UNCHANGED Aside, interrupted => interrupted' PROVE Closing'
    BY <1>1, SameHandled DEF Aside, Closing, Ending
  <1>2. CASE Loop \/ HearInterrupt
    BY <1>2, SameHandled DEF Loop, HearInterrupt, Closing, Ending
  <1>3. CASE Schedule
    BY <1>1, <1>3 DEF Schedule, Aside
  <1>4. CASE Decide
    <2>1. /\ registered' = registered /\ plan' = plan /\ interrupted' = interrupted
          /\ Handled' = Handled
      BY <1>4, SameHandled DEF Decide
    <2>2. Handled = {}
      BY <1>4 DEF Decide, Closing
    <2>3. \/ main' = "release" /\ outcome' \in {"failed", "stopped"}
          \/ main' = "ended" /\ outcome' = "ok"
          \/ main' = "select" /\ outcome' = outcome
      BY <1>4 DEF Decide
    <2>4. outcome' = "stopped" => interrupted'
      BY <1>4, <2>1, <2>3 DEF Decide, Cancelled, Closing
    <2> QED
      BY <2>1, <2>2, <2>3, <2>4 DEF Closing, Ending
  <1>5. CASE Consume
    <2>1. Handled = {} /\ main' = "loop" /\ Handled' = Handled
      BY <1>5, SameHandled DEF Consume, Closing
    <2> QED
      BY <1>5, <2>1 DEF Consume, Closing, Ending
  <1>6. CASE ReleaseRoutes
    BY <1>6, SameHandled DEF ReleaseRoutes, Closing, Ending
  <1>7. CASE RunShutdown
    <2>1. /\ main = "shutdown" /\ main' \in {"shutdown", "ended"}
          /\ registered' = registered /\ plan' = plan /\ interrupted' = interrupted
          /\ outcome' \in {outcome, "failed"}
      BY <1>7 DEF RunShutdown
    <2>2. \A t \in registered : plan.needs[t] \cap Handled' # {} => t \in Handled'
      <3>1. CASE Handled' = Handled
        BY <3>1 DEF Closing
      <3>2. CASE \E k \in DOMAIN Order : LastUnhandled(k) /\ Handled' = Handled \cup {Order[k]}
        BY <3>2, DependentsFirst DEF Closing
      <3> QED
        BY <1>7, <3>1, <3>2, ShutdownHandles
    <2> QED
      BY <2>1, <2>2 DEF Closing, Ending
  <1>8. ASSUME NEW s \in Services, RunService(s) \/ Exit(s) \/ RouteFails(s) \/ Forward(s)
        PROVE  Closing'
    BY <1>1, <1>8, OthersStandAside
  <1>9. CASE Interrupt
    BY <1>1, <1>9 DEF Interrupt, loop, Aside
  <1>10. CASE Returned \/ UNCHANGED vars
    BY <1>1, <1>10 DEF Returned, vars, loop, Aside
  <1> QED
    BY <1>2, <1>3, <1>4, <1>5, <1>6, <1>7, <1>8, <1>9, <1>10 DEF Next, Run

-----------------------------------------------------------------------------
(* The steps, as the session sees them                                     *)

PromiseVars == <<plan.needs, Phase, Admitted, Begun, Running, registered, ToSet(ran), skipped,
                 interrupted, Result>>

\* A step that leaves alone what the session sees.
LEMMA Unseen ==
    ASSUME plan' = plan, proc' = proc, Admitted' = Admitted, registered' = registered,
           ran' = ran, skipped' = skipped, interrupted' = interrupted,
           \/ main' = main /\ outcome' = outcome
           \/ ~Ending /\ ~Ending'
           \/ main = "release" /\ main' = "shutdown"
    PROVE  UNCHANGED PromiseVars
  BY DEF PromiseVars, Phase, Begun, Running, Result, Ending

LEMMA NobodyRuns ==
    ASSUME TypeOK, IInv, active = {}
    PROVE  Running = {} /\ Admitted = {}
  BY DEF IInv, Sound, Accounted, Progress, Running, Admitted

\* While a worker is at work Run is, and sees its steps as the session does.
LEMMA WorkIsOpen ==
    ASSUME IInv, NEW s \in Services, worker[s] \notin {"idle", "done"},
           UNCHANGED <<Aside, interrupted>>
    PROVE  Phase = "open" /\ Phase' = Phase /\ Result' = Result
  <1>1. s \in active
    BY DEF IInv, Sound, Accounted
  <1> QED
    BY <1>1 DEF IInv, EndsEmpty, Ending, Phase, Result, Aside

\* That a service will start is decided before a cancellation ...
LEMMA AdmitIsAdmit ==
    ASSUME TypeOK, IInv, NEW s \in Services, Admit(s)
    PROVE  Promise!Admit(s)
  <1>1. /\ worker[s] = "starting" /\ ~interrupted
        /\ worker' = [worker EXCEPT ![s] = "forking"] /\ proc' = proc
        /\ UNCHANGED <<Aside, interrupted>>
    BY DEF Admit, Continue, Cancelled, loop, Aside
  <1>2. Phase = "open" /\ Phase' = Phase /\ Result' = Result
    BY <1>1, WorkIsOpen
  <1>3. plan.needs[s] \subseteq Begun
    <2>1. plan.needs[s] \subseteq Services
      BY PlansAreSound DEF TypeOK, Plan
    <2> QED
      BY <1>1, <2>1 DEF IInv, StartedOverUp, Up, Begun
  <1>4. s \notin Begun \cup Admitted
    BY <1>1 DEF IInv, Sound, Progress, Begun, Admitted
  <1>5. Admitted' = Admitted \cup {s} /\ Begun' = Begun /\ Running' = Running
    BY <1>1 DEF Admitted, Begun, Running, TypeOK
  <1> QED
    BY <1>1, <1>2, <1>3, <1>4, <1>5 DEF Promise!Admit, Aside

\* ... which the start itself may follow.
LEMMA LaunchIsStart ==
    ASSUME TypeOK, IInv, NEW s \in Services, Launch(s)
    PROVE  Promise!Start(s)
  <1>1. /\ worker[s] = "forking" /\ worker' = [worker EXCEPT ![s] = "launched"]
        /\ proc' = [proc EXCEPT ![s] = "alive"] /\ UNCHANGED <<Aside, interrupted>>
    BY DEF Launch, loop, Aside
  <1>2. Phase' = Phase /\ Result' = Result
    BY <1>1, WorkIsOpen
  <1>3. s \in Admitted /\ Admitted' = Admitted \ {s}
    BY <1>1 DEF Admitted, TypeOK
  <1>4. Begun' = Begun \cup {s} /\ Running' = Running \cup {s}
    BY <1>1 DEF Begun, Running, TypeOK
  <1> QED
    BY <1>1, <1>2, <1>3, <1>4 DEF Promise!Start, Aside

LEMMA LaunchFailsIsWithdrawal ==
    ASSUME TypeOK, IInv, NEW s \in Services, LaunchFails(s)
    PROVE  Promise!Withdraw(s) \/ UNCHANGED PromiseVars
  <1>1. /\ worker[s] \in {"starting", "forking"} /\ worker' = [worker EXCEPT ![s] = "done"]
        /\ proc' = Terminated(s) /\ UNCHANGED <<Aside, interrupted>>
    BY DEF LaunchFails, Fail, Finish, End, loop, Aside
  <1>2. proc[s] = "none"
    BY <1>1 DEF IInv, Sound, Progress
  <1>3. proc' = proc
    BY <1>1, <1>2 DEF Terminated, TypeOK
  <1>4. Phase' = Phase /\ Result' = Result
    BY <1>1, WorkIsOpen
  <1>5. CASE worker[s] = "starting"
    <2>1. Admitted' = Admitted
      BY <1>1, <1>5 DEF Admitted, TypeOK
    <2> QED
      BY <1>1, <1>3, <2>1, Unseen DEF Aside
  <1>6. CASE worker[s] = "forking"
    <2>1. s \in Admitted /\ Admitted' = Admitted \ {s} /\ Begun' = Begun /\ Running' = Running
      BY <1>1, <1>3, <1>6 DEF Admitted, Begun, Running, TypeOK
    <2> QED
      BY <1>1, <1>4, <2>1 DEF Promise!Withdraw, Aside
  <1> QED
    BY <1>1, <1>5, <1>6

\* A process ends with its worker or by itself; other steps leave them alone.
LEMMA ProcessesEnd ==
    ASSUME TypeOK, IInv, NEW s \in Services,
           RunService(s) \/ Exit(s) \/ RouteFails(s) \/ Forward(s),
           ~Admit(s), ~Launch(s), ~LaunchFails(s)
    PROVE  Promise!End(s) \/ UNCHANGED PromiseVars
  <1>1. UNCHANGED <<Aside, interrupted>>
    BY OthersStandAside
  <1>2. \/ proc' = proc
        \/ proc[s] = "alive" /\ \E r \in {"ok", "dead"} : proc' = [proc EXCEPT ![s] = r]
    <2>1. ASSUME NEW kind, End(s, kind)
          PROVE  proc' = proc \/ (proc[s] = "alive" /\ proc' = [proc EXCEPT ![s] = "dead"])
      <3>1. proc' = [proc EXCEPT ![s] = IF proc[s] = "alive" THEN "dead" ELSE proc[s]]
        BY <2>1 DEF End, Terminated
      <3> QED
        BY <3>1 DEF TypeOK
    <2> QED
      BY <2>1
         DEF RunService, Resolve, ResolveFails, AwaitExit, JudgeExit, Probe, ProbeFails,
             Activate, NothingToActivate, ActivateFails, ReportReady, Succeed, ServiceExits,
             Finish, Fail, Continue, Exit, RouteFails, Forward
  <1>3. Admitted' = Admitted
    <2>1. \/ worker' = worker
          \/ worker[s] # "forking" /\ \E pc : pc # "forking" /\ worker' = [worker EXCEPT ![s] = pc]
      BY DEF RunService, Resolve, ResolveFails, AwaitExit, JudgeExit, Probe, ProbeFails,
             Activate, NothingToActivate, ActivateFails, ReportReady, Succeed, ServiceExits,
             Finish, Fail, End, Continue, Exit, RouteFails, Forward
    <2> QED
      BY <2>1 DEF Admitted, TypeOK
  <1>4. CASE proc' = proc
    BY <1>1, <1>3, <1>4, Unseen DEF Aside
  <1>5. CASE proc[s] = "alive" /\ \E r \in {"ok", "dead"} : proc' = [proc EXCEPT ![s] = r]
    <2>1. s \in Running /\ Begun' = Begun /\ Running' = Running \ {s}
      BY <1>5 DEF Begun, Running, TypeOK
    <2>2. Phase' = Phase /\ Result' = Result
      BY <1>1 DEF Aside, Phase, Result
    <2> QED
      BY <1>1, <1>3, <2>1, <2>2 DEF Promise!End, Aside
  <1> QED
    BY <1>2, <1>4, <1>5

LEMMA DecideIsGivingUp ==
    ASSUME TypeOK, IInv, Decide, NothingOutlivesRun'
    PROVE  Promise!GiveUp \/ Promise!Return("ok") \/ UNCHANGED PromiseVars
  <1>1. /\ main \in {"loop", "schedule"}
        /\ UNCHANGED <<plan, worker, proc, registered, ran, skipped, interrupted>>
        /\ \/ active = {} /\ main' = "release"
           \/ active = {} /\ registered = {} /\ main' = "ended" /\ outcome' = "ok"
           \/ main' = "select"
    BY DEF Decide, Complete, Settled
  <1>2. /\ Phase = "open" /\ Result = "none"
        /\ Admitted' = Admitted /\ Begun' = Begun /\ Running' = Running
    BY <1>1 DEF Phase, Result, Admitted, Begun, Running
  <1>3. CASE active = {} /\ main' = "release"
    <2>1. Phase' = "cleaning" /\ Result' = "none"
      BY <1>3 DEF Phase, Result
    <2> QED
      BY <1>1, <1>2, <1>3, <2>1, NobodyRuns DEF Promise!GiveUp
  <1>4. CASE active = {} /\ registered = {} /\ main' = "ended" /\ outcome' = "ok"
    <2>1. Phase' = "returned" /\ Result' = "ok"
      BY <1>4 DEF Phase, Result
    <2>2. Begun = Services
      BY <1>1, <1>4 DEF NothingOutlivesRun, Begun
    <2> QED
      BY <1>1, <1>2, <1>4, <2>1, <2>2, NobodyRuns DEF Promise!Return
  <1>5. CASE main' = "select"
    BY <1>1, <1>2, <1>5, Unseen DEF Ending
  <1> QED
    BY <1>1, <1>3, <1>4, <1>5

\* What Run is told has been created belongs to a service that has ended.
LEMMA ConsumeIsOwing ==
    ASSUME TypeOK, IInv, Consume
    PROVE  (\E s \in Services : Promise!Owe(s)) \/ UNCHANGED PromiseVars
  <1>1. /\ UNCHANGED <<plan, worker, proc, ran, skipped, interrupted, outcome>>
        /\ main = "select" /\ main' = "loop" /\ events # <<>> /\ events' = Tail(events)
    BY DEF Consume
  <1>2. /\ Phase = "open" /\ Phase' = Phase /\ Result' = Result
        /\ Admitted' = Admitted /\ Begun' = Begun /\ Running' = Running
    BY <1>1 DEF Phase, Result, Admitted, Begun, Running
  <1>3. PICK kind \in Kinds, s \in Services : Head(events) = Event(kind, s) /\ Queued(kind, s)
    BY <1>1, TakeEffect
  <1>4. registered' = IF kind = "shutdown" THEN registered \cup {s} ELSE registered
    <2>1. PICK e : e = Head(events) /\ e.kind = kind /\ e.service = s
      BY <1>3 DEF Event
    <2> QED
      BY <2>1 DEF Consume
  <1>5. CASE kind # "shutdown"
    BY <1>1, <1>2, <1>4, <1>5, Unseen DEF Ending
  <1>6. CASE kind = "shutdown"
    <2>1. s \in Begun \ Running
      BY <1>3, <1>6 DEF IInv, Sound, Kept, Created, Begun, Running
    <2> QED
      BY <1>1, <1>2, <1>4, <1>6, <2>1 DEF Promise!Owe
  <1> QED
    BY <1>5, <1>6

LEMMA ShutdownIsStop ==
    ASSUME TypeOK, IInv, Closing, RunShutdown
    PROVE  \/ \E s \in Services : Promise!Stop(s) \/ Promise!Miss(s)
           \/ \E r \in {"stopped", "failed"} : Promise!Return(r)
  <1>1. main = "shutdown" /\ UNCHANGED <<plan, worker, proc, registered, interrupted>>
    BY DEF RunShutdown
  <1>2. /\ Phase = "cleaning" /\ Result = "none"
        /\ Admitted' = Admitted /\ Begun' = Begun /\ Running' = Running
    BY <1>1 DEF Phase, Result, Admitted, Begun, Running
  <1>3. ASSUME NEW k \in DOMAIN Order, LastUnhandled(k), main' = main
        PROVE  /\ Phase' = Phase /\ Result' = Result /\ Order[k] \in Services
               /\ Order[k] \in registered \ Handled /\ plan.needs[Order[k]] \cap Handled = {}
    BY <1>1, <1>3, Positions DEF Phase, Result, LastUnhandled, Closing
  <1>4. ASSUME NEW k \in DOMAIN Order, LastUnhandled(k), main' = main,
               ran' = Append(ran, Order[k]), skipped' = skipped
        PROVE  Promise!Stop(Order[k])
    <2>1. ToSet(ran') = ToSet(ran) \cup {Order[k]}
      BY <1>4, Positions, SetOfAppend DEF TypeOK
    <2> QED
      BY <1>1, <1>2, <1>3, <1>4, <2>1 DEF Promise!Stop, Promise!Turn, Handled
  <1>5. ASSUME NEW k \in DOMAIN Order, LastUnhandled(k), main' = main,
               skipped' = skipped \cup {Order[k]}, ran' = ran
        PROVE  Promise!Miss(Order[k])
    BY <1>1, <1>2, <1>3, <1>5 DEF Promise!Miss, Promise!Turn, Handled
  <1>6. CASE main' = "ended" /\ UNCHANGED <<ran, skipped, outcome>> /\ registered \subseteq Handled
    <2>1. outcome \in {"stopped", "failed"} /\ (outcome = "stopped" => interrupted /\ skipped = {})
      BY <1>1 DEF TypeOK, Closing, IInv, EndsEmpty, Ending
    <2>2. Phase' = "returned" /\ Result' = outcome
      BY <1>6 DEF Phase, Result
    <2> QED
      BY <1>1, <1>2, <1>6, <2>1, <2>2 DEF Promise!Return, Handled
  <1> QED
    BY <1>3, <1>4, <1>5, <1>6, ShutdownEffect

LEMMA StepsKeepThePromise ==
    ASSUME TypeOK, IInv, Closing, [Next]_vars, NothingOutlivesRun'
    PROVE  [Promise!Next]_PromiseVars
  <1>1. CASE Loop \/ HearInterrupt \/ ReleaseRoutes
    BY <1>1, Unseen DEF Loop, HearInterrupt, ReleaseRoutes, Ending, Admitted
  <1>2. CASE Schedule
    <2>1. UNCHANGED <<plan, main, registered, outcome, proc, interrupted, ran, skipped>>
      BY <1>2 DEF Schedule
    <2>2. PICK s \in Services : states[s] = "pending" /\ (Blocks(s) \/ Starts(s))
      BY <1>2, ScheduleEffect
    <2>3. worker[s] = "idle"
      BY <2>2 DEF IInv, Sound, Progress
    <2>4. Admitted' = Admitted
      BY <2>2, <2>3 DEF Admitted, Blocks, Starts, TypeOK
    <2> QED
      BY <2>1, <2>4, Unseen
  <1>3. CASE Decide
    BY <1>3, DecideIsGivingUp DEF Promise!Next
  <1>4. CASE Consume
    BY <1>4, ConsumeIsOwing DEF Promise!Next
  <1>5. CASE RunShutdown
    BY <1>5, ShutdownIsStop DEF Promise!Next
  <1>6. ASSUME NEW s \in Services, RunService(s) \/ Exit(s) \/ RouteFails(s) \/ Forward(s)
        PROVE  [Promise!Next]_PromiseVars
    BY <1>6, AdmitIsAdmit, LaunchIsStart, LaunchFailsIsWithdrawal, ProcessesEnd DEF Promise!Next
  <1>7. CASE Interrupt
    <2>1. /\ main # "ended" /\ interrupted' = TRUE
          /\ UNCHANGED <<plan, main, registered, outcome, worker, proc, ran, skipped>>
      BY <1>7 DEF Interrupt, loop
    <2>2. Phase # "returned" /\ UNCHANGED <<Phase, Admitted, Begun, Running, Result>>
      BY <2>1 DEF Phase, Admitted, Begun, Running, Result
    <2> QED
      BY <2>1, <2>2 DEF Promise!Next, Promise!Cancel
  <1>8. CASE Returned \/ UNCHANGED vars
    BY <1>8, Unseen DEF Returned, vars, loop, Admitted
  <1> QED
    BY <1>1, <1>2, <1>3, <1>4, <1>5, <1>6, <1>7, <1>8 DEF Next, Run

\* What Run does is what the session is promised (Supervision): services start over services
\* that have started; that one starts is decided before Run was cancelled or has given up,
\* though the start may follow the cancellation; once all have ended, what they created has
\* its turn to be taken down, dependents first, and only then Run returns, with an error if
\* something could not be.
THEOREM SupervisionIsKept == Spec => ImplementsSupervision
  <1>1. Init => Promise!Init /\ Closing
    <2> SUFFICES ASSUME Init PROVE Promise!Init /\ Closing
      OBVIOUS
    <2>1. plan.needs \in [Services -> SUBSET Services]
      BY PlansAreSound DEF Init, Plan
    <2>2. /\ Phase = "open" /\ Admitted = {} /\ Begun = {} /\ Running = {}
          /\ ToSet(ran) = {} /\ skipped = {} /\ Result = "none"
      BY SetOfNone DEF Init, Phase, Admitted, Begun, Running, Result
    <2> QED
      BY <2>1, <2>2 DEF Init, Promise!Init, Closing, Ending, Handled
  <1>2. Spec => []Closing
    BY <1>1, StepCloses, SupervisorInvariant, PTL DEF Spec
  <1>3. Spec => [][Promise!Next]_PromiseVars
    BY <1>2, StepsKeepThePromise, SupervisorInvariant, RunLeavesNothing, PTL DEF Spec
  <1> QED
    BY <1>1, <1>3, PTL
       DEF Spec, ImplementsSupervision, Promise!Spec, Promise!supervisionVars, PromiseVars

-----------------------------------------------------------------------------
(* The queue never fills up                                                *)

(* The last states of a service stand for one another: it has only one.    *)
Class(kind) == IF kind \in Terminal THEN "end" ELSE kind

(* Nothing is queued twice.                                                *)
Once == \A i, j \in DOMAIN events :
    /\ events[i].service = events[j].service
    /\ Class(events[i].kind) = Class(events[j].kind)
    => i = j

(* What has been told already, or is of no concern to the service.         *)
After == {"exited", "done"} \cup Late
Lost  == {"failed", "released"}
Told(s) ==
    /\ Queued("shutdown", s) => worker[s] \in After
    /\ s \in failing \/ Queued("route", s) => route[s] \in Lost
    /\ s \in failing => ~Queued("route", s)
    /\ route[s] # "none" => s \in plan.routed

ToldOnce == Once /\ \A s \in Services : Told(s)

\* What is sent for the first time is queued once.
LEMMA SendKeepsOnce ==
    ASSUME TypeOK, Once, NEW kind \in Kinds, NEW s \in Services,
           events' = Append(events, Event(kind, s)),
           \A k \in Kinds : Class(k) = Class(kind) => ~Queued(k, s)
    PROVE  Once'
  <1>1. events \in Seq(Messages) /\ Event(kind, s) \in Messages
    BY EventIsMessage DEF TypeOK, Messages
  <1>2. /\ Len(events) \in Nat /\ DOMAIN events = 1..Len(events)
        /\ DOMAIN events' = 1..(Len(events) + 1)
        /\ \A i \in 1..Len(events) : events'[i] = events[i]
        /\ events'[Len(events) + 1] = Event(kind, s)
    BY <1>1, AppendProperties, LenProperties
  <1>3. ASSUME NEW i \in DOMAIN events, events[i].service = s, Class(events[i].kind) = Class(kind)
        PROVE  FALSE
    <2>1. events[i] \in Messages
      BY <1>1, <1>2
    <2>2. events[i].kind \in Kinds /\ events[i] = Event(events[i].kind, s)
      BY <1>3, <2>1 DEF Event, Messages
    <2>3. Queued(events[i].kind, s)
      BY <2>2 DEF Queued, Range
    <2> QED
      BY <1>3, <2>2, <2>3
  <1>4. Event(kind, s).service = s /\ Event(kind, s).kind = kind
    BY DEF Event
  <1>5. SUFFICES ASSUME NEW i \in DOMAIN events', NEW j \in DOMAIN events',
                        events'[i].service = events'[j].service,
                        Class(events'[i].kind) = Class(events'[j].kind)
                 PROVE  i = j
    BY DEF Once
  <1>6. CASE i \in DOMAIN events /\ j \in DOMAIN events
    BY <1>2, <1>5, <1>6 DEF Once
  <1>7. CASE i = Len(events) + 1 /\ j \in DOMAIN events
    BY <1>2, <1>3, <1>4, <1>5, <1>7
  <1>8. CASE j = Len(events) + 1 /\ i \in DOMAIN events
    BY <1>2, <1>3, <1>4, <1>5, <1>8
  <1> QED
    BY <1>2, <1>6, <1>7, <1>8

LEMMA TakeKeepsOnce ==
    ASSUME TypeOK, Once, events # <<>>, events' = Tail(events)
    PROVE  Once'
  <1>1. events \in Seq(Messages)
    BY DEF TypeOK, Messages
  <1>2. SUFFICES ASSUME NEW i \in DOMAIN events', NEW j \in DOMAIN events',
                        events'[i].service = events'[j].service,
                        Class(events'[i].kind) = Class(events'[j].kind)
                 PROVE  i = j
    BY DEF Once
  <1>3. /\ i \in Nat /\ j \in Nat /\ i + 1 \in DOMAIN events /\ j + 1 \in DOMAIN events
        /\ events'[i] = events[i + 1] /\ events'[j] = events[j + 1]
    BY <1>1, TailShift
  <1>4. i + 1 = j + 1
    BY <1>2, <1>3 DEF Once
  <1> QED
    BY <1>3, <1>4

\* Most steps take nothing back and tell nothing new of a service but its notices.
Placid(t) ==
    /\ plan' = plan
    /\ worker[t] \in After => worker'[t] \in After
    /\ Queued("shutdown", t)' => Queued("shutdown", t) \/ worker'[t] \in After
    /\ Queued("route", t)' => Queued("route", t)
    /\ t \in failing' => t \in failing
    /\ route[t] \in Lost => route'[t] \in Lost
    /\ route'[t] # "none" => route[t] # "none" \/ t \in plan.routed

LEMMA ToldStays ==
    ASSUME NEW t \in Services, Told(t), Placid(t)
    PROVE  Told(t)'
  BY DEF Told, Placid

LEMMA ToldStill ==
    ASSUME NEW t \in Services, Told(t), plan' = plan, worker'[t] = worker[t],
           route'[t] = route[t], t \in failing' <=> t \in failing,
           \A k \in Kinds : Queued(k, t)' <=> Queued(k, t)
    PROVE  Told(t)'
  BY DEF Told, Kinds

LEMMA ServiceFields ==
    ASSUME TypeOK, NEW s \in Services
    PROVE  plan.required \subseteq plan.routed
  BY PlansAreSound DEF TypeOK

\* The last event of a worker.
LEMMA EndTells ==
    ASSUME TypeOK, IInv, ToldOnce, NEW s \in Services, NEW kind \in Terminal, End(s, kind),
           worker[s] # "done",
           route' \in [Services -> {"none", "active", "unavailable", "failed", "released"}],
           \A t \in Services \ {s} : route'[t] = route[t],
           route'[s] = route[s] \/ (s \in plan.required /\ route'[s] = "failed")
    PROVE  ToldOnce'
  <1>1. /\ Moves(s) /\ Tells(kind, s) /\ worker'[s] = "done"
        /\ events' = Append(events, Event(kind, s))
    BY EndEffect
  <1>2. kind \in Kinds /\ failing' = failing
    BY DEF Terminal, Kinds, End
  <1>3. \A k \in Kinds : Class(k) = Class(kind) => ~Queued(k, s)
    <2>1. \A k \in Terminal : ~Queued(k, s)
      BY DEF IInv, Sound, Accounted
    <2> QED
      BY <2>1 DEF Class, Terminal, Kinds
  <1>4. Once'
    BY <1>1, <1>2, <1>3, SendKeepsOnce DEF ToldOnce
  <1>5. Told(s)'
    <2>1. Placid(s)
      BY <1>1, <1>2, ServiceFields DEF Placid, Moves, Rest, Tells, Terminal, Kinds, After, Lost
    <2> QED
      BY <2>1, ToldStays DEF ToldOnce
  <1>6. \A t \in Services \ {s} : Told(t)'
    BY <1>1, <1>2, ToldStill DEF ToldOnce, Moves, Rest, Tells
  <1> QED
    BY <1>4, <1>5, <1>6 DEF ToldOnce

\* A step without an event.
LEMMA SilentTells ==
    ASSUME TypeOK, ToldOnce, NEW s \in Services, Moves(s), events' = events, failing' = failing,
           worker[s] \in After => worker'[s] \in After,
           route'[s] = route[s] \/ (route[s] = "none" /\ s \in plan.routed)
    PROVE  ToldOnce'
  <1>1. Silent /\ Once'
    BY SilentIf DEF ToldOnce, Once
  <1>2. Told(s)'
    <2>1. Placid(s)
      BY <1>1 DEF Placid, Moves, Rest, Silent, Kinds, Lost
    <2> QED
      BY <2>1, ToldStays DEF ToldOnce
  <1>3. \A t \in Services \ {s} : Told(t)'
    BY <1>1, ToldStill DEF ToldOnce, Moves, Rest, Silent
  <1> QED
    BY <1>1, <1>2, <1>3 DEF ToldOnce

\* A step of the worker with an event that is not its last, or a route failure that
\* reaches the queue.
LEMMA SendTells ==
    ASSUME TypeOK, ToldOnce, NEW s \in Services, NEW kind \in Kinds \ Terminal, Moves(s),
           Room, events' = Append(events, Event(kind, s)), ~Queued(kind, s),
           \A t \in Services \ {s} : t \in failing' <=> t \in failing,
           Tells(kind, s) => Told(s)'
    PROVE  ToldOnce'
  <1>1. Tells(kind, s)
    BY SendEffect
  <1>2. \A k \in Kinds : Class(k) = Class(kind) => ~Queued(k, s)
    BY DEF Class, Terminal, Kinds
  <1>3. Once'
    BY <1>2, SendKeepsOnce DEF ToldOnce
  <1>4. \A t \in Services \ {s} : Told(t)'
    BY <1>1, ToldStill DEF ToldOnce, Moves, Rest, Tells
  <1> QED
    BY <1>1, <1>3, <1>4 DEF ToldOnce

LEMMA WorkerTells ==
    ASSUME TypeOK, IInv, ToldOnce, NEW s \in Services, RunService(s)
    PROVE  ToldOnce'
  <1>1. Sound(s) /\ Told(s) /\ Verdicts \subseteq Terminal /\ "failed" \in Terminal
        /\ "success" \in Terminal
    BY DEF IInv, ToldOnce, Verdicts, Terminal
  <1>2. ASSUME NEW kind \in Terminal, Finish(s, kind), worker[s] # "done" PROVE ToldOnce'
    BY <1>2, EndTells DEF Finish, TypeOK
  <1>3. CASE LaunchFails(s) \/ ResolveFails(s) \/ ProbeFails(s) \/ Succeed(s) \/ ServiceExits(s)
    BY <1>1, <1>2, <1>3 DEF LaunchFails, ResolveFails, ProbeFails, Succeed, ServiceExits, Fail
  <1>4. ASSUME NEW pc, Continue(s, pc), worker[s] \in After => pc \in After PROVE ToldOnce'
    <2>1. Moves(s) /\ worker'[s] = pc /\ events' = events /\ failing' = failing /\ route' = route
      BY <1>4 DEF Continue, Moves, Rest, loop, TypeOK
    <2> QED
      BY <1>4, <2>1, SilentTells
  <1>5. CASE Resolve(s)
    BY <1>4, <1>5 DEF Resolve, After, Late
  <1>6. CASE Admit(s) \/ Probe(s) \/ NothingToActivate(s)
    BY <1>4, <1>6 DEF Admit, Probe, NothingToActivate, After, Late
  <1>7. CASE JudgeExit(s)
    BY <1>1, <1>2, <1>4, <1>7 DEF JudgeExit, Fail, After, Late
  <1>8. CASE Launch(s)
    <2>1. Moves(s) /\ worker[s] = "forking" /\ events' = events /\ failing' = failing
          /\ route' = route
      BY <1>8 DEF Launch, Moves, Rest, loop, TypeOK
    <2> QED
      BY <2>1, SilentTells DEF After, Late
  <1>9. CASE AwaitExit(s)
    <2>1. Moves(s) /\ worker'[s] = "exited" /\ route' = route /\ failing' = failing
          /\ worker[s] = "waiting"
      BY <1>9 DEF AwaitExit, Moves, Rest, loop, TypeOK
    <2>2. CASE Registers(s)
      <3>1. ~Queued("shutdown", s)
        BY <1>1, <2>1 DEF Told, After, Late
      <3>2. "shutdown" \in Kinds \ Terminal /\ Room
            /\ events' = Append(events, Event("shutdown", s))
        BY <1>9, <2>2 DEF AwaitExit, Kinds, Terminal
      <3>3. ASSUME Tells("shutdown", s) PROVE Told(s)'
        <4>1. Placid(s)
          BY <2>1, <3>3 DEF Placid, Moves, Rest, Tells, Kinds, After, Lost
        <4> QED
          BY <1>1, <4>1, ToldStays
      <3> QED
        BY <2>1, <3>1, <3>2, <3>3, SendTells
    <2>3. CASE ~Registers(s)
      <3>1. events' = events
        BY <1>9, <2>3 DEF AwaitExit
      <3> QED
        BY <2>1, <3>1, SilentTells DEF After, Late
    <2> QED
      BY <2>2, <2>3
  <1>10. CASE Activate(s)
    <2>1. Moves(s) /\ worker'[s] = "ready" /\ events' = events /\ failing' = failing
          /\ route[s] = "none" /\ s \in plan.routed
      BY <1>10 DEF Activate, Moves, Rest, loop, TypeOK
    <2> QED
      BY <2>1, SilentTells DEF After, Late
  <1>11. CASE ActivateFails(s)
    <2>1. /\ route' \in [Services -> {"none", "active", "unavailable", "failed", "released"}]
          /\ \A t \in Services \ {s} : route'[t] = route[t]
          /\ route'[s] = "failed" /\ s \in plan.required /\ worker[s] # "done"
      BY <1>11 DEF ActivateFails, TypeOK
    <2> QED
      BY <1>1, <1>11, <2>1, EndTells DEF ActivateFails
  <1>12. CASE ReportReady(s)
    <2>1. Moves(s) /\ worker'[s] = "serving" /\ worker[s] = "ready" /\ route' = route
          /\ failing' = failing /\ Room /\ events' = Append(events, Event("ready", s))
      BY <1>12 DEF ReportReady, Moves, Rest, loop, TypeOK
    <2>2. ~Queued("ready", s) /\ "ready" \in Kinds \ Terminal
      BY <1>1, <2>1 DEF Sound, Meant, Says, Kinds, Terminal
    <2>3. ASSUME Tells("ready", s) PROVE Told(s)'
      <3>1. Placid(s)
        BY <2>1, <2>3 DEF Placid, Moves, Rest, Tells, Kinds, After, Late, Lost
      <3> QED
        BY <1>1, <3>1, ToldStays
    <2> QED
      BY <2>1, <2>2, <2>3, SendTells
  <1> QED
    BY <1>3, <1>5, <1>6, <1>7, <1>8, <1>9, <1>10, <1>11, <1>12 DEF RunService

\* A process ends, a route is lost, the loss is forwarded.
LEMMA SurroundingsTell ==
    ASSUME TypeOK, IInv, ToldOnce, NEW s \in Services, Exit(s) \/ RouteFails(s) \/ Forward(s)
    PROVE  ToldOnce'
  <1>1. Told(s)
    BY DEF ToldOnce
  <1>2. CASE Exit(s)
    <2>1. Moves(s) /\ worker' = worker /\ route' = route /\ events' = events
          /\ failing' = failing
      BY <1>2 DEF Exit, Moves, Rest, loop, TypeOK
    <2> QED
      BY <2>1, SilentTells
  <1>3. CASE RouteFails(s)
    <2>1. Moves(s) /\ worker' = worker /\ route[s] = "active" /\ route'[s] = "failed"
          /\ events' = events /\ failing' = failing \cup {s}
      BY <1>3 DEF RouteFails, Moves, Rest, loop, TypeOK
    <2>2. Silent /\ Once'
      BY <2>1, SilentIf DEF ToldOnce, Once
    <2>3. s \notin failing /\ ~Queued("route", s) /\ s \in plan.routed
      BY <1>1, <2>1 DEF Told, Lost
    <2>4. Told(s)'
      BY <1>1, <2>1, <2>2, <2>3 DEF Told, Moves, Rest, Silent, Kinds, Lost
    <2>5. \A t \in Services \ {s} : Told(t)'
      BY <2>1, <2>2, ToldStill DEF ToldOnce, Moves, Rest, Silent
    <2> QED
      BY <2>2, <2>4, <2>5 DEF ToldOnce
  <1>4. CASE Forward(s)
    <2>1. Moves(s) /\ worker' = worker /\ route' = route /\ s \in failing /\ Room
          /\ failing' = failing \ {s} /\ events' = Append(events, Event("route", s))
      BY <1>4 DEF Forward, Moves, Rest, loop
    <2>2. ~Queued("route", s) /\ "route" \in Kinds \ Terminal
      BY <1>1, <2>1 DEF Told, Kinds, Terminal
    <2>3. ASSUME Tells("route", s) PROVE Told(s)'
      BY <1>1, <2>1, <2>3 DEF Told, Moves, Rest, Tells, Kinds
    <2> QED
      BY <2>1, <2>2, <2>3, SendTells
  <1> QED
    BY <1>2, <1>3, <1>4

LEMMA RunTells ==
    ASSUME TypeOK, IInv, ToldOnce, Run \/ Interrupt \/ UNCHANGED vars
    PROVE  ToldOnce'
  <1>1. ASSUME UNCHANGED <<plan, events, worker, route, failing>> PROVE ToldOnce'
    <2>1. Silent
      BY <1>1, SilentIf
    <2>2. \A t \in Services : Told(t)'
      BY <1>1, <2>1, ToldStill DEF ToldOnce, Silent
    <2> QED
      BY <1>1, <2>2 DEF ToldOnce, Once
  <1>2. CASE Loop \/ Decide \/ HearInterrupt \/ RunShutdown \/ Interrupt \/ UNCHANGED vars
    BY <1>1, <1>2 DEF Loop, Decide, HearInterrupt, RunShutdown, Interrupt, vars, loop
  <1>3. CASE Schedule
    <2>1. UNCHANGED <<plan, route, failing>>
      BY <1>3 DEF Schedule
    <2>2. PICK s \in Services : states[s] = "pending" /\ (Blocks(s) \/ Starts(s))
      BY <1>3, ScheduleEffect
    <2>3. CASE Blocks(s)
      BY <1>1, <2>1, <2>3 DEF Blocks
    <2>4. CASE Starts(s)
      <3>1. worker[s] = "idle" /\ ~Queued("starting", s)
        BY <2>2 DEF IInv, Sound, Progress, Accounted, Notices, Kinds
      <3>2. "starting" \in Kinds /\ \A k \in Kinds : Class(k) = Class("starting") => k = "starting"
        BY DEF Kinds, Class, Terminal
      <3>3. Tells("starting", s)
        BY <2>4, <3>2, SendEffect DEF Starts
      <3>4. Once'
        BY <2>4, <3>1, <3>2, SendKeepsOnce DEF ToldOnce, Starts
      <3>5. Told(s)'
        <4>1. Placid(s)
          BY <2>1, <3>1, <3>3 DEF Placid, Tells, Kinds, After, Late, Lost
        <4> QED
          BY <4>1, ToldStays DEF ToldOnce
      <3>6. \A t \in Services \ {s} : Told(t)'
        BY <2>1, <2>4, <3>3, ToldStill DEF ToldOnce, Starts, Tells, TypeOK
      <3> QED
        BY <3>4, <3>5, <3>6 DEF ToldOnce
    <2> QED
      BY <2>2, <2>3, <2>4
  <1>4. CASE Consume
    <2>1. UNCHANGED <<plan, worker, route, failing>> /\ events # <<>> /\ events' = Tail(events)
      BY <1>4 DEF Consume
    <2>2. \A k \in Kinds, t \in Services : Queued(k, t)' => Queued(k, t)
      BY <2>1, TakeEffect
    <2>3. \A t \in Services : Placid(t)
      BY <2>1, <2>2 DEF Placid, Kinds
    <2> QED
      BY <2>1, <2>3, TakeKeepsOnce, ToldStays DEF ToldOnce
  <1>5. CASE ReleaseRoutes
    <2>1. /\ UNCHANGED <<plan, worker, events, failing>>
          /\ \A t \in Services : route'[t] = IF route[t] = "none" THEN "none" ELSE "released"
      BY <1>5 DEF ReleaseRoutes
    <2>2. Silent /\ Once'
      BY <2>1, SilentIf DEF ToldOnce, Once
    <2>3. \A t \in Services : Placid(t)
      BY <2>1, <2>2 DEF Placid, Silent, Kinds, Lost
    <2> QED
      BY <2>2, <2>3, ToldStays DEF ToldOnce
  <1> QED
    BY <1>2, <1>3, <1>4, <1>5 DEF Run

\* What is queued is queued once, and the route of what waits to be told is lost.
THEOREM QueueInvariant == Spec => []ToldOnce
  <1>1. Init => ToldOnce
    <2> SUFFICES ASSUME Init PROVE ToldOnce
      OBVIOUS
    <2>1. events = <<>> /\ DOMAIN events = {} /\ failing = {}
      BY DEF Init
    <2>2. \A kind, s : ~Queued(kind, s)
      BY <2>1 DEF Queued, Range
    <2>3. \A s \in Services : route[s] = "none"
      BY DEF Init
    <2> QED
      BY <2>1, <2>2, <2>3 DEF ToldOnce, Once, Told
  <1>2. TypeOK /\ IInv /\ ToldOnce /\ [Next]_vars => ToldOnce'
    BY WorkerTells, SurroundingsTell, RunTells DEF Next, Returned
  <1> QED
    BY <1>1, <1>2, SupervisorInvariant, PTL DEF Spec

(* The services that can have five events in the queue: "starting",        *)
(* "shutdown", "ready", their last state and a route's failure.            *)
Busy(p) == p.exits \cap p.resources \cap p.routed

(* Beside any other service, no more than four of these.                   *)
FewBusy == \A p \in Plans, s \in Services : Cardinality(Busy(p) \ {s}) <= 4

\* The services, and what can be queued beside one that has not started.
Turns == {"starting", "ready", "end", "more"}
Slots(s) == (Services \ {s}) \X Turns \cup (Busy(plan) \ {s}) \X {"route"}
TurnOf(kind, s) == IF kind \in Terminal THEN "end"
                   ELSE IF kind \in {"starting", "ready"} THEN kind
                   ELSE IF kind = "route" /\ s \in Busy(plan) THEN "route"
                   ELSE "more"
SlotOf(e) == <<e.service, TurnOf(e.kind, e.service)>>

LEMMA ServicesCount == IsFiniteSet(Services) /\ Cardinality(Services) = Len(Order)
  <1>1. Order \in [1..Len(Order) -> Services] /\ Len(Order) \in Nat
    BY OrderIsOfServices, LenProperties
  <1>2. Order \in Bijection(1..Len(Order), Services)
    <2>1. DOMAIN Order = 1..Len(Order)
      BY Positions
    <2>2. \A s \in Services : \E k \in 1..Len(Order) : Order[k] = s
      BY <2>1, OrderIsComplete
    <2>3. \A j, k \in DOMAIN Order : Order[j] = Order[k] => j = k
      BY OrderIsStrict
    <2> QED
      BY <1>1, <2>2, <2>3 DEF Bijection, Injection, Surjection, IsInjective
  <1>3. ExistsBijection(1..Len(Order), Services)
    BY <1>2 DEF ExistsBijection
  <1> QED
    BY <1>1, <1>3, FS_NatBijection, FS_CountingElements

LEMMA SlotsCount ==
    ASSUME TypeOK, FewBusy, NEW s \in Services
    PROVE  IsFiniteSet(Slots(s)) /\ Cardinality(Slots(s)) <= 4 * Len(Order)
  <1> DEFINE S == Services \ {s}
             B == Busy(plan) \ {s}
  <1>1. IsFiniteSet(S) /\ Cardinality(S) = Len(Order) - 1 /\ Len(Order) \in Nat
    BY ServicesCount, FS_RemoveElement, Positions
  <1>2. IsFiniteSet(Turns) /\ Cardinality(Turns) = 4
    <2>1. IsFiniteSet({"starting"}) /\ Cardinality({"starting"}) = 1
      BY FS_Singleton
    <2>2. IsFiniteSet({"starting"} \cup {"ready"}) /\ Cardinality({"starting"} \cup {"ready"}) = 2
      BY <2>1, FS_AddElement
    <2>3. /\ IsFiniteSet({"starting"} \cup {"ready"} \cup {"end"})
          /\ Cardinality({"starting"} \cup {"ready"} \cup {"end"}) = 3
      BY <2>2, FS_AddElement
    <2>4. /\ IsFiniteSet({"starting"} \cup {"ready"} \cup {"end"} \cup {"more"})
          /\ Cardinality({"starting"} \cup {"ready"} \cup {"end"} \cup {"more"}) = 4
      BY <2>3, FS_AddElement
    <2>5. Turns = {"starting"} \cup {"ready"} \cup {"end"} \cup {"more"}
      BY DEF Turns
    <2> QED
      BY <2>4, <2>5
  <1>3. IsFiniteSet(S \X Turns) /\ Cardinality(S \X Turns) = (Len(Order) - 1) * 4
    BY <1>1, <1>2, FS_Product
  <1>4. IsFiniteSet(B) /\ Cardinality(B) \in Nat /\ Cardinality(B) <= 4
    <2>1. plan \in Plans /\ plan \in Plan
      BY PlansAreSound DEF TypeOK
    <2>2. B \in SUBSET Services
      BY <2>1 DEF Busy, Plan
    <2> QED
      BY <2>1, <2>2, ServicesCount, FS_Subset, FS_CardinalityType DEF FewBusy
  <1>5. IsFiniteSet(B \X {"route"}) /\ Cardinality(B \X {"route"}) = Cardinality(B)
    <2>1. IsFiniteSet({"route"}) /\ Cardinality({"route"}) = 1
      BY FS_Singleton
    <2>2. /\ IsFiniteSet(B \X {"route"})
          /\ Cardinality(B \X {"route"}) = Cardinality(B) * Cardinality({"route"})
      <3> HIDE DEF B
      <3> QED
        BY <1>4, <2>1, FS_Product
    <2> HIDE DEF B
    <2> QED
      BY <1>4, <2>1, <2>2
  <1>6. /\ IsFiniteSet(Slots(s))
        /\ Cardinality(Slots(s)) = Cardinality(S \X Turns) + Cardinality(B \X {"route"})
                                     - Cardinality((S \X Turns) \cap (B \X {"route"}))
    BY <1>3, <1>5, FS_Union DEF Slots
  <1>7. Cardinality((S \X Turns) \cap (B \X {"route"})) = 0
    <2>1. (S \X Turns) \cap (B \X {"route"}) = {}
      BY DEF Turns
    <2> QED
      BY <2>1, FS_EmptySet
  <1> HIDE DEF S, B
  <1> QED
    BY <1>1, <1>3, <1>4, <1>5, <1>6, <1>7

\* Whatever is queued while a service has not started has a slot of its own.
LEMMA EventsHaveSlots ==
    ASSUME TypeOK, IInv, ToldOnce, NEW s \in Services, worker[s] = "idle"
    PROVE  \E f \in Injection(1..Len(events), Slots(s)) : TRUE
  <1>1. events \in Seq(Messages) /\ DOMAIN events = 1..Len(events) /\ Len(events) \in Nat
    BY LenProperties DEF TypeOK, Messages
  <1>2. ASSUME NEW i \in DOMAIN events
        PROVE  /\ events[i].kind \in Kinds /\ events[i].service \in Services
               /\ Queued(events[i].kind, events[i].service)
    <2>1. events[i] \in Messages
      BY <1>1
    <2>2. events[i] = Event(events[i].kind, events[i].service)
      BY <2>1 DEF Messages, Event
    <2> QED
      BY <2>1, <2>2 DEF Messages, Queued, Range
  <1>3. ASSUME NEW i \in DOMAIN events
        PROVE  /\ events[i].service # s
               /\ events[i].kind = "shutdown" =>
                      events[i].service \in plan.exits \cap plan.resources
               /\ events[i].kind = "route" => events[i].service \in plan.routed
    <2>1. PICK t, k : t = events[i].service /\ k = events[i].kind
      OBVIOUS
    <2>2. t \in Services /\ k \in Kinds /\ Queued(k, t) /\ Sound(t) /\ Told(t)
      BY <1>2, <2>1 DEF IInv, ToldOnce
    <2>3. t # s
      <3>1. ASSUME t = s PROVE FALSE
        <4>1. \A n \in Notices : ~Queued(n, s)
          BY <2>2, <3>1 DEF Sound, Accounted
        <4>2. ~Queued("route", s)
          BY <2>2, <3>1 DEF Sound, Progress, Told, Lost
        <4> QED
          BY <2>2, <3>1, <4>1, <4>2 DEF Notices
      <3> QED
        BY <3>1
    <2>4. k = "shutdown" => t \in plan.exits \cap plan.resources
      BY <2>2 DEF Sound, Kept, Created
    <2>5. k = "route" => t \in plan.routed
      BY <2>2 DEF Told, Lost
    <2> QED
      BY <2>1, <2>3, <2>4, <2>5
  <1> DEFINE f == [i \in 1..Len(events) |-> SlotOf(events[i])]
  <1>4. ASSUME NEW i \in 1..Len(events) PROVE SlotOf(events[i]) \in Slots(s)
    BY <1>1, <1>2, <1>3 DEF SlotOf, TurnOf, Slots, Turns, Busy, Kinds, Terminal
  <1>5. ASSUME NEW i \in 1..Len(events), NEW j \in 1..Len(events),
               SlotOf(events[i]) = SlotOf(events[j])
        PROVE  i = j
    <2>1. /\ events[i].service = events[j].service
          /\ TurnOf(events[i].kind, events[i].service) = TurnOf(events[j].kind, events[j].service)
      BY <1>5 DEF SlotOf
    <2>2. Class(events[i].kind) = Class(events[j].kind)
      <3>1. PICK t, k, l : t = events[i].service /\ k = events[i].kind /\ l = events[j].kind
        OBVIOUS
      <3>2. /\ k \in Kinds /\ l \in Kinds
            /\ "shutdown" \in {k, l} => t \in plan.exits \cap plan.resources
            /\ "route" \in {k, l} => t \in plan.routed
        BY <1>1, <1>2, <1>3, <2>1, <3>1
      <3>3. TurnOf(k, t) = TurnOf(l, t)
        BY <2>1, <3>1
      <3>4. ASSUME t \in Busy(plan) PROVE Class(k) = Class(l)
        BY <3>2, <3>3, <3>4 DEF TurnOf, Class, Kinds, Terminal
      <3>5. ASSUME t \notin Busy(plan) PROVE Class(k) = Class(l)
        <4>1. "shutdown" \notin {k, l} \/ "route" \notin {k, l}
          BY <3>2, <3>5 DEF Busy
        <4> QED
          BY <3>2, <3>3, <3>5, <4>1 DEF TurnOf, Class, Kinds, Terminal
      <3> QED
        BY <3>1, <3>4, <3>5
    <2> QED
      BY <1>1, <2>1, <2>2 DEF ToldOnce, Once
  <1>6. f \in Injection(1..Len(events), Slots(s))
    BY <1>4, <1>5 DEF Injection, IsInjective
  <1> QED
    BY <1>6

\* RunNeverBlocks: the main loop, which alone reads the queue, never waits for room in it.
\* This is so for any number of services if at most four beside any other complete by
\* exiting, have a shutdown command and have a route, and hence for any five services.
THEOREM RunDoesNotBlock == FewBusy => (Spec => []RunNeverBlocks)
  <1> SUFFICES ASSUME FewBusy PROVE Spec => []RunNeverBlocks
    OBVIOUS
  <1>1. ASSUME TypeOK, IInv, ToldOnce, main = "schedule", Eligible # {} PROVE Room
    <2>1. PICK k \in DOMAIN Order : states[Order[k]] = "pending"
      BY <1>1 DEF Eligible
    <2>2. PICK s \in Services : s = Order[k]
      BY Positions
    <2>3. worker[s] = "idle"
      BY <1>1, <2>1, <2>2 DEF IInv, Sound, Progress
    <2>4. PICK f \in Injection(1..Len(events), Slots(s)) : TRUE
      BY <1>1, <2>3, EventsHaveSlots
    <2>5. IsFiniteSet(Slots(s)) /\ Cardinality(Slots(s)) <= 4 * Len(Order)
      BY <1>1, SlotsCount
    <2>6. Cardinality(1..Len(events)) <= Cardinality(Slots(s)) /\ Cardinality(Slots(s)) \in Nat
      BY <2>4, <2>5, FS_Injection, FS_CardinalityType
    <2>7. Len(events) \in Nat /\ Cardinality(1..Len(events)) = Len(events)
      <3>1. Len(events) \in Nat
        BY <1>1, LenProperties DEF TypeOK
      <3> QED
        BY <3>1, FS_Interval
    <2> QED
      BY <2>5, <2>6, <2>7, Positions DEF Room, Capacity
  <1>2. TypeOK /\ IInv /\ ToldOnce => RunNeverBlocks
    BY <1>1 DEF RunNeverBlocks
  <1> QED
    BY <1>2, SupervisorInvariant, QueueInvariant, PTL

\* RunNeverBlocks, without a condition on the plans: a session of up to five services has
\* a queue that is long enough.
COROLLARY FiveDoNotBlock == Len(Order) <= 5 => (Spec => []RunNeverBlocks)
  <1> SUFFICES ASSUME Len(Order) <= 5 PROVE FewBusy
    BY RunDoesNotBlock
  <1>1. ASSUME NEW p \in Plans, NEW s \in Services PROVE Cardinality(Busy(p) \ {s}) <= 4
    <2>1. IsFiniteSet(Services \ {s}) /\ Cardinality(Services \ {s}) = Len(Order) - 1
      BY ServicesCount, FS_RemoveElement
    <2>2. Busy(p) \ {s} \in SUBSET (Services \ {s})
      BY PlansAreSound DEF Busy, Plan
    <2>3. /\ IsFiniteSet(Busy(p) \ {s})
          /\ Cardinality(Busy(p) \ {s}) <= Cardinality(Services \ {s})
      BY <2>1, <2>2, FS_Subset
    <2>4. Cardinality(Busy(p) \ {s}) \in Nat /\ Len(Order) \in Nat
      BY <2>3, FS_CardinalityType, Positions
    <2> QED
      BY <2>1, <2>3, <2>4
  <1> QED
    BY <1>1 DEF FewBusy

=============================================================================
