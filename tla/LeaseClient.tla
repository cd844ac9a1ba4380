---------------------------- MODULE LeaseClient -----------------------------
(***************************************************************************)
(* A client that keeps a route alive at the daemon, and the daemon as it   *)
(* sees it: claims that run out, restarts that forget every claim, an      *)
(* older version without /v1/leases, and other clients of the same route.  *)
(*                                                                         *)
(* A "session" client is a service's route in a development session: an    *)
(* entry of routes.Manager with its daemon.LeaseManager.  A "wrapper" is   *)
(* `webport dev -- COMMAND' and a "ctl" is webportctl; both use            *)
(* cmd/webportctl/runtime.Manager.  Each has a main thread, which          *)
(* registers and releases, and a loop, which sends heartbeats.  An HTTP    *)
(* call of a thread is sent, served and answered in steps of its own, so   *)
(* that answers are lost, calls are given up, and a call that was given up *)
(* (a stray) is served all the same.                                       *)
(***************************************************************************)
EXTENDS Naturals, FiniteSets

CONSTANTS
    Kinds,      \* the kinds of client considered: "session", "wrapper", "ctl"
    MyPort,     \* the port this client registers for its route
    OtherPorts, \* the ports others register for the same route
    TTL,        \* time to live of a claim, in heartbeat intervals
    Timeout,    \* how long the HTTP client waits, in heartbeat intervals
    Versions,   \* versions of the daemon: "new", and "old" without /v1/leases
    MaxFaults,  \* bound: stops of the daemon, lost answers
    MaxID,      \* bound: lease IDs in use at a time
    MaxStrays   \* bound: calls that were given up and are still under way

ASSUME ClientAssumption ==
    /\ Kinds \subseteq {"session", "wrapper", "ctl"}
    /\ TTL \in Nat \ {0, 1} /\ Timeout \in Nat \ {0}
    /\ Versions \subseteq {"new", "old"}
    /\ MaxFaults \in Nat /\ MaxID \in Nat /\ MaxStrays \in Nat
    /\ MaxID > MaxStrays + 3        \* there is always a lease ID that is not in use

VARIABLES
    kind,       \* the kind of this client; never changes
    daemon,     \* "new", "old" or "down"
    claims,     \* the daemon's claims of the route: ID, whose, port, ticks left
    strays,     \* calls nobody waits for that may still be served
    call,       \* the call in progress of each thread
    main,       \* position of the main thread
    loop,       \* position of the heartbeat loop
    held,       \* the lease ID the client remembers
    ok,         \* LeaseManager.mu.ok
    cancelled,  \* the context of the loop is cancelled
    due,        \* the ticker has fired
    age,        \* time since the last success, at most TTL
    entry,      \* the state of the route as the session shows it
    leaky,      \* a call that could leave a claim behind has failed
    faults      \* faults so far

wvars == <<daemon, claims, strays, faults>>
cvars == <<kind, main, loop, held, ok, cancelled, due, age, entry, leaky>>
vars == <<kind, daemon, claims, strays, faults, call, main, loop, held, ok, cancelled,
          due, age, entry, leaky>>

Threads == {"main", "loop"}
Ports == {MyPort} \cup OtherPorts
LegacyID == 0               \* stands for "legacy:project:branch"
IDs == 1..MaxID             \* lease IDs of this client
OtherID == MaxID + 1        \* and of the others; IDs are random, they never meet
NoCall == [op |-> "none", id |-> LegacyID, status |-> "none", age |-> 0]
Ops == {"post", "routes", "beat", "delete"}
Errors == {"missing", "rejected", "unavailable"}
Statuses == {"sent", "ok"} \cup Errors
Owners == {"me", "other"}

TypeOK ==
    /\ kind \in Kinds
    /\ daemon \in {"new", "old", "down"}
    /\ claims \subseteq [id : IDs \cup {LegacyID, OtherID}, by : Owners, port : Ports, left : 0..TTL]
    /\ strays \subseteq [op : Ops, id : IDs \cup {LegacyID}]
    /\ call \in [Threads -> {NoCall} \cup
                   [op : Ops, id : IDs \cup {LegacyID}, status : Statuses, age : 0..Timeout]]
    /\ main \in {"off", "registering", "fallback", "running", "stopping", "releasing",
                 "released", "failed"}
    /\ loop \in {"off", "idle", "beat", "again", "routes", "renewed", "unrenewed",
                 "failing", "late", "ended"}
    /\ held \in IDs \cup {LegacyID}
    /\ ok \in BOOLEAN /\ cancelled \in BOOLEAN /\ due \in BOOLEAN /\ leaky \in BOOLEAN
    /\ age \in 0..TTL /\ faults \in 0..MaxFaults
    /\ entry \in {"pending", "active", "recovering", "failed", "released"}

Init ==
    /\ kind \in Kinds /\ daemon \in Versions
    /\ claims = {} /\ strays = {} /\ faults = 0
    /\ call = [t \in Threads |-> NoCall]
    /\ main = "off" /\ loop = "off" /\ entry = "pending"
    /\ held = LegacyID /\ age = 0
    /\ ok = FALSE /\ cancelled = FALSE /\ due = FALSE /\ leaky = FALSE

IsSession == kind = "session"

-----------------------------------------------------------------------------
(* The daemon                                                              *)

Legacy == {k \in claims : k.id = LegacyID}
LeaseOf(owner) == {k \in claims : k.id # LegacyID /\ k.by = owner}
WithID(n) == {k \in claims : k.id = n}

(* Live claims that ask for another port.                                  *)
Rivals(port, among) == {k \in among : k.left > 0 /\ k.port # port}

Renewed(ks) == {[k EXCEPT !.left = TTL] : k \in ks}

IDsInUse ==
    {k.id : k \in claims} \cup {held} \cup {s.id : s \in strays} \cup {call[t].id : t \in Threads}
FreshID(owner) ==
    IF owner = "other" THEN OtherID
    ELSE CHOOSE n \in IDs \ IDsInUse : \A m \in IDs \ IDsInUse : n <= m

(* What the daemon does with a call and what it answers: the claims after, *)
(* the status, the ID in the answer.                                       *)
Missing == [claims |-> claims, id |-> LegacyID, status |-> "missing"]
Delete(ks) == [claims |-> claims \ ks, id |-> LegacyID, status |-> "ok"]

(* A renewal is stored before it is compared with the other claims.        *)
Extend(ks, id) ==
    LET after == (claims \ ks) \cup Renewed(ks) IN
    [claims |-> after, id |-> id,
     status |-> IF \A k \in ks : Rivals(k.port, after) = {} THEN "ok" ELSE "rejected"]

Create(others, owner, port, id) ==
    IF Rivals(port, others) # {}
    THEN [claims |-> claims, id |-> LegacyID, status |-> "rejected"]
    ELSE [claims |-> others \cup {[id |-> id, by |-> owner, port |-> port, left |-> TTL]},
          id |-> id, status |-> "ok"]

(* A client_id that has a lease gets that lease again.                     *)
CreateLease(owner, port) ==
    IF LeaseOf(owner) = {} THEN Create(claims, owner, port, FreshID(owner))
    ELSE Extend(LeaseOf(owner), (CHOOSE k \in LeaseOf(owner) : TRUE).id)

(* The legacy API has one claim for the route, whoever registers it.       *)
RegisterLegacy(owner, port) == Create(claims \ Legacy, owner, port, LegacyID)

HeartbeatLease(id) == IF WithID(id) = {} THEN Missing ELSE Extend(WithID(id), id)

(* A legacy heartbeat of a route that only leases claim adds a claim of    *)
(* the same port.                                                          *)
HeartbeatLegacy ==
    LET live == {k \in claims : k.left > 0}
        k == CHOOSE x \in live : TRUE IN
    IF Legacy # {} THEN Extend(Legacy, LegacyID)
    ELSE IF live # {} THEN Create(claims, k.by, k.port, LegacyID) ELSE Missing

DeleteLegacy == IF Legacy = {} THEN Missing ELSE Delete(Legacy)

(* The handlers.  The old daemon knows /routes only.                       *)
Handled(op, id) ==
    CASE op = "routes"                    -> RegisterLegacy("me", MyPort)
      [] op = "beat" /\ id = LegacyID     -> HeartbeatLegacy
      [] op = "delete" /\ id = LegacyID   -> DeleteLegacy
      [] op = "post" /\ daemon = "new"    -> CreateLease("me", MyPort)
      [] op = "beat" /\ id # LegacyID /\ daemon = "new"   -> HeartbeatLease(id)
      [] op = "delete" /\ id # LegacyID /\ daemon = "new" -> Delete(WithID(id))
      [] OTHER -> Missing

Serve(t) ==
    /\ daemon # "down" /\ call[t].status = "sent"
    /\ LET done == Handled(call[t].op, call[t].id) IN
       /\ claims' = done.claims
       /\ call' = [call EXCEPT ![t] = [@ EXCEPT !.status = done.status, !.id = done.id, !.age = 0]]
    /\ UNCHANGED <<daemon, strays, faults, cvars>>

ServeStray(s) ==
    /\ daemon # "down"
    /\ claims' = Handled(s.op, s.id).claims
    /\ strays' = strays \ {s}
    /\ UNCHANGED <<daemon, faults, call, cvars>>

DropStray(s) ==
    /\ strays' = strays \ {s}
    /\ UNCHANGED <<daemon, claims, faults, call, cvars>>

(* Controller.Expire.                                                      *)
Sweep ==
    /\ \E k \in claims : k.left = 0
    /\ claims' = {k \in claims : k.left > 0}
    /\ UNCHANGED <<daemon, strays, faults, call, cvars>>

(* Other clients register and release the same route; until then they      *)
(* renew in time (Tick leaves their claims alone).                         *)
OtherAsks ==
    /\ daemon # "down"
    /\ \/ \E p \in OtherPorts : claims' = RegisterLegacy("other", p).claims
       \/ \E p \in {q \in OtherPorts : daemon = "new" /\ LeaseOf("other") = {}} :
             claims' = CreateLease("other", p).claims
       \/ claims' = claims \ LeaseOf("other")
       \/ claims' = DeleteLegacy.claims
    /\ UNCHANGED <<daemon, strays, faults, call, cvars>>

(* A stop or crash of the daemon: claims live in memory only, connections  *)
(* break.  It comes back, in either version.                               *)
StopDaemon ==
    /\ daemon # "down" /\ faults < MaxFaults
    /\ daemon' = "down" /\ claims' = {} /\ strays' = {} /\ faults' = faults + 1
    /\ UNCHANGED <<call, cvars>>

StartDaemon ==
    /\ daemon = "down" /\ daemon' \in Versions
    /\ UNCHANGED <<claims, strays, faults, call, cvars>>

-----------------------------------------------------------------------------
(* A call, on the client's side                                            *)

Send(t, op, id) ==
    call' = [call EXCEPT ![t] = [op |-> op, id |-> id, status |-> "sent", age |-> 0]]
Done(t) == call' = [call EXCEPT ![t] = NoCall]
Fails(t, status) == call' = [call EXCEPT ![t] = [@ EXCEPT !.id = LegacyID, !.status = status, !.age = 0]]
Answer(t) == call[t].status
Answered(t) == Answer(t) \notin {"none", "sent"}
Accepted(t) == Answer(t) \in {"ok", "missing"}       \* as Release takes it

MayLeak(op) == leaky \/ op \in {"post", "routes", "delete"}
Abandoned(t) == strays \cup {[op |-> call[t].op, id |-> call[t].id]}

Refused(t) ==
    /\ daemon = "down" /\ Answer(t) = "sent"
    /\ Fails(t, "unavailable")
    /\ leaky' = MayLeak(call[t].op)
    /\ UNCHANGED <<wvars, kind, main, loop, held, ok, cancelled, due, age, entry>>

(* The connection breaks after the daemon has acted: no answer, or one     *)
(* that cannot be decoded.                                                 *)
LoseAnswer(t) ==
    /\ Accepted(t) /\ faults < MaxFaults
    /\ \E s \in {"unavailable", "rejected"} : Fails(t, s)
    /\ faults' = faults + 1
    /\ leaky' = MayLeak(call[t].op)
    /\ UNCHANGED <<daemon, claims, strays, kind, main, loop, held, ok, cancelled, due, age, entry>>

(* The calls of a session's loop carry its context (except the release of  *)
(* a lease that came late); those of runtime.Manager carry none.           *)
Interrupted(t) == IsSession /\ t = "loop" /\ cancelled /\ call[t].op # "delete"

(* The HTTP client gives a call up: it is overdue, or its context is       *)
(* cancelled, which also beats an answer that is already there.            *)
GiveUp(t) ==
    /\ \/ Interrupted(t) /\ Answer(t) # "none"
       \/ Answer(t) = "sent" /\ call[t].age = Timeout
    /\ strays' = IF Answer(t) = "sent" /\ daemon # "down" THEN Abandoned(t) ELSE strays
    /\ Cardinality(strays') <= MaxStrays
    /\ Fails(t, "unavailable")
    /\ leaky' = MayLeak(call[t].op)
    /\ UNCHANGED <<daemon, claims, faults, kind, main, loop, held, ok, cancelled, due, age, entry>>

-----------------------------------------------------------------------------
(* The main thread                                                         *)

(* Activate, or runtime.Manager.Start: POST /v1/leases with the client_id. *)
Begin ==
    /\ main = "off" /\ main' = "registering"
    /\ Send("main", "post", LegacyID)
    /\ UNCHANGED <<wvars, kind, loop, held, ok, cancelled, due, age, entry, leaky>>

(* A daemon without /v1/leases answers 404: POST /routes.                  *)
FallBack ==
    /\ main = "registering" /\ Answer("main") = "missing" /\ main' = "fallback"
    /\ Send("main", "routes", LegacyID)
    /\ UNCHANGED <<wvars, kind, loop, held, ok, cancelled, due, age, entry, leaky>>

Registered ==
    /\ main \in {"registering", "fallback"} /\ Answer("main") = "ok"
    /\ main' = "running" /\ loop' = "idle" /\ ok' = TRUE /\ entry' = "active"
    /\ held' = call["main"].id
    /\ Done("main")
    /\ UNCHANGED <<wvars, kind, cancelled, due, age, leaky>>

NotRegistered ==
    /\ main \in {"registering", "fallback"} /\ Answer("main") \in Errors
    /\ main = "registering" => Answer("main") # "missing"
    /\ main' = "failed" /\ entry' = "failed"
    /\ Done("main")
    /\ UNCHANGED <<wvars, kind, loop, held, ok, cancelled, due, age, leaky>>

(* The end of the session or of the wrapped command; webportctl does not   *)
(* cancel its loop, it exits.                                              *)
Cancel ==
    /\ main = "running" /\ main' = "stopping"
    /\ cancelled' = (kind # "ctl")
    /\ UNCHANGED <<wvars, kind, call, loop, held, ok, due, age, entry, leaky>>

(* LeaseManager.Stop and runtime.Manager.Stop: the lease is read under the *)
(* mutex and released outside.                                             *)
Release ==
    /\ main = "stopping" /\ main' = "releasing"
    /\ ok' = FALSE
    /\ Send("main", "delete", held)
    /\ UNCHANGED <<wvars, kind, loop, held, cancelled, due, age, entry, leaky>>

(* The entry is Released whatever the answer was.                          *)
Released ==
    /\ kind # "ctl" /\ main = "releasing" /\ Answered("main") /\ main' = "released"
    /\ entry' = "released"
    /\ leaky' = (leaky \/ ~Accepted("main"))
    /\ Done("main")
    /\ UNCHANGED <<wvars, kind, loop, held, ok, cancelled, due, age>>

(* webportctl exits, and its loop with it.                                 *)
Exit ==
    /\ kind = "ctl" /\ main = "releasing" /\ Answered("main") /\ main' = "released"
    /\ entry' = "released" /\ loop' = "ended"
    /\ leaky' = (leaky \/ ~Accepted("main"))
    /\ call' = [t \in Threads |-> NoCall]
    /\ \/ strays' = strays
       \/ Answer("loop") = "sent" /\ strays' = Abandoned("loop")
    /\ Cardinality(strays') <= MaxStrays
    /\ UNCHANGED <<daemon, claims, faults, kind, held, ok, cancelled, due, age>>

-----------------------------------------------------------------------------
(* The heartbeat loop                                                      *)

(* Mutant: the context is not looked at.                                   *)
LoopEndsOnError ==
    /\ loop = "idle" /\ loop' = "ended"
    /\ due /\ IsSession /\ ~ok
    /\ UNCHANGED <<wvars, kind, call, main, held, ok, cancelled, due, age, entry, leaky>>

LoopEnds ==
    /\ loop = "idle" /\ loop' = "ended"
    /\ cancelled \/ (due /\ IsSession /\ ~ok)
    /\ UNCHANGED <<wvars, kind, call, main, held, ok, cancelled, due, age, entry, leaky>>

Heartbeat ==
    /\ loop = "idle" /\ due /\ (IsSession => ok)
    /\ loop' = "beat" /\ due' = FALSE
    /\ Send("loop", "beat", held)
    /\ UNCHANGED <<wvars, kind, main, held, ok, cancelled, age, entry, leaky>>

(* The daemon does not know the lease: register again, with the same       *)
(* client_id.                                                              *)
RegisterAgain ==
    /\ loop = "beat" /\ Answer("loop") = "missing" /\ loop' = "again"
    /\ Send("loop", "post", LegacyID)
    /\ UNCHANGED <<wvars, kind, main, held, ok, cancelled, due, age, entry, leaky>>

FallBackAgain ==
    /\ loop = "again" /\ Answer("loop") = "missing" /\ loop' = "routes"
    /\ Send("loop", "routes", LegacyID)
    /\ held' = IF IsSession THEN held ELSE LegacyID
    /\ UNCHANGED <<wvars, kind, main, ok, cancelled, due, age, entry, leaky>>

Renewing == loop \in {"beat", "again", "routes"}

(* LeaseManager.heartbeat with an answer: the lease is replaced, or, after *)
(* Stop, released.                                                         *)
KeepsAlways == TRUE     \* mutant: ok is not read again after the call
Keeps == ok

Adopt ==
    /\ IsSession /\ Renewing /\ Answer("loop") = "ok"
    /\ IF Keeps
       THEN held' = call["loop"].id /\ loop' = "renewed" /\ Done("loop")
       ELSE held' = held /\ loop' = "late" /\ Send("loop", "delete", call["loop"].id)
    /\ UNCHANGED <<wvars, kind, main, ok, cancelled, due, age, entry, leaky>>

LateReleased ==
    /\ loop = "late" /\ Answered("loop") /\ loop' = "ended"
    /\ leaky' = (leaky \/ ~Accepted("loop"))
    /\ Done("loop")
    /\ UNCHANGED <<wvars, kind, main, held, ok, cancelled, due, age, entry>>

(* OnRecovery, under the manager's mutex: nothing after Released.          *)
Shown(state) == IF entry = "released" THEN entry ELSE state

ReportRenewed ==
    /\ loop = "renewed" /\ loop' = "idle"
    /\ age' = 0
    /\ entry' = Shown("active")
    /\ UNCHANGED <<wvars, kind, call, main, held, ok, cancelled, due, leaky>>

(* Unavailable, or a 404 to the end: try again at the next tick.  What     *)
(* cannot be repaired by trying again ends the loop.                       *)
Retries == Answer("loop") = "unavailable" \/ (Answer("loop") = "missing" /\ loop = "routes")

NotRenewed ==
    /\ IsSession /\ Renewing /\ (Retries \/ Answer("loop") = "rejected")
    /\ loop' = IF Retries THEN "unrenewed" ELSE "failing"
    /\ Done("loop")
    /\ UNCHANGED <<wvars, kind, main, held, ok, cancelled, due, age, entry, leaky>>

ReportUnrenewed ==
    /\ loop = "unrenewed"
    /\ loop' = IF age = TTL THEN "failing" ELSE "idle"
    /\ entry' = Shown("recovering")
    /\ UNCHANGED <<wvars, kind, call, main, held, ok, cancelled, due, age, leaky>>

(* Mutant: the error of Run is dropped.                                    *)
FailSilently ==
    /\ loop = "failing" /\ loop' = "ended"
    /\ UNCHANGED <<wvars, kind, call, main, held, ok, cancelled, due, age, entry, leaky>>

(* The goroutine of Activate after Run has returned.                       *)
Fail ==
    /\ loop = "failing" /\ loop' = "ended"
    /\ entry' = IF cancelled THEN entry ELSE Shown("failed")
    /\ UNCHANGED <<wvars, kind, call, main, held, ok, cancelled, due, age, leaky>>

(* runtime.Manager: an answer to a registration is kept, every error is a  *)
(* warning.                                                                *)
Continue ==
    /\ ~IsSession /\ Renewing /\ Answered("loop") /\ loop' = "idle"
    /\ Answer("loop") = "missing" => loop = "routes"
    /\ held' = IF loop = "again" /\ Answer("loop") = "ok" THEN call["loop"].id ELSE held
    /\ Done("loop")
    /\ UNCHANGED <<wvars, kind, main, ok, cancelled, due, age, entry, leaky>>

-----------------------------------------------------------------------------
(* Time: one tick is a heartbeat interval.  It passes when both threads    *)
(* wait, for the ticker or for a call that is not overdue.                 *)

Quiet ==
    /\ \A t \in Threads : Answer(t) = "none" \/ (Answer(t) = "sent" /\ call[t].age < Timeout)
    /\ main \notin {"off", "stopping"}
    /\ loop \notin {"renewed", "unrenewed", "failing"}
    /\ loop = "idle" => ~due /\ ~cancelled

Ticking == loop \notin {"off", "ended"}

Tick ==
    /\ Quiet
    /\ claims' = {[k EXCEPT !.left = IF k.by = "other" \/ @ = 0 THEN @ ELSE @ - 1] : k \in claims}
    /\ call' = [t \in Threads |->
                  IF Answer(t) = "sent" THEN [call[t] EXCEPT !.age = @ + 1] ELSE call[t]]
    /\ due' = Ticking
    /\ age' = IF IsSession /\ Ticking THEN (IF age = TTL THEN TTL ELSE age + 1) ELSE 0
    /\ UNCHANGED <<daemon, strays, faults, kind, main, loop, held, ok, cancelled, entry, leaky>>

-----------------------------------------------------------------------------
MainStep == FallBack \/ Registered \/ NotRegistered \/ Release \/ Released \/ Exit

LoopStep ==
    \/ LoopEnds \/ Heartbeat \/ RegisterAgain \/ FallBackAgain \/ Adopt \/ LateReleased
    \/ ReportRenewed \/ NotRenewed \/ ReportUnrenewed \/ Fail \/ Continue

CallStep(t) == Serve(t) \/ Refused(t) \/ GiveUp(t)

StrayStep == \E s \in strays : ServeStray(s) \/ DropStray(s)

Next ==
    \/ Begin \/ Cancel \/ MainStep \/ LoopStep
    \/ \E t \in Threads : CallStep(t) \/ LoseAnswer(t)
    \/ StrayStep \/ Sweep \/ OtherAsks \/ StopDaemon \/ StartDaemon \/ Tick

(* Threads run, calls are answered or given up, the daemon is started      *)
(* again, its expiry ticker fires, and time passes.  A select in which     *)
(* both the ticker and the cancelled context are ready picks either one    *)
(* with equal chance, so the context is not passed over for ever (SF).     *)
(* Nothing makes a client begin or stop.                                   *)
Fairness ==
    /\ WF_vars(MainStep) /\ WF_vars(LoopStep) /\ SF_vars(LoopEnds)
    /\ \A t \in Threads : WF_vars(CallStep(t))
    /\ WF_vars(StrayStep) /\ WF_vars(StartDaemon) /\ WF_vars(Sweep) /\ WF_vars(Tick)

Spec == Init /\ [][Next]_vars /\ Fairness

-----------------------------------------------------------------------------
(* What the client achieves                                                *)

Stopped == main = "released" /\ loop = "ended"
Served == \E k \in claims : k.left > 0 /\ k.port = MyPort

(* A session that has released its route has left no lease at the daemon,  *)
(* though a registration may have been under way when it stopped: the      *)
(* answer that comes after Stop is released at once.  Only a call that was *)
(* itself lost or given up can leave one (until it expires).               *)
StopLeavesNothing == IsSession /\ Stopped /\ ~leaky => LeaseOf("me") = {}

(* A session whose route is not served gets it back or is told that it has *)
(* failed: it never goes on showing an active route.  The exception is a   *)
(* client of the old API whose route somebody else has leased on another   *)
(* port: the daemon takes its heartbeat for the other's route.             *)
Impersonated == held = LegacyID /\ Rivals(MyPort, claims) # {}

LossIsNoticed ==
    IsSession /\ main = "running" /\ ~Served
        ~> Served \/ entry = "failed" \/ main # "running" \/ Impersonated

(* A client that has released its route, or could not register, holds no   *)
(* lease in the end, whatever was lost on the way: its loop does not go on *)
(* renewing or registering, and the daemon lets the claim expire.          *)
GoneIsVacated == [](main \in {"released", "failed"} => <>[](LeaseOf("me") = {}))
=============================================================================
