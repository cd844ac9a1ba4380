--------------------------- MODULE DaemonLifecycle --------------------------
(***************************************************************************)
(* The daemon as a process: it starts, serves, and shuts down in the order *)
(* of shutdown.Manager, while its goroutines go on: the expiry ticker, the *)
(* local CA's renewal, process discovery, the web UI's retry ticker, an    *)
(* HTTP request and a webui.update on the socket.  All of them end up in   *)
(* one publication: change the store, take a snapshot of it, replace       *)
(* Traefik's document.                                                     *)
(*                                                                         *)
(* Two locks are part of the story: the controller's, held over the whole  *)
(* of a change and its publication, and the web UI manager's, held over    *)
(* its call of the controller.  Shutdown takes neither.                    *)
(***************************************************************************)
EXTENDS Naturals, Sequences

CONSTANTS
    Workers,    \* the background goroutines present: "sweep", "renew", "scan"
    MaxEvents   \* bound: HTTP requests, updates of the settings, ticks of the workers with
                \* something to do and writes that fail, between a start and the next

ASSUME DaemonAssumption ==
    /\ Workers \subseteq {"sweep", "renew", "scan"}
    /\ MaxEvents \in Nat

VARIABLES
    stage,      \* where main() is: "off" or one of Stages
    call,       \* the change each thread is making
    lock,       \* route.Controller.mu
    publishMu,  \* the mutex around snapshot and write
    claims,     \* routes claimed at the controller
    lease,      \* the web UI's claim: "permanent", or a client's heartbeat has
                \* "given" it an expiry, which may have "lapsed"
    taken,      \* since its last publication a client has deleted the web UI's route
                \* or given it an expiry
    manual, discovered,   \* the store
    document,   \* Traefik's dynamic configuration, the routes in it
    mu,         \* webui.Manager.mu
    settings,   \* the web UI's settings in memory
    saved,      \* and in their file
    server,     \* the web UI's HTTP server: "none" or "up"
    closing,    \* a server that has been told to close still has the address
    failure,    \* routeError: "none", "listen" or "route"
    stopped,    \* webui.Manager.stopped
    retry,      \* the retry goroutine: "off", "idle", "waiting", "applying" or "ended"
    kept,       \* the last removal of the web UI's route was refused
    failed,     \* a write of the document has failed in this life
    late,       \* an HTTP request was served while the daemon shut down
    events

book == <<claims, lease, taken>>
ctl == <<call, lock, publishMu, book, manual, discovered, document, late>>
ui == <<mu, settings, saved, server, closing, failure, stopped, retry, kept, failed>>
vars == <<stage, ctl, ui, events>>

Hosts == {"own", "shared"}      \* "shared" is also the hostname of "app" and of "found"
UIRoutes == {"ui-own", "ui-shared"}
UIRoute(host) == IF host = "own" THEN "ui-own" ELSE "ui-shared"
Routes == {"app", "found"} \cup UIRoutes
SharedHost == {"app", "ui-shared"}
Leases == {"permanent", "given", "lapsed"}

UICallers == {"main", "retry", "socket"}
Threads == Workers \cup UICallers \cup {"http"}
Free == "free"
NoCall == [step |-> "none", op |-> "none", claims |-> {}, lease |-> "permanent",
           manual |-> {}, snapshot |-> {}]

(* OnStopping's callbacks in the order of their registration; the web UI's *)
(* takes two steps.                                                        *)
StopOrderWithoutScan ==         \* mutant: discovery is not stopped
    <<"sweep", "renew", "webui", "retry", "socket", "clear", "empty", "http">>
StopOrder ==
    <<"sweep", "renew", "scan", "webui", "retry", "socket", "clear", "empty", "http">>

Starting == {"applying", "listening"}
Stopping == {StopOrder[i] : i \in 1..Len(StopOrder)}
Stages == {"off", "running"} \cup Starting \cup Stopping

TypeOK ==
    /\ stage \in Stages
    /\ call \in [Threads ->
            [step : {"none", "waiting", "checked", "stored", "writing", "done", "refused"},
             op : {"none", "register", "release", "drop", "delete", "ui", "scan", "renew"},
             claims : SUBSET Routes, lease : Leases, manual : SUBSET Routes, snapshot : SUBSET Routes]]
    /\ lock \in Threads \cup {Free} /\ publishMu \in Threads \cup {Free}
    /\ claims \subseteq Routes /\ manual \subseteq Routes /\ discovered \subseteq {"found"}
    /\ document \subseteq Routes /\ lease \in Leases
    /\ mu \in UICallers \cup {Free}
    /\ {settings, saved} \subseteq [enabled : BOOLEAN, host : Hosts]
    /\ server \in {"none", "up"} /\ failure \in {"none", "listen", "route"}
    /\ retry \in {"off", "idle", "waiting", "applying", "ended"}
    /\ {closing, stopped, kept, failed, taken, late} \subseteq BOOLEAN
    /\ events \in 0..MaxEvents

Fresh == [enabled |-> FALSE, host |-> "own"]

Init ==
    /\ stage = "off"
    /\ call = [t \in Threads |-> NoCall] /\ lock = Free /\ publishMu = Free
    /\ claims = {} /\ lease = "permanent" /\ taken = FALSE /\ manual = {} /\ discovered = {}
    /\ document = {"app"}       \* left by a daemon that has crashed
    /\ mu = Free /\ settings = Fresh /\ saved \in [enabled : BOOLEAN, host : {"own"}]
    /\ server = "none" /\ closing = FALSE /\ failure = "none"
    /\ stopped = FALSE /\ retry = "off" /\ kept = FALSE /\ failed = FALSE
    /\ late = FALSE
    /\ events = 0

-----------------------------------------------------------------------------
(* A change of the store and its publication                               *)

(* Settings are validated when they are saved and loaded: an enabled web   *)
(* UI has a password.                                                      *)
Wanted == settings.enabled

ClaimsAfter(op) ==
    CASE op = "register" -> claims \cup {"app"}
      [] op = "release"  -> claims \ {"app"}
      [] op = "delete"   -> claims \ UIRoutes
      [] op = "ui"       -> (claims \ UIRoutes) \cup (IF Wanted THEN {UIRoute(settings.host)} ELSE {})
      [] OTHER           -> claims

(* The routes of the claims that have not expired.                         *)
Desired(op) ==
    IF lease = "lapsed" /\ op # "ui" THEN ClaimsAfter(op) \ UIRoutes ELSE ClaimsAfter(op)

(* One hostname twice, among the claims or with a discovered process.      *)
Conflict(routes) ==
    SharedHost \subseteq routes \/ (discovered # {} /\ routes \cap SharedHost # {})

Publishes(op) == op = "register" \/ (op = "ui" /\ Wanted)     \* even without a change
Locking(op) == op \in {"register", "release", "drop", "delete", "ui"}
OnUI(op) == op \in {"delete", "ui"}

Happens == events < MaxEvents /\ events' = events + 1

Begin(t, op) == call' = [call EXCEPT ![t] = [NoCall EXCEPT !.step = "waiting", !.op = op]]
Idle(t) == call[t].step = "none"
Goto(t, s) == call' = [call EXCEPT ![t].step = s]

(* Only the web UI manager looks at the result.                            *)
Result(t, s) ==
    call' = [call EXCEPT ![t] = IF t \in UICallers THEN [NoCall EXCEPT !.step = s, !.op = "ui"] ELSE NoCall]

(* The controller, under its lock: nothing to remove, a conflict, or a new *)
(* set of routes.  Whoever removes something is refused as well, when      *)
(* others are in conflict.                                                 *)
Check(t) ==
    /\ call[t].step = "waiting" /\ call[t].op # "drop" /\ lock = Free
    /\ LET op == call[t].op
           after == ClaimsAfter(op)
           nothing == after = claims /\ ~Publishes(op) IN
       IF nothing \/ Conflict(Desired(op))
       THEN Result(t, IF nothing THEN "done" ELSE "refused") /\ UNCHANGED lock
       ELSE /\ call' = [call EXCEPT ![t] = [@ EXCEPT !.step = "checked", !.claims = after,
                                                     !.manual = Desired(op)]]
            /\ lock' = t
    /\ UNCHANGED <<stage, publishMu, book, manual, discovered, document, late, ui, events>>

(* The new set goes to the store; what it replaces is kept in case the     *)
(* publication fails.  Discovery may have changed the store since the      *)
(* check: it does not take the controller's lock.                          *)
Store(t) ==
    /\ call[t].step = "checked"
    /\ call' = [call EXCEPT ![t] = [@ EXCEPT !.step = "stored", !.claims = claims, !.lease = lease,
                                             !.manual = manual]]
    /\ claims' = call[t].claims /\ manual' = call[t].manual
    /\ lease' = IF OnUI(call[t].op) THEN "permanent" ELSE lease
    /\ taken' = (taken \/ call[t].op = "delete")
    /\ UNCHANGED <<stage, lock, publishMu, discovered, document, late, ui, events>>

(* DELETE /routes takes a route that no legacy client has registered from  *)
(* the store, and leaves its claim.                                        *)
Drop(t) ==
    /\ call[t].step = "waiting" /\ call[t].op = "drop" /\ lock = Free
    /\ IF manual \cap UIRoutes = {} THEN Result(t, "done") /\ UNCHANGED <<lock, taken, manual>>
       ELSE /\ call' = [call EXCEPT ![t] = [@ EXCEPT !.step = "stored", !.claims = claims,
                                                     !.manual = manual \cap UIRoutes]]
            /\ lock' = t /\ manual' = manual \ UIRoutes /\ taken' = TRUE
    /\ UNCHANGED <<stage, publishMu, claims, lease, discovered, document, late, ui, events>>

Snapshot(t) ==
    /\ call[t].step = "stored" /\ publishMu = Free /\ publishMu' = t
    /\ call' = [call EXCEPT ![t] = [@ EXCEPT !.step = "writing", !.snapshot = manual \cup discovered]]
    /\ UNCHANGED <<stage, lock, book, manual, discovered, document, late, ui, events>>

Unlock(t) == publishMu' = Free /\ lock' = (IF lock = t THEN Free ELSE lock)

Write(t) ==
    /\ call[t].step = "writing" /\ Unlock(t)
    /\ document' = call[t].snapshot
    /\ Result(t, "done")
    /\ taken' = (taken /\ call[t].op # "ui")
    /\ UNCHANGED <<stage, claims, lease, manual, discovered, late, ui, events>>

(* The controller takes the change back; the others only log the error.    *)
WriteFails(t) ==
    /\ call[t].step = "writing" /\ Unlock(t)
    /\ Happens /\ failed' = TRUE
    /\ IF Locking(call[t].op)
       THEN /\ claims' = call[t].claims
            /\ manual' = IF call[t].op = "drop" THEN manual \cup call[t].manual ELSE call[t].manual
       ELSE UNCHANGED <<claims, manual>>
    /\ lease' = IF OnUI(call[t].op) THEN call[t].lease ELSE lease
    /\ Result(t, "refused")
    /\ UNCHANGED <<stage, taken, discovered, document, late, mu, settings, saved, server, closing,
                   failure, stopped, retry, kept>>

Ended(t) == call[t].step \in {"done", "refused"}

-----------------------------------------------------------------------------
(* Workers and requests                                                    *)

Alive == stage # "off"
Position(s) == CHOOSE i \in 1..Len(StopOrder) : StopOrder[i] = s
Passed(s) ==        \* shutdown has got past this stage
    /\ stage \in Stopping /\ s \in Stopping
    /\ Position(s) < Position(stage)

(* Discovery reconciles the store without the controller's lock, and       *)
(* leaves out a process whose hostname a route has; renewed certificate    *)
(* files only need the document written again.                             *)
Discoverable == manual \cap SharedHost = {}

Reconcile ==
    /\ discovered # {} \/ Discoverable
    /\ discovered' = {"found"} \ discovered
    /\ call' = [call EXCEPT !["scan"] = [NoCall EXCEPT !.step = "stored", !.op = "scan"]]
    /\ UNCHANGED <<lock, publishMu, book, manual, document, late>>

Renew ==
    /\ call' = [call EXCEPT !["renew"] = [NoCall EXCEPT !.step = "stored", !.op = "renew"]]
    /\ UNCHANGED <<lock, publishMu, book, manual, discovered, document, late>>

Expire ==
    /\ "app" \in claims /\ Begin("sweep", "release")
    /\ UNCHANGED <<lock, publishMu, book, manual, discovered, document, late>>

(* The ticker of a worker that has not been stopped: the sweeper finds an  *)
(* expired route, the wildcard certificate is due, a scan finds a change.  *)
Works(w) ==
    /\ stage \in Starting \cup {"running"} \/ (stage \in Stopping /\ ~Passed(w) /\ stage # w)
    /\ Idle(w)
    /\ CASE w = "sweep" -> Expire [] w = "renew" -> Renew [] w = "scan" -> Reconcile
    /\ Happens
    /\ UNCHANGED <<stage, ui>>

(* The API accepts requests until server.Shutdown.                         *)
Accepting == stage = "running" \/ (stage \in Stopping /\ stage # "http")
Clearing == stage \in {"empty", "http"}

(* A client registers or releases "app", or deletes the web UI's route:    *)
(* under the name of its route ("drop") or of its lease ("delete").        *)
Request ==
    /\ Accepting /\ Idle("http") /\ Happens
    /\ \E op \in {"register", "release", "drop", "delete"} : Begin("http", op)
    /\ late' = (late \/ Clearing)
    /\ UNCHANGED <<stage, lock, publishMu, book, manual, discovered, document, ui>>

(* A client's heartbeat of the web UI's claim gives it an expiry, which    *)
(* has passed already if the client names none.  The store is refreshed,   *)
(* nothing is published.                                                   *)
Heartbeat ==
    /\ Accepting /\ Idle("http") /\ lock = Free /\ Happens
    /\ claims \cap UIRoutes # {} /\ taken' = TRUE
    /\ lease' \in {"given", "lapsed"}
    /\ manual' = IF lease' = "given" THEN manual \cup (claims \cap UIRoutes) ELSE manual
    /\ UNCHANGED <<stage, call, lock, publishMu, claims, discovered, document, late, ui>>

(* Time passes.  The sweeper leaves the daemon's own claim alone; the next *)
(* change leaves it out.                                                   *)
Lapse ==
    /\ lease = "given" /\ lease' = "lapsed"
    /\ UNCHANGED <<stage, call, lock, publishMu, claims, taken, manual, discovered, document, late,
                   ui, events>>

-----------------------------------------------------------------------------
(* webui.Manager                                                           *)

ServerClosedFirst(s) == IF s.enabled THEN "up" ELSE "none"      \* mutant: closed before the removal
ServerMeanwhile(s) == IF s.enabled THEN "up" ELSE server

(* applyLocked up to its call of the controller.  When the UI is wanted    *)
(* the server comes first; its address may still be taken.                 *)
Apply(t, s) ==
    IF stopped \/ (s.enabled /\ server = "none" /\ closing)
    THEN /\ failure' = IF stopped THEN failure ELSE "listen"
         /\ Goto(t, "done")
         /\ UNCHANGED server
    ELSE /\ server' = ServerMeanwhile(s)
         /\ Begin(t, "ui") /\ UNCHANGED failure

(* And from there.  A removal that is refused or fails is only logged.     *)
Applied(t) ==
    /\ t \in UICallers /\ Ended(t) /\ mu = t /\ mu' = Free
    /\ call' = [call EXCEPT ![t] = NoCall]
    /\ IF call[t].op = "none" THEN UNCHANGED <<server, closing, failure, kept>>
       ELSE /\ failure' = IF Wanted /\ call[t].step = "refused" THEN "route" ELSE "none"
            /\ server' = IF Wanted THEN server ELSE "none"
            /\ closing' = (closing \/ (~Wanted /\ server = "up"))
            /\ kept' = (call[t].step = "refused" /\ (kept \/ ~Wanted))
    /\ retry' = IF t = "retry" THEN "idle" ELSE IF t = "main" THEN "idle" ELSE retry
    /\ stage' = IF t = "main" THEN "listening" ELSE stage
    /\ UNCHANGED <<lock, publishMu, book, manual, discovered, document, late,
                   settings, saved, stopped, failed, events>>

(* The goroutine that closes a server gets to it.                          *)
Closed ==
    /\ closing /\ closing' = FALSE
    /\ UNCHANGED <<stage, ctl, mu, settings, saved, server, failure, stopped, retry, kept, failed, events>>

RetriesRoutes == failure = "route"      \* mutant: an address in use is final
Retries == failure # "none"

(* The ticker fires, the goroutine waits for the mutex, and applies again  *)
(* what has failed.  The closed stop channel ends it.                      *)
RetryTicks ==
    /\ retry = "idle" /\ retry' = "waiting"
    /\ UNCHANGED <<stage, ctl, mu, settings, saved, server, closing, failure, stopped, kept, failed, events>>

RetryLocks ==
    /\ retry = "waiting" /\ mu = Free
    /\ IF Retries THEN mu' = "retry" /\ retry' = "applying" /\ Apply("retry", settings)
       ELSE mu' = mu /\ retry' = "idle" /\ UNCHANGED <<server, failure, call>>
    /\ UNCHANGED <<stage, lock, publishMu, book, manual, discovered, document, late,
                   settings, saved, closing, stopped, kept, failed, events>>

RetryEnds ==
    /\ retry = "idle" /\ stopped /\ retry' = "ended"
    /\ UNCHANGED <<stage, ctl, mu, settings, saved, server, closing, failure, stopped, kept, failed, events>>

(* webui.update: settings that do not validate, or cannot be saved, change *)
(* nothing.                                                                *)
Served == stage = "running" \/ (stage \in Stopping /\ ~Passed("socket"))

Update ==
    /\ Served /\ stage # "socket" /\ mu = Free /\ Idle("socket") /\ Happens
    /\ settings' \in [enabled : BOOLEAN, host : Hosts]
    /\ saved' = settings' /\ mu' = "socket" /\ Apply("socket", settings')
    /\ UNCHANGED <<stage, lock, publishMu, book, manual, discovered, document, late,
                   closing, stopped, retry, kept, failed>>

-----------------------------------------------------------------------------
(* main                                                                    *)

(* An empty document, then the goroutines, then the web UI with the        *)
(* settings of the file.  A document that cannot be written ends it.       *)
Start ==
    /\ stage = "off"
    /\ stage' = "applying" /\ document' = {}
    /\ settings' = saved /\ mu' = "main" /\ Apply("main", saved)
    /\ retry' = "off" /\ late' = FALSE
    /\ UNCHANGED <<lock, publishMu, book, manual, discovered, saved, closing, stopped,
                   kept, failed, events>>

(* The socket, then the API.                                               *)
Listen ==
    /\ stage = "listening" /\ stage' = "running"
    /\ UNCHANGED <<ctl, ui, events>>

(* SIGTERM or SIGINT.                                                      *)
Terminate ==
    /\ stage = "running" /\ stage' = StopOrder[1]
    /\ UNCHANGED <<ctl, ui, events>>

After(s) == StopOrder[Position(s) + 1]

(* controller.Stop, the renewal's and discovery's: wait for the goroutine. *)
StopWorker ==
    /\ stage \in {"sweep", "renew", "scan"} /\ stage' = After(stage)
    /\ stage \in Workers => Idle(stage)
    /\ UNCHANGED <<ctl, ui, events>>

(* webui.Manager.Stop marks the manager under its mutex, and waits for the *)
(* retry goroutine outside of it.                                          *)
MuKept == "main"        \* mutant: the mutex is kept while waiting
MuAfterMark == Free

StopUI ==
    /\ stage = "webui" /\ mu = Free /\ stage' = After(stage)
    /\ stopped' = TRUE /\ server' = "none" /\ mu' = MuAfterMark
    /\ UNCHANGED <<ctl, settings, saved, closing, failure, retry, kept, failed, events>>

AwaitRetry ==
    /\ stage = "retry" /\ retry = "ended" /\ stage' = After(stage)
    /\ mu' = IF mu = "main" THEN Free ELSE mu
    /\ UNCHANGED <<ctl, settings, saved, server, closing, failure, stopped, retry, kept, failed, events>>

(* socket.Close waits for its handlers.                                    *)
CloseSocket ==
    /\ stage = "socket" /\ Idle("socket") /\ stage' = After(stage)
    /\ UNCHANGED <<ctl, ui, events>>

(* The store is cleared, the controller's claims are not; then the empty   *)
(* document is written, past both mutexes.                                 *)
Clear ==
    /\ stage = "clear" /\ stage' = After(stage)
    /\ manual' = {} /\ discovered' = {}
    /\ late' = ~Idle("http")
    /\ UNCHANGED <<call, lock, publishMu, book, document, ui, events>>

WriteEmpty ==
    /\ stage = "empty" /\ stage' = After(stage)
    /\ \/ document' = {} /\ UNCHANGED <<events, failed>>
       \/ document' = document /\ Happens /\ failed' = TRUE
    /\ UNCHANGED <<call, lock, publishMu, book, manual, discovered, late, mu, settings, saved,
                   server, closing, failure, stopped, retry, kept>>

(* The process ends: after server.Shutdown has waited for the request in   *)
(* progress or run out of time, or in a crash.                             *)
Dies ==
    /\ stage' = "off"
    /\ call' = [t \in Threads |-> NoCall] /\ lock' = Free /\ publishMu' = Free
    /\ claims' = {} /\ lease' = "permanent" /\ taken' = FALSE /\ manual' = {} /\ discovered' = {}
    /\ mu' = Free /\ settings' = Fresh /\ server' = "none" /\ closing' = FALSE
    /\ failure' = "none" /\ stopped' = FALSE /\ retry' = "off" /\ kept' = FALSE
    /\ failed' = FALSE
    /\ events' = 0

Exit ==
    /\ stage = "http" /\ Dies
    /\ UNCHANGED <<document, saved, late>>

Crash ==
    /\ Alive /\ Dies
    /\ UNCHANGED <<document, saved, late>>

-----------------------------------------------------------------------------
Publication(t) == Check(t) \/ Store(t) \/ Drop(t) \/ Snapshot(t) \/ Write(t) \/ Applied(t)

Shutdown ==
    StopWorker \/ StopUI \/ AwaitRetry \/ CloseSocket \/ Clear \/ WriteEmpty \/ Exit

Retry == RetryTicks \/ RetryLocks \/ RetryEnds

Next ==
    \/ Start \/ Listen \/ Terminate \/ Shutdown \/ Crash
    \/ Retry \/ Closed \/ Update \/ Request \/ Heartbeat \/ Lapse
    \/ \E w \in Workers : Works(w)
    \/ \E t \in Threads : Publication(t) \/ WriteFails(t)

(* Goroutines run, the retry ticker keeps on firing, a mutex that is free  *)
(* again and again is taken, and a closed channel is not passed over for   *)
(* ever.  Nothing makes the daemon start or stop.  The manager's callers   *)
(* take turns under its mutex; of the other goroutines it is enough that   *)
(* one goes on.                                                            *)
Fairness ==
    /\ WF_vars(Listen \/ Shutdown) /\ SF_vars(StopUI)
    /\ WF_vars(\E t \in UICallers : Publication(t))
    /\ WF_vars(\E t \in Threads \ UICallers : Publication(t))
    /\ WF_vars(Closed) /\ WF_vars(Retry) /\ SF_vars(RetryEnds)

Spec == Init /\ [][Next]_vars /\ Fairness

-----------------------------------------------------------------------------
(* What the daemon leaves and offers                                       *)

(* A daemon that was shut down leaves no route in Traefik's document: who  *)
(* publishes has been stopped before the store is cleared.  An HTTP        *)
(* request that was served meanwhile, or a failed write, is excepted.      *)
ShutdownLeavesNoRoute ==
    stage = "http" /\ ~late /\ ~failed => document = {}

(* The web UI's hostname leads to its server as long as the daemon runs:   *)
(* the server is there before the route and goes after it.  A removal that *)
(* was refused because other routes are in conflict, or a failed write, is *)
(* excepted: the server goes, the route stays.                             *)
UIRouteHasServer ==
    stage \in Starting \cup {"running"} /\ document \cap UIRoutes # {} /\ ~kept /\ ~failed
        => server = "up"

(* A daemon that was told to stop exits: no callback waits for a goroutine *)
(* that waits for a mutex held by the shutdown.                            *)
ShutdownEnds == stage \in Stopping ~> stage = "off"

(* A hostname is taken twice, the web UI's or another.                     *)
Blocked == Conflict((claims \ UIRoutes) \cup {UIRoute(settings.host)})

(* A web UI that is wanted is published under its hostname, though its     *)
(* address may still be in use by the server closed before, or a           *)
(* publication has failed: it is tried again.  A conflict over a hostname  *)
(* is an exception, and a client that has deleted the web UI's route or    *)
(* given it an expiry: the manager does not learn of it.                   *)
UIIsPublished ==
    stage = "running" /\ Wanted
        ~> \/ stage # "running" \/ ~Wanted \/ taken \/ Blocked
           \/ server = "up" /\ UIRoute(settings.host) \in document
=============================================================================
