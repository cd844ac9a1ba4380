---------------------------- MODULE CommandWrapper --------------------------
(***************************************************************************)
(* `webport dev -- COMMAND': the wrapper starts the command in a process   *)
(* group of its own, waits for its listener, leases the route, opens a     *)
(* control socket and a live file, and on a signal, a control request or   *)
(* the end of the command takes all of it down again, in the order of its  *)
(* deferred calls.  A restart runs the whole of it once more in the same   *)
(* process: a new generation, with a new identity read from the checkout,  *)
(* a new socket and a new live file.                                       *)
(*                                                                         *)
(* Around it: the user's signals, `webport dev stop' and `restart', which  *)
(* first list the live instances and then dial the one they have chosen,   *)
(* and the parent of `webport dev -d', which waits for the "ready" line.   *)
(***************************************************************************)
EXTENDS Naturals, FiniteSets

CONSTANTS
    Routes,      \* routes the checkout may stand for
    None,        \* no route named
    OtherSets,   \* the other live instances considered: sets of records
    MaxSignals,  \* bound: signals sent to the wrapper
    MaxAsks,     \* bound: control commands issued
    MaxCheckouts \* bound: changes of the checked-out branch

ASSUME WrapperAssumption ==
    /\ None \notin Routes
    /\ \A others \in OtherSets : others \subseteq
          [gen : {0}, route : Routes, here : BOOLEAN, session : BOOLEAN]
    /\ MaxSignals \in Nat /\ MaxAsks \in Nat /\ MaxCheckouts \in Nat

VARIABLES
    \* the wrapper
    pc,         \* position of runDevOnce
    why,        \* why the command is being terminated
    result,     \* what this run returns
    gen,        \* number of the run: 1, and one more for every restart
    route,      \* the route this generation stands for
    signals,    \* the channel of capacity one: a signal is pending
    restart,    \* the flag of this generation
    lock, lease, control,   \* held, held and open
    live,       \* the live file: one record, or none
    \* the command
    explicit,   \* the port was named with --port
    child,      \* the process started: "none", "running", "ok" or "failed"
    members,    \* its descendants in the group run
    listener,   \* who answers on the port: "none", "own" or "other"
    \* around it
    checkout, others, parent, pipe, ask, asks, sent, moves,
    stopped     \* a stop of this generation has been acknowledged

verdict == <<why, result>>
self == <<gen, route, signals, restart>>
held == <<lock, lease, control, live>>
wrapper == <<pc, why, result, gen, route, signals, restart, lock, lease, control, live>>
command == <<explicit, child, members, listener>>
outside == <<checkout, others, parent, pipe, ask, asks, sent, moves, stopped>>
vars == <<pc, why, result, gen, route, signals, restart, lock, lease, control, live,
          explicit, child, members, listener,
          checkout, others, parent, pipe, ask, asks, sent, moves, stopped>>

NoLive == [gen |-> 0, route |-> None, here |-> TRUE, session |-> FALSE]
NoAsk == [op |-> "none", arg |-> None, gen |-> 0, step |-> "none"]

TypeOK ==
    /\ pc \in {"start", "prepared", "caught", "waiting", "registering", "publishing",
               "writing", "unpublished", "announcing", "serving", "terminating",
               "releasing", "closing", "removing", "uncatching", "unlocking", "gone"}
    /\ why \in {"none", "signal", "failed", "exited", "signalled"}
    /\ result \in {"none", "ok", "error", "restart", "killed"}
    /\ gen \in 1..(MaxAsks + 1) /\ route \in Routes \cup {None}
    /\ {signals, restart, lock, lease, control, explicit, members, stopped} \subseteq BOOLEAN
    /\ live \in [gen : 0..(MaxAsks + 1), route : Routes \cup {None}, here : {TRUE}, session : {FALSE}]
    /\ child \in {"none", "running", "ok", "failed"}
    /\ listener \in {"none", "own", "other"}
    /\ checkout \in Routes /\ others \in OtherSets
    /\ parent \in {"none", "waiting", "ready", "failed", "timedout"}
    /\ pipe \in {"open", "ready"}
    /\ ask \in [op : {"none", "stop", "restart"}, arg : Routes \cup {None},
                gen : 0..(MaxAsks + 1), step : {"none", "chosen", "handling"}]
    /\ asks \in 0..MaxAsks /\ sent \in 0..MaxSignals /\ moves \in 0..MaxCheckouts

Init ==
    /\ pc = "start" /\ why = "none" /\ result = "none" /\ gen = 1 /\ route = None
    /\ signals = FALSE /\ restart = FALSE
    /\ lock = FALSE /\ lease = FALSE /\ control = FALSE /\ live = NoLive
    /\ explicit \in BOOLEAN /\ child = "none" /\ members = FALSE
    /\ listener \in {"none"} \cup (IF explicit THEN {"other"} ELSE {})
    /\ checkout \in Routes /\ others \in OtherSets
    /\ parent \in {"none", "waiting"} /\ pipe = "open"
    /\ ask = NoAsk /\ asks = 0 /\ sent = 0 /\ moves = 0 /\ stopped = FALSE

-----------------------------------------------------------------------------
(* The command: a process group                                            *)

GroupAlive == child = "running" \/ members

(* Nothing of the group is left, so its listener is gone.                  *)
GroupEnds == listener' = IF listener = "own" THEN "none" ELSE listener

Listen ==
    /\ GroupAlive /\ listener = "none" /\ listener' = "own"
    /\ UNCHANGED <<wrapper, explicit, child, members, outside>>

(* The child exits, by itself or on a signal; descendants may stay.        *)
Exit ==
    /\ child = "running" /\ child' \in {"ok", "failed"}
    /\ members' \in BOOLEAN
    /\ IF members' THEN UNCHANGED listener ELSE GroupEnds
    /\ UNCHANGED <<wrapper, explicit, outside>>

MembersExit ==
    /\ child \in {"ok", "failed"} /\ members
    /\ members' = FALSE /\ GroupEnds
    /\ UNCHANGED <<wrapper, explicit, child, outside>>

(* Another process takes or frees the port that was named.                 *)
OtherListens ==
    /\ explicit /\ listener # "own"
    /\ listener' = IF listener = "none" THEN "other" ELSE "none"
    /\ UNCHANGED <<wrapper, explicit, child, members, outside>>

-----------------------------------------------------------------------------
(* runDevOnce                                                              *)

Goto(p) == pc' = p
Terminate(reason) == pc' = "terminating" /\ why' = reason

(* The identity is inferred from the checkout, then the daemon is asked    *)
(* whether it is ready, then the store of this generation is locked.       *)
Prepare ==
    /\ pc = "start"
    /\ \/ Goto("prepared") /\ route' = checkout /\ lock' = TRUE /\ UNCHANGED result
       \/ Goto("gone") /\ result' = "error" /\ UNCHANGED <<route, lock>>
    /\ UNCHANGED <<why, gen, signals, restart, lease, control, live, command, outside>>

CatchSignals ==
    /\ pc = "prepared" /\ Goto("caught")
    /\ UNCHANGED <<verdict, self, held, command, outside>>

StartCommand ==
    /\ pc = "caught"
    /\ \/ Goto("waiting") /\ child' = "running" /\ UNCHANGED result
       \/ Goto("uncatching") /\ result' = "error" /\ UNCHANGED child
    /\ UNCHANGED <<why, self, held, explicit, members, listener, outside>>

(* waitForListener looks for a listener that carries the client token;     *)
(* waitForPort takes whoever answers on the port.                          *)
Found == listener = "own" \/ (explicit /\ listener = "other")

ListenerFound ==
    /\ pc = "waiting" /\ Found /\ Goto("registering")
    /\ UNCHANGED <<verdict, self, held, command, outside>>

(* A signal, the end of the child, too many listeners, or the timeout.     *)
NotFound ==
    /\ pc = "waiting"
    /\ \/ signals /\ signals' = FALSE /\ result' = "ok" /\ Terminate("signal")
       \/ signals' = signals /\ result' = "error" /\ Terminate("failed")
    /\ UNCHANGED <<gen, route, restart, held, command, outside>>

(* notifyDetachedReady writes one line for the waiting parent.             *)
Line(line) == IF pc = "announcing" /\ parent # "none" THEN "ready" ELSE line

(* manager.Start.                                                          *)
Register ==
    /\ pc = "registering"
    /\ \/ Goto("publishing") /\ lease' = TRUE /\ UNCHANGED <<why, result>>
       \/ Terminate("failed") /\ result' = "error" /\ UNCHANGED lease
    /\ pipe' = Line(pipe)
    /\ UNCHANGED <<self, lock, control, live, command,
                   checkout, others, parent, ask, asks, sent, moves, stopped>>

(* startWrapperControl: the socket, then the live file.                    *)
OpenControl ==
    /\ pc = "publishing"
    /\ \/ Goto("writing") /\ control' = TRUE
       \/ Goto("unpublished") /\ UNCHANGED control
    /\ UNCHANGED <<verdict, self, lock, lease, live, command, outside>>

WriteLive ==
    /\ pc = "writing"
    /\ \/ Goto("announcing") /\ live' = [NoLive EXCEPT !.gen = gen, !.route = route]
          /\ UNCHANGED control
       \/ Goto("unpublished") /\ control' = FALSE /\ UNCHANGED live
    /\ UNCHANGED <<verdict, self, lock, lease, command, outside>>

(* Without them the wrapper gives up: the lease goes first, the command    *)
(* with the deferred call.                                                 *)
GiveUp ==
    /\ pc = "unpublished" /\ result' = "error" /\ Terminate("failed")
    /\ lease' \in BOOLEAN
    /\ UNCHANGED <<self, lock, control, live, command, outside>>

Announce ==
    /\ pc = "announcing" /\ Goto("serving")
    /\ pipe' = Line(pipe)
    /\ UNCHANGED <<verdict, self, held, command,
                   checkout, others, parent, ask, asks, sent, moves, stopped>>

Serve ==
    /\ pc = "serving"
    /\ \/ signals /\ signals' = FALSE /\ Terminate("signalled")
       \/ child # "running" /\ signals' = signals /\ Terminate("exited")
    /\ UNCHANGED <<result, gen, route, restart, held, command, outside>>

(* terminate: the signal goes to the whole group, and after the grace      *)
(* period SIGKILL does; it returns when nobody of the group is alive and   *)
(* the child has been reaped.                                              *)
KillChild ==        \* mutant: SIGKILL goes to the child alone
    /\ pc = "terminating" /\ child = "running"
    /\ child' = "failed" /\ UNCHANGED <<wrapper, explicit, members, listener, outside>>

Kill ==
    /\ pc = "terminating" /\ GroupAlive
    /\ child' = IF child = "running" THEN "failed" ELSE child
    /\ members' = FALSE /\ GroupEnds
    /\ UNCHANGED <<wrapper, explicit, outside>>

Terminated == ~GroupAlive

AfterTerminate ==
    /\ pc = "terminating" /\ Terminated
    /\ Goto(IF why \in {"exited", "signalled"} THEN "releasing" ELSE "uncatching")
    /\ UNCHANGED <<verdict, self, held, command, outside>>

(* manager.Stop, and what the run returns.  The exit status of a command   *)
(* that was signalled is not looked at.                                    *)
Release ==
    /\ pc = "releasing" /\ Goto("closing")
    /\ lease' \in BOOLEAN
    /\ result' = CASE why = "exited" /\ child = "failed" -> "error"
                   [] restart /\ ~lease'                 -> "restart"
                   [] lease'                             -> "error"
                   [] OTHER                              -> "ok"
    /\ UNCHANGED <<why, self, lock, control, live, command, outside>>

(* The deferred calls.                                                     *)
CloseControl ==
    /\ pc = "closing" /\ Goto("removing") /\ control' = FALSE
    /\ UNCHANGED <<verdict, self, lock, lease, live, command, outside>>

RemoveLive ==
    /\ pc = "removing" /\ Goto("uncatching") /\ live' = NoLive
    /\ UNCHANGED <<verdict, self, lock, lease, control, command, outside>>

UncatchSignals ==
    /\ pc = "uncatching" /\ Goto("unlocking") /\ signals' = FALSE
    /\ UNCHANGED <<verdict, gen, route, restart, held, command, outside>>

(* The store is released; runDevWithIO runs it all again after a restart.  *)
Finish ==
    /\ pc = "unlocking" /\ lock' = FALSE
    /\ IF result = "restart"
       THEN /\ Goto("start") /\ gen' = gen + 1 /\ result' = "none" /\ why' = "none"
            /\ restart' = FALSE /\ child' = "none" /\ stopped' = FALSE /\ route' = None
       ELSE /\ Goto("gone")
            /\ UNCHANGED <<gen, result, why, restart, child, stopped, route>>
    /\ UNCHANGED <<signals, lease, control, live, explicit, members, listener,
                   checkout, others, parent, pipe, ask, asks, sent, moves>>

-----------------------------------------------------------------------------
(* Signals: SIGINT, SIGTERM and SIGHUP.  While nothing catches them they   *)
(* end the process; the channel holds one and drops the rest.              *)

CatchingOnceStarted ==      \* mutant: Notify comes after command.Start
    pc \notin {"start", "prepared", "caught", "waiting", "unlocking", "gone"}
Catching == pc \notin {"start", "prepared", "unlocking", "gone"}

Signalled ==
    /\ pc # "gone"
    /\ IF Catching
       THEN signals' = TRUE /\ UNCHANGED <<pc, result, lock, lease, control>>
       ELSE /\ signals' = signals /\ pc' = "gone" /\ result' = "killed"
            /\ lock' = FALSE /\ control' = FALSE /\ UNCHANGED lease

Signal ==
    /\ Signalled /\ sent < MaxSignals /\ sent' = sent + 1
    /\ UNCHANGED <<why, gen, route, restart, live, command,
                   checkout, others, parent, pipe, ask, asks, moves, stopped>>

Checkout ==
    /\ pc # "gone" /\ moves < MaxCheckouts /\ moves' = moves + 1
    /\ checkout' \in Routes \ {checkout}
    /\ UNCHANGED <<wrapper, command, others, parent, pipe, ask, asks, sent, stopped>>

-----------------------------------------------------------------------------
(* webport dev stop and restart                                            *)

Listed == others \cup (IF live = NoLive THEN {} ELSE {live})

(* A route names every instance that publishes it.  Without one it is the  *)
(* configured session of this worktree, then whatever publishes a route    *)
(* here.                                                                   *)
Publishes(i, r) == i.route = r

Matches(arg) ==
    IF arg # None THEN {i \in Listed : Publishes(i, arg)}
    ELSE IF \E i \in Listed : i.session /\ i.here THEN {i \in Listed : i.session /\ i.here}
    ELSE {i \in Listed : i.here /\ i.route # None}

(* One match is dialled, at its own socket with its own token; more than   *)
(* one is an error.                                                        *)
Choose(op, arg) ==
    /\ pc # "gone" /\ ask = NoAsk /\ asks < MaxAsks /\ asks' = asks + 1
    /\ ask' = IF Matches(arg) = {live}
              THEN [op |-> op, arg |-> arg, gen |-> live.gen, step |-> "chosen"] ELSE NoAsk
    /\ UNCHANGED <<wrapper, command, checkout, others, parent, pipe, sent, moves, stopped>>

DialsAnyone == control          \* mutant: one socket for all generations
Dials == control /\ ask.gen = gen

(* The handler sets the flag, and then sends itself a SIGTERM.             *)
Handle ==
    /\ ask.step = "chosen"
    /\ IF Dials THEN ask' = [ask EXCEPT !.step = "handling", !.gen = gen]
                     /\ restart' = (restart \/ ask.op = "restart")
       ELSE ask' = NoAsk /\ UNCHANGED restart
    /\ UNCHANGED <<pc, verdict, gen, route, signals, held, command,
                   checkout, others, parent, pipe, asks, sent, moves, stopped>>

Acknowledge ==
    /\ ask.step = "handling" /\ ask' = NoAsk
    /\ IF ask.gen = gen /\ pc # "gone"
       THEN signals' = (signals \/ Catching) /\ stopped' = (stopped \/ ask.op = "stop")
       ELSE UNCHANGED <<signals, stopped>>
    /\ UNCHANGED <<pc, verdict, gen, route, restart, held, command,
                   checkout, others, parent, pipe, asks, sent, moves>>

-----------------------------------------------------------------------------
(* webport dev -d: the parent waits for the line, the end, or the timeout. *)

ParentReady ==
    /\ parent = "waiting" /\ pipe = "ready" /\ parent' = "ready"
    /\ UNCHANGED <<wrapper, command, checkout, others, pipe, ask, asks, sent, moves, stopped>>

ParentFails ==
    /\ parent = "waiting" /\ pc = "gone" /\ parent' = "failed"
    /\ UNCHANGED <<wrapper, command, checkout, others, pipe, ask, asks, sent, moves, stopped>>

ParentTimesOut ==
    /\ parent = "waiting" /\ Signalled /\ parent' = "timedout"
    /\ UNCHANGED <<why, gen, route, restart, live, command,
                   checkout, others, pipe, ask, asks, sent, moves, stopped>>

-----------------------------------------------------------------------------
WrapperStep ==
    \/ Prepare \/ CatchSignals \/ StartCommand \/ ListenerFound \/ NotFound \/ Register
    \/ OpenControl \/ WriteLive \/ GiveUp \/ Announce \/ Serve \/ Kill \/ AfterTerminate
    \/ Release \/ CloseControl \/ RemoveLive \/ UncatchSignals \/ Finish

ControlStep == Handle \/ Acknowledge
ParentStep == ParentReady \/ ParentFails \/ ParentTimesOut

Next ==
    \/ WrapperStep \/ ControlStep \/ ParentStep
    \/ Listen \/ Exit \/ MembersExit \/ OtherListens
    \/ Signal \/ Checkout
    \/ \E op \in {"stop", "restart"}, arg \in Routes \cup {None} : Choose(op, arg)

(* The wrapper runs: its waits have timeouts, except the one for a signal  *)
(* or the end of the command.  Nothing makes the command end.              *)
Fairness == WF_vars(WrapperStep) /\ WF_vars(ControlStep) /\ WF_vars(ParentStep)

Spec == Init /\ [][Next]_vars /\ Fairness

-----------------------------------------------------------------------------
(* Whenever the process is gone, by returning or by a signal, and before   *)
(* every new generation, nothing of the old one is left: no member of the  *)
(* command's group, no live file, no socket, no lock; and no lease, unless *)
(* the run has reported that it could not be released.                     *)
NothingLeft ==
    pc \in {"start", "gone"} =>
        /\ ~GroupAlive /\ live = NoLive /\ ~control /\ ~lock
        /\ result \in {"none", "ok"} => ~lease

(* A stop or restart that was aimed at a route is only carried out by a    *)
(* generation that stands for this route, though the wrapper may have been *)
(* restarted on another branch between the listing and the request.        *)
RequestReachesNamed ==
    ask.step = "handling" /\ ask.gen = gen => ask.arg \in {None, route}

(* A signal the wrapper has caught, and a stop it has acknowledged, ends   *)
(* it, however stubborn the command is, unless a restart was asked for.    *)
StopEnds == (signals \/ stopped) /\ ~restart ~> pc = "gone" \/ restart
=============================================================================
