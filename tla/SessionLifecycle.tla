-------------------------- MODULE SessionLifecycle --------------------------
(***************************************************************************)
(* The life of the sessions of one worktree: session.Run and runOnce       *)
(* (devsession/session/session.go) over the worktree's lock, live file,    *)
(* control socket and last-session record (devsession/state/state.go), and *)
(* the callers of session.Control.                                         *)
(*                                                                         *)
(* A process runs one session after another, as long as each ends in a     *)
(* restart; another process may try the same worktree at any time. All     *)
(* files are found by name, so a session meets what a predecessor left: a  *)
(* live file, a socket, services that outlive a crashed supervisor. What   *)
(* the supervisor does is one step here (the module Supervisor has it):    *)
(* it starts the services, and returns after the last one has ended.       *)
(*                                                                         *)
(* A session is numbered when it gets its control socket; the number       *)
(* stands for its ID and its control token. The services are one process   *)
(* per session.                                                            *)
(***************************************************************************)
EXTENDS Naturals, FiniteSets

CONSTANTS
    Procs,       \* webport processes that run sessions of the worktree
    Callers,     \* calls of session.Control, one request each
    MaxRuns,     \* how many sessions there are in all
    RetainLast,  \* session.retain_last_summary
    None

ASSUME LifecycleAssumption ==
    /\ MaxRuns \in Nat \ {0} /\ RetainLast \in BOOLEAN
    /\ None \notin Procs \cup [run : 1..MaxRuns, owner : Procs, services : BOOLEAN]

Runs == 1..MaxRuns

VARIABLES
    pc,         \* where each process is in Run and runOnce
    run,        \* its session, 0 before there is one
    cancelled,  \* the context of that session
    restart,    \* the restart flag of Run
    failed,     \* runOnce will return an error
    interrupt,  \* the context of the process: Ctrl-C
    services,   \* per session: "none", "started", "recorded" (in the live file), "dead"
    runs,       \* sessions so far
    lock,       \* the holder of the worktree's file lock
    live,       \* the live file: its session, the process, whether services are recorded
    socket,     \* the session whose socket has the control path, 0 for no file
    last,       \* the session of the last-session record, 0 for no file
    caller,     \* per caller: its step, the token it read, its connection
    executed    \* what the control handlers executed: session, operation, token, process

procVars == <<pc, run, cancelled, restart, failed, interrupt>>
fileVars == <<lock, live, socket, last>>
vars == <<procVars, services, runs, fileVars, caller, executed>>

Operations == {"stop", "restart"}

Init ==
    /\ pc = [p \in Procs |-> "off"] /\ run = [p \in Procs |-> 0]
    /\ cancelled = [p \in Procs |-> FALSE] /\ restart = [p \in Procs |-> FALSE]
    /\ failed = [p \in Procs |-> FALSE] /\ interrupt = [p \in Procs |-> FALSE]
    /\ services = [n \in Runs |-> "none"] /\ runs = 0
    /\ lock = None /\ live = None /\ socket = 0 /\ last = 0
    /\ caller = [c \in Callers |-> [pc |-> "idle", token |-> 0, at |-> 0, by |-> None]]
    /\ executed = {}

Alive(p) == pc[p] \notin {"off", "exited", "crashed"}
Running(n) == services[n] \in {"started", "recorded"}
Goes(p, to) == pc' = [pc EXCEPT ![p] = to]

(* The memory of a process goes with it.                                   *)
Leaves(p, how) ==
    /\ Goes(p, how) /\ run' = [run EXCEPT ![p] = 0]
    /\ cancelled' = [cancelled EXCEPT ![p] = FALSE] /\ restart' = [restart EXCEPT ![p] = FALSE]
    /\ failed' = [failed EXCEPT ![p] = FALSE] /\ interrupt' = [interrupt EXCEPT ![p] = FALSE]

-----------------------------------------------------------------------------
(* The steps of runOnce.                                                   *)

Launch(p) ==
    /\ pc[p] = "off"
    /\ Goes(p, "acquiring")
    /\ UNCHANGED <<run, cancelled, restart, failed, interrupt, services, runs, fileVars,
                   caller, executed>>

(* Variant: only the supervisor of the live file is looked at.             *)
SupervisorOf(record) == Alive(record.owner)

(* Store.Acquire: a process of the live file that still lives keeps the    *)
(* worktree locked; otherwise a live file is stale and is removed.         *)
AnyProcessOf(record) ==
    Alive(record.owner) \/ (record.services /\ Running(record.run))

Acquire(p) ==
    /\ pc[p] = "acquiring"
    /\ IF lock = None /\ (live = None \/ ~AnyProcessOf(live))
       THEN /\ Goes(p, "preparing") /\ lock' = p /\ live' = None
            /\ UNCHANGED <<run, cancelled, restart, failed, interrupt>>
       ELSE /\ Leaves(p, "exited") /\ UNCHANGED <<lock, live>>
    /\ UNCHANGED <<services, runs, socket, last, caller, executed>>

(* Preparation or the control socket fails; nothing but the lock is held.  *)
PrepareFails(p) ==
    /\ pc[p] = "preparing"
    /\ Goes(p, "releasing") /\ failed' = [failed EXCEPT ![p] = TRUE]
    /\ UNCHANGED <<run, cancelled, restart, interrupt, services, runs, fileVars, caller,
                   executed>>

(* StartControl removes the socket it finds and takes the path.            *)
StartControl(p) ==
    /\ pc[p] = "preparing" /\ runs < MaxRuns
    /\ runs' = runs + 1
    /\ run' = [run EXCEPT ![p] = runs + 1] /\ socket' = runs + 1
    /\ Goes(p, "controlled")
    /\ UNCHANGED <<cancelled, restart, failed, interrupt, services, lock, live, last, caller,
                   executed>>

WriteLive(p, recorded) == live' = [run |-> run[p], owner |-> p, services |-> recorded]

(* The first live file tells callers the socket and its token; a step      *)
(* before it, the write itself or the pruning of logs after it may fail.   *)
Announce(p) ==
    /\ pc[p] = "controlled"
    /\ \/ WriteLive(p, FALSE) /\ Goes(p, "supervising") /\ UNCHANGED failed
       \/ /\ WriteLive(p, FALSE) \/ UNCHANGED live
          /\ Goes(p, "closing") /\ failed' = [failed EXCEPT ![p] = TRUE]
    /\ UNCHANGED <<run, cancelled, restart, interrupt, services, runs, lock, socket, last,
                   caller, executed>>

(* The supervisor starts the services, maybe only just after the session   *)
(* is cancelled: it looks at the context before the start, not at it.  Its *)
(* event records their processes.                                          *)
StartServices(p) ==
    /\ pc[p] = "supervising" /\ services[run[p]] = "none"
    /\ services' = [services EXCEPT ![run[p]] = "started"]
    /\ UNCHANGED <<procVars, runs, fileVars, caller, executed>>

RecordServices(p) ==
    /\ pc[p] = "supervising" /\ services[run[p]] = "started"
    /\ WriteLive(p, TRUE)
    /\ services' = [services EXCEPT ![run[p]] = "recorded"]
    /\ UNCHANGED <<procVars, runs, lock, socket, last, caller, executed>>

(* A write that fails, of an event or of the poll, cancels the session.    *)
WriteLiveFails(p) ==
    /\ pc[p] = "supervising" /\ ~failed[p]
    /\ cancelled' = [cancelled EXCEPT ![p] = TRUE]
    /\ failed' = [failed EXCEPT ![p] = TRUE]
    /\ UNCHANGED <<pc, run, restart, interrupt, services, runs, fileVars, caller, executed>>

(* The services end by themselves, or the supervisor stops them.           *)
ServicesEnd(n) ==
    /\ Running(n)
    /\ services' = [services EXCEPT ![n] = "dead"]
    /\ UNCHANGED <<procVars, runs, fileVars, caller, executed>>

(* Variant: the supervisor waits for services that it has never started.   *)
ServicesEnded(p) == services[run[p]] = "dead"
NothingLeft(p) == ~Running(run[p])

(* It returns when its services have ended, with an error if one of them   *)
(* or a shutdown command failed.  Without having started any it returns    *)
(* because it was cancelled or because the first one could not start.      *)
SupervisorReturns(p) ==
    /\ pc[p] = "supervising" /\ NothingLeft(p)
    /\ Goes(p, "closing")
    /\ \/ /\ services[run[p]] = "none" => cancelled[p]
          /\ UNCHANGED failed
       \/ failed' = [failed EXCEPT ![p] = TRUE]
    /\ UNCHANGED <<run, cancelled, restart, interrupt, services, runs, fileVars, caller,
                   executed>>

(* The deferred cleanup: ControlServer.Close removes the socket, ...       *)
CloseControl(p) ==
    /\ pc[p] = "closing"
    /\ Goes(p, "closed") /\ socket' = 0
    /\ cancelled' = [cancelled EXCEPT ![p] = TRUE]
    /\ UNCHANGED <<run, restart, failed, interrupt, services, runs, lock, live, last, caller,
                   executed>>

(* ... the summary is written (or removed), ...                            *)
Summarise(p) ==
    /\ pc[p] = "closed"
    /\ Goes(p, "summarised") /\ last' = IF RetainLast THEN run[p] ELSE 0
    /\ UNCHANGED <<run, cancelled, restart, failed, interrupt, services, runs, lock, live,
                   socket, caller, executed>>

(* ... and the live file goes.                                             *)
RemoveLive(p) ==
    /\ pc[p] = "summarised"
    /\ Goes(p, "releasing") /\ live' = None
    /\ UNCHANGED <<run, cancelled, restart, failed, interrupt, services, runs, lock, socket,
                   last, caller, executed>>

(* Variant: the lock is given up as soon as the services have ended.       *)
ReleaseEarly(p) ==
    /\ pc[p] \in {"closing", "releasing"} /\ lock = p
    /\ lock' = None
    /\ Goes(p, IF pc[p] = "releasing" THEN "released" ELSE "closing")
    /\ UNCHANGED <<run, cancelled, restart, failed, interrupt, services, runs, live, socket,
                   last, caller, executed>>

(* The first deferred call, and so the last to run, releases the lock.     *)
Release(p) ==
    /\ pc[p] = "releasing"
    /\ Goes(p, "released") /\ lock' = None
    /\ UNCHANGED <<run, cancelled, restart, failed, interrupt, services, runs, live, socket,
                   last, caller, executed>>

(* The loop of Run: each turn has a flag and a context of its own.         *)
FlagKept(p) == restart
FlagReset(p) == [restart EXCEPT ![p] = FALSE]

Again(p) == restart[p] /\ ~interrupt[p] /\ ~failed[p]

Loop(p) ==
    /\ pc[p] = "released"
    /\ IF Again(p)
       THEN /\ Goes(p, "acquiring")
            /\ restart' = FlagReset(p)
            /\ cancelled' = [cancelled EXCEPT ![p] = FALSE]
            /\ UNCHANGED <<run, failed, interrupt>>
       ELSE Leaves(p, "exited")
    /\ UNCHANGED <<services, runs, fileVars, caller, executed>>

-----------------------------------------------------------------------------
(* What happens to a process.                                              *)

Interrupt(p) ==
    /\ Alive(p) /\ ~interrupt[p]
    /\ interrupt' = [interrupt EXCEPT ![p] = TRUE]
    /\ cancelled' = [cancelled EXCEPT ![p] = TRUE]
    /\ UNCHANGED <<pc, run, restart, failed, services, runs, fileVars, caller, executed>>

(* The operating system drops the lock; files and services stay.           *)
Crash(p) ==
    /\ Alive(p)
    /\ Leaves(p, "crashed") /\ lock' = IF lock = p THEN None ELSE lock
    /\ UNCHANGED <<services, runs, live, socket, last, caller, executed>>

-----------------------------------------------------------------------------
(* session.Control: the live file is read, then the socket is dialed.      *)

Caller(step, token, at, by) == [pc |-> step, token |-> token, at |-> at, by |-> by]
Returns(c, how) == caller' = [caller EXCEPT ![c] = Caller(how, 0, 0, None)]

ReadLive(c) ==
    /\ caller[c].pc = "idle"
    /\ IF live = None
       THEN Returns(c, "failed")
       ELSE caller' = [caller EXCEPT ![c] = Caller("read", live.run, 0, None)]
    /\ UNCHANGED <<procVars, services, runs, fileVars, executed>>

Listener == {p \in Procs : run[p] = socket /\ socket # 0
                           /\ pc[p] \in {"controlled", "supervising", "closing"}}

Dial(c) ==
    /\ caller[c].pc = "read"
    /\ \/ \E p \in Listener :
            caller' = [caller EXCEPT ![c] = Caller("connected", @.token, socket, p)]
       \/ Listener = {} /\ Returns(c, "failed")
    /\ UNCHANGED <<procVars, services, runs, fileVars, executed>>

Authorized(c) == caller[c].token = caller[c].at

(* ControlServer.handle, in a goroutine that Close does not wait for. The  *)
(* flag and the context it sets are those of its own turn of Run; when     *)
(* that is over they reach nobody, and the caller is told OK all the same. *)
(* (Variant: they are those of the process.)                               *)
AnyTurn(p, n) == Alive(p)
InTurn(p, n) == run[p] = n /\ pc[p] \notin {"acquiring", "preparing"}

Handle(c, op) ==
    LET k == caller[c] IN
    /\ k.pc = "connected" /\ Alive(k.by)
    /\ \/ /\ Authorized(c)
          /\ Returns(c, "done")
          /\ executed' = executed \cup {[run |-> k.at, op |-> op, token |-> k.token, by |-> k.by]}
          /\ cancelled' = [cancelled EXCEPT ![k.by] = @ \/ InTurn(k.by, k.at)]
          /\ restart' = [restart EXCEPT
                            ![k.by] = @ \/ (InTurn(k.by, k.at) /\ op = "restart")]
       \/ /\ ~Authorized(c)
          /\ Returns(c, "failed")
          /\ UNCHANGED <<executed, cancelled, restart>>
    /\ UNCHANGED <<pc, run, failed, interrupt, services, runs, fileVars>>

(* The process is gone before it has answered.                             *)
HungUp(c) ==
    /\ caller[c].pc = "connected" /\ ~Alive(caller[c].by)
    /\ Returns(c, "failed")
    /\ UNCHANGED <<procVars, services, runs, fileVars, executed>>

-----------------------------------------------------------------------------
Ended ==
    /\ \A p \in Procs : pc[p] \in {"exited", "crashed"}
    /\ \A n \in Runs : ~Running(n)
    /\ \A c \in Callers : caller[c].pc \in {"done", "failed"}
    /\ UNCHANGED vars

CleanupStep(p) ==
    \/ CloseControl(p) \/ Summarise(p) \/ RemoveLive(p) \/ Release(p) \/ Loop(p)

Step(p) ==
    \/ Acquire(p) \/ PrepareFails(p) \/ StartControl(p) \/ Announce(p)
    \/ StartServices(p) \/ RecordServices(p) \/ SupervisorReturns(p) \/ CleanupStep(p)

Happens(p) == Launch(p) \/ WriteLiveFails(p) \/ Interrupt(p) \/ Crash(p)

Call(c) ==
    \/ ReadLive(c) \/ Dial(c) \/ HungUp(c)
    \/ \E op \in Operations : Handle(c, op)

Next ==
    \/ \E p \in Procs : Step(p) \/ Happens(p)
    \/ \E n \in Runs : ServicesEnd(n)
    \/ \E c \in Callers : Call(c)
    \/ Ended

Spec == Init /\ [][Next]_vars

(* A process goes on, and a supervisor whose context is cancelled stops    *)
(* its services; it does not have to start any first. Otherwise services   *)
(* may run for ever.                                                       *)
Stopping(n) == \E p \in Procs : run[p] = n /\ pc[p] = "supervising" /\ cancelled[p]
GoesOn(p) == Step(p) /\ ~(cancelled[p] /\ StartServices(p))

FairSpec ==
    /\ Spec
    /\ \A p \in Procs : WF_vars(GoesOn(p))
    /\ \A n \in Runs : WF_vars(Stopping(n) /\ ServicesEnd(n))

-----------------------------------------------------------------------------
(* Properties.                                                             *)

(* Every variable holds a value of its kind.                               *)
TypeOK ==
    /\ pc \in [Procs -> {"off", "acquiring", "preparing", "controlled", "supervising",
                         "closing", "closed", "summarised", "releasing", "released",
                         "exited", "crashed"}]
    /\ run \in [Procs -> 0..MaxRuns] /\ runs \in 0..MaxRuns
    /\ {cancelled, restart, failed, interrupt} \subseteq [Procs -> BOOLEAN]
    /\ services \in [Runs -> {"none", "started", "recorded", "dead"}]
    /\ lock \in Procs \cup {None}
    /\ live = None \/ live \in [run : Runs, owner : Procs, services : BOOLEAN]
    /\ socket \in 0..MaxRuns /\ last \in 0..MaxRuns
    /\ executed \subseteq [run : Runs, op : Operations, token : Runs, by : Procs]

(* The files are the lock holder's: a live file of a process that lives,   *)
(* and a socket somebody listens on, belong to the session of the process  *)
(* that has the lock, through restarts, crashes and competitors.           *)
FilesAreTheHolders ==
    /\ live # None /\ Alive(live.owner) => lock = live.owner /\ run[live.owner] = live.run
    /\ \A p \in Listener : lock = p

(* The services of two sessions run side by side in one case only: the     *)
(* supervisor of the earlier ones crashed after it had started them and    *)
(* before the live file named them, so Store.Acquire cannot know of them.  *)
OneGeneration ==
    \A m, n \in Runs :
        m < n /\ Running(m) /\ Running(n) =>
            services[m] = "started" /\ \A p \in Procs : run[p] # m

Executed(p, n, op) == \E e \in executed : e.by = p /\ e.run = n /\ e.op = op

(* A request takes effect in the session whose live file its caller read,  *)
(* and in no other: a session whose control socket is served is cancelled  *)
(* for a failure, Ctrl-C or a request of its own token, and Run's flag is  *)
(* set by a restart of its own token, though the sockets of all sessions   *)
(* have one name and handlers outlive their turn.                          *)
OwnSession ==
    /\ \A e \in executed : e.run = e.token
    /\ \A p \in Procs :
          /\ cancelled[p] /\ pc[p] \in {"controlled", "supervising", "closing"} =>
                failed[p] \/ interrupt[p] \/ \E op \in Operations : Executed(p, run[p], op)
          /\ restart[p] =>
                pc[p] \notin {"acquiring", "preparing"} /\ Executed(p, run[p], "restart")

(* A session that has executed a stop, and no restart, is its process's    *)
(* last one: no flag of an earlier turn of Run starts another.             *)
Stopped(p, n) == Executed(p, n, "stop") /\ ~Executed(p, n, "restart")

StopIsFinal ==
    \A p \in Procs, n \in Runs : Stopped(p, n) => InTurn(p, n) \/ ~Alive(p)

(* It ends, whenever in its life the stop came, once its services do.      *)
StopEnds ==
    \A p \in Procs, n \in Runs : Stopped(p, n) ~> ~Alive(p) \/ Executed(p, n, "restart")

(* What the sessions do to the worktree, without locks and files, is what  *)
(* the module Worktree promises: one process in charge, one session open,  *)
(* and another of the same process only after a restart it was told.       *)
Stage ==
    IF lock = None THEN "free"
    ELSE IF pc[lock] = "preparing" THEN "taken"
    ELSE IF pc[lock] = "releasing" THEN "over" ELSE "open"

Shown == IF live = None THEN 0 ELSE live.run
Told == {e.run : e \in {x \in executed : x.op = "restart"}}
Gone == {p \in Procs : pc[p] \in {"exited", "crashed"}}

Promise == INSTANCE Worktree WITH
    Sessions <- Runs, holder <- lock, stage <- Stage, session <- run, begun <- runs,
    shown <- Shown, restarts <- Told, gone <- Gone

ImplementsWorktree == Promise!Spec
=============================================================================
