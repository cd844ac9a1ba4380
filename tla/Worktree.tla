------------------------------ MODULE Worktree ------------------------------
(***************************************************************************)
(* What `webport dev' promises of a worktree, without its files: one       *)
(* process is in charge of it at a time and runs one session; nobody takes *)
(* it over while services that are on record run; a session is followed by *)
(* another of its process only when it was told to restart; and what a     *)
(* caller finds there is the session that is open, or one whose process is *)
(* gone.  SessionLifecycle implements it.                                  *)
(***************************************************************************)
EXTENDS Naturals

CONSTANTS Procs, Sessions, None

VARIABLES
    holder,     \* the process in charge
    stage,      \* how far it is: "free" for no process, "taken", "open", "over"
    session,    \* the last session of each process, 0 for none
    begun,      \* sessions begun so far
    services,   \* of each session: "none", "started", "recorded", "dead"
    shown,      \* the session that callers find, 0 for none
    restarts,   \* sessions told to restart
    gone        \* processes that have ended

worktreeVars == <<holder, stage, session, begun, services, shown, restarts, gone>>

Runs(n) == services[n] \in {"started", "recorded"}

Init ==
    /\ holder = None /\ stage = "free"
    /\ session = [p \in Procs |-> 0] /\ begun = 0
    /\ services = [n \in Sessions |-> "none"]
    /\ shown = 0 /\ restarts = {} /\ gone = {}

(* A process takes the worktree, for its first session or after a restart. *)
Take(p) ==
    /\ holder = None /\ p \notin gone
    /\ \A n \in Sessions : services[n] # "recorded"
    /\ session[p] = 0 \/ session[p] \in restarts
    /\ holder' = p /\ stage' = "taken" /\ shown' = 0
    /\ UNCHANGED <<session, begun, services, restarts, gone>>

Begin(p) ==
    /\ holder = p /\ stage = "taken" /\ begun + 1 \in Sessions
    /\ begun' = begun + 1 /\ session' = [session EXCEPT ![p] = begun + 1]
    /\ stage' = "open"
    /\ UNCHANGED <<holder, services, shown, restarts, gone>>

Open(p) == holder = p /\ stage = "open"

(* Callers find the session once it is announced.                          *)
Announce(p) ==
    /\ Open(p) /\ shown' = session[p]
    /\ UNCHANGED <<holder, stage, session, begun, services, restarts, gone>>

(* Its services start, are recorded where other processes look, and end.   *)
Start(p) ==
    /\ Open(p) /\ services[session[p]] = "none"
    /\ services' = [services EXCEPT ![session[p]] = "started"]
    /\ UNCHANGED <<holder, stage, session, begun, shown, restarts, gone>>

Record(p) ==
    /\ Open(p) /\ services[session[p]] = "started"
    /\ services' = [services EXCEPT ![session[p]] = "recorded"] /\ shown' = session[p]
    /\ UNCHANGED <<holder, stage, session, begun, restarts, gone>>

End(n) ==
    /\ Runs(n) /\ services' = [services EXCEPT ![n] = "dead"]
    /\ UNCHANGED <<holder, stage, session, begun, shown, restarts, gone>>

(* A session is over when its services are, and then nobody finds it.      *)
Close(p) ==
    /\ \/ Open(p) /\ ~Runs(session[p]) /\ shown' = 0
       \/ holder = p /\ stage = "taken" /\ UNCHANGED shown
    /\ stage' = "over"
    /\ UNCHANGED <<holder, session, begun, services, restarts, gone>>

Leave(p) ==
    /\ holder = p /\ stage = "over" /\ holder' = None /\ stage' = "free"
    /\ UNCHANGED <<session, begun, services, shown, restarts, gone>>

(* A process ends: by itself when it is not in charge, or anywhere.  What  *)
(* it leaves behind stays.                                                 *)
Go(p) ==
    /\ p \notin gone /\ gone' = gone \cup {p} /\ session' = [session EXCEPT ![p] = 0]
    /\ IF holder = p THEN holder' = None /\ stage' = "free" ELSE UNCHANGED <<holder, stage>>
    /\ UNCHANGED <<begun, services, shown, restarts>>

TellToRestart(n) ==
    /\ n <= begun /\ restarts' = restarts \cup {n}
    /\ UNCHANGED <<holder, stage, session, begun, services, shown, gone>>

Next ==
    \/ \E p \in Procs :
          \/ Take(p) \/ Begin(p) \/ Announce(p) \/ Start(p) \/ Record(p) \/ Close(p) \/ Leave(p)
          \/ Go(p)
    \/ \E n \in Sessions : End(n) \/ TellToRestart(n)

Spec == Init /\ [][Next]_worktreeVars
=============================================================================
