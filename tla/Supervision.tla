----------------------------- MODULE Supervision -----------------------------
(***************************************************************************)
(* What the supervisor promises the session that calls it, without its     *)
(* workers, its queue and its routes: a service starts over services that  *)
(* have started, and whether it starts is decided before the session is    *)
(* cancelled, if it is (the start itself may follow); what services have   *)
(* created is taken down when all of them have ended, dependents first;    *)
(* and the call returns after that. It returns without an error only when  *)
(* every service had its turn and left nothing behind, or when it was      *)
(* cancelled and all that was created has been taken down.  Supervisor     *)
(* implements it.                                                          *)
(***************************************************************************)
CONSTANT Services

VARIABLES
    needs,      \* what each service depends on, fixed
    phase,      \* "open", "cleaning" (no service starts any more) or "returned"
    due,        \* services that are about to start
    begun,      \* services that have been started
    up,         \* those of them that run
    owed,       \* services with something to take down
    stopped,    \* those whose shutdown command has been started
    missed,     \* those whose shutdown command could not be
    cancelled,  \* the caller's context is
    result      \* "none", "ok", "stopped" or "failed"

supervisionVars ==
    <<needs, phase, due, begun, up, owed, stopped, missed, cancelled, result>>

Init ==
    /\ needs \in [Services -> SUBSET Services]
    /\ phase = "open" /\ due = {} /\ begun = {} /\ up = {}
    /\ owed = {} /\ stopped = {} /\ missed = {}
    /\ cancelled = FALSE /\ result = "none"

Admit(s) ==
    /\ phase = "open" /\ ~cancelled
    /\ s \notin begun \cup due /\ needs[s] \subseteq begun
    /\ due' = due \cup {s}
    /\ UNCHANGED <<needs, phase, begun, up, owed, stopped, missed, cancelled, result>>

(* An admitted service starts, or fails to.                                *)
Start(s) ==
    /\ s \in due /\ due' = due \ {s}
    /\ begun' = begun \cup {s} /\ up' = up \cup {s}
    /\ UNCHANGED <<needs, phase, owed, stopped, missed, cancelled, result>>

Withdraw(s) ==
    /\ s \in due /\ due' = due \ {s}
    /\ UNCHANGED <<needs, phase, begun, up, owed, stopped, missed, cancelled, result>>

End(s) ==
    /\ s \in up /\ up' = up \ {s}
    /\ UNCHANGED <<needs, phase, due, begun, owed, stopped, missed, cancelled, result>>

(* A service that has ended has left something behind.                     *)
Owe(s) ==
    /\ phase = "open" /\ s \in begun \ up
    /\ owed' = owed \cup {s}
    /\ UNCHANGED <<needs, phase, due, begun, up, stopped, missed, cancelled, result>>

Cancel ==
    /\ phase # "returned" /\ cancelled' = TRUE
    /\ UNCHANGED <<needs, phase, due, begun, up, owed, stopped, missed, result>>

(* The session is over before it is complete: cancelled, or failed.        *)
GiveUp ==
    /\ phase = "open" /\ up = {} /\ due = {} /\ phase' = "cleaning"
    /\ UNCHANGED <<needs, due, begun, up, owed, stopped, missed, cancelled, result>>

(* The turn of a service's shutdown command, before those of what it       *)
(* depends on: it is started, or cannot be.                                *)
Turn(s) ==
    /\ phase = "cleaning"
    /\ s \in owed \ (stopped \cup missed) /\ needs[s] \cap (stopped \cup missed) = {}
    /\ UNCHANGED <<needs, phase, due, begun, up, owed, cancelled, result>>
Stop(s) == Turn(s) /\ stopped' = stopped \cup {s} /\ UNCHANGED missed
Miss(s) == Turn(s) /\ missed' = missed \cup {s} /\ UNCHANGED stopped

Return(r) ==
    /\ \/ phase = "open" /\ up \cup due = {} /\ begun = Services /\ owed = {} /\ r = "ok"
       \/ phase = "cleaning" /\ r = "stopped" /\ cancelled /\ owed \subseteq stopped
       \/ phase = "cleaning" /\ r = "failed" /\ owed \subseteq stopped \cup missed
    /\ phase' = "returned" /\ result' = r
    /\ UNCHANGED <<needs, due, begun, up, owed, stopped, missed, cancelled>>

Next ==
    \/ \E s \in Services : \/ Admit(s) \/ Start(s) \/ Withdraw(s) \/ End(s) \/ Owe(s)
                           \/ Stop(s) \/ Miss(s)
    \/ Cancel \/ GiveUp
    \/ \E r \in {"ok", "stopped", "failed"} : Return(r)

Spec == Init /\ [][Next]_supervisionVars
=============================================================================
