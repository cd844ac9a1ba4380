------------------------------ MODULE Dashboard -----------------------------
(***************************************************************************)
(* The terminal dashboard (internal/tui): one model, changed by one        *)
(* message at a time, and commands that run beside it and answer with      *)
(* messages: snapshots, inspections, logs.  Answers come in any order,     *)
(* after the user has gone elsewhere, and from instances that have ended.  *)
(* The results of a stop, a restart or a copy are not modelled: they       *)
(* change the message line, "busy", and refresh as F5 does.                *)
(*                                                                         *)
(* A generation counter is modelled by what it tells apart: a request is   *)
(* fresh until the counter moves on.  Rows are modelled on the two pages   *)
(* where one is selected to be opened, the instances and the services;     *)
(* "routes" stands for the daemon's page too, and sensitive for both of    *)
(* the flags an environment is asked for with.                             *)
(*                                                                         *)
(* Names that any module has begin with Tui: a module that is about all    *)
(* programs of a terminal extends this one and CommandWrapper.             *)
(***************************************************************************)
EXTENDS Naturals, FiniteSets

CONSTANTS
    Ids,        \* session IDs, as numbers: the order of the list
    Services,   \* the services of every instance, as numbers
    Nobody,     \* no instance, no service
    MaxChanges, \* bound: instances that start or end
    MaxAsked    \* bound: inspections, and log requests, unanswered when a key asks for more

ASSUME DashboardAssumption ==
    /\ Ids \subseteq Nat /\ IsFiniteSet(Ids) /\ Services \subseteq Nat /\ IsFiniteSet(Services)
    /\ MaxChanges \in Nat /\ MaxAsked \in Nat /\ Nobody \notin Nat

VARIABLES
    alive,      \* the instances there are
    changes,
    page, cursor,
    instance, service,      \* instanceID and service
    sensitive,  \* the environment page shows sensitive values
    snapshot,   \* the instances listed
    fetching,   \* a snapshot is under way
    coming,     \* its content, once taken: at most one
    inspection, \* what the environment page shows, and how it was asked for
    loading,
    asked,      \* inspections under way
    logLines,   \* whose logs the log page shows
    logFetching,
    logsAsked,  \* log requests under way
    detail,     \* the overlay: the inspection it quotes, or none
    paused

view == <<page, cursor, instance, service>>
snaps == <<snapshot, fetching, coming>>
inspects == <<inspection, loading, asked>>
logs == <<logLines, logFetching, logsAsked>>
world == <<alive, changes>>
tuiVars == <<alive, changes, page, cursor, instance, service, sensitive,
          snapshot, fetching, coming, inspection, loading, asked,
          logLines, logFetching, logsAsked, detail, paused>>

Lists == {"instances", "routes"}
Tabs == {"services", "urls", "env", "logs"}
Pages == Lists \cup Tabs
OnInstance(p) == p \in Tabs

Nothing == [id |-> Nobody, sensitive |-> FALSE]
Shown == [id : Ids, sensitive : BOOLEAN]
Logs == Ids \X (Services \cup {Nobody})
NoLogs == <<Nobody, Nobody>>

TuiTypeOK ==
    /\ alive \subseteq Ids /\ changes \in 0..MaxChanges
    /\ page \in Pages /\ cursor \in Nat
    /\ instance \in Ids \cup {Nobody} /\ service \in Services \cup {Nobody}
    /\ {sensitive, fetching, loading, logFetching, paused} \subseteq BOOLEAN
    /\ snapshot \subseteq Ids /\ coming \subseteq SUBSET Ids
    /\ inspection \in Shown \cup {Nothing}
    /\ asked \subseteq [show : Shown, fresh : BOOLEAN]
    /\ logLines \in Logs \cup {NoLogs}
    /\ logsAsked \subseteq [of : Logs, fresh : BOOLEAN]
    /\ detail \in Shown \cup {Nothing}

TuiInit ==
    /\ alive \in SUBSET Ids /\ changes = 0
    /\ page = "instances" /\ cursor = 1 /\ instance = Nobody /\ service = Nobody
    /\ sensitive = FALSE
    /\ snapshot = {} /\ fetching = TRUE /\ coming = {}
    /\ inspection = Nothing /\ loading = TRUE /\ asked = {}
    /\ logLines = NoLogs /\ logFetching = FALSE /\ logsAsked = {}
    /\ detail = Nothing /\ paused = FALSE

-----------------------------------------------------------------------------
(* Rows                                                                    *)

(* Rows are in the order of their numbers.                                 *)
RowsOf(p, listed) ==
    CASE p = "instances" -> listed
      [] p = "services"  -> Services
      [] OTHER           -> {}
Rows == RowsOf(page, snapshot)
LastRow(rows) == Cardinality(rows)
PlaceOf(row, rows) == Cardinality({r \in rows : r <= row})
RowAt(i, rows) ==
    IF \E r \in rows : PlaceOf(r, rows) = i THEN CHOOSE r \in rows : PlaceOf(r, rows) = i ELSE Nobody
Selected == RowAt(cursor, Rows)
Clamp(n, rows) == IF n <= LastRow(rows) THEN n ELSE IF rows = {} THEN 1 ELSE LastRow(rows)

(* The row that was selected before stays selected if it is still there.   *)
Follow(row, rows) == IF row \in rows THEN PlaceOf(row, rows) ELSE Clamp(cursor, rows)

-----------------------------------------------------------------------------
(* Commands                                                                *)

Stale(requests) == {[r EXCEPT !.fresh = FALSE] : r \in requests}

(* refresh: one snapshot at a time.                                        *)
Refresh == fetching' = TRUE /\ UNCHANGED <<snapshot, coming>>

(* inspect: the instance must be listed; the generation moves on.          *)
Inspect(id, s, listed) ==
    IF id \in listed
    THEN /\ loading' = TRUE
         /\ asked' = Stale(asked) \cup
               {[show |-> [id |-> id, sensitive |-> s], fresh |-> TRUE]}
    ELSE UNCHANGED <<loading, asked>>

(* fetchLogs, from a page and a selection; what navigate resets is reset   *)
(* before.                                                                 *)
FetchLogs(p, id, s, lines, under, requests) ==
    /\ logLines' = lines
    /\ IF p = "logs" /\ id \in snapshot /\ ~under
       THEN /\ logFetching' = TRUE
            /\ logsAsked' = Stale(requests) \cup {[of |-> <<id, s>>, fresh |-> TRUE]}
       ELSE logFetching' = under /\ logsAsked' = requests

(* navigate: a page from its top, without the logs shown or asked for.     *)
UnderWayKept == logFetching     \* mutant: navigate leaves the flag
UnderWay == FALSE

Navigate(p) ==
    /\ page' = p /\ cursor' = 1
    /\ FetchLogs("none", instance, service, NoLogs, UnderWay, Stale(logsAsked))

(* navigate, then fetchLogs.                                               *)
Open(p, s) ==
    /\ Cardinality(logsAsked) <= MaxAsked
    /\ page' = p /\ cursor' = 1 /\ service' = s
    /\ FetchLogs(p, instance, s, NoLogs, UnderWay, Stale(logsAsked))

-----------------------------------------------------------------------------
(* Messages                                                                *)

Tick ==
    /\ ~paused /\ Refresh
    /\ FetchLogs(page, instance, service, logLines, logFetching, logsAsked)
    /\ UNCHANGED <<world, view, sensitive, inspects, detail, paused>>

TakeSnapshot ==
    /\ fetching /\ coming = {} /\ coming' = {alive}
    /\ UNCHANGED <<world, view, sensitive, snapshot, fetching, inspects, logs, detail, paused>>

(* A snapshot arrives while lists are shown.                               *)
ShowList ==
    /\ ~OnInstance(page)
    /\ \E listed \in coming :
          snapshot' = listed /\ cursor' = Follow(Selected, RowsOf(page, listed))
    /\ loading' = FALSE
    /\ UNCHANGED <<page, instance, service, inspection, asked, logs>>

Gone(listed) == instance \notin listed

(* The instance shown is in it: it is inspected again.                     *)
ShowInstance ==
    /\ OnInstance(page)
    /\ \E listed \in coming :
          /\ snapshot' = listed /\ ~Gone(listed)
          /\ IF loading THEN UNCHANGED <<loading, asked>>
             ELSE Inspect(instance, sensitive, listed)
    /\ UNCHANGED <<view, inspection, logs>>

(* It is not: back to the list.                                            *)
LeaveInstance ==
    /\ OnInstance(page)
    /\ \E listed \in coming : snapshot' = listed /\ Gone(listed)
    /\ Navigate("instances")
    /\ inspection' = Nothing /\ loading' = FALSE /\ asked' = Stale(asked)
    /\ UNCHANGED <<instance, service>>

SnapshotMsg ==
    /\ coming # {} /\ coming' = {} /\ fetching' = FALSE
    /\ ShowList \/ ShowInstance \/ LeaveInstance
    /\ UNCHANGED <<world, sensitive, detail, paused>>

(* An inspection, or its failure, is shown if it is the newest one asked   *)
(* for and still about the instance selected.                              *)
AcceptsAny(r) == r.show.id = instance       \* mutant: the generation is not compared
Accepts(r) == r.fresh /\ r.show.id = instance

Inspected(show) == {Nothing} \cup {s \in {show} : s.id \in alive}

InspectionMsg(r) ==
    /\ r \in asked /\ asked' = asked \ {r}
    /\ IF Accepts(r) THEN loading' = FALSE /\ inspection' \in Inspected(r.show)
       ELSE UNCHANGED <<loading, inspection>>
    /\ UNCHANGED <<world, view, sensitive, snaps, logs, detail, paused>>

LogsMsg(r) ==
    /\ r \in logsAsked /\ logsAsked' = logsAsked \ {r}
    /\ IF page = "logs" /\ r.fresh /\ r.of = <<instance, service>>
       THEN logLines' = r.of /\ logFetching' = FALSE
       ELSE UNCHANGED <<logLines, logFetching>>
    /\ UNCHANGED <<world, view, sensitive, snaps, inspects, detail, paused>>

-----------------------------------------------------------------------------
(* Keys and clicks; an overlay takes them first                            *)

Keys == detail = Nothing

PointAt(i) ==
    /\ Keys /\ i \in 1..LastRow(Rows) /\ cursor' = i
    /\ UNCHANGED <<world, page, instance, service, sensitive, snaps, inspects, logs, detail, paused>>

(* Arrows, Home, End and pages.                                            *)
Move == \E i \in {cursor - 1, cursor + 1, 1, LastRow(Rows)} : PointAt(i)

(* The wheel, or a first click on a row.                                   *)
Click == \E i \in 1..LastRow(Rows) : PointAt(i)

(* 1, 2, 3, and Tab among the lists.                                       *)
ShowPage ==
    /\ Keys /\ \E p \in Lists : Navigate(p)
    /\ UNCHANGED <<world, instance, service, sensitive, snaps, inspects, detail, paused>>

(* Tab or a letter among an instance's pages: the selected service is kept. *)
OpenPage(p) ==
    /\ Keys /\ Open(p, IF page = "services" THEN Selected ELSE service)
    /\ UNCHANGED <<world, instance, sensitive, snaps, inspects, detail, paused>>

OpenTab == OnInstance(page) /\ \E p \in Tabs : OpenPage(p)

(* A click on a tab other than the one shown.                              *)
ClickTab ==
    \E p \in (IF OnInstance(page) THEN Tabs ELSE Lists) \ {page} : OpenPage(p)

Back ==
    /\ Keys /\ Navigate(IF page \in {"env", "urls", "logs"} THEN "services" ELSE "instances")
    /\ UNCHANGED <<world, instance, service, sensitive, snaps, inspects, detail, paused>>

(* [ and ].                                                                *)
OtherService ==
    /\ Keys /\ page \in {"env", "urls", "logs"}
    /\ \E s \in Services \ {service} :
          IF page = "logs" THEN Open("logs", s)
          ELSE service' = s /\ cursor' = 1 /\ page' = page /\ UNCHANGED logs
    /\ UNCHANGED <<world, instance, sensitive, snaps, inspects, detail, paused>>

(* Enter or a double click on an instance, on a service.                   *)
OpenInstance ==
    /\ Keys /\ page = "instances" /\ Selected # Nobody /\ Cardinality(asked) <= MaxAsked
    /\ instance' = Selected /\ service' = RowAt(1, Services)
    /\ inspection' = Nothing /\ Inspect(Selected, sensitive, snapshot)
    /\ Navigate("services")
    /\ UNCHANGED <<world, sensitive, snaps, detail, paused>>

OpenService ==
    /\ Keys /\ page = "services" /\ Selected # Nobody
    /\ service' = Selected /\ Navigate("urls")
    /\ UNCHANGED <<world, instance, sensitive, snaps, inspects, detail, paused>>

(* v, and i.                                                               *)
Cleared == Nothing

Toggle ==
    /\ Keys /\ page = "env" /\ Cardinality(asked) <= MaxAsked
    /\ sensitive' = ~sensitive
    /\ inspection' = Cleared
    /\ Inspect(instance, sensitive', snapshot)
    /\ UNCHANGED <<world, view, snaps, logs, detail, paused>>

(* d, or Enter on an environment entry.                                    *)
ShowDetail ==
    /\ Keys /\ page = "env" /\ inspection # Nothing /\ detail' = inspection
    /\ UNCHANGED <<world, view, sensitive, snaps, inspects, logs, paused>>

CloseDetail ==
    /\ detail # Nothing /\ detail' = Nothing
    /\ UNCHANGED <<world, view, sensitive, snaps, inspects, logs, paused>>

(* p.                                                                      *)
Pause ==
    /\ Keys /\ paused' = ~paused
    /\ IF paused THEN Refresh /\ FetchLogs(page, instance, service, logLines, logFetching, logsAsked)
       ELSE UNCHANGED <<snaps, logs>>
    /\ UNCHANGED <<world, view, sensitive, inspects, detail>>

(* F5.                                                                     *)
RefreshNow ==
    /\ Keys /\ Refresh /\ FetchLogs(page, instance, service, logLines, logFetching, logsAsked)
    /\ UNCHANGED <<world, view, sensitive, inspects, detail, paused>>

-----------------------------------------------------------------------------
(* Instances start and end.                                                *)
Change ==
    /\ changes < MaxChanges /\ changes' = changes + 1
    /\ \E id \in Ids : alive' = IF id \in alive THEN alive \ {id} ELSE alive \cup {id}
    /\ UNCHANGED <<view, sensitive, snaps, inspects, logs, detail, paused>>

Answer ==
    \/ TakeSnapshot \/ SnapshotMsg
    \/ \E r \in asked : InspectionMsg(r)
    \/ \E r \in logsAsked : LogsMsg(r)

(* F5 is a tick that comes early: Key leaves it out.                        *)
Key ==
    \/ Move \/ Click \/ ShowPage \/ OpenTab \/ ClickTab \/ Back \/ OtherService \/ OpenInstance \/ OpenService
    \/ Toggle \/ ShowDetail \/ CloseDetail \/ Pause

TuiNext == Tick \/ Answer \/ Key \/ RefreshNow \/ Change

(* Bubble Tea delivers every message, the tick is rearmed by every tick,   *)
(* and each command ends within its timeout.  No key need be pressed.      *)
TuiFairness ==
    /\ WF_tuiVars(Tick) /\ WF_tuiVars(TakeSnapshot \/ SnapshotMsg)
    /\ WF_tuiVars(\E r \in asked : InspectionMsg(r))
    /\ WF_tuiVars(\E r \in logsAsked : LogsMsg(r))

TuiSpec == TuiInit /\ [][TuiNext]_tuiVars /\ TuiFairness

-----------------------------------------------------------------------------
(* Properties                                                              *)

(* What is on the screen is about the instance and the service selected    *)
(* and was asked for with the flags in force: a late answer never brings   *)
(* back another instance's environment or values hidden since              *)
(* (inspectionMsg, logsMsg, "v").                                          *)
ShownIsSelected ==
    /\ inspection # Nothing =>
          inspection = [id |-> instance, sensitive |-> sensitive]
    /\ page = "logs" /\ logLines # NoLogs => logLines = <<instance, service>>
    /\ detail # Nothing => detail.sensitive = sensitive

(* Once the user leaves the keyboard alone on a log page, the logs of the  *)
(* service selected are shown, whatever was under way when it was opened   *)
(* (navigate, fetchLogs), unless the instance ends or refresh is paused.   *)
LogsArrive ==
    <>[][~Key]_tuiVars =>
        (page = "logs" ~> (logLines = <<instance, service>> \/ page # "logs" \/ paused))
=============================================================================
