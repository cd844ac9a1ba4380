----------------------------- MODULE RouteControl -----------------------------
(***************************************************************************)
(* The daemon's route controller (internal/route/controller.go), the store *)
(* it shares with process discovery (internal/route/store.go), and the     *)
(* publisher that renders a snapshot of the store into the file Traefik    *)
(* watches (cmd/webport/main.go, internal/traefik).                        *)
(*                                                                         *)
(* Three actors interleave.  An API request, the expiry goroutine or the   *)
(* web UI holds the controller's mutex (c.mu) from the edit of the claims  *)
(* to the commit or the rollback: at most one such operation is in flight, *)
(* and `phase' says how far it is.  The discovery goroutine changes the    *)
(* discovered part of the store and publishes without c.mu; it meets the   *)
(* controller only at the store's own lock and at publishMu.  Time passes  *)
(* at every point (Tick).                                                  *)
(*                                                                         *)
(* Abstractions.  The hostname of a route is HostOf[id], and two           *)
(* identities may share one; a route of the daemon's own has one of        *)
(* SystemHosts instead.  A claim's expiry is the number of ticks it has    *)
(* left, 0 for a claim that has expired and is not yet removed.  revision  *)
(* and appliedRevision only matter through "equal" (current) and           *)
(* "positive" (applied).  The maps clients and legacyIDs are indexes of    *)
(* claims, written in the same critical sections, and are not kept apart:  *)
(* a client has one lease.                                                 *)
(* Nothing here tells a system route from another manual one, so a route's *)
(* source is "manual" or "process".  A refused request (409, 404) changes  *)
(* nothing and is not a step.                                              *)
(***************************************************************************)
EXTENDS Naturals, FiniteSets

CONSTANTS
    Clients,        \* client_id values of POST /v1/leases
    Ids,            \* route identities (project and branch)
    Ports,
    HostOf,         \* [Ids -> hostname]: what BuildRouteDomain makes of an identity
    LeaseIds,       \* identities clients claim with leases
    LegacyIds,      \* identities used through the legacy /routes API
    SystemIds,      \* identities of routes the daemon itself owns (the web UI)
    SystemHosts,    \* the hostnames their subdomain may give them
    SystemLeases,   \* those a client addresses by the ID of the daemon's own lease
    Scans,          \* what a discovery scan may find; {} when discovery is off
    MaxTTL,         \* longest TTL, in ticks
    LateRenewals,   \* whether a renewal may reach the daemon after the expiry
    MayCrash,       \* whether the daemon may be killed and started again
    None            \* no claim, no route

ASSUME Sets == /\ LeaseIds \subseteq Ids
               /\ LegacyIds \subseteq Ids
               /\ SystemLeases \subseteq SystemIds /\ SystemIds \subseteq Ids
ASSUME ScansFound == \A found \in Scans : found \in [Ids -> Ports \cup {None}]
ASSUME Numbers == MaxTTL \in Nat \ {0}
ASSUME Flags == LateRenewals \in BOOLEAN /\ MayCrash \in BOOLEAN

VARIABLES
    claims,     \* owner -> Claim or None: the controller's claims
    store,      \* id -> Route or None: the shared store
    file,       \* the published document: a set of (hostname, port) routers
    applied,    \* appliedRevision > 0: the initial publication succeeded
    current,    \* revision = appliedRevision
    failed,     \* lastError # nil
    phase,      \* progress of the operation that holds c.mu
    undo,       \* the claims to restore if that operation fails
    saved,      \* the desired routes until staged, the previous ones afterwards
    rendered,   \* the document the operation is about to write
    scan,       \* progress of the discovery goroutine; "failed" between scans when its
                \* last publication failed and none, of anybody, has succeeded since
    scanned     \* the document discovery is about to write

control == <<applied, current, failed>>
vars == <<claims, store, file, control, phase, undo, saved, rendered, scan, scanned>>

-----------------------------------------------------------------------------
(* Claims, routes and documents.                                           *)

Lease(c) == <<"lease", c>>
Legacy(i) == <<"legacy", i>>
System(i) == <<"system", i>>
Owners == {Lease(c) : c \in Clients} \cup {Legacy(i) : i \in Ids}
              \cup {System(i) : i \in SystemIds}

\* The claims /v1/leases reaches: any that is not synthetic.
Renewable == {Lease(c) : c \in Clients} \cup {System(i) : i \in SystemLeases}

Hosts == {HostOf[i] : i \in Ids} \cup SystemHosts
Document == [host : Hosts, port : Ports]
Router(i, p) == [host |-> HostOf[i], port |-> p]

\* systemExpiry: what a tick does not bring nearer.
Forever == MaxTTL + 1
Claim == [id : Ids, router : Document, left : 0..Forever]
Route == [router : Document, source : {"manual", "process"}]
ASSUME NoneIsNothing == None \notin Claim /\ None \notin Route

NoClaims == [o \in Owners |-> None]
NoRoutes == [i \in Ids |-> None]

IsSystem(o) == o[1] = "system"
Live(cs, o) == cs[o] # None /\ cs[o].left > 0
Holds(cs, o, i) == cs[o] # None /\ cs[o].id = i
LiveOn(cs, i) == {o \in Owners : Live(cs, o) /\ cs[o].id = i}

\* Route.IsDiscovered, and its opposite for a stored route.
Discovered(r) == r # None /\ r.source = "process"
Manual(r) == r # None /\ r.source # "process"

\* What one tick does to a set of claims.
Aged(cs) == [o \in Owners |->
    IF cs[o] = None \/ cs[o].left \in {0, Forever} THEN cs[o]
    ELSE [cs[o] EXCEPT !.left = @ - 1]]

\* GenerateDynamicConfig: one router per stored route, named by its hostname.
Rendered(s) == {s[i].router : i \in {j \in Ids : s[j] # None}}

\* applyLocked, first half: the routes the unexpired claims call for ...
Effective(cs) == [i \in Ids |->
    IF LiveOn(cs, i) = {} THEN None
    ELSE [router |-> cs[CHOOSE o \in LiveOn(cs, i) : TRUE].router, source |-> "manual"]]

\* ... and the conditions under which it refuses to go on: two claims of an
\* identity with different hostnames or ports, two identities with one hostname,
\* or the hostname of a discovered route of another identity.
AgreeOn(cs, i) == \A o, p \in LiveOn(cs, i) : cs[o].router = cs[p].router
ClaimsAgree(cs) == \A i \in Ids : AgreeOn(cs, i)
HostsDistinct(cs) == \A i, j \in Ids : \A o \in LiveOn(cs, i), p \in LiveOn(cs, j) :
    i # j => cs[o].router.host # cs[p].router.host
ClearOfDiscovery(cs, s) == \A i, j \in Ids : \A o \in LiveOn(cs, i) :
    Discovered(s[j]) /\ i # j => cs[o].router.host # s[j].router.host
Admissible(cs, s) == ClaimsAgree(cs) /\ HostsDistinct(cs) /\ ClearOfDiscovery(cs, s)

\* Store.SetManual: the manual part is replaced, discovered routes stay unless
\* a manual route takes their identity.
SetManual(s, desired) == [i \in Ids |->
    IF desired[i] # None THEN desired[i] ELSE IF Discovered(s[i]) THEN s[i] ELSE None]
ManualPart(s) == [i \in Ids |-> IF Manual(s[i]) THEN s[i] ELSE None]

\* Variant: only the identity of a manual route is respected, not its hostname.
ReconciledByIdentity(s, found) == [i \in Ids |->
    IF Manual(s[i]) THEN s[i]
    ELSE IF found[i] # None THEN [router |-> Router(i, found[i]), source |-> "process"] ELSE None]

\* Store.ReconcileDiscovered for a scan [id -> port or None]: manual identities
\* and manual hostnames win, and two of the others with one hostname block each
\* other.
Reconciled(s, found) == [i \in Ids |->
    IF Manual(s[i]) THEN s[i]
    ELSE IF /\ found[i] # None
            /\ \A j \in Ids \ {i} :
                  /\ Manual(s[j]) => s[j].router.host # HostOf[i]
                  /\ HostOf[j] = HostOf[i] => Manual(s[j]) \/ found[j] = None
         THEN [router |-> Router(i, found[i]), source |-> "process"]
         ELSE None]

-----------------------------------------------------------------------------
(* Operations under c.mu.                                                  *)

Init == /\ claims = NoClaims
        /\ store = NoRoutes
        /\ file = {}
        /\ applied = FALSE /\ current = FALSE /\ failed = FALSE
        /\ phase = "boot"
        /\ undo = NoClaims /\ saved = NoRoutes /\ rendered = {}
        /\ scan = "idle" /\ scanned = {}

\* applyLocked up to the comparison with the discovered routes: the claims are
\* edited, the desired routes are known, nothing in the store has changed yet.
\* (Variant: only the identities whose claims the operation changes are applied.)
ApplyChanged(cs) ==
    /\ phase = "idle"
    /\ Admissible(cs, store)
    /\ phase' = "checked"
    /\ undo' = claims
    /\ claims' = cs
    /\ saved' = [i \in Ids |->
                    IF \E o \in Owners : cs[o] # claims[o] /\ (Holds(cs, o, i) \/ Holds(claims, o, i))
                    THEN Effective(cs)[i] ELSE ManualPart(store)[i]]
    /\ UNCHANGED <<store, file, control, rendered, scan, scanned>>

Apply(cs) ==
    /\ phase = "idle"
    /\ Admissible(cs, store)
    /\ phase' = "checked"
    /\ undo' = claims
    /\ claims' = cs
    /\ saved' = Effective(cs)
    /\ UNCHANGED <<store, file, control, rendered, scan, scanned>>

\* refreshRouteLocked: the route of the live claims of i is put in the store
\* without a publication, unless there are none or they differ (the caller gets
\* an error, but the claim is already changed).
Refreshed(cs, i) ==
    IF LiveOn(cs, i) # {} /\ AgreeOn(cs, i)
    THEN [store EXCEPT ![i] = Effective(cs)[i]]
    ELSE store

Extend(cs, i) ==
    /\ phase = "idle"
    /\ claims' = cs
    /\ store' = Refreshed(cs, i)
    /\ UNCHANGED <<file, control, phase, undo, saved, rendered, scan, scanned>>

InTime(o) == LateRenewals \/ claims[o].left > 0

\* CreateLease: a new client's claim is applied; a known client's is extended
\* when the request repeats it.
CreateLease(c, i, p, ttl) ==
    \/ /\ claims[Lease(c)] = None
       /\ Apply([claims EXCEPT ![Lease(c)] = [id |-> i, router |-> Router(i, p), left |-> ttl]])
    \/ /\ Holds(claims, Lease(c), i) /\ claims[Lease(c)].router = Router(i, p)
       /\ InTime(Lease(c))
       /\ Extend([claims EXCEPT ![Lease(c)].left = ttl], i)

\* HeartbeatLease: any known lease is extended, expired or not.  A system claim
\* has no TTL of its own: it expires after the requested one, or at once.
HeartbeatLease(o, ttl) ==
    /\ claims[o] # None
    /\ InTime(o)
    /\ ttl > 0 \/ IsSystem(o)
    /\ Extend([claims EXCEPT ![o].left = ttl], claims[o].id)

\* Variants: a lease is deleted without a publication, or together with the
\* route, whoever else claims it.
DeleteLeaseSilently(o) ==
    /\ claims[o] # None
    /\ phase = "idle"
    /\ claims' = [claims EXCEPT ![o] = None]
    /\ store' = SetManual(store, Effective(claims'))
    /\ UNCHANGED <<file, control, phase, undo, saved, rendered, scan, scanned>>

DeleteLeaseWithRoute(o) ==
    LET cs == [claims EXCEPT ![o] = None]
    IN  /\ claims[o] # None
        /\ phase = "idle"
        /\ phase' = "checked"
        /\ undo' = claims
        /\ claims' = cs
        /\ saved' = [Effective(cs) EXCEPT ![claims[o].id] = None]
        /\ UNCHANGED <<store, file, control, rendered, scan, scanned>>

DeleteLease(o) ==
    /\ claims[o] # None
    /\ Apply([claims EXCEPT ![o] = None])

RegisterLegacy(i, p, ttl) ==
    Apply([claims EXCEPT ![Legacy(i)] = [id |-> i, router |-> Router(i, p), left |-> ttl]])

\* HeartbeatLegacy: without a synthetic claim, one is made from any manual
\* route of the store; it has the route's port, but no subdomain.
HeartbeatLegacy(i, ttl) ==
    \/ /\ claims[Legacy(i)] # None
       /\ InTime(Legacy(i))
       /\ Extend([claims EXCEPT ![Legacy(i)].left = ttl], i)
    \/ /\ claims[Legacy(i)] = None /\ Manual(store[i])
       /\ Extend([claims EXCEPT ![Legacy(i)] =
                     [id |-> i, router |-> Router(i, store[i].router.port), left |-> ttl]], i)

\* DeleteLegacy: without a synthetic claim, a manual route leaves the store
\* itself, and the claims that call for it stay.
DropRoute(i) ==
    /\ phase = "idle"
    /\ claims[Legacy(i)] = None /\ Manual(store[i])
    /\ phase' = "staged"
    /\ undo' = claims
    /\ saved' = ManualPart(store)
    /\ store' = [store EXCEPT ![i] = None]
    /\ current' = FALSE
    /\ UNCHANGED <<claims, file, applied, failed, rendered, scan, scanned>>

DeleteLegacy(i) ==
    \/ /\ claims[Legacy(i)] # None
       /\ Apply([claims EXCEPT ![Legacy(i)] = None])
    \/ DropRoute(i)

SetSystemRoute(i, r) ==
    Apply([claims EXCEPT ![System(i)] = [id |-> i, router |-> r, left |-> Forever]])

DeleteSystemRoute(i) ==
    /\ claims[System(i)] # None
    /\ Apply([claims EXCEPT ![System(i)] = None])

\* Variant: only synthetic claims are swept.
ExpireLegacyOnly ==
    LET expired == {o \in Owners : claims[o] # None /\ claims[o].left = 0 /\ o[1] = "legacy"}
    IN  /\ expired # {}
        /\ Apply([o \in Owners |-> IF o \in expired THEN None ELSE claims[o]])

\* Expire: every expired claim but those of the daemon goes, or (on an error) none.
Expire ==
    LET expired == {o \in Owners : claims[o] # None /\ claims[o].left = 0 /\ ~IsSystem(o)}
    IN  /\ expired # {}
        /\ Apply([o \in Owners |-> IF o \in expired THEN None ELSE claims[o]])

-----------------------------------------------------------------------------
(* Publication.  publishMu is held while phase or scan is "writing".       *)

\* applyLocked, second half: SetManual and revision++.
Stage ==
    /\ phase = "checked"
    /\ phase' = "staged"
    /\ store' = SetManual(store, saved)
    /\ saved' = ManualPart(store)
    /\ current' = FALSE
    /\ UNCHANGED <<claims, file, applied, failed, undo, rendered, scan, scanned>>

\* publishTraefikConfig: publishMu is taken and the whole store is rendered.
\* Initialize comes here straight from "boot".
Snapshot ==
    /\ phase \in {"boot", "staged"}
    /\ scan # "writing"
    /\ phase' = "writing"
    /\ rendered' = Rendered(store)
    /\ UNCHANGED <<claims, store, file, control, undo, saved, scan, scanned>>

\* FileWriter.Write renames the new file into place; the operation commits.
WriteSucceeds ==
    /\ phase = "writing"
    /\ file' = rendered
    /\ applied' = TRUE /\ current' = TRUE /\ failed' = FALSE
    /\ phase' = "idle"
    /\ undo' = NoClaims /\ saved' = NoRoutes /\ rendered' = {}
    /\ scan' = IF scan = "failed" THEN "idle" ELSE scan
    /\ UNCHANGED <<claims, store, scanned>>

\* The file is as before.  A daemon that cannot publish its first document
\* exits, and the service manager starts it again.
WriteFails ==
    /\ phase = "writing"
    /\ phase' = IF applied THEN "refused" ELSE "boot"
    /\ rendered' = {}
    /\ UNCHANGED <<claims, store, file, control, undo, saved, scan, scanned>>

\* Variant: the claims come back, the previous routes do not.
RollbackClaimsOnly ==
    /\ phase = "refused"
    /\ phase' = "idle"
    /\ claims' = undo
    /\ failed' = TRUE
    /\ undo' = NoClaims /\ saved' = NoRoutes
    /\ UNCHANGED <<store, file, applied, current, rendered, scan, scanned>>

\* The caller of publish puts the previous routes and claims back.
Rollback ==
    /\ phase = "refused"
    /\ phase' = "idle"
    /\ store' = SetManual(store, saved)
    /\ claims' = undo
    /\ failed' = TRUE
    /\ undo' = NoClaims /\ saved' = NoRoutes
    /\ UNCHANGED <<file, applied, current, rendered, scan, scanned>>

-----------------------------------------------------------------------------
(* The discovery goroutine, time, and the death of the daemon.             *)

Discover(found) ==
    /\ applied
    /\ scan \in {"idle", "failed"}
    /\ Reconciled(store, found) # store
    /\ store' = Reconciled(store, found)
    /\ scan' = "changed"
    /\ UNCHANGED <<claims, file, control, phase, undo, saved, rendered, scanned>>
\* Variant: discovery publishes without taking publishMu.
ScanSnapshotUnlocked ==
    /\ scan = "changed"
    /\ scan' = "writing"
    /\ scanned' = Rendered(store)
    /\ UNCHANGED <<claims, store, file, control, phase, undo, saved, rendered>>

ScanSnapshot ==
    /\ scan = "changed"
    /\ phase # "writing"
    /\ scan' = "writing"
    /\ scanned' = Rendered(store)
    /\ UNCHANGED <<claims, store, file, control, phase, undo, saved, rendered>>

\* An error is logged and forgotten: lastError belongs to the controller, and
\* the next scan that finds the same changes nothing and does not publish.
ScanWrites(written) ==
    /\ scan = "writing"
    /\ scan' = IF written THEN "idle" ELSE "failed"
    /\ file' = IF written THEN scanned ELSE file
    /\ scanned' = {}
    /\ UNCHANGED <<claims, store, control, phase, undo, saved, rendered>>

Tick ==
    /\ Aged(claims) # claims \/ Aged(undo) # undo
    /\ claims' = Aged(claims)
    /\ undo' = Aged(undo)
    /\ UNCHANGED <<store, file, control, phase, saved, rendered, scan, scanned>>

\* Claims and store are memory only; the file survives.
Crash ==
    /\ MayCrash
    /\ claims' = NoClaims /\ store' = NoRoutes
    /\ applied' = FALSE /\ current' = FALSE /\ failed' = FALSE
    /\ phase' = "boot"
    /\ undo' = NoClaims /\ saved' = NoRoutes /\ rendered' = {}
    /\ scan' = "idle" /\ scanned' = {}
    /\ UNCHANGED file

Request ==
    \/ \E c \in Clients, i \in LeaseIds, p \in Ports, ttl \in 1..MaxTTL : CreateLease(c, i, p, ttl)
    \/ \E o \in Renewable, ttl \in 0..MaxTTL : HeartbeatLease(o, ttl)
    \/ \E o \in Renewable : DeleteLease(o)
    \/ \E i \in LegacyIds, p \in Ports, ttl \in 1..MaxTTL : RegisterLegacy(i, p, ttl)
    \/ \E i \in LegacyIds, ttl \in 1..MaxTTL : HeartbeatLegacy(i, ttl)
    \/ \E i \in LegacyIds : DeleteLegacy(i)
    \/ \E i \in SystemIds, h \in SystemHosts, p \in Ports :
          SetSystemRoute(i, [host |-> h, port |-> p])
    \/ \E i \in SystemIds : DeleteSystemRoute(i)

Next ==
    \/ Request
    \/ Expire
    \/ Stage \/ Snapshot \/ WriteSucceeds \/ WriteFails \/ Rollback
    \/ \E found \in Scans : Discover(found)
    \/ ScanSnapshot
    \/ \E written \in BOOLEAN : ScanWrites(written)
    \/ Tick
    \/ Crash

Spec == Init /\ [][Next]_vars

\* A scan comes that changes the store, when every scan would: what runs on
\* the machine, and so the result of a scan, need not ever change.
Rescan ==
    /\ \A found \in Scans : Reconciled(store, found) # store
    /\ \E found \in Scans : Discover(found)

\* Time passes, the expiry goroutine runs, an operation that holds c.mu goes
\* on, the machine is scanned, and a write that is tried again and again
\* succeeds again and again.
Fairness ==
    /\ WF_vars(Tick) /\ WF_vars(Expire)
    /\ WF_vars(Stage) /\ WF_vars(Snapshot) /\ WF_vars(Rollback)
    /\ WF_vars(WriteSucceeds \/ WriteFails) /\ SF_vars(WriteSucceeds)
    /\ WF_vars(Rescan)
    /\ WF_vars(ScanSnapshot) /\ WF_vars(\E written \in BOOLEAN : ScanWrites(written))

FairSpec == Spec /\ Fairness

-----------------------------------------------------------------------------
(* Properties.                                                             *)

\* Every variable holds a value of its kind.
TypeOK ==
    /\ claims \in [Owners -> Claim \cup {None}]
    /\ undo \in [Owners -> Claim \cup {None}]
    /\ store \in [Ids -> Route \cup {None}]
    /\ saved \in [Ids -> Route \cup {None}]
    /\ file \subseteq Document /\ rendered \subseteq Document /\ scanned \subseteq Document
    /\ applied \in BOOLEAN /\ current \in BOOLEAN /\ failed \in BOOLEAN
    /\ phase \in {"boot", "idle", "checked", "staged", "writing", "refused"}
    /\ scan \in {"idle", "changed", "writing", "failed"}

Quiescent == phase = "idle" /\ scan = "idle"
Ready == applied /\ current /\ ~failed

\* Between operations no route outlives its claims: every manual route of the
\* store is on the identity, the hostname and the port of some claim, through
\* every rollback, late renewal and interleaving with discovery.
NoOrphanRoute ==
    phase = "idle" => \A i \in Ids : Manual(store[i]) =>
        \E o \in Owners : Holds(claims, o, i) /\ claims[o].router = store[i].router

\* The committed registry: what the store holds outside an operation, and what
\* a failing operation goes back to.
Registry == IF phase \in {"staged", "writing", "refused"} THEN SetManual(store, saved) ELSE store

\* Once the daemon is up, the published document is the committed registry,
\* whether the last publication succeeded or failed.
FileIsRegistry == applied => file = Rendered(Registry)

\* A live claim is served on its hostname and port, for as long as it is live.
LiveClaimServed ==
    phase = "idle" => \A o \in Owners : Live(claims, o) => claims[o].router \in file

\* Live claims of one identity agree on the hostname and the port.
LiveClaimsAgree == ClaimsAgree(claims)

\* The document never has two routers for one hostname.
OneRouterPerHost == \A r, s \in file : r.host = s.host => r = s

\* /ready answers 200 only while the document is what the daemon wants served;
\* after a publication of discovery that failed this is so again with the next
\* publication, whoever makes it.
ReadyIsPublished == Quiescent /\ Ready => file = Rendered(store)

\* A transaction that changes the claims serves all the live ones when it
\* commits: also those whose route DELETE /routes had taken out of the store
\* and the document, and whatever discovery did meanwhile.
AppliedIsServed ==
    [][phase = "writing" /\ phase' = "idle" /\ claims # undo =>
        \A o \in Owners : Live(claims, o) => claims[o].router \in file']_vars

\* A discovered route that slips in beside a manual one of the same hostname,
\* between the controller's check and its change of the store, does not stay
\* in the document of a daemon that says it is ready, unless discovery could
\* not publish that it has taken the route out.
HostConflictEnds == []<>(Ready /\ scan # "failed" => OneRouterPerHost)

\* A host nobody has a live claim on stops being served, or is claimed again,
\* unless it is that of a system claim to which a heartbeat has given an end:
\* that is never swept, and its route goes with the next transaction of anybody.
LiveOnHost(h) == \E o \in Owners : Live(claims, o) /\ claims[o].router.host = h
Lapsed(h) == \E i \in SystemIds : LET k == claims[System(i)] IN
                k # None /\ k.left = 0 /\ k.router.host = h
HostIsReleased == \A h \in Hosts :
    (applied /\ ~LiveOnHost(h)) ~>
        (LiveOnHost(h) \/ Lapsed(h) \/ \A r \in file : r.host # h)

\* The daemon's route transactions are those of RouteRegistry: the registry
\* is the committed one, and the daemon is down until its first publication.
Status == IF ~applied THEN "down" ELSE IF Ready THEN "ready" ELSE "behind"
Transactions == INSTANCE RouteRegistry WITH
    Routers <- Document, registry <- Rendered(Registry), document <- file, status <- Status
ImplementsRegistry == Transactions!Spec

=============================================================================
