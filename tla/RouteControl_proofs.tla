------------------------- MODULE RouteControl_proofs -------------------------
(***************************************************************************)
(* Proofs about RouteControl, for all clients, identities, ports and TTLs. *)
(*                                                                         *)
(* First part, without any hypothesis on the environment: types, and that  *)
(* no route outlives its claims.  Second part, for timely renewals without *)
(* discovery and with the two APIs on different identities: the document   *)
(* is the committed registry, every live claim is served, and the route    *)
(* transactions are those of RouteRegistry.  Third part, with discovery    *)
(* and for timely renewals: a daemon that is ready has published.  Fourth  *)
(* part, again without hypotheses: a transaction serves every live claim.  *)
(***************************************************************************)
EXTENDS RouteControl, TLAPS

Claims == [Owners -> Claim \cup {None}]
Routes == [Ids -> Route \cup {None}]

-----------------------------------------------------------------------------
(* What the helpers return.                                                *)

LEMMA OwnerKinds ==
    /\ \A c \in Clients : Lease(c) \in Owners
    /\ \A i \in Ids : Legacy(i) \in Owners
    /\ \A i \in SystemIds : System(i) \in Owners
    /\ Renewable \subseteq Owners
  BY Sets DEF Owners, Renewable, Lease, Legacy, System

LEMMA Routers ==
    /\ \A i \in Ids, p \in Ports : Router(i, p) \in Document
    /\ \A h \in SystemHosts, p \in Ports : [host |-> h, port |-> p] \in Document
    /\ \A r \in Document : r.port \in Ports
    /\ \A ttl \in 0..MaxTTL : ttl \in 0..Forever
    /\ Forever \in 0..Forever /\ Forever > MaxTTL /\ Forever \in Nat
  BY Numbers DEF Router, Document, Hosts, Forever

\* The routes applyLocked builds: one for each identity with a live claim, with
\* its hostname and port.
LEMMA EffectiveRoutes ==
    ASSUME NEW cs \in Claims
    PROVE  /\ Effective(cs) \in Routes
           /\ \A i \in Ids : Effective(cs)[i] # None <=> LiveOn(cs, i) # {}
           /\ \A i \in Ids : LiveOn(cs, i) # {} =>
                 /\ ~Discovered(Effective(cs)[i])
                 /\ \E o \in LiveOn(cs, i) : cs[o].router = Effective(cs)[i].router
  <1>1. ASSUME NEW i \in Ids, LiveOn(cs, i) # {}
        PROVE  /\ Effective(cs)[i] \in Route
               /\ ~Discovered(Effective(cs)[i])
               /\ \E o \in LiveOn(cs, i) : cs[o].router = Effective(cs)[i].router
    <2> DEFINE w == CHOOSE o \in LiveOn(cs, i) : TRUE
    <2>1. w \in LiveOn(cs, i)
      BY <1>1
    <2>2. cs[w] \in Claim
      BY <2>1 DEF LiveOn, Live, Claims
    <2>3. Effective(cs)[i] = [router |-> cs[w].router, source |-> "manual"]
      BY <1>1 DEF Effective
    <2> HIDE DEF w
    <2>4. Effective(cs)[i] \in Route
      BY <2>2, <2>3 DEF Claim, Route
    <2> QED
      BY <2>1, <2>3, <2>4 DEF Discovered
  <1>2. ASSUME NEW i \in Ids, LiveOn(cs, i) = {}
        PROVE  Effective(cs)[i] = None
    BY <1>2 DEF Effective
  <1>3. Effective(cs) = [i \in Ids |-> Effective(cs)[i]]
    BY DEF Effective
  <1>4. \A i \in Ids : Effective(cs)[i] \in Route \cup {None}
    BY <1>1, <1>2
  <1>5. Effective(cs) \in Routes
    BY <1>3, <1>4 DEF Routes
  <1> QED
    BY <1>1, <1>2, <1>5, NoneIsNothing

\* A tick changes neither the identity nor the router of a claim, and revives none.
LEMMA AgedClaims ==
    ASSUME NEW cs \in Claims
    PROVE  /\ Aged(cs) \in Claims
           /\ \A o \in Owners :
                 /\ Aged(cs)[o] = None <=> cs[o] = None
                 /\ cs[o] # None => Aged(cs)[o].id = cs[o].id /\ Aged(cs)[o].router = cs[o].router
                 /\ Live(Aged(cs), o) => Live(cs, o)
  <1> SUFFICES ASSUME NEW o \in Owners
               PROVE  /\ Aged(cs)[o] \in Claim \cup {None}
                      /\ Aged(cs)[o] = None <=> cs[o] = None
                      /\ cs[o] # None =>
                            Aged(cs)[o].id = cs[o].id /\ Aged(cs)[o].router = cs[o].router
                      /\ Live(Aged(cs), o) => Live(cs, o)
    BY DEF Aged, Claims
  <1>1. CASE cs[o] = None \/ cs[o].left \in {0, Forever}
    BY <1>1 DEF Aged, Live, Claims
  <1>2. CASE ~(cs[o] = None \/ cs[o].left \in {0, Forever})
    <2>1. Aged(cs)[o] = [cs[o] EXCEPT !.left = @ - 1]
      BY <1>2 DEF Aged
    <2>2. cs[o] \in Claim
      BY <1>2 DEF Claims
    <2>3. /\ Aged(cs)[o] \in Claim
          /\ Aged(cs)[o].id = cs[o].id /\ Aged(cs)[o].router = cs[o].router
      BY <1>2, <2>1, <2>2, Numbers DEF Claim, Forever
    <2> QED
      BY <1>2, <2>2, <2>3, Numbers, NoneIsNothing DEF Live, Claim, Forever
  <1> QED
    BY <1>1, <1>2

LEMMA StoredRoutes ==
    ASSUME NEW s \in Routes, NEW t \in Routes
    PROVE  /\ SetManual(s, t) \in Routes
           /\ ManualPart(s) \in Routes
           /\ Rendered(s) \subseteq Document
  BY DEF Routes, SetManual, ManualPart, Rendered, Document, Route

LEMMA EmptyState == NoClaims \in Claims /\ NoRoutes \in Routes
  BY DEF NoClaims, NoRoutes, Claims, Routes

-----------------------------------------------------------------------------
(* Every operation under c.mu has one of three forms.                      *)

\* cs has every claim of claims, on the same identity, hostname and port.
Keeps(cs) == \A o \in Owners : claims[o] # None =>
    cs[o] # None /\ cs[o].id = claims[o].id /\ cs[o].router = claims[o].router

LEMMA Renewed ==
    ASSUME TypeOK, NEW o \in Owners, claims[o] # None, NEW ttl \in 0..Forever
    PROVE  /\ [claims EXCEPT ![o].left = ttl] \in Claims
           /\ Keeps([claims EXCEPT ![o].left = ttl])
  <1>1. claims[o] \in Claim
    BY DEF TypeOK
  <1>2. [claims[o] EXCEPT !.left = ttl] \in Claim
    BY <1>1, Numbers DEF Claim
  <1>3. [claims EXCEPT ![o].left = ttl] = [claims EXCEPT ![o] = [claims[o] EXCEPT !.left = ttl]]
    OBVIOUS
  <1>4. [claims EXCEPT ![o].left = ttl] \in Claims
    BY <1>2, <1>3 DEF TypeOK, Claims
  <1>5. /\ [claims[o] EXCEPT !.left = ttl].id = claims[o].id
        /\ [claims[o] EXCEPT !.left = ttl].router = claims[o].router
    BY <1>1 DEF Claim
  <1>6. Keeps([claims EXCEPT ![o].left = ttl])
    BY <1>2, <1>3, <1>5, NoneIsNothing DEF Keeps, TypeOK
  <1> QED
    BY <1>4, <1>6

LEMMA Added ==
    ASSUME TypeOK, NEW o \in Owners, NEW i \in Ids, NEW r \in Document, NEW ttl \in 0..Forever
    PROVE  /\ [claims EXCEPT ![o] = [id |-> i, router |-> r, left |-> ttl]] \in Claims
           /\ claims[o] = None =>
                 Keeps([claims EXCEPT ![o] = [id |-> i, router |-> r, left |-> ttl]])
  <1>1. [id |-> i, router |-> r, left |-> ttl] \in Claim
    BY Numbers DEF Claim
  <1> QED
    BY <1>1 DEF TypeOK, Claims, Keeps

LEMMA Removed ==
    ASSUME TypeOK, NEW o \in Owners
    PROVE  [claims EXCEPT ![o] = None] \in Claims
  BY DEF TypeOK, Claims

LEMMA OperationForms ==
    ASSUME TypeOK, Request \/ Expire
    PROVE  \/ \E cs \in Claims : Apply(cs)
           \/ \E cs \in Claims, i \in Ids : Extend(cs, i) /\ Keeps(cs)
           \/ \E i \in Ids : DropRoute(i)
  <1>1. ASSUME NEW c \in Clients, NEW i \in LeaseIds, NEW p \in Ports, NEW ttl \in 1..MaxTTL,
               CreateLease(c, i, p, ttl)
        PROVE  \/ \E cs \in Claims : Apply(cs)
               \/ \E cs \in Claims, j \in Ids : Extend(cs, j) /\ Keeps(cs)
    <2>0. i \in Ids /\ Lease(c) \in Owners /\ Router(i, p) \in Document /\ ttl \in 0..Forever
      BY OwnerKinds, Routers, Sets, Numbers
    <2>1. CASE claims[Lease(c)] = None
      BY <1>1, <2>0, <2>1, Added DEF CreateLease, Holds
    <2>2. CASE claims[Lease(c)] # None
      BY <1>1, <2>0, <2>2, Renewed DEF CreateLease
    <2> QED
      BY <2>1, <2>2
  <1>2. ASSUME NEW o \in Renewable, NEW ttl \in 0..MaxTTL, HeartbeatLease(o, ttl)
        PROVE  \E cs \in Claims, i \in Ids : Extend(cs, i) /\ Keeps(cs)
    <2>1. o \in Owners /\ claims[o].id \in Ids
      BY <1>2, OwnerKinds DEF HeartbeatLease, TypeOK, Claim
    <2> QED
      BY <1>2, <2>1, Routers, Renewed DEF HeartbeatLease
  <1>3. ASSUME NEW o \in Renewable, DeleteLease(o)
        PROVE  \E cs \in Claims : Apply(cs)
    BY <1>3, OwnerKinds, Removed DEF DeleteLease
  <1>4. ASSUME NEW i \in LegacyIds, NEW p \in Ports, NEW ttl \in 1..MaxTTL,
               RegisterLegacy(i, p, ttl)
        PROVE  \E cs \in Claims : Apply(cs)
    <2>1. i \in Ids /\ Legacy(i) \in Owners /\ Router(i, p) \in Document /\ ttl \in 0..Forever
      BY OwnerKinds, Routers, Sets, Numbers
    <2> QED
      BY <1>4, <2>1, Added DEF RegisterLegacy
  <1>5. ASSUME NEW i \in LegacyIds, NEW ttl \in 1..MaxTTL, HeartbeatLegacy(i, ttl)
        PROVE  \E cs \in Claims, j \in Ids : Extend(cs, j) /\ Keeps(cs)
    <2>0. i \in Ids /\ Legacy(i) \in Owners /\ ttl \in 0..Forever
      BY OwnerKinds, Routers, Sets, Numbers
    <2>1. CASE claims[Legacy(i)] = None
      <3>1. store[i].router.port \in Ports
        BY <1>5, <2>0, <2>1, Routers DEF HeartbeatLegacy, Manual, TypeOK, Route
      <3>2. Router(i, store[i].router.port) \in Document
        BY <2>0, <3>1, Routers
      <3> QED
        BY <1>5, <2>0, <2>1, <3>2, Added DEF HeartbeatLegacy
    <2>2. CASE claims[Legacy(i)] # None
      BY <1>5, <2>0, <2>2, Renewed DEF HeartbeatLegacy
    <2> QED
      BY <2>1, <2>2
  <1>6. ASSUME NEW i \in LegacyIds, DeleteLegacy(i)
        PROVE  (\E cs \in Claims : Apply(cs)) \/ (\E j \in Ids : DropRoute(j))
    BY <1>6, OwnerKinds, Removed, Sets DEF DeleteLegacy
  <1>7. ASSUME NEW i \in SystemIds, NEW h \in SystemHosts, NEW p \in Ports,
               SetSystemRoute(i, [host |-> h, port |-> p])
        PROVE  \E cs \in Claims : Apply(cs)
    <2>1. i \in Ids /\ System(i) \in Owners /\ [host |-> h, port |-> p] \in Document
      BY OwnerKinds, Routers, Sets
    <2> QED
      BY <1>7, <2>1, Routers, Added DEF SetSystemRoute
  <1>8. ASSUME NEW i \in SystemIds, DeleteSystemRoute(i)
        PROVE  \E cs \in Claims : Apply(cs)
    BY <1>8, OwnerKinds, Removed DEF DeleteSystemRoute
  <1>9. ASSUME Expire
        PROVE  \E cs \in Claims : Apply(cs)
    <2> DEFINE expired == {o \in Owners : claims[o] # None /\ claims[o].left = 0
                                          /\ ~IsSystem(o)}
    <2> DEFINE cs == [o \in Owners |-> IF o \in expired THEN None ELSE claims[o]]
    <2>1. cs \in Claims
      BY DEF TypeOK, Claims
    <2>2. Apply(cs)
      BY <1>9 DEF Expire
    <2> QED
      BY <2>1, <2>2
  <1> QED
    BY <1>1, <1>2, <1>3, <1>4, <1>5, <1>6, <1>7, <1>8, <1>9 DEF Request

-----------------------------------------------------------------------------
(* Types.                                                                  *)

LEMMA RefreshedRoutes ==
    ASSUME NEW cs \in Claims, NEW i \in Ids, store \in Routes
    PROVE  Refreshed(cs, i) \in Routes
  <1>1. Effective(cs)[i] \in Route \cup {None}
    BY EffectiveRoutes DEF Routes
  <1> QED
    BY <1>1 DEF Refreshed, Routes

\* The controller, the store and the publisher only ever hold values of their
\* kind, whatever the interleaving.
THEOREM TypeCorrect == Spec => []TypeOK
  <1>1. Init => TypeOK
    BY EmptyState DEF Init, TypeOK, Claims, Routes
  <1>2. TypeOK /\ [Next]_vars => TypeOK'
    <2> SUFFICES ASSUME TypeOK, [Next]_vars
                 PROVE  TypeOK'
      OBVIOUS
    <2> USE DEF control
    <2>0. claims \in Claims /\ undo \in Claims /\ store \in Routes /\ saved \in Routes
      BY DEF TypeOK, Claims, Routes
    <2>1. ASSUME NEW cs \in Claims, Apply(cs)
          PROVE  TypeOK'
      BY <2>0, <2>1, EffectiveRoutes DEF Apply, TypeOK, Claims, Routes
    <2>2. ASSUME NEW cs \in Claims, NEW i \in Ids, Extend(cs, i)
          PROVE  TypeOK'
      BY <2>0, <2>2, RefreshedRoutes DEF Extend, TypeOK, Claims, Routes
    <2>3. ASSUME NEW i \in Ids, DropRoute(i)
          PROVE  TypeOK'
      <3>1. ManualPart(store) \in Routes
        BY <2>0, StoredRoutes
      <3> QED
        BY <2>3, <3>1 DEF DropRoute, TypeOK, Routes
    <2>4. CASE Request \/ Expire
      BY <2>1, <2>2, <2>3, <2>4, OperationForms
    <2>5. CASE Stage
      BY <2>0, <2>5, StoredRoutes DEF Stage, TypeOK, Claims, Routes
    <2>6. CASE Snapshot
      BY <2>0, <2>6, StoredRoutes DEF Snapshot, TypeOK
    <2>7. CASE WriteSucceeds
      BY <2>7, EmptyState DEF WriteSucceeds, TypeOK, Claims, Routes
    <2>8. CASE WriteFails
      BY <2>8 DEF WriteFails, TypeOK
    <2>9. CASE Rollback
      BY <2>0, <2>9, StoredRoutes, EmptyState DEF Rollback, TypeOK, Claims, Routes
    <2>10. ASSUME NEW found \in Scans, Discover(found)
           PROVE  TypeOK'
      BY <2>10, ScansFound, Routers DEF Discover, TypeOK, Reconciled, Route
    <2>11. CASE ScanSnapshot
      BY <2>0, <2>11, StoredRoutes DEF ScanSnapshot, TypeOK
    <2>12. ASSUME NEW written \in BOOLEAN, ScanWrites(written)
           PROVE  TypeOK'
      BY <2>12 DEF ScanWrites, TypeOK
    <2>13. CASE Tick
      BY <2>0, <2>13, AgedClaims DEF Tick, TypeOK, Claims
    <2>14. CASE Crash
      BY <2>14, EmptyState DEF Crash, TypeOK, Claims, Routes
    <2>15. CASE UNCHANGED vars
      BY <2>15 DEF vars, TypeOK
    <2> QED
      BY <2>4, <2>5, <2>6, <2>7, <2>8, <2>9, <2>10, <2>11, <2>12, <2>13, <2>14, <2>15 DEF Next
  <1> QED
    BY <1>1, <1>2, PTL DEF Spec

-----------------------------------------------------------------------------
(* No route outlives its claims.                                           *)
(*                                                                         *)
(* NoOrphanRoute only speaks of the moments between operations.  Inside    *)
(* one, either the store or what is saved for the rollback belongs to the  *)
(* new claims, and the other to the claims that would be restored.         *)

Backs(cs, s) == \A i \in Ids : Manual(s[i]) =>
    \E o \in Owners : Holds(cs, o, i) /\ cs[o].router = s[i].router

Booting ==
    /\ ~applied => phase \in {"boot", "writing"} /\ store = NoRoutes /\ saved = NoRoutes
    /\ applied => phase # "boot"

Backed ==
    /\ phase = "idle" => Backs(claims, store)
    /\ phase = "checked" => Backs(undo, store) /\ Backs(claims, saved)
    /\ phase \in {"staged", "writing"} => Backs(claims, store) /\ Backs(undo, saved)
    /\ phase = "refused" => Backs(undo, saved)

LEMMA BacksEffective ==
    ASSUME NEW cs \in Claims
    PROVE  Backs(cs, Effective(cs))
  <1> SUFFICES ASSUME NEW i \in Ids, Manual(Effective(cs)[i])
               PROVE  \E o \in Owners : Holds(cs, o, i) /\ cs[o].router = Effective(cs)[i].router
    BY DEF Backs
  <1>1. LiveOn(cs, i) # {}
    BY EffectiveRoutes DEF Manual
  <1>2. PICK o \in LiveOn(cs, i) : cs[o].router = Effective(cs)[i].router
    BY <1>1, EffectiveRoutes
  <1> QED
    BY <1>2 DEF LiveOn, Live, Holds

\* Claims that are added to, or grow older, still back what they backed.
LEMMA BacksKept ==
    ASSUME NEW s \in Routes, Backs(claims, s), NEW cs, Keeps(cs)
    PROVE  Backs(cs, s)
  BY DEF Backs, Keeps, Holds

LEMMA BacksAged ==
    ASSUME NEW s, NEW cs \in Claims, Backs(cs, s)
    PROVE  Backs(Aged(cs), s)
  BY AgedClaims DEF Backs, Holds

\* SetManual takes its manual routes from the desired ones only, and discovery
\* adds none.
LEMMA BacksSetManual ==
    ASSUME NEW s \in Routes, NEW t \in Routes, NEW cs, Backs(cs, t)
    PROVE  Backs(cs, SetManual(s, t))
  BY DEF Backs, SetManual, Manual, Discovered

LEMMA BacksParts ==
    ASSUME NEW s \in Routes, NEW cs, Backs(cs, s)
    PROVE  /\ Backs(cs, ManualPart(s))
           /\ \A i \in Ids : Backs(cs, [s EXCEPT ![i] = None])
           /\ \A found \in Scans : Backs(cs, Reconciled(s, found))
  <1>1. Backs(cs, ManualPart(s))
    BY DEF Backs, ManualPart, Manual
  <1>2. ASSUME NEW i \in Ids PROVE Backs(cs, [s EXCEPT ![i] = None])
    BY DEF Backs, Manual, Routes
  <1>3. ASSUME NEW found \in Scans PROVE Backs(cs, Reconciled(s, found))
    BY DEF Backs, Reconciled, Manual
  <1> QED
    BY <1>1, <1>2, <1>3

LEMMA BacksNothing == \A cs : Backs(cs, NoRoutes)
  BY DEF Backs, NoRoutes, Manual

LEMMA BacksRefreshed ==
    ASSUME TypeOK, NEW cs \in Claims, NEW i \in Ids, Backs(cs, store)
    PROVE  Backs(cs, Refreshed(cs, i))
  <1>1. \A j \in Ids : Refreshed(cs, i)[j] = store[j] \/ Refreshed(cs, i)[j] = Effective(cs)[j]
    BY DEF Refreshed, TypeOK
  <1> QED
    BY <1>1, BacksEffective DEF Backs

\* What is stored or saved is always backed by the claims it goes with.
LEMMA BackedAlways == Spec => [](Booting /\ Backed)
  <1> DEFINE Inv == Booting /\ Backed
  <1>1. Init => Inv
    BY DEF Init, Booting, Backed
  <1>2. TypeOK /\ Inv /\ [Next]_vars => Inv'
    <2> SUFFICES ASSUME TypeOK, Booting, Backed, [Next]_vars
                 PROVE  Booting' /\ Backed'
      OBVIOUS
    <2> USE DEF control
    <2>0. claims \in Claims /\ undo \in Claims /\ store \in Routes /\ saved \in Routes
      BY DEF TypeOK, Claims, Routes
    <2>1. ASSUME NEW cs \in Claims, Apply(cs)
          PROVE  Booting' /\ Backed'
      BY <2>1, BacksEffective DEF Apply, Booting, Backed
    <2>2. ASSUME NEW cs \in Claims, NEW i \in Ids, Extend(cs, i), Keeps(cs)
          PROVE  Booting' /\ Backed'
      <3>1. Backs(cs, store)
        BY <2>0, <2>2, BacksKept DEF Extend, Backed
      <3>2. Backs(cs, Refreshed(cs, i))
        BY <3>1, BacksRefreshed
      <3> QED
        BY <2>2, <3>2 DEF Extend, Booting, Backed
    <2>3. ASSUME NEW i \in Ids, DropRoute(i)
          PROVE  Booting' /\ Backed'
      <3>1. Backs(claims, ManualPart(store)) /\ Backs(claims, [store EXCEPT ![i] = None])
        BY <2>0, <2>3, BacksParts DEF DropRoute, Backed
      <3> QED
        BY <2>3, <3>1 DEF DropRoute, Booting, Backed
    <2>4. CASE Request \/ Expire
      BY <2>1, <2>2, <2>3, <2>4, OperationForms
    <2>5. CASE Stage
      <3>1. Backs(claims, SetManual(store, saved)) /\ Backs(undo, ManualPart(store))
        BY <2>0, <2>5, BacksSetManual, BacksParts DEF Stage, Backed
      <3> QED
        BY <2>5, <3>1 DEF Stage, Booting, Backed
    <2>6. CASE Snapshot
      BY <2>6, BacksNothing DEF Snapshot, Booting, Backed
    <2>7. CASE WriteSucceeds
      BY <2>7 DEF WriteSucceeds, Booting, Backed
    <2>8. CASE WriteFails
      BY <2>8 DEF WriteFails, Booting, Backed
    <2>9. CASE Rollback
      <3>1. Backs(undo, SetManual(store, saved))
        BY <2>0, <2>9, BacksSetManual DEF Rollback, Backed
      <3> QED
        BY <2>9, <3>1 DEF Rollback, Booting, Backed
    <2>10. ASSUME NEW found \in Scans, Discover(found)
           PROVE  Booting' /\ Backed'
      <3>1. \A cs \in Claims : Backs(cs, store) => Backs(cs, store')
        BY <2>0, <2>10, BacksParts DEF Discover
      <3> QED
        BY <2>0, <2>10, <3>1 DEF Discover, Booting, Backed
    <2>11. CASE ScanSnapshot
      BY <2>11 DEF ScanSnapshot, Booting, Backed
    <2>12. ASSUME NEW written \in BOOLEAN, ScanWrites(written)
           PROVE  Booting' /\ Backed'
      BY <2>12 DEF ScanWrites, Booting, Backed
    <2>13. CASE Tick
      BY <2>0, <2>13, BacksAged DEF Tick, Booting, Backed
    <2>14. CASE Crash
      BY <2>14 DEF Crash, Booting, Backed
    <2>15. CASE UNCHANGED vars
      BY <2>15 DEF vars, Booting, Backed
    <2> QED
      BY <2>4, <2>5, <2>6, <2>7, <2>8, <2>9, <2>10, <2>11, <2>12, <2>13, <2>14, <2>15 DEF Next
  <1> QED
    BY <1>1, <1>2, TypeCorrect, PTL DEF Spec

\* Between operations every manual route of the store is on the identity and
\* router of a claim: no rollback, late renewal, legacy call, discovery or crash
\* leaves a route nobody will ever expire.
THEOREM NoOrphans == Spec => []NoOrphanRoute
  <1>1. Backed => NoOrphanRoute
    BY DEF Backed, Backs, NoOrphanRoute
  <1> QED
    BY <1>1, BackedAlways, PTL

-----------------------------------------------------------------------------
(* The documented environment: clients renew before their claims expire,   *)
(* process discovery is off, and an identity used through /routes is not   *)
(* leased and is not the daemon's own.                                     *)

Documented ==
    /\ ~LateRenewals
    /\ Scans = {}
    /\ \A i \in LegacyIds : i \notin LeaseIds /\ i \notin SystemIds

\* In it, every live claim has its route in the routes it goes with ...
Serves(cs, s) == \A o \in Owners : Live(cs, o) =>
    s[cs[o].id] # None /\ s[cs[o].id].router = cs[o].router

\* ... no two routes share a hostname, none is discovered ...
Distinct(s) == \A i, j \in Ids : s[i] # None /\ s[j] # None /\ i # j =>
    s[i].router.host # s[j].router.host
Undiscovered(s) == \A i \in Ids : ~Discovered(s[i])

\* ... and a legacy identity has no claim but the synthetic one.
Owned(cs) ==
    /\ \A o \in Owners : cs[o] # None /\ cs[o].id \in LegacyIds => o = Legacy(cs[o].id)
    /\ \A i \in LegacyIds : cs[Legacy(i)] # None => cs[Legacy(i)].id = i

Quiet == scan = "idle" /\ Undiscovered(store) /\ Undiscovered(saved)

Served ==
    /\ ~applied => claims = NoClaims /\ undo = NoClaims
    /\ phase = "idle" => Serves(claims, store)
    /\ phase = "checked" => Serves(undo, store) /\ Serves(claims, saved)
    /\ phase \in {"staged", "writing"} => Serves(claims, store) /\ Serves(undo, saved)
    /\ phase = "refused" => Serves(undo, saved)

Published ==
    /\ Distinct(store) /\ Distinct(saved)
    /\ phase = "writing" => rendered = Rendered(store)
    /\ applied => file = Rendered(IF phase \in {"staged", "writing", "refused"}
                                  THEN saved ELSE store)
    /\ OneRouterPerHost

Strict == Quiet /\ Owned(claims) /\ Owned(undo) /\ Served /\ Published

LEMMA OwnersDiffer ==
    /\ \A c \in Clients, i \in Ids : Lease(c) # Legacy(i)
    /\ \A i, j \in Ids : System(i) # Legacy(j)
    /\ \A i, j \in Ids : Legacy(i) = Legacy(j) => i = j
  BY DEF Lease, Legacy, System

LEMMA UndiscoveredParts ==
    ASSUME NEW s \in Routes, NEW t \in Routes, Undiscovered(s)
    PROVE  SetManual(s, t) = t /\ ManualPart(s) = s
  BY DEF Routes, Undiscovered, SetManual, ManualPart, Manual, Discovered

\* What applyLocked accepts serves every live claim under a hostname of its own.
LEMMA EffectiveServes ==
    ASSUME NEW cs \in Claims, Admissible(cs, store)
    PROVE  Serves(cs, Effective(cs)) /\ Distinct(Effective(cs)) /\ Undiscovered(Effective(cs))
  <1>1. ASSUME NEW o \in Owners, Live(cs, o)
        PROVE  Effective(cs)[cs[o].id] # None /\ Effective(cs)[cs[o].id].router = cs[o].router
    <2>1. cs[o].id \in Ids /\ o \in LiveOn(cs, cs[o].id)
      BY <1>1 DEF Live, LiveOn, Claims, Claim
    <2>2. PICK p \in LiveOn(cs, cs[o].id) : cs[p].router = Effective(cs)[cs[o].id].router
      BY <2>1, EffectiveRoutes
    <2>3. cs[p].router = cs[o].router
      BY <2>1 DEF Admissible, ClaimsAgree, AgreeOn
    <2> QED
      BY <2>1, <2>2, <2>3, EffectiveRoutes
  <1>2. ASSUME NEW i \in Ids, NEW j \in Ids, i # j,
               Effective(cs)[i] # None, Effective(cs)[j] # None
        PROVE  Effective(cs)[i].router.host # Effective(cs)[j].router.host
    <2>1. PICK o \in LiveOn(cs, i) : cs[o].router = Effective(cs)[i].router
      BY <1>2, EffectiveRoutes
    <2>2. PICK p \in LiveOn(cs, j) : cs[p].router = Effective(cs)[j].router
      BY <1>2, EffectiveRoutes
    <2>3. cs[o].router.host # cs[p].router.host
      BY <1>2 DEF Admissible, HostsDistinct
    <2> QED
      BY <2>1, <2>2, <2>3
  <1>3. Undiscovered(Effective(cs))
    BY EffectiveRoutes, NoneIsNothing DEF Undiscovered, Discovered
  <1> QED
    BY <1>1, <1>2, <1>3 DEF Serves, Distinct

LEMMA ServesAged ==
    ASSUME NEW s, NEW cs \in Claims, Serves(cs, s)
    PROVE  Serves(Aged(cs), s)
  BY AgedClaims DEF Serves, Live

LEMMA OwnedAged ==
    ASSUME NEW cs \in Claims, Owned(cs)
    PROVE  Owned(Aged(cs))
  BY AgedClaims, OwnerKinds, Sets DEF Owned

\* When the live claims of an identity already have their route, a renewal
\* puts the same route in the store again.
LEMMA RefreshChangesNothing ==
    ASSUME TypeOK, NEW cs \in Claims, NEW i \in Ids, Serves(cs, store), Undiscovered(store)
    PROVE  Refreshed(cs, i) = store
  <1> SUFFICES ASSUME LiveOn(cs, i) # {} PROVE Refreshed(cs, i) = store
    BY DEF Refreshed
  <1>1. \A o \in LiveOn(cs, i) : store[i] # None /\ cs[o].router = store[i].router
    BY DEF LiveOn, Serves
  <1>2. store[i] = [router |-> store[i].router, source |-> "manual"]
    BY <1>1 DEF TypeOK, Route, Undiscovered, Discovered
  <1>3. Effective(cs)[i] = [router |-> store[i].router, source |-> "manual"]
    BY <1>1 DEF Effective
  <1> QED
    BY <1>1, <1>2, <1>3 DEF Refreshed, TypeOK

LEMMA OwnedAdded ==
    ASSUME TypeOK, Owned(claims), NEW o \in Owners, NEW i \in Ids, NEW r \in Document,
           NEW ttl \in 0..Forever, i \in LegacyIds \/ \A j \in LegacyIds : o = Legacy(j) => i = j,
           i \in LegacyIds => o = Legacy(i)
    PROVE  Owned([claims EXCEPT ![o] = [id |-> i, router |-> r, left |-> ttl]])
  <1> DEFINE cs == [claims EXCEPT ![o] = [id |-> i, router |-> r, left |-> ttl]]
  <1>1. \A q \in Owners :
            cs[q] = IF q = o THEN [id |-> i, router |-> r, left |-> ttl] ELSE claims[q]
    BY DEF TypeOK
  <1>2. \A q \in Owners : cs[q] # None /\ cs[q].id \in LegacyIds => q = Legacy(cs[q].id)
    BY <1>1 DEF Owned
  <1>3. ASSUME NEW j \in LegacyIds, cs[Legacy(j)] # None
        PROVE  cs[Legacy(j)].id = j
    <2>1. Legacy(j) \in Owners
      BY OwnerKinds, Sets
    <2>2. CASE Legacy(j) = o
      <3>1. cs[Legacy(j)].id = i
        BY <1>1, <2>1, <2>2
      <3> QED
        BY <2>2, <3>1, OwnersDiffer, Sets
    <2>3. CASE Legacy(j) # o
      BY <1>1, <1>3, <2>1, <2>3 DEF Owned
    <2> QED
      BY <2>2, <2>3
  <1> QED
    BY <1>2, <1>3 DEF Owned

LEMMA OwnedRemoved ==
    ASSUME NEW cs \in Claims, Owned(claims),
           \A o \in Owners : cs[o] = None \/ cs[o] = claims[o]
    PROVE  Owned(cs)
  BY OwnerKinds, Sets DEF Owned

LEMMA RenewalServes ==
    ASSUME TypeOK, Owned(claims), Serves(claims, store), NEW o \in Owners,
           claims[o] # None, claims[o].left > 0, NEW ttl \in 0..Forever
    PROVE  LET cs == [claims EXCEPT ![o].left = ttl]
           IN  Owned(cs) /\ Serves(cs, store)
  <1> DEFINE cs == [claims EXCEPT ![o].left = ttl]
  <1>1. Keeps(cs) /\ cs \in Claims
    BY Renewed
  <1>2. \A q \in Owners : q # o => cs[q] = claims[q]
    BY DEF TypeOK
  <1>3. cs[o] # None /\ cs[o].id = claims[o].id /\ cs[o].router = claims[o].router
    BY <1>1 DEF Keeps
  <1>5. Serves(cs, store)
    BY <1>2, <1>3 DEF Serves, Live
  <1>6. Owned(cs)
    BY <1>2, <1>3, OwnerKinds, Sets DEF Owned
  <1> QED
    BY <1>5, <1>6

\* In the documented environment a renewal leaves the store as it is, and no
\* route is dropped behind the claims that call for it.
LEMMA StrictForms ==
    ASSUME Documented, TypeOK, Booting, Backed, Strict, Request \/ Expire
    PROVE  \/ \E cs \in Claims : Apply(cs) /\ Owned(cs)
           \/ \E cs \in Claims, i \in Ids :
                 /\ Extend(cs, i)
                 /\ Owned(cs) /\ Serves(cs, store)
  <1> DEFINE Renewal == \E cs \in Claims, i \in Ids :
                 /\ Extend(cs, i)
                 /\ Owned(cs) /\ Serves(cs, store)
  <1>0. ASSUME NEW o \in Owners, claims[o] # None, InTime(o), NEW ttl \in 0..Forever,
               Extend([claims EXCEPT ![o].left = ttl], claims[o].id)
        PROVE  Renewal
    <2>1. claims[o].left > 0 /\ Serves(claims, store) /\ Owned(claims)
      BY <1>0 DEF InTime, Documented, Extend, Strict, Served
    <2>2. claims[o].id \in Ids
      BY <1>0 DEF TypeOK, Claim
    <2>3. [claims EXCEPT ![o].left = ttl] \in Claims
      BY <1>0, Renewed
    <2> QED
      BY <1>0, <2>1, <2>2, <2>3, RenewalServes
  <1>1. ASSUME NEW c \in Clients, NEW i \in LeaseIds, NEW p \in Ports, NEW ttl \in 1..MaxTTL,
               CreateLease(c, i, p, ttl)
        PROVE  (\E cs \in Claims : Apply(cs) /\ Owned(cs)) \/ Renewal
    <2>0. /\ Lease(c) \in Owners /\ i \in Ids /\ i \notin LegacyIds
          /\ Router(i, p) \in Document /\ ttl \in 0..Forever
      BY OwnerKinds, Routers, Sets, Numbers DEF Documented
    <2>1. CASE claims[Lease(c)] = None
      <3> DEFINE cs == [claims EXCEPT ![Lease(c)] =
                           [id |-> i, router |-> Router(i, p), left |-> ttl]]
      <3>1. Apply(cs)
        BY <1>1, <2>1 DEF CreateLease, Holds
      <3>2. cs \in Claims
        BY <2>0, Added
      <3>3. \A j \in LegacyIds : Lease(c) # Legacy(j)
        BY OwnersDiffer, Sets
      <3>4. Owned(cs)
        BY <2>0, <3>3, OwnedAdded DEF Strict
      <3> QED
        BY <3>1, <3>2, <3>4
    <2>2. CASE claims[Lease(c)] # None
      <3>1. /\ InTime(Lease(c)) /\ claims[Lease(c)].id = i
            /\ Extend([claims EXCEPT ![Lease(c)].left = ttl], i)
        BY <1>1, <2>2 DEF CreateLease, Holds
      <3> QED
        BY <1>0, <2>0, <2>2, <3>1
    <2> QED
      BY <2>1, <2>2
  <1>2. ASSUME NEW o \in Renewable, NEW ttl \in 0..MaxTTL, HeartbeatLease(o, ttl)
        PROVE  Renewal
    BY <1>0, <1>2, OwnerKinds, Routers DEF HeartbeatLease
  <1>3. ASSUME NEW o \in Owners, Apply([claims EXCEPT ![o] = None])
        PROVE  \E cs \in Claims : Apply(cs) /\ Owned(cs)
    <2>1. [claims EXCEPT ![o] = None] \in Claims
      BY Removed
    <2>2. \A q \in Owners : \/ [claims EXCEPT ![o] = None][q] = None
                            \/ [claims EXCEPT ![o] = None][q] = claims[q]
      BY DEF TypeOK
    <2> QED
      BY <1>3, <2>1, <2>2, OwnedRemoved DEF Strict
  <1>4. ASSUME NEW i \in LegacyIds, NEW p \in Ports, NEW ttl \in 1..MaxTTL,
               RegisterLegacy(i, p, ttl)
        PROVE  \E cs \in Claims : Apply(cs) /\ Owned(cs)
    <2>1. i \in Ids /\ Legacy(i) \in Owners /\ Router(i, p) \in Document /\ ttl \in 0..Forever
      BY OwnerKinds, Routers, Sets, Numbers
    <2> QED
      BY <1>4, <2>1, Added, OwnedAdded DEF RegisterLegacy, Strict
  <1>5. ASSUME NEW i \in LegacyIds, Manual(store[i]), claims[Legacy(i)] = None, phase = "idle"
        PROVE  FALSE
    <2>1. PICK o \in Owners : Holds(claims, o, i)
      BY <1>5, Sets DEF Backed, Backs
    <2>2. o = Legacy(i)
      BY <2>1 DEF Holds, Strict, Owned
    <2> QED
      BY <1>5, <2>1, <2>2 DEF Holds
  <1>6. ASSUME NEW i \in LegacyIds, NEW ttl \in 1..MaxTTL, HeartbeatLegacy(i, ttl)
        PROVE  Renewal
    <2>1. claims[Legacy(i)] # None /\ InTime(Legacy(i))
      BY <1>5, <1>6 DEF HeartbeatLegacy, Extend
    <2>2. Extend([claims EXCEPT ![Legacy(i)].left = ttl], i)
      BY <1>6, <2>1 DEF HeartbeatLegacy
    <2>3. Legacy(i) \in Owners /\ claims[Legacy(i)].id = i /\ ttl \in 0..Forever
      BY <2>1, OwnerKinds, Routers, Sets, Numbers DEF Strict, Owned
    <2> QED
      BY <1>0, <2>1, <2>2, <2>3
  <1>7. ASSUME NEW i \in LegacyIds, DeleteLegacy(i)
        PROVE  \E cs \in Claims : Apply(cs) /\ Owned(cs)
    <2>1. Legacy(i) \in Owners
      BY OwnerKinds, Sets
    <2> QED
      BY <1>3, <1>5, <1>7, <2>1 DEF DeleteLegacy, DropRoute
  <1>8. ASSUME NEW i \in SystemIds, NEW h \in SystemHosts, NEW p \in Ports,
               SetSystemRoute(i, [host |-> h, port |-> p])
        PROVE  \E cs \in Claims : Apply(cs) /\ Owned(cs)
    <2>1. /\ i \in Ids /\ System(i) \in Owners /\ i \notin LegacyIds
          /\ [host |-> h, port |-> p] \in Document /\ Forever \in 0..Forever
      BY OwnerKinds, Routers, Sets DEF Documented
    <2>2. \A j \in LegacyIds : System(i) # Legacy(j)
      BY <2>1, OwnersDiffer, Sets
    <2> DEFINE cs == [claims EXCEPT ![System(i)] =
                         [id |-> i, router |-> [host |-> h, port |-> p], left |-> Forever]]
    <2>3. cs \in Claims
      BY <2>1, Added
    <2>4. Owned(cs)
      BY <2>1, <2>2, OwnedAdded DEF Strict
    <2> QED
      BY <1>8, <2>3, <2>4 DEF SetSystemRoute
  <1>9. ASSUME Expire
        PROVE  \E cs \in Claims : Apply(cs) /\ Owned(cs)
    <2> DEFINE expired == {o \in Owners : claims[o] # None /\ claims[o].left = 0
                                          /\ ~IsSystem(o)}
    <2> DEFINE cs == [o \in Owners |-> IF o \in expired THEN None ELSE claims[o]]
    <2>1. cs \in Claims
      BY DEF TypeOK, Claims
    <2>2. \A o \in Owners : cs[o] = None \/ cs[o] = claims[o]
      OBVIOUS
    <2>3. Apply(cs)
      BY <1>9 DEF Expire
    <2> HIDE DEF cs
    <2> QED
      BY <2>1, <2>2, <2>3, OwnedRemoved DEF Strict
  <1> QED
    BY <1>1, <1>2, <1>3, <1>4, <1>6, <1>7, <1>8, <1>9, OwnerKinds
       DEF Request, DeleteLease, DeleteSystemRoute

LEMMA StrictInit == Init => Strict
  <1>1. Owned(NoClaims)
    BY OwnerKinds, Sets DEF Owned, NoClaims
  <1> QED
    BY <1>1 DEF Init, Strict, Quiet, Undiscovered, Discovered, NoRoutes, Served,
       Published, Distinct, OneRouterPerHost

LEMMA RenderedDistinct ==
    ASSUME NEW s \in Routes, Distinct(s)
    PROVE  \A q, r \in Rendered(s) : q.host = r.host => q = r
  BY DEF Rendered, Distinct

LEMMA StrictStep ==
    ASSUME Documented, TypeOK, Booting, Backed, Strict, [Next]_vars
    PROVE  Strict'
  <1> USE DEF control
  <1>0. claims \in Claims /\ undo \in Claims /\ store \in Routes /\ saved \in Routes
    BY DEF TypeOK, Claims, Routes
  <1>1. ASSUME NEW cs \in Claims, Apply(cs), Owned(cs)
        PROVE  Strict'
    <2>1. Serves(cs, Effective(cs)) /\ Distinct(Effective(cs)) /\ Undiscovered(Effective(cs))
      BY <1>1, EffectiveServes DEF Apply
    <2>2. Quiet' /\ Owned(claims)' /\ Owned(undo)'
      BY <1>1, <2>1 DEF Apply, Strict, Quiet, Undiscovered, Owned
    <2>3. Served'
      BY <1>1, <2>1 DEF Apply, Strict, Served, Booting, Serves
    <2>4. Published'
      BY <1>1, <2>1 DEF Apply, Strict, Published, Booting, Distinct, OneRouterPerHost
    <2> QED
      BY <2>2, <2>3, <2>4 DEF Strict
  <1>2. ASSUME NEW cs \in Claims, NEW i \in Ids, Extend(cs, i),
               Owned(cs), Serves(cs, store)
        PROVE  Strict'
    <2>1. store' = store
      BY <1>2, RefreshChangesNothing DEF Extend, Strict, Quiet
    <2>2. applied
      BY <1>2 DEF Extend, Booting
    <2> QED
      BY <1>2, <2>1, <2>2 DEF Extend, Strict, Quiet, Undiscovered, Owned, Served, Serves, Live,
         Published, Distinct, OneRouterPerHost
  <1>3. CASE Request \/ Expire
    BY <1>1, <1>2, <1>3, StrictForms
  <1>4. CASE Stage
    <2>1. store' = saved /\ saved' = store
      BY <1>0, <1>4, UndiscoveredParts DEF Stage, Strict, Quiet
    <2>2. Quiet' /\ Owned(claims)' /\ Owned(undo)'
      BY <1>4, <2>1 DEF Stage, Strict, Quiet, Undiscovered, Owned
    <2>3. Served'
      BY <1>4, <2>1 DEF Stage, Strict, Served, Serves, Live
    <2>4. Published'
      BY <1>4, <2>1 DEF Stage, Strict, Published, Distinct, OneRouterPerHost
    <2> QED
      BY <2>2, <2>3, <2>4 DEF Strict
  <1>5. CASE Snapshot
    <2>1. Served'
      <3>1. CASE phase = "boot"
        BY <1>5, <3>1 DEF Snapshot, Strict, Served, Serves, Live, Booting, NoClaims
      <3>2. CASE phase = "staged"
        BY <1>5, <3>2 DEF Snapshot, Strict, Served, Serves, Live
      <3> QED
        BY <1>5, <3>1, <3>2 DEF Snapshot
    <2>2. Published'
      BY <1>5 DEF Snapshot, Strict, Published, Distinct, OneRouterPerHost, Rendered, Booting
    <2> QED
      BY <1>5, <2>1, <2>2 DEF Snapshot, Strict, Quiet, Undiscovered, Owned
  <1>6. CASE WriteSucceeds
    <2>1. Undiscovered(saved)' /\ Distinct(saved)'
      BY <1>6 DEF WriteSucceeds, Undiscovered, Distinct, NoRoutes, Discovered
    <2>2. Owned(undo)'
      BY <1>6, OwnerKinds, Sets DEF WriteSucceeds, Owned, NoClaims
    <2>3. OneRouterPerHost'
      BY <1>0, <1>6, RenderedDistinct DEF WriteSucceeds, Strict, Published, OneRouterPerHost
    <2> QED
      BY <1>6, <2>1, <2>2, <2>3 DEF WriteSucceeds, Strict, Quiet, Undiscovered, Owned, Served,
         Serves, Live, Published, Distinct, Rendered
  <1>7. CASE WriteFails
    BY <1>7 DEF WriteFails, Strict, Quiet, Undiscovered, Owned, Served, Serves, Live,
       Published, Distinct, OneRouterPerHost, Booting
  <1>8. CASE Rollback
    <2>1. store' = saved
      BY <1>0, <1>8, UndiscoveredParts DEF Rollback, Strict, Quiet
    <2>2. Undiscovered(saved)' /\ Distinct(saved)'
      BY <1>8 DEF Rollback, Undiscovered, Distinct, NoRoutes, Discovered
    <2>3. Owned(undo)'
      BY <1>8, OwnerKinds, Sets DEF Rollback, Owned, NoClaims
    <2>4. applied
      BY <1>8 DEF Rollback, Booting
    <2> QED
      BY <1>8, <2>1, <2>2, <2>3, <2>4 DEF Rollback, Strict, Quiet, Undiscovered, Owned, Served,
         Serves, Live, Published, Distinct, OneRouterPerHost, Rendered
  <1>9. ASSUME NEW found \in Scans, Discover(found)
        PROVE  Strict'
    BY <1>9 DEF Documented
  <1>10. CASE ScanSnapshot
    BY <1>10 DEF ScanSnapshot, Strict, Quiet
  <1>11. ASSUME NEW written \in BOOLEAN, ScanWrites(written)
         PROVE  Strict'
    BY <1>11 DEF ScanWrites, Strict, Quiet
  <1>12. CASE Tick
    <2>1. Owned(claims)' /\ Owned(undo)'
      BY <1>0, <1>12, OwnedAged DEF Tick, Strict, Owned
    <2>2. applied
      BY <1>12 DEF Tick, Strict, Served, Aged, NoClaims
    <2>3. Served'
      BY <1>0, <1>12, <2>2, ServesAged DEF Tick, Strict, Served
    <2> QED
      BY <1>12, <2>1, <2>3 DEF Tick, Strict, Quiet, Undiscovered, Published, Distinct,
         OneRouterPerHost
  <1>13. CASE Crash
    <2>1. Owned(NoClaims)
      BY OwnerKinds, Sets DEF Owned, NoClaims
    <2> QED
      BY <1>13, <2>1 DEF Crash, Strict, Quiet, Undiscovered, Discovered, Owned, NoRoutes,
         Served, Published, Distinct, OneRouterPerHost
  <1>14. CASE UNCHANGED vars
    BY <1>14 DEF vars, Strict, Quiet, Undiscovered, Owned, Served, Serves, Live, Published,
       Distinct, OneRouterPerHost, Rendered
  <1> QED
    BY <1>3, <1>4, <1>5, <1>6, <1>7, <1>8, <1>9, <1>10, <1>11, <1>12, <1>13, <1>14 DEF Next

LEMMA StrictAlways == Documented => (Spec => []Strict)
  <1> SUFFICES ASSUME Documented PROVE Spec => []Strict
    OBVIOUS
  <1>1. TypeOK /\ Booting /\ Backed /\ Strict /\ [Next]_vars => Strict'
    BY StrictStep
  <1> QED
    BY <1>1, StrictInit, TypeCorrect, BackedAlways, PTL DEF Spec

LEMMA RegistryIs ==
    ASSUME TypeOK, Quiet
    PROVE  Registry = IF phase \in {"staged", "writing", "refused"} THEN saved ELSE store
  BY UndiscoveredParts DEF Registry, TypeOK, Routes, Quiet

\* In the documented environment a live claim's route is in the document, on
\* the claim's hostname and port.
THEOREM LiveClaimsAreServed == Documented => (Spec => []LiveClaimServed)
  <1>1. TypeOK /\ Booting /\ Strict => LiveClaimServed
    <2> SUFFICES ASSUME TypeOK, Booting, Strict, phase = "idle", NEW o \in Owners, Live(claims, o)
                 PROVE  claims[o].router \in file
      BY DEF LiveClaimServed
    <2>1. claims[o].id \in Ids
      BY DEF Live, TypeOK, Claim
    <2>2. store[claims[o].id] # None /\ store[claims[o].id].router = claims[o].router
      BY DEF Strict, Served, Serves
    <2>3. file = Rendered(store)
      BY DEF Booting, Strict, Published
    <2> QED
      BY <2>1, <2>2, <2>3 DEF Rendered
  <1> QED
    BY <1>1, StrictAlways, BackedAlways, TypeCorrect, PTL

\* In the documented environment no hostname is ever routed twice.
THEOREM HostsAreUnique == Documented => (Spec => []OneRouterPerHost)
  <1>1. Strict => OneRouterPerHost
    BY DEF Strict, Published
  <1> QED
    BY <1>1, StrictAlways, PTL

-----------------------------------------------------------------------------
(* The route transactions of docs/architecture.md.                         *)

\* In the documented environment each step of the controller and of the
\* publisher is a step of RouteRegistry or leaves its variables alone: staging
\* is the moment readiness is lost, the successful write the moment the
\* registry and the document change together.
THEOREM TransactionsImplemented == Documented => (Spec => ImplementsRegistry)
  <1> SUFFICES ASSUME Documented PROVE Spec => Transactions!Spec
    BY DEF ImplementsRegistry
  <1> DEFINE R == Rendered(Registry)
  <1>1. Init => Transactions!Init
    BY DEF Init, Transactions!Init, Rendered, Registry, NoRoutes, Status
  <1>2. /\ TypeOK /\ TypeOK' /\ Booting /\ Backed /\ Strict /\ Strict'
        /\ [Next]_vars
        => [Transactions!Next]_<<R, file, Status>>
    <2> SUFFICES ASSUME TypeOK, TypeOK', Booting, Strict, Strict', Backed, [Next]_vars
                 PROVE  [Transactions!Next]_<<R, file, Status>>
      OBVIOUS
    <2> USE DEF control
    <2>0. claims \in Claims /\ undo \in Claims /\ store \in Routes /\ saved \in Routes
      BY DEF TypeOK, Claims, Routes
    <2>1. /\ Registry = IF phase \in {"staged", "writing", "refused"} THEN saved ELSE store
          /\ Registry' = IF phase' \in {"staged", "writing", "refused"} THEN saved' ELSE store'
      BY RegistryIs DEF Strict, TypeOK, Quiet, Undiscovered, Registry, SetManual, Routes, Discovered
    <2> DEFINE Same == Registry' = Registry /\ file' = file /\ applied' = applied
    <2>2. Same /\ (Ready' = Ready \/ ~Ready') => [Transactions!Next]_<<R, file, Status>>
      BY DEF Transactions!Next, Transactions!Hold, Rendered, Status
    <2>3. CASE Request \/ Expire
      <3>1. ASSUME NEW cs \in Claims, Apply(cs)
            PROVE  Same /\ Ready' = Ready
        BY <2>1, <3>1 DEF Apply, Ready
      <3>2. ASSUME NEW cs \in Claims, NEW i \in Ids, Extend(cs, i),
                   Serves(cs, store)
            PROVE  Same /\ Ready' = Ready
        BY <2>1, <3>2, RefreshChangesNothing DEF Extend, Ready, Strict, Quiet
      <3> QED
        BY <2>2, <2>3, <3>1, <3>2, StrictForms
    <2>4. CASE Stage
      <3>1. saved' = store
        BY <2>0, <2>4, UndiscoveredParts DEF Stage, Strict, Quiet
      <3> QED
        BY <2>1, <2>2, <2>4, <3>1 DEF Stage, Ready
    <2>5. CASE Snapshot
      <3>1. phase = "boot" => store = saved
        BY DEF Booting
      <3> QED
        BY <2>1, <2>2, <2>5, <3>1 DEF Snapshot, Ready
    <2>6. CASE WriteSucceeds
      <3>1. Registry' = store /\ file' = Rendered(store)
        BY <2>1, <2>6 DEF WriteSucceeds, Strict, Published
      <3>2. R' = Rendered(store)
        BY <3>1 DEF Rendered
      <3>3. Rendered(store) \subseteq Document
        BY <2>0, StoredRoutes
      <3>4. \A q, r \in Rendered(store) : q.host = r.host => q = r
        BY <2>0, RenderedDistinct DEF Strict, Published
      <3>5. Status' = "ready"
        BY <2>6 DEF WriteSucceeds, Ready, Status
      <3>6. Transactions!Publish
        BY <3>1, <3>2, <3>3, <3>4, <3>5 DEF Transactions!Publish, Transactions!OneHostEach
      <3> QED
        BY <3>6 DEF Transactions!Next
    <2>7. CASE WriteFails
      <3>1. ~applied => store = saved
        BY DEF Booting
      <3> QED
        BY <2>1, <2>2, <2>7, <3>1 DEF WriteFails, Ready
    <2>8. CASE Rollback
      <3>1. store' = saved
        BY <2>0, <2>8, UndiscoveredParts DEF Rollback, Strict, Quiet
      <3> QED
        BY <2>1, <2>2, <2>8, <3>1 DEF Rollback, Ready
    <2>9. ASSUME NEW found \in Scans, Discover(found)
          PROVE  FALSE
      BY <2>9 DEF Documented
    <2>10. CASE ScanSnapshot
      BY <2>10 DEF ScanSnapshot, Strict, Quiet
    <2>11. ASSUME NEW written \in BOOLEAN, ScanWrites(written)
           PROVE  FALSE
      BY <2>11 DEF ScanWrites, Strict, Quiet
    <2>12. CASE Tick
      BY <2>1, <2>2, <2>12 DEF Tick, Ready
    <2>13. CASE Crash
      <3>1. Registry' = NoRoutes
        BY <2>1, <2>13 DEF Crash
      <3>2. R' = {}
        BY <3>1 DEF Rendered, NoRoutes
      <3>3. Transactions!Restart
        BY <2>13, <3>2 DEF Crash, Status, Transactions!Restart
      <3> QED
        BY <3>3 DEF Transactions!Next
    <2>14. CASE UNCHANGED vars
      BY <2>1, <2>2, <2>14 DEF vars, Ready
    <2> QED
      BY <2>3, <2>4, <2>5, <2>6, <2>7, <2>8, <2>9, <2>10, <2>11, <2>12, <2>13, <2>14 DEF Next
  <1> QED
    BY <1>1, <1>2, TypeCorrect, BackedAlways, StrictAlways, PTL DEF Spec, Transactions!Spec

\* Of any run of RouteRegistry, and so of the daemon in the documented environment: the
\* document is the committed registry, after a failed publication as much as after a
\* successful one.
THEOREM DocumentIsRegistry == Documented => (Spec => []FileIsRegistry)
  <1> DEFINE R == Rendered(Registry)
  <1>1. Transactions!Init => Transactions!DocumentIsRegistry
    BY DEF Transactions!Init, Transactions!DocumentIsRegistry
  <1>2. Transactions!DocumentIsRegistry /\ [Transactions!Next]_<<R, file, Status>>
        => Transactions!DocumentIsRegistry'
    BY DEF Transactions!DocumentIsRegistry, Transactions!Next, Transactions!Publish,
           Transactions!Hold, Transactions!Restart
  <1>3. Transactions!Spec => []Transactions!DocumentIsRegistry
    BY <1>1, <1>2, PTL DEF Transactions!Spec
  <1>4. Transactions!DocumentIsRegistry => FileIsRegistry
    BY DEF Transactions!DocumentIsRegistry, FileIsRegistry, Status
  <1> QED
    BY <1>3, <1>4, TransactionsImplemented, PTL DEF ImplementsRegistry

-----------------------------------------------------------------------------
(* GET /ready, with process discovery beside the controller.               *)
(*                                                                         *)
(* Renewals are in time, and no identity is used both through /routes and  *)
(* with the ID of a lease, a client's or the daemon's own; but the         *)
(* daemon's own routes may be dropped through /routes, any scan may come   *)
(* at any moment and its publication fail.  Then a renewal leaves the      *)
(* store as it is, which is why it needs no publication.                   *)

Attended == ~LateRenewals /\ (LeaseIds \cup SystemLeases) \cap LegacyIds = {}

(* A synthetic claim made from the route of a system claim has no          *)
(* subdomain: it may differ from the claim it was made from.               *)
Odd(cs, o) ==
    LET i == cs[o].id
    IN  /\ o = Legacy(i) /\ i \in SystemIds
        /\ Live(cs, System(i)) /\ cs[System(i)].router # cs[o].router

(* A live claim's identity has no manual route but the claim's, and unless *)
(* the claim is the daemon's own, on an identity used through /routes, it  *)
(* has that one.                                                           *)
Calls(cs, s) == \A o \in Owners : Live(cs, o) =>
    /\ (IsSystem(o) /\ cs[o].id \in LegacyIds) \/ Manual(s[cs[o].id])
    /\ Manual(s[cs[o].id]) => s[cs[o].id].router = cs[o].router \/ Odd(cs, o)

Named(cs) ==
    /\ \A c \in Clients : cs[Lease(c)] # None => cs[Lease(c)].id \in LeaseIds
    /\ \A i \in Ids : cs[Legacy(i)] # None => cs[Legacy(i)].id = i /\ i \in LegacyIds
    /\ \A i \in SystemIds : cs[System(i)] # None =>
          cs[System(i)].id = i /\ (i \notin SystemLeases => cs[System(i)].left = Forever)

Called ==
    /\ Named(claims) /\ Named(undo)
    /\ phase = "idle" => Calls(claims, store)
    /\ phase = "checked" => Calls(undo, store) /\ Calls(claims, saved)
    /\ phase \in {"boot", "staged", "writing"} => Calls(claims, store) /\ Calls(undo, saved)
    /\ phase = "refused" => Calls(undo, saved)

(* What is about to be written is the store, unless somebody is about to   *)
(* render it again.                                                        *)
InSync ==
    /\ ~(phase = "writing" /\ scan = "writing")
    /\ phase \notin {"idle", "checked"} => ~Ready
    /\ phase = "writing" /\ scan # "changed" => rendered = Rendered(store)
    /\ phase \in {"idle", "checked"} /\ Ready /\ scan = "writing" => scanned = Rendered(store)
    /\ phase \in {"idle", "checked"} /\ Ready /\ scan = "idle" => file = Rendered(store)

LEMMA NothingCalled == Named(NoClaims) /\ \A s : Calls(NoClaims, s)
  BY OwnerKinds DEF Named, Calls, NoClaims, Live

(* Every live claim has its route, as a manual one.                        *)
Carries(cs, s) == \A o \in Owners : Live(cs, o) =>
    Manual(s[cs[o].id]) /\ s[cs[o].id].router = cs[o].router

LEMMA CarriesEffective ==
    ASSUME NEW cs \in Claims, ClaimsAgree(cs)
    PROVE  Carries(cs, Effective(cs))
  <1> SUFFICES ASSUME NEW o \in Owners, Live(cs, o)
               PROVE  /\ Manual(Effective(cs)[cs[o].id])
                      /\ Effective(cs)[cs[o].id].router = cs[o].router
    BY DEF Carries
  <1>1. PICK i \in Ids : i = cs[o].id /\ o \in LiveOn(cs, i)
    BY DEF Live, LiveOn, Claims, Claim
  <1>2. PICK p \in LiveOn(cs, i) : cs[p].router = Effective(cs)[i].router
    BY <1>1, EffectiveRoutes
  <1>3. cs[p].router = cs[o].router
    BY <1>1 DEF ClaimsAgree, AgreeOn
  <1>4. Manual(Effective(cs)[i])
    BY <1>1, EffectiveRoutes DEF Manual, Discovered
  <1> QED
    BY <1>1, <1>2, <1>3, <1>4

LEMMA CallsEffective ==
    ASSUME NEW cs \in Claims, ClaimsAgree(cs)
    PROVE  Calls(cs, Effective(cs))
  BY CarriesEffective DEF Carries, Calls

LEMMA CallsAged ==
    ASSUME Attended, NEW cs \in Claims, Named(cs)
    PROVE  Named(Aged(cs)) /\ \A s : Calls(cs, s) => Calls(Aged(cs), s)
  <1>1. \A o \in Owners : cs[o] # None /\ cs[o].left = Forever => Aged(cs)[o] = cs[o]
    BY DEF Aged
  <1>2. Named(Aged(cs))
    BY <1>1, AgedClaims, OwnerKinds DEF Named
  <1>3. ASSUME NEW o \in Owners, Live(Aged(cs), o), Odd(cs, o)
        PROVE  Odd(Aged(cs), o)
    <2>1. /\ cs[o] # None /\ Aged(cs)[o].id = cs[o].id /\ Aged(cs)[o].router = cs[o].router
          /\ cs[o].id \in Ids
      BY <1>3, AgedClaims DEF Live, Claims, Claim
    <2> DEFINE i == cs[o].id
    <2>2. i \in LegacyIds /\ i \in SystemIds /\ Live(cs, System(i))
      BY <1>3, <2>1 DEF Odd, Named
    <2>3. Aged(cs)[System(i)] = cs[System(i)]
      BY <1>1, <2>2, OwnerKinds DEF Named, Attended, Live
    <2> QED
      BY <1>3, <2>1, <2>2, <2>3 DEF Odd, Live
  <1>4. ASSUME NEW s, Calls(cs, s), NEW o \in Owners, Live(Aged(cs), o)
        PROVE  /\ (IsSystem(o) /\ Aged(cs)[o].id \in LegacyIds) \/ Manual(s[Aged(cs)[o].id])
               /\ Manual(s[Aged(cs)[o].id]) =>
                     s[Aged(cs)[o].id].router = Aged(cs)[o].router \/ Odd(Aged(cs), o)
    <2>1. /\ Live(cs, o) /\ cs[o] # None
          /\ Aged(cs)[o].id = cs[o].id /\ Aged(cs)[o].router = cs[o].router
      BY <1>4, AgedClaims DEF Live
    <2> QED
      BY <1>3, <1>4, <2>1 DEF Calls
  <1> QED
    BY <1>2, <1>4 DEF Calls

\* The store keeps the routes it is given, whatever discovery puts beside them.
LEMMA CallsKept ==
    ASSUME NEW s \in Routes, NEW t \in Routes, NEW cs \in Claims
    PROVE  /\ Calls(cs, t) => Calls(cs, SetManual(s, t))
           /\ Calls(cs, s) => Calls(cs, ManualPart(s))
           /\ \A found \in Scans : Calls(cs, s) => Calls(cs, Reconciled(s, found))
  <1>1. \A o \in Owners : Live(cs, o) => cs[o].id \in Ids
    BY DEF Live, Claims, Claim
  <1>2. \A i \in Ids : /\ Manual(t[i]) => SetManual(s, t)[i] = t[i]
                       /\ Manual(SetManual(s, t)[i]) => SetManual(s, t)[i] = t[i]
    BY DEF SetManual, Manual, Discovered
  <1>3. \A i \in Ids : Manual(s[i]) \/ Manual(ManualPart(s)[i]) => ManualPart(s)[i] = s[i]
    BY DEF ManualPart, Manual
  <1>4. ASSUME NEW found \in Scans, NEW i \in Ids,
               Manual(s[i]) \/ Manual(Reconciled(s, found)[i])
        PROVE  Reconciled(s, found)[i] = s[i]
    BY <1>4 DEF Reconciled, Manual
  <1>5. Calls(cs, t) => Calls(cs, SetManual(s, t))
    BY <1>1, <1>2 DEF Calls
  <1>6. Calls(cs, s) => Calls(cs, ManualPart(s))
    BY <1>1, <1>3 DEF Calls
  <1>7. ASSUME NEW found \in Scans, Calls(cs, s)
        PROVE  Calls(cs, Reconciled(s, found))
    BY <1>1, <1>4, <1>7 DEF Calls
  <1> QED
    BY <1>5, <1>6, <1>7

LEMMA OwnersAre ==
    ASSUME NEW o \in Owners, ~IsSystem(o)
    PROVE  (\E c \in Clients : o = Lease(c)) \/ (\E i \in Ids : o = Legacy(i))
  BY Sets DEF Owners, IsSystem, System

LEMMA OwnersAreDistinct ==
    /\ \A c \in Clients, i \in Ids : Lease(c) # Legacy(i) /\ Lease(c) # System(i)
    /\ \A i, j \in Ids : System(i) # Legacy(j)
    /\ \A i, j \in Ids : Legacy(i) = Legacy(j) => i = j
    /\ \A c, d \in Clients : Lease(c) = Lease(d) => c = d
    /\ \A i, j \in Ids : System(i) = System(j) => i = j
    /\ \A c \in Clients : ~IsSystem(Lease(c))
    /\ \A i \in Ids : ~IsSystem(Legacy(i))
  BY DEF Lease, Legacy, System, IsSystem

\* A refresh of a route that is in the store puts the same route there, if any.
LEMMA SameRoute ==
    ASSUME TypeOK, NEW cs \in Claims, NEW i \in Ids, Manual(store[i]), Calls(cs, store), Named(cs)
    PROVE  Refreshed(cs, i) = store
  <1>1. CASE LiveOn(cs, i) # {} /\ AgreeOn(cs, i)
    <2>1. ASSUME NEW o \in LiveOn(cs, i)
          PROVE  store[i].router = cs[o].router
      <3>1. o \in Owners /\ Live(cs, o) /\ cs[o].id = i
        BY DEF LiveOn
      <3>2. store[i].router = cs[o].router \/ Odd(cs, o)
        BY <3>1 DEF Calls
      <3>3. ~Odd(cs, o)
        <4>1. SUFFICES ASSUME Odd(cs, o) PROVE FALSE
          OBVIOUS
        <4>2. i \in SystemIds /\ Live(cs, System(i)) /\ cs[System(i)].router # cs[o].router
          BY <3>1, <4>1 DEF Odd
        <4>3. System(i) \in LiveOn(cs, i)
          BY <4>2, OwnerKinds DEF LiveOn, Named, Live
        <4> QED
          BY <1>1, <4>2, <4>3 DEF AgreeOn
      <3> QED
        BY <3>2, <3>3
    <2>2. store[i] = [router |-> store[i].router, source |-> "manual"]
      BY DEF TypeOK, Route, Manual
    <2>3. Effective(cs)[i] = [router |-> store[i].router, source |-> "manual"]
      BY <1>1, <2>1 DEF Effective
    <2> QED
      BY <2>2, <2>3 DEF Refreshed, TypeOK
  <1>2. CASE ~(LiveOn(cs, i) # {} /\ AgreeOn(cs, i))
    BY <1>2 DEF Refreshed
  <1> QED
    BY <1>1, <1>2

(* A renewal, as Extend makes it: the store stays as it is.                *)
Renewing(cs) ==
  /\ phase = "idle"
  /\ claims' = cs /\ store' = store /\ Named(cs) /\ Calls(cs, store)
  /\ UNCHANGED <<file, control, phase, undo, saved, rendered, scan, scanned>>

LEMMA RenewedInTime ==
    ASSUME Attended, TypeOK, Called, NEW o \in Owners, claims[o] # None, InTime(o),
           ~IsSystem(o) \/ \E j \in SystemLeases : o = System(j),
           NEW ttl \in 0..MaxTTL, Extend([claims EXCEPT ![o].left = ttl], claims[o].id)
    PROVE  \E cs \in Claims : Renewing(cs)
  <1> DEFINE cs == [claims EXCEPT ![o].left = ttl]
             i == claims[o].id
  <1>1. cs \in Claims /\ Keeps(cs)
    BY Routers, Renewed
  <1>2. \A q \in Owners : q # o => cs[q] = claims[q]
    BY DEF TypeOK
  <1>3. cs[o] # None /\ cs[o].id = i /\ cs[o].router = claims[o].router /\ i \in Ids
    BY <1>1 DEF Keeps, TypeOK, Claim
  <1>4. claims[o].left > 0 /\ Live(claims, o) /\ Calls(claims, store) /\ Named(claims)
    BY DEF InTime, Attended, Live, Called, Extend
  <1>5. Extend(cs, i)
    OBVIOUS
  <1> HIDE DEF cs, i
  <1>6. \A j \in SystemIds : o = System(j) => j \in SystemLeases /\ j \notin LegacyIds
    <2>1. \A j \in SystemIds : IsSystem(System(j))
      BY DEF IsSystem, System
    <2> QED
      BY <2>1, OwnersAreDistinct, Sets DEF Attended
  <1>7. \A q \in Owners : Live(cs, q) =>
            Live(claims, q) /\ cs[q].id = claims[q].id /\ cs[q].router = claims[q].router
    BY <1>2, <1>3, <1>4 DEF Live, i
  <1>8. Named(cs)
    BY <1>2, <1>3, <1>4, <1>6, OwnerKinds DEF Named, i
  <1>9. ASSUME NEW q \in Owners, Live(cs, q), Odd(claims, q)
        PROVE  Odd(cs, q)
    <2>1. Live(claims, q) /\ cs[q].id = claims[q].id /\ cs[q].router = claims[q].router
      BY <1>7, <1>9
    <2> DEFINE j == claims[q].id
    <2>2. j \in SystemIds /\ q = Legacy(j) /\ Live(claims, System(j))
      BY <1>9 DEF Odd
    <2>3. j \in LegacyIds
      BY <1>4, <2>1, <2>2, Sets DEF Named, Live
    <2>4. cs[System(j)] = claims[System(j)]
      BY <1>2, <1>6, <2>2, <2>3, OwnerKinds
    <2> QED
      BY <1>9, <2>1, <2>2, <2>4 DEF Odd, Live
  <1>10. Calls(cs, store)
    BY <1>4, <1>7, <1>9 DEF Calls
  <1>11. Manual(store[i])
    <2>1. ~(IsSystem(o) /\ i \in LegacyIds)
      BY <1>4, <1>6, Sets DEF Named, i
    <2> QED
      BY <1>4, <2>1 DEF Calls, i
  <1>12. Refreshed(cs, i) = store
    BY <1>1, <1>3, <1>8, <1>10, <1>11, SameRoute
  <1> QED
    BY <1>1, <1>5, <1>8, <1>10, <1>12 DEF Renewing, Extend

LEMMA NamedAdded ==
    ASSUME TypeOK, Named(claims), NEW o \in Owners, NEW i \in Ids, NEW r \in Document,
           NEW ttl \in 0..Forever,
           \A c \in Clients : o = Lease(c) => i \in LeaseIds,
           \A j \in Ids : o = Legacy(j) => i = j /\ j \in LegacyIds,
           \A j \in SystemIds : o = System(j) => i = j /\ ttl = Forever
    PROVE  Named([claims EXCEPT ![o] = [id |-> i, router |-> r, left |-> ttl]])
  <1> DEFINE k == [id |-> i, router |-> r, left |-> ttl]
             cs == [claims EXCEPT ![o] = k]
  <1>1. \A q \in Owners : cs[q] = IF q = o THEN k ELSE claims[q]
    BY DEF TypeOK
  <1>2. k.id = i /\ k.left = ttl
    OBVIOUS
  <1> HIDE DEF cs, k
  <1>3. ASSUME NEW c \in Clients, cs[Lease(c)] # None PROVE cs[Lease(c)].id \in LeaseIds
    BY <1>1, <1>2, <1>3, OwnerKinds DEF Named
  <1>4. ASSUME NEW j \in Ids, cs[Legacy(j)] # None
        PROVE  cs[Legacy(j)].id = j /\ j \in LegacyIds
    BY <1>1, <1>2, <1>4, OwnerKinds DEF Named
  <1>5. ASSUME NEW j \in SystemIds, cs[System(j)] # None
        PROVE  cs[System(j)].id = j /\ (j \notin SystemLeases => cs[System(j)].left = Forever)
    BY <1>1, <1>2, <1>5, OwnerKinds DEF Named
  <1>6. Named(cs)
    BY <1>3, <1>4, <1>5 DEF Named
  <1> QED
    BY <1>6 DEF cs, k

\* A route no client of /routes has claimed is that of a permanent system claim;
\* a synthetic claim made from it calls for it, or differs from that claim.
LEMMA ClaimedFromRoute ==
    ASSUME Attended, TypeOK, Backed, Called, NEW i \in LegacyIds,
           claims[Legacy(i)] = None, Manual(store[i]), NEW ttl \in 1..MaxTTL,
           Extend([claims EXCEPT ![Legacy(i)] =
                     [id |-> i, router |-> Router(i, store[i].router.port), left |-> ttl]], i)
    PROVE  \E cs \in Claims : Renewing(cs)
  <1> DEFINE o == Legacy(i)
             r == Router(i, store[i].router.port)
             k == [id |-> i, router |-> r, left |-> ttl]
             cs == [claims EXCEPT ![o] = k]
  <1>1. i \in Ids /\ o \in Owners /\ r \in Document /\ ttl \in 0..Forever
    BY OwnerKinds, Routers, Sets, Numbers DEF TypeOK, Manual, Route
  <1>2. cs \in Claims
    BY <1>1, Added
  <1>3. cs[o] = k /\ \A q \in Owners : q # o => cs[q] = claims[q]
    BY <1>1 DEF TypeOK
  <1>4. Calls(claims, store) /\ Named(claims) /\ Backs(claims, store)
    BY DEF Called, Backed, Extend
  <1>5. k.id = i /\ k.router = r
    OBVIOUS
  <1>6. Extend(cs, i)
    OBVIOUS
  <1>7. Named(cs)
    <2>1. /\ \A c \in Clients : o # Lease(c)
          /\ \A j \in SystemIds : o # System(j)
          /\ \A j \in Ids : o = Legacy(j) => i = j
      BY <1>1, OwnersAreDistinct, Sets
    <2> HIDE DEF o, r
    <2> QED
      BY <1>1, <1>4, <2>1, NamedAdded
  <1> HIDE DEF cs, k, r
  <1>8. /\ i \in SystemIds /\ Live(claims, System(i))
        /\ claims[System(i)].router = store[i].router
    <2>1. PICK q \in Owners : Holds(claims, q, i) /\ claims[q].router = store[i].router
      BY <1>1, <1>4 DEF Backs
    <2>2. \A c \in Clients : q # Lease(c)
      BY <1>4, <2>1 DEF Holds, Named, Attended
    <2>3. \A j \in Ids : q # Legacy(j)
      BY <1>4, <2>1 DEF Holds, Named
    <2>4. PICK j \in SystemIds : q = System(j)
      BY <2>2, <2>3 DEF Owners
    <2>5. j = i /\ i \notin SystemLeases
      BY <1>4, <2>1, <2>4 DEF Holds, Named, Attended
    <2> QED
      BY <1>4, <2>1, <2>4, <2>5, Routers DEF Holds, Named, Live
  <1>9. Live(cs, System(i)) /\ cs[System(i)].router = store[i].router
    BY <1>1, <1>3, <1>8, OwnerKinds, OwnersAreDistinct DEF Live
  <1>10. ASSUME NEW q \in Owners, q # o, Live(cs, q)
         PROVE  /\ Live(claims, q) /\ cs[q] = claims[q]
                /\ Odd(claims, q) => Odd(cs, q)
    <2>1. Live(claims, q) /\ cs[q] = claims[q]
      BY <1>3, <1>10 DEF Live
    <2>2. ASSUME Odd(claims, q) PROVE Odd(cs, q)
      <3> DEFINE j == claims[q].id
      <3>1. j \in SystemIds /\ Live(claims, System(j))
        BY <2>2 DEF Odd
      <3>2. System(j) \in Owners /\ System(j) # o
        BY <1>1, <3>1, OwnerKinds, OwnersAreDistinct, Sets
      <3> QED
        BY <1>3, <2>1, <2>2, <3>1, <3>2 DEF Odd, Live
    <2> QED
      BY <2>1, <2>2
  <1>11. r # store[i].router => Odd(cs, o)
    BY <1>3, <1>5, <1>8, <1>9 DEF Odd
  <1>12. Calls(cs, store)
    BY <1>3, <1>4, <1>5, <1>10, <1>11 DEF Calls
  <1>13. Refreshed(cs, i) = store
    BY <1>1, <1>2, <1>7, <1>12, SameRoute
  <1> QED
    BY <1>2, <1>6, <1>7, <1>12, <1>13 DEF Renewing, Extend

LEMMA NamedRemoved ==
    ASSUME NEW cs \in Claims, Named(claims),
           \A o \in Owners : cs[o] = None \/ cs[o] = claims[o]
    PROVE  Named(cs)
  BY OwnerKinds DEF Named

LEMMA AttendedForms ==
    ASSUME Attended, TypeOK, Backed, Called, Request \/ Expire
    PROVE  \/ \E cs \in Claims : Apply(cs) /\ Named(cs)
           \/ \E cs \in Claims : Renewing(cs)
           \/ \E i \in LegacyIds : DropRoute(i)
  <1>0. Named(claims)
    BY DEF Called
  <1>1. ASSUME NEW c \in Clients, NEW i \in LeaseIds, NEW p \in Ports, NEW ttl \in 1..MaxTTL,
               CreateLease(c, i, p, ttl)
        PROVE  (\E cs \in Claims : Apply(cs) /\ Named(cs)) \/ (\E cs \in Claims : Renewing(cs))
    <2>0. /\ Lease(c) \in Owners /\ i \in Ids /\ ~IsSystem(Lease(c))
          /\ Router(i, p) \in Document /\ ttl \in 0..MaxTTL /\ ttl \in 0..Forever
      BY OwnerKinds, OwnersAreDistinct, Routers, Sets, Numbers
    <2>1. CASE claims[Lease(c)] = None
      <3> DEFINE cs == [claims EXCEPT ![Lease(c)] =
                       [id |-> i, router |-> Router(i, p), left |-> ttl]]
      <3>1. Apply(cs)
        BY <1>1, <2>1 DEF CreateLease, Holds
      <3>2. cs \in Claims /\ Named(cs)
        <4>1. \A j \in SystemIds : Lease(c) # System(j)
          BY OwnersAreDistinct, Sets
        <4> QED
          BY <1>0, <2>0, <4>1, OwnersAreDistinct, Added, NamedAdded
      <3> QED
        BY <3>1, <3>2
    <2>2. CASE claims[Lease(c)] # None
      <3>1. /\ InTime(Lease(c)) /\ claims[Lease(c)].id = i
            /\ Extend([claims EXCEPT ![Lease(c)].left = ttl], i)
        BY <1>1, <2>2 DEF CreateLease, Holds
      <3> QED
        BY <2>0, <2>2, <3>1, RenewedInTime
    <2> QED
      BY <2>1, <2>2
  <1>2. ASSUME NEW o \in Renewable, NEW ttl \in 0..MaxTTL, HeartbeatLease(o, ttl)
        PROVE  \E cs \in Claims : Renewing(cs)
    <2>1. o \in Owners /\ (~IsSystem(o) \/ \E j \in SystemLeases : o = System(j))
      BY OwnerKinds, OwnersAreDistinct DEF Renewable
    <2> QED
      BY <1>2, <2>1, RenewedInTime DEF HeartbeatLease
  <1>3. ASSUME NEW o \in Owners, Apply([claims EXCEPT ![o] = None])
        PROVE  \E cs \in Claims : Apply(cs) /\ Named(cs)
    <2>1. [claims EXCEPT ![o] = None] \in Claims
      BY Removed
    <2>2. \A q \in Owners : \/ [claims EXCEPT ![o] = None][q] = None
                            \/ [claims EXCEPT ![o] = None][q] = claims[q]
      BY DEF TypeOK
    <2> QED
      BY <1>0, <1>3, <2>1, <2>2, NamedRemoved
  <1>4. ASSUME NEW i \in LegacyIds, NEW p \in Ports, NEW ttl \in 1..MaxTTL,
               RegisterLegacy(i, p, ttl)
        PROVE  \E cs \in Claims : Apply(cs) /\ Named(cs)
    <2>1. /\ i \in Ids /\ Legacy(i) \in Owners
          /\ Router(i, p) \in Document /\ ttl \in 0..Forever
      BY OwnerKinds, Routers, Sets, Numbers
    <2> DEFINE cs == [claims EXCEPT ![Legacy(i)] =
                         [id |-> i, router |-> Router(i, p), left |-> ttl]]
    <2>2. \A j \in SystemIds : Legacy(i) # System(j)
      BY <2>1, OwnersAreDistinct, Sets
    <2>3. cs \in Claims /\ Named(cs)
      BY <1>0, <2>1, <2>2, OwnersAreDistinct, Added, NamedAdded
    <2> QED
      BY <1>4, <2>3 DEF RegisterLegacy
  <1>5. ASSUME NEW i \in LegacyIds, NEW ttl \in 1..MaxTTL, HeartbeatLegacy(i, ttl)
        PROVE  \E cs \in Claims : Renewing(cs)
    <2>1. /\ i \in Ids /\ Legacy(i) \in Owners /\ ~IsSystem(Legacy(i))
          /\ ttl \in 0..MaxTTL
      BY OwnerKinds, OwnersAreDistinct, Sets, Numbers
    <2>2. CASE claims[Legacy(i)] # None
      <3>1. claims[Legacy(i)].id = i
        BY <1>0, <2>1, <2>2 DEF Named
      <3> QED
        BY <1>5, <2>1, <2>2, <3>1, RenewedInTime DEF HeartbeatLegacy
    <2>3. CASE claims[Legacy(i)] = None
      BY <1>5, <2>1, <2>3, ClaimedFromRoute DEF HeartbeatLegacy
    <2> QED
      BY <2>2, <2>3
  <1>6. ASSUME NEW i \in LegacyIds, DeleteLegacy(i)
        PROVE  (\E cs \in Claims : Apply(cs) /\ Named(cs)) \/ (\E j \in LegacyIds : DropRoute(j))
    <2>1. Legacy(i) \in Owners
      BY OwnerKinds, Sets
    <2> QED
      BY <1>3, <1>6, <2>1 DEF DeleteLegacy
  <1>7. ASSUME NEW i \in SystemIds, NEW h \in SystemHosts, NEW p \in Ports,
               SetSystemRoute(i, [host |-> h, port |-> p])
        PROVE  \E cs \in Claims : Apply(cs) /\ Named(cs)
    <2> DEFINE r == [host |-> h, port |-> p]
    <2>1. i \in Ids /\ System(i) \in Owners /\ r \in Document /\ Forever \in 0..Forever
      BY OwnerKinds, Routers, Sets
    <2>2. /\ \A c \in Clients : System(i) # Lease(c)
          /\ \A j \in Ids : System(i) # Legacy(j)
          /\ \A j \in SystemIds : System(i) = System(j) => i = j
      BY <2>1, OwnersAreDistinct, Sets
    <2> DEFINE cs == [claims EXCEPT ![System(i)] =
                         [id |-> i, router |-> r, left |-> Forever]]
    <2> HIDE DEF r
    <2>3. cs \in Claims /\ Named(cs)
      BY <1>0, <2>1, <2>2, Added, NamedAdded
    <2> QED
      BY <1>7, <2>3 DEF SetSystemRoute, r
  <1>8. ASSUME Expire
        PROVE  \E cs \in Claims : Apply(cs) /\ Named(cs)
    <2> DEFINE expired == {o \in Owners : claims[o] # None /\ claims[o].left = 0
                                          /\ ~IsSystem(o)}
    <2> DEFINE cs == [o \in Owners |-> IF o \in expired THEN None ELSE claims[o]]
    <2>1. cs \in Claims
      BY DEF TypeOK, Claims
    <2>2. \A o \in Owners : cs[o] = None \/ cs[o] = claims[o]
      OBVIOUS
    <2>3. Apply(cs)
      BY <1>8 DEF Expire
    <2> HIDE DEF cs
    <2> QED
      BY <1>0, <2>1, <2>2, <2>3, NamedRemoved
  <1> QED
    BY <1>1, <1>2, <1>3, <1>4, <1>5, <1>6, <1>7, <1>8, OwnerKinds
       DEF Request, DeleteLease, DeleteSystemRoute

LEMMA CalledStep ==
    ASSUME Attended, TypeOK, Backed, Called, InSync, [Next]_vars
    PROVE  Called' /\ InSync'
  <1> USE DEF control
  <1>0. claims \in Claims /\ undo \in Claims /\ store \in Routes /\ saved \in Routes
    BY DEF TypeOK, Claims, Routes
  <1>1. ASSUME NEW cs \in Claims, Apply(cs), Named(cs)
        PROVE  Called' /\ InSync'
    <2>1. Calls(cs, Effective(cs))
      BY <1>1, CallsEffective DEF Apply, Admissible
    <2> QED
      BY <1>1, <2>1 DEF Apply, Called, InSync, Ready
  <1>2. ASSUME NEW cs \in Claims, Renewing(cs)
        PROVE  Called' /\ InSync'
    <2>1. Called'
      BY <1>2 DEF Renewing, Called
    <2>2. InSync'
      BY <1>2 DEF Renewing, InSync, Ready
    <2> QED
      BY <2>1, <2>2
  <1>3. ASSUME NEW i \in LegacyIds, DropRoute(i)
        PROVE  Called' /\ InSync'
    <2>1. ASSUME NEW o \in Owners, Live(claims, o), claims[o].id = i
          PROVE  IsSystem(o)
      <3>1. Named(claims) /\ claims[o] # None /\ i \in Ids /\ claims[Legacy(i)] = None
        BY <1>3, <2>1, Sets DEF Called, Live, DropRoute
      <3>2. \A c \in Clients : o # Lease(c)
        BY <2>1, <3>1 DEF Named, Attended
      <3>3. \A j \in Ids : o # Legacy(j)
        BY <2>1, <3>1 DEF Named
      <3> QED
        BY <3>2, <3>3, OwnersAre
    <2>2. i \in Ids /\ \A j \in Ids : j # i => store'[j] = store[j]
      BY <1>0, <1>3, Sets DEF DropRoute, Routes
    <2>3. store'[i] = None
      BY <1>0, <1>3, <2>2 DEF DropRoute, Routes
    <2>4. Calls(claims, store) /\ Calls(claims, ManualPart(store))
      BY <1>0, <1>3, CallsKept DEF DropRoute, Called
    <2>5. Calls(claims, store')
      <3> SUFFICES ASSUME NEW o \in Owners, Live(claims, o)
                   PROVE  /\ \/ IsSystem(o) /\ claims[o].id \in LegacyIds
                             \/ Manual(store'[claims[o].id])
                          /\ Manual(store'[claims[o].id]) =>
                                \/ store'[claims[o].id].router = claims[o].router
                                \/ Odd(claims, o)
        BY DEF Calls
      <3>1. claims[o].id \in Ids
        BY <1>0 DEF Live, Claims, Claim
      <3>2. CASE claims[o].id = i
        BY <2>1, <2>3, <3>2 DEF Manual
      <3>3. CASE claims[o].id # i
        BY <2>2, <2>4, <3>1, <3>3 DEF Calls
      <3> QED
        BY <3>2, <3>3
    <2>6. Called'
      BY <1>3, <2>4, <2>5 DEF DropRoute, Called
    <2>7. InSync'
      BY <1>3 DEF DropRoute, InSync, Ready
    <2> QED
      BY <2>6, <2>7
  <1>4. CASE Request \/ Expire
    BY <1>1, <1>2, <1>3, <1>4, AttendedForms
  <1>5. CASE Stage
    <2>1. Calls(claims, SetManual(store, saved)) /\ Calls(undo, ManualPart(store))
      BY <1>0, <1>5, CallsKept DEF Stage, Called
    <2> QED
      BY <1>5, <2>1 DEF Stage, Called, InSync, Ready
  <1>6. CASE Snapshot
    <2>1. Called'
      BY <1>6 DEF Snapshot, Called
    <2> QED
      BY <1>6, <2>1 DEF Snapshot, InSync, Ready
  <1>7. CASE WriteSucceeds
    <2>1. Called'
      BY <1>7, NothingCalled DEF WriteSucceeds, Called
    <2>2. scan # "writing" /\ (scan = "idle" => rendered = Rendered(store))
      BY <1>7 DEF WriteSucceeds, InSync
    <2> QED
      BY <1>7, <2>1, <2>2 DEF WriteSucceeds, InSync, Ready
  <1>8. CASE WriteFails
    <2>1. Called'
      BY <1>8 DEF WriteFails, Called
    <2> QED
      BY <1>8, <2>1 DEF WriteFails, InSync, Ready
  <1>9. CASE Rollback
    <2>1. Calls(undo, SetManual(store, saved))
      BY <1>0, <1>9, CallsKept DEF Rollback, Called
    <2>2. Called'
      BY <1>9, <2>1, NothingCalled DEF Rollback, Called
    <2> QED
      BY <1>9, <2>2 DEF Rollback, InSync, Ready
  <1>10. ASSUME NEW found \in Scans, Discover(found)
         PROVE  Called' /\ InSync'
    <2>1. \A cs \in Claims : Calls(cs, store) => Calls(cs, store')
      BY <1>0, <1>10, CallsKept DEF Discover
    <2> QED
      BY <1>0, <1>10, <2>1 DEF Discover, Called, InSync, Ready
  <1>11. CASE ScanSnapshot
    BY <1>11 DEF ScanSnapshot, Called, InSync, Ready
  <1>12. ASSUME NEW written \in BOOLEAN, ScanWrites(written)
         PROVE  Called' /\ InSync'
    <2>1. Called'
      BY <1>12 DEF ScanWrites, Called
    <2> QED
      BY <1>12, <2>1 DEF ScanWrites, InSync, Ready
  <1>13. CASE Tick
    <2>1. Named(Aged(claims)) /\ Named(Aged(undo))
      BY <1>0, CallsAged DEF Called
    <2>2. \A s : /\ Calls(claims, s) => Calls(Aged(claims), s)
                 /\ Calls(undo, s) => Calls(Aged(undo), s)
      BY <1>0, CallsAged DEF Called
    <2> QED
      BY <1>13, <2>1, <2>2 DEF Tick, Called, InSync, Ready
  <1>14. CASE Crash
    BY <1>14, NothingCalled DEF Crash, Called, InSync, Ready
  <1>15. CASE UNCHANGED vars
    BY <1>15 DEF vars, Called, InSync, Ready
  <1> QED
    BY <1>4, <1>5, <1>6, <1>7, <1>8, <1>9, <1>10, <1>11, <1>12, <1>13, <1>14, <1>15 DEF Next

\* With discovery beside the controller, GET /ready answers 200 between
\* operations only while the published document is the store, as long as
\* renewals are in time and no identity is used both through /routes and with a
\* lease ID.  A write of discovery may fail: it is made good by the next one.
THEOREM ReadyMeansPublished == Attended => (Spec => []ReadyIsPublished)
  <1> SUFFICES ASSUME Attended PROVE Spec => []ReadyIsPublished
    OBVIOUS
  <1>1. Init => Called /\ InSync
    BY NothingCalled DEF Init, Called, InSync, Ready
  <1>2. TypeOK /\ Backed /\ Called /\ InSync /\ [Next]_vars => Called' /\ InSync'
    BY CalledStep
  <1>3. InSync => ReadyIsPublished
    BY DEF InSync, ReadyIsPublished, Quiescent
  <1> QED
    BY <1>1, <1>2, <1>3, TypeCorrect, BackedAlways, PTL DEF Spec

-----------------------------------------------------------------------------
(* A committed transaction, in any environment.                            *)
(*                                                                         *)
(* DELETE /routes leaves a claim without its route, and a late renewal or  *)
(* a heartbeat of it does not publish.  What the next change of the claims *)
(* applies is not the difference it makes but every live claim.            *)

(* Only DELETE /routes and the first publication commit without a change   *)
(* of the claims.                                                          *)
Applied ==
    /\ phase = "checked" => Carries(claims, saved)
    /\ phase = "boot" \/ (phase = "writing" /\ ~applied) => claims = undo
    /\ phase = "staged" /\ claims # undo => Carries(claims, store)
    /\ phase = "writing" /\ claims # undo =>
          \A o \in Owners : Live(claims, o) => claims[o].router \in rendered

LEMMA CarriesKept ==
    ASSUME NEW s \in Routes, NEW t \in Routes, NEW cs \in Claims
    PROVE  /\ Carries(cs, t) => Carries(cs, SetManual(s, t))
           /\ \A found \in Scans : Carries(cs, s) => Carries(cs, Reconciled(s, found))
           /\ Carries(cs, s) => Carries(Aged(cs), s)
  <1>1. \A o \in Owners : Live(cs, o) => cs[o].id \in Ids
    BY DEF Live, Claims, Claim
  <1>2. \A i \in Ids : Manual(t[i]) => SetManual(s, t)[i] = t[i]
    BY DEF SetManual, Manual
  <1>3. \A found \in Scans, i \in Ids : Manual(s[i]) => Reconciled(s, found)[i] = s[i]
    BY DEF Reconciled
  <1>4. Carries(cs, t) => Carries(cs, SetManual(s, t))
    BY <1>1, <1>2 DEF Carries
  <1>5. ASSUME NEW found \in Scans, Carries(cs, s)
        PROVE  Carries(cs, Reconciled(s, found))
    BY <1>1, <1>3, <1>5 DEF Carries
  <1>6. Carries(cs, s) => Carries(Aged(cs), s)
    BY AgedClaims DEF Carries, Live
  <1> QED
    BY <1>4, <1>5, <1>6

LEMMA CarriedIsRendered ==
    ASSUME TypeOK, Carries(claims, store), NEW o \in Owners, Live(claims, o)
    PROVE  claims[o].router \in Rendered(store)
  <1>1. claims[o].id \in Ids
    BY DEF Live, TypeOK, Claim
  <1>2. store[claims[o].id] # None /\ store[claims[o].id].router = claims[o].router
    BY DEF Carries, Manual
  <1> QED
    BY <1>1, <1>2 DEF Rendered

LEMMA AppliedStep ==
    ASSUME TypeOK, Booting, Applied, [Next]_vars
    PROVE  Applied'
  <1> USE DEF control
  <1>0. claims \in Claims /\ undo \in Claims /\ store \in Routes /\ saved \in Routes
    BY DEF TypeOK, Claims, Routes
  <1>1. ASSUME NEW cs \in Claims, Apply(cs)
        PROVE  Applied'
    <2>1. Carries(cs, Effective(cs))
      BY <1>1, CarriesEffective DEF Apply, Admissible
    <2> QED
      BY <1>1, <2>1 DEF Apply, Applied
  <1>2. ASSUME NEW cs \in Claims, NEW i \in Ids, Extend(cs, i)
        PROVE  Applied'
    BY <1>2 DEF Extend, Applied
  <1>3. ASSUME NEW i \in Ids, DropRoute(i)
        PROVE  Applied'
    BY <1>3 DEF DropRoute, Applied
  <1>4. CASE Request \/ Expire
    BY <1>1, <1>2, <1>3, <1>4, OperationForms
  <1>5. CASE Stage
    <2>1. Carries(claims, SetManual(store, saved))
      BY <1>0, <1>5, CarriesKept DEF Stage, Applied
    <2> QED
      BY <1>5, <2>1 DEF Stage, Applied
  <1>6. CASE Snapshot
    <2>1. ASSUME claims # undo, NEW o \in Owners, Live(claims, o)
          PROVE  claims[o].router \in Rendered(store)
      BY <1>6, <2>1, CarriedIsRendered DEF Snapshot, Applied
    <2>2. ~applied => phase = "boot"
      BY <1>6 DEF Snapshot, Booting
    <2> QED
      BY <1>6, <2>1, <2>2 DEF Snapshot, Applied, Live
  <1>7. CASE WriteSucceeds
    BY <1>7 DEF WriteSucceeds, Applied
  <1>8. CASE WriteFails
    BY <1>8 DEF WriteFails, Applied
  <1>9. CASE Rollback
    BY <1>9 DEF Rollback, Applied
  <1>10. ASSUME NEW found \in Scans, Discover(found)
         PROVE  Applied'
    <2>1. Carries(claims, store) => Carries(claims, store')
      BY <1>0, <1>10, CarriesKept DEF Discover
    <2> QED
      BY <1>10, <2>1 DEF Discover, Applied, Live
  <1>11. CASE ScanSnapshot
    BY <1>11 DEF ScanSnapshot, Applied, Live
  <1>12. ASSUME NEW written \in BOOLEAN, ScanWrites(written)
         PROVE  Applied'
    BY <1>12 DEF ScanWrites, Applied, Live
  <1>13. CASE Tick
    <2>1. \A s \in Routes : Carries(claims, s) => Carries(Aged(claims), s)
      BY <1>0, CarriesKept
    <2>2. claims' = Aged(claims) /\ undo' = Aged(undo)
      BY <1>13 DEF Tick
    <2>3. \A o \in Owners : Live(claims', o) =>
              Live(claims, o) /\ claims'[o].router = claims[o].router
      BY <1>0, <2>2, AgedClaims DEF Live
    <2> QED
      BY <1>0, <1>13, <2>1, <2>2, <2>3 DEF Tick, Applied
  <1>14. CASE Crash
    BY <1>14 DEF Crash, Applied
  <1>15. CASE UNCHANGED vars
    BY <1>15 DEF vars, Applied, Live
  <1> QED
    BY <1>4, <1>5, <1>6, <1>7, <1>8, <1>9, <1>10, <1>11, <1>12, <1>13, <1>14, <1>15 DEF Next

\* Whatever clients, the legacy API, expiry and discovery do: a transaction that changes
\* the claims leaves no live claim unserved when it commits (applyLocked applies them all).
THEOREM TransactionsServeAll == Spec => AppliedIsServed
  <1>1. Init => Applied
    BY DEF Init, Applied
  <1>2. TypeOK /\ Booting /\ Applied /\ [Next]_vars => Applied'
    BY AppliedStep
  <1>3. TypeOK /\ Applied /\ [Next]_vars
        => [phase = "writing" /\ phase' = "idle" /\ claims # undo =>
               \A o \in Owners : Live(claims, o) =>
                   claims[o].router \in file']_vars
    <2> SUFFICES ASSUME TypeOK, Applied, [Next]_vars, phase = "writing", phase' = "idle",
                        claims # undo, NEW o \in Owners, Live(claims, o)
                 PROVE  claims[o].router \in file'
      OBVIOUS
    <2>1. claims[o].router \in rendered
      BY DEF Applied
    <2>2. WriteSucceeds
      BY OperationForms
         DEF Next, Apply, Extend, DropRoute, Stage, Snapshot, WriteFails, Rollback, Discover,
             ScanSnapshot, ScanWrites, Tick, Crash, vars
    <2> QED
      BY <2>1, <2>2 DEF WriteSucceeds
  <1> QED
    BY <1>1, <1>2, <1>3, TypeCorrect, BackedAlways, PTL DEF Spec, AppliedIsServed
=============================================================================
