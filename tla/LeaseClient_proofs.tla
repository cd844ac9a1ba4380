--------------------------- MODULE LeaseClient_proofs --------------------------
(***************************************************************************)
(* Proofs about LeaseClient, for any bounds, ports and versions of the     *)
(* daemon: a session that has stopped has left no lease behind.            *)
(*                                                                         *)
(* The lease a session may have at the daemon is the one it remembers, the *)
(* one in the answer its main thread has not read yet, or the one in the   *)
(* answer its loop has not read yet, and the loop's is the only one left   *)
(* once the release has been served. Before the loop registers again it    *)
(* has none at all: the heartbeat that was not known shows it.             *)
(***************************************************************************)
EXTENDS LeaseClient, FiniteSetTheorems, TLAPS

-----------------------------------------------------------------------------
(* The inductive invariant                                                 *)

Claim == [id : IDs \cup {LegacyID, OtherID}, by : Owners, port : Ports, left : 0..TTL]
MyIDs == IDs \cup {LegacyID}

(* Whose ID a claim has; and the calls that were given up are few.         *)
Owned(cs) == \A k \in cs : IF k.by = "me" THEN k.id \in MyIDs ELSE k.id \in {LegacyID, OtherID}
Few(ss) == IsFiniteSet(ss) /\ Cardinality(ss) <= MaxStrays
Typed == TypeOK /\ Owned(claims) /\ Few(strays)

(* The lease IDs of this client among some claims.                         *)
Leases(cs) == {k.id : k \in {j \in cs : j.id # LegacyID /\ j.by = "me"}}
Mine == Leases(claims)

(* Where a session's threads are, and the calls they are in.               *)
MainInCall ==
    /\ main \notin {"registering", "fallback", "releasing"} => Answer("main") = "none"
    /\ main = "registering" => call["main"].op = "post" /\ Answer("main") # "none"
    /\ main = "fallback" => call["main"].op = "routes" /\ Answer("main") # "none"
    /\ main = "releasing" => call["main"].op = "delete" /\ Answer("main") # "none"
    /\ main = "releasing" /\ Answer("main") = "sent" => call["main"].id = held
LoopInCall ==
    /\ loop \notin {"beat", "again", "routes", "late"} => Answer("loop") = "none"
    /\ loop = "beat" => call["loop"].op = "beat" /\ Answer("loop") # "none"
    /\ loop = "again" => call["loop"].op = "post" /\ Answer("loop") # "none"
    /\ loop = "routes" => call["loop"].op = "routes" /\ Answer("loop") # "none"
    /\ loop = "late" => call["loop"].op = "delete" /\ Answer("loop") # "none"
    /\ loop = "beat" /\ Answer("loop") \in {"sent", "ok"} => call["loop"].id = held
    /\ loop = "routes" /\ Answer("loop") = "ok" => call["loop"].id = LegacyID
InStep ==
    /\ loop = "off" <=> main \in {"off", "registering", "fallback", "failed"}
    /\ ok => main \in {"running", "stopping"}
    /\ daemon = "down" => claims = {}
    /\ daemon = "old" => Mine = {}

(* The leases each thread can still account for.                           *)
MainHas ==
    CASE main = "registering" /\ Answer("main") = "ok"  -> {call["main"].id}
      [] main \in {"running", "stopping"}               -> {held}
      [] main = "releasing" /\ Answer("main") = "sent"  -> {held}
      [] OTHER                                          -> {}
LoopHas ==
    IF \/ loop = "again" /\ Answer("loop") = "ok"
       \/ loop = "late" /\ Answer("loop") = "sent"
    THEN {call["loop"].id} ELSE {}

(* The loop is about to register, or may be: it has no lease.              *)
LoopHasNone ==
    \/ loop = "beat" /\ Answer("loop") = "missing"
    \/ loop = "again" /\ Answer("loop") \in {"sent", "missing"}
    \/ loop = "routes"

Kept ==
    /\ \A s \in strays : s.op = "beat"
    /\ Mine \subseteq MainHas \cup LoopHas
    /\ LoopHasNone => Mine = {}
    /\ loop = "again" /\ Answer("loop") = "ok" => Mine \subseteq {call["loop"].id}

Tidy == MainInCall /\ LoopInCall /\ InStep /\ (~leaky => Kept)
IInv == IsSession => Tidy

-----------------------------------------------------------------------------
(* Lease IDs                                                               *)

USE ClientAssumption DEF LegacyID, Owners, Answer, Answered, Accepted

Below == {p \in Nat \X Nat : p[1] < p[2]}

LEMMA LeastOf ==
    ASSUME NEW K \in SUBSET Nat, K # {}
    PROVE  \E k \in K : \A j \in K : k <= j
  <1>1. IsWellFoundedOn(Below, Nat)
    BY NatLessThanWellFounded DEF OpToRel, Below
  <1>2. PICK k \in K : \A j \in K : <<j, k>> \notin Below
    BY <1>1, WFMin
  <1>3. ASSUME NEW j \in K PROVE k <= j
    <2>1. <<j, k>> \in Nat \X Nat /\ <<j, k>>[1] = j /\ <<j, k>>[2] = k
      OBVIOUS
    <2> QED
      BY <1>2, <2>1 DEF Below
  <1> QED
    BY <1>3

\* There are no more IDs in some calls than calls.
LEMMA FewIDs ==
    ASSUME NEW ss, Few(ss)
    PROVE  LET ids == {s.id : s \in ss} IN IsFiniteSet(ids) /\ Cardinality(ids) <= MaxStrays
  <1> DEFINE ids == {s.id : s \in ss}
             f == [s \in ss |-> s.id]
  <1>1. f \in Surjection(ss, ids)
    BY DEF Surjection
  <1> HIDE DEF f, ids
  <1>2. IsFiniteSet(ids) /\ Cardinality(ids) <= Cardinality(ss)
    BY <1>1, FS_Surjection DEF Few
  <1>3. Cardinality(ids) \in Nat /\ Cardinality(ss) \in Nat
    BY <1>2, FS_CardinalityType DEF Few
  <1> QED
    BY <1>2, <1>3 DEF ids, Few

LEMMA OneMore ==
    ASSUME NEW S, NEW x, NEW n \in Nat, IsFiniteSet(S), Cardinality(S) <= n
    PROVE  IsFiniteSet(S \cup {x}) /\ Cardinality(S \cup {x}) <= n + 1
  <1>1. IsFiniteSet(S \cup {x})
        /\ Cardinality(S \cup {x}) = IF x \in S THEN Cardinality(S) ELSE Cardinality(S) + 1
    BY FS_AddElement
  <1>2. Cardinality(S) \in Nat
    BY FS_CardinalityType
  <1> QED
    BY <1>1, <1>2

\* The ID of a new lease is one that nothing else has.
LEMMA FreshIsFree ==
    ASSUME Typed, LeaseOf("me") = {}
    PROVE  FreshID("me") \in IDs /\ FreshID("me") \notin IDsInUse
  <1> DEFINE old == {s.id : s \in strays}
             known == old \cup {held} \cup {call["main"].id} \cup {call["loop"].id}
  <1>1. IsFiniteSet(old) /\ Cardinality(old) <= MaxStrays
    BY FewIDs DEF Typed
  <1>2. IsFiniteSet(known) /\ Cardinality(known) <= MaxStrays + 3
    <2> HIDE DEF old
    <2>1. IsFiniteSet(old \cup {held}) /\ Cardinality(old \cup {held}) <= MaxStrays + 1
      BY <1>1, OneMore
    <2>2. PICK S : S = old \cup {held}
      OBVIOUS
    <2>3. IsFiniteSet(S \cup {call["main"].id})
          /\ Cardinality(S \cup {call["main"].id}) <= MaxStrays + 2
      <3>1. MaxStrays + 1 \in Nat /\ (MaxStrays + 1) + 1 = MaxStrays + 2
        OBVIOUS
      <3> QED
        BY <2>1, <2>2, <3>1, OneMore
    <2>4. PICK T : T = S \cup {call["main"].id}
      OBVIOUS
    <2>5. IsFiniteSet(T \cup {call["loop"].id})
          /\ Cardinality(T \cup {call["loop"].id}) <= MaxStrays + 3
      <3>1. MaxStrays + 2 \in Nat /\ (MaxStrays + 2) + 1 = MaxStrays + 3
        OBVIOUS
      <3> QED
        BY <2>3, <2>4, <3>1, OneMore
    <2> QED
      BY <2>2, <2>4, <2>5
  <1>3. Cardinality(IDs) = MaxID
    BY FS_Interval DEF IDs
  <1>4. ~(IDs \subseteq known)
    <2> HIDE DEF known
    <2>1. Cardinality(known) \in Nat
      BY <1>2, FS_CardinalityType
    <2> QED
      BY <1>2, <1>3, <2>1, FS_Subset
  <1>5. ASSUME NEW n \in IDs, n \in IDsInUse PROVE n \in known
    <2>1. \A k \in claims : k.id # n
      <3>1. SUFFICES ASSUME NEW k \in claims, k.id = n PROVE FALSE
        OBVIOUS
      <3>2. k.by # "me"
        BY <3>1 DEF LeaseOf, IDs
      <3> QED
        BY <3>1, <3>2 DEF Typed, Owned, OtherID, IDs
    <2> QED
      BY <1>5, <2>1 DEF IDsInUse, Threads
  <1>6. IDs \ IDsInUse # {} /\ IDs \ IDsInUse \in SUBSET Nat
    BY <1>4, <1>5 DEF IDs
  <1>7. \E n \in IDs \ IDsInUse : \A m \in IDs \ IDsInUse : n <= m
    BY <1>6, LeastOf
  <1> QED
    BY <1>7 DEF FreshID

-----------------------------------------------------------------------------
(* What the daemon does with a call                                        *)

Fit(d) == /\ d.claims \in SUBSET Claim /\ Owned(d.claims)
          /\ d.id \in MyIDs /\ d.status \in {"ok", "missing", "rejected"}

LEMMA MineIs ==
    /\ LegacyID \notin Mine
    /\ \A cs : LegacyID \notin Leases(cs)
    /\ \A cs, ds : ds \subseteq cs => Leases(ds) \subseteq Leases(cs)
    /\ LeaseOf("me") = {} <=> Mine = {}
  BY DEF Mine, Leases, LeaseOf

LEMMA MissingFit == Typed => Fit(Missing)
  BY DEF Typed, TypeOK, Fit, Missing, Claim, MyIDs

LEMMA DeleteFit ==
    ASSUME Typed, NEW ks
    PROVE  Fit(Delete(ks)) /\ Delete(ks).claims \subseteq claims
  BY DEF Typed, TypeOK, Fit, Delete, Claim, MyIDs, Owned

LEMMA ExtendFit ==
    ASSUME Typed, NEW ks \in SUBSET claims, NEW id \in MyIDs
    PROVE  /\ Fit(Extend(ks, id)) /\ Extend(ks, id).id = id
           /\ Extend(ks, id).status # "missing"
           /\ Leases(Extend(ks, id).claims) = Mine
  <1> DEFINE after == (claims \ ks) \cup Renewed(ks)
  <1>1. /\ Extend(ks, id).claims = after /\ Extend(ks, id).id = id
        /\ Extend(ks, id).status \in {"ok", "rejected"}
    BY DEF Extend
  <1>2. claims \in SUBSET Claim /\ Owned(claims)
    BY DEF Typed, TypeOK, Claim
  <1>3. \A k \in Claim : LET n == [k EXCEPT !.left = TTL] IN
            n \in Claim /\ n.id = k.id /\ n.by = k.by
    BY DEF Claim
  <1>4. \A n \in Renewed(ks) : \E k \in ks : n \in Claim /\ n.id = k.id /\ n.by = k.by
    <2>1. \A n \in Renewed(ks) : \E k \in ks : n = [k EXCEPT !.left = TTL]
      BY DEF Renewed
    <2>2. ks \subseteq Claim
      BY <1>2
    <2>3. ASSUME NEW n \in Renewed(ks)
          PROVE  \E k \in ks : n \in Claim /\ n.id = k.id /\ n.by = k.by
      <3>1. PICK k \in ks : n = [k EXCEPT !.left = TTL]
        BY <2>1
      <3>2. k \in Claim
        BY <2>2
      <3> QED
        BY <1>3, <3>1, <3>2
    <2> QED
      BY <2>3
  <1>5. \A k \in ks : \E n \in Renewed(ks) : n.id = k.id /\ n.by = k.by
    BY <1>2, <1>3 DEF Renewed
  <1>6. after \in SUBSET Claim /\ Owned(after)
    BY <1>2, <1>4 DEF Owned
  <1>7. Leases(after) = Mine
    <2>1. ASSUME NEW n \in Leases(after) PROVE n \in Mine
      BY <2>1, <1>4 DEF Leases, Mine
    <2>2. ASSUME NEW n \in Mine PROVE n \in Leases(after)
      <3>1. PICK k \in claims : k.id = n /\ k.id # LegacyID /\ k.by = "me"
        BY <2>2 DEF Leases, Mine
      <3>2. CASE k \in ks
        <4>1. PICK j \in Renewed(ks) : j.id = k.id /\ j.by = k.by
          BY <1>5, <3>2
        <4> QED
          BY <3>1, <4>1 DEF Leases
      <3>3. CASE k \notin ks
        BY <3>1, <3>3 DEF Leases
      <3> QED
        BY <3>2, <3>3
    <2> QED
      BY <2>1, <2>2
  <1> QED
    BY <1>1, <1>6, <1>7 DEF Fit

Made(d, others, owner, port, id) ==
    /\ d.claims \in SUBSET Claim /\ Owned(d.claims) /\ d.status \in {"ok", "rejected"}
    /\ d.status = "ok" => /\ d.id = id /\ others \subseteq d.claims
                          /\ d.claims \ others =
                                 {[id |-> id, by |-> owner, port |-> port, left |-> TTL]} \ others
    /\ d.status = "rejected" => d.claims = claims /\ d.id = LegacyID

LEMMA CreateFit ==
    ASSUME Typed, NEW others \in SUBSET claims, NEW owner \in Owners, NEW port \in Ports, NEW id,
           IF owner = "me" THEN id \in MyIDs ELSE id \in {LegacyID, OtherID}
    PROVE  Made(Create(others, owner, port, id), others, owner, port, id)
  <1>1. claims \in SUBSET Claim /\ Owned(claims)
    BY DEF Typed, TypeOK, Claim
  <1>2. PICK n : n = [id |-> id, by |-> owner, port |-> port, left |-> TTL]
    OBVIOUS
  <1>3. n \in Claim /\ n.id = id /\ n.by = owner
    BY <1>2 DEF Claim, MyIDs
  <1>4. others \cup {n} \in SUBSET Claim /\ Owned(others \cup {n})
    BY <1>1, <1>3 DEF Owned
  <1>5. CASE Rivals(port, others) # {}
    BY <1>1, <1>5 DEF Create, Made
  <1>6. CASE Rivals(port, others) = {}
    <2>1. Create(others, owner, port, id) =
              [claims |-> others \cup {n}, id |-> id, status |-> "ok"]
      BY <1>2, <1>6 DEF Create
    <2> QED
      BY <1>2, <1>4, <2>1 DEF Made
  <1> QED
    BY <1>5, <1>6

\* A claim of the legacy API is nobody's lease.
LEMMA LegacyCreated ==
    ASSUME Typed, NEW others \in SUBSET claims, NEW owner \in Owners, NEW port \in Ports,
           claims \ others \subseteq Legacy
    PROVE  LET d == Create(others, owner, port, LegacyID) IN
           Fit(d) /\ d.status # "missing" /\ d.id = LegacyID /\ Leases(d.claims) = Mine
  <1>1. PICK d : d = Create(others, owner, port, LegacyID)
    OBVIOUS
  <1>2. Made(d, others, owner, port, LegacyID)
    <2>1. IF owner = "me" THEN LegacyID \in MyIDs ELSE LegacyID \in {LegacyID, OtherID}
      BY DEF MyIDs
    <2> QED
      BY <1>1, <2>1, CreateFit
  <1>3. Leases(d.claims) = Mine
    <2>1. CASE d.status = "rejected"
      BY <1>2, <2>1 DEF Mine, Made
    <2>2. CASE d.status = "ok"
      <3>1. \A k \in d.claims : k.id # LegacyID => k \in claims
        BY <1>2, <2>2 DEF Made
      <3>2. \A k \in claims : k.id # LegacyID => k \in d.claims
        BY <1>2, <2>2 DEF Legacy, Made
      <3> QED
        BY <3>1, <3>2 DEF Leases, Mine
    <2> QED
      BY <1>2, <2>1, <2>2 DEF Made
  <1> QED
    BY <1>1, <1>2, <1>3 DEF Fit, MyIDs, Made

LEMMA RegisterFit ==
    ASSUME Typed, NEW owner \in Owners, NEW port \in Ports
    PROVE  LET d == RegisterLegacy(owner, port) IN
           Fit(d) /\ d.status # "missing" /\ d.id = LegacyID /\ Leases(d.claims) = Mine
  <1>1. claims \ Legacy \in SUBSET claims /\ claims \ (claims \ Legacy) \subseteq Legacy
    OBVIOUS
  <1> QED
    BY <1>1, LegacyCreated DEF RegisterLegacy

LEMMA HeartbeatFit ==
    ASSUME Typed
    PROVE  /\ Fit(HeartbeatLegacy) /\ HeartbeatLegacy.id = LegacyID
           /\ Leases(HeartbeatLegacy.claims) = Mine
  <1> DEFINE live == {k \in claims : k.left > 0}
             k == CHOOSE x \in live : TRUE
  <1>1. CASE Legacy # {}
    BY <1>1, ExtendFit DEF HeartbeatLegacy, Legacy, MyIDs
  <1>2. CASE Legacy = {} /\ live # {}
    <2>1. k \in live
      BY <1>2
    <2>2. k \in claims /\ k.by \in Owners /\ k.port \in Ports
      BY <2>1 DEF Typed, TypeOK
    <2>3. HeartbeatLegacy = Create(claims, k.by, k.port, LegacyID)
      BY <1>2 DEF HeartbeatLegacy
    <2> HIDE DEF k, live
    <2>4. claims \in SUBSET claims /\ claims \ claims \subseteq Legacy
      OBVIOUS
    <2> QED
      BY <2>2, <2>3, <2>4, LegacyCreated
  <1>3. CASE Legacy = {} /\ live = {}
    <2>1. HeartbeatLegacy = Missing
      BY <1>3 DEF HeartbeatLegacy
    <2> QED
      BY <2>1, MissingFit DEF Missing, Mine
  <1> QED
    BY <1>1, <1>2, <1>3

LEMMA CreateLeaseFit ==
    ASSUME Typed, NEW port \in Ports
    PROVE  LET d == CreateLease("me", port) IN
           /\ Fit(d)
           /\ Mine = {} => Leases(d.claims) = IF d.status = "ok" THEN {d.id} ELSE {}
  <1>1. CASE LeaseOf("me") = {}
    <2>1. PICK n : n = FreshID("me")
      OBVIOUS
    <2>2. n \in IDs /\ n # LegacyID /\ n \in MyIDs
      BY <1>1, <2>1, FreshIsFree DEF IDs, MyIDs
    <2>3. PICK d : d = Create(claims, "me", port, n)
      OBVIOUS
    <2>4. CreateLease("me", port) = d
      BY <1>1, <2>1, <2>3 DEF CreateLease
    <2>5. Made(d, claims, "me", port, n)
      BY <2>2, <2>3, CreateFit
    <2>6. Mine = {}
      BY <1>1, MineIs
    <2>7. CASE d.status = "ok"
      <3>1. [id |-> n, by |-> "me", port |-> port, left |-> TTL] \in d.claims
        BY <2>5, <2>7 DEF Made
      <3>2. Leases(d.claims) = {n}
        BY <2>2, <2>5, <2>6, <2>7, <3>1 DEF Leases, Mine, Made
      <3> QED
        BY <2>2, <2>4, <2>5, <2>7, <3>2 DEF Fit, Made
    <2>8. CASE d.status = "rejected"
      BY <2>4, <2>5, <2>6, <2>8 DEF Fit, Mine, MyIDs, Made
    <2> QED
      BY <2>5, <2>7, <2>8 DEF Made
  <1>2. CASE LeaseOf("me") # {}
    <2>1. PICK k : k = CHOOSE x \in LeaseOf("me") : TRUE
      OBVIOUS
    <2>2. k \in LeaseOf("me")
      BY <1>2, <2>1
    <2>3. k.id \in MyIDs /\ LeaseOf("me") \in SUBSET claims
      BY <2>2 DEF LeaseOf, Typed, Owned
    <2>4. CreateLease("me", port) = Extend(LeaseOf("me"), k.id)
      BY <1>2, <2>1 DEF CreateLease
    <2> QED
      BY <1>2, <2>3, <2>4, ExtendFit, MineIs
  <1> QED
    BY <1>1, <1>2

(* An old daemon knows no leases.                                         *)
Lawful == daemon = "old" => Mine = {}

Dealt(d, op, id) ==
    /\ op = "routes" => Leases(d.claims) = Mine /\ d.id = LegacyID
    /\ op = "beat" => /\ Leases(d.claims) = Mine
                      /\ d.status = "ok" => d.id = id
                      /\ d.status = "missing" /\ Mine \subseteq {id} => Mine = {}
    /\ op = "delete" => Leases(d.claims) \subseteq Mine \ {id}
    /\ op = "post" /\ Mine = {} =>
           Leases(d.claims) = IF d.status = "ok" THEN {d.id} ELSE {}
    /\ daemon = "old" => Leases(d.claims) = {}

\* What comes of a call that is served.
LEMMA HandledFit ==
    ASSUME Typed, NEW op \in Ops, NEW id \in MyIDs, daemon # "down"
    PROVE  LET d == Handled(op, id) IN Fit(d) /\ (Lawful => Dealt(d, op, id))
  <1>0. daemon \in {"new", "old"} /\ MyPort \in Ports
    BY DEF Typed, TypeOK, Ports
  <1> DEFINE d == Handled(op, id)
  <1>1. CASE op = "routes"
    <2>1. d = RegisterLegacy("me", MyPort)
      BY <1>1 DEF Handled
    <2> HIDE DEF d
    <2>2. Fit(d) /\ d.id = LegacyID /\ Leases(d.claims) = Mine
      BY <1>0, <2>1, RegisterFit
    <2> QED
      BY <1>1, <2>2 DEF Lawful, Dealt, d
  <1>2. CASE op = "beat" /\ id = LegacyID
    <2>1. d = HeartbeatLegacy
      BY <1>2 DEF Handled
    <2> HIDE DEF d
    <2>2. Fit(d) /\ d.id = LegacyID /\ Leases(d.claims) = Mine
      BY <2>1, HeartbeatFit
    <2> QED
      BY <1>2, <2>2, MineIs DEF Lawful, Dealt, d
  <1>3. CASE op = "delete" /\ id = LegacyID
    <2>1. d = DeleteLegacy
      BY <1>3 DEF Handled
    <2> HIDE DEF d
    <2>2. Fit(d) /\ d.claims \subseteq claims
      <3>1. CASE Legacy = {}
        BY <2>1, <3>1, MissingFit DEF DeleteLegacy, Missing
      <3>2. CASE Legacy # {}
        BY <2>1, <3>2, DeleteFit DEF DeleteLegacy
      <3> QED
        BY <3>1, <3>2
    <2>3. Leases(d.claims) \subseteq Mine /\ LegacyID \notin Leases(d.claims)
      BY <2>2, MineIs DEF Mine
    <2> QED
      BY <1>3, <2>2, <2>3 DEF Lawful, Dealt, d
  <1>4. CASE op = "post" /\ daemon = "new"
    <2>1. d = CreateLease("me", MyPort)
      BY <1>4 DEF Handled
    <2> HIDE DEF d
    <2>2. Fit(d) /\ (Mine = {} => Leases(d.claims) = IF d.status = "ok" THEN {d.id} ELSE {})
      BY <1>0, <2>1, CreateLeaseFit
    <2> QED
      BY <1>4, <2>2 DEF Lawful, Dealt, d
  <1>5. CASE op = "beat" /\ id # LegacyID /\ daemon = "new"
    <2>1. d = HeartbeatLease(id)
      BY <1>5 DEF Handled
    <2> HIDE DEF d
    <2>2. CASE WithID(id) = {}
      <3>1. d = Missing /\ id \notin Mine
        BY <2>1, <2>2 DEF HeartbeatLease, WithID, Mine, Leases
      <3> QED
        BY <1>5, <3>1, MissingFit DEF Lawful, Dealt, d, Missing, Mine
    <2>3. CASE WithID(id) # {}
      <3>1. d = Extend(WithID(id), id) /\ WithID(id) \in SUBSET claims
        BY <2>1, <2>3 DEF HeartbeatLease, WithID
      <3>2. Fit(d) /\ d.id = id /\ d.status # "missing" /\ Leases(d.claims) = Mine
        BY <3>1, ExtendFit
      <3> QED
        BY <1>5, <3>2 DEF Lawful, Dealt, d
    <2> QED
      BY <2>2, <2>3
  <1>6. CASE op = "delete" /\ id # LegacyID /\ daemon = "new"
    <2>1. d = Delete(WithID(id))
      BY <1>6 DEF Handled
    <2> HIDE DEF d
    <2>2. Fit(d) /\ d.claims \subseteq claims
      BY <2>1, DeleteFit
    <2>3. id \notin Leases(d.claims)
      BY <2>1 DEF Delete, WithID, Leases
    <2>4. Leases(d.claims) \subseteq Mine
      BY <2>2, MineIs DEF Mine
    <2> QED
      BY <1>6, <2>2, <2>3, <2>4 DEF Lawful, Dealt, d
  <1>7. CASE daemon = "old" /\ (op = "post" \/ (op \in {"beat", "delete"} /\ id # LegacyID))
    <2>1. d = Missing
      BY <1>7 DEF Handled
    <2> QED
      BY <1>7, <2>1, MissingFit DEF Lawful, Dealt, Missing, Mine
  <1> QED
    BY <1>0, <1>1, <1>2, <1>3, <1>4, <1>5, <1>6, <1>7 DEF Ops

-----------------------------------------------------------------------------
(* A call, on the client's side                                            *)

Calls == [Threads -> {NoCall} \cup
            [op : Ops, id : IDs \cup {LegacyID}, status : Statuses, age : 0..Timeout]]

Other(t) == IF t = "main" THEN "loop" ELSE "main"

(* The call of one thread has changed, the other's has not.                *)
Turned(t, op, id, status) ==
    /\ call' \in Calls
    /\ call'[t].op = op /\ call'[t].id = id /\ call'[t].status = status
    /\ call'[Other(t)] = call[Other(t)]

LEMMA InCall ==
    ASSUME Typed, NEW t \in Threads, Answer(t) # "none"
    PROVE  call[t] \in [op : Ops, id : IDs \cup {LegacyID}, status : Statuses, age : 0..Timeout]
  BY DEF Typed, TypeOK, NoCall

LEMMA SendFit ==
    ASSUME Typed, NEW t \in Threads, NEW op \in Ops, NEW id \in MyIDs, Send(t, op, id)
    PROVE  Turned(t, op, id, "sent")
  <1>1. PICK c : c = [op |-> op, id |-> id, status |-> "sent", age |-> 0]
    OBVIOUS
  <1>2. c \in [op : Ops, id : IDs \cup {LegacyID}, status : Statuses, age : 0..Timeout]
    BY <1>1 DEF MyIDs, Statuses
  <1>3. c.op = op /\ c.id = id /\ c.status = "sent"
    BY <1>1
  <1>4. call' = [call EXCEPT ![t] = c] /\ call \in Calls
    BY <1>1 DEF Send, Typed, TypeOK, Calls
  <1>5. call' \in Calls
    BY <1>2, <1>4 DEF Calls
  <1> QED
    BY <1>3, <1>4, <1>5 DEF Turned, Calls, Other, Threads

LEMMA DoneFit ==
    ASSUME Typed, NEW t \in Threads, Done(t)
    PROVE  Turned(t, "none", LegacyID, "none")
  <1>1. call' = [call EXCEPT ![t] = NoCall] /\ call \in Calls
    BY DEF Done, Typed, TypeOK, Calls
  <1>2. call' \in Calls
    BY <1>1 DEF Calls
  <1> QED
    BY <1>1, <1>2 DEF Turned, Calls, Other, Threads, NoCall

LEMMA FailsFit ==
    ASSUME Typed, NEW t \in Threads, NEW s \in Errors, Answer(t) # "none", Fails(t, s)
    PROVE  Turned(t, call[t].op, LegacyID, s)
  <1>1. PICK c : c = [call[t] EXCEPT !.id = LegacyID, !.status = s, !.age = 0]
    OBVIOUS
  <1>2. call[t] \in [op : Ops, id : IDs \cup {LegacyID}, status : Statuses, age : 0..Timeout]
    BY InCall
  <1>3. c = [op |-> call[t].op, id |-> LegacyID, status |-> s, age |-> 0]
    BY <1>1, <1>2
  <1>4. c \in [op : Ops, id : IDs \cup {LegacyID}, status : Statuses, age : 0..Timeout]
    BY <1>2, <1>3 DEF Statuses, Errors
  <1>5. call \in Calls
    BY DEF Typed, TypeOK, Calls
  <1>6. call' = [call EXCEPT ![t] = c]
    BY <1>1, <1>5 DEF Fails, Calls
  <1>7. call' \in Calls
    BY <1>4, <1>5, <1>6 DEF Calls
  <1> QED
    BY <1>3, <1>5, <1>6, <1>7 DEF Turned, Calls, Other, Threads

-----------------------------------------------------------------------------
(* The main thread                                                         *)

USE DEF IsSession, Threads, Other

LEMMA BeginKeeps == Typed /\ IInv /\ Begin => Typed' /\ IInv'
  <1> SUFFICES ASSUME Typed, IInv, Begin PROVE Typed' /\ IInv'
    OBVIOUS
  <1>1. Turned("main", "post", LegacyID, "sent")
    BY SendFit DEF Begin, Ops, MyIDs
  <1>2. Typed'
    BY <1>1 DEF Typed, TypeOK, Owned, Few, Begin, Turned, Calls, wvars
  <1>3. Mine' = Mine
    BY DEF Mine, Leases, Begin, wvars
  <1>4. ASSUME IsSession PROVE Tidy'
    BY <1>1, <1>3, <1>4 DEF IInv, Tidy, MainInCall, LoopInCall, InStep, Kept, MainHas, LoopHas,
        LoopHasNone, Turned, Begin, wvars
  <1> QED
    BY <1>2, <1>4 DEF IInv, Begin

LEMMA FallBackKeeps == Typed /\ IInv /\ FallBack => Typed' /\ IInv'
  <1> SUFFICES ASSUME Typed, IInv, FallBack PROVE Typed' /\ IInv'
    OBVIOUS
  <1>1. Turned("main", "routes", LegacyID, "sent")
    BY SendFit DEF FallBack, Ops, MyIDs
  <1>2. Typed'
    BY <1>1 DEF Typed, TypeOK, Owned, Few, FallBack, Turned, Calls, wvars
  <1>3. Mine' = Mine
    BY DEF Mine, Leases, FallBack, wvars
  <1>4. ASSUME IsSession PROVE Tidy'
    BY <1>1, <1>3, <1>4 DEF IInv, Tidy, MainInCall, LoopInCall, InStep, Kept, MainHas, LoopHas,
        LoopHasNone, Turned, FallBack, wvars
  <1> QED
    BY <1>2, <1>4 DEF IInv, FallBack

LEMMA RegisteredKeeps == Typed /\ IInv /\ Registered => Typed' /\ IInv'
  <1> SUFFICES ASSUME Typed, IInv, Registered PROVE Typed' /\ IInv'
    OBVIOUS
  <1>1. Turned("main", "none", LegacyID, "none")
    BY DoneFit DEF Registered
  <1>2. Typed'
    BY <1>1 DEF Typed, TypeOK, Owned, Few, Registered, Turned, Calls, wvars, NoCall
  <1>3. Mine' = Mine
    BY DEF Mine, Leases, Registered, wvars
  <1>4. ASSUME IsSession PROVE Tidy'
    BY <1>1, <1>3, <1>4 DEF IInv, Tidy, MainInCall, LoopInCall, InStep, Kept, MainHas, LoopHas,
        LoopHasNone, Turned, Registered, wvars
  <1> QED
    BY <1>2, <1>4 DEF IInv, Registered

LEMMA NotRegisteredKeeps == Typed /\ IInv /\ NotRegistered => Typed' /\ IInv'
  <1> SUFFICES ASSUME Typed, IInv, NotRegistered PROVE Typed' /\ IInv'
    OBVIOUS
  <1>1. Turned("main", "none", LegacyID, "none")
    BY DoneFit DEF NotRegistered
  <1>2. Typed'
    BY <1>1 DEF Typed, TypeOK, Owned, Few, NotRegistered, Turned, Calls, wvars
  <1>3. Mine' = Mine
    BY DEF Mine, Leases, NotRegistered, wvars
  <1>4. ASSUME IsSession PROVE Tidy'
    BY <1>1, <1>3, <1>4 DEF IInv, Tidy, MainInCall, LoopInCall, InStep, Kept, MainHas, LoopHas,
        LoopHasNone, Turned, NotRegistered, wvars, Errors
  <1> QED
    BY <1>2, <1>4 DEF IInv, NotRegistered

LEMMA CancelKeeps == Typed /\ IInv /\ Cancel => Typed' /\ IInv'
  <1> SUFFICES ASSUME Typed, IInv, Cancel PROVE Typed' /\ IInv'
    OBVIOUS
  <1>1. Typed'
    BY DEF Typed, TypeOK, Owned, Few, Cancel, wvars
  <1>2. Mine' = Mine
    BY DEF Mine, Leases, Cancel, wvars
  <1>3. ASSUME IsSession PROVE Tidy'
    BY <1>2, <1>3 DEF IInv, Tidy, MainInCall, LoopInCall, InStep, Kept, MainHas, LoopHas,
        LoopHasNone, Cancel, wvars
  <1> QED
    BY <1>1, <1>3 DEF IInv, Cancel

LEMMA ReleaseKeeps == Typed /\ IInv /\ Release => Typed' /\ IInv'
  <1> SUFFICES ASSUME Typed, IInv, Release PROVE Typed' /\ IInv'
    OBVIOUS
  <1>1. Turned("main", "delete", held, "sent")
    BY SendFit DEF Release, Ops, MyIDs, Typed, TypeOK
  <1>2. Typed'
    <2>1. call' \in Calls
      BY <1>1 DEF Turned
    <2>2. /\ main' = "releasing" /\ ok' = FALSE
          /\ UNCHANGED <<kind, daemon, claims, strays, faults, loop, held, cancelled, due, age,
                         entry, leaky>>
      BY DEF Release, wvars
    <2>3. TypeOK'
      <3>1. TypeOK
        BY DEF Typed
      <3> QED
        BY <2>1, <2>2, <3>1 DEF TypeOK, Calls
    <2>4. Owned(claims') /\ Few(strays')
      BY <2>2 DEF Typed
    <2> QED
      BY <2>3, <2>4 DEF Typed, Owned, Few
  <1>3. Mine' = Mine
    BY DEF Mine, Leases, Release, wvars
  <1>4. ASSUME IsSession PROVE Tidy'
    BY <1>1, <1>3, <1>4 DEF IInv, Tidy, MainInCall, LoopInCall, InStep, Kept, MainHas, LoopHas,
        LoopHasNone, Turned, Release, wvars
  <1> QED
    BY <1>2, <1>4 DEF IInv, Release

LEMMA ReleasedKeeps == Typed /\ IInv /\ Released => Typed' /\ IInv'
  <1> SUFFICES ASSUME Typed, IInv, Released PROVE Typed' /\ IInv'
    OBVIOUS
  <1>1. Turned("main", "none", LegacyID, "none")
    BY DoneFit DEF Released
  <1>2. Typed'
    BY <1>1 DEF Typed, TypeOK, Owned, Few, Released, Turned, Calls, wvars
  <1>3. Mine' = Mine
    BY DEF Mine, Leases, Released, wvars
  <1>4. ASSUME IsSession PROVE Tidy'
    BY <1>1, <1>3, <1>4 DEF IInv, Tidy, MainInCall, LoopInCall, InStep, Kept, MainHas, LoopHas,
        LoopHasNone, Turned, Released, wvars
  <1> QED
    BY <1>2, <1>4 DEF IInv, Released

LEMMA LoopEndsKeeps == Typed /\ IInv /\ LoopEnds => Typed' /\ IInv'
  <1> SUFFICES ASSUME Typed, IInv, LoopEnds PROVE Typed' /\ IInv'
    OBVIOUS
  <1>1. Typed'
    BY DEF Typed, TypeOK, Owned, Few, LoopEnds, wvars
  <1>2. Mine' = Mine
    BY DEF Mine, Leases, LoopEnds, wvars
  <1>3. ASSUME IsSession PROVE Tidy'
    BY <1>2, <1>3 DEF IInv, Tidy, MainInCall, LoopInCall, InStep, Kept, MainHas, LoopHas,
        LoopHasNone, LoopEnds, wvars
  <1> QED
    BY <1>1, <1>3 DEF IInv, LoopEnds

LEMMA ReportRenewedKeeps == Typed /\ IInv /\ ReportRenewed => Typed' /\ IInv'
  <1> SUFFICES ASSUME Typed, IInv, ReportRenewed PROVE Typed' /\ IInv'
    OBVIOUS
  <1>1. Typed'
    BY DEF Typed, TypeOK, Owned, Few, ReportRenewed, wvars, Shown
  <1>2. Mine' = Mine
    BY DEF Mine, Leases, ReportRenewed, wvars
  <1>3. ASSUME IsSession PROVE Tidy'
    BY <1>2, <1>3 DEF IInv, Tidy, MainInCall, LoopInCall, InStep, Kept, MainHas, LoopHas,
        LoopHasNone, ReportRenewed, wvars
  <1> QED
    BY <1>1, <1>3 DEF IInv, ReportRenewed

LEMMA ReportUnrenewedKeeps == Typed /\ IInv /\ ReportUnrenewed => Typed' /\ IInv'
  <1> SUFFICES ASSUME Typed, IInv, ReportUnrenewed PROVE Typed' /\ IInv'
    OBVIOUS
  <1>1. Typed'
    BY DEF Typed, TypeOK, Owned, Few, ReportUnrenewed, wvars, Shown
  <1>2. Mine' = Mine
    BY DEF Mine, Leases, ReportUnrenewed, wvars
  <1>3. ASSUME IsSession PROVE Tidy'
    BY <1>2, <1>3 DEF IInv, Tidy, MainInCall, LoopInCall, InStep, Kept, MainHas, LoopHas,
        LoopHasNone, ReportUnrenewed, wvars
  <1> QED
    BY <1>1, <1>3 DEF IInv, ReportUnrenewed

LEMMA FailKeeps == Typed /\ IInv /\ Fail => Typed' /\ IInv'
  <1> SUFFICES ASSUME Typed, IInv, Fail PROVE Typed' /\ IInv'
    OBVIOUS
  <1>1. Typed'
    BY DEF Typed, TypeOK, Owned, Few, Fail, wvars, Shown
  <1>2. Mine' = Mine
    BY DEF Mine, Leases, Fail, wvars
  <1>3. ASSUME IsSession PROVE Tidy'
    BY <1>2, <1>3 DEF IInv, Tidy, MainInCall, LoopInCall, InStep, Kept, MainHas, LoopHas,
        LoopHasNone, Fail, wvars
  <1> QED
    BY <1>1, <1>3 DEF IInv, Fail

LEMMA HeartbeatKeeps == Typed /\ IInv /\ Heartbeat => Typed' /\ IInv'
  <1> SUFFICES ASSUME Typed, IInv, Heartbeat PROVE Typed' /\ IInv'
    OBVIOUS
  <1>1. Turned("loop", "beat", held, "sent")
    BY SendFit DEF Heartbeat, Ops, MyIDs, Typed, TypeOK
  <1>2. Typed'
    <2>1. call' \in Calls
      BY <1>1 DEF Turned
    <2>2. /\ loop' = "beat" /\ due' = FALSE
          /\ UNCHANGED <<kind, daemon, claims, strays, faults, main, held, ok, cancelled, age,
                         entry, leaky>>
      BY DEF Heartbeat, wvars
    <2>3. TypeOK'
      <3>1. TypeOK
        BY DEF Typed
      <3> QED
        BY <2>1, <2>2, <3>1 DEF TypeOK, Calls
    <2>4. Owned(claims') /\ Few(strays')
      BY <2>2 DEF Typed
    <2> QED
      BY <2>3, <2>4 DEF Typed, Owned, Few
  <1>3. Mine' = Mine
    BY DEF Mine, Leases, Heartbeat, wvars
  <1>4. ASSUME IsSession PROVE Tidy'
    BY <1>1, <1>3, <1>4 DEF IInv, Tidy, MainInCall, LoopInCall, InStep, Kept, MainHas, LoopHas,
        LoopHasNone, Turned, Heartbeat, wvars
  <1> QED
    BY <1>2, <1>4 DEF IInv, Heartbeat

LEMMA RegisterAgainKeeps == Typed /\ IInv /\ RegisterAgain => Typed' /\ IInv'
  <1> SUFFICES ASSUME Typed, IInv, RegisterAgain PROVE Typed' /\ IInv'
    OBVIOUS
  <1>1. Turned("loop", "post", LegacyID, "sent")
    BY SendFit DEF RegisterAgain, Ops, MyIDs
  <1>2. Typed'
    BY <1>1 DEF Typed, TypeOK, Owned, Few, RegisterAgain, Turned, Calls, wvars
  <1>3. Mine' = Mine
    BY DEF Mine, Leases, RegisterAgain, wvars
  <1>4. ASSUME IsSession PROVE Tidy'
    BY <1>1, <1>3, <1>4 DEF IInv, Tidy, MainInCall, LoopInCall, InStep, Kept, MainHas, LoopHas,
        LoopHasNone, Turned, RegisterAgain, wvars
  <1> QED
    BY <1>2, <1>4 DEF IInv, RegisterAgain

LEMMA FallBackAgainKeeps == Typed /\ IInv /\ FallBackAgain => Typed' /\ IInv'
  <1> SUFFICES ASSUME Typed, IInv, FallBackAgain PROVE Typed' /\ IInv'
    OBVIOUS
  <1>1. Turned("loop", "routes", LegacyID, "sent")
    BY SendFit DEF FallBackAgain, Ops, MyIDs
  <1>2. Typed'
    BY <1>1 DEF Typed, TypeOK, Owned, Few, FallBackAgain, Turned, Calls, wvars
  <1>3. Mine' = Mine
    BY DEF Mine, Leases, FallBackAgain, wvars
  <1>4. ASSUME IsSession PROVE Tidy'
    BY <1>1, <1>3, <1>4 DEF IInv, Tidy, MainInCall, LoopInCall, InStep, Kept, MainHas, LoopHas,
        LoopHasNone, Turned, FallBackAgain, wvars
  <1> QED
    BY <1>2, <1>4 DEF IInv, FallBackAgain

LEMMA LateReleasedKeeps == Typed /\ IInv /\ LateReleased => Typed' /\ IInv'
  <1> SUFFICES ASSUME Typed, IInv, LateReleased PROVE Typed' /\ IInv'
    OBVIOUS
  <1>1. Turned("loop", "none", LegacyID, "none")
    BY DoneFit DEF LateReleased
  <1>2. Typed'
    BY <1>1 DEF Typed, TypeOK, Owned, Few, LateReleased, Turned, Calls, wvars
  <1>3. Mine' = Mine
    BY DEF Mine, Leases, LateReleased, wvars
  <1>4. ASSUME IsSession PROVE Tidy'
    BY <1>1, <1>3, <1>4 DEF IInv, Tidy, MainInCall, LoopInCall, InStep, Kept, MainHas, LoopHas,
        LoopHasNone, Turned, LateReleased, wvars
  <1> QED
    BY <1>2, <1>4 DEF IInv, LateReleased

LEMMA NotRenewedKeeps == Typed /\ IInv /\ NotRenewed => Typed' /\ IInv'
  <1> SUFFICES ASSUME Typed, IInv, NotRenewed PROVE Typed' /\ IInv'
    OBVIOUS
  <1>1. Turned("loop", "none", LegacyID, "none")
    BY DoneFit DEF NotRenewed
  <1>2. Typed'
    BY <1>1 DEF Typed, TypeOK, Owned, Few, NotRenewed, Turned, Calls, wvars
  <1>3. Mine' = Mine
    BY DEF Mine, Leases, NotRenewed, wvars
  <1>4. ASSUME IsSession PROVE Tidy'
    BY <1>1, <1>3, <1>4 DEF IInv, Tidy, MainInCall, LoopInCall, InStep, Kept, MainHas, LoopHas,
        LoopHasNone, Turned, NotRenewed, wvars, Renewing, Retries
  <1> QED
    BY <1>2, <1>4 DEF IInv, NotRenewed

LEMMA AdoptKeeps == Typed /\ IInv /\ Adopt => Typed' /\ IInv'
  <1> SUFFICES ASSUME Typed, IInv, Adopt PROVE Typed' /\ IInv'
    OBVIOUS
  <1>1. call["loop"].id \in MyIDs /\ Tidy
    BY DEF Typed, TypeOK, NoCall, MyIDs, IInv, Adopt
  <1>2. Mine' = Mine
    BY DEF Mine, Leases, Adopt, wvars
  <1>3. CASE ok
    <2>1. Turned("loop", "none", LegacyID, "none")
      BY <1>3, DoneFit DEF Adopt, Keeps
    <2>2. Typed'
      BY <1>1, <1>3, <2>1 DEF Typed, TypeOK, Owned, Few, Adopt, Keeps, Turned, Calls, MyIDs, wvars
    <2>3. Tidy'
      BY <1>1, <1>2, <1>3, <2>1, MineIs DEF Tidy, MainInCall, LoopInCall, InStep, Kept, MainHas,
          LoopHas, LoopHasNone, Turned, Adopt, Keeps, Renewing, wvars
    <2> QED
      BY <2>2, <2>3 DEF IInv
  <1>4. CASE ~ok
    <2>1. Turned("loop", "delete", call["loop"].id, "sent")
      BY <1>1, <1>4, SendFit DEF Adopt, Keeps, Ops
    <2>2. Typed'
      BY <1>1, <1>4, <2>1 DEF Typed, TypeOK, Owned, Few, Adopt, Keeps, Turned, Calls, wvars
    <2>3. Tidy'
      BY <1>1, <1>2, <1>4, <2>1, MineIs DEF Tidy, MainInCall, LoopInCall, InStep, Kept, MainHas,
          LoopHas, LoopHasNone, Turned, Adopt, Keeps, Renewing, wvars
    <2> QED
      BY <2>2, <2>3 DEF IInv
  <1> QED
    BY <1>3, <1>4

\* The loop of the other kinds of client.
LEMMA ContinueKeeps == Typed /\ IInv /\ Continue => Typed' /\ IInv'
  <1> SUFFICES ASSUME Typed, IInv, Continue PROVE Typed' /\ IInv'
    OBVIOUS
  <1>1. Turned("loop", "none", LegacyID, "none")
    BY DoneFit DEF Continue
  <1>2. call["loop"].id \in MyIDs
    BY DEF Typed, TypeOK, NoCall, MyIDs
  <1>3. Typed'
    BY <1>1, <1>2 DEF Typed, TypeOK, Owned, Few, Continue, Turned, Calls, MyIDs, wvars
  <1> QED
    BY <1>3 DEF IInv, Continue

\* A call that was given up joins the strays.
LEMMA AbandonedFit ==
    ASSUME Typed, NEW t \in Threads, Answer(t) # "none"
    PROVE  IsFiniteSet(Abandoned(t)) /\ Abandoned(t) \subseteq [op : Ops, id : IDs \cup {LegacyID}]
  <1>1. PICK s : s = [op |-> call[t].op, id |-> call[t].id]
    OBVIOUS
  <1>2. s \in [op : Ops, id : IDs \cup {LegacyID}]
    BY <1>1, InCall
  <1>3. Abandoned(t) = strays \cup {s}
    BY <1>1 DEF Abandoned
  <1>4. IsFiniteSet(strays \cup {s})
    BY FS_AddElement DEF Typed, Few
  <1> QED
    BY <1>2, <1>3, <1>4 DEF Typed, TypeOK

LEMMA ExitKeeps == Typed /\ IInv /\ Exit => Typed' /\ IInv'
  <1> SUFFICES ASSUME Typed, IInv, Exit PROVE Typed' /\ IInv'
    OBVIOUS
  <1>1. IsFiniteSet(strays') /\ strays' \subseteq [op : Ops, id : IDs \cup {LegacyID}]
    BY AbandonedFit DEF Exit, Typed, TypeOK, Few
  <1>2. Few(strays')
    BY <1>1 DEF Exit, Few
  <1>3. call' \in Calls
    BY DEF Exit, Calls
  <1>4. TypeOK'
    BY <1>1, <1>3 DEF Typed, TypeOK, Exit, Calls
  <1>5. Owned(claims)'
    BY DEF Typed, Owned, Exit
  <1>6. ~IsSession'
    BY DEF Exit
  <1> QED
    BY <1>2, <1>4, <1>5, <1>6 DEF Typed, IInv, Few

-----------------------------------------------------------------------------
(* Calls that fail                                                         *)

FailsFor(t) ==
    /\ \E s \in {"unavailable", "rejected"} : Turned(t, call[t].op, LegacyID, s)
    /\ leaky' = MayLeak(call[t].op)

\* A call that could leave a claim behind does not fail unnoticed; the others leave none.
LEMMA FailureKeeps ==
    ASSUME Typed, IInv, NEW t \in Threads, FailsFor(t), Answer(t) # "none", IsSession,
           ~leaky' => strays' \subseteq Abandoned(t),
           UNCHANGED <<daemon, claims, kind, main, loop, held, ok, cancelled, due, age, entry>>
    PROVE  Tidy'
  <1>1. PICK s \in {"unavailable", "rejected"} : Turned(t, call[t].op, LegacyID, s)
    BY DEF FailsFor
  <1>2. Mine' = Mine
    BY DEF Mine, Leases
  <1>3. Tidy /\ call[t].op \in Ops
    BY InCall DEF IInv
  <1>4. MainInCall' /\ LoopInCall' /\ InStep'
    BY <1>1, <1>2, <1>3 DEF Tidy, MainInCall, LoopInCall, InStep, Turned
  <1>5. ASSUME ~leaky' PROVE Kept'
    <2>1. ~leaky /\ call[t].op = "beat"
      BY <1>3, <1>5 DEF FailsFor, MayLeak, Ops
    <2>2. t = "loop" /\ loop = "beat"
      BY <1>3, <2>1 DEF Tidy, MainInCall, LoopInCall
    <2>3. \A x \in strays' : x.op = "beat"
      BY <1>3, <1>5, <2>1 DEF Tidy, Kept, Abandoned
    <2> QED
      BY <1>1, <1>2, <1>3, <2>1, <2>2, <2>3 DEF Tidy, Kept, MainHas, LoopHas, LoopHasNone, Turned
  <1> QED
    BY <1>4, <1>5 DEF Tidy

LEMMA RefusedKeeps ==
    ASSUME Typed, IInv, NEW t \in Threads, Refused(t)
    PROVE  Typed' /\ IInv'
  <1>1. Turned(t, call[t].op, LegacyID, "unavailable") /\ FailsFor(t) /\ Answer(t) # "none"
    BY FailsFit DEF Refused, FailsFor, Errors
  <1>2. Typed'
    BY <1>1 DEF Typed, TypeOK, Owned, Few, Refused, Turned, Calls, MayLeak, Ops, wvars
  <1>3. IsSession => Tidy'
    BY <1>1, FailureKeeps DEF Refused, wvars, Abandoned
  <1> QED
    BY <1>2, <1>3 DEF IInv, Refused

LEMMA LoseAnswerKeeps ==
    ASSUME Typed, IInv, NEW t \in Threads, LoseAnswer(t)
    PROVE  Typed' /\ IInv'
  <1>0. Answer(t) # "none"
    BY DEF LoseAnswer
  <1>1. PICK s \in {"unavailable", "rejected"} : Fails(t, s)
    BY DEF LoseAnswer
  <1>2. Turned(t, call[t].op, LegacyID, s) /\ FailsFor(t)
    BY <1>0, <1>1, FailsFit DEF LoseAnswer, FailsFor, Errors
  <1>3. Typed'
    BY <1>2 DEF Typed, TypeOK, Owned, Few, LoseAnswer, Turned, Calls, MayLeak, Ops
  <1>4. IsSession => Tidy'
    BY <1>0, <1>2, FailureKeeps DEF LoseAnswer, Abandoned
  <1> QED
    BY <1>3, <1>4 DEF IInv, LoseAnswer

LEMMA GiveUpKeeps ==
    ASSUME Typed, IInv, NEW t \in Threads, GiveUp(t)
    PROVE  Typed' /\ IInv'
  <1>0. Answer(t) # "none"
    BY DEF GiveUp
  <1>1. Turned(t, call[t].op, LegacyID, "unavailable") /\ FailsFor(t)
    BY <1>0, FailsFit DEF GiveUp, FailsFor, Errors
  <1>2. IsFiniteSet(strays') /\ strays' \subseteq [op : Ops, id : IDs \cup {LegacyID}]
    BY <1>0, AbandonedFit DEF GiveUp, Typed, TypeOK, Few
  <1>3. Typed'
    BY <1>1, <1>2 DEF Typed, TypeOK, Owned, Few, GiveUp, Turned, Calls, MayLeak, Ops
  <1>4. IsSession => Tidy'
    BY <1>0, <1>1, FailureKeeps DEF GiveUp, Abandoned
  <1> QED
    BY <1>3, <1>4 DEF IInv, GiveUp

-----------------------------------------------------------------------------
(* The daemon                                                              *)

\* The daemon, or time, has taken something away and added nothing.
LEMMA LessKeeps ==
    ASSUME Tidy, Mine' \subseteq Mine, strays' \subseteq strays,
           daemon' = "down" => claims' = {}, daemon' = "old" => Mine' = {},
           \A t \in Threads : /\ call'[t].op = call[t].op /\ call'[t].id = call[t].id
                              /\ call'[t].status = call[t].status,
           UNCHANGED <<main, loop, held, ok, leaky>>
    PROVE  Tidy'
  <1>1. MainInCall' /\ LoopInCall' /\ InStep'
    BY DEF Tidy, MainInCall, LoopInCall, InStep
  <1>2. MainHas' = MainHas /\ LoopHas' = LoopHas /\ LoopHasNone' = LoopHasNone
    BY DEF MainHas, LoopHas, LoopHasNone
  <1>3. ASSUME ~leaky' PROVE Kept'
    BY <1>2, <1>3 DEF Tidy, Kept
  <1> QED
    BY <1>1, <1>3 DEF Tidy

LEMMA FewerStrays ==
    ASSUME NEW ss, NEW s, Few(ss)
    PROVE  Few(ss \ {s})
  <1>1. IsFiniteSet(ss \ {s}) /\ Cardinality(ss \ {s}) <= Cardinality(ss)
    BY FS_Subset DEF Few
  <1>2. Cardinality(ss) \in Nat /\ Cardinality(ss \ {s}) \in Nat
    BY <1>1, FS_CardinalityType DEF Few
  <1> QED
    BY <1>1, <1>2 DEF Few

LEMMA StrayKeeps ==
    ASSUME Typed, IInv, NEW s \in strays, ServeStray(s)
    PROVE  Typed' /\ IInv'
  <1>1. s.op \in Ops /\ s.id \in MyIDs
    BY DEF Typed, TypeOK, MyIDs
  <1>2. PICK d : d = Handled(s.op, s.id)
    OBVIOUS
  <1>3. Fit(d) /\ (Lawful => Dealt(d, s.op, s.id)) /\ claims' = d.claims
    BY <1>1, <1>2, HandledFit DEF ServeStray
  <1>4. Few(strays')
    BY FewerStrays DEF ServeStray, Typed
  <1>5. Typed'
    BY <1>3, <1>4 DEF Typed, TypeOK, Owned, Few, Fit, Claim, ServeStray, cvars
  <1>6. ASSUME IsSession PROVE Tidy'
    <2>1. Tidy /\ Lawful
      BY <1>6 DEF IInv, Tidy, InStep, Lawful
    <2>2. Mine' = Leases(d.claims)
      BY <1>3 DEF Mine, Leases
    <2>3. CASE leaky
      <3>1. MainInCall' /\ LoopInCall' /\ InStep'
        BY <1>3, <2>1, <2>2 DEF Tidy, MainInCall, LoopInCall, InStep, ServeStray, cvars, Dealt
      <3> QED
        BY <2>3, <3>1 DEF Tidy, ServeStray, cvars
    <2>4. CASE ~leaky
      <3>1. s.op = "beat"
        BY <2>1, <2>4 DEF Tidy, Kept
      <3>2. Mine' = Mine /\ strays' \subseteq strays
        BY <1>3, <2>1, <2>2, <3>1 DEF Dealt, ServeStray
      <3> QED
        BY <2>1, <3>2, LessKeeps DEF ServeStray, cvars, Lawful
    <2> QED
      BY <2>3, <2>4
  <1> QED
    BY <1>5, <1>6 DEF IInv, ServeStray, cvars

LEMMA DropKeeps ==
    ASSUME Typed, IInv, NEW s \in strays, DropStray(s)
    PROVE  Typed' /\ IInv'
  <1>1. Few(strays')
    BY FewerStrays DEF DropStray, Typed
  <1>2. Typed'
    BY <1>1 DEF Typed, TypeOK, Owned, Few, DropStray, cvars
  <1>3. Mine' = Mine /\ strays' \subseteq strays
    BY DEF Mine, Leases, DropStray
  <1>4. ASSUME IsSession PROVE Tidy'
    <2>1. Tidy
      BY <1>4 DEF IInv
    <2> QED
      BY <1>3, <2>1, LessKeeps DEF DropStray, cvars, Tidy, InStep
  <1> QED
    BY <1>2, <1>4 DEF IInv, DropStray, cvars

LEMMA SweepKeeps == Typed /\ IInv /\ Sweep => Typed' /\ IInv'
  <1> SUFFICES ASSUME Typed, IInv, Sweep PROVE Typed' /\ IInv'
    OBVIOUS
  <1>1. claims' \subseteq claims
    BY DEF Sweep
  <1>2. Typed'
    BY <1>1 DEF Typed, TypeOK, Owned, Few, Sweep, cvars
  <1>3. Mine' \subseteq Mine
    BY <1>1 DEF Mine, Leases
  <1>4. ASSUME IsSession PROVE Tidy'
    <2>1. Tidy
      BY <1>4 DEF IInv
    <2> QED
      BY <1>1, <1>3, <2>1, LessKeeps DEF Sweep, cvars, Tidy, InStep
  <1> QED
    BY <1>2, <1>4 DEF IInv, Sweep, cvars

LEMMA StopDaemonKeeps == Typed /\ IInv /\ StopDaemon => Typed' /\ IInv'
  <1> SUFFICES ASSUME Typed, IInv, StopDaemon PROVE Typed' /\ IInv'
    OBVIOUS
  <1>1. Few({})
    BY FS_EmptySet DEF Few
  <1>2. Typed'
    BY <1>1 DEF Typed, TypeOK, Owned, Few, StopDaemon, cvars
  <1>3. Mine' = {}
    BY DEF Mine, Leases, StopDaemon
  <1>4. ASSUME IsSession PROVE Tidy'
    BY <1>3, <1>4, LessKeeps DEF IInv, StopDaemon, cvars
  <1> QED
    BY <1>2, <1>4 DEF IInv, StopDaemon, cvars

LEMMA StartDaemonKeeps == Typed /\ IInv /\ StartDaemon => Typed' /\ IInv'
  <1> SUFFICES ASSUME Typed, IInv, StartDaemon PROVE Typed' /\ IInv'
    OBVIOUS
  <1>1. Typed'
    BY DEF Typed, TypeOK, Owned, Few, StartDaemon, cvars
  <1>2. ASSUME IsSession PROVE Tidy'
    <2>1. Tidy /\ claims = {}
      BY <1>2 DEF IInv, Tidy, InStep, StartDaemon
    <2>2. Mine = {} /\ Mine' = {}
      BY <2>1 DEF Mine, Leases, StartDaemon
    <2> QED
      BY <2>1, <2>2, LessKeeps DEF StartDaemon, cvars
  <1> QED
    BY <1>1, <1>2 DEF IInv, StartDaemon, cvars

\* Others get claims of their own; this client's leases are as they were.
LEMMA OthersFit ==
    ASSUME Typed, OtherAsks
    PROVE  claims' \in SUBSET Claim /\ Owned(claims') /\ Mine' \subseteq Mine
  <1>0. claims \in SUBSET Claim /\ Owned(claims) /\ OtherPorts \subseteq Ports
    BY DEF Typed, TypeOK, Claim, Ports
  <1>1. ASSUME claims' \subseteq claims
        PROVE  claims' \in SUBSET Claim /\ Owned(claims') /\ Mine' \subseteq Mine
    BY <1>0, <1>1 DEF Owned, Mine, Leases
  <1>2. ASSUME NEW p \in OtherPorts, claims' = RegisterLegacy("other", p).claims
        PROVE  claims' \in SUBSET Claim /\ Owned(claims') /\ Mine' \subseteq Mine
    <2>1. PICK d : d = RegisterLegacy("other", p)
      OBVIOUS
    <2>2. Fit(d) /\ Leases(d.claims) = Mine
      BY <1>0, <2>1, RegisterFit
    <2>3. Mine' = Leases(d.claims)
      BY <1>2, <2>1 DEF Mine, Leases
    <2> QED
      BY <1>2, <2>1, <2>2, <2>3 DEF Fit
  <1>3. ASSUME NEW p \in OtherPorts, LeaseOf("other") = {}, claims' = CreateLease("other", p).claims
        PROVE  claims' \in SUBSET Claim /\ Owned(claims') /\ Mine' \subseteq Mine
    <2>1. PICK d : d = Create(claims, "other", p, OtherID)
      OBVIOUS
    <2>2. claims' = d.claims
      BY <1>3, <2>1 DEF CreateLease, FreshID
    <2>3. claims \in SUBSET claims /\ OtherID \in {LegacyID, OtherID}
      OBVIOUS
    <2>4. Made(d, claims, "other", p, OtherID)
      BY <1>0, <2>1, <2>3, CreateFit
    <2>5. \A k \in d.claims : k \in claims \/ k.by = "other"
      BY <2>4 DEF Made
    <2>6. Leases(d.claims) \subseteq Mine
      BY <2>5 DEF Leases, Mine
    <2>7. Mine' = Leases(d.claims)
      BY <2>2 DEF Mine, Leases
    <2> QED
      BY <2>2, <2>4, <2>6, <2>7 DEF Made
  <1>4. DeleteLegacy.claims \subseteq claims
    BY DEF DeleteLegacy, Missing, Delete
  <1> QED
    BY <1>1, <1>2, <1>3, <1>4 DEF OtherAsks

LEMMA OtherAsksKeeps == Typed /\ IInv /\ OtherAsks => Typed' /\ IInv'
  <1> SUFFICES ASSUME Typed, IInv, OtherAsks PROVE Typed' /\ IInv'
    OBVIOUS
  <1>1. claims' \in SUBSET Claim /\ Owned(claims') /\ Mine' \subseteq Mine
    BY OthersFit
  <1>2. UNCHANGED <<daemon, strays, faults, call, cvars>> /\ daemon # "down"
    BY DEF OtherAsks
  <1>3. Typed'
    BY <1>1, <1>2 DEF Typed, TypeOK, Owned, Few, Claim, cvars
  <1>4. ASSUME IsSession PROVE Tidy'
    <2>1. Tidy
      BY <1>4 DEF IInv
    <2> QED
      BY <1>1, <1>2, <2>1, LessKeeps DEF cvars, Tidy, InStep
  <1> QED
    BY <1>2, <1>3, <1>4 DEF IInv, cvars

LEMMA ServeKeeps ==
    ASSUME Typed, IInv, NEW t \in Threads, Serve(t)
    PROVE  Typed' /\ IInv'
  <1>1. call[t] \in [op : Ops, id : IDs \cup {LegacyID}, status : Statuses, age : 0..Timeout]
    BY InCall DEF Serve
  <1>2. PICK d : d = Handled(call[t].op, call[t].id)
    OBVIOUS
  <1>3. Fit(d) /\ (Lawful => Dealt(d, call[t].op, call[t].id))
    BY <1>1, <1>2, HandledFit DEF Serve, MyIDs
  <1>4. claims' = d.claims /\ daemon' = daemon /\ daemon # "down"
        /\ UNCHANGED <<strays, faults, cvars>>
    BY <1>2 DEF Serve
  <1>5. Turned(t, call[t].op, d.id, d.status)
    <2>0. PICK c : c = [call[t] EXCEPT !.status = d.status, !.id = d.id, !.age = 0]
      OBVIOUS
    <2>1. c = [op |-> call[t].op, id |-> d.id, status |-> d.status, age |-> 0]
      BY <1>1, <2>0
    <2>2. call' = [call EXCEPT ![t] = c] /\ call \in Calls
      BY <1>2, <2>0 DEF Serve, Typed, TypeOK, Calls
    <2>3. c \in [op : Ops, id : IDs \cup {LegacyID}, status : Statuses, age : 0..Timeout]
      BY <1>1, <1>3, <2>1 DEF Fit, MyIDs, Statuses, Errors
    <2>4. call' \in Calls
      BY <2>2, <2>3 DEF Calls
    <2> QED
      BY <2>1, <2>2, <2>4 DEF Turned, Calls
  <1>6. Typed'
    BY <1>3, <1>4, <1>5 DEF Typed, TypeOK, Owned, Few, Fit, Claim, Turned, Calls, cvars
  <1>7. ASSUME IsSession PROVE Tidy'
    <2>1. Tidy /\ Lawful /\ Answer(t) = "sent"
      BY <1>7 DEF IInv, Tidy, InStep, Lawful, Serve
    <2>2. Mine' = Leases(d.claims) /\ LegacyID \notin Mine
      BY <1>4, MineIs DEF Mine, Leases
    <2>3. MainInCall' /\ LoopInCall' /\ InStep'
      <3>1. MainInCall' /\ LoopInCall'
        BY <1>1, <1>3, <1>4, <1>5, <2>1 DEF Tidy, MainInCall, LoopInCall, InStep, Turned, Dealt,
            Fit, Ops, cvars
      <3>2. InStep'
        BY <1>3, <1>4, <2>1, <2>2 DEF Tidy, InStep, Dealt, cvars
      <3> QED
        BY <3>1, <3>2
    <2>4. ASSUME ~leaky PROVE Kept'
      <3>1. CASE t = "main"
        BY <1>3, <1>4, <1>5, <2>1, <2>2, <2>4, <3>1 DEF Tidy, MainInCall, LoopInCall, InStep, Kept,
            MainHas, LoopHas, LoopHasNone, Turned, Dealt, Fit, cvars
      <3>2. CASE t = "loop"
        BY <1>3, <1>4, <1>5, <2>1, <2>2, <2>4, <3>2 DEF Tidy, MainInCall, LoopInCall, InStep, Kept,
            MainHas, LoopHas, LoopHasNone, Turned, Dealt, Fit, cvars
      <3> QED
        BY <3>1, <3>2
    <2> QED
      BY <1>4, <2>3, <2>4 DEF Tidy, cvars
  <1> QED
    BY <1>4, <1>6, <1>7 DEF IInv, cvars

-----------------------------------------------------------------------------
(* Time                                                                    *)

Aged(k) == [k EXCEPT !.left = IF k.by = "other" \/ @ = 0 THEN @ ELSE @ - 1]

LEMMA TickKeeps == Typed /\ IInv /\ Tick => Typed' /\ IInv'
  <1> SUFFICES ASSUME Typed, IInv, Tick PROVE Typed' /\ IInv'
    OBVIOUS
  <1>1. claims \in SUBSET Claim /\ Owned(claims) /\ call \in Calls
    BY DEF Typed, TypeOK, Claim, Calls
  <1>2. \A k \in Claim : Aged(k) \in Claim /\ Aged(k).id = k.id /\ Aged(k).by = k.by
    BY DEF Claim, Aged
  <1>3. claims' = {Aged(k) : k \in claims}
    BY DEF Tick, Aged
  <1>4. claims' \in SUBSET Claim /\ Owned(claims')
    BY <1>1, <1>2, <1>3 DEF Owned
  <1>5. Mine' \subseteq Mine
    BY <1>1, <1>2, <1>3 DEF Mine, Leases
  <1>6. ASSUME NEW t \in Threads
        PROVE  /\ call'[t] \in {NoCall} \cup
                      [op : Ops, id : IDs \cup {LegacyID}, status : Statuses, age : 0..Timeout]
               /\ call'[t].op = call[t].op /\ call'[t].id = call[t].id
               /\ call'[t].status = call[t].status
    <2>1. CASE Answer(t) # "sent"
      BY <1>1, <2>1 DEF Tick, Calls
    <2>2. CASE Answer(t) = "sent"
      <3>1. call[t] \in [op : Ops, id : IDs \cup {LegacyID}, status : Statuses, age : 0..Timeout]
            /\ call[t].age < Timeout
        BY <2>2, InCall DEF Tick, Quiet
      <3>2. call'[t] = [call[t] EXCEPT !.age = @ + 1]
        BY <2>2 DEF Tick
      <3>3. PICK a : a = call[t].age + 1
        OBVIOUS
      <3>4. a \in 0..Timeout
        BY <3>1, <3>3
      <3>5. call'[t] = [call[t] EXCEPT !.age = a]
        BY <3>2, <3>3
      <3> QED
        BY <3>1, <3>4, <3>5
    <2> QED
      BY <2>1, <2>2
  <1>7. call' \in Calls
    <2>1. call' = [t \in Threads |->
                     IF Answer(t) = "sent" THEN [call[t] EXCEPT !.age = @ + 1] ELSE call[t]]
      BY DEF Tick
    <2> QED
      BY <1>6, <2>1 DEF Calls
  <1>8. age' \in 0..TTL /\ due' \in BOOLEAN
    BY DEF Tick, Ticking, Typed, TypeOK
  <1>9. Typed'
    BY <1>4, <1>7, <1>8 DEF Typed, TypeOK, Owned, Few, Claim, Calls, Tick
  <1>10. ASSUME IsSession PROVE Tidy'
    <2>1. Tidy
      BY <1>10 DEF IInv
    <2>2. claims = {} => claims' = {}
      BY <1>3
    <2> QED
      BY <1>5, <1>6, <2>1, <2>2, LessKeeps DEF Tick, Tidy, InStep
  <1> QED
    BY <1>9, <1>10 DEF IInv, Tick

-----------------------------------------------------------------------------
(* A session that has stopped has no lease                                 *)

LEMMA InitHolds == Init => Typed /\ IInv
  <1> SUFFICES ASSUME Init PROVE Typed /\ IInv
    OBVIOUS
  <1>1. Typed
    <2>1. Few({})
      BY FS_EmptySet DEF Few
    <2>2. call \in Calls
      BY DEF Init, Calls
    <2>3. TypeOK
      <3>1. 0 \in 0..TTL /\ 0 \in 0..MaxFaults /\ daemon \in {"new", "old", "down"}
        BY DEF Init
      <3> QED
        BY <2>2, <3>1 DEF Init, TypeOK, Calls, MyIDs
    <2> QED
      BY <2>1, <2>3 DEF Init, Typed, Owned, Few
  <1>2. Mine = {}
    BY DEF Init, Mine, Leases
  <1>3. Tidy
    BY <1>2 DEF Init, Tidy, MainInCall, LoopInCall, InStep, Kept, MainHas, LoopHas, LoopHasNone,
        NoCall
  <1> QED
    BY <1>1, <1>3 DEF IInv

LEMMA StepKeeps == Typed /\ IInv /\ [Next]_vars => Typed' /\ IInv'
  <1> SUFFICES ASSUME Typed, IInv, [Next]_vars PROVE Typed' /\ IInv'
    OBVIOUS
  <1>1. ASSUME MainStep \/ Begin \/ Cancel PROVE Typed' /\ IInv'
    BY <1>1, BeginKeeps, FallBackKeeps, RegisteredKeeps, NotRegisteredKeeps, CancelKeeps,
        ReleaseKeeps, ReleasedKeeps, ExitKeeps DEF MainStep
  <1>2. ASSUME LoopStep PROVE Typed' /\ IInv'
    BY <1>2, LoopEndsKeeps, HeartbeatKeeps, RegisterAgainKeeps, FallBackAgainKeeps, AdoptKeeps,
        LateReleasedKeeps, ReportRenewedKeeps, NotRenewedKeeps, ReportUnrenewedKeeps, FailKeeps,
        ContinueKeeps DEF LoopStep
  <1>3. ASSUME NEW t \in Threads, CallStep(t) \/ LoseAnswer(t) PROVE Typed' /\ IInv'
    BY <1>3, ServeKeeps, RefusedKeeps, GiveUpKeeps, LoseAnswerKeeps DEF CallStep
  <1>4. ASSUME StrayStep PROVE Typed' /\ IInv'
    BY <1>4, StrayKeeps, DropKeeps DEF StrayStep
  <1>5. ASSUME Sweep \/ OtherAsks \/ StopDaemon \/ StartDaemon \/ Tick PROVE Typed' /\ IInv'
    BY <1>5, SweepKeeps, OtherAsksKeeps, StopDaemonKeeps, StartDaemonKeeps, TickKeeps
  <1>6. CASE UNCHANGED vars
    <2>1. Typed'
      BY <1>6 DEF Typed, TypeOK, Owned, Few, vars
    <2>2. IInv'
      BY <1>6 DEF IInv, Tidy, MainInCall, LoopInCall, InStep, Kept, MainHas, LoopHas, LoopHasNone,
          Mine, Leases, vars
    <2> QED
      BY <2>1, <2>2
  <1> QED
    BY <1>1, <1>2, <1>3, <1>4, <1>5, <1>6 DEF Next

(* Types; whose leases there are; and which thread still accounts for a    *)
(* session's lease.                                                        *)
THEOREM ClientInvariant == Spec => [](Typed /\ IInv)
  <1>1. Init => Typed /\ IInv
    BY InitHolds
  <1>2. Typed /\ IInv /\ [Next]_vars => Typed' /\ IInv'
    BY StepKeeps
  <1> QED
    BY <1>1, <1>2, PTL DEF Spec

(* A session that has released its route has left no lease at the daemon,  *)
(* unless a call that could leave one was lost or given up                 *)
(* (LeaseManager.Stop and heartbeat).                                      *)
THEOREM StoppedSessionsHoldNothing == Spec => []StopLeavesNothing
  <1>1. Typed /\ IInv => StopLeavesNothing
    <2> SUFFICES ASSUME IInv, IsSession, Stopped, ~leaky PROVE LeaseOf("me") = {}
      BY DEF StopLeavesNothing
    <2>1. Mine \subseteq MainHas \cup LoopHas
      BY DEF IInv, Tidy, Kept
    <2>2. MainHas = {} /\ LoopHas = {}
      BY DEF Stopped, MainHas, LoopHas
    <2> QED
      BY <2>1, <2>2, MineIs
  <1> QED
    BY <1>1, ClientInvariant, PTL

(* The variables of the client and of its daemon keep their types.         *)
THEOREM TypeCorrect == Spec => []TypeOK
  <1>1. Typed /\ IInv => TypeOK
    BY DEF Typed
  <1> QED
    BY <1>1, ClientInvariant, PTL

=============================================================================
