------------------------ MODULE DaemonLifecycle_proofs ------------------------
(***************************************************************************)
(* Proofs about DaemonLifecycle, for any background goroutines and bounds: *)
(* a daemon that was shut down leaves no route behind, and the web UI's    *)
(* route always leads to its server.                                       *)
(*                                                                         *)
(* The first rests on the order of the shutdown: who could still publish   *)
(* has been stopped, one after the other, when the empty document is       *)
(* written.  The second on the two mutexes: the web UI's manager waits for *)
(* its publication before it takes the server away, and a snapshot that    *)
(* was taken before the change has been written before it.  Clients may    *)
(* take the route away in between, which only helps; a removal that others *)
(* in conflict have refused leaves it without a server, and is remembered. *)
(***************************************************************************)
EXTENDS DaemonLifecycle, TLAPS

-----------------------------------------------------------------------------
(* Types, in parts                                                         *)

Steps == {"none", "waiting", "checked", "stored", "writing", "done", "refused"}
Ops == {"none", "register", "release", "drop", "delete", "ui", "scan", "renew"}
AChange == [step : Steps, op : Ops, claims : SUBSET Routes, lease : Leases,
            manual : SUBSET Routes, snapshot : SUBSET Routes]
Calls == [Threads -> AChange]
Stored == /\ claims \subseteq Routes /\ manual \subseteq Routes
          /\ discovered \subseteq {"found"} /\ document \subseteq Routes
          /\ lease \in Leases /\ taken \in BOOLEAN
TypedUI == /\ {settings, saved} \subseteq [enabled : BOOLEAN, host : Hosts]
           /\ server \in {"none", "up"} /\ failure \in {"none", "listen", "route"}
           /\ retry \in {"off", "idle", "waiting", "applying", "ended"}
           /\ closing \in BOOLEAN /\ stopped \in BOOLEAN /\ kept \in BOOLEAN
           /\ failed \in BOOLEAN
Counted == events \in 0..MaxEvents
Typed == /\ stage \in Stages /\ call \in Calls /\ Stored /\ TypedUI /\ Counted
         /\ lock \in Threads \cup {Free} /\ publishMu \in Threads \cup {Free}
         /\ mu \in UICallers \cup {Free} /\ late \in BOOLEAN

-----------------------------------------------------------------------------
(* Shutdown, stage by stage                                                *)

PastSocket == {"clear", "empty", "http"}
PastRetry == {"socket"} \cup PastSocket
PastScan == {"webui", "retry"} \cup PastRetry
PastRenew == {"scan"} \cup PastScan
PastSweep == {"renew"} \cup PastRenew
Past(w) == CASE w = "sweep" -> PastSweep [] w = "renew" -> PastRenew [] w = "scan" -> PastScan

(* A process that does not run has nothing in memory.                      *)
Gone ==
    /\ \A t \in Threads : call[t].step = "none"
    /\ publishMu = Free /\ mu = Free /\ retry = "off"
    /\ claims = {} /\ lease = "permanent" /\ manual = {} /\ discovered = {}
    /\ server = "none"

(* Nobody who has been stopped has a change under way.                     *)
Silenced ==
    /\ stage = "off" => Gone
    /\ call["main"].step # "none" \/ mu = "main" => stage = "applying"
    /\ \A w \in Workers : stage \in Past(w) => Idle(w)
    /\ stage \in PastRetry => retry = "ended"
    /\ retry # "applying" => Idle("retry")
    /\ stage \in PastSocket => Idle("socket")
    /\ stage \in {"empty", "http"} /\ ~late => Idle("http")
    /\ stage = "http" /\ ~late /\ ~failed => document = {}

-----------------------------------------------------------------------------
(* The web UI's route and its server                                       *)

(* Who makes which change, and under which mutex.                          *)
Ordered(t) ==
    /\ Idle(t) => call[t].op = "none"
    /\ call[t].op = "ui" => t \in UICallers
    /\ t \in UICallers => call[t].op \in {"none", "ui"}
    /\ t \in UICallers /\ call[t].step \in {"waiting", "checked", "stored", "writing"}
            => call[t].op = "ui"
    /\ t \in UICallers /\ ~Idle(t) => mu = t
    /\ call[t].step = "writing" => publishMu = t
    /\ call[t].step = "checked" => lock = t
    /\ call[t].step \in {"stored", "writing"} /\ Locking(call[t].op) => lock = t
Orderly == \A t \in Threads : Ordered(t)

Live == stage \in {"applying", "listening", "running"}
NoUI(routes) == routes \cap UIRoutes = {}

(* The route is neither claimed, nor written, nor about to be written.     *)
Clean ==
    /\ NoUI(claims) /\ NoUI(document)
    /\ \A t \in Threads : call[t].step = "writing" => NoUI(call[t].snapshot)

(* What the check has decided on.                                          *)
Decided(t) ==
    /\ call[t].manual \cap UIRoutes \subseteq call[t].claims
    /\ call[t].op = "ui" => (NoUI(call[t].claims) <=> ~Wanted)
    /\ call[t].op = "delete" => NoUI(call[t].claims)
    /\ ~OnUI(call[t].op) => (NoUI(call[t].claims) <=> NoUI(claims))

Removal(t) ==
    /\ call[t].step \in {"stored", "writing"} => NoUI(claims)
    /\ call[t].step = "writing" => NoUI(call[t].snapshot)
    /\ call[t].op = "ui" /\ call[t].step = "done" => Clean

Addition(t) ==
    /\ server = "up"
    /\ call[t].step \in {"stored", "writing"} => ~NoUI(claims)

Guided(t) ==
    OnUI(call[t].op) => IF call[t].op = "ui" /\ Wanted THEN Addition(t) ELSE Removal(t)

(* In the middle of a change of the web UI's claim.                        *)
Turning(t) == OnUI(call[t].op) /\ call[t].step \in {"stored", "writing"}

Guarded ==
    /\ manual \cap UIRoutes \subseteq claims
    /\ server = "none" => Clean \/ kept
    /\ \A t \in Threads : call[t].step = "checked" => Decided(t)
    /\ \A t \in Threads : Guided(t)
    /\ NoUI(claims) /\ (\A t \in Threads : ~Turning(t)) => Clean

IInv == Silenced /\ Orderly /\ (Live /\ ~failed => Guarded)

-----------------------------------------------------------------------------
(* The order of the shutdown                                               *)

LEMMA Threads3 ==
    /\ UICallers \subseteq Threads /\ "http" \in Threads /\ Workers \subseteq Threads
    /\ "http" \notin UICallers /\ Workers \cap UICallers = {} /\ "http" \notin Workers
    /\ Free \notin Threads /\ Free \notin UICallers
    /\ \A t \in Threads : t \in {"main", "retry", "socket", "http"} \/ t \in Workers
  BY DaemonAssumption DEF Threads, UICallers, Free

LEMMA Counting == Counted /\ Happens => Counted'
  BY DaemonAssumption DEF Counted, Happens

LEMMA OrderIs ==
    /\ Len(StopOrder) = 9
    /\ StopOrder[1] = "sweep" /\ StopOrder[2] = "renew" /\ StopOrder[3] = "scan"
    /\ StopOrder[4] = "webui" /\ StopOrder[5] = "retry" /\ StopOrder[6] = "socket"
    /\ StopOrder[7] = "clear" /\ StopOrder[8] = "empty" /\ StopOrder[9] = "http"
  BY DEF StopOrder

LEMMA PositionIs == \A i \in 1..9 : Position(StopOrder[i]) = i
  <1>1. \A i, j \in 1..9 : StopOrder[i] = StopOrder[j] => i = j
    BY OrderIs
  <1>2. 1..Len(StopOrder) = 1..9
    BY OrderIs
  <1> QED
    BY <1>1, <1>2 DEF Position

LEMMA StoppingIs == Stopping = {"sweep", "renew", "scan"} \cup {"webui", "retry"} \cup PastRetry
  <1>1. Stopping = {StopOrder[i] : i \in 1..9}
    BY OrderIs DEF Stopping
  <1> QED
    BY <1>1, OrderIs DEF PastRetry, PastSocket

LEMMA AfterIs ==
    /\ After("sweep") = "renew" /\ After("renew") = "scan" /\ After("scan") = "webui"
    /\ After("webui") = "retry" /\ After("retry") = "socket" /\ After("socket") = "clear"
    /\ After("clear") = "empty" /\ After("empty") = "http"
  BY PositionIs, OrderIs DEF After

\* Shutdown has passed a goroutine once it is at a later stage.
LEMMA PassedIs ==
    /\ stage \in PastSweep => Passed("sweep")
    /\ stage \in PastRenew => Passed("renew")
    /\ stage \in PastScan => Passed("scan")
    /\ stage \in PastSocket => Passed("socket")
  <1>1. /\ Position("sweep") = 1 /\ Position("renew") = 2 /\ Position("scan") = 3
        /\ Position("webui") = 4 /\ Position("retry") = 5 /\ Position("socket") = 6
        /\ Position("clear") = 7 /\ Position("empty") = 8 /\ Position("http") = 9
    BY PositionIs, OrderIs
  <1> QED
    BY <1>1, StoppingIs DEF Passed, PastSweep, PastRenew, PastScan, PastRetry, PastSocket

LEMMA StagesAre ==
    Stages = {"off", "running", "applying", "listening", "sweep", "renew", "scan", "webui",
              "retry", "socket", "clear", "empty", "http"}
  BY StoppingIs DEF Stages, Starting, PastRetry, PastSocket

\* At the end nobody is left who could publish.
LEMMA AllQuiet ==
    ASSUME Silenced, (stage = "http" /\ ~late) \/ stage = "off", NEW t \in Threads
    PROVE  Idle(t)
  <1>1. CASE stage = "off"
    BY <1>1 DEF Silenced, Gone, Idle
  <1>2. CASE stage = "http" /\ ~late
    <2>1. Workers \subseteq {"sweep", "renew", "scan"}
      BY DaemonAssumption
    <2> QED
      BY <1>2, <2>1, Threads3 DEF Silenced, Idle, Past, PastSweep, PastRenew, PastScan, PastRetry,
          PastSocket
  <1> QED
    BY <1>1, <1>2

-----------------------------------------------------------------------------
(* A change of a thread's call                                             *)

Turned(t, c) == /\ call' \in Calls /\ call'[t] = c
                /\ \A u \in Threads : u # t => call'[u] = call[u]

LEMMA TurnFit ==
    ASSUME call \in Calls, NEW t \in Threads, NEW c \in AChange, call' = [call EXCEPT ![t] = c]
    PROVE  Turned(t, c)
  BY DEF Turned, Calls

LEMMA NoCallFit ==
    /\ NoCall \in AChange /\ NoCall.step = "none" /\ NoCall.op = "none"
    /\ \A s, o : LET c == [NoCall EXCEPT !.step = s, !.op = o] IN
         /\ c.step = s /\ c.op = o /\ c.snapshot = {}
         /\ s \in Steps /\ o \in Ops => c \in AChange
  BY DEF NoCall, AChange, Steps, Ops, Leases

LEMMA BeginFit ==
    ASSUME call \in Calls, NEW t \in Threads, NEW op \in Ops, Begin(t, op)
    PROVE  \E c \in AChange : Turned(t, c) /\ c.step = "waiting" /\ c.op = op
  <1>1. PICK c : c = [NoCall EXCEPT !.step = "waiting", !.op = op]
    OBVIOUS
  <1>2. c \in AChange /\ c.step = "waiting" /\ c.op = op
    BY <1>1, NoCallFit DEF Steps
  <1> QED
    BY <1>1, <1>2, TurnFit DEF Begin

LEMMA ResultFit ==
    ASSUME call \in Calls, NEW t \in Threads, NEW s \in {"done", "refused"}, Result(t, s)
    PROVE  \E c \in AChange : Turned(t, c) /\ c.step \in {"none", "done", "refused"}
                               /\ IF t \in UICallers THEN c.step = s /\ c.op = "ui" ELSE c = NoCall
  <1>1. PICK c : c = IF t \in UICallers THEN [NoCall EXCEPT !.step = s, !.op = "ui"] ELSE NoCall
    OBVIOUS
  <1>2. c \in AChange /\ IF t \in UICallers THEN c.step = s /\ c.op = "ui" ELSE c = NoCall
    BY <1>1, NoCallFit DEF Steps, Ops
  <1>3. c.step \in {"none", "done", "refused"}
    BY <1>2, NoCallFit
  <1>4. call' = [call EXCEPT ![t] = c]
    BY <1>1 DEF Result
  <1>5. Turned(t, c)
    BY <1>2, <1>4, TurnFit
  <1> QED
    BY <1>2, <1>3, <1>5

-----------------------------------------------------------------------------
(* Publications                                                            *)

\* A thread in the middle of a change goes on.
LEMMA GoesOnSilenced ==
    ASSUME Silenced, NEW t \in Threads, ~Idle(t), NEW c, Turned(t, c),
           UNCHANGED <<stage, mu, retry, late>>, failed => failed'
    PROVE  Silenced'
  <1>1. stage # "off" /\ ~(stage = "http" /\ ~late)
    BY AllQuiet
  <1>2. \A u \in Threads : Idle(u) => Idle(u)'
    BY DEF Idle, Turned
  <1>3. "main" \in Threads /\ "retry" \in Threads /\ "socket" \in Threads /\ "http" \in Threads
    BY DEF Threads, UICallers
  <1>4. call'["main"].step # "none" \/ mu' = "main" => stage' = "applying"
    BY <1>2, <1>3 DEF Silenced, Idle
  <1>5. \A w \in Workers : stage' \in Past(w) => Idle(w)'
    BY <1>2, Threads3 DEF Silenced
  <1>6. /\ stage' \in PastRetry => retry' = "ended"
        /\ retry' # "applying" => Idle("retry")'
        /\ stage' \in PastSocket => Idle("socket")'
        /\ stage' \in {"empty", "http"} /\ ~late' => Idle("http")'
    BY <1>2, <1>3 DEF Silenced
  <1> QED
    BY <1>1, <1>4, <1>5, <1>6 DEF Silenced

LEMMA GoesOnOrderly ==
    ASSUME Orderly, NEW t \in Threads, ~Idle(t), NEW c, Turned(t, c), mu' = mu,
           \A u \in Threads : u # t /\ call[u].step = "writing" => publishMu' = publishMu,
           c.step = "writing" => publishMu' = t,
           \A u \in Threads : u # t /\ lock = u => lock' = u,
           c.step = "checked" \/ (c.step \in {"stored", "writing"} /\ Locking(c.op)) => lock' = t,
           IF c.step = "none" THEN c.op = "none" /\ t \notin UICallers
           ELSE c.op = IF t \in UICallers THEN "ui" ELSE call[t].op
    PROVE  Orderly'
  <1> SUFFICES ASSUME NEW u \in Threads
               PROVE  Ordered(u)'
    BY DEF Orderly
  <1>1. CASE u = t
    BY <1>1 DEF Orderly, Ordered, Turned, Idle
  <1>2. CASE u # t
    BY <1>2 DEF Orderly, Ordered, Turned, Idle
  <1> QED
    BY <1>1, <1>2

\* One caller at a time has the web UI manager's mutex.
LEMMA OneCaller ==
    ASSUME Orderly, NEW t \in UICallers, NEW u \in UICallers, ~Idle(t), ~Idle(u)
    PROVE  t = u
  BY Threads3 DEF Orderly, Ordered

LEMMA ChangedUI ==
    ASSUME NEW op
    PROVE  /\ ~OnUI(op) => (NoUI(ClaimsAfter(op)) <=> NoUI(claims))
           /\ op = "delete" => NoUI(ClaimsAfter(op))
           /\ op = "ui" => (NoUI(ClaimsAfter(op)) <=> ~Wanted)
           /\ Desired(op) \subseteq ClaimsAfter(op)
  BY DEF ClaimsAfter, Desired, OnUI, NoUI, UIRoutes, UIRoute

LEMMA CheckKeeps ==
    ASSUME Typed, IInv, NEW t \in Threads, Check(t)
    PROVE  Typed' /\ IInv'
  <1> DEFINE op == call[t].op
             after == ClaimsAfter(op)
             desired == Desired(op)
             nothing == after = claims /\ ~Publishes(op)
             idly == nothing \/ Conflict(desired)
  <1>0. /\ call \in Calls /\ call[t] \in AChange /\ ~Idle(t) /\ call[t].step = "waiting"
        /\ lock = Free
        /\ UNCHANGED <<stage, publishMu, book, manual, discovered, document, late, ui, events>>
    BY DEF Typed, Calls, Check, Idle
  <1>1. after \subseteq Routes /\ desired \subseteq Routes
    BY DEF Typed, Stored, ClaimsAfter, Desired, Routes, UIRoutes, UIRoute
  <1>2. \E c \in AChange :
          /\ Turned(t, c)
          /\ IF idly
             THEN /\ lock' = lock /\ c.step \in {"none", "done", "refused"}
                  /\ IF t \in UICallers
                     THEN c.step = (IF nothing THEN "done" ELSE "refused") /\ c.op = "ui"
                     ELSE c = NoCall
             ELSE /\ lock' = t /\ c.step = "checked" /\ c.op = op
                  /\ c.claims = after /\ c.manual = desired
    <2>1. CASE idly
      <3>1. PICK s : s = IF nothing THEN "done" ELSE "refused"
        OBVIOUS
      <3>2. Result(t, s) /\ lock' = lock /\ s \in {"done", "refused"}
        BY <2>1, <3>1 DEF Check
      <3>3. PICK c \in AChange :
               Turned(t, c) /\ c.step \in {"none", "done", "refused"}
                 /\ IF t \in UICallers THEN c.step = s /\ c.op = "ui" ELSE c = NoCall
        BY <1>0, <3>2, ResultFit
      <3> QED
        BY <2>1, <3>1, <3>2, <3>3
    <2>2. CASE ~idly
      <3>1. PICK c : c = [call[t] EXCEPT !.step = "checked", !.claims = after, !.manual = desired]
        OBVIOUS
      <3>2. /\ c \in AChange /\ c.step = "checked" /\ c.op = op
            /\ c.claims = after /\ c.manual = desired
        BY <1>0, <1>1, <3>1 DEF AChange, Steps
      <3>3. call' = [call EXCEPT ![t] = c] /\ lock' = t
        BY <1>0, <2>2, <3>1 DEF Check, Calls
      <3>4. Turned(t, c)
        BY <1>0, <3>2, <3>3, TurnFit
      <3> QED
        BY <2>2, <3>2, <3>3, <3>4
    <2> QED
      BY <2>1, <2>2
  <1>3. PICK c \in AChange :
          /\ Turned(t, c)
          /\ IF idly
             THEN /\ lock' = lock /\ c.step \in {"none", "done", "refused"}
                  /\ IF t \in UICallers
                     THEN c.step = (IF nothing THEN "done" ELSE "refused") /\ c.op = "ui"
                     ELSE c = NoCall
             ELSE /\ lock' = t /\ c.step = "checked" /\ c.op = op
                  /\ c.claims = after /\ c.manual = desired
    BY <1>2
  <1>4. t \in UICallers <=> op = "ui"
    BY <1>0, Threads3 DEF IInv, Orderly, Ordered
  <1>5. /\ ~OnUI(op) => (NoUI(after) <=> NoUI(claims))
        /\ op = "delete" => NoUI(after)
        /\ op = "ui" => (NoUI(after) <=> ~Wanted)
        /\ desired \subseteq after
    BY ChangedUI
  <1>n. nothing <=> (after = claims /\ ~Publishes(op))
    OBVIOUS
  <1> HIDE DEF after, desired, nothing, idly
  <1>6. Typed'
    BY <1>0, <1>3 DEF Typed, TypedUI, Stored, Counted, Turned, book, ui
  <1>7. Silenced'
    BY <1>0, <1>3, GoesOnSilenced DEF IInv, ui
  <1>8. Orderly'
    <2>1. \A u \in Threads : lock # u
      BY <1>0, Threads3
    <2>2. c.step # "writing" /\ (c.step \in {"checked", "stored", "writing"} => lock' = t)
      BY <1>3
    <2>3. IF c.step = "none" THEN c.op = "none" /\ t \notin UICallers
          ELSE c.op = IF t \in UICallers THEN "ui" ELSE op
      BY <1>3, <1>4, NoCallFit
    <2> QED
      BY <1>0, <1>3, <2>1, <2>2, <2>3, GoesOnOrderly DEF IInv, ui
  <1>9. ASSUME Live, ~failed PROVE Guarded'
    <2>0. Guarded /\ Orderly
      BY <1>9 DEF IInv
    <2>1. UNCHANGED <<claims, manual, document, server, settings, kept>>
      BY <1>0 DEF book, ui
    <2>2. c.step \notin {"stored", "writing"}
      BY <1>3
    <2>3. Clean => Clean'
      BY <1>3, <2>1, <2>2 DEF Clean, Turned, NoUI
    <2>4. \A u \in Threads : ~Turning(u)
      BY <1>0, Threads3, <2>0 DEF Orderly, Ordered, Turning, OnUI, Locking
    <2>5. ASSUME NEW u \in Threads, call'[u].step = "checked" PROVE Decided(u)'
      <3>1. CASE u = t
        BY <1>3, <1>5, <2>1, <2>5, <3>1 DEF Turned, Decided, OnUI, NoUI, Wanted
      <3>2. CASE u # t
        BY <1>3, <2>0, <2>1, <2>5, <3>2 DEF Turned, Guarded, Decided, NoUI, Wanted
      <3> QED
        BY <3>1, <3>2
    <2>6. ASSUME NEW u \in Threads PROVE Guided(u)'
      <3>1. CASE u = t /\ c.op = "ui" /\ Wanted
        BY <1>3, <1>4, <2>0, <2>1, <2>2, <3>1, NoCallFit
           DEF Turned, Guarded, Guided, OnUI, Addition, Wanted
      <3>2. CASE u = t /\ ~(c.op = "ui" /\ Wanted)
        <4>1. c.step = "done" => NoUI(claims)
          BY <1>3, <1>4, <1>5, <1>n, <3>2, NoCallFit
        <4>2. c.step = "done" => Clean
          BY <2>0, <2>4, <4>1 DEF Guarded
        <4> QED
          BY <1>3, <2>2, <2>1, <2>3, <3>2, <4>1, <4>2 DEF Turned, Guided, Removal, NoUI, Wanted
      <3>3. CASE u # t
        <4>1. call'[u] = call[u]
          BY <1>3, <3>3 DEF Turned
        <4> QED
          BY <2>0, <2>1, <2>3, <4>1 DEF Guarded, Guided, Addition, Removal, NoUI, Wanted
      <3> QED
        BY <3>1, <3>2, <3>3
    <2>7. NoUI(claims)' => Clean'
      BY <2>0, <2>1, <2>3, <2>4 DEF Guarded, NoUI
    <2>8. (manual \cap UIRoutes \subseteq claims)' /\ (server' = "none" => Clean' \/ kept')
      BY <2>0, <2>1, <2>3 DEF Guarded
    <2> QED
      BY <2>1, <2>5, <2>6, <2>7, <2>8 DEF Guarded, Wanted
  <1> QED
    BY <1>0, <1>6, <1>7, <1>8, <1>9 DEF IInv, Live, ui

LEMMA StoreKeeps ==
    ASSUME Typed, IInv, NEW t \in Threads, Store(t)
    PROVE  Typed' /\ IInv'
  <1>0. /\ call \in Calls /\ call[t] \in AChange /\ ~Idle(t) /\ call[t].step = "checked"
        /\ claims' = call[t].claims /\ manual' = call[t].manual
        /\ lease' \in {"permanent", lease} /\ taken' \in BOOLEAN
        /\ UNCHANGED <<stage, lock, publishMu, discovered, document, late, ui, events>>
    BY DEF Typed, Stored, Calls, Store, Idle
  <1>1. PICK c : c = [call[t] EXCEPT !.step = "stored", !.claims = claims, !.lease = lease,
                                     !.manual = manual]
    OBVIOUS
  <1>2. c \in AChange /\ c.step = "stored" /\ c.op = call[t].op
    BY <1>0, <1>1 DEF AChange, Steps, Typed, Stored
  <1>3. Turned(t, c)
    BY <1>0, <1>1, <1>2, TurnFit DEF Store
  <1>4. lock = t /\ (t \in UICallers => call[t].op = "ui")
    BY <1>0 DEF IInv, Orderly, Ordered
  <1>5. Typed'
    BY <1>0, <1>3 DEF Typed, TypedUI, Stored, Counted, Turned, AChange, Leases, ui
  <1>6. Silenced'
    BY <1>0, <1>3, GoesOnSilenced DEF IInv, ui
  <1>7. Orderly'
    BY <1>0, <1>2, <1>3, <1>4, GoesOnOrderly DEF IInv, ui
  <1>8. ASSUME Live, ~failed PROVE Guarded'
    <2>0. Guarded /\ Orderly /\ Decided(t)
      BY <1>0, <1>8 DEF IInv, Guarded
    <2>1. UNCHANGED <<document, server, settings, kept>>
      BY <1>0 DEF ui
    <2>2. \A u \in Threads : u # t => call'[u] = call[u] /\ call[u].step # "checked" /\ ~Turning(u)
      BY <1>3, <1>4, <2>0 DEF Turned, Orderly, Ordered, Turning, OnUI, Locking
    <2>3. NoUI(claims)' /\ Clean => Clean'
      BY <1>2, <1>3, <2>1, <2>2 DEF Clean, Turned, NoUI
    <2>4. /\ call[t].op = "ui" => (NoUI(claims)' <=> ~Wanted)
          /\ call[t].op = "delete" => NoUI(claims)'
          /\ ~OnUI(call[t].op) => (NoUI(claims)' <=> NoUI(claims))
          /\ (manual \cap UIRoutes \subseteq claims)'
      BY <1>0, <2>0 DEF Decided, NoUI
    <2>5. NoUI(claims) => NoUI(claims)' \/ (call[t].op = "ui" /\ Wanted)
      BY <2>4 DEF OnUI
    <2>6. call[t].op = "ui" /\ Wanted => server = "up"
      BY <2>0 DEF Guarded, Guided, OnUI, Addition
    <2>7. server' = "none" => Clean' \/ kept'
      BY <2>0, <2>1, <2>3, <2>5, <2>6 DEF Guarded, Clean
    <2>8. \A u \in Threads : call'[u].step # "checked"
      BY <1>2, <1>3, <2>2 DEF Turned
    <2>9. ASSUME NEW u \in Threads PROVE Guided(u)'
      <3>1. CASE u = t
        BY <1>2, <1>3, <2>1, <2>4, <2>6, <3>1
           DEF Turned, Guided, OnUI, Addition, Removal, NoUI, Wanted
      <3>2. CASE u # t
        <4>1. call'[u] = call[u] /\ ~Turning(u) /\ Guided(u)
          BY <2>0, <2>2, <3>2 DEF Guarded
        <4>2. CASE call[u].op = "ui" /\ Wanted
          BY <2>1, <4>1, <4>2 DEF Guided, Turning, OnUI, Addition, Wanted
        <4>3. CASE OnUI(call[u].op) /\ ~(call[u].op = "ui" /\ Wanted)
          <5>1. call[u].op = "ui" /\ call[u].step = "done" => Clean'
            BY <2>3, <2>5, <4>1, <4>3 DEF Guided, Removal, Clean
          <5> QED
            BY <2>1, <4>1, <4>3, <5>1 DEF Guided, Turning, Removal, Clean, Wanted
        <4> QED
          BY <4>1, <4>2, <4>3 DEF Guided, OnUI
      <3> QED
        BY <3>1, <3>2
    <2>10. ASSUME NoUI(claims)', \A u \in Threads : ~Turning(u)' PROVE Clean'
      <3>1. ~OnUI(call[t].op)
        BY <1>2, <1>3, <2>10 DEF Turned, Turning
      <3>2. \A u \in Threads : ~Turning(u)
        BY <1>0, <2>2 DEF Turning
      <3> QED
        BY <2>0, <2>3, <2>4, <2>10, <3>1, <3>2 DEF Guarded
    <2> QED
      BY <2>1, <2>4, <2>7, <2>8, <2>9, <2>10 DEF Guarded, Wanted
  <1> QED
    BY <1>0, <1>5, <1>6, <1>7, <1>8 DEF IInv, Live, ui

\* The web UI's route leaves the store, its claim stays.
LEMMA DropKeeps ==
    ASSUME Typed, IInv, NEW t \in Threads, Drop(t)
    PROVE  Typed' /\ IInv'
  <1>0. /\ call \in Calls /\ call[t] \in AChange /\ ~Idle(t) /\ call[t].step = "waiting"
        /\ call[t].op = "drop" /\ lock = Free
        /\ manual' \in {manual, manual \ UIRoutes} /\ taken' \in {taken, TRUE}
        /\ UNCHANGED <<stage, publishMu, claims, lease, discovered, document, late, ui, events>>
    BY DEF Typed, Calls, Drop, Idle
  <1>1. t \notin UICallers
    BY <1>0 DEF IInv, Orderly, Ordered
  <1>2. \E c \in AChange : /\ Turned(t, c)
                            /\ \/ c = NoCall /\ lock' = lock
                               \/ c.step = "stored" /\ c.op = "drop" /\ lock' = t
    <2>1. CASE manual \cap UIRoutes = {}
      <3>1. Result(t, "done") /\ lock' = lock
        BY <2>1 DEF Drop
      <3> QED
        BY <1>0, <1>1, <3>1, ResultFit
    <2>2. CASE manual \cap UIRoutes # {}
      <3>1. PICK c : c = [call[t] EXCEPT !.step = "stored", !.claims = claims,
                                         !.manual = manual \cap UIRoutes]
        OBVIOUS
      <3>2. c \in AChange /\ c.step = "stored" /\ c.op = "drop"
        BY <1>0, <3>1 DEF AChange, Steps, Typed, Stored
      <3>3. call' = [call EXCEPT ![t] = c] /\ lock' = t
        BY <1>0, <2>2, <3>1 DEF Drop, Calls
      <3> QED
        BY <1>0, <3>2, <3>3, TurnFit
    <2> QED
      BY <2>1, <2>2
  <1>3. PICK c \in AChange : /\ Turned(t, c)
                             /\ \/ c = NoCall /\ lock' = lock
                                \/ c.step = "stored" /\ c.op = "drop" /\ lock' = t
    BY <1>2
  <1>4. Typed'
    <2>1. /\ taken' \in BOOLEAN /\ manual' \subseteq Routes /\ lock' \in Threads \cup {Free}
          /\ call' \in Calls
      BY <1>0, <1>3 DEF Typed, Stored, Turned
    <2> QED
      BY <1>0, <2>1 DEF Typed, TypedUI, Stored, Counted, ui
  <1>5. Silenced'
    BY <1>0, <1>3, GoesOnSilenced DEF IInv, ui
  <1>6. Orderly'
    <2>1. \A u \in Threads : lock # u
      BY <1>0, Threads3
    <2>2. /\ c.step # "writing" /\ (c.step \in {"checked", "stored"} => lock' = t)
          /\ IF c.step = "none" THEN c.op = "none" ELSE c.op = "drop"
      BY <1>3, NoCallFit
    <2> QED
      BY <1>0, <1>1, <1>3, <2>1, <2>2, GoesOnOrderly DEF IInv, ui
  <1>7. ASSUME Live, ~failed PROVE Guarded'
    <2>0. Guarded
      BY <1>7 DEF IInv
    <2>1. UNCHANGED <<claims, document, server, settings, kept>>
      BY <1>0 DEF ui
    <2>2. /\ call'[t].step \notin {"checked", "writing"} /\ ~OnUI(call'[t].op)
          /\ ~OnUI(call[t].op)
      BY <1>0, <1>3, NoCallFit DEF Turned, OnUI
    <2>3. Clean => Clean'
      BY <1>3, <2>1, <2>2 DEF Clean, Turned, NoUI
    <2>4. ASSUME NEW u \in Threads, call'[u].step = "checked" PROVE Decided(u)'
      BY <1>3, <2>0, <2>1, <2>2, <2>4 DEF Turned, Guarded, Decided, NoUI, Wanted
    <2>5. ASSUME NEW u \in Threads PROVE Guided(u)'
      BY <1>3, <2>0, <2>1, <2>2, <2>3 DEF Turned, Guarded, Guided, Addition, Removal, NoUI, Wanted
    <2>6. ASSUME NoUI(claims)', \A u \in Threads : ~Turning(u)' PROVE Clean'
      <3>1. \A u \in Threads : ~Turning(u)
        BY <1>3, <2>2, <2>6 DEF Turned, Turning
      <3> QED
        BY <2>0, <2>1, <2>3, <2>6, <3>1 DEF Guarded, NoUI
    <2> QED
      BY <1>0, <2>0, <2>1, <2>3, <2>4, <2>5, <2>6 DEF Guarded, Wanted
  <1> QED
    BY <1>0, <1>4, <1>5, <1>6, <1>7 DEF IInv, Live, ui

LEMMA SnapshotKeeps ==
    ASSUME Typed, IInv, NEW t \in Threads, Snapshot(t)
    PROVE  Typed' /\ IInv'
  <1>0. /\ call \in Calls /\ call[t] \in AChange /\ ~Idle(t) /\ call[t].step = "stored"
        /\ publishMu = Free /\ publishMu' = t /\ lock' = lock
        /\ UNCHANGED <<stage, book, manual, discovered, document, late, ui, events>>
    BY DEF Typed, Calls, Snapshot, Idle
  <1>1. PICK c : c = [call[t] EXCEPT !.step = "writing", !.snapshot = manual \cup discovered]
    OBVIOUS
  <1>2. /\ c \in AChange /\ c.step = "writing" /\ c.op = call[t].op
        /\ c.snapshot = manual \cup discovered
    BY <1>0, <1>1 DEF AChange, Steps, Typed, Stored, Routes
  <1>3. Turned(t, c)
    BY <1>0, <1>1, <1>2, TurnFit DEF Snapshot
  <1>4. \A u \in Threads : call[u].step # "writing"
    BY <1>0, Threads3 DEF IInv, Orderly, Ordered
  <1>5. /\ t \in UICallers => call[t].op = "ui"
        /\ Locking(call[t].op) => lock = t
    BY <1>0 DEF IInv, Orderly, Ordered
  <1>6. Typed'
    BY <1>0, <1>3 DEF Typed, TypedUI, Stored, Counted, Turned, book, ui
  <1>7. Silenced'
    BY <1>0, <1>3, GoesOnSilenced DEF IInv, ui
  <1>8. Orderly'
    BY <1>0, <1>2, <1>3, <1>4, <1>5, GoesOnOrderly DEF IInv, ui
  <1>9. ASSUME Live, ~failed PROVE Guarded'
    <2>0. Guarded
      BY <1>9 DEF IInv
    <2>1. UNCHANGED <<claims, manual, document, server, settings, kept>>
      BY <1>0 DEF book, ui
    <2>2. NoUI(claims) => NoUI(c.snapshot)
      BY <1>2, <2>0 DEF Guarded, NoUI, Typed, Stored, UIRoutes
    <2>3. \A u \in Threads : u # t => call'[u].step # "writing"
      BY <1>3, <1>4 DEF Turned
    <2>4. Clean => Clean'
      BY <1>3, <2>1, <2>2, <2>3 DEF Clean, Turned, NoUI
    <2>5. ASSUME NEW u \in Threads, call'[u].step = "checked" PROVE Decided(u)'
      BY <1>2, <1>3, <2>0, <2>1, <2>5 DEF Turned, Guarded, Decided, NoUI, Wanted
    <2>6. ASSUME NEW u \in Threads PROVE Guided(u)'
      <3>1. CASE u = t
        BY <1>0, <1>2, <1>3, <2>0, <2>1, <2>2, <3>1
           DEF Guarded, Guided, Turned, Addition, Removal, NoUI, Wanted
      <3>2. CASE u # t
        <4>1. call'[u] = call[u]
          BY <1>3, <3>2 DEF Turned
        <4> QED
          BY <2>0, <2>1, <2>4, <4>1 DEF Guarded, Guided, Addition, Removal, NoUI, Wanted
      <3> QED
        BY <3>1, <3>2
    <2>7. ASSUME NoUI(claims)', \A u \in Threads : ~Turning(u)' PROVE Clean'
      <3>1. \A u \in Threads : ~Turning(u)
        BY <1>0, <1>2, <1>3, <2>7 DEF Turned, Turning
      <3> QED
        BY <2>0, <2>1, <2>4, <2>7, <3>1 DEF Guarded, NoUI
    <2> QED
      BY <2>0, <2>1, <2>4, <2>5, <2>6, <2>7 DEF Guarded, Wanted
  <1> QED
    BY <1>0, <1>6, <1>7, <1>8, <1>9 DEF IInv, Live, ui

LEMMA WriteKeeps ==
    ASSUME Typed, IInv, NEW t \in Threads, Write(t)
    PROVE  Typed' /\ IInv'
  <1>0. /\ call \in Calls /\ call[t] \in AChange /\ ~Idle(t) /\ call[t].step = "writing"
        /\ Unlock(t) /\ document' = call[t].snapshot /\ Result(t, "done")
        /\ taken' \in BOOLEAN
        /\ UNCHANGED <<stage, claims, lease, manual, discovered, late, ui, events>>
    BY DEF Typed, Stored, Calls, Write, Idle
  <1>1. PICK c \in AChange :
          Turned(t, c) /\ c.step \in {"none", "done", "refused"}
            /\ IF t \in UICallers THEN c.step = "done" /\ c.op = "ui" ELSE c = NoCall
    BY <1>0, ResultFit
  <1>2. \A u \in Threads : u # t => call[u].step # "writing"
    BY <1>0 DEF IInv, Orderly, Ordered
  <1>3. t \in UICallers => call[t].op = "ui"
    BY <1>0 DEF IInv, Orderly, Ordered
  <1>4. /\ document' \subseteq Routes /\ publishMu' = Free /\ lock' \in Threads \cup {Free}
        /\ \A u \in Threads : u # t /\ lock = u => lock' = u
    BY <1>0 DEF AChange, Unlock, Typed
  <1>5. Typed'
    BY <1>0, <1>1, <1>4 DEF Typed, TypedUI, Stored, Counted, Turned, ui
  <1>6. Silenced'
    BY <1>0, <1>1, GoesOnSilenced DEF IInv, ui
  <1>7. Orderly'
    <2>1. IF c.step = "none" THEN c.op = "none" /\ t \notin UICallers
          ELSE c.op = IF t \in UICallers THEN "ui" ELSE call[t].op
      BY <1>1, NoCallFit
    <2> QED
      BY <1>0, <1>1, <1>2, <1>4, <2>1, GoesOnOrderly DEF IInv, ui
  <1>8. ASSUME Live, ~failed PROVE Guarded'
    <2>0. Guarded
      BY <1>8 DEF IInv
    <2>1. UNCHANGED <<claims, manual, server, settings, kept>>
      BY <1>0 DEF ui
    <2>2. \A u \in Threads : call'[u].step # "writing"
      BY <1>1, <1>2 DEF Turned
    <2>3. NoUI(claims) /\ NoUI(call[t].snapshot) => Clean'
      BY <1>0, <2>1, <2>2 DEF Clean, NoUI
    <2>4. Clean => Clean'
      BY <1>0, <2>3 DEF Clean
    <2>5. ASSUME NEW u \in Threads, call'[u].step = "checked" PROVE Decided(u)'
      BY <1>1, <2>0, <2>1, <2>5 DEF Turned, Guarded, Decided, NoUI, Wanted
    <2>6. ASSUME NEW u \in Threads PROVE Guided(u)'
      <3>1. CASE u = t
        BY <1>0, <1>1, <1>3, <2>0, <2>1, <2>3, <3>1, NoCallFit
           DEF Guarded, Guided, OnUI, Turned, Addition, Removal, NoUI, Wanted
      <3>2. CASE u # t
        <4>1. call'[u] = call[u]
          BY <1>1, <3>2 DEF Turned
        <4> QED
          BY <2>0, <2>1, <2>4, <4>1 DEF Guarded, Guided, Addition, Removal, NoUI, Wanted
      <3> QED
        BY <3>1, <3>2
    <2>7. ASSUME NoUI(claims)', \A u \in Threads : ~Turning(u)' PROVE Clean'
      <3>0. NoUI(claims)
        BY <2>1, <2>7 DEF NoUI
      <3>1. CASE Turning(t)
        BY <1>0, <2>0, <2>3, <3>0, <3>1 DEF Guarded, Guided, Turning, Addition, Removal
      <3>2. CASE ~Turning(t)
        <4>1. \A u \in Threads : ~Turning(u)
          BY <1>1, <2>7, <3>2 DEF Turned, Turning
        <4> QED
          BY <2>0, <2>4, <3>0, <4>1 DEF Guarded
      <3> QED
        BY <3>1, <3>2
    <2> QED
      BY <2>0, <2>1, <2>4, <2>5, <2>6, <2>7 DEF Guarded, Wanted
  <1> QED
    BY <1>0, <1>5, <1>6, <1>7, <1>8 DEF IInv, Live, ui

\* A failed write takes the change back and is remembered.
LEMMA WriteFailsKeeps ==
    ASSUME Typed, IInv, NEW t \in Threads, WriteFails(t)
    PROVE  Typed' /\ IInv'
  <1>0. /\ call \in Calls /\ call[t] \in AChange /\ ~Idle(t) /\ call[t].step = "writing"
        /\ Unlock(t) /\ Result(t, "refused") /\ failed' = TRUE
        /\ UNCHANGED <<stage, taken, discovered, document, late, mu, settings, saved, server,
                       closing, failure, stopped, retry, kept>>
    BY DEF Typed, Calls, WriteFails, Idle
  <1>1. PICK c \in AChange :
          Turned(t, c) /\ c.step \in {"none", "done", "refused"}
            /\ IF t \in UICallers THEN c.step = "refused" /\ c.op = "ui" ELSE c = NoCall
    BY <1>0, ResultFit
  <1>2. \A u \in Threads : u # t => call[u].step # "writing"
    BY <1>0 DEF IInv, Orderly, Ordered
  <1>3. claims' \subseteq Routes /\ manual' \subseteq Routes /\ lease' \in Leases
    BY <1>0 DEF WriteFails, AChange, Typed, Stored
  <1>4. /\ publishMu' = Free /\ lock' \in Threads \cup {Free} /\ Counted'
        /\ \A u \in Threads : u # t /\ lock = u => lock' = u
    BY <1>0, Counting DEF Unlock, Typed, WriteFails
  <1>5. Typed'
    BY <1>0, <1>1, <1>3, <1>4 DEF Typed, TypedUI, Stored, Counted, Turned
  <1>6. Silenced'
    BY <1>0, <1>1, GoesOnSilenced DEF IInv
  <1>7. Orderly'
    <2>1. IF c.step = "none" THEN c.op = "none" /\ t \notin UICallers
          ELSE c.op = IF t \in UICallers THEN "ui" ELSE call[t].op
      BY <1>0, <1>1, NoCallFit DEF IInv, Orderly, Ordered
    <2> QED
      BY <1>0, <1>1, <1>2, <1>4, <2>1, GoesOnOrderly DEF IInv
  <1> QED
    BY <1>0, <1>5, <1>6, <1>7 DEF IInv

\* The manager sees the result and gives the mutex back.
LEMMA AppliedKeeps ==
    ASSUME Typed, IInv, NEW t \in Threads, Applied(t)
    PROVE  Typed' /\ IInv'
  <1>0. /\ call \in Calls /\ t \in UICallers /\ call[t].step \in {"done", "refused"} /\ ~Idle(t)
        /\ call' = [call EXCEPT ![t] = NoCall] /\ mu' = Free
        /\ UNCHANGED <<lock, publishMu, book, manual, discovered, document, late, settings, saved,
                       stopped, failed, events>>
    BY DEF Typed, Applied, Ended, Idle
  <1>1. Turned(t, NoCall) /\ NoCall.step = "none" /\ NoCall.op = "none"
    BY <1>0, NoCallFit, TurnFit
  <1>2. /\ stage' = (IF t = "main" THEN "listening" ELSE stage)
        /\ retry' = (IF t = "retry" \/ t = "main" THEN "idle" ELSE retry)
    BY DEF Applied
  <1>3. \A u \in UICallers : u # t => Idle(u)
    BY <1>0, OneCaller DEF IInv
  <1>4. Typed'
    <2>1. /\ server' \in {"none", "up"} /\ closing' \in BOOLEAN /\ kept' \in BOOLEAN
          /\ failure' \in {"none", "listen", "route"}
      BY DEF Applied, Typed, TypedUI
    <2>2. stage' \in Stages /\ retry' \in {"off", "idle", "waiting", "applying", "ended"}
      BY <1>2, StagesAre DEF Typed, TypedUI
    <2> QED
      BY <1>0, <1>1, <2>1, <2>2 DEF Typed, TypedUI, Stored, Counted, Turned, book
  <1>5. Silenced'
    <2>1. \A u \in Threads : Idle(u) => Idle(u)'
      BY <1>1 DEF Turned, Idle
    <2>2. "main" \in Threads /\ "retry" \in Threads /\ "socket" \in Threads /\ "http" \in Threads
          /\ "main" \in UICallers /\ "retry" \in UICallers
      BY DEF Threads, UICallers
    <2>3. CASE t = "main"
      <3>1. stage = "applying" /\ stage' = "listening" /\ Idle("main")'
        BY <1>0, <1>1, <1>2, <2>3 DEF Silenced, IInv, Turned, Idle
      <3>2. Idle("retry")'
        BY <1>3, <2>1, <2>2, <2>3
      <3>3. \A w \in Workers : "listening" \notin Past(w)
        BY DaemonAssumption DEF Past, PastSweep, PastRenew, PastScan, PastRetry, PastSocket
      <3> QED
        BY <1>0, <3>1, <3>2, <3>3 DEF Silenced, Free, PastRetry, PastSocket, Idle
    <2>4. CASE t # "main"
      <3>1. stage' = stage /\ stage # "off" /\ ~(stage = "http" /\ ~late)
        BY <1>0, <1>2, <2>4, AllQuiet DEF IInv
      <3>2. t = "retry" => Idle("retry")' /\ stage \notin PastRetry
        BY <1>0, <1>1 DEF Silenced, IInv, Turned, Idle
      <3>3. \A w \in Workers : stage' \in Past(w) => Idle(w)'
        BY <2>1, <3>1, Threads3 DEF Silenced, IInv
      <3>4. call'["main"].step = "none" /\ mu' # "main"
        BY <1>0, <1>3, <2>1, <2>2, <2>4 DEF Idle, Free
      <3>5. /\ stage' \in PastRetry => retry' = "ended"
            /\ retry' # "applying" => Idle("retry")'
        BY <1>2, <2>1, <2>2, <2>4, <3>1, <3>2 DEF Silenced, IInv
      <3>6. /\ stage' \in PastSocket => Idle("socket")'
            /\ stage' \in {"empty", "http"} /\ ~late' => Idle("http")'
        BY <1>0, <2>1, <2>2, <3>1 DEF Silenced, IInv
      <3> QED
        BY <1>0, <3>1, <3>3, <3>4, <3>5, <3>6 DEF Silenced
    <2> QED
      BY <2>3, <2>4
  <1>6. Orderly'
    <2> SUFFICES ASSUME NEW u \in Threads
                 PROVE  Ordered(u)'
      BY DEF Orderly
    <2>1. CASE u = t
      BY <1>1, <2>1 DEF Ordered, Turned, Idle, Locking
    <2>2. CASE u # t
      BY <1>0, <1>1, <1>3, <2>2 DEF IInv, Orderly, Ordered, Turned, Idle
    <2> QED
      BY <2>1, <2>2
  <1>7. ASSUME Live', ~failed' PROVE Guarded'
    <2>0. Guarded
      <3>1. Live
        BY <1>0, <1>2, <1>7 DEF Live, IInv, Silenced
      <3> QED
        BY <1>0, <1>7, <3>1 DEF IInv
    <2>1. Clean => Clean'
      BY <1>0, <1>1 DEF Clean, Turned, book
    <2>2. call[t].op \in {"none", "ui"}
      BY <1>0 DEF IInv, Orderly, Ordered
    <2>3. server' = "none" => Clean \/ kept'
      <3>1. CASE call[t].op = "none"
        BY <2>0, <3>1 DEF Applied, Guarded
      <3>2. CASE call[t].op = "ui" /\ Wanted
        BY <1>0, <2>0, <3>2 DEF Applied, Guarded, Guided, OnUI, Addition
      <3>3. CASE call[t].op = "ui" /\ ~Wanted
        BY <1>0, <2>0, <3>3 DEF Applied, Guarded, Guided, OnUI, Removal
      <3> QED
        BY <2>2, <3>1, <3>2, <3>3
    <2>4. ASSUME NEW u \in Threads
          PROVE  Guided(u)' /\ (call'[u].step = "checked" => Decided(u)')
      <3>1. CASE u = t
        BY <1>1, <3>1 DEF Turned, Guided, OnUI
      <3>2. CASE u # t /\ call[u].op = "ui"
        <4>1. u \in UICallers /\ Idle(u)
          BY <1>3, <3>2 DEF IInv, Orderly, Ordered
        <4> QED
          BY <3>2, <4>1 DEF IInv, Orderly, Ordered
      <3>3. CASE u # t /\ call[u].op # "ui"
        BY <1>0, <1>1, <2>0, <2>1, <3>3
           DEF Turned, Guarded, Guided, Decided, Removal, NoUI, OnUI, Wanted, book
      <3> QED
        BY <3>1, <3>2, <3>3
    <2>5. ASSUME NoUI(claims)', \A u \in Threads : ~Turning(u)' PROVE Clean
      <3>1. \A u \in Threads : ~Turning(u)
        BY <1>0, <1>1, <2>5 DEF Turned, Turning
      <3> QED
        BY <1>0, <2>0, <2>5, <3>1 DEF Guarded, NoUI, book
    <2> QED
      BY <1>0, <2>0, <2>1, <2>3, <2>4, <2>5 DEF Guarded, book
  <1> QED
    BY <1>4, <1>5, <1>6, <1>7 DEF IInv

-----------------------------------------------------------------------------
(* Those who begin a change                                                *)

\* A worker, or a request, that begins is none of the web UI's callers.
LEMMA BeginsKeeps ==
    ASSUME IInv, NEW t \in Threads \ UICallers, NEW c, Turned(t, c), Idle(t),
           c.op \notin {"ui", "none"},
           c.step = "waiting" \/ (c.step = "stored" /\ ~Locking(c.op)),
           UNCHANGED <<stage, lock, publishMu, claims, manual, document, ui>>
    PROVE  Orderly' /\ (Live' /\ ~failed' => Guarded')
  <1>0. UNCHANGED <<mu, settings, server, kept, failed>>
    BY DEF ui
  <1>1. Orderly'
    <2> SUFFICES ASSUME NEW u \in Threads
                 PROVE  Ordered(u)'
      BY DEF Orderly
    <2>1. CASE u = t
      BY <2>1 DEF Ordered, Turned, Idle
    <2>2. CASE u # t
      BY <1>0, <2>2 DEF IInv, Orderly, Ordered, Turned, Idle
    <2> QED
      BY <2>1, <2>2
  <1>2. ASSUME Live', ~failed' PROVE Guarded'
    <2>0. Guarded
      BY <1>0, <1>2 DEF IInv, Live
    <2>1. Clean => Clean'
      BY DEF Clean, Turned
    <2>2. ASSUME NEW u \in Threads
          PROVE  /\ Guided(u)' /\ (call'[u].step = "checked" => Decided(u)')
                 /\ Turning(u) => Turning(u)'
      <3>1. CASE u = t
        BY <3>1 DEF Turned, Guided, Removal, OnUI, Locking, Turning, Idle
      <3>2. CASE u # t
        BY <1>0, <2>0, <2>1, <3>2
           DEF Turned, Guarded, Guided, Decided, Addition, Removal, NoUI, Wanted, Turning
      <3> QED
        BY <3>1, <3>2
    <2> QED
      BY <1>0, <2>0, <2>1, <2>2 DEF Guarded, NoUI
  <1> QED
    BY <1>1, <1>2

LEMMA WorksKeeps ==
    ASSUME Typed, IInv, NEW w \in Workers, Works(w)
    PROVE  Typed' /\ IInv'
  <1>0. /\ w \in {"sweep", "renew", "scan"} /\ w \in Threads /\ w \notin UICallers /\ w # "http"
        /\ call \in Calls /\ Idle(w)
        /\ UNCHANGED <<stage, lock, publishMu, book, manual, document, late, ui>>
    BY DaemonAssumption, Threads3 DEF Works, Typed, Expire, Renew, Reconcile
  <1>1. Counted' /\ discovered' \subseteq {"found"}
    <2>1. Counted'
      BY Counting DEF Works, Typed
    <2>2. discovered' \in {discovered, {"found"} \ discovered}
      BY <1>0 DEF Works, Expire, Renew, Reconcile
    <2> QED
      BY <2>1, <2>2 DEF Typed, Stored
  <1>2. stage \notin Past(w) /\ stage # "off"
    <2>1. stage \in Past(w) => Passed(w)
      BY <1>0, PassedIs DEF Past
    <2>2. stage \in Starting \cup {"running"} => stage \notin Past(w) /\ stage # w
      BY <1>0 DEF Starting, Past, PastSweep, PastRenew, PastScan, PastRetry, PastSocket
    <2> QED
      BY <1>0, <2>1, <2>2, StoppingIs DEF Works, Starting, PastRetry, PastSocket
  <1>3. PICK c \in AChange :
          /\ Turned(w, c) /\ c.op \notin {"ui", "none"}
          /\ c.step = "waiting" \/ (c.step = "stored" /\ ~Locking(c.op))
    <2>1. CASE w = "sweep"
      <3>1. Begin(w, "release")
        BY <2>1 DEF Works, Expire
      <3> QED
        BY <1>0, <3>1, BeginFit DEF Ops
    <2>2. CASE w = "renew"
      <3>1. PICK c : c = [NoCall EXCEPT !.step = "stored", !.op = "renew"]
        OBVIOUS
      <3>2. c \in AChange /\ c.step = "stored" /\ c.op = "renew"
        BY <3>1, NoCallFit DEF Steps, Ops
      <3>3. call' = [call EXCEPT ![w] = c]
        BY <2>2, <3>1 DEF Works, Renew
      <3> QED
        BY <1>0, <3>2, <3>3, TurnFit DEF Locking
    <2>3. CASE w = "scan"
      <3>1. PICK c : c = [NoCall EXCEPT !.step = "stored", !.op = "scan"]
        OBVIOUS
      <3>2. c \in AChange /\ c.step = "stored" /\ c.op = "scan"
        BY <3>1, NoCallFit DEF Steps, Ops
      <3>3. call' = [call EXCEPT ![w] = c]
        BY <2>3, <3>1 DEF Works, Reconcile
      <3> QED
        BY <1>0, <3>2, <3>3, TurnFit DEF Locking
    <2> QED
      BY <1>0, <2>1, <2>2, <2>3
  <1>4. Typed'
    BY <1>0, <1>1, <1>3 DEF Typed, TypedUI, Stored, Counted, Turned, book, ui
  <1>5. Silenced'
    <2>1. \A u \in Threads : u # w => (Idle(u) <=> Idle(u)')
      BY <1>3 DEF Turned, Idle
    <2>2. "main" \in Threads /\ "retry" \in Threads /\ "socket" \in Threads /\ "http" \in Threads
          /\ w \notin {"main", "retry", "socket", "http"}
      BY <1>0 DEF Threads, UICallers
    <2>3. \A v \in Workers : stage' \in Past(v) => Idle(v)'
      BY <1>0, <1>2, <2>1, Threads3 DEF Silenced, IInv
    <2>4. call'["main"].step # "none" \/ mu' = "main" => stage' = "applying"
      BY <1>0, <2>1, <2>2 DEF Silenced, IInv, Idle, ui
    <2>5. /\ stage' \in PastRetry => retry' = "ended"
          /\ retry' # "applying" => Idle("retry")'
          /\ stage' \in PastSocket => Idle("socket")'
          /\ stage' \in {"empty", "http"} /\ ~late' => Idle("http")'
          /\ stage' = "http" /\ ~late' /\ ~failed' => document' = {}
      BY <1>0, <2>1, <2>2 DEF Silenced, IInv, ui
    <2> QED
      BY <1>0, <1>2, <2>3, <2>4, <2>5 DEF Silenced
  <1>6. Orderly' /\ (Live' /\ ~failed' => Guarded')
    BY <1>0, <1>3, BeginsKeeps DEF book
  <1> QED
    BY <1>4, <1>5, <1>6 DEF IInv

LEMMA RequestKeeps == Typed /\ IInv /\ Request => Typed' /\ IInv'
  <1> SUFFICES ASSUME Typed, IInv, Request PROVE Typed' /\ IInv'
    OBVIOUS
  <1>0. /\ "http" \in Threads /\ "http" \notin UICallers /\ "http" \notin Workers
        /\ call \in Calls /\ Idle("http")
        /\ late' = (late \/ Clearing)
        /\ UNCHANGED <<stage, lock, publishMu, book, manual, discovered, document, ui>>
    BY Threads3 DEF Request, Typed
  <1>1. Counted' /\ late' \in BOOLEAN
    BY <1>0, Counting DEF Request, Typed, Clearing
  <1>2. stage # "off" /\ stage # "http"
    BY StoppingIs DEF Request, Accepting, PastRetry, PastSocket
  <1>3. PICK c \in AChange :
          Turned("http", c) /\ c.step = "waiting" /\ c.op \notin {"ui", "none"}
    <2>1. PICK op \in {"register", "release", "drop", "delete"} : Begin("http", op)
      BY DEF Request
    <2> QED
      BY <1>0, <2>1, BeginFit DEF Ops
  <1>4. Typed'
    BY <1>0, <1>1, <1>3 DEF Typed, TypedUI, Stored, Counted, Turned, book, ui
  <1>5. Silenced'
    <2>1. \A u \in Threads : u # "http" => (Idle(u) <=> Idle(u)')
      BY <1>3 DEF Turned, Idle
    <2>2. "main" \in Threads /\ "retry" \in Threads /\ "socket" \in Threads
      BY DEF Threads, UICallers
    <2>3. \A v \in Workers : stage' \in Past(v) => Idle(v)'
      BY <1>0, <2>1, Threads3 DEF Silenced, IInv
    <2>4. call'["main"].step # "none" \/ mu' = "main" => stage' = "applying"
      BY <1>0, <2>1, <2>2 DEF Silenced, IInv, Idle, ui
    <2>5. /\ stage' \in PastRetry => retry' = "ended"
          /\ retry' # "applying" => Idle("retry")'
          /\ stage' \in PastSocket => Idle("socket")'
      BY <1>0, <2>1, <2>2 DEF Silenced, IInv, ui
    <2>6. stage' \in {"empty", "http"} => late'
      BY <1>0 DEF Clearing
    <2> QED
      BY <1>0, <1>2, <2>3, <2>4, <2>5, <2>6 DEF Silenced
  <1>6. Orderly' /\ (Live' /\ ~failed' => Guarded')
    BY <1>0, <1>3, BeginsKeeps DEF book
  <1> QED
    BY <1>4, <1>5, <1>6 DEF IInv

(* A heartbeat of the web UI's claim refreshes the store, and time passes: *)
(* nobody's change goes on, and the store has no route without its claim.  *)
LEMMA QuietKeeps ==
    ASSUME Typed, IInv, manual' \subseteq manual \cup claims, lease' \in Leases,
           taken' \in BOOLEAN, Counted', stage # "off",
           UNCHANGED <<stage, call, lock, publishMu, claims, discovered, document, late, ui>>
    PROVE  Typed' /\ IInv'
  <1>1. Typed'
    BY DEF Typed, TypedUI, Stored, ui
  <1>2. Silenced' /\ Orderly'
    BY DEF IInv, Silenced, Orderly, Ordered, Idle, ui
  <1>3. ASSUME Live', ~failed' PROVE Guarded'
    <2>1. Guarded
      BY <1>3 DEF IInv, Live, ui
    <2>2. Clean' <=> Clean
      BY DEF Clean
    <2>3. \A t \in Threads : (Decided(t)' <=> Decided(t)) /\ (Guided(t)' <=> Guided(t))
                            /\ (Turning(t)' <=> Turning(t))
      BY DEF Decided, Guided, Addition, Removal, Clean, Turning, Wanted, ui
    <2> QED
      BY <2>1, <2>2, <2>3 DEF Guarded, NoUI, ui
  <1> QED
    BY <1>1, <1>2, <1>3 DEF IInv

LEMMA HeartbeatKeeps == Typed /\ IInv /\ Heartbeat => Typed' /\ IInv'
  <1> SUFFICES ASSUME Typed, IInv, Heartbeat PROVE Typed' /\ IInv'
    OBVIOUS
  <1>1. stage # "off"
    BY StoppingIs DEF Heartbeat, Accepting, PastRetry, PastSocket
  <1>2. Counted'
    BY Counting DEF Heartbeat, Typed
  <1>3. manual' \subseteq manual \cup claims /\ lease' \in Leases /\ taken' \in BOOLEAN
    BY DEF Heartbeat, Leases
  <1> QED
    BY <1>1, <1>2, <1>3, QuietKeeps DEF Heartbeat

LEMMA LapseKeeps == Typed /\ IInv /\ Lapse => Typed' /\ IInv'
  <1> SUFFICES ASSUME Typed, IInv, Lapse PROVE Typed' /\ IInv'
    OBVIOUS
  <1>1. stage # "off"
    BY DEF Lapse, IInv, Silenced, Gone
  <1>2. Counted' /\ taken' \in BOOLEAN
    BY DEF Lapse, Typed, Stored, Counted
  <1> QED
    BY <1>1, <1>2, QuietKeeps DEF Lapse, Leases

-----------------------------------------------------------------------------
(* The web UI's manager                                                    *)

(* Applying some settings ends at once or begins a publication.            *)
Applying(t, c, s) ==
    /\ Turned(t, c)
    /\ \/ c.step = "waiting" /\ c.op = "ui" /\ (s.enabled => server' = "up")
       \/ c.step = "done" /\ c.op = "none"
    /\ server' \in {"none", "up"} /\ (server' = "none" => server = "none")
    /\ failure' \in {"none", "listen", "route"}

LEMMA ApplyFit ==
    ASSUME Typed, Orderly, NEW t \in UICallers, Idle(t), NEW s, Apply(t, s)
    PROVE  \E c \in AChange : Applying(t, c, s)
  <1>0. call \in Calls /\ t \in Threads /\ call[t] \in AChange
    BY Threads3 DEF Typed, Calls
  <1>1. CASE stopped \/ (s.enabled /\ server = "none" /\ closing)
    <2>1. PICK c : c = [call[t] EXCEPT !.step = "done"]
      OBVIOUS
    <2>2. c \in AChange /\ c.step = "done" /\ c.op = "none"
      BY <1>0, <2>1 DEF AChange, Steps, Orderly, Ordered
    <2>3. Goto(t, "done") /\ server' = server
          /\ failure' = (IF stopped THEN failure ELSE "listen")
      BY <1>1 DEF Apply
    <2>4. call' = [call EXCEPT ![t] = c]
      BY <1>0, <2>1, <2>3 DEF Goto, Calls
    <2>5. Turned(t, c)
      BY <1>0, <2>2, <2>4, TurnFit
    <2> QED
      BY <2>2, <2>3, <2>5 DEF Applying, Typed, TypedUI
  <1>2. CASE ~(stopped \/ (s.enabled /\ server = "none" /\ closing))
    <2>1. Begin(t, "ui") /\ server' = ServerMeanwhile(s) /\ failure' = failure
      BY <1>2 DEF Apply
    <2>2. PICK c \in AChange : Turned(t, c) /\ c.step = "waiting" /\ c.op = "ui"
      BY <1>0, <2>1, BeginFit DEF Ops
    <2> QED
      BY <2>1, <2>2 DEF Applying, ServerMeanwhile, Typed, TypedUI
  <1> QED
    BY <1>1, <1>2

\* The caller takes the mutex, which nobody had.
LEMMA ApplyOrderly ==
    ASSUME Orderly, NEW t \in UICallers, mu = Free, mu' = t, NEW c, NEW s, Applying(t, c, s),
           UNCHANGED <<lock, publishMu>>
    PROVE  Orderly'
  <1> SUFFICES ASSUME NEW u \in Threads
               PROVE  Ordered(u)'
    BY DEF Orderly
  <1>1. CASE u = t
    BY <1>1 DEF Ordered, Applying, Turned, Idle
  <1>2. CASE u # t
    BY <1>2, Threads3 DEF Orderly, Ordered, Applying, Turned, Idle
  <1> QED
    BY <1>1, <1>2

LEMMA ApplyGuarded ==
    ASSUME Orderly, Guarded, NEW t \in UICallers, mu = Free, NEW c, Applying(t, c, settings'),
           UNCHANGED <<claims, manual, document, kept>>
    PROVE  Guarded'
  <1>1. \A u \in Threads : call[u].op = "ui" => Idle(u)
    BY Threads3 DEF Orderly, Ordered
  <1>2. Clean => Clean'
    BY DEF Clean, Applying, Turned
  <1>3. t \in Threads /\ Idle(t) /\ \A u \in Threads : call[u].op # "ui"
    BY <1>1, Threads3 DEF Orderly, Ordered
  <1>4. ASSUME NEW u \in Threads
        PROVE  /\ Guided(u)' /\ (call'[u].step = "checked" => Decided(u)')
               /\ Turning(u) => Turning(u)'
    <2>1. CASE u = t
      BY <1>3, <2>1
         DEF Applying, Turned, Guided, Turning, Addition, Removal, OnUI, Wanted, Idle
    <2>2. CASE u # t
      BY <1>2, <1>3, <2>2
         DEF Applying, Turned, Guarded, Guided, Decided, Turning, Removal, NoUI, OnUI
    <2> QED
      BY <2>1, <2>2
  <1> QED
    BY <1>2, <1>4 DEF Guarded, Applying, NoUI

LEMMA ClosedKeeps == Typed /\ IInv /\ Closed => Typed' /\ IInv'
  <1> SUFFICES ASSUME Typed, IInv, Closed PROVE Typed' /\ IInv'
    OBVIOUS
  <1>1. Typed'
    <2>1. TypedUI'
      BY DEF Closed, Typed, TypedUI
    <2> QED
      BY <2>1 DEF Closed, Typed, Stored, Counted, ctl, book
  <1>2. Silenced' /\ Orderly'
    BY DEF Closed, IInv, Silenced, Orderly, Ordered, Gone, Idle, ctl, book
  <1>3. Live' /\ ~failed' => Guarded'
    BY DEF Closed, IInv, Live, Guarded, Clean, NoUI, Decided, Guided, Addition, Removal,
           Turning, Wanted, ctl, book
  <1> QED
    BY <1>1, <1>2, <1>3 DEF IInv

\* The retry goroutine's steps between two attempts.
LEMMA RetryMovesKeeps ==
    ASSUME Typed, IInv, retry \in {"idle", "waiting"}, retry' \in {"idle", "waiting", "ended"},
           UNCHANGED <<stage, ctl, mu, settings, saved, server, closing, failure, stopped, kept,
                       failed, events>>
    PROVE  Typed' /\ IInv'
  <1>1. Typed'
    BY DEF Typed, TypedUI, Stored, Counted, ctl, book
  <1>2. Silenced' /\ Orderly'
    BY DEF IInv, Silenced, Orderly, Ordered, Gone, Idle, ctl, book
  <1>3. Live' /\ ~failed' => Guarded'
    BY DEF IInv, Live, Guarded, Clean, NoUI, Decided, Guided, Addition, Removal,
           Turning, Wanted, ctl, book
  <1> QED
    BY <1>1, <1>2, <1>3 DEF IInv

LEMMA RetryKeeps == Typed /\ IInv /\ Retry => Typed' /\ IInv'
  <1> SUFFICES ASSUME Typed, IInv, Retry PROVE Typed' /\ IInv'
    OBVIOUS
  <1>1. CASE RetryTicks \/ RetryEnds
    BY <1>1, RetryMovesKeeps DEF RetryTicks, RetryEnds
  <1>2. CASE RetryLocks /\ ~Retries
    BY <1>2, RetryMovesKeeps DEF RetryLocks, ctl
  <1>3. CASE RetryLocks /\ Retries
    <2>0. /\ retry = "waiting" /\ mu = Free /\ mu' = "retry" /\ retry' = "applying"
          /\ Apply("retry", settings) /\ "retry" \in UICallers /\ "retry" \in Threads
          /\ UNCHANGED <<stage, lock, publishMu, book, manual, discovered, document, late,
                         settings, saved, closing, stopped, kept, failed, events>>
      BY <1>3 DEF RetryLocks, UICallers, Threads
    <2>1. Idle("retry") /\ Orderly /\ Silenced
      BY <2>0, Threads3 DEF IInv, Orderly, Ordered
    <2>2. PICK c \in AChange : Applying("retry", c, settings)
      BY <2>0, <2>1, ApplyFit
    <2>3. Typed'
      BY <2>0, <2>2 DEF Applying, Turned, Typed, TypedUI, Stored, Counted, book
    <2>4. Orderly'
      BY <2>0, <2>1, <2>2, ApplyOrderly
    <2>5. Silenced'
      <3>1. \A u \in Threads : u # "retry" => (Idle(u) <=> Idle(u)')
        BY <2>2 DEF Applying, Turned, Idle
      <3>2. "main" \in Threads /\ "socket" \in Threads /\ "http" \in Threads
        BY DEF Threads, UICallers
      <3>3. stage \notin PastRetry /\ stage # "off"
        BY <2>0, <2>1 DEF Silenced, Gone
      <3>4. \A v \in Workers : stage' \in Past(v) => Idle(v)'
        BY <2>0, <2>1, <3>1, Threads3, DaemonAssumption DEF Silenced, UICallers
      <3>5. call'["main"].step # "none" \/ mu' = "main" => stage' = "applying"
        BY <2>0, <2>1, <3>1, <3>2 DEF Silenced, Idle
      <3> QED
        BY <2>0, <3>3, <3>4, <3>5 DEF Silenced, PastRetry, PastSocket
    <2>6. Live' /\ ~failed' => Guarded'
      <3>1. Applying("retry", c, settings')
        BY <2>0, <2>2
      <3> QED
        BY <2>0, <2>1, <3>1, ApplyGuarded DEF IInv, Live, book
    <2> QED
      BY <2>3, <2>4, <2>5, <2>6 DEF IInv
  <1> QED
    BY <1>1, <1>2, <1>3 DEF Retry, RetryLocks

LEMMA UpdateKeeps == Typed /\ IInv /\ Update => Typed' /\ IInv'
  <1> SUFFICES ASSUME Typed, IInv, Update PROVE Typed' /\ IInv'
    OBVIOUS
  <1>0. /\ mu = Free /\ mu' = "socket" /\ Idle("socket") /\ Apply("socket", settings')
        /\ settings' \in [enabled : BOOLEAN, host : Hosts] /\ saved' = settings'
        /\ "socket" \in UICallers /\ "socket" \in Threads
        /\ UNCHANGED <<stage, lock, publishMu, book, manual, discovered, document, late,
                       closing, stopped, retry, kept, failed>>
    BY DEF Update, UICallers, Threads
  <1>1. Counted'
    BY Counting DEF Update, Typed
  <1>2. PICK c \in AChange : Applying("socket", c, settings')
    BY <1>0, ApplyFit DEF IInv
  <1>3. Typed'
    BY <1>0, <1>1, <1>2 DEF Applying, Turned, Typed, TypedUI, Stored, Counted, book
  <1>4. Orderly'
    BY <1>0, <1>2, ApplyOrderly DEF IInv
  <1>5. Silenced'
    <2>1. \A u \in Threads : u # "socket" => (Idle(u) <=> Idle(u)')
      BY <1>2 DEF Applying, Turned, Idle
    <2>2. "main" \in Threads /\ "retry" \in Threads /\ "http" \in Threads
      BY DEF Threads, UICallers
    <2>3. stage \notin PastSocket /\ stage # "off"
      BY PassedIs, StoppingIs DEF Update, Served, PastSocket, PastRetry
    <2>4. \A v \in Workers : stage' \in Past(v) => Idle(v)'
      BY <1>0, <2>1, Threads3 DEF Silenced, IInv
    <2>5. call'["main"].step # "none" \/ mu' = "main" => stage' = "applying"
      BY <1>0, <2>1, <2>2 DEF Silenced, IInv, Idle
    <2>6. /\ stage' \in PastRetry => retry' = "ended"
          /\ retry' # "applying" => Idle("retry")'
      BY <1>0, <2>1, <2>2 DEF Silenced, IInv
    <2> QED
      BY <1>0, <2>3, <2>4, <2>5, <2>6 DEF Silenced, PastSocket
  <1>6. Live' /\ ~failed' => Guarded'
    BY <1>0, <1>2, ApplyGuarded DEF IInv, Live, book
  <1> QED
    BY <1>3, <1>4, <1>5, <1>6 DEF IInv

-----------------------------------------------------------------------------
(* main                                                                    *)

LEMMA StartKeeps == Typed /\ IInv /\ Start => Typed' /\ IInv'
  <1> SUFFICES ASSUME Typed, IInv, Start PROVE Typed' /\ IInv'
    OBVIOUS
  <1>0. /\ stage = "off" /\ stage' = "applying" /\ document' = {} /\ settings' = saved
        /\ mu' = "main" /\ Apply("main", saved) /\ retry' = "off" /\ late' = FALSE
        /\ "main" \in UICallers /\ "main" \in Threads
        /\ UNCHANGED <<lock, publishMu, book, manual, discovered, saved, closing, stopped,
                       kept, failed, events>>
    BY DEF Start, UICallers, Threads
  <1>1. Gone /\ Orderly
    BY <1>0 DEF IInv, Silenced
  <1>2. PICK c \in AChange : Applying("main", c, settings')
    BY <1>0, <1>1, ApplyFit DEF Gone, Idle
  <1>3. Typed'
    BY <1>0, <1>2, StagesAre DEF Applying, Turned, Typed, TypedUI, Stored, Counted, book
  <1>4. Orderly'
    BY <1>0, <1>1, <1>2, ApplyOrderly DEF Gone
  <1>5. Silenced'
    <2>1. \A u \in Threads : u # "main" => Idle(u)'
      BY <1>1, <1>2 DEF Applying, Turned, Idle, Gone
    <2>2. "retry" \in Threads /\ "socket" \in Threads /\ "http" \in Threads
      BY DEF Threads, UICallers
    <2>3. \A w \in Workers : Idle(w)'
      BY <1>0, <2>1, Threads3
    <2> QED
      BY <1>0, <2>1, <2>2, <2>3 DEF Silenced, PastRetry, PastSocket
  <1>6. Guarded'
    <2>1. UNCHANGED <<claims, manual>>
      BY <1>0 DEF book
    <2>2. \A u \in Threads : call'[u].step \in {"none", "waiting", "done"}
      BY <1>1, <1>2 DEF Applying, Turned, Gone
    <2>3. Clean'
      BY <1>0, <1>1, <2>1, <2>2 DEF Clean, NoUI, Gone
    <2>4. ASSUME NEW u \in Threads PROVE Guided(u)'
      <3>1. CASE u = "main"
        BY <1>2, <3>1 DEF Applying, Turned, Guided, Addition, Removal, OnUI, Wanted
      <3>2. CASE u # "main"
        BY <1>1, <1>2, <3>2 DEF Applying, Turned, Gone, Guided, Orderly, Ordered, Idle, OnUI
      <3> QED
        BY <3>1, <3>2
    <2> QED
      BY <1>1, <2>1, <2>2, <2>3, <2>4 DEF Guarded, Gone
  <1> QED
    BY <1>3, <1>4, <1>5, <1>6 DEF IInv

\* The process has ended.
LEMMA DiesKeeps ==
    ASSUME Typed, Dies, document' = document, saved' = saved, late' = late
    PROVE  Typed' /\ IInv'
  <1>1. call' \in Calls /\ \A t \in Threads : call'[t] = NoCall
    BY NoCallFit DEF Dies, Calls
  <1>2. Fresh \in [enabled : BOOLEAN, host : Hosts]
    BY DEF Fresh, Hosts
  <1>3. Counted'
    BY DaemonAssumption DEF Dies, Counted
  <1>4. Typed'
    BY <1>1, <1>2, <1>3, StagesAre DEF Typed, TypedUI, Stored, Leases, Dies
  <1>5. Gone'
    BY <1>1, NoCallFit DEF Gone, Dies
  <1>6. Silenced'
    <2>1. "main" \in Threads /\ "retry" \in Threads /\ "socket" \in Threads /\ "http" \in Threads
      BY DEF Threads, UICallers
    <2>2. \A t \in Threads : Idle(t)'
      BY <1>1, NoCallFit DEF Idle
    <2> QED
      BY <1>5, <2>1, <2>2, Threads3 DEF Silenced, Dies, PastRetry, PastSocket, Idle, Free
  <1>7. Orderly'
    BY <1>1, NoCallFit DEF Orderly, Ordered, Locking, Idle
  <1> QED
    BY <1>4, <1>6, <1>7 DEF IInv, Live, Dies

\* Nothing but the stage changes, up to the shutdown.
LEMMA StageKeeps == Typed /\ IInv /\ (Listen \/ Terminate) => Typed' /\ IInv'
  <1> SUFFICES ASSUME Typed, IInv, Listen \/ Terminate PROVE Typed' /\ IInv'
    OBVIOUS
  <1>1. /\ UNCHANGED <<ctl, ui, events>>
        /\ \/ stage = "listening" /\ stage' = "running"
           \/ stage = "running" /\ stage' = "sweep"
    BY OrderIs DEF Listen, Terminate
  <1>2. Typed'
    BY <1>1, StagesAre DEF Typed, TypedUI, Stored, Counted, ctl, book, ui
  <1>3. \A w \in Workers : stage' \notin Past(w)
    BY <1>1, DaemonAssumption DEF Past, PastSweep, PastRenew, PastScan, PastRetry, PastSocket
  <1>4. Silenced'
    BY <1>1, <1>3 DEF IInv, Silenced, Idle, PastRetry, PastSocket, ctl, ui
  <1>5. Orderly'
    BY <1>1 DEF IInv, Orderly, Ordered, Idle, ctl, ui
  <1>6. Live' /\ ~failed' => Guarded'
    BY <1>1 DEF IInv, Live, Guarded, Clean, NoUI, Decided, Guided, Addition, Removal,
        Turning, Wanted, ctl, book, ui
  <1> QED
    BY <1>2, <1>4, <1>5, <1>6 DEF IInv

\* Shutdown goes on when the stage's goroutine has been stopped.
LEMMA AdvanceKeeps ==
    ASSUME IInv,
           stage \in {"sweep", "renew", "scan", "webui", "retry", "socket", "clear", "empty"},
           stage' = After(stage), UNCHANGED <<call, lock, publishMu, mu, retry>>,
           stage \in Workers => Idle(stage),
           stage = "retry" => retry = "ended",
           stage = "socket" => Idle("socket"),
           IF stage = "clear" THEN late' = ~Idle("http") ELSE late' = late,
           stage = "empty" /\ ~failed' => document' = {}
    PROVE  Silenced' /\ Orderly' /\ ~Live'
  <1>1. /\ stage = "sweep" => stage' = "renew"
        /\ stage = "renew" => stage' = "scan"
        /\ stage = "scan" => stage' = "webui"
        /\ stage = "webui" => stage' = "retry"
        /\ stage = "retry" => stage' = "socket"
        /\ stage = "socket" => stage' = "clear"
        /\ stage = "clear" => stage' = "empty"
        /\ stage = "empty" => stage' = "http"
    BY AfterIs
  <1>2. ASSUME NEW w \in Workers, stage' \in Past(w) PROVE Idle(w)'
    <2>1. w \in {"sweep", "renew", "scan"}
      BY DaemonAssumption
    <2>2. stage \in Past(w) \/ stage = w
      BY <1>1, <1>2, <2>1 DEF Past, PastSweep, PastRenew, PastScan, PastRetry, PastSocket
    <2> QED
      BY <2>2 DEF IInv, Silenced, Idle
  <1>3. call'["main"].step # "none" \/ mu' = "main" => stage' = "applying"
    BY DEF IInv, Silenced
  <1>4. /\ stage' \in PastRetry => retry' = "ended"
        /\ retry' # "applying" => Idle("retry")'
        /\ stage' \in PastSocket => Idle("socket")'
    BY <1>1 DEF IInv, Silenced, Idle, PastRetry, PastSocket
  <1>5. stage' \in {"empty", "http"} /\ ~late' => Idle("http")'
    BY <1>1 DEF IInv, Silenced, Idle
  <1>6. stage' = "http" /\ ~late' /\ ~failed' => document' = {}
    BY <1>1
  <1>7. stage' # "off" /\ ~Live'
    BY <1>1 DEF Live
  <1>8. Orderly'
    BY DEF IInv, Orderly, Ordered, Idle
  <1> QED
    BY <1>2, <1>3, <1>4, <1>5, <1>6, <1>7, <1>8 DEF Silenced

LEMMA ShutdownKeeps == Typed /\ IInv /\ Shutdown => Typed' /\ IInv'
  <1> SUFFICES ASSUME Typed, IInv, Shutdown PROVE Typed' /\ IInv'
    OBVIOUS
  <1>0. ASSUME stage \in {"sweep", "renew", "scan", "webui", "retry", "socket", "clear", "empty"},
               stage' = After(stage)
        PROVE  stage' \in Stages
    BY <1>0, AfterIs, StagesAre
  <1>1. CASE StopWorker
    <2>1. Typed'
      BY <1>0, <1>1 DEF StopWorker, Typed, TypedUI, Stored, Counted, ctl, book, ui
    <2> QED
      BY <1>1, <2>1, AdvanceKeeps DEF StopWorker, IInv, ctl, ui
  <1>2. CASE StopUI
    <2>1. mu' = mu
      BY <1>2 DEF StopUI, MuAfterMark
    <2>2. Typed'
      BY <1>0, <1>2, <2>1 DEF StopUI, Typed, TypedUI, Stored, Counted, ctl, book
    <2>3. "webui" \notin Workers
      BY DaemonAssumption
    <2> QED
      BY <1>2, <2>1, <2>2, <2>3, AdvanceKeeps DEF StopUI, IInv, ctl
  <1>3. CASE AwaitRetry
    <2>1. mu' = mu
      BY <1>3 DEF AwaitRetry, IInv, Silenced
    <2>2. Typed'
      BY <1>0, <1>3, <2>1 DEF AwaitRetry, Typed, TypedUI, Stored, Counted, ctl, book
    <2>3. "retry" \notin Workers
      BY DaemonAssumption
    <2> QED
      BY <1>3, <2>1, <2>2, <2>3, AdvanceKeeps DEF AwaitRetry, IInv, ctl
  <1>4. CASE CloseSocket
    <2>1. Typed'
      BY <1>0, <1>4 DEF CloseSocket, Typed, TypedUI, Stored, Counted, ctl, book, ui
    <2>2. "socket" \notin Workers
      BY DaemonAssumption
    <2> QED
      BY <1>4, <2>1, <2>2, AdvanceKeeps DEF CloseSocket, IInv, ctl, ui
  <1>5. CASE Clear
    <2>1. late' \in BOOLEAN
      BY <1>5 DEF Clear, Idle
    <2>2. Typed'
      BY <1>0, <1>5, <2>1 DEF Clear, Typed, TypedUI, Stored, Counted, book, ui
    <2>3. "clear" \notin Workers
      BY DaemonAssumption
    <2> QED
      BY <1>5, <2>2, <2>3, AdvanceKeeps DEF Clear, IInv, ui
  <1>6. CASE WriteEmpty
    <2>1. document' \in {{}, document} /\ failed' \in BOOLEAN /\ Counted'
          /\ (~failed' => document' = {})
      <3>1. CASE document' = {} /\ UNCHANGED <<events, failed>>
        BY <3>1 DEF Typed, TypedUI, Counted
      <3>2. CASE /\ document' = document /\ failed' = TRUE /\ Happens
        BY <3>2, Counting DEF Typed
      <3> QED
        BY <1>6, <3>1, <3>2 DEF WriteEmpty
    <2>2. Typed'
      BY <1>0, <1>6, <2>1 DEF WriteEmpty, Typed, TypedUI, Stored, Counted, book
    <2>3. "empty" \notin Workers
      BY DaemonAssumption
    <2> QED
      BY <1>6, <2>1, <2>2, <2>3, AdvanceKeeps DEF WriteEmpty, IInv
  <1>7. CASE Exit
    BY <1>7, DiesKeeps DEF Exit
  <1> QED
    BY <1>1, <1>2, <1>3, <1>4, <1>5, <1>6, <1>7 DEF Shutdown

LEMMA CrashKeeps == Typed /\ IInv /\ Crash => Typed' /\ IInv'
  BY DiesKeeps DEF Crash

-----------------------------------------------------------------------------
(* What the daemon leaves and offers                                       *)

LEMMA InitHolds == Init => Typed /\ IInv
  <1> SUFFICES ASSUME Init PROVE Typed /\ IInv
    OBVIOUS
  <1>1. call \in Calls /\ \A t \in Threads : call[t] = NoCall
    BY NoCallFit DEF Init, Calls
  <1>2. Counted
    BY DaemonAssumption DEF Init, Counted
  <1>3. TypedUI
    <2>1. settings \in [enabled : BOOLEAN, host : Hosts]
      BY DEF Init, Fresh, Hosts
    <2>2. saved \in [enabled : BOOLEAN, host : Hosts]
      BY DEF Init, Hosts
    <2> QED
      BY <2>1, <2>2 DEF Init, TypedUI
  <1>4. Typed
    BY <1>1, <1>2, <1>3, StagesAre DEF Init, Typed, Stored, Routes, Leases
  <1>5. Gone /\ Orderly
    BY <1>1, NoCallFit DEF Init, Gone, Orderly, Ordered, Locking, Idle
  <1>6. "main" \in Threads /\ "retry" \in Threads /\ "socket" \in Threads /\ "http" \in Threads
    BY DEF Threads, UICallers
  <1>7. Silenced
    BY <1>5, <1>6, Threads3 DEF Init, Silenced, Gone, Idle, Free, PastRetry, PastSocket
  <1> QED
    BY <1>4, <1>5, <1>7 DEF Init, IInv, Live

LEMMA StepKeeps == Typed /\ IInv /\ [Next]_vars => Typed' /\ IInv'
  <1> SUFFICES ASSUME Typed, IInv, [Next]_vars PROVE Typed' /\ IInv'
    OBVIOUS
  <1>1. ASSUME Start \/ Listen \/ Terminate \/ Shutdown \/ Crash PROVE Typed' /\ IInv'
    BY <1>1, StartKeeps, StageKeeps, ShutdownKeeps, CrashKeeps
  <1>2. ASSUME Retry \/ Closed \/ Update \/ Request \/ Heartbeat \/ Lapse PROVE Typed' /\ IInv'
    BY <1>2, RetryKeeps, ClosedKeeps, UpdateKeeps, RequestKeeps, HeartbeatKeeps, LapseKeeps
  <1>3. ASSUME NEW w \in Workers, Works(w) PROVE Typed' /\ IInv'
    BY <1>3, WorksKeeps
  <1>4. ASSUME NEW t \in Threads, Publication(t) \/ WriteFails(t) PROVE Typed' /\ IInv'
    BY <1>4, CheckKeeps, StoreKeeps, DropKeeps, SnapshotKeeps, WriteKeeps, AppliedKeeps,
       WriteFailsKeeps DEF Publication
  <1>5. CASE UNCHANGED vars
    <2>1. Typed'
      BY <1>5 DEF vars, ctl, book, ui, Typed, TypedUI, Stored, Counted
    <2>2. Silenced' /\ Orderly'
      BY <1>5 DEF vars, ctl, book, ui, IInv, Silenced, Orderly, Ordered, Gone, Idle
    <2>3. Live' /\ ~failed' => Guarded'
      BY <1>5 DEF vars, ctl, book, ui, IInv, Live, Guarded, Clean, NoUI, Decided, Guided,
          Addition, Removal, Turning, Wanted
    <2> QED
      BY <2>1, <2>2, <2>3 DEF IInv
  <1> QED
    BY <1>1, <1>2, <1>3, <1>4, <1>5 DEF Next

(* Types; who is silent at which stage of the shutdown; and how the web    *)
(* UI's route goes with its server.                                        *)
THEOREM DaemonInvariant == Spec => [](Typed /\ IInv)
  <1>1. Init => Typed /\ IInv
    BY InitHolds
  <1>2. Typed /\ IInv /\ [Next]_vars => Typed' /\ IInv'
    BY StepKeeps
  <1> QED
    BY <1>1, <1>2, PTL DEF Spec

(* A daemon that was shut down leaves no route in Traefik's document       *)
(* (shutdown.Manager and the callbacks of main.go, in their order).        *)
THEOREM NothingIsLeft == Spec => []ShutdownLeavesNoRoute
  <1>1. Typed /\ IInv => ShutdownLeavesNoRoute
    BY DEF IInv, Silenced, ShutdownLeavesNoRoute
  <1> QED
    BY <1>1, DaemonInvariant, PTL

(* As long as the daemon runs, the web UI's hostname leads to its server   *)
(* (webui.Manager.applyLocked: the server is started before the route is   *)
(* published and closed after its removal), unless the removal was refused *)
(* or a write has failed.                                                  *)
THEOREM UIRoutesAreServed == Spec => []UIRouteHasServer
  <1>1. Typed /\ IInv => UIRouteHasServer
    <2> SUFFICES ASSUME Typed, IInv, stage \in Starting \cup {"running"},
                        document \cap UIRoutes # {}, ~kept, ~failed
                 PROVE  server = "up"
      BY DEF UIRouteHasServer
    <2>1. Guarded
      BY DEF IInv, Live, Starting
    <2> QED
      BY <2>1 DEF Guarded, Clean, NoUI, Typed, TypedUI
  <1> QED
    BY <1>1, DaemonInvariant, PTL

(* The variables of the daemon keep their types.                           *)
THEOREM TypeCorrect == Spec => []TypeOK
  <1>1. Typed => TypeOK
    BY DEF Typed, TypedUI, Stored, Counted, Calls, AChange, Steps, Ops, TypeOK
  <1> QED
    BY <1>1, DaemonInvariant, PTL

=============================================================================
