--------------------------- MODULE SessionChannel ---------------------------
(***************************************************************************)
(* The channel between one development session and the daemon: the         *)
(* session's Link (devsession/state/link.go), the daemon's socket server   *)
(* (socket/server.go) and its Hub (hub/hub.go).                            *)
(*                                                                         *)
(* The link dials out, registers its newest live state, sends an update    *)
(* whenever a newer one is published, and answers the daemon's requests in *)
(* goroutines of their own. The server runs one goroutine per connection,  *)
(* which inside Hub.Serve owns a peer: the last state received and the     *)
(* requests waiting for an answer. Either end may close at any time, the   *)
(* daemon may stop or crash and start again, and the link dials again.     *)
(*                                                                         *)
(* A live state is its version, a request is a member of Requests whose    *)
(* answer carries it back. The hub keeps sessions apart by their ID, so    *)
(* one session is modelled, with all its connections.                      *)
(***************************************************************************)
EXTENDS Naturals, Sequences, FiniteSets

CONSTANTS
    Conns,       \* connections; one is used again once nothing refers to it
    Requests,    \* calls of Hub.Request
    Stops,       \* those whose operation ends the session ("stop", "restart")
    MaxVersion,  \* how often the session publishes
    MaxFaults,   \* how many times something outside the protocol goes wrong
    None

ASSUME ChannelAssumption ==
    /\ Conns \subseteq Nat \ {0}
    /\ Stops \subseteq Requests
    /\ MaxVersion \in Nat /\ MaxFaults \in Nat
    /\ None \notin Conns \cup Requests \cup [to : Requests, answer : Requests]
    /\ "closed" \notin Requests \cup {None}

VARIABLES
    session,   \* "running", "stopping" (its context is cancelled), then Link.shutdown
    version,   \* Link.state, 0 before the first Publish
    storing,   \* Publish has stored the state and not yet offered the wake-up
    wake,      \* the wake channel, of capacity one, is full
    link,      \* the goroutine of Link.run and Link.session
    conn,      \* per connection: both ends, the frames in flight, the server's goroutine
    answers,   \* goroutines of Link.answer
    executed,  \* requests the session's handler has executed
    daemon,    \* "up", "closing" (Server.Close) or "down"
    listed,    \* Hub.sessions of this session: the connection of its peer
    request,   \* per request: the caller inside Hub.Request
    faults     \* faults so far

linkVars == <<session, version, storing, wake, link>>
hubVars  == <<daemon, listed, request>>
vars     == <<linkVars, conn, answers, executed, hubVars, faults>>

Frame(type, id, value) == [type |-> type, id |-> id, value |-> value]
Refusal == Frame("refusal", 0, 0)

(* A connection nobody uses: both ends are closed and no goroutine runs.   *)
Unused == [linkEnd |-> FALSE, hubEnd |-> FALSE, reading |-> FALSE,
           toHub |-> <<>>, toLink |-> <<>>, pc |-> "gone",
           live |-> 0, pending |-> {}, nextID |-> 0, hand |-> None]

(* What is left of a connection whose server goroutine has returned.       *)
Gone(k) == [Unused EXCEPT !.linkEnd = k.linkEnd, !.reading = k.reading,
                          !.toLink = k.toLink]

Idle == [pc |-> "idle", conn |-> None, id |-> 0, waiter |-> None]

Init ==
    /\ session = "running" /\ version = 0 /\ storing = FALSE /\ wake = FALSE
    /\ link = [pc |-> "trying", conn |-> None, held |-> None, sent |-> 0]
    /\ conn = [c \in Conns |-> Unused]
    /\ answers = {} /\ executed = {}
    /\ daemon = "up" /\ listed = None
    /\ request = [r \in Requests |-> Idle]
    /\ faults = 0

Fault == faults < MaxFaults /\ faults' = faults + 1

Cancelled == session \in {"cancelled", "closed"}
InFlight(r) == request[r].pc \in {"sending", "waiting"}

(* A write succeeds while both ends are open; a read also returns the      *)
(* frames that were buffered before the connection was closed.             *)
Writable(c) == conn[c].linkEnd /\ conn[c].hubEnd
HubAtEnd(c) ==
    \/ ~conn[c].hubEnd
    \/ ~conn[c].linkEnd /\ conn[c].toHub = <<>>
LinkAtEnd(c) ==
    \/ ~conn[c].linkEnd
    \/ ~conn[c].hubEnd /\ conn[c].toLink = <<>>

Free(c) ==
    /\ conn[c].pc = "gone" /\ ~conn[c].linkEnd /\ ~conn[c].reading
    /\ link.conn # c
    /\ \A a \in answers : a.conn # c
    /\ \A r \in Requests : InFlight(r) => request[r].conn # c

-----------------------------------------------------------------------------
(* The session's side.                                                     *)

(* Link.Publish, which Store.WriteLive calls under its lock: the state is  *)
(* stored first and the wake-up offered after it.                          *)
PublishStore ==
    /\ session \in {"running", "stopping"} /\ ~storing /\ version < MaxVersion
    /\ version' = version + 1 /\ storing' = TRUE
    /\ UNCHANGED <<session, wake, link, conn, answers, executed, hubVars, faults>>

PublishWake ==
    /\ storing
    /\ storing' = FALSE /\ wake' = TRUE
    /\ UNCHANGED <<session, version, link, conn, answers, executed, hubVars, faults>>

(* The session ends: by itself, or by a stop operation (see Execute).      *)
EndSession ==
    /\ session = "running" /\ session' = "stopping"
    /\ UNCHANGED <<version, storing, wake, link, conn, answers, executed, hubVars, faults>>

(* ControlServer.Close calls Link.shutdown: first the context, then the    *)
(* connection the link holds at that moment.                               *)
CloseCancels ==
    /\ session = "stopping" /\ session' = "cancelled"
    /\ UNCHANGED <<version, storing, wake, link, conn, answers, executed, hubVars, faults>>

CloseDisconnects ==
    /\ session = "cancelled" /\ session' = "closed"
    /\ conn' = IF link.held = None THEN conn
               ELSE [conn EXCEPT ![link.held].linkEnd = FALSE]
    /\ UNCHANGED <<version, storing, wake, link, answers, executed, hubVars, faults>>

LinkGoes(pc) == link' = [link EXCEPT !.pc = pc]
linkOnly == <<session, version, storing, answers, executed, hubVars, faults>>

(* The head of the loop of Link.run: with a state to register, it dials.   *)
TryStop ==
    /\ link.pc = "trying" /\ Cancelled
    /\ LinkGoes("done")
    /\ UNCHANGED <<linkOnly, wake, conn>>

TryNothing ==
    /\ link.pc = "trying" /\ ~Cancelled
    /\ version = 0 \/ daemon # "up"
    /\ LinkGoes("resting")
    /\ UNCHANGED <<linkOnly, wake, conn>>

Dial ==
    /\ link.pc = "trying" /\ ~Cancelled /\ version > 0 /\ daemon = "up"
    /\ \E c \in Conns :
         /\ Free(c) /\ \A d \in Conns : d < c => ~Free(d)
         /\ conn' = [conn EXCEPT ![c] = [Unused EXCEPT !.linkEnd = TRUE, !.hubEnd = TRUE,
                                                       !.pc = "backlog"]]
         /\ link' = [link EXCEPT !.pc = "dialed", !.conn = c, !.sent = version]
    /\ UNCHANGED <<linkOnly, wake>>

(* The connection becomes visible to Link.shutdown.                        *)
Hold ==
    /\ link.pc = "dialed"
    /\ link' = [link EXCEPT !.pc = "held", !.held = link.conn]
    /\ UNCHANGED <<linkOnly, wake, conn>>

Register ==
    /\ link.pc = "held" /\ Writable(link.conn)
    /\ conn' = [conn EXCEPT
                  ![link.conn].toHub = Append(@, Frame("register", 0, link.sent)),
                  ![link.conn].reading = TRUE]
    /\ LinkGoes("checking")
    /\ UNCHANGED <<linkOnly, wake>>

(* The loop of Link.session: a state other than the last one sent is sent. *)
Check ==
    /\ link.pc = "checking"
    /\ link' = [link EXCEPT !.pc = IF version # link.sent THEN "sending" ELSE "selecting",
                            !.sent = version]
    /\ UNCHANGED <<linkOnly, wake, conn>>

SendState ==
    /\ link.pc = "sending" /\ Writable(link.conn)
    /\ conn' = [conn EXCEPT ![link.conn].toHub = Append(@, Frame("state", 0, link.sent))]
    /\ LinkGoes("selecting")
    /\ UNCHANGED <<linkOnly, wake>>

WriteFails ==
    /\ link.pc \in {"held", "sending"} /\ ~Writable(link.conn)
    /\ LinkGoes("leaving")
    /\ UNCHANGED <<linkOnly, wake, conn>>

(* The ten-second write deadline passes: the daemon does not read.         *)
WriteExpires ==
    /\ link.pc \in {"held", "sending"} /\ Writable(link.conn)
    /\ Fault
    /\ LinkGoes("leaving")
    /\ UNCHANGED <<session, version, storing, wake, conn, answers, executed, hubVars>>

SelectWake ==
    /\ link.pc = "selecting" /\ wake
    /\ wake' = FALSE /\ LinkGoes("checking")
    /\ UNCHANGED <<linkOnly, conn>>

SelectEnd ==
    /\ link.pc = "selecting" /\ (Cancelled \/ ~conn[link.conn].reading)
    /\ LinkGoes("leaving")
    /\ UNCHANGED <<linkOnly, wake, conn>>

(* Variant: the connection is forgotten without being closed.              *)
LeaveOpen ==
    /\ link.pc = "leaving"
    /\ link' = [link EXCEPT !.pc = "resting", !.conn = None, !.held = None]
    /\ UNCHANGED <<linkOnly, wake, conn>>

(* The deferred function of Link.session.                                  *)
Leave ==
    /\ link.pc = "leaving"
    /\ conn' = [conn EXCEPT ![link.conn].linkEnd = FALSE]
    /\ link' = [link EXCEPT !.pc = "resting", !.conn = None, !.held = None]
    /\ UNCHANGED <<linkOnly, wake>>

(* The select of Link.run: the context, a wake-up or two seconds.          *)
Rest ==
    /\ link.pc = "resting"
    /\ \/ Cancelled /\ LinkGoes("done") /\ wake' = wake
       \/ wake /\ LinkGoes("trying") /\ wake' = FALSE
       \/ ~Cancelled /\ LinkGoes("trying") /\ wake' = wake
    /\ UNCHANGED <<linkOnly, conn>>

(* The reading goroutine of Link.session.                                  *)
LinkRead(c) ==
    /\ conn[c].reading /\ conn[c].toLink # <<>>
    /\ LET frame == Head(conn[c].toLink) IN
         /\ conn' = [conn EXCEPT ![c].toLink = Tail(@),
                                 ![c].reading = frame # Refusal]
         /\ answers' = IF frame = Refusal THEN answers
                       ELSE answers \cup {[conn |-> c, id |-> frame.id,
                                           req |-> frame.value, done |-> FALSE]}
    /\ UNCHANGED <<linkVars, executed, hubVars, faults>>

LinkReadEnds(c) ==
    /\ conn[c].reading /\ LinkAtEnd(c)
    /\ conn' = [conn EXCEPT ![c].reading = FALSE, ![c].toLink = <<>>]
    /\ UNCHANGED <<linkVars, answers, executed, hubVars, faults>>

(* Link.answer: the session's handler, then the reply on the connection    *)
(* the request came from. A stop cancels the session's context.            *)
Execute(a) ==
    /\ ~a.done
    /\ answers' = (answers \ {a}) \cup {[a EXCEPT !.done = TRUE]}
    /\ executed' = executed \cup {a.req}
    /\ session' = IF a.req \in Stops /\ session = "running" THEN "stopping" ELSE session
    /\ UNCHANGED <<version, storing, wake, link, conn, hubVars, faults>>

Reply(a) ==
    /\ a.done
    /\ answers' = answers \ {a}
    /\ conn' = IF Writable(a.conn)
               THEN [conn EXCEPT ![a.conn].toHub = Append(@, Frame("response", a.id, a.req))]
               ELSE conn
    /\ UNCHANGED <<linkVars, executed, hubVars, faults>>

-----------------------------------------------------------------------------
(* The daemon's side.                                                      *)

serverOnly == <<linkVars, answers, executed, faults>>

(* Server.serve hands an accepted connection to a goroutine.               *)
Accept(c) ==
    /\ daemon = "up" /\ conn[c].pc = "backlog"
    /\ conn' = [conn EXCEPT ![c].pc = "first"]
    /\ UNCHANGED <<serverOnly, hubVars>>

(* Server.handle turns the peer away, or the ten seconds for its first     *)
(* frame pass.                                                             *)
Refuse(c) ==
    /\ conn[c].pc = "first" /\ Fault
    /\ conn' = [conn EXCEPT ![c] = [Gone(conn[c]) EXCEPT
                    !.toLink = IF Writable(c) THEN Append(@, Refusal) ELSE @]]
    /\ UNCHANGED <<linkVars, answers, executed, hubVars>>

FirstFails(c) ==
    /\ conn[c].pc = "first" /\ HubAtEnd(c)
    /\ conn' = [conn EXCEPT ![c] = Gone(@)]
    /\ UNCHANGED <<serverOnly, hubVars>>

(* The first frame starts Hub.Serve: its peer replaces the session's       *)
(* previous one, whose connection is closed.                               *)
ClosesPrevious(c) ==
    IF listed = None THEN conn ELSE [conn EXCEPT ![listed].hubEnd = FALSE]

Enter(c) ==
    /\ conn[c].pc = "first" /\ conn[c].toHub # <<>>
    /\ conn' = [ClosesPrevious(c) EXCEPT ![c].toHub = Tail(@), ![c].pc = "serving",
                                         ![c].live = Head(conn[c].toHub).value]
    /\ listed' = c
    /\ UNCHANGED <<serverOnly, daemon, request>>

ServeState(c) ==
    /\ conn[c].pc = "serving" /\ conn[c].toHub # <<>>
    /\ Head(conn[c].toHub).type = "state"
    /\ conn' = [conn EXCEPT ![c].toHub = Tail(@), ![c].live = Head(conn[c].toHub).value]
    /\ UNCHANGED <<serverOnly, hubVars>>

(* A response takes its waiter out of pending under the lock; the waiter   *)
(* gets it after the unlock. The answer to a request that has given up     *)
(* finds no waiter.                                                        *)
ServeResponse(c) ==
    /\ conn[c].pc = "serving" /\ conn[c].toHub # <<>>
    /\ LET frame == Head(conn[c].toHub)
           waiting == {p \in conn[c].pending : p.id = frame.id}
       IN /\ frame.type = "response"
          /\ conn' = [conn EXCEPT
                 ![c].toHub = Tail(@),
                 ![c].pending = @ \ waiting,
                 ![c].pc = IF waiting = {} THEN "serving" ELSE "handing",
                 ![c].hand = IF waiting = {} THEN None
                             ELSE [to |-> (CHOOSE p \in waiting : TRUE).req, answer |-> frame.value]]
    /\ UNCHANGED <<serverOnly, hubVars>>

(* The waiter is a channel of capacity one: handing over never blocks on a *)
(* caller that has given up.                                               *)
HandOver(c) ==
    /\ conn[c].pc = "handing"
    /\ conn' = [conn EXCEPT ![c].pc = "serving", ![c].hand = None]
    /\ request' = [request EXCEPT ![conn[c].hand.to].waiter =
                      IF InFlight(conn[c].hand.to) THEN conn[c].hand.answer ELSE @]
    /\ UNCHANGED <<serverOnly, daemon, listed>>

(* The read fails: the deferred function removes the peer, if it still is  *)
(* the session's, and closes the waiters.                                  *)
(* Variants: whoever is the session's peer is removed; the waiters are     *)
(* left alone.                                                             *)
AlwaysRemoved(c) == None
NoWaiters(c) == {}

RemovedIfListed(c) == IF listed = c THEN None ELSE listed
WaitersOf(c) == {p.req : p \in conn[c].pending}

ServeEnds(c) ==
    /\ conn[c].pc = "serving" /\ HubAtEnd(c)
    /\ listed' = RemovedIfListed(c)
    /\ request' = [r \in Requests |->
                     IF r \in WaitersOf(c) THEN [request[r] EXCEPT !.waiter = "closed"]
                     ELSE request[r]]
    /\ conn' = [conn EXCEPT ![c] = Gone(@)]
    /\ UNCHANGED <<serverOnly, daemon>>

-----------------------------------------------------------------------------
(* Hub.Request.                                                            *)

requestOnly == <<linkVars, answers, executed, daemon, listed, faults>>
Returns(r, outcome) == request' = [request EXCEPT ![r] = [Idle EXCEPT !.pc = outcome]]

(* cancel: the waiter is taken out of pending.                             *)
Forgets(r) ==
    [conn EXCEPT ![request[r].conn].pending = {p \in @ : p.req # r}]

NotConnected(r) ==
    /\ request[r].pc = "idle" /\ daemon # "down" /\ listed = None
    /\ Returns(r, "notfound")
    /\ UNCHANGED <<requestOnly, conn>>

(* Variant: identifiers count the pending requests.                        *)
CountID(c) == Cardinality(conn[c].pending) + 1
FreshID(c) == conn[c].nextID + 1

Enqueue(r) ==
    /\ request[r].pc = "idle" /\ daemon # "down" /\ listed # None
    /\ LET id == FreshID(listed) IN
         /\ conn' = [conn EXCEPT ![listed].nextID = id,
                                 ![listed].pending = @ \cup {[id |-> id, req |-> r]}]
         /\ request' = [request EXCEPT ![r] = [pc |-> "sending", conn |-> listed,
                                               id |-> id, waiter |-> None]]
    /\ UNCHANGED requestOnly

SendRequest(r) ==
    /\ request[r].pc = "sending" /\ Writable(request[r].conn)
    /\ conn' = [conn EXCEPT ![request[r].conn].toLink =
                               Append(@, Frame("request", request[r].id, r))]
    /\ request' = [request EXCEPT ![r].pc = "waiting"]
    /\ UNCHANGED requestOnly

SendFails(r) ==
    /\ request[r].pc = "sending" /\ ~Writable(request[r].conn)
    /\ conn' = Forgets(r)
    /\ Returns(r, "failed")
    /\ UNCHANGED requestOnly

(* The caller's context ends, whether or not an answer has come.           *)
GiveUp(r) ==
    /\ request[r].pc = "waiting"
    /\ conn' = Forgets(r)
    /\ Returns(r, "timeout")
    /\ UNCHANGED requestOnly

Answered(r) ==
    /\ request[r].pc = "waiting" /\ request[r].waiter # None
    /\ request' = [request EXCEPT ![r].pc =
                      IF request[r].waiter = "closed" THEN "notfound" ELSE "answered"]
    /\ UNCHANGED <<requestOnly, conn>>

-----------------------------------------------------------------------------
(* The daemon's life: Server.Close and its wait, a crash, a new process.   *)

(* Server.Close closes the listener, with the connections in its backlog,  *)
(* and every accepted connection; their goroutines notice by themselves.   *)
StopDaemon ==
    /\ daemon = "up" /\ Fault
    /\ daemon' = "closing"
    /\ conn' = [c \in Conns |-> IF conn[c].pc = "backlog" THEN Gone(conn[c])
                                ELSE [conn[c] EXCEPT !.hubEnd = FALSE]]
    /\ UNCHANGED <<linkVars, answers, executed, listed, request>>

Interrupted ==
    [r \in Requests |-> IF InFlight(r) THEN [Idle EXCEPT !.pc = "aborted"] ELSE request[r]]

ExitDaemon ==
    /\ daemon = "closing" /\ \A c \in Conns : conn[c].pc = "gone"
    /\ daemon' = "down" /\ request' = Interrupted
    /\ UNCHANGED <<serverOnly, conn, listed>>

CrashDaemon ==
    /\ daemon # "down" /\ Fault
    /\ daemon' = "down" /\ listed' = None /\ request' = Interrupted
    /\ conn' = [c \in Conns |-> Gone(conn[c])]
    /\ UNCHANGED <<linkVars, answers, executed>>

StartDaemon ==
    /\ daemon = "down" /\ daemon' = "up"
    /\ UNCHANGED <<serverOnly, conn, listed, request>>

(* Nothing is left to do once the session has ended and every call has     *)
(* returned; any other state without a successor is a deadlock.            *)
Terminated ==
    /\ session = "closed" /\ link.pc = "done" /\ answers = {} /\ daemon = "up"
    /\ \A c \in Conns : conn[c].pc = "gone" /\ ~conn[c].reading
    /\ \A r \in Requests : request[r].pc \notin {"idle", "sending", "waiting"}
    /\ UNCHANGED vars

LinkStep ==
    \/ TryStop \/ TryNothing \/ Dial \/ Hold \/ Register \/ Check \/ SendState
    \/ WriteFails \/ SelectWake \/ SelectEnd \/ Leave \/ Rest

CloseStep == CloseCancels \/ CloseDisconnects

ReaderStep(c) == LinkRead(c) \/ LinkReadEnds(c)
AnswerStep == \E a \in answers : Execute(a) \/ Reply(a)

ServerStep(c) ==
    \/ Accept(c) \/ FirstFails(c) \/ Enter(c) \/ ServeState(c)
    \/ ServeResponse(c) \/ HandOver(c) \/ ServeEnds(c)

RequestStep(r) == SendRequest(r) \/ SendFails(r) \/ Answered(r)

Next ==
    \/ PublishStore \/ PublishWake \/ EndSession \/ CloseStep
    \/ LinkStep \/ WriteExpires \/ AnswerStep
    \/ \E c \in Conns : ReaderStep(c) \/ ServerStep(c) \/ Refuse(c)
    \/ \E r \in Requests : NotConnected(r) \/ Enqueue(r) \/ RequestStep(r) \/ GiveUp(r)
    \/ StopDaemon \/ ExitDaemon \/ CrashDaemon \/ StartDaemon
    \/ Terminated

Spec == Init /\ [][Next]_vars

(* Goroutines that can run do run, the retry timer fires, and a daemon     *)
(* that is down is started again. Nothing makes the session publish or     *)
(* end, a caller give up, or a fault happen.                               *)
FairSpec ==
    /\ Spec
    /\ WF_vars(PublishWake) /\ WF_vars(CloseStep)
    /\ WF_vars(LinkStep) /\ WF_vars(AnswerStep)
    /\ \A c \in Conns : WF_vars(ReaderStep(c)) /\ WF_vars(ServerStep(c))
    /\ \A r \in Requests : WF_vars(RequestStep(r))
    /\ WF_vars(ExitDaemon) /\ WF_vars(StartDaemon)

-----------------------------------------------------------------------------
(* Properties.                                                             *)

Names == Requests \cup {None}
Frames == [type : {"register", "state"}, id : {0}, value : 1..MaxVersion]
            \cup [type : {"request", "response"}, id : Nat \ {0}, value : Requests]
            \cup {Refusal}

(* Every variable holds a value of its kind.                               *)
TypeOK ==
    /\ session \in {"running", "stopping", "cancelled", "closed"}
    /\ version \in 0..MaxVersion /\ storing \in BOOLEAN /\ wake \in BOOLEAN
    /\ link \in [pc : {"trying", "dialed", "held", "checking", "sending", "selecting",
                       "leaving", "resting", "done"},
                 conn : Conns \cup {None}, held : Conns \cup {None}, sent : 0..MaxVersion]
    /\ \A c \in Conns :
         /\ conn[c].pc \in {"backlog", "first", "serving", "handing", "gone"}
         /\ \A i \in 1..Len(conn[c].toHub) : conn[c].toHub[i] \in Frames
         /\ \A i \in 1..Len(conn[c].toLink) : conn[c].toLink[i] \in Frames
         /\ conn[c].live \in 0..MaxVersion
         /\ conn[c].pending \subseteq [id : 1..conn[c].nextID, req : Requests]
    /\ executed \subseteq Requests
    /\ daemon \in {"up", "closing", "down"} /\ listed \in Conns \cup {None}
    /\ \A r \in Requests :
         /\ request[r].pc \in {"idle", "sending", "waiting", "answered", "notfound",
                               "failed", "timeout", "aborted"}
         /\ request[r].waiter \in Names \cup {"closed"}
    /\ faults \in 0..MaxFaults

Served(c) == conn[c].pc \in {"serving", "handing"}

(* An answer belongs to the request it is given to, and the session has    *)
(* executed that request: across timeouts, late answers, replaced peers    *)
(* and daemons.                                                            *)
OwnAnswer ==
    \A r \in Requests : request[r].waiter \in Requests =>
        request[r].waiter = r /\ r \in executed

(* A caller inside Hub.Request can still be woken: its waiter has been     *)
(* used, or is pending with, or in the hands of, a running Hub.Serve.      *)
NoLostWaiter ==
    \A r \in Requests : InFlight(r) /\ request[r].waiter = None =>
        LET c == request[r].conn IN
            /\ Served(c)
            /\ \/ [id |-> request[r].id, req |-> r] \in conn[c].pending
               \/ conn[c].hand # None /\ conn[c].hand.to = r

(* Without a deadline of its own a call of Hub.Request returns, whatever   *)
(* happens to the connection, the session or the daemon.                   *)
RequestsReturn == \A r \in Requests : InFlight(r) ~> ~InFlight(r)

(* While the session runs, the daemon comes to show its newest state, and  *)
(* shows it from then on: no wake-up is lost, no old connection displaces  *)
(* a newer one for good, and a daemon that was restarted is found again.   *)
ShowsNewest ==
    [](session = "running") /\ <>(version > 0) =>
        <>[](listed # None /\ conn[listed].live = version)

(* Once the session has closed its link, the daemon does not list it.      *)
EndedIsRemoved == (session = "closed") ~> [](listed = None)
=============================================================================
