----------------------- MODULE SessionChannel_proofs -----------------------
(***************************************************************************)
(* Proofs about SessionChannel, for any number of connections, requests,   *)
(* publications and faults: an answer belongs to the request it is given   *)
(* to, and a caller inside Hub.Request can always be woken.                *)
(*                                                                         *)
(* Both rest on what the identifiers of one connection mean. A slip is a   *)
(* pair of identifier and request, wherever it is written: in pending, in  *)
(* a frame on its way, with a goroutine of the session, or with the        *)
(* caller. On a connection that is served, no two slips that share an      *)
(* identifier disagree once one of them is pending, and no slip is newer   *)
(* than nextID; one that is not yet served has none.                       *)
(***************************************************************************)
EXTENDS SessionChannel, SequenceTheorems, TLAPS

-----------------------------------------------------------------------------
(* The inductive invariant                                                 *)

IDs          == Nat \ {0}
Publications == [type : {"register", "state"}, id : {0}, value : 1..MaxVersion]
Responses    == [type : {"response"}, id : IDs, value : Requests]
Questions    == [type : {"request"}, id : IDs, value : Requests]
Slip         == [id : IDs, req : Requests]

ToHub        == Publications \cup Responses
ToLink       == Questions \cup {Refusal}

Connection ==
    [linkEnd : BOOLEAN, hubEnd : BOOLEAN, reading : BOOLEAN,
     toHub : Seq(ToHub), toLink : Seq(ToLink),
     pc : {"backlog", "first", "serving", "handing", "gone"},
     live : 0..MaxVersion, pending : SUBSET Slip, nextID : Nat,
     hand : {None} \cup [to : Requests, answer : Requests]]

Places == {"idle", "sending", "waiting", "answered", "notfound", "failed", "timeout", "aborted"}
Caller == [pc : Places, conn : Conns \cup {None}, id : Nat,
           waiter : Requests \cup {None, "closed"}]

ConnsTyped   == conn \in [Conns -> Connection]
(* The link only dials with a state to register, and sends none newer than *)
(* the session's.                                                          *)
Links        == [pc : {"trying", "dialed", "held", "checking", "sending", "selecting",
                       "leaving", "resting", "done"},
                 conn : Conns \cup {None}, held : Conns \cup {None}, sent : 0..MaxVersion]
SessionTyped == /\ version \in 0..MaxVersion /\ link \in Links /\ link.sent <= version
                /\ link.pc \notin {"trying", "resting", "done"} => link.sent > 0
AnswersTyped == answers \subseteq [conn : Conns, id : IDs, req : Requests, done : BOOLEAN]
HubTyped     == /\ request \in [Requests -> Caller] /\ listed \in Conns \cup {None}
                /\ \A r \in Requests : InFlight(r) => request[r].id \in IDs
(* The first frame of a connection is no response.                         *)
FirstTyped   == \A c \in Conns : conn[c].pc \in {"backlog", "first"} =>
                    \A f \in Range(conn[c].toHub) : f.type # "response"
Typed        == ConnsTyped /\ SessionTyped /\ AnswersTyped /\ HubTyped /\ FirstTyped

AskedOn(c)    == {[id |-> f.id, req |-> f.value] : f \in Range(conn[c].toLink) \ {Refusal}}
HandledOn(c)  == {[id |-> a.id, req |-> a.req] : a \in {b \in answers : b.conn = c}}
AnsweredOn(c) == {[id |-> f.id, req |-> f.value] :
                      f \in {g \in Range(conn[c].toHub) : g.type = "response"}}
CalledOn(c)   == {[id |-> request[r].id, req |-> r] :
                      r \in {q \in Requests : InFlight(q) /\ request[q].conn = c}}
Slips(c) == conn[c].pending \cup AskedOn(c) \cup HandledOn(c) \cup AnsweredOn(c)
                \cup CalledOn(c)

Unserved(c) == conn[c].pc \in {"backlog", "first"}

AgreeOn(c) ==
    /\ Served(c) => \A s \in Slips(c) :
                        /\ s.id <= conn[c].nextID
                        /\ \A p \in conn[c].pending : p.id = s.id => p = s
    /\ Unserved(c) => Slips(c) = {}

SlipsAgree == \A c \in Conns : AgreeOn(c)

(* What a response, or a goroutine about to send one, or a waiter in hand  *)
(* says, the session has executed.                                         *)
AnswersAreExecuted ==
    /\ \A a \in answers : a.done => a.req \in executed
    /\ \A c \in Conns : \A f \in Range(conn[c].toHub) :
           f.type = "response" => f.value \in executed
    /\ \A c \in Conns : conn[c].hand # None =>
           conn[c].hand.to = conn[c].hand.answer /\ conn[c].hand.answer \in executed

HandIsUsed == \A c \in Conns : conn[c].pc = "handing" <=> conn[c].hand # None

ListedIsServed == listed # None => Served(listed)

(* What can still wake a caller whose waiter is unused.                    *)
Awake(r) ==
    InFlight(r) /\ request[r].waiter = None =>
        LET c == request[r].conn IN
            /\ c \in Conns /\ Served(c)
            /\ \/ [id |-> request[r].id, req |-> r] \in conn[c].pending
               \/ conn[c].hand # None /\ conn[c].hand.to = r

CallersAwake == \A r \in Requests : Awake(r)

IInv == SlipsAgree /\ AnswersAreExecuted /\ HandIsUsed /\ ListedIsServed
            /\ OwnAnswer /\ CallersAwake

-----------------------------------------------------------------------------
(* Frames on a connection                                                  *)

LEMMA RangeEmpty == Range(<<>>) = {}
  BY DEF Range

LEMMA RangeAppend ==
    ASSUME NEW S, NEW s \in Seq(S), NEW e \in S
    PROVE  Append(s, e) \in Seq(S) /\ Range(Append(s, e)) = Range(s) \cup {e}
  <1>1. Append(s, e) \in Seq(S) /\ Len(s) \in Nat
    BY AppendProperties, LenProperties
  <1>2. DOMAIN Append(s, e) = 1..(Len(s) + 1) /\ DOMAIN s = 1..Len(s)
    BY <1>1, AppendProperties, LenProperties
  <1>3. \A i \in 1..Len(s) : Append(s, e)[i] = s[i]
    BY AppendProperties
  <1>4. Append(s, e)[Len(s) + 1] = e
    BY AppendProperties
  <1>5. 1..(Len(s) + 1) = 1..Len(s) \cup {Len(s) + 1}
    BY <1>1
  <1> QED
    BY <1>1, <1>2, <1>3, <1>4, <1>5 DEF Range

LEMMA RangeTail ==
    ASSUME NEW S, NEW s \in Seq(S), s # <<>>
    PROVE  /\ Head(s) \in S /\ Head(s) \in Range(s)
           /\ Tail(s) \in Seq(S) /\ Range(Tail(s)) \subseteq Range(s)
  <1>1. /\ Head(s) \in S /\ Tail(s) \in Seq(S) /\ Len(Tail(s)) = Len(s) - 1
        /\ \A i \in 1..Len(Tail(s)) : Tail(s)[i] = s[i + 1]
    BY HeadTailProperties
  <1>2. Len(s) \in Nat \ {0} /\ DOMAIN s = 1..Len(s) /\ DOMAIN Tail(s) = 1..(Len(s) - 1)
    BY <1>1, EmptySeq, LenProperties
  <1>3. Head(s) = s[1]
    BY <1>2
  <1>4. \A i \in 1..(Len(s) - 1) : i + 1 \in 1..Len(s)
    BY <1>2
  <1> QED
    BY <1>1, <1>2, <1>3, <1>4 DEF Range

LEMMA NoFrames == <<>> \in Seq(ToHub) /\ <<>> \in Seq(ToLink)
  BY EmptySeq

-----------------------------------------------------------------------------
(* What each step does to the connections                                  *)

USE ChannelAssumption DEF IDs, linkVars, hubVars, linkOnly, serverOnly, requestOnly

(* No frame that matters is new, and the server's part stays as it is.     *)
Flows(c) ==
    /\ \A f \in Range(conn'[c].toHub) : f.type = "response" => f \in Range(conn[c].toHub)
    /\ \A f \in Range(conn'[c].toLink) : f # Refusal => f \in Range(conn[c].toLink)

Keeps(c) ==
    /\ conn'[c].pc = conn[c].pc /\ conn'[c].hand = conn[c].hand
    /\ conn'[c].pending = conn[c].pending /\ conn'[c].nextID = conn[c].nextID

Calm(c) == Flows(c) /\ Keeps(c)

(* The server's goroutine has returned, or never got to its peer.          *)
Retires(c) == /\ Flows(c) /\ conn'[c].pc = "gone" /\ conn'[c].hand = None
              /\ conn'[c].pending = {}

Becomes(c, k) == k \in Connection /\ conn' = [conn EXCEPT ![c] = k]

NewConns == conn' \in [Conns -> Connection]

LEMMA BecomesIs ==
    ASSUME ConnsTyped, NEW c \in Conns, NEW k, Becomes(c, k)
    PROVE  /\ NewConns /\ conn'[c] = k
           /\ \A d \in Conns \ {c} : conn'[d] = conn[d] /\ Calm(d)
  BY DEF ConnsTyped, Becomes, NewConns, Calm, Flows, Keeps

LEMMA Untouched == ASSUME ConnsTyped, conn' = conn PROVE NewConns /\ \A c \in Conns : Calm(c)
  BY DEF ConnsTyped, NewConns, Calm, Flows, Keeps

LEMMA FieldsOf ==
    ASSUME ConnsTyped, NEW c \in Conns
    PROVE  /\ conn[c] \in Connection
           /\ conn[c].toHub \in Seq(ToHub) /\ conn[c].toLink \in Seq(ToLink)
           /\ conn[c].pc \in {"backlog", "first", "serving", "handing", "gone"}
           /\ conn[c].pending \subseteq Slip /\ conn[c].nextID \in Nat
           /\ conn[c].hand \in {None} \cup [to : Requests, answer : Requests]
  BY DEF ConnsTyped, Connection

\* The link's end of a connection is closed.
LEMMA ClosedByLink ==
    ASSUME ConnsTyped, NEW c, conn' = [conn EXCEPT ![c].linkEnd = FALSE]
    PROVE  NewConns /\ \A d \in Conns : Calm(d)
  <1>1. CASE c \notin Conns
    BY <1>1, Untouched DEF ConnsTyped
  <1>2. CASE c \in Conns
    <2>1. PICK k : k = [conn[c] EXCEPT !.linkEnd = FALSE]
      OBVIOUS
    <2>2. Becomes(c, k)
      BY <1>2, <2>1, FieldsOf DEF Becomes, Connection
    <2>3. Calm(c)
      BY <1>2, <2>1, <2>2, FieldsOf, BecomesIs DEF Calm, Flows, Keeps, Connection
    <2> QED
      BY <1>2, <2>2, <2>3, BecomesIs
  <1> QED
    BY <1>1, <1>2

(* Apart from who has closed it and what is shown, a connection is the same. *)
Alike(k, l) == /\ k.toHub = l.toHub /\ k.toLink = l.toLink /\ k.pc = l.pc
               /\ k.hand = l.hand /\ k.pending = l.pending /\ k.nextID = l.nextID

\* The hub's end of a connection is closed.
LEMMA ClosedByHub ==
    ASSUME NEW k \in Connection
    PROVE  [k EXCEPT !.hubEnd = FALSE] \in Connection /\ Alike([k EXCEPT !.hubEnd = FALSE], k)
  BY DEF Connection, Alike

\* Hub.Serve closes the connection of the peer it replaces.
LEMMA PreviousClosed ==
    ASSUME Typed, NEW c, NEW m, m = ClosesPrevious(c)
    PROVE  m \in [Conns -> Connection] /\ \A d \in Conns : Alike(m[d], conn[d])
  <1> USE DEF Typed
  <1>1. CASE listed = None
    BY <1>1 DEF ClosesPrevious, ConnsTyped, Alike
  <1>2. CASE listed # None
    <2>1. PICK l \in Conns : l = listed
      BY <1>2 DEF HubTyped
    <2>2. PICK k : k = [conn[l] EXCEPT !.hubEnd = FALSE]
      OBVIOUS
    <2>3. k \in Connection /\ Alike(k, conn[l])
      BY <2>2, FieldsOf, ClosedByHub
    <2>4. m = [conn EXCEPT ![l] = k]
      BY <1>2, <2>1, <2>2 DEF ClosesPrevious, ConnsTyped
    <2> QED
      BY <2>3, <2>4 DEF ConnsTyped, Alike
  <1> QED
    BY <1>1, <1>2

\* A publication is written to the hub; reading may begin.
LEMMA Published ==
    ASSUME ConnsTyped, NEW c \in Conns, NEW f \in Publications, NEW b \in BOOLEAN,
           conn' = [conn EXCEPT ![c] = [conn[c] EXCEPT !.toHub = Append(@, f), !.reading = b]]
    PROVE  NewConns /\ \A d \in Conns : Calm(d)
  <1>1. PICK k : k = [conn[c] EXCEPT !.toHub = Append(@, f), !.reading = b]
    OBVIOUS
  <1>2. /\ Append(conn[c].toHub, f) \in Seq(ToHub)
        /\ Range(Append(conn[c].toHub, f)) = Range(conn[c].toHub) \cup {f}
    BY FieldsOf, RangeAppend DEF ToHub
  <1>3. k \in Connection /\ k.toHub = Append(conn[c].toHub, f)
    BY <1>1, <1>2, FieldsOf DEF Connection
  <1>4. k.toLink = conn[c].toLink /\ k.pc = conn[c].pc /\ k.hand = conn[c].hand
        /\ k.pending = conn[c].pending /\ k.nextID = conn[c].nextID
    BY <1>1, FieldsOf DEF Connection
  <1>5. Becomes(c, k)
    BY <1>1, <1>3 DEF Becomes
  <1>6. f.type # "response"
    BY DEF Publications
  <1>7. Calm(c)
    BY <1>2, <1>3, <1>4, <1>5, <1>6, BecomesIs DEF Calm, Flows, Keeps
  <1> QED
    BY <1>5, <1>7, BecomesIs

LEMMA RetiredBy ==
    ASSUME NEW k \in Connection
    PROVE  /\ Gone(k) \in Connection /\ Gone(k).toHub = <<>> /\ Gone(k).toLink = k.toLink
           /\ Gone(k).pc = "gone" /\ Gone(k).hand = None /\ Gone(k).pending = {}
  <1>1. PICK g : g = Gone(k)
    OBVIOUS
  <1>2. Unused \in Connection
    BY NoFrames DEF Unused, Connection
  <1>3. g \in Connection /\ g.toLink = k.toLink
    BY <1>1, <1>2 DEF Gone, Connection
  <1>4. g.toHub = <<>> /\ g.pc = "gone" /\ g.hand = None /\ g.pending = {}
    BY <1>1 DEF Gone, Unused
  <1> QED
    BY <1>1, <1>3, <1>4

\* Closing the link's end, or a write to the hub that is a publication.
LEMMA LinkEffect ==
    ASSUME Typed, CloseDisconnects \/ Leave \/ Register \/ SendState
    PROVE  NewConns /\ \A d \in Conns : Calm(d)
  <1> USE DEF Typed
  <1>1. CASE CloseDisconnects
    BY <1>1, ClosedByLink, Untouched DEF CloseDisconnects
  <1>2. CASE Leave
    BY <1>2, ClosedByLink DEF Leave
  <1>3. ASSUME link.conn \notin Conns, Register \/ SendState PROVE conn' = conn
    BY <1>3 DEF Register, SendState, ConnsTyped
  <1>4. CASE Register /\ link.conn \in Conns
    <2>1. Frame("register", 0, link.sent) \in Publications
      BY <1>4 DEF Register, SessionTyped, Links, Frame, Publications
    <2>2. conn' = [conn EXCEPT ![link.conn] = [conn[link.conn] EXCEPT
                      !.toHub = Append(@, Frame("register", 0, link.sent)), !.reading = TRUE]]
      BY <1>4, FieldsOf DEF Register, ConnsTyped, Connection
    <2> QED
      BY <1>4, <2>1, <2>2, Published
  <1>5. CASE SendState /\ link.conn \in Conns
    <2>1. Frame("state", 0, link.sent) \in Publications
      BY <1>5 DEF SendState, SessionTyped, Links, Frame, Publications
    <2>2. PICK b : b = conn[link.conn].reading
      OBVIOUS
    <2>3. b \in BOOLEAN
      BY <1>5, <2>2, FieldsOf DEF Connection
    <2>4. conn' = [conn EXCEPT ![link.conn] = [conn[link.conn] EXCEPT
                      !.toHub = Append(@, Frame("state", 0, link.sent)), !.reading = b]]
      BY <1>5, <2>2, FieldsOf DEF SendState, ConnsTyped, Connection
    <2> QED
      BY <1>5, <2>1, <2>3, <2>4, Published
  <1> QED
    BY <1>1, <1>2, <1>3, <1>4, <1>5, Untouched

\* The reader takes a frame, or finds the connection closed.
LEMMA ReaderEffect ==
    ASSUME Typed, NEW c \in Conns, LinkRead(c) \/ LinkReadEnds(c)
    PROVE  NewConns /\ \A d \in Conns : Calm(d)
  <1> USE DEF Typed
  <1>1. PICK s, b : /\ s \in Seq(ToLink) /\ b \in BOOLEAN
                    /\ Range(s) \subseteq Range(conn[c].toLink)
                    /\ conn' = [conn EXCEPT ![c].toLink = s, ![c].reading = b]
    <2>1. CASE LinkRead(c)
      <3>1. Tail(conn[c].toLink) \in Seq(ToLink)
            /\ Range(Tail(conn[c].toLink)) \subseteq Range(conn[c].toLink)
        BY <2>1, FieldsOf, RangeTail DEF LinkRead
      <3> QED
        BY <2>1, <3>1 DEF LinkRead
    <2>2. CASE LinkReadEnds(c)
      <3>1. conn' = [conn EXCEPT ![c].toLink = <<>>, ![c].reading = FALSE]
        BY <2>2, FieldsOf DEF LinkReadEnds, ConnsTyped, Connection
      <3> QED
        BY <3>1, NoFrames, RangeEmpty
    <2> QED
      BY <2>1, <2>2
  <1>2. PICK k : k = [conn[c] EXCEPT !.toLink = s, !.reading = b]
    OBVIOUS
  <1>3. k \in Connection /\ k.toLink = s /\ k.toHub = conn[c].toHub /\ k.pc = conn[c].pc
        /\ k.hand = conn[c].hand /\ k.pending = conn[c].pending /\ k.nextID = conn[c].nextID
    BY <1>1, <1>2, FieldsOf DEF Connection
  <1>4. conn' = [conn EXCEPT ![c] = k]
    BY <1>1, <1>2, FieldsOf DEF ConnsTyped, Connection
  <1>5. Becomes(c, k)
    BY <1>3, <1>4 DEF Becomes
  <1>6. conn'[c] = k
    BY <1>5, BecomesIs
  <1>7. Flows(c) /\ Keeps(c)
    BY <1>1, <1>3, <1>6 DEF Flows, Keeps
  <1> QED
    BY <1>5, <1>7, BecomesIs DEF Calm

LEMMA DialEffect ==
    ASSUME Typed, Dial
    PROVE  \E c \in Conns :
              /\ NewConns /\ Free(c) /\ Flows(c) /\ conn'[c].pc = "backlog"
              /\ conn'[c].toHub = <<>> /\ conn'[c].toLink = <<>>
              /\ conn'[c].hand = None /\ conn'[c].pending = {}
              /\ \A d \in Conns \ {c} : Calm(d)
  <1> USE DEF Typed
  <1>1. PICK c \in Conns : Free(c) /\ conn' = [conn EXCEPT ![c] = [Unused EXCEPT
                               !.linkEnd = TRUE, !.hubEnd = TRUE, !.pc = "backlog"]]
    BY DEF Dial
  <1>2. PICK k : k = [Unused EXCEPT !.linkEnd = TRUE, !.hubEnd = TRUE, !.pc = "backlog"]
    OBVIOUS
  <1>3. Unused \in Connection /\ Unused.toHub = <<>> /\ Unused.toLink = <<>>
        /\ Unused.hand = None /\ Unused.pending = {}
    BY NoFrames DEF Unused, Connection
  <1>4. k \in Connection /\ k.toHub = <<>> /\ k.toLink = <<>> /\ k.pc = "backlog"
        /\ k.hand = None /\ k.pending = {}
    BY <1>2, <1>3 DEF Connection
  <1>5. Becomes(c, k)
    BY <1>1, <1>2, <1>4 DEF Becomes
  <1> QED
    BY <1>1, <1>4, <1>5, BecomesIs, RangeEmpty DEF Flows

LEMMA ReplyEffect ==
    ASSUME Typed, NEW a \in answers, Reply(a)
    PROVE  /\ NewConns /\ \A d \in Conns : Keeps(d)
           /\ \A d \in Conns \ {a.conn} : Calm(d)
           /\ conn'[a.conn].toLink = conn[a.conn].toLink
           /\ \A f \in Range(conn'[a.conn].toHub) :
                 f \in Range(conn[a.conn].toHub) \/ f = Frame("response", a.id, a.req)
  <1> USE DEF Typed
  <1>1. a.conn \in Conns /\ Frame("response", a.id, a.req) \in ToHub
    BY DEF AnswersTyped, Frame, ToHub, Responses
  <1>2. CASE conn' = conn
    BY <1>2, Untouched DEF Calm
  <1>3. CASE conn' = [conn EXCEPT ![a.conn].toHub = Append(@, Frame("response", a.id, a.req))]
    <2>1. PICK c \in Conns : c = a.conn
      BY <1>1
    <2>2. PICK f \in ToHub : f = Frame("response", a.id, a.req)
      BY <1>1
    <2>3. PICK k : k = [conn[c] EXCEPT !.toHub = Append(@, f)]
      OBVIOUS
    <2>4. /\ Append(conn[c].toHub, f) \in Seq(ToHub)
          /\ Range(Append(conn[c].toHub, f)) = Range(conn[c].toHub) \cup {f}
      BY FieldsOf, RangeAppend
    <2>5. k \in Connection /\ k.toHub = Append(conn[c].toHub, f) /\ k.toLink = conn[c].toLink
          /\ k.pc = conn[c].pc /\ k.hand = conn[c].hand /\ k.pending = conn[c].pending
          /\ k.nextID = conn[c].nextID
      BY <2>3, <2>4, FieldsOf DEF Connection
    <2>6. Becomes(c, k)
      BY <1>3, <2>1, <2>2, <2>3, <2>5 DEF Becomes, ConnsTyped
    <2>7. Keeps(c)
      BY <2>5, <2>6, BecomesIs DEF Keeps
    <2>8. NewConns /\ conn'[c] = k /\ \A d \in Conns \ {c} : Calm(d)
      BY <2>6, BecomesIs
    <2>9. \A d \in Conns : Keeps(d)
      BY <2>7, <2>8 DEF Calm
    <2>10. \A g \in Range(k.toHub) : g \in Range(conn[c].toHub) \/ g = f
      BY <2>4, <2>5
    <2> QED
      BY <2>1, <2>2, <2>5, <2>8, <2>9, <2>10
  <1> QED
    BY <1>2, <1>3 DEF Reply

LEMMA AcceptEffect ==
    ASSUME Typed, NEW c \in Conns, Accept(c)
    PROVE  /\ NewConns /\ \A d \in Conns \ {c} : Calm(d)
           /\ Flows(c) /\ conn[c].pc = "backlog" /\ conn'[c].pc = "first"
           /\ conn'[c].hand = conn[c].hand /\ conn'[c].pending = conn[c].pending
  <1> USE DEF Typed
  <1>1. PICK k : k = [conn[c] EXCEPT !.pc = "first"]
    OBVIOUS
  <1>2. k \in Connection /\ k.toHub = conn[c].toHub /\ k.toLink = conn[c].toLink
        /\ k.pc = "first" /\ k.hand = conn[c].hand /\ k.pending = conn[c].pending
    BY <1>1, FieldsOf DEF Connection
  <1>3. Becomes(c, k)
    BY <1>1, <1>2 DEF Becomes, Accept, ConnsTyped
  <1> QED
    BY <1>2, <1>3, BecomesIs DEF Flows, Accept

\* Hub.Serve returns, or the server gives up on a connection before it.
LEMMA RetireEffect ==
    ASSUME Typed, NEW c \in Conns, Refuse(c) \/ FirstFails(c) \/ ServeEnds(c)
    PROVE  NewConns /\ Retires(c) /\ \A d \in Conns \ {c} : Calm(d)
  <1> USE DEF Typed
  <1>1. CASE FirstFails(c) \/ ServeEnds(c)
    <2>1. PICK g : g = Gone(conn[c])
      OBVIOUS
    <2>2. Becomes(c, g)
      BY <1>1, <2>1, FieldsOf, RetiredBy DEF Becomes, FirstFails, ServeEnds
    <2> QED
      BY <2>1, <2>2, FieldsOf, RetiredBy, BecomesIs, RangeEmpty DEF Retires, Flows
  <1>2. CASE Refuse(c)
    <2>1. PICK g : g = Gone(conn[c])
      OBVIOUS
    <2>2. PICK s \in Seq(ToLink) :
             /\ s = IF Writable(c) THEN Append(g.toLink, Refusal) ELSE g.toLink
             /\ Range(s) \subseteq Range(conn[c].toLink) \cup {Refusal}
      <3>1. Refusal \in ToLink
        BY DEF ToLink
      <3>2. g.toLink = conn[c].toLink
        BY <2>1, FieldsOf, RetiredBy
      <3>3. CASE Writable(c)
        <4>1. /\ Append(conn[c].toLink, Refusal) \in Seq(ToLink)
              /\ Range(Append(conn[c].toLink, Refusal)) = Range(conn[c].toLink) \cup {Refusal}
          BY <3>1, FieldsOf, RangeAppend
        <4> QED
          BY <3>2, <3>3, <4>1
      <3>4. CASE ~Writable(c)
        BY <3>2, <3>4, FieldsOf
      <3> QED
        BY <3>3, <3>4
    <2>3. PICK k : k = [g EXCEPT !.toLink = s]
      OBVIOUS
    <2>4. g \in Connection /\ g.toHub = <<>> /\ g.pc = "gone" /\ g.hand = None /\ g.pending = {}
      BY <2>1, FieldsOf, RetiredBy
    <2>5. k \in Connection /\ k.toHub = <<>> /\ k.pc = "gone" /\ k.hand = None
          /\ k.pending = {} /\ k.toLink = s
      BY <2>3, <2>4 DEF Connection
    <2>6. conn' = [conn EXCEPT ![c] = k]
      <3>1. conn' = [conn EXCEPT ![c] = [Gone(conn[c]) EXCEPT
                !.toLink = IF Writable(c) THEN Append(@, Refusal) ELSE @]]
        BY <1>2 DEF Refuse
      <3> QED
        BY <2>1, <2>2, <2>3, <3>1
    <2>7. Becomes(c, k)
      BY <2>5, <2>6 DEF Becomes
    <2> QED
      BY <2>2, <2>5, <2>7, BecomesIs, RangeEmpty DEF Retires, Flows
  <1> QED
    BY <1>1, <1>2

\* The head of what the link has sent is taken.
LEMMA FrameTaken ==
    ASSUME ConnsTyped, NEW c \in Conns, conn[c].toHub # <<>>
    PROVE  /\ Tail(conn[c].toHub) \in Seq(ToHub)
           /\ Range(Tail(conn[c].toHub)) \subseteq Range(conn[c].toHub)
           /\ Head(conn[c].toHub) \in ToHub /\ Head(conn[c].toHub) \in Range(conn[c].toHub)
           /\ Head(conn[c].toHub).type # "response" =>
                  Head(conn[c].toHub).value \in 1..MaxVersion
  <1>1. Head(conn[c].toHub) \in ToHub
    BY FieldsOf, RangeTail
  <1> QED
    BY <1>1, FieldsOf, RangeTail DEF ToHub, Publications, Responses

LEMMA EnterEffect ==
    ASSUME Typed, NEW c \in Conns, Enter(c)
    PROVE  /\ NewConns /\ \A d \in Conns \ {c} : Calm(d)
           /\ Flows(c) /\ conn[c].pc = "first" /\ conn'[c].pc = "serving"
           /\ conn'[c].hand = conn[c].hand /\ conn'[c].pending = conn[c].pending
  <1> USE DEF Typed
  <1>1. PICK s, v, m : /\ s = Tail(conn[c].toHub) /\ v = Head(conn[c].toHub).value
                       /\ m = ClosesPrevious(c)
    OBVIOUS
  <1>2. s \in Seq(ToHub) /\ Range(s) \subseteq Range(conn[c].toHub) /\ v \in 0..MaxVersion
    <2>1. conn[c].pc = "first" /\ conn[c].toHub # <<>>
      BY DEF Enter
    <2>2. Head(conn[c].toHub).type # "response"
      BY <2>1, FrameTaken DEF FirstTyped
    <2>3. /\ Tail(conn[c].toHub) \in Seq(ToHub)
          /\ Range(Tail(conn[c].toHub)) \subseteq Range(conn[c].toHub)
          /\ Head(conn[c].toHub).value \in 0..MaxVersion
      BY <2>1, <2>2, FrameTaken
    <2> QED
      BY <1>1, <2>3
  <1>3. m \in [Conns -> Connection] /\ \A d \in Conns : Alike(m[d], conn[d])
    BY <1>1, PreviousClosed
  <1>4. PICK k : k = [m[c] EXCEPT !.toHub = s, !.pc = "serving", !.live = v]
    OBVIOUS
  <1>5. k \in Connection /\ k.toHub = s /\ k.toLink = m[c].toLink /\ k.pc = "serving"
        /\ k.hand = m[c].hand /\ k.pending = m[c].pending
    <2>1. m[c] \in Connection
      BY <1>3
    <2> QED
      BY <1>2, <1>4, <2>1 DEF Connection
  <1>6. conn' = [m EXCEPT ![c] = k]
    <2>1. conn' = [m EXCEPT ![c].toHub = Tail(m[c].toHub), ![c].pc = "serving", ![c].live = v]
      BY <1>1, <1>3 DEF Enter
    <2>2. Tail(m[c].toHub) = s
      BY <1>1, <1>3 DEF Alike
    <2>3. conn' = [m EXCEPT ![c].toHub = s, ![c].pc = "serving", ![c].live = v]
      BY <2>1, <2>2
    <2> QED
      BY <1>3, <1>4, <2>3 DEF Connection
  <1>7. NewConns /\ conn'[c] = k /\ \A d \in Conns \ {c} : conn'[d] = m[d]
    BY <1>3, <1>5, <1>6 DEF NewConns
  <1>8. \A d \in Conns \ {c} : Calm(d)
    BY <1>3, <1>7 DEF Calm, Flows, Keeps, Alike
  <1>9. Flows(c) /\ conn'[c].hand = conn[c].hand /\ conn'[c].pending = conn[c].pending
    BY <1>2, <1>3, <1>5, <1>7 DEF Flows, Alike
  <1> QED
    BY <1>5, <1>7, <1>8, <1>9 DEF Enter

LEMMA StateEffect ==
    ASSUME Typed, NEW c \in Conns, ServeState(c)
    PROVE  NewConns /\ \A d \in Conns : Calm(d)
  <1> USE DEF Typed
  <1>1. PICK s, v : s = Tail(conn[c].toHub) /\ v = Head(conn[c].toHub).value
    OBVIOUS
  <1>2. s \in Seq(ToHub) /\ Range(s) \subseteq Range(conn[c].toHub) /\ v \in 0..MaxVersion
    <2>1. conn[c].toHub # <<>> /\ Head(conn[c].toHub).type = "state"
      BY DEF ServeState
    <2>2. v \in 1..MaxVersion
      BY <1>1, <2>1, FrameTaken
    <2>3. s \in Seq(ToHub) /\ Range(s) \subseteq Range(conn[c].toHub)
      BY <1>1, <2>1, FrameTaken
    <2> QED
      BY <2>2, <2>3 DEF ConnsTyped
  <1>3. PICK k : k = [conn[c] EXCEPT !.toHub = s, !.live = v]
    OBVIOUS
  <1>4. k \in Connection /\ k.toHub = s /\ k.toLink = conn[c].toLink /\ k.pc = conn[c].pc
        /\ k.hand = conn[c].hand /\ k.pending = conn[c].pending /\ k.nextID = conn[c].nextID
    BY <1>2, <1>3, FieldsOf DEF Connection
  <1>5. conn' = [conn EXCEPT ![c] = k]
    BY <1>1, <1>3 DEF ServeState, ConnsTyped, Connection
  <1>6. Becomes(c, k)
    BY <1>4, <1>5 DEF Becomes
  <1>7. conn'[c] = k
    BY <1>6, BecomesIs
  <1>8. Flows(c) /\ Keeps(c)
    BY <1>2, <1>4, <1>7 DEF Flows, Keeps
  <1> QED
    BY <1>6, <1>8, BecomesIs DEF Calm

Taken(c, f, w) ==
    /\ f.type = "response" /\ w = {p \in conn[c].pending : p.id = f.id}
    /\ conn'[c].pending = conn[c].pending \ w
    /\ \/ w = {} /\ conn'[c].pc = "serving" /\ conn'[c].hand = None
       \/ \E p \in w : /\ conn'[c].pc = "handing"
                       /\ conn'[c].hand = [to |-> p.req, answer |-> f.value]

\* A response takes its waiter out of pending.
LEMMA ResponseEffect ==
    ASSUME Typed, NEW c \in Conns, ServeResponse(c)
    PROVE  /\ NewConns /\ \A d \in Conns \ {c} : Calm(d)
           /\ Flows(c) /\ conn'[c].nextID = conn[c].nextID /\ conn[c].pc = "serving"
           /\ \E f \in Range(conn[c].toHub), w \in SUBSET conn[c].pending : Taken(c, f, w)
  <1> USE DEF Typed
  <1>1. PICK f, s, w : /\ f = Head(conn[c].toHub) /\ s = Tail(conn[c].toHub)
                       /\ w = {p \in conn[c].pending : p.id = f.id}
    OBVIOUS
  <1>2. PICK x, h : /\ x = IF w = {} THEN "serving" ELSE "handing"
                    /\ h = IF w = {} THEN None
                           ELSE [to |-> (CHOOSE p \in w : TRUE).req, answer |-> f.value]
    OBVIOUS
  <1>3. s \in Seq(ToHub) /\ Range(s) \subseteq Range(conn[c].toHub)
        /\ f \in Range(conn[c].toHub) /\ f \in ToHub /\ f.type = "response"
    BY <1>1, FrameTaken DEF ServeResponse
  <1>4. f.value \in Requests
    BY <1>3 DEF ToHub, Publications, Responses
  <1>5. w \subseteq Slip /\ w \subseteq conn[c].pending
    BY <1>1, FieldsOf
  <1>6. \/ w = {} /\ x = "serving" /\ h = None
        \/ \E p \in w : x = "handing" /\ h = [to |-> p.req, answer |-> f.value]
    <2>1. CASE w # {}
      <3>1. PICK p : p = CHOOSE q \in w : TRUE
        OBVIOUS
      <3>2. p \in w
        BY <2>1, <3>1
      <3> QED
        BY <1>2, <2>1, <3>1, <3>2
    <2> QED
      BY <1>2, <2>1
  <1>7. h \in {None} \cup [to : Requests, answer : Requests] /\ x \in {"serving", "handing"}
    BY <1>4, <1>5, <1>6 DEF Slip
  <1>8. PICK k : k = [conn[c] EXCEPT !.toHub = s, !.pending = @ \ w, !.pc = x, !.hand = h]
    OBVIOUS
  <1>9. k \in Connection /\ k.toHub = s /\ k.toLink = conn[c].toLink /\ k.pc = x
        /\ k.hand = h /\ k.pending = conn[c].pending \ w /\ k.nextID = conn[c].nextID
    BY <1>3, <1>7, <1>8, FieldsOf DEF Connection
  <1>10. conn' = [conn EXCEPT ![c] = k]
    <2>1. conn' = [conn EXCEPT ![c].toHub = s, ![c].pending = @ \ w, ![c].pc = x, ![c].hand = h]
      BY <1>1, <1>2 DEF ServeResponse
    <2> QED
      BY <1>8, <2>1 DEF ConnsTyped, Connection
  <1>11. Becomes(c, k)
    BY <1>9, <1>10 DEF Becomes
  <1>12. conn'[c] = k
    BY <1>11, BecomesIs
  <1>13. Flows(c)
    BY <1>3, <1>9, <1>12 DEF Flows
  <1>14. conn[c].pc = "serving"
    BY DEF ServeResponse
  <1>15. Taken(c, f, w)
    BY <1>1, <1>3, <1>6, <1>9, <1>12 DEF Taken
  <1> QED
    BY <1>3, <1>5, <1>9, <1>11, <1>12, <1>13, <1>14, <1>15, BecomesIs

LEMMA HandEffect ==
    ASSUME Typed, NEW c \in Conns, HandOver(c)
    PROVE  /\ NewConns /\ \A d \in Conns \ {c} : Calm(d)
           /\ Flows(c) /\ conn[c].pc = "handing" /\ conn'[c].pc = "serving"
           /\ conn'[c].hand = None /\ conn'[c].pending = conn[c].pending
           /\ conn'[c].nextID = conn[c].nextID
  <1> USE DEF Typed
  <1>1. PICK k : k = [conn[c] EXCEPT !.pc = "serving", !.hand = None]
    OBVIOUS
  <1>2. k \in Connection /\ k.toHub = conn[c].toHub /\ k.toLink = conn[c].toLink
        /\ k.pc = "serving" /\ k.hand = None /\ k.pending = conn[c].pending
        /\ k.nextID = conn[c].nextID
    BY <1>1, FieldsOf DEF Connection
  <1>3. conn' = [conn EXCEPT ![c] = k]
    BY <1>1 DEF HandOver, ConnsTyped, Connection
  <1>4. Becomes(c, k)
    BY <1>2, <1>3 DEF Becomes
  <1> QED
    BY <1>2, <1>4, BecomesIs DEF Flows, HandOver

LEMMA EnqueueEffect ==
    ASSUME Typed, NEW r \in Requests, Enqueue(r)
    PROVE  \E c \in Conns, id \in IDs :
              /\ listed = c /\ id = conn[c].nextID + 1 /\ request[r].pc = "idle"
              /\ NewConns /\ Flows(c) /\ \A d \in Conns \ {c} : Calm(d)
              /\ conn'[c].pc = conn[c].pc /\ conn'[c].hand = conn[c].hand
              /\ conn'[c].nextID = id
              /\ conn'[c].pending = conn[c].pending \cup {[id |-> id, req |-> r]}
              /\ request' = [request EXCEPT ![r] = [pc |-> "sending", conn |-> c, id |-> id,
                                                    waiter |-> None]]
  <1> USE DEF Typed
  <1>1. PICK c, id : c \in Conns /\ c = listed /\ id = conn[c].nextID + 1
    BY DEF Enqueue, HubTyped
  <1>2. id \in IDs /\ [id |-> id, req |-> r] \in Slip
    BY <1>1, FieldsOf DEF Slip
  <1>3. PICK k : k = [conn[c] EXCEPT !.nextID = id, !.pending = @ \cup {[id |-> id, req |-> r]}]
    OBVIOUS
  <1>4. k \in Connection /\ k.toHub = conn[c].toHub /\ k.toLink = conn[c].toLink
        /\ k.pc = conn[c].pc /\ k.hand = conn[c].hand /\ k.nextID = id
        /\ k.pending = conn[c].pending \cup {[id |-> id, req |-> r]}
    <2>1. conn[c].pending \cup {[id |-> id, req |-> r]} \in SUBSET Slip
      BY <1>1, <1>2, FieldsOf
    <2>2. conn[c] \in Connection /\ id \in Nat
      BY <1>1, FieldsOf
    <2>3. k \in Connection
      BY <1>3, <2>1, <2>2 DEF Connection
    <2>4. /\ k.toHub = conn[c].toHub /\ k.toLink = conn[c].toLink
          /\ k.pc = conn[c].pc /\ k.hand = conn[c].hand
      BY <1>3, <2>2 DEF Connection
    <2>5. k.nextID = id /\ k.pending = conn[c].pending \cup {[id |-> id, req |-> r]}
      BY <1>3, <2>2 DEF Connection
    <2> QED
      BY <2>3, <2>4, <2>5
  <1>5. conn' = [conn EXCEPT ![c] = k]
    BY <1>1, <1>3 DEF Enqueue, FreshID, ConnsTyped, Connection
  <1>6. Becomes(c, k)
    BY <1>4, <1>5 DEF Becomes
  <1>7. /\ request[r].pc = "idle"
        /\ request' = [request EXCEPT ![r] = [pc |-> "sending", conn |-> c, id |-> id,
                                              waiter |-> None]]
    BY <1>1 DEF Enqueue, FreshID
  <1>8. NewConns /\ conn'[c] = k /\ \A d \in Conns \ {c} : Calm(d)
    BY <1>1, <1>6, BecomesIs
  <1>9. Flows(c)
    BY <1>4, <1>8 DEF Flows
  <1> QED
    BY <1>1, <1>2, <1>4, <1>7, <1>8, <1>9

LEMMA SendEffect ==
    ASSUME Typed, NEW r \in Requests, SendRequest(r)
    PROVE  /\ NewConns /\ \A d \in Conns : Keeps(d) /\ conn'[d].toHub = conn[d].toHub
           /\ \A d \in Conns \ {request[r].conn} : Calm(d)
           /\ request[r].conn \in Conns =>
                \A f \in Range(conn'[request[r].conn].toLink) :
                    \/ f \in Range(conn[request[r].conn].toLink)
                    \/ f = Frame("request", request[r].id, r)
  <1> USE DEF Typed
  <1>1. CASE request[r].conn \notin Conns
    <2>1. conn' = conn
      BY <1>1 DEF SendRequest, ConnsTyped
    <2> QED
      BY <1>1, <2>1, Untouched DEF Calm
  <1>2. CASE request[r].conn \in Conns
    <2>1. PICK c \in Conns : c = request[r].conn
      BY <1>2
    <2>2. PICK f \in ToLink : f = Frame("request", request[r].id, r)
      BY DEF SendRequest, InFlight, ToLink, Questions, Frame, HubTyped
    <2>3. PICK k : k = [conn[c] EXCEPT !.toLink = Append(@, f)]
      OBVIOUS
    <2>4. /\ Append(conn[c].toLink, f) \in Seq(ToLink)
          /\ Range(Append(conn[c].toLink, f)) = Range(conn[c].toLink) \cup {f}
      BY FieldsOf, RangeAppend
    <2>5. k \in Connection /\ k.toHub = conn[c].toHub /\ k.toLink = Append(conn[c].toLink, f)
          /\ k.pc = conn[c].pc /\ k.hand = conn[c].hand /\ k.pending = conn[c].pending
          /\ k.nextID = conn[c].nextID
      BY <2>3, <2>4, FieldsOf DEF Connection
    <2>6. Becomes(c, k)
      BY <2>1, <2>2, <2>3, <2>5 DEF Becomes, SendRequest, ConnsTyped
    <2>7. NewConns /\ conn'[c] = k /\ \A d \in Conns \ {c} : conn'[d] = conn[d] /\ Calm(d)
      BY <2>6, BecomesIs
    <2>8. \A d \in Conns : Keeps(d) /\ conn'[d].toHub = conn[d].toHub
      BY <2>5, <2>7 DEF Calm, Keeps
    <2>9. \A g \in Range(k.toLink) : g \in Range(conn[c].toLink) \/ g = f
      BY <2>4, <2>5
    <2> QED
      BY <2>1, <2>2, <2>7, <2>8, <2>9
  <1> QED
    BY <1>1, <1>2

\* A caller that leaves takes its waiter out of pending.
LEMMA ForgetEffect ==
    ASSUME Typed, NEW r \in Requests, conn' = Forgets(r)
    PROVE  NewConns /\ \A d \in Conns :
              /\ Flows(d) /\ conn'[d].pc = conn[d].pc /\ conn'[d].hand = conn[d].hand
              /\ conn'[d].nextID = conn[d].nextID /\ conn'[d].pending \subseteq conn[d].pending
              /\ \A p \in conn[d].pending : p.req # r => p \in conn'[d].pending
  <1> USE DEF Typed
  <1>1. CASE request[r].conn \notin Conns
    <2>1. conn' = conn
      BY <1>1 DEF Forgets, ConnsTyped
    <2> QED
      BY <2>1, Untouched DEF Calm, Keeps
  <1>2. CASE request[r].conn \in Conns
    <2>1. PICK c, P : c \in Conns /\ c = request[r].conn /\ P = {p \in conn[c].pending : p.req # r}
      BY <1>2
    <2>2. PICK k : k = [conn[c] EXCEPT !.pending = P]
      OBVIOUS
    <2>3. P \in SUBSET Slip /\ P \subseteq conn[c].pending
      BY <2>1, FieldsOf
    <2>4. k \in Connection /\ k.toHub = conn[c].toHub /\ k.toLink = conn[c].toLink
          /\ k.pc = conn[c].pc /\ k.hand = conn[c].hand /\ k.pending = P
          /\ k.nextID = conn[c].nextID
      <3>1. conn[c] \in Connection
        BY <2>1, FieldsOf
      <3>2. k \in Connection
        BY <2>2, <2>3, <3>1 DEF Connection
      <3>3. /\ k.toHub = conn[c].toHub /\ k.toLink = conn[c].toLink
            /\ k.pc = conn[c].pc /\ k.hand = conn[c].hand /\ k.nextID = conn[c].nextID
        BY <2>2, <3>1 DEF Connection
      <3>4. k.pending = P
        BY <2>2, <3>1 DEF Connection
      <3> QED
        BY <3>2, <3>3, <3>4
    <2>5. conn' = [conn EXCEPT ![c] = k]
      <3>1. conn' = [conn EXCEPT ![c].pending = P]
        BY <2>1 DEF Forgets, ConnsTyped
      <3> QED
        BY <2>2, <3>1 DEF ConnsTyped
    <2>6. Becomes(c, k)
      BY <2>4, <2>5 DEF Becomes
    <2>7. NewConns /\ conn'[c] = k /\ \A d \in Conns \ {c} : conn'[d] = conn[d] /\ Calm(d)
      BY <2>1, <2>6, BecomesIs
    <2>8. Flows(c)
      BY <2>4, <2>7 DEF Flows
    <2>9. \A p \in conn[c].pending : p.req # r => p \in P
      BY <2>1
    <2> QED
      BY <2>3, <2>4, <2>7, <2>8, <2>9 DEF Calm, Keeps
  <1> QED
    BY <1>1, <1>2

\* Server.Close closes every connection; a crash ends every goroutine.
LEMMA DaemonEffect ==
    ASSUME Typed, StopDaemon \/ CrashDaemon
    PROVE  NewConns /\ \A d \in Conns : (StopDaemon /\ Calm(d)) \/ Retires(d)
  <1> USE DEF Typed
  <1>1. ASSUME NEW d \in Conns
        PROVE  Gone(conn[d]) \in Connection /\ (conn'[d] = Gone(conn[d]) => Retires(d))
    <2>1. PICK g : g = Gone(conn[d])
      OBVIOUS
    <2>2. g \in Connection /\ g.toHub = <<>> /\ g.toLink = conn[d].toLink
          /\ g.pc = "gone" /\ g.hand = None /\ g.pending = {}
      BY <2>1, FieldsOf, RetiredBy
    <2> QED
      BY <2>1, <2>2, RangeEmpty DEF Retires, Flows
  <1>2. CASE CrashDaemon
    <2>1. conn' = [c \in Conns |-> Gone(conn[c])]
      BY <1>2 DEF CrashDaemon
    <2> QED
      BY <1>1, <2>1 DEF NewConns
  <1>3. CASE StopDaemon
    <2>1. PICK m : m = [c \in Conns |-> IF conn[c].pc = "backlog" THEN Gone(conn[c])
                                       ELSE [conn[c] EXCEPT !.hubEnd = FALSE]]
      OBVIOUS
    <2>2. ASSUME NEW d \in Conns PROVE /\ m[d] \in Connection
                                       /\ m[d] = Gone(conn[d]) \/ Alike(m[d], conn[d])
      <3>1. CASE conn[d].pc = "backlog"
        BY <1>1, <2>1, <3>1
      <3>2. CASE conn[d].pc # "backlog"
        BY <2>1, <3>2, FieldsOf, ClosedByHub
      <3> QED
        BY <3>1, <3>2
    <2>3. conn' = m
      BY <1>3, <2>1 DEF StopDaemon
    <2>4. NewConns
      BY <2>1, <2>2, <2>3 DEF NewConns
    <2>5. ASSUME NEW d \in Conns, Alike(m[d], conn[d]) PROVE Calm(d)
      BY <2>3, <2>5 DEF Alike, Calm, Flows, Keeps
    <2> QED
      BY <1>1, <1>3, <2>2, <2>3, <2>4, <2>5
  <1> QED
    BY <1>2, <1>3

-----------------------------------------------------------------------------
(* Every step is one of these                                              *)

Apart == UNCHANGED <<conn, answers, executed, listed, request>>

LEMMA StepIsOne ==
    ASSUME [Next]_vars
    PROVE  \/ CloseDisconnects \/ Dial \/ Register \/ SendState \/ Leave
           \/ \E c \in Conns :
                \/ LinkRead(c) \/ LinkReadEnds(c) \/ Accept(c) \/ Refuse(c) \/ FirstFails(c)
                \/ Enter(c) \/ ServeState(c) \/ ServeResponse(c) \/ HandOver(c) \/ ServeEnds(c)
           \/ \E a \in answers : Execute(a) \/ Reply(a)
           \/ \E r \in Requests :
                \/ NotConnected(r) \/ Enqueue(r) \/ SendRequest(r) \/ SendFails(r)
                \/ GiveUp(r) \/ Answered(r)
           \/ StopDaemon \/ ExitDaemon \/ CrashDaemon
           \/ Apart
  <1> USE DEF Apart, vars, LinkGoes
  <1>1. CASE PublishStore
    BY <1>1 DEF PublishStore
  <1>2. CASE PublishWake
    BY <1>2 DEF PublishWake
  <1>3. CASE EndSession
    BY <1>3 DEF EndSession
  <1>4. CASE CloseCancels
    BY <1>4 DEF CloseCancels
  <1>5. CASE TryStop
    BY <1>5 DEF TryStop
  <1>6. CASE TryNothing
    BY <1>6 DEF TryNothing
  <1>7. CASE Hold
    BY <1>7 DEF Hold
  <1>8. CASE Check
    BY <1>8 DEF Check
  <1>9. CASE WriteFails
    BY <1>9 DEF WriteFails
  <1>10. CASE WriteExpires
    BY <1>10 DEF WriteExpires
  <1>11. CASE SelectWake
    BY <1>11 DEF SelectWake
  <1>12. CASE SelectEnd
    BY <1>12 DEF SelectEnd
  <1>13. CASE Rest
    BY <1>13 DEF Rest
  <1>14. CASE StartDaemon
    BY <1>14 DEF StartDaemon
  <1>15. CASE Terminated
    BY <1>15 DEF Terminated
  <1>16. CASE UNCHANGED vars
    BY <1>16
  <1> HIDE DEF Apart
  <1> QED
    BY <1>1, <1>2, <1>3, <1>4, <1>5, <1>6, <1>7, <1>8, <1>9, <1>10, <1>11, <1>12, <1>13,
       <1>14, <1>15, <1>16
       DEF Next, LinkStep, CloseStep, ReaderStep, AnswerStep, ServerStep, RequestStep

LEMMA NextConnsTyped == Typed /\ [Next]_vars => ConnsTyped'
  <1> SUFFICES ASSUME Typed, [Next]_vars PROVE NewConns
    BY DEF NewConns, ConnsTyped, Connection, ToHub, ToLink, Publications, Responses, Questions,
           Slip, Refusal, Frame
  <1>1. ASSUME conn' = conn PROVE NewConns
    BY <1>1 DEF NewConns, Typed, ConnsTyped
  <1>2. ASSUME NEW a \in answers, Execute(a) PROVE conn' = conn
    BY <1>2 DEF Execute
  <1>3. ASSUME NEW r \in Requests, NotConnected(r) \/ Answered(r) PROVE conn' = conn
    BY <1>3 DEF NotConnected, Answered
  <1>4. ASSUME NEW r \in Requests, SendFails(r) \/ GiveUp(r) PROVE NewConns
    BY <1>4, ForgetEffect DEF SendFails, GiveUp
  <1>5. ASSUME ExitDaemon \/ Apart PROVE conn' = conn
    BY <1>5 DEF ExitDaemon, Apart
  <1>6. ASSUME NEW a \in answers, Reply(a) PROVE NewConns
    BY <1>6, ReplyEffect
  <1>7. ASSUME NEW r \in Requests, Enqueue(r) \/ SendRequest(r) PROVE NewConns
    BY <1>7, EnqueueEffect, SendEffect
  <1>8. ASSUME NEW c \in Conns,
               \/ LinkRead(c) \/ LinkReadEnds(c) \/ Accept(c) \/ Refuse(c) \/ FirstFails(c)
               \/ Enter(c) \/ ServeState(c) \/ ServeResponse(c) \/ HandOver(c) \/ ServeEnds(c)
        PROVE  NewConns
    BY <1>8, ReaderEffect, AcceptEffect, RetireEffect, EnterEffect, StateEffect, ResponseEffect,
       HandEffect
  <1> QED
    BY <1>1, <1>2, <1>3, <1>4, <1>5, <1>6, <1>7, <1>8, StepIsOne, LinkEffect, DialEffect,
       DaemonEffect

\* The link's goroutine goes on.
LEMMA LinkMoves ==
    ASSUME SessionTyped, version' = version, NEW pc, LinkGoes(pc),
           pc \in {"trying", "checking", "sending", "selecting", "leaving", "resting", "done"},
           pc \notin {"trying", "resting", "done"} => link.sent > 0
    PROVE  SessionTyped'
  <1>1. link' \in Links /\ link'.pc = pc /\ link'.sent = link.sent
    BY DEF SessionTyped, Links, LinkGoes
  <1>2. Links' = Links
    BY DEF Links
  <1> QED
    BY <1>1, <1>2 DEF SessionTyped

LEMMA NextSessionTyped == Typed /\ [Next]_vars => SessionTyped'
  <1> SUFFICES ASSUME Typed, [Next]_vars PROVE SessionTyped'
    OBVIOUS
  <1>1. SessionTyped
    BY DEF Typed
  <1> USE DEF SessionTyped, Links
  <1>2. CASE PublishStore
    BY <1>1, <1>2 DEF PublishStore
  <1>3. CASE Dial
    <2>1. PICK c \in Conns : link' = [link EXCEPT !.pc = "dialed", !.conn = c, !.sent = version]
      BY <1>3 DEF Dial
    <2>2. version' = version /\ version > 0
      BY <1>3 DEF Dial
    <2>3. link' \in Links /\ link'.sent = version
      BY <1>1, <2>1
    <2> QED
      BY <1>1, <2>2, <2>3
  <1>4. CASE Hold
    BY <1>1, <1>4 DEF Hold
  <1>5. CASE Check
    <2>1. PICK x \in {"sending", "selecting"} : link' = [link EXCEPT !.pc = x, !.sent = version]
      BY <1>5 DEF Check
    <2>2. version' = version /\ version > 0
      BY <1>1, <1>5 DEF Check
    <2>3. link' \in Links /\ link'.sent = version
      BY <1>1, <2>1
    <2> QED
      BY <1>1, <2>2, <2>3
  <1>6. CASE Leave
    BY <1>1, <1>6 DEF Leave
  <1> HIDE DEF SessionTyped, Links
  <1>7. link.pc \notin {"trying", "resting", "done"} => link.sent > 0
    BY <1>1 DEF SessionTyped
  <1>8. CASE TryStop \/ TryNothing \/ Rest
    BY <1>1, <1>8, LinkMoves DEF TryStop, TryNothing, Rest
  <1>9. CASE Register \/ SendState
    BY <1>1, <1>7, <1>9, LinkMoves DEF Register, SendState
  <1>10. CASE WriteFails \/ WriteExpires
    BY <1>1, <1>7, <1>10, LinkMoves DEF WriteFails, WriteExpires
  <1>11. CASE SelectWake \/ SelectEnd
    BY <1>1, <1>7, <1>11, LinkMoves DEF SelectWake, SelectEnd
  <1>12. ASSUME UNCHANGED <<version, link>> PROVE SessionTyped'
    BY <1>1, <1>12 DEF SessionTyped, Links
  <1>13. ASSUME \/ PublishWake \/ EndSession \/ CloseStep \/ AnswerStep
                \/ \E c \in Conns : ReaderStep(c) \/ ServerStep(c) \/ Refuse(c)
         PROVE  UNCHANGED <<version, link>>
    BY <1>13
       DEF PublishWake, EndSession, CloseStep, CloseCancels, CloseDisconnects, AnswerStep, Execute,
           Reply, ReaderStep, LinkRead, LinkReadEnds, ServerStep, Accept, FirstFails, Enter,
           ServeState, ServeResponse, HandOver, ServeEnds, Refuse
  <1>14. ASSUME \/ \E r \in Requests : NotConnected(r) \/ Enqueue(r) \/ RequestStep(r) \/ GiveUp(r)
                \/ StopDaemon \/ ExitDaemon \/ CrashDaemon \/ StartDaemon \/ Terminated
                \/ UNCHANGED vars
         PROVE  UNCHANGED <<version, link>>
    BY <1>14
       DEF NotConnected, Enqueue, RequestStep, SendRequest, SendFails, Answered, GiveUp,
           StopDaemon, ExitDaemon, CrashDaemon, StartDaemon, Terminated, vars
  <1> QED
    BY <1>2, <1>3, <1>4, <1>5, <1>6, <1>8, <1>9, <1>10, <1>11, <1>12, <1>13, <1>14
       DEF Next, LinkStep

LEMMA NextAnswersTyped == Typed /\ [Next]_vars => AnswersTyped'
  <1> SUFFICES ASSUME Typed, [Next]_vars PROVE AnswersTyped'
    OBVIOUS
  <1> USE DEF AnswersTyped
  <1>1. CASE answers' \subseteq answers
    BY <1>1 DEF Typed
  <1>2. ASSUME NEW c \in Conns, LinkRead(c) PROVE AnswersTyped'
    <2>1. PICK f : f = Head(conn[c].toLink)
      OBVIOUS
    <2>2. f \in ToLink
      BY <1>2, <2>1, FieldsOf, RangeTail DEF Typed, LinkRead
    <2>3. f # Refusal => f.id \in IDs /\ f.value \in Requests
      BY <2>2 DEF ToLink, Questions
    <2>4. f # Refusal =>
            [conn |-> c, id |-> f.id, req |-> f.value, done |-> FALSE]
                \in [conn : Conns, id : IDs, req : Requests, done : BOOLEAN]
      BY <2>3
    <2>5. answers' = IF f = Refusal THEN answers
                     ELSE answers \cup {[conn |-> c, id |-> f.id, req |-> f.value, done |-> FALSE]}
      BY <1>2, <2>1 DEF LinkRead
    <2> QED
      BY <2>4, <2>5 DEF Typed
  <1>3. ASSUME NEW a \in answers, Execute(a) PROVE AnswersTyped'
    <2>1. PICK b : b = [a EXCEPT !.done = TRUE]
      OBVIOUS
    <2>2. b \in [conn : Conns, id : IDs, req : Requests, done : BOOLEAN]
      BY <2>1 DEF Typed
    <2> QED
      BY <1>3, <2>1, <2>2 DEF Execute, Typed
  <1> HIDE DEF AnswersTyped
  <1>4. ASSUME \/ CloseDisconnects \/ Dial \/ Register \/ SendState \/ Leave
               \/ \E c \in Conns :
                    \/ LinkReadEnds(c) \/ Accept(c) \/ Refuse(c) \/ FirstFails(c) \/ Enter(c)
                    \/ ServeState(c) \/ ServeResponse(c) \/ HandOver(c) \/ ServeEnds(c)
               \/ \E a \in answers : Reply(a)
        PROVE  answers' \subseteq answers
    BY <1>4
       DEF CloseDisconnects, Dial, Register, SendState, Leave, LinkReadEnds, Accept, Refuse,
           FirstFails, Enter, ServeState, ServeResponse, HandOver, ServeEnds, Reply
  <1>5. ASSUME \/ \E r \in Requests :
                    \/ NotConnected(r) \/ Enqueue(r) \/ SendRequest(r) \/ SendFails(r)
                    \/ GiveUp(r) \/ Answered(r)
               \/ StopDaemon \/ ExitDaemon \/ CrashDaemon \/ Apart
        PROVE  answers' \subseteq answers
    BY <1>5
       DEF NotConnected, Enqueue, SendRequest, SendFails, GiveUp, Answered, StopDaemon,
           ExitDaemon, CrashDaemon, Apart
  <1> QED
    BY <1>1, <1>2, <1>3, <1>4, <1>5, StepIsOne

\* Who is called is left alone by every step of the session, the link or the server but
\* three of the server's.
LEMMA CallsAlone ==
    ASSUME \/ CloseDisconnects \/ Dial \/ Register \/ SendState \/ Leave \/ StopDaemon \/ Apart
           \/ \E c \in Conns :
                \/ LinkRead(c) \/ LinkReadEnds(c) \/ Accept(c) \/ Refuse(c) \/ FirstFails(c)
                \/ Enter(c) \/ ServeState(c) \/ ServeResponse(c)
           \/ \E a \in answers : Execute(a) \/ Reply(a)
    PROVE  request' = request
  BY DEF CloseDisconnects, Dial, Register, SendState, Leave, LinkRead, LinkReadEnds, Execute,
         Reply, Accept, Refuse, FirstFails, Enter, ServeState, ServeResponse, StopDaemon, Apart

\* What remains of a call when it is not the one that begins: where it is, or that it ended.
CallStays(r) == InFlight(r)' => InFlight(r) /\ request'[r].conn = request[r].conn
                                            /\ request'[r].id = request[r].id

NewRequests == request' \in [Requests -> Caller]

LEMMA CallerOf ==
    ASSUME HubTyped, NEW r \in Requests
    PROVE  /\ request[r] \in Caller /\ request[r].conn \in Conns \cup {None}
           /\ request[r].id \in Nat /\ request[r].waiter \in Requests \cup {None, "closed"}
  BY DEF HubTyped, Caller

LEMMA Ended ==
    ASSUME NEW x \in Places
    PROVE  [Idle EXCEPT !.pc = x] \in Caller /\ [Idle EXCEPT !.pc = x].pc = x
           /\ [Idle EXCEPT !.pc = x].waiter = None
  BY DEF Idle, Caller, Places

LEMMA CallsStay ==
    ASSUME Typed, request' = request
    PROVE  NewRequests /\ \A r \in Requests : CallStays(r) /\ request'[r].waiter = request[r].waiter
  BY DEF Typed, HubTyped, NewRequests, CallStays, InFlight

\* A call returns, with no waiter left.
LEMMA ReturnEffect ==
    ASSUME Typed, NEW r \in Requests, NEW x \in Places, x \notin {"sending", "waiting"},
           Returns(r, x)
    PROVE  /\ NewRequests /\ \A q \in Requests : CallStays(q)
           /\ ~InFlight(r)' /\ request'[r].waiter = None
           /\ \A q \in Requests \ {r} : request'[q] = request[q]
  <1>1. PICK k : k = [Idle EXCEPT !.pc = x]
    OBVIOUS
  <1>2. k \in Caller /\ k.pc = x /\ k.waiter = None
    BY <1>1, Ended
  <1>3. request' = [request EXCEPT ![r] = k]
    BY <1>1 DEF Returns
  <1> QED
    BY <1>2, <1>3 DEF Typed, HubTyped, NewRequests, CallStays, InFlight

\* The pc of a call, or its waiter, changes.
LEMMA PlaceEffect ==
    ASSUME Typed, NEW r \in Requests, NEW x \in Places, x # "sending",
           x = "waiting" => request[r].pc = "sending", request' = [request EXCEPT ![r].pc = x]
    PROVE  /\ NewRequests /\ \A q \in Requests : CallStays(q)
           /\ \A q \in Requests : request'[q].waiter = request[q].waiter
           /\ InFlight(r)' => x = "waiting"
  <1>1. PICK k : k = [request[r] EXCEPT !.pc = x]
    OBVIOUS
  <1>2. k \in Caller /\ k.pc = x /\ k.conn = request[r].conn /\ k.id = request[r].id
        /\ k.waiter = request[r].waiter
    BY <1>1, CallerOf DEF Typed, Caller
  <1>3. request' = [request EXCEPT ![r] = k]
    BY <1>1 DEF Typed, HubTyped
  <1> QED
    BY <1>2, <1>3 DEF Typed, HubTyped, NewRequests, CallStays, InFlight

LEMMA WaiterEffect ==
    ASSUME Typed, NEW R \in SUBSET Requests, NEW v \in Requests \cup {None, "closed"},
           request' = [r \in Requests |-> IF r \in R THEN [request[r] EXCEPT !.waiter = v]
                                          ELSE request[r]]
    PROVE  /\ NewRequests
           /\ \A q \in Requests :
                /\ CallStays(q) /\ InFlight(q)' = InFlight(q)
                /\ request'[q].waiter = IF q \in R THEN v ELSE request[q].waiter
  <1>1. ASSUME NEW r \in Requests
        PROVE  /\ [request[r] EXCEPT !.waiter = v] \in Caller
               /\ [request[r] EXCEPT !.waiter = v].pc = request[r].pc
               /\ [request[r] EXCEPT !.waiter = v].conn = request[r].conn
               /\ [request[r] EXCEPT !.waiter = v].id = request[r].id
               /\ [request[r] EXCEPT !.waiter = v].waiter = v
    BY CallerOf DEF Typed, Caller
  <1> QED
    BY <1>1, CallerOf DEF Typed, NewRequests, CallStays, InFlight

LEMMA InterruptEffect ==
    ASSUME Typed, request' = Interrupted
    PROVE  /\ NewRequests
           /\ \A r \in Requests : /\ CallStays(r) /\ ~InFlight(r)'
                                  /\ request'[r].waiter \in {None, request[r].waiter}
  <1>1. PICK k : k = [Idle EXCEPT !.pc = "aborted"]
    OBVIOUS
  <1>2. k \in Caller /\ k.pc = "aborted" /\ k.waiter = None
    BY <1>1 DEF Idle, Caller, Places
  <1>3. request' = [r \in Requests |-> IF InFlight(r) THEN k ELSE request[r]]
    BY <1>1 DEF Interrupted
  <1> QED
    BY <1>2, <1>3, CallerOf DEF Typed, NewRequests, CallStays, InFlight

\* The waiter of a call in flight gets the answer in hand.
LEMMA GivenEffect ==
    ASSUME Typed, HandIsUsed, NEW c \in Conns, HandOver(c)
    PROVE  \E r \in Requests, v \in Requests :
              /\ conn[c].hand = [to |-> r, answer |-> v]
              /\ NewRequests
              /\ \A q \in Requests :
                   /\ CallStays(q) /\ InFlight(q)' = InFlight(q)
                   /\ request'[q].waiter = IF q = r /\ InFlight(r) THEN v ELSE request[q].waiter
  <1>1. conn[c].hand # None
    BY DEF HandIsUsed, HandOver
  <1>2. PICK r \in Requests, v \in Requests : conn[c].hand = [to |-> r, answer |-> v]
    BY <1>1, FieldsOf DEF Typed
  <1>3. request' = [request EXCEPT ![r].waiter = IF InFlight(r) THEN v ELSE @]
    BY <1>2 DEF HandOver
  <1>4. PICK R : R = IF InFlight(r) THEN {r} ELSE {}
    OBVIOUS
  <1>5. R \in SUBSET Requests
    BY <1>4
  <1>6. request' = [q \in Requests |-> IF q \in R THEN [request[q] EXCEPT !.waiter = v]
                                       ELSE request[q]]
    BY <1>3, <1>4, CallerOf DEF Typed, HubTyped, Caller
  <1>7. /\ NewRequests
        /\ \A q \in Requests :
             /\ CallStays(q) /\ InFlight(q)' = InFlight(q)
             /\ request'[q].waiter = IF q \in R THEN v ELSE request[q].waiter
    BY <1>5, <1>6, WaiterEffect
  <1>8. \A q \in Requests : q \in R <=> q = r /\ InFlight(r)
    BY <1>4
  <1> QED
    BY <1>2, <1>7, <1>8

LEMMA ServeEndsEffect ==
    ASSUME Typed, NEW c \in Conns, ServeEnds(c)
    PROVE  /\ NewRequests
           /\ \A q \in Requests :
                /\ CallStays(q) /\ InFlight(q)' = InFlight(q)
                /\ request'[q].waiter = IF q \in WaitersOf(c) THEN "closed"
                                        ELSE request[q].waiter
  <1>1. WaitersOf(c) \in SUBSET Requests
    BY FieldsOf DEF Typed, WaitersOf, Slip
  <1> QED
    BY <1>1, WaiterEffect DEF ServeEnds

\* A call begins, or goes on, where it is; one that is in flight has not just ended.
LEMMA NextCalls ==
    ASSUME Typed, HandIsUsed, [Next]_vars
    PROVE  /\ NewRequests
           /\ (\E r \in Requests : Enqueue(r)) \/ \A r \in Requests : CallStays(r)
  <1>1. ASSUME NEW r \in Requests, NotConnected(r) \/ SendFails(r) \/ GiveUp(r)
        PROVE  NewRequests /\ \A q \in Requests : CallStays(q)
    <2>1. PICK x \in Places : x \notin {"sending", "waiting"} /\ Returns(r, x)
      BY <1>1 DEF NotConnected, SendFails, GiveUp, Places
    <2> QED
      BY <2>1, ReturnEffect
  <1>2. ASSUME NEW r \in Requests, SendRequest(r)
        PROVE  NewRequests /\ \A q \in Requests : CallStays(q)
    <2>1. PICK x \in Places : /\ x = "waiting" /\ request[r].pc = "sending"
                              /\ request' = [request EXCEPT ![r].pc = x]
      BY <1>2 DEF SendRequest, Places
    <2> QED
      BY <2>1, PlaceEffect
  <1>3. ASSUME NEW r \in Requests, Answered(r)
        PROVE  NewRequests /\ \A q \in Requests : CallStays(q)
    <2>1. PICK x \in Places : /\ x \in {"notfound", "answered"}
                              /\ request' = [request EXCEPT ![r].pc = x]
      BY <1>3 DEF Answered, Places
    <2> QED
      BY <2>1, PlaceEffect
  <1>4. ASSUME NEW r \in Requests, Enqueue(r) PROVE NewRequests
    <2>1. PICK c \in Conns, id \in Nat :
             request' = [request EXCEPT ![r] = [pc |-> "sending", conn |-> c, id |-> id,
                                                waiter |-> None]]
      BY <1>4, EnqueueEffect
    <2>2. [pc |-> "sending", conn |-> c, id |-> id, waiter |-> None] \in Caller
      BY DEF Caller, Places
    <2> QED
      BY <2>1, <2>2 DEF Typed, HubTyped, NewRequests
  <1>5. ASSUME ExitDaemon \/ CrashDaemon PROVE NewRequests /\ \A q \in Requests : CallStays(q)
    BY <1>5, InterruptEffect DEF ExitDaemon, CrashDaemon
  <1>6. ASSUME NEW c \in Conns, HandOver(c) \/ ServeEnds(c)
        PROVE  NewRequests /\ \A q \in Requests : CallStays(q)
    BY <1>6, GivenEffect, ServeEndsEffect
  <1>7. ASSUME request' = request PROVE NewRequests /\ \A q \in Requests : CallStays(q)
    BY <1>7, CallsStay
  <1> QED
    BY <1>1, <1>2, <1>3, <1>4, <1>5, <1>6, <1>7, CallsAlone, StepIsOne

LEMMA NextHubTyped == Typed /\ HandIsUsed /\ [Next]_vars => HubTyped'
  <1> SUFFICES ASSUME Typed, HandIsUsed, [Next]_vars PROVE HubTyped'
    OBVIOUS
  <1>1. request' \in [Requests -> Caller]
    BY NextCalls DEF NewRequests
  <1>2. ASSUME NEW c \in Conns, Enter(c) \/ ServeEnds(c) PROVE listed' \in Conns \cup {None}
    BY <1>2 DEF Enter, ServeEnds, RemovedIfListed, Typed, HubTyped
  <1>3. ASSUME \/ CloseDisconnects \/ Dial \/ Register \/ SendState \/ Leave
               \/ \E c \in Conns :
                    \/ LinkRead(c) \/ LinkReadEnds(c) \/ Accept(c) \/ Refuse(c) \/ FirstFails(c)
                    \/ ServeState(c) \/ ServeResponse(c) \/ HandOver(c)
               \/ \E a \in answers : Execute(a) \/ Reply(a)
        PROVE  listed' = listed
    BY <1>3
       DEF CloseDisconnects, Dial, Register, SendState, Leave, LinkRead, LinkReadEnds, Accept,
           Refuse, FirstFails, ServeState, ServeResponse, HandOver, Execute, Reply
  <1>4. ASSUME \/ \E r \in Requests :
                    \/ NotConnected(r) \/ Enqueue(r) \/ SendRequest(r) \/ SendFails(r)
                    \/ GiveUp(r) \/ Answered(r)
               \/ StopDaemon \/ ExitDaemon \/ CrashDaemon \/ Apart
        PROVE  listed' \in {listed, None}
    BY <1>4
       DEF NotConnected, Enqueue, SendRequest, SendFails, GiveUp, Answered, StopDaemon,
           ExitDaemon, CrashDaemon, Apart
  <1>5. listed' \in Conns \cup {None}
    BY <1>2, <1>3, <1>4, StepIsOne DEF Typed, HubTyped
  <1>6. Caller' = Caller
    BY DEF Caller, Places
  <1>7. \A r \in Requests : InFlight(r)' => request'[r].id \in IDs
    <2>1. ASSUME NEW r \in Requests, Enqueue(r), NEW q \in Requests, InFlight(q)'
          PROVE  request'[q].id \in IDs
      <3>1. PICK c \in Conns, id \in IDs :
               request' = [request EXCEPT ![r] = [pc |-> "sending", conn |-> c, id |-> id,
                                                  waiter |-> None]]
        BY <2>1, EnqueueEffect
      <3> QED
        BY <2>1, <3>1 DEF Typed, HubTyped, InFlight
    <2>2. ASSUME NEW r \in Requests, CallStays(r), InFlight(r)' PROVE request'[r].id \in IDs
      BY <2>2 DEF CallStays, Typed, HubTyped
    <2> QED
      BY <2>1, <2>2, NextCalls
  <1> QED
    BY <1>1, <1>5, <1>6, <1>7 DEF HubTyped

LEMMA NextTyped == Typed /\ FirstTyped' /\ HandIsUsed /\ [Next]_vars => Typed'
  BY NextConnsTyped, NextSessionTyped, NextAnswersTyped, NextHubTyped DEF Typed

-----------------------------------------------------------------------------
(* The slips of a connection                                               *)

(* Nothing about this connection endangers the meaning of its identifiers. *)
Quiet(c) ==
    /\ Slips(c)' \subseteq Slips(c)
    /\ conn'[c].pending \subseteq conn[c].pending
    /\ conn'[c].pc \in {"serving", "handing"} =>
           Unserved(c) \/ (Served(c) /\ conn'[c].nextID = conn[c].nextID)
    /\ conn'[c].pc \in {"backlog", "first"} => Unserved(c) \/ Slips(c)' = {}

LEMMA QuietAgrees ==
    ASSUME NEW c \in Conns, AgreeOn(c), Quiet(c)
    PROVE  AgreeOn(c)'
  <1>1. conn[c].pending \subseteq Slips(c)
    BY DEF Slips
  <1>2. CASE conn'[c].pc \in {"serving", "handing"} /\ Unserved(c)
    BY <1>1, <1>2 DEF AgreeOn, Quiet, Served, Unserved
  <1>3. CASE conn'[c].pc \in {"serving", "handing"} /\ ~Unserved(c)
    BY <1>3 DEF AgreeOn, Quiet, Served, Unserved
  <1>4. CASE conn'[c].pc \in {"backlog", "first"}
    BY <1>4 DEF AgreeOn, Quiet, Served, Unserved
  <1>5. CASE conn'[c].pc \notin {"serving", "handing", "backlog", "first"}
    BY <1>5 DEF AgreeOn, Served, Unserved
  <1> QED
    BY <1>2, <1>3, <1>4, <1>5

LEMMA FramesFlow ==
    ASSUME NEW c \in Conns, Flows(c)
    PROVE  AskedOn(c)' \subseteq AskedOn(c) /\ AnsweredOn(c)' \subseteq AnsweredOn(c)
  BY DEF Flows, AskedOn, AnsweredOn, Refusal, Frame

LEMMA CallsFlow ==
    ASSUME NEW c \in Conns, \A r \in Requests : CallStays(r)
    PROVE  CalledOn(c)' \subseteq CalledOn(c)
  BY DEF CallStays, CalledOn

LEMMA HandledFlow ==
    ASSUME NEW c \in Conns, answers' \subseteq answers
    PROVE  HandledOn(c)' \subseteq HandledOn(c)
  BY DEF HandledOn

\* A step that brings nothing new leaves the identifiers alone.
LEMMA FlowsQuietly ==
    ASSUME NEW c \in Conns, Flows(c), \A r \in Requests : CallStays(r),
           HandledOn(c)' \subseteq Slips(c), conn'[c].pending \subseteq conn[c].pending
    PROVE  Slips(c)' \subseteq Slips(c)
  BY FramesFlow, CallsFlow DEF Slips

LEMMA CalmIsQuiet ==
    ASSUME NEW c \in Conns, Calm(c) \/ Retires(c), \A r \in Requests : CallStays(r),
           HandledOn(c)' \subseteq Slips(c)
    PROVE  Quiet(c)
  <1>1. Slips(c)' \subseteq Slips(c)
    BY FlowsQuietly DEF Calm, Keeps, Retires
  <1> QED
    BY <1>1 DEF Quiet, Calm, Keeps, Retires, Served, Unserved

LEMMA HandledStays ==
    ASSUME \/ CloseDisconnects \/ Dial \/ Register \/ SendState \/ Leave
           \/ \E c \in Conns :
                \/ LinkReadEnds(c) \/ Accept(c) \/ Refuse(c) \/ FirstFails(c) \/ Enter(c)
                \/ ServeState(c) \/ ServeResponse(c) \/ HandOver(c) \/ ServeEnds(c)
           \/ \E a \in answers : Reply(a)
           \/ \E r \in Requests :
                \/ NotConnected(r) \/ Enqueue(r) \/ SendRequest(r) \/ SendFails(r)
                \/ GiveUp(r) \/ Answered(r)
           \/ StopDaemon \/ ExitDaemon \/ CrashDaemon \/ Apart
    PROVE  answers' \subseteq answers
  BY DEF CloseDisconnects, Dial, Register, SendState, Leave, LinkReadEnds, Accept, Refuse,
         FirstFails, Enter, ServeState, ServeResponse, HandOver, ServeEnds, Reply, NotConnected,
         Enqueue, SendRequest, SendFails, GiveUp, Answered, StopDaemon, ExitDaemon, CrashDaemon,
         Apart

\* All steps but the beginning of a call.
LEMMA NextQuiet ==
    ASSUME Typed, [Next]_vars, \A r \in Requests : CallStays(r) /\ ~Enqueue(r)
    PROVE  \A c \in Conns : Quiet(c)
  <1>1. ASSUME answers' \subseteq answers, NEW c \in Conns PROVE HandledOn(c)' \subseteq Slips(c)
    BY <1>1, HandledFlow DEF Slips
  <1>2. ASSUME answers' \subseteq answers, NEW c \in Conns, Calm(c) \/ Retires(c) PROVE Quiet(c)
    BY <1>1, <1>2, CalmIsQuiet
  <1>3. ASSUME NEW c \in Conns, Flows(c), answers' \subseteq answers,
               conn'[c].pending \subseteq conn[c].pending
        PROVE  Slips(c)' \subseteq Slips(c)
    BY <1>1, <1>3, FlowsQuietly
  <1>4. CASE CloseDisconnects \/ Leave \/ Register \/ SendState
    BY <1>2, <1>4, LinkEffect, HandledStays
  <1>5. CASE Dial
    <2>1. PICK c \in Conns :
              /\ Free(c) /\ Flows(c) /\ conn'[c].pc = "backlog"
              /\ conn'[c].toHub = <<>> /\ conn'[c].toLink = <<>> /\ conn'[c].pending = {}
              /\ \A d \in Conns \ {c} : Calm(d)
      BY <1>5, DialEffect
    <2>2. AskedOn(c)' = {} /\ AnsweredOn(c)' = {}
      BY <2>1, RangeEmpty DEF AskedOn, AnsweredOn
    <2>3. HandledOn(c)' = {}
      <3>1. answers' = answers /\ \A a \in answers : a.conn # c
        BY <1>5, <2>1 DEF Dial, Free
      <3> QED
        BY <3>1 DEF HandledOn
    <2>4. CalledOn(c)' = {}
      <3>1. request' = request /\ \A r \in Requests : InFlight(r) => request[r].conn # c
        BY <1>5, <2>1 DEF Dial, Free
      <3> QED
        BY <3>1 DEF CalledOn, InFlight
    <2>5. Slips(c)' = {}
      BY <2>1, <2>2, <2>3, <2>4 DEF Slips
    <2>6. Quiet(c)
      BY <2>1, <2>5 DEF Quiet
    <2> QED
      BY <1>2, <1>5, <2>1, <2>6, HandledStays
  <1>6. ASSUME NEW c \in Conns, LinkRead(c) PROVE \A d \in Conns : Quiet(d)
    <2>1. PICK f : f = Head(conn[c].toLink)
      OBVIOUS
    <2>2. f \in ToLink /\ f \in Range(conn[c].toLink)
      BY <1>6, <2>1, FieldsOf, RangeTail DEF Typed, LinkRead
    <2>3. answers' = IF f = Refusal THEN answers
                     ELSE answers \cup {[conn |-> c, id |-> f.id, req |-> f.value, done |-> FALSE]}
      BY <1>6, <2>1 DEF LinkRead
    <2>4. ASSUME NEW d \in Conns PROVE HandledOn(d)' \subseteq Slips(d)
      <3>1. HandledOn(d)' \subseteq HandledOn(d) \cup AskedOn(d)
        BY <2>2, <2>3 DEF HandledOn, AskedOn
      <3> QED
        BY <3>1 DEF Slips
    <2> QED
      BY <1>6, <2>4, ReaderEffect, CalmIsQuiet
  <1>7. ASSUME NEW c \in Conns, LinkReadEnds(c) PROVE \A d \in Conns : Quiet(d)
    BY <1>2, <1>7, ReaderEffect, HandledStays
  <1>8. ASSUME NEW a \in answers, Execute(a) PROVE \A d \in Conns : Quiet(d)
    <2>1. PICK b : b = [a EXCEPT !.done = TRUE]
      OBVIOUS
    <2>2. b.conn = a.conn /\ b.id = a.id /\ b.req = a.req
      BY <2>1 DEF Typed, AnswersTyped
    <2>3. conn' = conn /\ answers' = (answers \ {a}) \cup {b}
      BY <1>8, <2>1 DEF Execute
    <2>4. ASSUME NEW d \in Conns PROVE HandledOn(d)' \subseteq Slips(d)
      BY <2>2, <2>3 DEF HandledOn, Slips
    <2> QED
      BY <2>3, <2>4, Untouched, CalmIsQuiet DEF Typed
  <1>9. ASSUME NEW a \in answers, Reply(a) PROVE \A d \in Conns : Quiet(d)
    <2>1. PICK c, g : c \in Conns /\ c = a.conn /\ g = Frame("response", a.id, a.req)
      BY DEF Typed, AnswersTyped
    <2>2. /\ \A d \in Conns : Keeps(d)
          /\ \A d \in Conns \ {c} : Calm(d)
          /\ conn'[c].toLink = conn[c].toLink
          /\ \A f \in Range(conn'[c].toHub) : f \in Range(conn[c].toHub) \/ f = g
      BY <1>9, <2>1, ReplyEffect
    <2>3. AskedOn(c)' \subseteq AskedOn(c)
      BY <2>2 DEF AskedOn, Refusal, Frame
    <2>4. [id |-> a.id, req |-> a.req] \in HandledOn(c)
      BY <2>1 DEF HandledOn
    <2>5. AnsweredOn(c)' \subseteq AnsweredOn(c) \cup HandledOn(c)
      <3>1. g.id = a.id /\ g.value = a.req
        BY <2>1 DEF Frame
      <3> QED
        BY <2>2, <2>4, <3>1 DEF AnsweredOn
    <2>6. HandledOn(c)' \subseteq HandledOn(c) /\ CalledOn(c)' \subseteq CalledOn(c)
      BY <1>9, <2>1, HandledStays, HandledFlow, CallsFlow
    <2>7. Quiet(c)
      BY <2>1, <2>2, <2>3, <2>5, <2>6 DEF Slips, Quiet, Keeps, Served, Unserved
    <2> QED
      BY <1>2, <1>9, <2>2, <2>7, HandledStays
  <1>10. ASSUME NEW c \in Conns, Accept(c) PROVE \A d \in Conns : Quiet(d)
    <2>1. Slips(c)' \subseteq Slips(c)
      BY <1>3, <1>10, AcceptEffect, HandledStays
    <2>2. Quiet(c)
      BY <1>10, <2>1, AcceptEffect DEF Quiet, Unserved
    <2> QED
      BY <1>2, <1>10, <2>2, AcceptEffect, HandledStays
  <1>11. ASSUME NEW c \in Conns, Refuse(c) \/ FirstFails(c) \/ ServeEnds(c)
         PROVE  \A d \in Conns : Quiet(d)
    BY <1>2, <1>11, RetireEffect, HandledStays
  <1>12. ASSUME NEW c \in Conns, Enter(c) PROVE \A d \in Conns : Quiet(d)
    <2>1. Slips(c)' \subseteq Slips(c)
      BY <1>3, <1>12, EnterEffect, HandledStays
    <2>2. Quiet(c)
      BY <1>12, <2>1, EnterEffect DEF Quiet, Unserved
    <2> QED
      BY <1>2, <1>12, <2>2, EnterEffect, HandledStays
  <1>13. ASSUME NEW c \in Conns, ServeState(c) PROVE \A d \in Conns : Quiet(d)
    BY <1>2, <1>13, StateEffect, HandledStays
  <1>14. ASSUME NEW c \in Conns, ServeResponse(c) PROVE \A d \in Conns : Quiet(d)
    <2>1. /\ \A d \in Conns \ {c} : Calm(d)
          /\ Flows(c) /\ conn'[c].nextID = conn[c].nextID /\ conn[c].pc = "serving"
          /\ conn'[c].pending \subseteq conn[c].pending
          /\ conn'[c].pc \in {"serving", "handing"}
      <3>1. PICK f \in Range(conn[c].toHub), w \in SUBSET conn[c].pending : Taken(c, f, w)
        BY <1>14, ResponseEffect
      <3> QED
        BY <1>14, <3>1, ResponseEffect DEF Taken
    <2>2. Slips(c)' \subseteq Slips(c)
      BY <1>3, <1>14, <2>1, HandledStays
    <2>3. Quiet(c)
      BY <2>1, <2>2 DEF Quiet, Served, Unserved
    <2> QED
      BY <1>2, <1>14, <2>1, <2>3, HandledStays
  <1>15. ASSUME NEW c \in Conns, HandOver(c) PROVE \A d \in Conns : Quiet(d)
    <2>1. Slips(c)' \subseteq Slips(c)
      BY <1>3, <1>15, HandEffect, HandledStays
    <2>2. Quiet(c)
      BY <1>15, <2>1, HandEffect DEF Quiet, Served, Unserved
    <2> QED
      BY <1>2, <1>15, <2>2, HandEffect, HandledStays
  <1>16. ASSUME NEW r \in Requests, SendRequest(r) PROVE \A d \in Conns : Quiet(d)
    <2>1. /\ \A d \in Conns : Keeps(d) /\ conn'[d].toHub = conn[d].toHub
          /\ \A d \in Conns \ {request[r].conn} : Calm(d)
      BY <1>16, SendEffect
    <2>2. ASSUME NEW c \in Conns, c = request[r].conn PROVE Quiet(c)
      <3>1. PICK g : g = Frame("request", request[r].id, r)
        OBVIOUS
      <3>2. \A f \in Range(conn'[c].toLink) : f \in Range(conn[c].toLink) \/ f = g
        BY <1>16, <2>2, <3>1, SendEffect
      <3>3. [id |-> request[r].id, req |-> r] \in CalledOn(c)
        BY <1>16, <2>2 DEF SendRequest, CalledOn, InFlight
      <3>4. AskedOn(c)' \subseteq AskedOn(c) \cup CalledOn(c)
        <4>1. g.id = request[r].id /\ g.value = r
          BY <3>1 DEF Frame
        <4> QED
          BY <3>2, <3>3, <4>1 DEF AskedOn, Refusal, Frame
      <3>5. AnsweredOn(c)' \subseteq AnsweredOn(c)
        BY <2>1 DEF AnsweredOn
      <3>6. HandledOn(c)' \subseteq HandledOn(c) /\ CalledOn(c)' \subseteq CalledOn(c)
        BY <1>16, HandledStays, HandledFlow, CallsFlow
      <3> QED
        BY <2>1, <3>4, <3>5, <3>6 DEF Slips, Quiet, Keeps, Served, Unserved
    <2> QED
      BY <1>2, <1>16, <2>1, <2>2, HandledStays
  <1>17. ASSUME NEW r \in Requests, SendFails(r) \/ GiveUp(r) PROVE \A d \in Conns : Quiet(d)
    <2>1. conn' = Forgets(r)
      BY <1>17 DEF SendFails, GiveUp
    <2>2. ASSUME NEW d \in Conns PROVE Slips(d)' \subseteq Slips(d)
      BY <1>3, <1>17, <2>1, ForgetEffect, HandledStays
    <2> QED
      BY <2>1, <2>2, ForgetEffect DEF Quiet, Served, Unserved
  <1>18. ASSUME conn' = conn, answers' \subseteq answers PROVE \A d \in Conns : Quiet(d)
    BY <1>2, <1>18, Untouched DEF Typed
  <1>19. ASSUME \/ ExitDaemon \/ Apart \/ \E r \in Requests : NotConnected(r) \/ Answered(r)
         PROVE  conn' = conn
    BY <1>19 DEF ExitDaemon, Apart, NotConnected, Answered
  <1>20. CASE StopDaemon \/ CrashDaemon
    BY <1>2, <1>20, DaemonEffect, HandledStays
  <1> QED
    BY <1>4, <1>5, <1>6, <1>7, <1>8, <1>9, <1>10, <1>11, <1>12, <1>13, <1>14, <1>15, <1>16,
       <1>17, <1>18, <1>19, <1>20, HandledStays, StepIsOne

LEMMA RangeIn == ASSUME NEW S, NEW s \in Seq(S) PROVE Range(s) \subseteq S
  BY LenProperties DEF Range

LEMMA SlipsTyped == ASSUME Typed, NEW c \in Conns PROVE \A s \in Slips(c) : s.id \in IDs
  <1>1. Range(conn[c].toHub) \subseteq ToHub /\ Range(conn[c].toLink) \subseteq ToLink
    BY FieldsOf, RangeIn DEF Typed
  <1>2. \A s \in conn[c].pending : s.id \in IDs
    BY FieldsOf DEF Typed, Slip
  <1>3. \A s \in AskedOn(c) : s.id \in IDs
    BY <1>1 DEF AskedOn, ToLink, Questions
  <1>4. \A s \in AnsweredOn(c) : s.id \in IDs
    BY <1>1 DEF AnsweredOn, ToHub, Publications, Responses
  <1>5. \A s \in HandledOn(c) : s.id \in IDs
    BY DEF HandledOn, Typed, AnswersTyped
  <1>6. \A s \in CalledOn(c) : s.id \in IDs
    BY CallerOf DEF CalledOn, Typed, HubTyped
  <1> QED
    BY <1>2, <1>3, <1>4, <1>5, <1>6 DEF Slips

\* A call begins with an identifier that no slip of its connection has.
LEMMA EnqueueAgrees ==
    ASSUME Typed, SlipsAgree, ListedIsServed, NEW r \in Requests, Enqueue(r)
    PROVE  SlipsAgree'
  <1>1. PICK c \in Conns, id \in Nat :
              /\ listed = c /\ id = conn[c].nextID + 1 /\ request[r].pc = "idle"
              /\ Flows(c) /\ \A d \in Conns \ {c} : Calm(d)
              /\ conn'[c].pc = conn[c].pc /\ conn'[c].nextID = id
              /\ conn'[c].pending = conn[c].pending \cup {[id |-> id, req |-> r]}
              /\ request' = [request EXCEPT ![r] = [pc |-> "sending", conn |-> c, id |-> id,
                                                    waiter |-> None]]
    BY EnqueueEffect
  <1>2. \A q \in Requests \ {r} : request'[q] = request[q]
    BY <1>1 DEF Typed, HubTyped
  <1>3. request'[r].conn = c /\ request'[r].id = id
    BY <1>1 DEF Typed, HubTyped
  <1>4. ASSUME NEW d \in Conns PROVE HandledOn(d)' \subseteq HandledOn(d)
    BY HandledStays, HandledFlow
  <1>5. ASSUME NEW d \in Conns \ {c} PROVE AgreeOn(d)'
    <2>1. CalledOn(d)' \subseteq CalledOn(d)
      BY <1>2, <1>3, <1>5 DEF CalledOn, InFlight
    <2>2. Slips(d)' \subseteq Slips(d)
      BY <1>1, <1>4, <1>5, <2>1, FramesFlow DEF Slips, Calm, Keeps
    <2>3. Quiet(d)
      BY <1>1, <1>5, <2>2 DEF Quiet, Calm, Keeps, Served, Unserved
    <2> QED
      BY <2>3, QuietAgrees DEF SlipsAgree
  <1>6. AgreeOn(c)'
    <2> DEFINE new == [id |-> id, req |-> r]
    <2>1. Served(c) /\ Served(c)' /\ ~Unserved(c)'
      BY <1>1 DEF ListedIsServed, Served, Unserved
    <2>2. CalledOn(c)' \subseteq CalledOn(c) \cup {new}
      BY <1>2, <1>3 DEF CalledOn, InFlight
    <2>3. Slips(c)' \subseteq Slips(c) \cup {new}
      BY <1>1, <1>4, <2>2, FramesFlow DEF Slips
    <2>4. ASSUME NEW s \in Slips(c)
          PROVE  s.id <= conn[c].nextID /\ \A p \in conn[c].pending : p.id = s.id => p = s
      BY <2>1, <2>4 DEF SlipsAgree, AgreeOn
    <2>5. conn[c].pending \subseteq Slips(c) /\ conn[c].nextID \in Nat
      BY FieldsOf DEF Typed, Slips
    <2>6. new.id = id
      OBVIOUS
    <2>7. ASSUME NEW s \in Slips(c) PROVE s.id < id \/ s.id \notin Nat
      BY <1>1, <2>4, <2>5
    <2>8. \A s \in Slips(c) : s.id \in Nat
      BY SlipsTyped
    <2> HIDE DEF new
    <2>9. ASSUME NEW s \in Slips(c)' PROVE s.id <= id
      BY <1>1, <2>3, <2>4, <2>5, <2>6, <2>8
    <2>10. ASSUME NEW s \in Slips(c)', NEW p \in conn[c].pending \cup {new}, p.id = s.id
           PROVE  p = s
      <3>1. CASE p = new
        BY <2>3, <2>6, <2>7, <2>8, <2>10, <3>1
      <3>2. CASE s = new
        BY <2>5, <2>6, <2>7, <2>8, <2>10, <3>2
      <3>3. CASE p \in conn[c].pending /\ s \in Slips(c)
        BY <2>4, <2>10, <3>3
      <3> QED
        BY <2>3, <2>10, <3>1, <3>2, <3>3
    <2> QED
      BY <1>1, <2>1, <2>9, <2>10 DEF AgreeOn, new
  <1> QED
    BY <1>5, <1>6 DEF SlipsAgree

LEMMA NextSlips ==
    ASSUME Typed, HandIsUsed, SlipsAgree, ListedIsServed, [Next]_vars
    PROVE  SlipsAgree'
  <1>1. ASSUME NEW r \in Requests, Enqueue(r) PROVE SlipsAgree'
    BY <1>1, EnqueueAgrees
  <1>2. CASE \A r \in Requests : ~Enqueue(r)
    <2>1. \A c \in Conns : Quiet(c)
      BY <1>2, NextCalls, NextQuiet
    <2> QED
      BY <2>1, QuietAgrees DEF SlipsAgree
  <1> QED
    BY <1>1, <1>2

-----------------------------------------------------------------------------
(* Answers, waiters and the peer that is listed                            *)

LEMMA ExecutedGrows ==
    ASSUME [Next]_vars
    PROVE  executed \subseteq executed'
  <1>1. ASSUME NEW a \in answers, Execute(a) \/ Reply(a) PROVE executed \subseteq executed'
    BY <1>1 DEF Execute, Reply
  <1>2. ASSUME CloseDisconnects \/ Dial \/ Register \/ SendState \/ Leave \/ Apart
        PROVE  executed' = executed
    BY <1>2 DEF CloseDisconnects, Dial, Register, SendState, Leave, Apart
  <1>3. ASSUME NEW c \in Conns,
               \/ LinkRead(c) \/ LinkReadEnds(c) \/ Accept(c) \/ Refuse(c) \/ FirstFails(c)
               \/ Enter(c) \/ ServeState(c) \/ ServeResponse(c) \/ HandOver(c) \/ ServeEnds(c)
        PROVE  executed' = executed
    BY <1>3 DEF LinkRead, LinkReadEnds, Accept, Refuse, FirstFails, Enter, ServeState,
                ServeResponse, HandOver, ServeEnds
  <1>4. ASSUME \/ \E r \in Requests :
                    \/ NotConnected(r) \/ Enqueue(r) \/ SendRequest(r) \/ SendFails(r)
                    \/ GiveUp(r) \/ Answered(r)
               \/ StopDaemon \/ ExitDaemon \/ CrashDaemon
        PROVE  executed' = executed
    BY <1>4 DEF NotConnected, Enqueue, SendRequest, SendFails, GiveUp, Answered, StopDaemon,
                ExitDaemon, CrashDaemon
  <1> QED
    BY <1>1, <1>2, <1>3, <1>4, StepIsOne

\* What is in hand on a connection stays, is given away, or has just been taken.
LEMMA HandsOf ==
    ASSUME Typed, [Next]_vars, NEW c \in Conns
    PROVE  \/ conn'[c].pc = conn[c].pc /\ conn'[c].hand = conn[c].hand
           \/ conn'[c].pc # "handing" /\ conn'[c].hand = None
           \/ conn[c].pc # "handing" /\ conn'[c].pc # "handing" /\ conn'[c].hand = conn[c].hand
           \/ ServeResponse(c)
  <1>1. ASSUME Calm(c) PROVE conn'[c].pc = conn[c].pc /\ conn'[c].hand = conn[c].hand
    BY <1>1 DEF Calm, Keeps
  <1>2. ASSUME Retires(c) PROVE conn'[c].pc # "handing" /\ conn'[c].hand = None
    BY <1>2 DEF Retires
  <1>3. ASSUME conn' = conn PROVE conn'[c].pc = conn[c].pc /\ conn'[c].hand = conn[c].hand
    BY <1>3
  <1>4. ASSUME Dial
        PROVE  Calm(c) \/ (conn'[c].pc # "handing" /\ conn'[c].hand = None)
    BY <1>4, DialEffect
  <1>5. ASSUME CloseDisconnects \/ Leave \/ Register \/ SendState PROVE Calm(c)
    BY <1>5, LinkEffect
  <1>6. ASSUME NEW d \in Conns, LinkRead(d) \/ LinkReadEnds(d) \/ ServeState(d) PROVE Calm(c)
    BY <1>6, ReaderEffect, StateEffect
  <1>7. ASSUME NEW a \in answers, Execute(a) \/ Reply(a) PROVE Keeps(c) \/ conn' = conn
    BY <1>7, ReplyEffect DEF Execute
  <1>8. ASSUME NEW d \in Conns, Accept(d) \/ Enter(d)
        PROVE  \/ Calm(c)
               \/ conn[c].pc # "handing" /\ conn'[c].pc # "handing" /\ conn'[c].hand = conn[c].hand
    BY <1>8, AcceptEffect, EnterEffect
  <1>9. ASSUME NEW d \in Conns, Refuse(d) \/ FirstFails(d) \/ ServeEnds(d)
        PROVE  Calm(c) \/ Retires(c)
    BY <1>9, RetireEffect
  <1>10. ASSUME NEW d \in Conns, ServeResponse(d) PROVE Calm(c) \/ ServeResponse(c)
    BY <1>10, ResponseEffect
  <1>11. ASSUME NEW d \in Conns, HandOver(d)
         PROVE  Calm(c) \/ (conn'[c].pc # "handing" /\ conn'[c].hand = None)
    BY <1>11, HandEffect
  <1>12. ASSUME NEW r \in Requests, Enqueue(r)
         PROVE  Calm(c) \/ (conn'[c].pc = conn[c].pc /\ conn'[c].hand = conn[c].hand)
    BY <1>12, EnqueueEffect
  <1>13. ASSUME NEW r \in Requests, SendRequest(r) PROVE Keeps(c)
    BY <1>13, SendEffect
  <1>14. ASSUME NEW r \in Requests, SendFails(r) \/ GiveUp(r)
         PROVE  conn'[c].pc = conn[c].pc /\ conn'[c].hand = conn[c].hand
    BY <1>14, ForgetEffect DEF SendFails, GiveUp
  <1>15. ASSUME \/ ExitDaemon \/ Apart \/ \E r \in Requests : NotConnected(r) \/ Answered(r)
         PROVE  conn' = conn
    BY <1>15 DEF ExitDaemon, Apart, NotConnected, Answered
  <1>16. ASSUME StopDaemon \/ CrashDaemon PROVE Calm(c) \/ Retires(c)
    BY <1>16, DaemonEffect
  <1>17. ASSUME Keeps(c) PROVE conn'[c].pc = conn[c].pc /\ conn'[c].hand = conn[c].hand
    BY <1>17 DEF Keeps
  <1> QED
    BY <1>1, <1>2, <1>3, <1>4, <1>5, <1>6, <1>7, <1>8, <1>9, <1>10, <1>11, <1>12, <1>13, <1>14,
       <1>15, <1>16, <1>17, StepIsOne

LEMMA NextHand ==
    ASSUME Typed, HandIsUsed, [Next]_vars
    PROVE  HandIsUsed'
  <1>1. ASSUME NEW c \in Conns PROVE conn'[c].pc = "handing" <=> conn'[c].hand # None
    <2>1. CASE ServeResponse(c)
      <3>1. \/ conn'[c].pc = "serving" /\ conn'[c].hand = None
            \/ \E p \in conn[c].pending, f \in Range(conn[c].toHub) :
                  /\ conn'[c].pc = "handing" /\ f.type = "response"
                  /\ conn'[c].hand = [to |-> p.req, answer |-> f.value]
        <4>1. PICK f \in Range(conn[c].toHub), w \in SUBSET conn[c].pending : Taken(c, f, w)
          BY <2>1, ResponseEffect
        <4> QED
          BY <4>1 DEF Taken
      <3>2. ASSUME NEW p \in conn[c].pending, NEW f \in Range(conn[c].toHub), f.type = "response"
            PROVE  [to |-> p.req, answer |-> f.value] \in [to : Requests, answer : Requests]
        <4>1. p \in Slip /\ f \in ToHub
          BY FieldsOf, RangeIn DEF Typed
        <4> QED
          BY <3>2, <4>1 DEF Slip, ToHub, Publications, Responses
      <3> QED
        BY <3>1, <3>2
    <2>2. CASE ~ServeResponse(c)
      BY <2>2, HandsOf DEF HandIsUsed
    <2> QED
      BY <2>1, <2>2
  <1> QED
    BY <1>1 DEF HandIsUsed

\* A goroutine that answers has executed its request; so has what it sends.
LEMMA NextExecuted ==
    ASSUME Typed, SlipsAgree, AnswersAreExecuted, HandIsUsed, [Next]_vars
    PROVE  AnswersAreExecuted'
  <1>1. executed \subseteq executed'
    BY ExecutedGrows
  <1>2. ASSUME NEW a \in answers', a.done PROVE a.req \in executed'
    <2>1. CASE a \in answers
      BY <1>1, <1>2, <2>1 DEF AnswersAreExecuted
    <2>2. ASSUME a \notin answers, NEW c \in Conns, LinkRead(c) PROVE FALSE
      <3>1. PICK f : answers' = answers \/ answers' = answers \cup {[conn |-> c, id |-> f.id,
                                                        req |-> f.value, done |-> FALSE]}
        BY <2>2 DEF LinkRead
      <3> QED
        BY <1>2, <2>2, <3>1
    <2>3. ASSUME NEW b \in answers, Execute(b), a \notin answers PROVE a.req \in executed'
      <3>1. a = [b EXCEPT !.done = TRUE] /\ executed' = executed \cup {b.req}
        BY <2>3 DEF Execute
      <3>2. a.req = b.req
        BY <3>1 DEF Typed, AnswersTyped
      <3> QED
        BY <3>1, <3>2
    <2> QED
      BY <2>1, <2>2, <2>3, HandledStays, StepIsOne
  <1>3. ASSUME NEW c \in Conns, NEW f \in Range(conn'[c].toHub), f.type = "response"
        PROVE  f.value \in executed'
    <2>1. CASE f \in Range(conn[c].toHub)
      BY <1>1, <1>3, <2>1 DEF AnswersAreExecuted
    <2>2. ASSUME Flows(c) PROVE f \in Range(conn[c].toHub)
      BY <1>3, <2>2 DEF Flows
    <2>3. ASSUME NEW a \in answers, Reply(a) PROVE f.value \in executed'
      <3>1. CASE c # a.conn
        BY <2>1, <2>2, <2>3, <3>1, ReplyEffect DEF Calm
      <3>2. CASE c = a.conn /\ f = Frame("response", a.id, a.req)
        BY <1>1, <2>3, <3>2 DEF AnswersAreExecuted, Reply, Frame
      <3> QED
        BY <2>1, <2>3, <3>1, <3>2, ReplyEffect
    <2>4. ASSUME CloseDisconnects \/ Leave \/ Register \/ SendState \/ Dial \/ StopDaemon
                 \/ CrashDaemon
          PROVE  Flows(c)
      BY <2>4, LinkEffect, DialEffect, DaemonEffect DEF Calm, Retires
    <2>5. ASSUME NEW d \in Conns,
                 \/ LinkRead(d) \/ LinkReadEnds(d) \/ Accept(d) \/ Refuse(d) \/ FirstFails(d)
                 \/ Enter(d) \/ ServeState(d) \/ ServeResponse(d) \/ HandOver(d) \/ ServeEnds(d)
          PROVE  Flows(c)
      BY <2>5, ReaderEffect, AcceptEffect, RetireEffect, EnterEffect, StateEffect,
         ResponseEffect, HandEffect DEF Calm, Retires
    <2>6. ASSUME NEW r \in Requests, Enqueue(r) \/ SendFails(r) \/ GiveUp(r) PROVE Flows(c)
      BY <2>6, EnqueueEffect, ForgetEffect DEF SendFails, GiveUp, Calm
    <2>7. ASSUME NEW r \in Requests, SendRequest(r) PROVE conn'[c].toHub = conn[c].toHub
      BY <2>7, SendEffect
    <2>8. ASSUME \/ ExitDaemon \/ Apart \/ \E r \in Requests : NotConnected(r) \/ Answered(r)
                 \/ \E a \in answers : Execute(a)
          PROVE  conn' = conn
      BY <2>8 DEF ExitDaemon, Apart, NotConnected, Answered, Execute
    <2> QED
      BY <1>3, <2>1, <2>2, <2>3, <2>4, <2>5, <2>6, <2>7, <2>8, StepIsOne
  <1>4. ASSUME NEW c \in Conns, conn'[c].hand # None
        PROVE  conn'[c].hand.to = conn'[c].hand.answer /\ conn'[c].hand.answer \in executed'
    <2>1. CASE conn'[c].hand = conn[c].hand
      BY <1>1, <1>4, <2>1 DEF AnswersAreExecuted
    <2>2. CASE ServeResponse(c)
      <3>1. PICK f \in Range(conn[c].toHub), w \in SUBSET conn[c].pending : Taken(c, f, w)
        BY <2>2, ResponseEffect
      <3>2. PICK p \in conn[c].pending :
               p.id = f.id /\ conn'[c].hand = [to |-> p.req, answer |-> f.value]
        BY <1>4, <3>1 DEF Taken
      <3>3. [id |-> f.id, req |-> f.value] \in Slips(c)
        BY <3>1 DEF Slips, AnsweredOn, Taken
      <3>4. Served(c)
        BY <2>2 DEF ServeResponse, Served
      <3>5. p = [id |-> f.id, req |-> f.value]
        <4>1. [id |-> f.id, req |-> f.value].id = p.id
          BY <3>2
        <4> QED
          BY <3>3, <3>4, <4>1 DEF SlipsAgree, AgreeOn
      <3>6. f.value \in executed
        BY <3>1 DEF AnswersAreExecuted, Taken
      <3> QED
        BY <1>1, <3>2, <3>5, <3>6
    <2> QED
      BY <1>4, <2>1, <2>2, HandsOf
  <1> QED
    BY <1>2, <1>3, <1>4 DEF AnswersAreExecuted

LEMMA NextOwnAnswer ==
    ASSUME Typed, AnswersAreExecuted, HandIsUsed, OwnAnswer, [Next]_vars
    PROVE  OwnAnswer'
  <1>1. executed \subseteq executed'
    BY ExecutedGrows
  <1>2. ASSUME NEW r \in Requests, request'[r].waiter \in Requests
        PROVE  request'[r].waiter = r /\ r \in executed'
    <2>1. CASE request'[r].waiter = request[r].waiter
      BY <1>1, <1>2, <2>1 DEF OwnAnswer
    <2>2. ASSUME NEW q \in Requests, NotConnected(q) \/ SendFails(q) \/ GiveUp(q)
          PROVE  request'[r].waiter \in {None, request[r].waiter}
      <3>1. PICK x \in Places : x \notin {"sending", "waiting"} /\ Returns(q, x)
        BY <2>2 DEF NotConnected, SendFails, GiveUp, Places
      <3> QED
        BY <3>1, ReturnEffect
    <2>3. ASSUME NEW q \in Requests, SendRequest(q) \/ Answered(q)
          PROVE  request'[r].waiter = request[r].waiter
      <3>1. request' = [request EXCEPT ![q].pc = request'[q].pc]
        BY <2>3 DEF SendRequest, Answered, Typed, HubTyped, Caller
      <3> QED
        BY <3>1, CallerOf DEF Typed, HubTyped, Caller
    <2>4. ASSUME NEW q \in Requests, Enqueue(q)
          PROVE  request'[r].waiter \in {None, request[r].waiter}
      <3>1. PICK c \in Conns, id \in Nat :
              request' = [request EXCEPT ![q] = [pc |-> "sending", conn |-> c, id |-> id,
                                                 waiter |-> None]]
        BY <2>4, EnqueueEffect
      <3> QED
        BY <3>1 DEF Typed, HubTyped
    <2>5. ASSUME NEW c \in Conns, ServeEnds(c)
          PROVE  request'[r].waiter \in {"closed", request[r].waiter}
      BY <2>5, ServeEndsEffect
    <2>6. ASSUME NEW c \in Conns, HandOver(c)
          PROVE  request'[r].waiter = r /\ r \in executed'
      <3>1. PICK q \in Requests, v \in Requests :
               /\ conn[c].hand = [to |-> q, answer |-> v]
               /\ request'[r].waiter = IF r = q /\ InFlight(q) THEN v ELSE request[r].waiter
        BY <2>6, GivenEffect
      <3>2. conn[c].hand # None
        BY <2>6 DEF HandOver, HandIsUsed
      <3>3. q = v /\ v \in executed
        BY <3>1, <3>2 DEF AnswersAreExecuted
      <3> QED
        BY <1>1, <2>1, <3>1, <3>3
    <2>7. ASSUME ExitDaemon \/ CrashDaemon PROVE request'[r].waiter \in {None, request[r].waiter}
      BY <2>7, InterruptEffect DEF ExitDaemon, CrashDaemon
    <2> QED
      BY <1>2, <2>1, <2>2, <2>3, <2>4, <2>5, <2>6, <2>7, CallsAlone, StepIsOne
  <1> QED
    BY <1>2 DEF OwnAnswer

LEMMA NextListed ==
    ASSUME Typed, ListedIsServed, [Next]_vars
    PROVE  ListedIsServed'
  <1>1. ASSUME NEW c \in Conns, conn'[c].pc = conn[c].pc, Served(c) PROVE Served(c)'
    BY <1>1 DEF Served
  <1>2. ASSUME NEW c \in Conns, Calm(c), Served(c) PROVE Served(c)'
    BY <1>2 DEF Calm, Keeps, Served
  <1>3. ASSUME listed' = listed, \A c \in Conns : Served(c) => Served(c)' PROVE ListedIsServed'
    BY <1>3 DEF ListedIsServed, Typed, HubTyped, Served
  <1>4. CASE CloseDisconnects \/ Leave \/ Register \/ SendState
    <2>1. listed' = listed
      BY <1>4 DEF CloseDisconnects, Leave, Register, SendState
    <2> QED
      BY <1>2, <1>3, <1>4, <2>1, LinkEffect
  <1>5. CASE Dial
    <2>1. PICK c \in Conns : Free(c) /\ \A d \in Conns \ {c} : Calm(d)
      BY <1>5, DialEffect
    <2>2. listed' = listed /\ ~Served(c)
      BY <1>5, <2>1 DEF Dial, Free, Served
    <2> QED
      BY <1>2, <1>3, <2>1, <2>2
  <1>6. ASSUME NEW d \in Conns, LinkRead(d) \/ LinkReadEnds(d) \/ ServeState(d)
        PROVE  ListedIsServed'
    <2>1. listed' = listed
      BY <1>6 DEF LinkRead, LinkReadEnds, ServeState
    <2> QED
      BY <1>2, <1>3, <1>6, <2>1, ReaderEffect, StateEffect
  <1>7. ASSUME NEW d \in Conns, Accept(d) \/ Refuse(d) \/ FirstFails(d) PROVE ListedIsServed'
    <2>1. listed' = listed /\ ~Served(d)
      BY <1>7 DEF Accept, Refuse, FirstFails, Served
    <2>2. \A c \in Conns \ {d} : Calm(c)
      BY <1>7, AcceptEffect, RetireEffect
    <2> QED
      BY <1>2, <1>3, <2>1, <2>2
  <1>8. ASSUME NEW d \in Conns, ServeResponse(d) \/ HandOver(d) PROVE ListedIsServed'
    <2>1. listed' = listed
      BY <1>8 DEF ServeResponse, HandOver
    <2>2. Served(d)' /\ \A c \in Conns \ {d} : Calm(c)
      <3>1. CASE ServeResponse(d)
        <4>1. PICK f \in Range(conn[d].toHub), w \in SUBSET conn[d].pending : Taken(d, f, w)
          BY <3>1, ResponseEffect
        <4> QED
          BY <3>1, <4>1, ResponseEffect DEF Taken, Served
      <3>2. CASE HandOver(d)
        BY <3>2, HandEffect DEF Served
      <3> QED
        BY <1>8, <3>1, <3>2
    <2> QED
      BY <1>2, <1>3, <2>1, <2>2
  <1>9. ASSUME NEW d \in Conns, Enter(d) PROVE ListedIsServed'
    BY <1>9, EnterEffect DEF Enter, ListedIsServed, Served
  <1>10. ASSUME NEW d \in Conns, ServeEnds(d) PROVE ListedIsServed'
    <2>1. listed' = (IF listed = d THEN None ELSE listed) /\ \A c \in Conns \ {d} : Calm(c)
      BY <1>10, RetireEffect DEF ServeEnds, RemovedIfListed
    <2> QED
      BY <1>2, <2>1 DEF ListedIsServed, Typed, HubTyped, Served
  <1>11. ASSUME listed' = listed, \A c \in Conns : conn'[c].pc = conn[c].pc PROVE ListedIsServed'
    BY <1>1, <1>3, <1>11
  <1>12. ASSUME NEW a \in answers, Execute(a) \/ Reply(a) PROVE ListedIsServed'
    <2>1. listed' = listed
      BY <1>12 DEF Execute, Reply
    <2>2. \A c \in Conns : conn'[c].pc = conn[c].pc
      BY <1>12, ReplyEffect DEF Execute, Keeps
    <2> QED
      BY <1>11, <2>1, <2>2
  <1>13. ASSUME NEW r \in Requests, Enqueue(r) \/ SendRequest(r) PROVE ListedIsServed'
    <2>1. listed' = listed
      BY <1>13 DEF Enqueue, SendRequest
    <2>2. \A c \in Conns : conn'[c].pc = conn[c].pc
      BY <1>13, EnqueueEffect, SendEffect DEF Calm, Keeps
    <2> QED
      BY <1>11, <2>1, <2>2
  <1>14. ASSUME NEW r \in Requests, SendFails(r) \/ GiveUp(r) PROVE ListedIsServed'
    <2>1. listed' = listed /\ conn' = Forgets(r)
      BY <1>14 DEF SendFails, GiveUp
    <2> QED
      BY <1>11, <2>1, ForgetEffect
  <1>15. CASE Apart \/ \E r \in Requests : NotConnected(r) \/ Answered(r)
    BY <1>11, <1>15 DEF Apart, NotConnected, Answered
  <1>16. CASE StopDaemon
    <2>1. listed' = listed
      BY <1>16 DEF StopDaemon
    <2>2. ASSUME NEW c \in Conns, Served(c) PROVE Served(c)'
      <3>1. conn'[c] = [conn[c] EXCEPT !.hubEnd = FALSE]
        BY <1>16, <2>2 DEF StopDaemon, Served
      <3> QED
        BY <2>2, <3>1, FieldsOf, ClosedByHub DEF Typed, Alike, Served
    <2> QED
      BY <1>3, <2>1, <2>2
  <1>17. CASE ExitDaemon
    BY <1>17 DEF ExitDaemon, ListedIsServed, Served, Typed, HubTyped
  <1>18. CASE CrashDaemon
    BY <1>18 DEF CrashDaemon, ListedIsServed
  <1> QED
    BY <1>4, <1>5, <1>6, <1>7, <1>8, <1>9, <1>10, <1>12, <1>13, <1>14, <1>15, <1>16, <1>17,
       <1>18, StepIsOne

\* What can wake a caller that stays where it is stays, when its connection keeps it.
LEMMA AwakeStays ==
    ASSUME Typed, NEW r \in Requests, Awake(r), CallStays(r),
           request'[r].waiter = request[r].waiter,
           \A c \in Conns : Served(c) =>
               /\ Served(c)' /\ conn'[c].hand = conn[c].hand
               /\ \A p \in conn[c].pending : p.req = r => p \in conn'[c].pending
    PROVE  Awake(r)'
  <1> SUFFICES ASSUME InFlight(r)', request'[r].waiter = None PROVE Awake(r)'
    BY DEF Awake
  <1>1. /\ InFlight(r) /\ request[r].waiter = None
        /\ request'[r].conn = request[r].conn /\ request'[r].id = request[r].id
    BY DEF CallStays
  <1>2. PICK c \in Conns : /\ c = request[r].conn /\ Served(c)
                           /\ \/ [id |-> request[r].id, req |-> r] \in conn[c].pending
                              \/ conn[c].hand # None /\ conn[c].hand.to = r
    BY <1>1 DEF Awake
  <1>3. PICK p : p = [id |-> request[r].id, req |-> r]
    OBVIOUS
  <1>4. p.req = r
    BY <1>3
  <1>5. Served(c)' /\ (p \in conn'[c].pending \/ (conn'[c].hand # None /\ conn'[c].hand.to = r))
    BY <1>2, <1>3, <1>4
  <1> QED
    BY <1>1, <1>2, <1>3, <1>5 DEF Awake

LEMMA NextAwake ==
    ASSUME Typed, HandIsUsed, SlipsAgree, ListedIsServed, CallersAwake, [Next]_vars
    PROVE  CallersAwake'
  <1>1. SUFFICES ASSUME NEW r \in Requests PROVE Awake(r)'
    BY DEF CallersAwake
  <1>2. Awake(r)
    BY DEF CallersAwake
  <1>3. ASSUME NEW c \in Conns, Calm(c), Served(c)
        PROVE  /\ Served(c)' /\ conn'[c].hand = conn[c].hand
               /\ \A p \in conn[c].pending : p.req = r => p \in conn'[c].pending
    BY <1>3 DEF Calm, Keeps, Served
  <1>4. ASSUME \A c \in Conns : Served(c) => Calm(c), CallStays(r),
               request'[r].waiter = request[r].waiter
        PROVE  Awake(r)'
    BY <1>2, <1>3, <1>4, AwakeStays
  <1>5. ASSUME \A c \in Conns : Served(c) => Calm(c), request' = request PROVE Awake(r)'
    BY <1>4, <1>5, CallsStay
  <1>6. CASE CloseDisconnects \/ Leave \/ Register \/ SendState
    BY <1>5, <1>6, LinkEffect, CallsAlone
  <1>7. CASE Dial
    <2>1. PICK c \in Conns : Free(c) /\ \A d \in Conns \ {c} : Calm(d)
      BY <1>7, DialEffect
    <2>2. ~Served(c)
      BY <2>1 DEF Free, Served
    <2> QED
      BY <1>5, <1>7, <2>1, <2>2, CallsAlone
  <1>8. ASSUME NEW d \in Conns, LinkRead(d) \/ LinkReadEnds(d) \/ ServeState(d) PROVE Awake(r)'
    BY <1>5, <1>8, ReaderEffect, StateEffect, CallsAlone
  <1>9. ASSUME NEW a \in answers, Execute(a) \/ Reply(a) PROVE Awake(r)'
    <2>1. ASSUME NEW c \in Conns, Served(c)
          PROVE  /\ Served(c)' /\ conn'[c].hand = conn[c].hand
                 /\ \A p \in conn[c].pending : p.req = r => p \in conn'[c].pending
      BY <1>9, <2>1, ReplyEffect DEF Execute, Keeps, Served
    <2> QED
      BY <1>2, <1>9, <2>1, AwakeStays, CallsAlone, CallsStay
  <1>10. ASSUME NEW d \in Conns, Accept(d) \/ Refuse(d) \/ FirstFails(d) \/ Enter(d)
         PROVE  Awake(r)'
    <2>1. ~Served(d)
      BY <1>10 DEF Accept, Refuse, FirstFails, Enter, Served
    <2>2. \A c \in Conns \ {d} : Calm(c)
      BY <1>10, AcceptEffect, RetireEffect, EnterEffect
    <2> QED
      BY <1>5, <1>10, <2>1, <2>2, CallsAlone
  <1>11. ASSUME NEW d \in Conns, ServeResponse(d) PROVE Awake(r)'
    <2>1. request' = request
      BY <1>11, CallsAlone
    <2>2. CASE ~(InFlight(r) /\ request[r].waiter = None)
      BY <2>1, <2>2 DEF Awake, InFlight
    <2>3. CASE InFlight(r) /\ request[r].waiter = None /\ request[r].conn # d
      BY <1>2, <1>3, <1>11, <2>1, <2>3, ResponseEffect DEF Awake
    <2>4. CASE InFlight(r) /\ request[r].waiter = None /\ request[r].conn = d
      <3>1. PICK f \in Range(conn[d].toHub), w \in SUBSET conn[d].pending : Taken(d, f, w)
        BY <1>11, ResponseEffect
      <3>2. conn[d].pc = "serving"
        BY <1>11, ResponseEffect
      <3>3. conn[d].hand = None
        BY <3>2 DEF HandIsUsed
      <3>4. PICK p \in conn[d].pending : p = [id |-> request[r].id, req |-> r]
        BY <1>2, <2>4, <3>3 DEF Awake
      <3>5. Served(d) /\ Served(d)'
        BY <3>1, <3>2 DEF Taken, Served
      <3>6. CASE p \notin w
        BY <2>1, <2>4, <3>1, <3>4, <3>5, <3>6 DEF Taken, Awake
      <3>7. CASE p \in w
        <4>1. PICK q \in w : /\ conn'[d].pc = "handing"
                             /\ conn'[d].hand = [to |-> q.req, answer |-> f.value]
          BY <3>1, <3>7 DEF Taken
        <4>2. q.id = p.id
          BY <3>1, <3>7, <4>1 DEF Taken
        <4>3. q = p
          <5>1. q \in Slips(d) /\ p \in conn[d].pending
            BY <4>1 DEF Slips
          <5> QED
            BY <3>5, <4>2, <5>1 DEF SlipsAgree, AgreeOn
        <4>4. conn'[d].hand.to = r
          BY <3>4, <4>1, <4>3
        <4>5. conn'[d].hand # None
          BY <1>11, <4>1, NextHand DEF HandIsUsed
        <4> QED
          BY <2>1, <2>4, <3>5, <4>4, <4>5 DEF Awake
      <3> QED
        BY <3>6, <3>7
    <2> QED
      BY <2>2, <2>3, <2>4
  <1>12. ASSUME NEW d \in Conns, HandOver(d) PROVE Awake(r)'
    <2>1. PICK q \in Requests, v \in Requests :
             /\ conn[d].hand = [to |-> q, answer |-> v]
             /\ \A s \in Requests :
                   /\ CallStays(s) /\ InFlight(s)' = InFlight(s)
                   /\ request'[s].waiter = IF s = q /\ InFlight(q) THEN v ELSE request[s].waiter
      BY <1>12, GivenEffect
    <2>2. CASE r = q
      <3>1. InFlight(r)' => request'[r].waiter \in Requests
        BY <2>1, <2>2
      <3> QED
        BY <3>1 DEF Awake
    <2>3. CASE r # q
      <3>1. request'[r].waiter = request[r].waiter /\ CallStays(r)
        BY <2>1, <2>3
      <3>2. conn[d].hand.to # r
        BY <2>1, <2>3
      <3>3. \A c \in Conns \ {d} : Calm(c)
        BY <1>12, HandEffect
      <3>4. Served(d) /\ Served(d)' /\ conn'[d].pending = conn[d].pending
        BY <1>12, HandEffect DEF Served
      <3>5. CASE InFlight(r)' /\ request'[r].waiter = None
        <4>1. /\ InFlight(r) /\ request[r].waiter = None
              /\ request'[r].conn = request[r].conn /\ request'[r].id = request[r].id
          BY <3>1, <3>5 DEF CallStays
        <4>2. CASE request[r].conn = d
          BY <1>2, <3>2, <3>4, <4>1, <4>2 DEF Awake
        <4>3. CASE request[r].conn # d
          BY <1>2, <1>3, <3>3, <4>1, <4>3 DEF Awake
        <4> QED
          BY <4>2, <4>3
      <3> QED
        BY <3>5 DEF Awake
    <2> QED
      BY <2>2, <2>3
  <1>13. ASSUME NEW d \in Conns, ServeEnds(d) PROVE Awake(r)'
    <2>1. CallStays(r) /\ request'[r].waiter = IF r \in WaitersOf(d) THEN "closed"
                                               ELSE request[r].waiter
      BY <1>13, ServeEndsEffect
    <2>2. \A c \in Conns \ {d} : Calm(c)
      BY <1>13, RetireEffect
    <2>3. CASE InFlight(r)' /\ request'[r].waiter = None
      <3>1. /\ InFlight(r) /\ request[r].waiter = None /\ r \notin WaitersOf(d)
            /\ request'[r].conn = request[r].conn /\ request'[r].id = request[r].id
        BY <2>1, <2>3 DEF CallStays
      <3>2. conn[d].hand = None
        BY <1>13 DEF ServeEnds, HandIsUsed
      <3>3. [id |-> request[r].id, req |-> r] \notin conn[d].pending
        BY <3>1 DEF WaitersOf
      <3>4. request[r].conn # d
        BY <1>2, <3>1, <3>2, <3>3 DEF Awake
      <3> QED
        BY <1>2, <1>3, <2>2, <3>1, <3>4 DEF Awake
    <2> QED
      BY <2>3 DEF Awake
  <1>14. ASSUME NEW q \in Requests, NotConnected(q) PROVE Awake(r)'
    <2>1. PICK x \in Places : x = "notfound" /\ Returns(q, x)
      BY <1>14 DEF NotConnected, Places
    <2>2. /\ CallStays(r) /\ ~InFlight(q)' /\ (r # q => request'[r] = request[r])
      BY <2>1, ReturnEffect
    <2>3. \A c \in Conns : Calm(c)
      BY <1>14, Untouched DEF NotConnected, Typed
    <2> QED
      BY <1>4, <2>2, <2>3 DEF Awake
  <1>15. ASSUME NEW q \in Requests, Enqueue(q) PROVE Awake(r)'
    <2>1. PICK c \in Conns, id \in Nat :
              /\ listed = c /\ \A d \in Conns \ {c} : Calm(d)
              /\ conn'[c].pc = conn[c].pc /\ conn'[c].hand = conn[c].hand
              /\ conn'[c].pending = conn[c].pending \cup {[id |-> id, req |-> q]}
              /\ request' = [request EXCEPT ![q] = [pc |-> "sending", conn |-> c, id |-> id,
                                                    waiter |-> None]]
      BY <1>15, EnqueueEffect
    <2>2. Served(c) /\ Served(c)'
      BY <2>1 DEF ListedIsServed, Served
    <2>3. CASE r = q
      <3>1. request'[r].conn = c /\ request'[r].id = id
        BY <2>1, <2>3 DEF Typed, HubTyped
      <3> QED
        BY <2>1, <2>2, <2>3, <3>1 DEF Awake
    <2>4. CASE r # q
      <3>1. request'[r] = request[r]
        BY <2>1, <2>4 DEF Typed, HubTyped
      <3>2. CallStays(r)
        BY <3>1 DEF CallStays, InFlight
      <3>3. ASSUME NEW d \in Conns, Served(d)
            PROVE  /\ Served(d)' /\ conn'[d].hand = conn[d].hand
                   /\ \A p \in conn[d].pending : p.req = r => p \in conn'[d].pending
        BY <1>3, <2>1, <2>2, <3>3
      <3> QED
        BY <1>2, <3>1, <3>2, <3>3, AwakeStays
    <2> QED
      BY <2>3, <2>4
  <1>16. ASSUME NEW q \in Requests, SendRequest(q) \/ Answered(q) PROVE Awake(r)'
    <2>1. PICK x \in Places :
             /\ x # "sending" /\ (x = "waiting" => request[q].pc = "sending")
             /\ request' = [request EXCEPT ![q].pc = x]
      BY <1>16 DEF SendRequest, Answered, Places
    <2>2. CallStays(r) /\ request'[r].waiter = request[r].waiter
      BY <2>1, PlaceEffect
    <2>3. ASSUME NEW c \in Conns, Served(c)
          PROVE  /\ Served(c)' /\ conn'[c].hand = conn[c].hand
                 /\ \A p \in conn[c].pending : p.req = r => p \in conn'[c].pending
      BY <1>16, <2>3, SendEffect DEF Answered, Keeps, Served
    <2> QED
      BY <1>2, <2>2, <2>3, AwakeStays
  <1>17. ASSUME NEW q \in Requests, SendFails(q) \/ GiveUp(q) PROVE Awake(r)'
    <2>1. PICK x \in Places : x \notin {"sending", "waiting"} /\ Returns(q, x)
      BY <1>17 DEF SendFails, GiveUp, Places
    <2>2. /\ CallStays(r) /\ ~InFlight(q)' /\ (r # q => request'[r] = request[r])
      BY <2>1, ReturnEffect
    <2>3. conn' = Forgets(q)
      BY <1>17 DEF SendFails, GiveUp
    <2>4. ASSUME r # q, NEW c \in Conns, Served(c)
          PROVE  /\ Served(c)' /\ conn'[c].hand = conn[c].hand
                 /\ \A p \in conn[c].pending : p.req = r => p \in conn'[c].pending
      BY <2>3, <2>4, ForgetEffect DEF Served
    <2> QED
      BY <1>2, <2>2, <2>4, AwakeStays DEF Awake
  <1>18. CASE StopDaemon
    <2>1. \A c \in Conns : Served(c) => Calm(c)
      <3>1. ASSUME NEW c \in Conns, Served(c), Retires(c) PROVE FALSE
        <4>1. conn'[c] = [conn[c] EXCEPT !.hubEnd = FALSE]
          BY <1>18, <3>1 DEF StopDaemon, Served
        <4>2. conn'[c].pc = conn[c].pc
          BY <4>1, FieldsOf, ClosedByHub DEF Typed, Alike
        <4> QED
          BY <3>1, <4>2 DEF Retires, Served
      <3> QED
        BY <1>18, <3>1, DaemonEffect
    <2> QED
      BY <1>5, <1>18, <2>1, CallsAlone
  <1>19. CASE ExitDaemon \/ CrashDaemon
    <2>1. ~InFlight(r)'
      BY <1>19, InterruptEffect DEF ExitDaemon, CrashDaemon
    <2> QED
      BY <2>1 DEF Awake
  <1>20. CASE Apart
    BY <1>5, <1>20, Untouched DEF Apart, Typed
  <1> QED
    BY <1>6, <1>7, <1>8, <1>9, <1>10, <1>11, <1>12, <1>13, <1>14, <1>15, <1>16, <1>17, <1>18,
       <1>19, <1>20, StepIsOne

-----------------------------------------------------------------------------
(* The results                                                             *)

Inv == Typed /\ IInv

LEMMA InitInv == Init => Inv
  <1> SUFFICES ASSUME Init PROVE Inv
    OBVIOUS
  <1>1. Unused \in Connection
    BY NoFrames DEF Unused, Connection
  <1>2. Idle \in Caller
    BY DEF Idle, Caller, Places
  <1>3. Typed
    <2>1. ConnsTyped /\ FirstTyped
      BY <1>1 DEF Init, ConnsTyped, FirstTyped, Unused
    <2>2. SessionTyped
      BY DEF Init, SessionTyped, Links
    <2>3. AnswersTyped /\ HubTyped
      BY <1>2 DEF Init, AnswersTyped, HubTyped, Idle, InFlight
    <2> QED
      BY <2>1, <2>2, <2>3 DEF Typed
  <1>4. \A c \in Conns : conn[c].pc = "gone" /\ conn[c].hand = None /\ conn[c].toHub = <<>>
    <2>1. \A c \in Conns : conn[c] = Unused
      BY DEF Init
    <2>2. Unused.pc = "gone" /\ Unused.hand = None /\ Unused.toHub = <<>>
      BY DEF Unused
    <2> QED
      BY <2>1, <2>2
  <1>5. SlipsAgree /\ HandIsUsed
    BY <1>4 DEF SlipsAgree, AgreeOn, HandIsUsed, Served, Unserved
  <1>6. AnswersAreExecuted
    BY <1>4, RangeEmpty DEF Init, AnswersAreExecuted
  <1>7. ListedIsServed /\ OwnAnswer /\ CallersAwake
    BY DEF Init, ListedIsServed, OwnAnswer, CallersAwake, Awake, InFlight, Idle
  <1> QED
    BY <1>3, <1>5, <1>6, <1>7 DEF Inv, IInv

\* A connection without slips has no response on its way.
LEMMA SlipsTypeFirst == SlipsAgree' => FirstTyped'
  <1> SUFFICES ASSUME SlipsAgree', NEW c \in Conns, conn'[c].pc \in {"backlog", "first"},
                      NEW f \in Range(conn'[c].toHub), f.type = "response"
               PROVE  FALSE
    BY DEF FirstTyped
  <1>1. Slips(c)' = {}
    BY DEF SlipsAgree, AgreeOn, Unserved
  <1>2. [id |-> f.id, req |-> f.value] \in AnsweredOn(c)'
    BY DEF AnsweredOn
  <1> QED
    BY <1>1, <1>2 DEF Slips

LEMMA NextInv == Inv /\ [Next]_vars => Inv'
  <1> SUFFICES ASSUME Inv, [Next]_vars PROVE Inv'
    OBVIOUS
  <1> USE DEF Inv, IInv
  <1>1. SlipsAgree' /\ AnswersAreExecuted' /\ HandIsUsed'
    BY NextSlips, NextExecuted, NextHand
  <1>2. Typed'
    BY <1>1, SlipsTypeFirst, NextTyped
  <1>3. ListedIsServed' /\ OwnAnswer'
    BY NextListed, NextOwnAnswer
  <1>4. CallersAwake'
    BY NextAwake
  <1> QED
    BY <1>1, <1>2, <1>3, <1>4

\* The identifiers of every connection keep their meaning, and with them the waiters and
\* the answers (peer.pending and nextID of Hub, Link.answer).
THEOREM ChannelInvariant == Spec => []Inv
  BY InitInv, NextInv, PTL DEF Spec

\* An answer belongs to the request it is given to, and the session has executed that
\* request: across timeouts, late answers, replaced peers and daemons (Hub.Request and the
\* responses of Hub.Serve).
THEOREM AnswersAreOwn == Spec => []OwnAnswer
  <1>1. Inv => OwnAnswer
    BY DEF Inv, IInv
  <1> QED
    BY <1>1, ChannelInvariant, PTL

\* A caller inside Hub.Request can always still be woken: no step of the server, the link
\* or another caller takes its waiter away unused (peer.pending, the deferred function of
\* Hub.Serve).
THEOREM WaitersAreNotLost == Spec => []NoLostWaiter
  <1>1. Inv => NoLostWaiter
    BY DEF Inv, IInv, CallersAwake, Awake, NoLostWaiter
  <1> QED
    BY <1>1, ChannelInvariant, PTL

-----------------------------------------------------------------------------
(* The types                                                               *)

OthersTyped ==
    /\ session \in {"running", "stopping", "cancelled", "closed"}
    /\ storing \in BOOLEAN /\ wake \in BOOLEAN
    /\ daemon \in {"up", "closing", "down"} /\ executed \subseteq Requests
    /\ faults \in 0..MaxFaults

(* Hub.Serve leaves no waiter behind.                                      *)
GoneIsEmpty == \A c \in Conns : conn[c].pc = "gone" => conn[c].pending = {}

LEMMA NextOthers ==
    ASSUME Typed, OthersTyped, [Next]_vars
    PROVE  OthersTyped'
  <1> USE DEF OthersTyped
  <1>1. CASE PublishStore \/ PublishWake \/ EndSession \/ CloseCancels \/ CloseDisconnects
    BY <1>1 DEF PublishStore, PublishWake, EndSession, CloseCancels, CloseDisconnects
  <1>2. CASE TryStop \/ TryNothing \/ Dial \/ Hold \/ Register \/ Check \/ SendState
    BY <1>2 DEF TryStop, TryNothing, Dial, Hold, Register, Check, SendState
  <1>3. CASE WriteFails \/ SelectWake \/ SelectEnd \/ Leave \/ Rest
    BY <1>3 DEF WriteFails, SelectWake, SelectEnd, Leave, Rest
  <1>4. ASSUME Fault PROVE faults' \in 0..MaxFaults
    BY <1>4 DEF Fault
  <1>5. CASE WriteExpires
    BY <1>4, <1>5 DEF WriteExpires
  <1>6. ASSUME NEW a \in answers, Execute(a) \/ Reply(a) PROVE OthersTyped'
    BY <1>6 DEF Execute, Reply, Typed, AnswersTyped
  <1>7. ASSUME NEW c \in Conns, LinkRead(c) \/ LinkReadEnds(c) PROVE OthersTyped'
    BY <1>7 DEF LinkRead, LinkReadEnds
  <1>8. ASSUME NEW c \in Conns, Accept(c) \/ FirstFails(c) \/ Enter(c) \/ ServeState(c)
        PROVE  OthersTyped'
    BY <1>8 DEF Accept, FirstFails, Enter, ServeState
  <1>9. ASSUME NEW c \in Conns, ServeResponse(c) \/ HandOver(c) \/ ServeEnds(c)
        PROVE  OthersTyped'
    BY <1>9 DEF ServeResponse, HandOver, ServeEnds
  <1>10. ASSUME NEW c \in Conns, Refuse(c) PROVE OthersTyped'
    BY <1>4, <1>10 DEF Refuse
  <1>11. ASSUME NEW r \in Requests, NotConnected(r) \/ Enqueue(r) \/ SendRequest(r)
         PROVE  OthersTyped'
    BY <1>11 DEF NotConnected, Enqueue, SendRequest
  <1>12. ASSUME NEW r \in Requests, SendFails(r) \/ GiveUp(r) \/ Answered(r)
         PROVE  OthersTyped'
    BY <1>12 DEF SendFails, GiveUp, Answered
  <1>13. CASE StopDaemon \/ CrashDaemon
    BY <1>4, <1>13 DEF StopDaemon, CrashDaemon
  <1>14. CASE ExitDaemon \/ StartDaemon \/ Terminated \/ UNCHANGED vars
    BY <1>14 DEF ExitDaemon, StartDaemon, Terminated, vars
  <1> HIDE DEF OthersTyped
  <1> QED
    BY <1>1, <1>2, <1>3, <1>5, <1>6, <1>7, <1>8, <1>9, <1>10, <1>11, <1>12, <1>13, <1>14
       DEF Next, LinkStep, CloseStep, AnswerStep, ReaderStep, ServerStep, RequestStep

LEMMA NextGone ==
    ASSUME Inv, GoneIsEmpty, [Next]_vars
    PROVE  GoneIsEmpty'
  <1> SUFFICES ASSUME NEW c \in Conns, conn'[c].pc = "gone" PROVE conn'[c].pending = {}
    BY DEF GoneIsEmpty
  <1> USE DEF Inv
  <1>1. ASSUME Calm(c) \/ Retires(c) PROVE conn'[c].pending = {}
    BY <1>1 DEF Calm, Keeps, Retires, GoneIsEmpty
  <1>2. CASE CloseDisconnects \/ Leave \/ Register \/ SendState
    BY <1>1, <1>2, LinkEffect
  <1>3. CASE Dial
    BY <1>1, <1>3, DialEffect
  <1>4. ASSUME NEW d \in Conns, LinkRead(d) \/ LinkReadEnds(d) \/ ServeState(d)
        PROVE  conn'[c].pending = {}
    BY <1>1, <1>4, ReaderEffect, StateEffect
  <1>5. ASSUME NEW d \in Conns, Accept(d) \/ Enter(d) \/ HandOver(d)
        PROVE  conn'[c].pending = {}
    BY <1>1, <1>5, AcceptEffect, EnterEffect, HandEffect
  <1>6. ASSUME NEW d \in Conns, ServeResponse(d) PROVE conn'[c].pending = {}
    <2>1. d # c
      BY <1>6, ResponseEffect DEF Taken
    <2> QED
      BY <1>1, <1>6, <2>1, ResponseEffect
  <1>7. ASSUME NEW d \in Conns, Refuse(d) \/ FirstFails(d) \/ ServeEnds(d)
        PROVE  conn'[c].pending = {}
    BY <1>1, <1>7, RetireEffect
  <1>8. ASSUME NEW a \in answers, Execute(a) \/ Reply(a) PROVE conn'[c].pending = {}
    <2>1. Keeps(c)
      BY <1>8, ReplyEffect DEF Execute, Keeps
    <2> QED
      BY <2>1 DEF Keeps, GoneIsEmpty
  <1>9. ASSUME NEW r \in Requests, Enqueue(r) PROVE conn'[c].pending = {}
    <2>1. PICK d \in Conns : /\ listed = d /\ conn'[d].pc = conn[d].pc
                             /\ \A e \in Conns \ {d} : Calm(e)
      BY <1>9, EnqueueEffect
    <2>2. d # c
      BY <2>1 DEF IInv, ListedIsServed, Served, ChannelAssumption
    <2> QED
      BY <1>1, <2>1, <2>2
  <1>10. ASSUME NEW r \in Requests, SendRequest(r) PROVE conn'[c].pending = {}
    <2>1. Keeps(c)
      BY <1>10, SendEffect
    <2> QED
      BY <2>1 DEF Keeps, GoneIsEmpty
  <1>11. ASSUME NEW r \in Requests, SendFails(r) \/ GiveUp(r) PROVE conn'[c].pending = {}
    <2>1. conn'[c].pc = conn[c].pc /\ conn'[c].pending \subseteq conn[c].pending
      BY <1>11, ForgetEffect DEF SendFails, GiveUp
    <2> QED
      BY <2>1 DEF GoneIsEmpty
  <1>12. CASE StopDaemon \/ CrashDaemon
    BY <1>1, <1>12, DaemonEffect
  <1>13. ASSUME conn' = conn PROVE conn'[c].pending = {}
    BY <1>13 DEF GoneIsEmpty
  <1>14. ASSUME ExitDaemon \/ Apart \/ \E r \in Requests : NotConnected(r) \/ Answered(r)
         PROVE  conn' = conn
    BY <1>14 DEF ExitDaemon, Apart, NotConnected, Answered
  <1> QED
    BY <1>2, <1>3, <1>4, <1>5, <1>6, <1>7, <1>8, <1>9, <1>10, <1>11, <1>12, <1>13, <1>14,
       StepIsOne

\* No waiter has an identifier beyond its connection's counter.
LEMMA PendingInRange ==
    ASSUME Inv, GoneIsEmpty, NEW c \in Conns
    PROVE  conn[c].pending \subseteq [id : 1..conn[c].nextID, req : Requests]
  <1>1. conn[c].pending \subseteq Slips(c) /\ conn[c].pending \subseteq Slip
        /\ conn[c].nextID \in Nat
    BY FieldsOf DEF Inv, Typed, Slips
  <1>2. CASE Served(c)
    <2>1. ASSUME NEW p \in conn[c].pending PROVE p \in [id : 1..conn[c].nextID, req : Requests]
      <3>1. p \in Slip /\ p.id <= conn[c].nextID
        BY <1>1, <1>2 DEF Inv, IInv, SlipsAgree, AgreeOn
      <3>2. p.id \in 1..conn[c].nextID
        BY <1>1, <3>1 DEF Slip
      <3> QED
        BY <3>1, <3>2 DEF Slip
    <2> QED
      BY <2>1
  <1>3. CASE Unserved(c)
    BY <1>1, <1>3 DEF Inv, IInv, SlipsAgree, AgreeOn
  <1>4. CASE conn[c].pc = "gone"
    BY <1>4 DEF GoneIsEmpty
  <1> QED
    BY <1>2, <1>3, <1>4, FieldsOf DEF Inv, Typed, Served, Unserved

\* What is on its way is a frame.
LEMMA OnItsWay ==
    ASSUME Inv, NEW c \in Conns
    PROVE  /\ \A i \in 1..Len(conn[c].toHub) : conn[c].toHub[i] \in Frames
           /\ \A i \in 1..Len(conn[c].toLink) : conn[c].toLink[i] \in Frames
  <1>1. ToHub \subseteq Frames /\ ToLink \subseteq Frames
    BY DEF ToHub, ToLink, Publications, Responses, Questions, Frames
  <1>2. conn[c].toHub \in Seq(ToHub) /\ conn[c].toLink \in Seq(ToLink)
    BY FieldsOf DEF Inv, Typed
  <1> QED
    BY <1>1, <1>2, ElementOfSeq

\* Every variable holds a value of its kind; what is on its way between the session and the
\* daemon is a frame of the protocol, and a waiter's identifier is one its connection has
\* given out.
THEOREM TypeCorrect == Spec => []TypeOK
  <1>1. Init => OthersTyped /\ GoneIsEmpty
    <2>1. Unused.pending = {}
      BY DEF Unused
    <2>2. Init => GoneIsEmpty
      BY <2>1 DEF Init, GoneIsEmpty
    <2>3. Init => OthersTyped
      <3>1. Init => session = "running" /\ storing = FALSE /\ wake = FALSE /\ daemon = "up"
                       /\ executed = {} /\ faults = 0
        BY DEF Init
      <3>2. 0 \in 0..MaxFaults
        BY DEF ChannelAssumption
      <3> QED
        BY <3>1, <3>2 DEF OthersTyped
    <2> QED
      BY <2>2, <2>3
  <1>2. Inv /\ OthersTyped /\ GoneIsEmpty /\ [Next]_vars => (OthersTyped /\ GoneIsEmpty)'
    BY NextOthers, NextGone DEF Inv
  <1>3. Inv /\ OthersTyped /\ GoneIsEmpty => TypeOK
    <2> SUFFICES ASSUME Inv, OthersTyped, GoneIsEmpty PROVE TypeOK
      OBVIOUS
    <2>1. ASSUME NEW c \in Conns
          PROVE  /\ conn[c].pc \in {"backlog", "first", "serving", "handing", "gone"}
                 /\ \A i \in 1..Len(conn[c].toHub) : conn[c].toHub[i] \in Frames
                 /\ \A i \in 1..Len(conn[c].toLink) : conn[c].toLink[i] \in Frames
                 /\ conn[c].live \in 0..MaxVersion
                 /\ conn[c].pending \subseteq [id : 1..conn[c].nextID, req : Requests]
      <3>1. conn[c] \in Connection
        BY FieldsOf DEF Inv, Typed
      <3>2. /\ conn[c].pc \in {"backlog", "first", "serving", "handing", "gone"}
            /\ conn[c].live \in 0..MaxVersion
        BY <3>1 DEF Connection
      <3> QED
        BY <3>2, OnItsWay, PendingInRange
    <2>2. ASSUME NEW r \in Requests
          PROVE  request[r].pc \in Places /\ request[r].waiter \in Names \cup {"closed"}
      BY DEF Inv, Typed, HubTyped, Caller, Names
    <2>3. version \in 0..MaxVersion /\ link \in Links /\ listed \in Conns \cup {None}
      BY DEF Inv, Typed, SessionTyped, HubTyped
    <2> QED
      BY <2>1, <2>2, <2>3 DEF TypeOK, OthersTyped, Links, Places
  <1> QED
    BY <1>1, <1>2, <1>3, ChannelInvariant, PTL DEF Spec
=============================================================================
