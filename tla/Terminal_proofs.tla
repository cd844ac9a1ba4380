--------------------------- MODULE Terminal_proofs --------------------------
(***************************************************************************)
(* Proofs about the two programs a user runs in a terminal.                *)
(*                                                                         *)
(* The command wrapper: whatever ends a run, nothing of it is left, and a  *)
(* request only reaches the route it was aimed at.  Both follow from one   *)
(* inductive invariant.  It says between which positions of runDevOnce     *)
(* each thing the wrapper takes may be held: the properties speak of the   *)
(* end only, and are not inductive, because what is left at the end        *)
(* depends on the path that led there.                                     *)
(*                                                                         *)
(* The dashboard: what is shown is of what is selected, and was asked for  *)
(* with the flags in force.  Its invariant adds why an answer on its way   *)
(* cannot undo that: the fresh request is one with the flags in force, and *)
(* a page of an instance is only open while that instance is listed, so    *)
(* that a change of flags does ask again.                                  *)
(***************************************************************************)
EXTENDS CommandWrapper, Dashboard, FiniteSetTheorems, TLAPS

-----------------------------------------------------------------------------
(* The command wrapper: the inductive invariant                            *)

Asks == [op : {"none", "stop", "restart"}, arg : Routes \cup {None},
         gen : Nat, step : {"none", "chosen", "handling"}]

Typed == gen \in Nat \ {0} /\ ask \in Asks /\ others \in OtherSets

(* What terminate leads to: the end of a run that has served, or of one    *)
(* that has not got so far.                                                *)
Served == why \in {"exited", "signalled"}
LeavingServed == pc = "terminating" /\ Served

GroupInRun ==
    GroupAlive => pc \in {"waiting", "registering", "publishing", "writing", "unpublished",
                          "announcing", "serving", "terminating"}

LiveInRun ==
    live # NoLive =>
        /\ live = [NoLive EXCEPT !.gen = gen, !.route = route]
        /\ pc \in {"announcing", "serving", "releasing", "closing", "removing"} \/ LeavingServed

ControlInRun ==
    control =>
        pc \in {"writing", "announcing", "serving", "releasing", "closing"} \/ LeavingServed

(* After the run the lease is only left with an error.                     *)
LeaseInRun ==
    lease =>
        \/ pc \in {"publishing", "writing", "unpublished", "announcing", "serving", "releasing"}
        \/ LeavingServed
        \/ /\ pc \in {"terminating", "closing", "removing", "uncatching", "unlocking", "gone"}
           /\ result \in {"error", "killed"}

LockInRun == lock => pc \notin {"start", "gone"}

(* A request never names a generation to come; one that names this one     *)
(* found its live file, so it has its route already.                       *)
AskOfRun ==
    ask.step # "none" =>
        /\ ask.gen <= gen
        /\ ask.gen = gen => pc # "start" /\ ask.arg \in {None, route}

IInv ==
    /\ Typed
    /\ GroupInRun /\ LiveInRun /\ ControlInRun /\ LeaseInRun /\ LockInRun
    /\ AskOfRun

-----------------------------------------------------------------------------
(* The invariant is inductive                                              *)

\* The steps assign and keep variables through these abbreviations, and every step has
\* to be looked at for every part of the invariant.
USE DEF Goto, Terminate, verdict, self, held, wrapper, command, outside
USE DEF IInv, Typed, Asks, GroupInRun, LiveInRun, ControlInRun, LeaseInRun, LockInRun,
        AskOfRun, LeavingServed, Served, GroupAlive, NoLive, NoAsk

\* Nothing is held before the first run.
LEMMA Initially == Init => IInv
  BY WrapperAssumption DEF Init

\* What the wrapper does by itself, in the order of runDevOnce and its deferred calls.
LEMMA WrapperSteps == IInv /\ WrapperStep => IInv'
  <1> SUFFICES ASSUME IInv, WrapperStep PROVE IInv'
    OBVIOUS
  <1>1. CASE Prepare
    BY <1>1 DEF Prepare
  <1>2. CASE CatchSignals
    BY <1>2 DEF CatchSignals
  <1>3. CASE StartCommand
    BY <1>3 DEF StartCommand
  <1>4. CASE ListenerFound
    BY <1>4 DEF ListenerFound
  <1>5. CASE NotFound
    BY <1>5 DEF NotFound
  <1>6. CASE Register
    BY <1>6 DEF Register, Line
  <1>7. CASE OpenControl
    BY <1>7 DEF OpenControl
  <1>8. CASE WriteLive
    BY <1>8 DEF WriteLive
  <1>9. CASE GiveUp
    BY <1>9 DEF GiveUp
  <1>10. CASE Announce
    BY <1>10 DEF Announce, Line
  <1>11. CASE Serve
    BY <1>11 DEF Serve
  <1>12. CASE Kill
    BY <1>12 DEF Kill, GroupEnds
  <1>13. CASE AfterTerminate
    BY <1>13 DEF AfterTerminate, Terminated
  <1>14. CASE Release
    BY <1>14 DEF Release
  <1>15. CASE CloseControl
    BY <1>15 DEF CloseControl
  <1>16. CASE RemoveLive
    BY <1>16 DEF RemoveLive
  <1>17. CASE UncatchSignals
    BY <1>17 DEF UncatchSignals
  <1>18. CASE Finish
    BY <1>18 DEF Finish
  <1> QED
    BY <1>1, <1>2, <1>3, <1>4, <1>5, <1>6, <1>7, <1>8, <1>9, <1>10,
       <1>11, <1>12, <1>13, <1>14, <1>15, <1>16, <1>17, <1>18
       DEF WrapperStep

\* The command's processes, and those that share its port.
LEMMA CommandSteps ==
    IInv /\ (Listen \/ Exit \/ MembersExit \/ OtherListens) => IInv'
  <1> SUFFICES ASSUME IInv, Listen \/ Exit \/ MembersExit \/ OtherListens PROVE IInv'
    OBVIOUS
  <1>1. UNCHANGED <<wrapper, outside>> /\ (GroupAlive' => GroupAlive)
    <2>1. CASE Listen
      BY <2>1 DEF Listen
    <2>2. CASE Exit
      BY <2>2 DEF Exit
    <2>3. CASE MembersExit
      BY <2>3 DEF MembersExit
    <2>4. CASE OtherListens
      BY <2>4 DEF OtherListens
    <2> QED
      BY <2>1, <2>2, <2>3, <2>4
  <1> QED
    BY <1>1

\* A signal nobody catches ends the process where it stands: the group has not been
\* started yet, or has been ended, and the live file is not there.
LEMMA SignalledSafe ==
    ASSUME IInv, Signalled,
           UNCHANGED <<why, gen, route, restart, live, command, others, ask>>
    PROVE  IInv'
  <1>1. CASE Catching
    BY <1>1 DEF Signalled, Catching
  <1>2. CASE ~Catching
    <2>1. pc \in {"start", "prepared", "unlocking"}
      BY <1>2 DEF Signalled, Catching
    <2>2. ~GroupAlive /\ live = NoLive /\ ~control'
      BY <1>2, <2>1 DEF Signalled
    <2> QED
      BY <1>2, <2>1, <2>2 DEF Signalled
  <1> QED
    BY <1>1, <1>2

\* One live file is chosen: it is not one of the others', which are of no generation.
LEMMA ChosenIsNamed ==
    ASSUME IInv, NEW arg \in Routes \cup {None}, Matches(arg) = {live}
    PROVE  live # NoLive /\ live.gen = gen /\ arg \in {None, route}
  <1>1. live \in Listed
    BY DEF Matches
  <1>2. NoLive \notin others
    BY WrapperAssumption
  <1>3. live # NoLive
    BY <1>1, <1>2 DEF Listed
  <1>4. live.gen = gen /\ live.route = route
    BY <1>3
  <1>5. arg # None => live.route = arg
    BY DEF Matches, Publishes
  <1> QED
    BY <1>3, <1>4, <1>5

LEMMA ChooseStep ==
    ASSUME IInv, NEW op \in {"stop", "restart"}, NEW arg \in Routes \cup {None},
           Choose(op, arg)
    PROVE  IInv'
  <1>1. UNCHANGED <<wrapper, command, others>>
    BY DEF Choose
  <1>2. CASE Matches(arg) = {live}
    <2>1. live # NoLive /\ live.gen = gen /\ arg \in {None, route}
      BY <1>2, ChosenIsNamed
    <2>2. ask' = [op |-> op, arg |-> arg, gen |-> gen, step |-> "chosen"]
      BY <1>2, <2>1 DEF Choose
    <2> QED
      BY <1>1, <2>1, <2>2
  <1>3. CASE Matches(arg) # {live}
    BY <1>1, <1>3 DEF Choose
  <1> QED
    BY <1>2, <1>3

LEMMA Consecution == IInv /\ [Next]_vars => IInv'
  <1> SUFFICES ASSUME IInv, [Next]_vars PROVE IInv'
    OBVIOUS
  <1>1. CASE WrapperStep
    BY <1>1, WrapperSteps
  <1>2. CASE Listen \/ Exit \/ MembersExit \/ OtherListens
    BY <1>2, CommandSteps
  <1>3. CASE Handle
    <2>1. UNCHANGED <<pc, verdict, gen, route, held, command, others>>
      BY <1>3 DEF Handle
    <2>2. ask' \in Asks /\ AskOfRun'
      <3>1. CASE ask' = NoAsk
        BY <3>1, <2>1
      <3>2. CASE ask' = [ask EXCEPT !.step = "handling", !.gen = gen] /\ ask.gen = gen
        BY <1>3, <2>1, <3>2 DEF Handle
      <3> QED
        BY <1>3, <3>1, <3>2 DEF Handle, Dials
    <2> QED
      BY <2>1, <2>2
  <1>4. CASE Acknowledge
    BY <1>4 DEF Acknowledge
  <1>5. CASE ParentReady \/ ParentFails
    <2>1. UNCHANGED <<wrapper, command, others, ask>>
      BY <1>5 DEF ParentReady, ParentFails
    <2> QED
      BY <2>1
  <1>6. CASE Signal \/ ParentTimesOut
    <2>1. Signalled /\ UNCHANGED <<why, gen, route, restart, live, command, others, ask>>
      <3>1. CASE Signal
        BY <3>1 DEF Signal
      <3>2. CASE ParentTimesOut
        BY <3>2 DEF ParentTimesOut
      <3> QED
        BY <1>6, <3>1, <3>2
    <2> QED
      BY <2>1, SignalledSafe
  <1>7. CASE Checkout
    BY <1>7 DEF Checkout
  <1>8. CASE \E op \in {"stop", "restart"}, arg \in Routes \cup {None} : Choose(op, arg)
    BY <1>8, ChooseStep
  <1>9. CASE UNCHANGED vars
    BY <1>9 DEF vars
  <1> QED
    BY <1>1, <1>2, <1>3, <1>4, <1>5, <1>6, <1>7, <1>8, <1>9
       DEF Next, ControlStep, ParentStep

-----------------------------------------------------------------------------
(* The results                                                             *)

\* Spec stays within the inductive invariant.
THEOREM Invariant == Spec => []IInv
  BY Initially, Consecution, PTL DEF Spec

\* Whenever the process is gone and before every new generation, nothing of the old
\* one is left (runDevOnce's deferred calls, terminate, manager.Stop).
THEOREM NothingIsLeft == Spec => []NothingLeft
  <1>1. IInv => NothingLeft
    BY DEF NothingLeft
  <1> QED
    BY <1>1, Invariant, PTL

\* A stop or restart aimed at a route is only carried out by a generation that stands
\* for it (controlWrapper, the token and the socket of each live file).
THEOREM RequestsReachTheNamed == Spec => []RequestReachesNamed
  <1>1. IInv => RequestReachesNamed
    BY DEF RequestReachesNamed
  <1> QED
    BY <1>1, Invariant, PTL

-----------------------------------------------------------------------------
(* Types                                                                   *)

Flags == /\ signals \in BOOLEAN /\ restart \in BOOLEAN /\ lock \in BOOLEAN /\ lease \in BOOLEAN
         /\ control \in BOOLEAN /\ explicit \in BOOLEAN /\ members \in BOOLEAN
         /\ stopped \in BOOLEAN
Ranges ==
    /\ pc \in {"start", "prepared", "caught", "waiting", "registering", "publishing",
               "writing", "unpublished", "announcing", "serving", "terminating",
               "releasing", "closing", "removing", "uncatching", "unlocking", "gone"}
    /\ why \in {"none", "signal", "failed", "exited", "signalled"}
    /\ result \in {"none", "ok", "error", "restart", "killed"}
    /\ gen \in 1..(MaxAsks + 1) /\ route \in Routes \cup {None}
    /\ child \in {"none", "running", "ok", "failed"}
    /\ listener \in {"none", "own", "other"}
    /\ checkout \in Routes /\ others \in OtherSets
    /\ parent \in {"none", "waiting", "ready", "failed", "timedout"}
    /\ pipe \in {"open", "ready"}
    /\ asks \in 0..MaxAsks /\ sent \in 0..MaxSignals /\ moves \in 0..MaxCheckouts
Records ==
    /\ live \in [gen : 0..(MaxAsks + 1), route : Routes \cup {None},
                 here : {TRUE}, session : {FALSE}]
    /\ ask \in [op : {"none", "stop", "restart"}, arg : Routes \cup {None},
                gen : 0..(MaxAsks + 1), step : {"none", "chosen", "handling"}]

(* Every generation but the first takes a restart request of its own: one  *)
(* that was carried out, is to be, or may still be.                        *)
Restarting == restart \/ result = "restart"
Restarts ==
    LET due == (IF Restarting THEN 1 ELSE 0) + (IF ask.step = "chosen" THEN 1 ELSE 0)
    IN gen + due <= asks + 1

Bounded == Flags /\ Ranges /\ Records /\ Restarts

LEMMA InitBounded == Init => Bounded
  <1> SUFFICES ASSUME Init PROVE Flags /\ Ranges /\ Records /\ Restarts
    BY DEF Bounded
  <1>1. Flags
    BY DEF Init, Flags
  <1>2. Ranges
    BY WrapperAssumption DEF Init, Ranges
  <1>3. Records
    BY WrapperAssumption DEF Init, Records
  <1>4. Restarts
    BY DEF Init, Restarts, Restarting
  <1> QED
    BY <1>1, <1>2, <1>3, <1>4

USE WrapperAssumption DEF Line, GroupEnds, Signalled, Catching
USE DEF Flags, Ranges, Records, Restarts, Restarting

\* The steps of the wrapper.
LEMMA WrapperFlags == ASSUME Flags, WrapperStep PROVE Flags'
  <1>1. CASE Prepare
    BY <1>1 DEF Prepare
  <1>2. CASE CatchSignals
    BY <1>2 DEF CatchSignals
  <1>3. CASE StartCommand
    BY <1>3 DEF StartCommand
  <1>4. CASE ListenerFound
    BY <1>4 DEF ListenerFound
  <1>5. CASE NotFound
    BY <1>5 DEF NotFound
  <1>6. CASE Register
    BY <1>6 DEF Register
  <1>7. CASE OpenControl
    BY <1>7 DEF OpenControl
  <1>8. CASE WriteLive
    BY <1>8 DEF WriteLive
  <1>9. CASE GiveUp
    BY <1>9 DEF GiveUp
  <1>10. CASE Announce
    BY <1>10 DEF Announce
  <1>11. CASE Serve
    BY <1>11 DEF Serve
  <1>12. CASE Kill
    BY <1>12 DEF Kill
  <1>13. CASE AfterTerminate
    BY <1>13 DEF AfterTerminate
  <1>14. CASE Release
    BY <1>14 DEF Release
  <1>15. CASE CloseControl
    BY <1>15 DEF CloseControl
  <1>16. CASE RemoveLive
    BY <1>16 DEF RemoveLive
  <1>17. CASE UncatchSignals
    BY <1>17 DEF UncatchSignals
  <1>18. CASE Finish
    BY <1>18 DEF Finish
  <1> QED
    BY <1>1, <1>2, <1>3, <1>4, <1>5, <1>6, <1>7, <1>8, <1>9, <1>10,
       <1>11, <1>12, <1>13, <1>14, <1>15, <1>16, <1>17, <1>18
       DEF WrapperStep

LEMMA WrapperRanges ==
    ASSUME Ranges, Records, Flags, Restarts, WrapperStep PROVE Ranges'
  BY SMTT(30)
     DEF WrapperStep, Prepare, CatchSignals, StartCommand, ListenerFound, NotFound,
         Register, OpenControl, WriteLive, GiveUp, Announce, Serve, Kill,
         AfterTerminate, Release, CloseControl, RemoveLive, UncatchSignals, Finish

LEMMA WrapperRecords == ASSUME Ranges, Records, WrapperStep PROVE Records'
  <1>1. CASE WriteLive
    <2>1. ask' = ask
      BY <1>1 DEF WriteLive
    <2>2. CASE live' = [gen |-> gen, route |-> route, here |-> TRUE, session |-> FALSE]
      BY <2>1, <2>2
    <2>3. CASE live' = live
      BY <2>1, <2>3
    <2> QED
      BY <1>1, <2>2, <2>3 DEF WriteLive
  <1>2. CASE RemoveLive
    BY <1>2 DEF RemoveLive
  <1>3. WrapperStep => WriteLive \/ RemoveLive \/ UNCHANGED <<ask, live>>
    BY DEF WrapperStep, Prepare, CatchSignals, StartCommand, ListenerFound, NotFound, Register,
        OpenControl, GiveUp, Announce, Serve, Kill, AfterTerminate, Release,
        CloseControl, UncatchSignals, Finish
  <1> QED
    BY <1>1, <1>2, <1>3

LEMMA WrapperRestarts ==
    ASSUME Ranges, Records, Flags, Restarts, WrapperStep PROVE Restarts'
  BY SMTT(30)
     DEF WrapperStep, Prepare, CatchSignals, StartCommand, ListenerFound, NotFound,
         Register, OpenControl, WriteLive, GiveUp, Announce, Serve, Kill,
         AfterTerminate, Release, CloseControl, RemoveLive, UncatchSignals, Finish

\* A request that is carried out was counted when it was made.
LEMMA HandleRestarts == ASSUME Ranges, Records, Flags, Restarts, Handle PROVE Restarts'
  <1>1. gen' = gen /\ result' = result /\ asks' = asks /\ ask.step = "chosen"
    BY DEF Handle
  <1>2. ask'.step # "chosen"
    <2>1. CASE ask' = NoAsk
      BY <2>1
    <2>2. CASE ask' = [ask EXCEPT !.step = "handling", !.gen = gen]
      BY <2>2
    <2> QED
      BY <2>1, <2>2 DEF Handle
  <1>3. gen + 1 <= asks + 1
    BY DEF Handle
  <1>4. (IF Restarting THEN 1 ELSE 0) \in {0, 1} /\ (IF Restarting' THEN 1 ELSE 0) \in {0, 1}
    OBVIOUS
  <1> HIDE DEF Restarting, Ranges, Records
  <1>5. gen \in Nat /\ asks \in Nat
    BY DEF Ranges
  <1> QED
    BY <1>1, <1>2, <1>3, <1>4, <1>5

\* Everybody else's steps.
LEMMA OtherFlags ==
    ASSUME Ranges, Records, Flags, Restarts, Next, ~WrapperStep PROVE Flags'
  <1>1. CASE Listen
    BY <1>1 DEF Listen
  <1>2. CASE Exit
    BY <1>2 DEF Exit
  <1>3. CASE MembersExit
    BY <1>3 DEF MembersExit
  <1>4. CASE OtherListens
    BY <1>4 DEF OtherListens
  <1>5. CASE Signal
    BY <1>5 DEF Signal
  <1>6. CASE Checkout
    BY <1>6 DEF Checkout
  <1>7. CASE Handle
    BY <1>7 DEF Handle
  <1>8. CASE Acknowledge
    BY <1>8 DEF Acknowledge
  <1>9. CASE ParentReady
    BY <1>9 DEF ParentReady
  <1>10. CASE ParentFails
    BY <1>10 DEF ParentFails
  <1>11. CASE ParentTimesOut
    BY <1>11 DEF ParentTimesOut
  <1>12. ASSUME NEW op \in {"stop", "restart"}, NEW arg \in Routes \cup {None}, Choose(op, arg)
         PROVE  Flags'
    BY <1>12 DEF Choose
  <1> QED
    BY <1>1, <1>2, <1>3, <1>4, <1>5, <1>6, <1>7, <1>8, <1>9, <1>10, <1>11, <1>12
       DEF Next, ControlStep, ParentStep

LEMMA OtherRestarts ==
    ASSUME Ranges, Records, Flags, Restarts, Next, ~WrapperStep PROVE Restarts'
  <1>1. CASE Listen
    BY <1>1 DEF Listen
  <1>2. CASE Exit
    BY <1>2 DEF Exit
  <1>3. CASE MembersExit
    BY <1>3 DEF MembersExit
  <1>4. CASE OtherListens
    BY <1>4 DEF OtherListens
  <1>5. CASE Signal
    BY <1>5 DEF Signal
  <1>6. CASE Checkout
    BY <1>6 DEF Checkout
  <1>7. CASE Handle
    BY <1>7, HandleRestarts
  <1>8. CASE Acknowledge
    BY <1>8 DEF Acknowledge
  <1>9. CASE ParentReady
    BY <1>9 DEF ParentReady
  <1>10. CASE ParentFails
    BY <1>10 DEF ParentFails
  <1>11. CASE ParentTimesOut
    BY <1>11 DEF ParentTimesOut
  <1>12. ASSUME NEW op \in {"stop", "restart"}, NEW arg \in Routes \cup {None}, Choose(op, arg)
         PROVE  Restarts'
    BY <1>12 DEF Choose
  <1> QED
    BY <1>1, <1>2, <1>3, <1>4, <1>5, <1>6, <1>7, <1>8, <1>9, <1>10, <1>11, <1>12
       DEF Next, ControlStep, ParentStep

LEMMA OtherRanges == ASSUME Ranges, Records, Flags, Next, ~WrapperStep PROVE Ranges'
  BY SMTT(30)
     DEF Next, ControlStep, ParentStep, Listen, Exit, MembersExit, OtherListens, Signal,
         Checkout, Handle, Acknowledge, ParentReady, ParentFails, ParentTimesOut, Choose

LEMMA OtherRecords == ASSUME Ranges, Records, Flags, Next, ~WrapperStep PROVE Records'
  <1>1. /\ live' = live
        /\ \/ ask' \in {ask, NoAsk, [ask EXCEPT !.step = "handling", !.gen = gen]}
           \/ \E op \in {"stop", "restart"}, arg \in Routes \cup {None} :
                 ask' = [op |-> op, arg |-> arg, gen |-> live.gen, step |-> "chosen"]
    BY SMTT(30)
       DEF Next, ControlStep, ParentStep, Listen, Exit, MembersExit, OtherListens, Signal,
           Checkout, Handle, Acknowledge, ParentReady, ParentFails, ParentTimesOut, Choose
  <1> DEFINE Requests == [op : {"none", "stop", "restart"}, arg : Routes \cup {None},
                          gen : 0..(MaxAsks + 1), step : {"none", "chosen", "handling"}]
  <1>2. NoAsk \in Requests /\ [ask EXCEPT !.step = "handling", !.gen = gen] \in Requests
    <2>1. 0 \in 0..(MaxAsks + 1) /\ gen \in 0..(MaxAsks + 1) /\ ask \in Requests
      OBVIOUS
    <2> HIDE DEF Ranges, Records, Flags
    <2>2. NoAsk \in Requests
      BY <2>1
    <2>3. [ask EXCEPT !.step = "handling", !.gen = gen] \in Requests
      BY <2>1
    <2> QED
      BY <2>2, <2>3
  <1>3. ASSUME NEW op \in {"stop", "restart"}, NEW arg \in Routes \cup {None}
        PROVE  [op |-> op, arg |-> arg, gen |-> live.gen, step |-> "chosen"] \in Requests
    OBVIOUS
  <1>4. ask' \in Requests
    <2> HIDE DEF Requests, NoAsk, Ranges, Flags
    <2>1. ask \in Requests
      BY DEF Requests
    <2> HIDE DEF Records
    <2> QED
      BY <1>1, <1>2, <1>3, <2>1
  <1> QED
    BY <1>1, <1>4

LEMMA NextBounded == Bounded /\ [Next]_vars => Bounded'
  <1> SUFFICES ASSUME Bounded, [Next]_vars PROVE Flags' /\ Ranges' /\ Records' /\ Restarts'
    BY DEF Bounded
  <1> HIDE DEF Flags, Ranges, Records, Restarts
  <1>1. CASE WrapperStep
    BY <1>1, WrapperFlags, WrapperRanges, WrapperRecords, WrapperRestarts DEF Bounded
  <1>2. CASE Next /\ ~WrapperStep
    BY <1>2, OtherFlags, OtherRanges, OtherRecords, OtherRestarts DEF Bounded
  <1>3. CASE UNCHANGED vars
    <2>1. Flags'
      BY <1>3 DEF vars, Bounded, Flags
    <2>2. Ranges'
      BY <1>3 DEF vars, Bounded, Ranges
    <2>3. Records'
      BY <1>3 DEF vars, Bounded, Records
    <2>4. Restarts'
      BY <1>3 DEF vars, Bounded, Restarts
    <2> QED
      BY <2>1, <2>2, <2>3, <2>4
  <1> QED
    BY <1>1, <1>2, <1>3

\* Every variable holds a value of its kind; there is no generation without a request
\* that has asked for it (runDevWithIO runs again only when the flag was set).
THEOREM TypeCorrect == Spec => []TypeOK
  <1>1. Bounded => TypeOK
    BY DEF Bounded, TypeOK
  <1> QED
    BY <1>1, InitBounded, NextBounded, PTL DEF Spec

-----------------------------------------------------------------------------
(* The dashboard: types                                                    *)

InspectionRequests == [show : Shown, fresh : BOOLEAN]
LogRequests == [of : Logs, fresh : BOOLEAN]

(* On an instance's pages the instance is a listed one.                    *)
TabIsListed == OnInstance(page) => instance \in snapshot

(* What is asked for with a fresh generation is asked for with the flag in *)
(* force.                                                                  *)
FreshIsInForce == \A r \in asked : r.fresh => r.show.sensitive = sensitive

TuiInv == TuiTypeOK /\ TabIsListed /\ FreshIsInForce /\ ShownIsSelected

LEMMA StaleInspections ==
    ASSUME NEW R \in SUBSET InspectionRequests
    PROVE  /\ Stale(R) \subseteq InspectionRequests
           /\ \A r \in Stale(R) : ~r.fresh
  <1>1. ASSUME NEW r \in R
        PROVE  /\ [r EXCEPT !.fresh = FALSE] \in InspectionRequests
               /\ ~[r EXCEPT !.fresh = FALSE].fresh
    BY DEF InspectionRequests
  <1> QED
    BY <1>1 DEF Stale

LEMMA StaleLogs ==
    ASSUME NEW R \in SUBSET LogRequests
    PROVE  Stale(R) \subseteq LogRequests
  <1>1. ASSUME NEW r \in R
        PROVE  [r EXCEPT !.fresh = FALSE] \in LogRequests
    BY DEF LogRequests
  <1> QED
    BY <1>1 DEF Stale

(* Rows of a page are finite in number, and a place among them is a number. *)
LEMMA RowsAreCounted ==
    ASSUME NEW rows, IsFiniteSet(rows)
    PROVE  LastRow(rows) \in Nat /\ \A row : PlaceOf(row, rows) \in Nat
  <1>1. ASSUME NEW row
        PROVE  PlaceOf(row, rows) \in Nat
    <2>1. IsFiniteSet({r \in rows : r <= row})
      BY FS_Subset
    <2> QED
      BY <2>1, FS_CardinalityType DEF PlaceOf
  <1> QED
    BY <1>1, FS_CardinalityType DEF LastRow

LEMMA RowsAreFinite ==
    ASSUME NEW p, NEW listed \in SUBSET Ids
    PROVE  IsFiniteSet(RowsOf(p, listed))
  <1>1. IsFiniteSet(listed) /\ IsFiniteSet(Services) /\ IsFiniteSet({})
    BY DashboardAssumption, FS_Subset, FS_EmptySet
  <1> QED
    BY <1>1 DEF RowsOf

(* Where the selection follows its row, or stays in range.                 *)
LEMMA FollowIsAPlace ==
    ASSUME NEW row, NEW rows, IsFiniteSet(rows), cursor \in Nat
    PROVE  Follow(row, rows) \in Nat
  BY RowsAreCounted DEF Follow, Clamp

(* A row that is selected is a row of its page.                            *)
LEMMA RowIsARow ==
    ASSUME NEW i, NEW rows
    PROVE  RowAt(i, rows) \in rows \cup {Nobody}
  BY DEF RowAt

LEMMA SelectedIsListed ==
    ASSUME Selected # Nobody
    PROVE  /\ page = "instances" => Selected \in snapshot
           /\ page = "services" => Selected \in Services
  BY RowIsARow DEF Selected, Rows, RowsOf

(* An inspection of a listed instance asks for it with the flag it is      *)
(* given; the requests before it are stale.                                *)
LEMMA InspectAsks ==
    ASSUME asked \in SUBSET InspectionRequests,
           NEW listed \in SUBSET Ids, NEW id \in listed, NEW s \in BOOLEAN,
           Inspect(id, s, listed)
    PROVE  /\ asked' \subseteq InspectionRequests
           /\ loading' = TRUE
           /\ \A r \in asked' : r.fresh => r.show.sensitive = s
  <1> DEFINE new == [show |-> [id |-> id, sensitive |-> s], fresh |-> TRUE]
  <1>1. asked' = Stale(asked) \cup {new} /\ loading' = TRUE
    BY DEF Inspect
  <1>2. new \in InspectionRequests /\ new.show.sensitive = s
    BY DEF Shown, InspectionRequests
  <1> HIDE DEF new
  <1> QED
    BY <1>1, <1>2, StaleInspections

LogsTyped ==
    /\ logLines \in Logs \cup {NoLogs} /\ logFetching \in BOOLEAN
    /\ logsAsked \subseteq LogRequests

(* Logs are asked for of a listed instance.                                *)
LEMMA LogsAreTyped ==
    ASSUME snapshot \in SUBSET Ids,
           NEW p, NEW id, NEW s \in Services \cup {Nobody},
           NEW lines \in Logs \cup {NoLogs}, NEW under \in BOOLEAN,
           NEW requests \in SUBSET LogRequests,
           FetchLogs(p, id, s, lines, under, requests)
    PROVE  LogsTyped' /\ logLines' = lines
  <1>1. CASE p = "logs" /\ id \in snapshot /\ ~under
    <2> DEFINE new == [of |-> <<id, s>>, fresh |-> TRUE]
    <2>1. logsAsked' = Stale(requests) \cup {new} /\ logFetching' = TRUE /\ logLines' = lines
      BY <1>1 DEF FetchLogs
    <2>2. new \in LogRequests
      BY <1>1 DEF LogRequests, Logs
    <2> HIDE DEF new
    <2> QED
      BY <2>1, <2>2, StaleLogs DEF LogsTyped
  <1>2. CASE ~(p = "logs" /\ id \in snapshot /\ ~under)
    BY <1>2 DEF FetchLogs, LogsTyped
  <1> QED
    BY <1>1, <1>2

LEMMA NavigateResets ==
    ASSUME TuiTypeOK, NEW p, Navigate(p)
    PROVE  LogsTyped' /\ logLines' = NoLogs /\ page' = p /\ cursor' = 1
  <1>1. Stale(logsAsked) \in SUBSET LogRequests
    BY StaleLogs DEF TuiTypeOK, LogRequests
  <1> QED
    BY <1>1, LogsAreTyped DEF Navigate, UnderWay, TuiTypeOK

LEMMA OpenResets ==
    ASSUME TuiTypeOK, NEW p, NEW s \in Services \cup {Nobody}, Open(p, s)
    PROVE  LogsTyped' /\ logLines' = NoLogs /\ page' = p /\ cursor' = 1 /\ service' = s
  <1>1. Stale(logsAsked) \in SUBSET LogRequests
    BY StaleLogs DEF TuiTypeOK, LogRequests
  <1> QED
    BY <1>1, LogsAreTyped DEF Open, UnderWay, TuiTypeOK

-----------------------------------------------------------------------------
(* The dashboard: steps                                                    *)

LEMMA TuiBegins == TuiInit => TuiInv
  <1> SUFFICES ASSUME TuiInit PROVE TuiInv
    OBVIOUS
  <1>1. /\ alive \subseteq Ids /\ changes \in 0..MaxChanges
        /\ page \in Pages /\ cursor \in Nat
    BY DashboardAssumption DEF TuiInit, Pages, Lists
  <1>2. {sensitive, fetching, loading, logFetching, paused} \subseteq BOOLEAN
    BY DEF TuiInit
  <1>3. TuiTypeOK
    BY <1>1, <1>2 DEF TuiInit, TuiTypeOK
  <1> QED
    BY <1>3 DEF TuiInit, TuiInv, TabIsListed, FreshIsInForce, ShownIsSelected,
                OnInstance, Tabs

(* Tick, p and F5 fetch what the page shows, and leave the page alone.     *)
LEMMA FetchPreserves ==
    ASSUME TuiInv, Refresh, paused' \in BOOLEAN,
           FetchLogs(page, instance, service, logLines, logFetching, logsAsked),
           UNCHANGED <<world, view, sensitive, inspects, detail>>
    PROVE  TuiInv'
  <1> USE DEF TuiInv
  <1>1. LogsTyped' /\ logLines' = logLines
    BY LogsAreTyped DEF TuiTypeOK, LogRequests
  <1>2. TuiTypeOK'
    BY <1>1 DEF TuiTypeOK, LogsTyped, LogRequests, Refresh, world, view, inspects
  <1>3. TabIsListed' /\ FreshIsInForce' /\ ShownIsSelected'
    BY <1>1 DEF TabIsListed, FreshIsInForce, ShownIsSelected, Refresh, view, inspects
  <1> QED
    BY <1>2, <1>3

LEMMA TickPreserves == TuiInv /\ Tick => TuiInv'
  <1> SUFFICES ASSUME TuiInv, Tick PROVE TuiInv'
    OBVIOUS
  <1>1. paused' \in BOOLEAN
    BY DEF TuiInv, TuiTypeOK, Tick
  <1> QED
    BY <1>1, FetchPreserves DEF Tick

LEMMA RefreshNowPreserves == TuiInv /\ RefreshNow => TuiInv'
  <1> SUFFICES ASSUME TuiInv, RefreshNow PROVE TuiInv'
    OBVIOUS
  <1>1. paused' \in BOOLEAN
    BY DEF TuiInv, TuiTypeOK, RefreshNow
  <1> QED
    BY <1>1, FetchPreserves DEF RefreshNow

LEMMA PausePreserves == TuiInv /\ Pause => TuiInv'
  <1> SUFFICES ASSUME TuiInv, Pause PROVE TuiInv'
    OBVIOUS
  <1>1. paused' \in BOOLEAN
    BY DEF Pause
  <1>2. CASE paused
    BY <1>1, <1>2, FetchPreserves DEF Pause
  <1>3. CASE ~paused
    <2>1. TuiTypeOK'
      BY <1>1, <1>3 DEF TuiInv, TuiTypeOK, Pause, world, view, snaps, inspects, logs
    <2>2. TabIsListed' /\ FreshIsInForce' /\ ShownIsSelected'
      BY <1>3 DEF TuiInv, TabIsListed, FreshIsInForce, ShownIsSelected, Pause,
                  view, snaps, inspects, logs
    <2> QED
      BY <2>1, <2>2 DEF TuiInv
  <1> QED
    BY <1>2, <1>3

LEMMA TakeSnapshotPreserves == TuiInv /\ TakeSnapshot => TuiInv'
  <1> SUFFICES ASSUME TuiInv, TakeSnapshot PROVE TuiInv'
    OBVIOUS
  <1>1. TuiTypeOK'
    BY DEF TuiInv, TuiTypeOK, TakeSnapshot, world, view, inspects, logs
  <1>2. TabIsListed' /\ FreshIsInForce' /\ ShownIsSelected'
    BY DEF TuiInv, TabIsListed, FreshIsInForce, ShownIsSelected, TakeSnapshot,
           view, inspects, logs
  <1> QED
    BY <1>1, <1>2 DEF TuiInv

(* A snapshot that arrives while a list is shown moves the selection.      *)
LEMMA ShowListPreserves ==
    ASSUME TuiInv, ShowList, coming' = {}, fetching' = FALSE,
           UNCHANGED <<world, sensitive, detail, paused>>
    PROVE  TuiInv'
  <1>1. PICK listed \in coming :
            snapshot' = listed /\ cursor' = Follow(Selected, RowsOf(page, listed))
    BY DEF ShowList
  <1>2. listed \in SUBSET Ids
    BY DEF TuiInv, TuiTypeOK
  <1>3. cursor' \in Nat
    BY <1>1, <1>2, RowsAreFinite, FollowIsAPlace DEF TuiInv, TuiTypeOK
  <1>4. TuiTypeOK'
    BY <1>1, <1>2, <1>3 DEF TuiInv, TuiTypeOK, ShowList, world, logs
  <1>5. TabIsListed' /\ FreshIsInForce' /\ ShownIsSelected'
    BY DEF TuiInv, TabIsListed, FreshIsInForce, ShownIsSelected, ShowList, logs
  <1> QED
    BY <1>4, <1>5 DEF TuiInv

(* One that lists the instance shown leaves it there, and asks again with  *)
(* the flag in force.                                                      *)
LEMMA ShowInstancePreserves ==
    ASSUME TuiInv, ShowInstance, coming' = {}, fetching' = FALSE,
           UNCHANGED <<world, sensitive, detail, paused>>
    PROVE  TuiInv'
  <1>1. PICK listed \in coming :
            /\ snapshot' = listed /\ ~Gone(listed)
            /\ IF loading THEN UNCHANGED <<loading, asked>>
               ELSE Inspect(instance, sensitive, listed)
    BY DEF ShowInstance
  <1>2. listed \in SUBSET Ids /\ instance \in listed
    BY <1>1 DEF TuiInv, TuiTypeOK, Gone
  <1>3. /\ asked' \subseteq InspectionRequests /\ loading' \in BOOLEAN
        /\ FreshIsInForce'
    <2>1. CASE loading
      BY <1>1, <2>1 DEF TuiInv, TuiTypeOK, FreshIsInForce, InspectionRequests
    <2>2. CASE ~loading
      <3>1. asked \in SUBSET InspectionRequests /\ sensitive \in BOOLEAN
        BY DEF TuiInv, TuiTypeOK, InspectionRequests
      <3> QED
        BY <1>1, <1>2, <2>2, <3>1, InspectAsks DEF FreshIsInForce
    <2> QED
      BY <2>1, <2>2
  <1>4. TuiTypeOK'
    BY <1>1, <1>2, <1>3
    DEF TuiInv, TuiTypeOK, ShowInstance, InspectionRequests, world, view, logs
  <1>5. TabIsListed' /\ ShownIsSelected'
    BY <1>1, <1>2 DEF TuiInv, TabIsListed, ShownIsSelected, ShowInstance, view, logs
  <1> QED
    BY <1>3, <1>4, <1>5 DEF TuiInv

(* One that does not: back to the list, with nothing shown of it.          *)
LEMMA LeaveInstancePreserves ==
    ASSUME TuiInv, LeaveInstance, coming' = {}, fetching' = FALSE,
           UNCHANGED <<world, sensitive, detail, paused>>
    PROVE  TuiInv'
  <1>1. PICK listed \in coming : snapshot' = listed
    BY DEF LeaveInstance
  <1>2. LogsTyped' /\ logLines' = NoLogs /\ page' = "instances" /\ cursor' = 1
    BY NavigateResets DEF TuiInv, LeaveInstance
  <1>3. asked' \subseteq InspectionRequests /\ FreshIsInForce'
    <2>1. asked \in SUBSET InspectionRequests /\ asked' = Stale(asked)
      BY DEF TuiInv, TuiTypeOK, LeaveInstance, InspectionRequests
    <2> QED
      BY <2>1, StaleInspections DEF FreshIsInForce
  <1>4. TuiTypeOK'
    BY <1>1, <1>2, <1>3 DEF TuiInv, TuiTypeOK, LeaveInstance, LogsTyped, LogRequests,
                            InspectionRequests, Pages, Lists, world
  <1>5. TabIsListed' /\ ShownIsSelected'
    BY <1>2 DEF TuiInv, TabIsListed, ShownIsSelected, LeaveInstance, OnInstance, Tabs
  <1> QED
    BY <1>3, <1>4, <1>5 DEF TuiInv

LEMMA SnapshotMsgPreserves == TuiInv /\ SnapshotMsg => TuiInv'
  BY ShowListPreserves, ShowInstancePreserves, LeaveInstancePreserves DEF SnapshotMsg

(* An inspection is shown if it is the newest one asked for: with the flag *)
(* in force.                                                               *)
LEMMA InspectionMsgPreserves ==
    ASSUME TuiInv, NEW r \in asked, InspectionMsg(r)
    PROVE  TuiInv'
  <1>1. r.show \in Shown
    BY DEF TuiInv, TuiTypeOK
  <1>2. asked' \subseteq asked
    BY DEF InspectionMsg
  <1>3. /\ inspection' \in Shown \cup {Nothing} /\ loading' \in BOOLEAN
        /\ inspection' # Nothing =>
              inspection' = [id |-> instance, sensitive |-> sensitive]
    <2>1. CASE Accepts(r)
      <3>1. loading' = FALSE /\ inspection' \in {Nothing, r.show}
        BY <2>1 DEF InspectionMsg, Inspected
      <3>2. r.show = [id |-> instance, sensitive |-> sensitive]
        BY <1>1, <2>1 DEF Accepts, Shown, TuiInv, FreshIsInForce
      <3> QED
        BY <1>1, <3>1, <3>2
    <2>2. CASE ~Accepts(r)
      BY <2>2 DEF InspectionMsg, TuiInv, TuiTypeOK, ShownIsSelected
    <2> QED
      BY <2>1, <2>2
  <1>4. TuiTypeOK'
    BY <1>2, <1>3 DEF TuiInv, TuiTypeOK, InspectionMsg, world, view, snaps, logs
  <1>5. TabIsListed' /\ FreshIsInForce' /\ ShownIsSelected'
    BY <1>2, <1>3 DEF TuiInv, TabIsListed, FreshIsInForce, ShownIsSelected, InspectionMsg,
                      view, snaps, logs
  <1> QED
    BY <1>4, <1>5 DEF TuiInv

(* Logs are shown if they are of the service selected.                     *)
LEMMA LogsMsgPreserves ==
    ASSUME TuiInv, NEW r \in logsAsked, LogsMsg(r)
    PROVE  TuiInv'
  <1>1. r.of \in Logs /\ logsAsked' \subseteq logsAsked
    BY DEF TuiInv, TuiTypeOK, LogsMsg
  <1>2. /\ logLines' \in Logs \cup {NoLogs} /\ logFetching' \in BOOLEAN
        /\ page = "logs" /\ logLines' # NoLogs => logLines' = <<instance, service>>
    BY <1>1 DEF TuiInv, TuiTypeOK, ShownIsSelected, LogsMsg
  <1>3. TuiTypeOK'
    BY <1>1, <1>2 DEF TuiInv, TuiTypeOK, LogsMsg, world, view, snaps, inspects
  <1>4. TabIsListed' /\ FreshIsInForce' /\ ShownIsSelected'
    BY <1>2 DEF TuiInv, TabIsListed, FreshIsInForce, ShownIsSelected, LogsMsg,
                view, snaps, inspects
  <1> QED
    BY <1>3, <1>4 DEF TuiInv

(* Keys: an overlay takes them first, so none of these finds one open.     *)

LEMMA PointAtPreserves ==
    ASSUME TuiInv, NEW i, PointAt(i)
    PROVE  TuiInv'
  <1>1. LastRow(Rows) \in Nat
    BY RowsAreFinite, RowsAreCounted DEF TuiInv, TuiTypeOK, Rows
  <1>2. cursor' \in Nat
    BY <1>1 DEF PointAt
  <1>3. TuiTypeOK'
    BY <1>2 DEF TuiInv, TuiTypeOK, PointAt, world, snaps, inspects, logs
  <1>4. TabIsListed' /\ FreshIsInForce' /\ ShownIsSelected'
    BY DEF TuiInv, TabIsListed, FreshIsInForce, ShownIsSelected, PointAt,
           snaps, inspects, logs
  <1> QED
    BY <1>3, <1>4 DEF TuiInv

(* A page opened with nothing of its logs, and the same inspection.        *)
LEMMA TurnPreserves ==
    ASSUME TuiInv, LogsTyped', logLines' = NoLogs, page' \in Pages, cursor' = 1,
           service' \in Services \cup {Nobody},
           OnInstance(page') => instance \in snapshot,
           UNCHANGED <<world, instance, sensitive, snaps, inspects, detail, paused>>
    PROVE  TuiInv'
  <1>1. TuiTypeOK'
    BY DEF TuiInv, TuiTypeOK, LogsTyped, LogRequests, world, snaps, inspects
  <1>2. TabIsListed' /\ FreshIsInForce' /\ ShownIsSelected'
    BY DEF TuiInv, TabIsListed, FreshIsInForce, ShownIsSelected, snaps, inspects
  <1> QED
    BY <1>1, <1>2 DEF TuiInv

LEMMA ShowPagePreserves == TuiInv /\ ShowPage => TuiInv'
  <1> SUFFICES ASSUME TuiInv, ShowPage PROVE TuiInv'
    OBVIOUS
  <1>1. PICK p \in Lists : Navigate(p)
    BY DEF ShowPage
  <1>2. LogsTyped' /\ logLines' = NoLogs /\ page' = p /\ cursor' = 1
    BY <1>1, NavigateResets DEF TuiInv
  <1>3. page' \in Pages /\ ~OnInstance(page')
    BY <1>2 DEF Pages, Lists, Tabs, OnInstance
  <1>4. service' \in Services \cup {Nobody}
    BY DEF TuiInv, TuiTypeOK, ShowPage
  <1> QED
    BY <1>2, <1>3, <1>4, TurnPreserves DEF ShowPage

LEMMA OpenPagePreserves ==
    ASSUME TuiInv, NEW p \in Pages, OnInstance(p) => OnInstance(page), OpenPage(p)
    PROVE  TuiInv'
  <1> DEFINE s == IF page = "services" THEN Selected ELSE service
  <1>1. s \in Services \cup {Nobody}
    BY SelectedIsListed DEF TuiInv, TuiTypeOK
  <1>2. Open(p, s)
    BY DEF OpenPage
  <1> HIDE DEF s
  <1>3. LogsTyped' /\ logLines' = NoLogs /\ page' = p /\ cursor' = 1 /\ service' = s
    BY <1>1, <1>2, OpenResets DEF TuiInv
  <1>4. OnInstance(page') => instance \in snapshot
    BY <1>3 DEF TuiInv, TabIsListed
  <1> QED
    BY <1>1, <1>3, <1>4, TurnPreserves DEF OpenPage

LEMMA OpenTabPreserves == TuiInv /\ OpenTab => TuiInv'
  BY OpenPagePreserves DEF OpenTab, OnInstance, Pages

LEMMA ClickTabPreserves == TuiInv /\ ClickTab => TuiInv'
  <1> SUFFICES ASSUME TuiInv, ClickTab PROVE TuiInv'
    OBVIOUS
  <1>1. PICK p \in (IF OnInstance(page) THEN Tabs ELSE Lists) \ {page} : OpenPage(p)
    BY DEF ClickTab
  <1>2. p \in Pages /\ (OnInstance(p) => OnInstance(page))
    BY <1>1 DEF Pages, Lists, Tabs, OnInstance
  <1> QED
    BY <1>1, <1>2, OpenPagePreserves

LEMMA BackPreserves == TuiInv /\ Back => TuiInv'
  <1> SUFFICES ASSUME TuiInv, Back PROVE TuiInv'
    OBVIOUS
  <1> DEFINE p == IF page \in {"env", "urls", "logs"} THEN "services" ELSE "instances"
  <1>1. LogsTyped' /\ logLines' = NoLogs /\ page' = p /\ cursor' = 1
    BY NavigateResets DEF TuiInv, Back
  <1>2. page' \in Pages /\ (OnInstance(page') => instance \in snapshot)
    BY <1>1 DEF Pages, Lists, Tabs, OnInstance, TuiInv, TabIsListed
  <1>3. service' \in Services \cup {Nobody}
    BY DEF TuiInv, TuiTypeOK, Back
  <1> QED
    BY <1>1, <1>2, <1>3, TurnPreserves DEF Back

LEMMA OtherServicePreserves == TuiInv /\ OtherService => TuiInv'
  <1> SUFFICES ASSUME TuiInv, OtherService PROVE TuiInv'
    OBVIOUS
  <1>1. PICK s \in Services \ {service} :
            IF page = "logs" THEN Open("logs", s)
            ELSE service' = s /\ cursor' = 1 /\ page' = page /\ UNCHANGED logs
    BY DEF OtherService
  <1>2. instance \in snapshot
    BY DEF TuiInv, TabIsListed, OtherService, OnInstance, Tabs
  <1>3. CASE page = "logs"
    <2>1. /\ LogsTyped' /\ logLines' = NoLogs /\ page' = "logs" /\ cursor' = 1
          /\ service' = s
      BY <1>1, <1>3, OpenResets DEF TuiInv
    <2>2. page' \in Pages
      BY <2>1 DEF Pages, Tabs
    <2> QED
      BY <1>1, <1>2, <2>1, <2>2, TurnPreserves DEF OtherService
  <1>4. CASE page # "logs"
    <2>1. TuiTypeOK'
      BY <1>1, <1>4 DEF TuiInv, TuiTypeOK, OtherService, world, snaps, inspects, logs
    <2>2. TabIsListed' /\ FreshIsInForce' /\ ShownIsSelected'
      BY <1>1, <1>2, <1>4 DEF TuiInv, TabIsListed, FreshIsInForce, ShownIsSelected,
                              OtherService, snaps, inspects, logs
    <2> QED
      BY <2>1, <2>2 DEF TuiInv
  <1> QED
    BY <1>3, <1>4

(* An instance is opened from the list, which it is on, and asked about.   *)
LEMMA OpenInstancePreserves == TuiInv /\ OpenInstance => TuiInv'
  <1> SUFFICES ASSUME TuiInv, OpenInstance PROVE TuiInv'
    OBVIOUS
  <1>1. Selected \in snapshot /\ instance' = Selected
    BY SelectedIsListed DEF OpenInstance
  <1>2. LogsTyped' /\ logLines' = NoLogs /\ page' = "services" /\ cursor' = 1
    BY NavigateResets DEF TuiInv, OpenInstance
  <1>3. /\ asked' \subseteq InspectionRequests /\ loading' = TRUE
        /\ \A r \in asked' : r.fresh => r.show.sensitive = sensitive
    <2>1. /\ asked \in SUBSET InspectionRequests /\ sensitive \in BOOLEAN
          /\ snapshot \in SUBSET Ids
      BY DEF TuiInv, TuiTypeOK, InspectionRequests
    <2> QED
      BY <1>1, <2>1, InspectAsks DEF OpenInstance
  <1>4. service' \in Services \cup {Nobody}
    BY RowIsARow DEF OpenInstance
  <1>5. TuiTypeOK'
    BY <1>1, <1>2, <1>3, <1>4
    DEF TuiInv, TuiTypeOK, OpenInstance, LogsTyped, LogRequests, InspectionRequests,
        Pages, Tabs, world, snaps
  <1>6. TabIsListed' /\ FreshIsInForce' /\ ShownIsSelected'
    BY <1>1, <1>2, <1>3
    DEF TuiInv, TabIsListed, FreshIsInForce, ShownIsSelected, OpenInstance, snaps
  <1> QED
    BY <1>5, <1>6 DEF TuiInv

LEMMA OpenServicePreserves == TuiInv /\ OpenService => TuiInv'
  <1> SUFFICES ASSUME TuiInv, OpenService PROVE TuiInv'
    OBVIOUS
  <1>1. service' \in Services
    BY SelectedIsListed DEF OpenService
  <1>2. LogsTyped' /\ logLines' = NoLogs /\ page' = "urls" /\ cursor' = 1
    BY NavigateResets DEF TuiInv, OpenService
  <1>3. page' \in Pages /\ instance \in snapshot
    BY <1>2 DEF Pages, Tabs, OnInstance, TuiInv, TabIsListed, OpenService
  <1> QED
    BY <1>1, <1>2, <1>3, TurnPreserves DEF OpenService

(* The flag and the request that is fresh change together.                 *)
LEMMA TogglePreserves == TuiInv /\ Toggle => TuiInv'
  <1> SUFFICES ASSUME TuiInv, Toggle PROVE TuiInv'
    OBVIOUS
  <1>1. instance \in snapshot /\ snapshot \in SUBSET Ids
    BY DEF TuiInv, TuiTypeOK, TabIsListed, OnInstance, Tabs, Toggle
  <1>2. sensitive' \in BOOLEAN
    BY DEF Toggle
  <1>3. /\ asked' \subseteq InspectionRequests /\ loading' = TRUE
        /\ FreshIsInForce'
    <2>1. asked \in SUBSET InspectionRequests
      BY DEF TuiInv, TuiTypeOK, InspectionRequests
    <2> QED
      BY <1>1, <1>2, <2>1, InspectAsks DEF Toggle, FreshIsInForce
  <1>4. TuiTypeOK'
    BY <1>2, <1>3 DEF TuiInv, TuiTypeOK, Toggle, Cleared, InspectionRequests,
                      world, view, snaps, logs
  <1>5. TabIsListed' /\ ShownIsSelected'
    BY DEF TuiInv, TabIsListed, ShownIsSelected, Toggle, Keys, Cleared, view, snaps, logs
  <1> QED
    BY <1>3, <1>4, <1>5 DEF TuiInv

LEMMA ShowDetailPreserves == TuiInv /\ ShowDetail => TuiInv'
  <1> SUFFICES ASSUME TuiInv, ShowDetail PROVE TuiInv'
    OBVIOUS
  <1>1. detail' \in Shown \cup {Nothing} /\ detail'.sensitive = sensitive
    BY DEF TuiInv, TuiTypeOK, ShownIsSelected, ShowDetail
  <1>2. TuiTypeOK'
    BY <1>1 DEF TuiInv, TuiTypeOK, ShowDetail, world, view, snaps, inspects, logs
  <1>3. TabIsListed' /\ FreshIsInForce' /\ ShownIsSelected'
    BY <1>1 DEF TuiInv, TabIsListed, FreshIsInForce, ShownIsSelected, ShowDetail,
                view, snaps, inspects, logs
  <1> QED
    BY <1>2, <1>3 DEF TuiInv

LEMMA CloseDetailPreserves == TuiInv /\ CloseDetail => TuiInv'
  <1> SUFFICES ASSUME TuiInv, CloseDetail PROVE TuiInv'
    OBVIOUS
  <1>1. TuiTypeOK'
    BY DEF TuiInv, TuiTypeOK, CloseDetail, world, view, snaps, inspects, logs
  <1>2. TabIsListed' /\ FreshIsInForce' /\ ShownIsSelected'
    BY DEF TuiInv, TabIsListed, FreshIsInForce, ShownIsSelected, CloseDetail,
           view, snaps, inspects, logs
  <1> QED
    BY <1>1, <1>2 DEF TuiInv

(* Instances that start and end are not seen before a snapshot says so.    *)
LEMMA ChangePreserves == TuiInv /\ Change => TuiInv'
  <1> SUFFICES ASSUME TuiInv, Change PROVE TuiInv'
    OBVIOUS
  <1>1. alive' \subseteq Ids /\ changes' \in 0..MaxChanges
    BY DashboardAssumption DEF TuiInv, TuiTypeOK, Change
  <1>2. TuiTypeOK'
    BY <1>1 DEF TuiInv, TuiTypeOK, Change, view, snaps, inspects, logs
  <1>3. TabIsListed' /\ FreshIsInForce' /\ ShownIsSelected'
    BY DEF TuiInv, TabIsListed, FreshIsInForce, ShownIsSelected, Change,
           view, snaps, inspects, logs
  <1> QED
    BY <1>2, <1>3 DEF TuiInv

LEMMA TuiStuttersPreserve == TuiInv /\ UNCHANGED tuiVars => TuiInv'
  <1> SUFFICES ASSUME TuiInv, UNCHANGED tuiVars PROVE TuiInv'
    OBVIOUS
  <1>1. TuiTypeOK'
    BY DEF TuiInv, TuiTypeOK, tuiVars
  <1>2. TabIsListed' /\ FreshIsInForce' /\ ShownIsSelected'
    BY DEF TuiInv, TabIsListed, FreshIsInForce, ShownIsSelected, tuiVars
  <1> QED
    BY <1>1, <1>2 DEF TuiInv

LEMMA AnswersPreserve == TuiInv /\ Answer => TuiInv'
  BY TakeSnapshotPreserves, SnapshotMsgPreserves, InspectionMsgPreserves, LogsMsgPreserves
  DEF Answer

LEMMA KeysPreserve == TuiInv /\ Key => TuiInv'
  <1> SUFFICES ASSUME TuiInv, Key PROVE TuiInv'
    OBVIOUS
  <1>1. CASE Move \/ Click
    BY <1>1, PointAtPreserves DEF Move, Click
  <1>2. CASE ShowPage \/ OpenTab \/ ClickTab \/ Back \/ OtherService
    BY <1>2, ShowPagePreserves, OpenTabPreserves, ClickTabPreserves, BackPreserves,
       OtherServicePreserves
  <1>3. CASE OpenInstance \/ OpenService \/ Toggle
    BY <1>3, OpenInstancePreserves, OpenServicePreserves, TogglePreserves
  <1>4. CASE ShowDetail \/ CloseDetail \/ Pause
    BY <1>4, ShowDetailPreserves, CloseDetailPreserves, PausePreserves
  <1> QED
    BY <1>1, <1>2, <1>3, <1>4 DEF Key

LEMMA TuiInvIsInductive == TuiInv /\ [TuiNext]_tuiVars => TuiInv'
  BY TickPreserves, AnswersPreserve, KeysPreserve, RefreshNowPreserves, ChangePreserves,
     TuiStuttersPreserve
  DEF TuiNext

THEOREM TuiInvHolds == TuiSpec => []TuiInv
  <1>1. TuiInit => TuiInv
    BY TuiBegins
  <1>2. TuiInv /\ [TuiNext]_tuiVars => TuiInv'
    BY TuiInvIsInductive
  <1> QED
    BY <1>1, <1>2, PTL DEF TuiSpec

(* What the dashboard shows is about the instance and the service selected *)
(* and was asked for with the flags in force, whatever answers are under   *)
(* way and in whatever order they come (inspectionMsg, logsMsg, "v").      *)
THEOREM ShownIsAlwaysSelected == TuiSpec => []ShownIsSelected
  <1>1. TuiInv => ShownIsSelected
    BY DEF TuiInv
  <1> QED
    BY <1>1, TuiInvHolds, PTL
=============================================================================
