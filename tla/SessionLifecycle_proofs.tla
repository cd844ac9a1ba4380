----------------------- MODULE SessionLifecycle_proofs ----------------------
(***************************************************************************)
(* Proofs about the sessions of one worktree, for any number of processes, *)
(* callers and sessions: what the files say, when the services of two      *)
(* sessions can run side by side, that a stop is final, and that a request *)
(* takes effect in no session but its own.                                 *)
(*                                                                         *)
(* There are three inductive invariants over one typing.  FilesInv relates *)
(* the files and the services to the position of the process that has the  *)
(* lock; TurnInv relates the flag of Run's loop to what was executed, and  *)
(* CancelledForCause the context of the session.                           *)
(*                                                                         *)
(* With them every step is shown to keep the promise of Worktree.          *)
(***************************************************************************)
EXTENDS SessionLifecycle, TLAPS

-----------------------------------------------------------------------------
(* Types                                                                   *)

Positions == {"off", "acquiring", "preparing", "controlled", "supervising", "closing",
              "closed", "summarised", "releasing", "released", "exited", "crashed"}

ProcsTyped ==
    /\ pc \in [Procs -> Positions] /\ run \in [Procs -> 0..MaxRuns]
    /\ cancelled \in [Procs -> BOOLEAN] /\ restart \in [Procs -> BOOLEAN]
    /\ failed \in [Procs -> BOOLEAN] /\ interrupt \in [Procs -> BOOLEAN]

LiveRecord == [run : Runs, owner : Procs, services : BOOLEAN]

FilesTyped ==
    /\ services \in [Runs -> {"none", "started", "recorded", "dead"}] /\ runs \in 0..MaxRuns
    /\ lock \in Procs \cup {None} /\ live \in LiveRecord \cup {None}
    /\ socket \in 0..MaxRuns /\ last \in 0..MaxRuns

CallerRecord == [pc : {"idle", "read", "connected", "done", "failed"},
                 token : 0..MaxRuns, at : 0..MaxRuns, by : Procs \cup {None}]

(* A token is read from a live file, and a connection leads to a process   *)
(* that has begun.                                                         *)
CallersTyped ==
    /\ caller \in [Callers -> CallerRecord]
    /\ \A c \in Callers :
          /\ caller[c].pc \in {"read", "connected"} => caller[c].token \in Runs
          /\ caller[c].pc = "connected" =>
                caller[c].at \in Runs /\ caller[c].by \in Procs /\ pc[caller[c].by] # "off"
    /\ executed \subseteq [run : Runs, op : Operations, token : Runs, by : Procs]
    /\ \A e \in executed : pc[e.by] # "off"

(* In session the number is one of Runs.                                   *)
InSession == {"controlled", "supervising", "closing", "closed", "summarised"}
RunTyped == \A p \in Procs : pc[p] \in InSession => run[p] \in Runs

Typed == ProcsTyped /\ FilesTyped /\ CallersTyped /\ RunTyped

-----------------------------------------------------------------------------
(* The files and the services                                              *)

Locked == InSession \cup {"preparing", "releasing"}

LockIsHeld == \A p \in Procs : pc[p] \in Locked <=> lock = p

(* The session of the lock's holder is the newest one.                     *)
SessionIsNewest ==
    /\ \A p \in Procs : pc[p] \in InSession => run[p] \in Runs /\ run[p] = runs
    /\ \A n \in Runs : n > runs => services[n] = "none"

(* A live file is the holder's, from its announcement to its removal, or   *)
(* was left by a process that is gone.                                     *)
LiveIsHolders ==
    /\ live # None => pc[live.owner] # "off"
    /\ live # None /\ Alive(live.owner) =>
          pc[live.owner] \in InSession \ {"controlled"} /\ run[live.owner] = live.run
    /\ \A p \in Procs : live # None /\ lock = p => live.owner = p
    /\ \A p \in Procs : pc[p] = "supervising" => live # None

RecordedIsInLive ==
    \A m \in Runs : services[m] = "recorded" => live # None /\ live.run = m /\ live.services

(* Services run while their session is supervised, or after a crash.       *)
EndedInSession ==
    \A p \in Procs :
        /\ pc[p] = "controlled" => services[run[p]] = "none"
        /\ pc[p] \in {"closing", "closed", "summarised"} => services[run[p]] \in {"none", "dead"}

(* Processes have sessions of their own, and keep no running services of a *)
(* session that is over.                                                   *)
SessionsDiffer ==
    \A p \in Procs :
        /\ run[p] <= runs
        /\ \A q \in Procs : p # q /\ run[p] # 0 => run[p] # run[q]

OverIsEnded ==
    \A p \in Procs :
        run[p] # 0 /\ pc[p] # "supervising" => services[run[p]] \in {"none", "dead"}

FilesInv ==
    /\ LockIsHeld /\ SessionIsNewest /\ LiveIsHolders /\ RecordedIsInLive /\ EndedInSession
    /\ SessionsDiffer /\ OverIsEnded /\ OneGeneration

-----------------------------------------------------------------------------
(* The turns of Run                                                        *)

(* The flag is set by a restart of this turn's session, and by nothing     *)
(* before it.                                                              *)
FlagOfTurn ==
    \A p \in Procs :
        /\ restart[p] => Executed(p, run[p], "restart")
        /\ pc[p] \in {"off", "acquiring", "preparing"} => ~restart[p]

(* A connection that has outlived its turn is to a session that was        *)
(* restarted.                                                              *)
LateIsRestarted ==
    \A c \in Callers :
        caller[c].pc = "connected" /\ Alive(caller[c].by) =>
            \/ InTurn(caller[c].by, caller[c].at)
            \/ Executed(caller[c].by, caller[c].at, "restart")

(* A session is cancelled for a reason of its own; before it has its       *)
(* socket, by Ctrl-C.                                                      *)
CancelledForCause ==
    \A p \in Procs :
        cancelled[p] /\ pc[p] \notin {"closed", "summarised", "releasing", "released"} =>
            \/ failed[p] \/ interrupt[p]
            \/ /\ pc[p] \notin {"off", "acquiring", "preparing"}
               /\ \E op \in Operations : Executed(p, run[p], op)

TurnInv == FlagOfTurn /\ LateIsRestarted /\ StopIsFinal

-----------------------------------------------------------------------------
(* Typing is invariant                                                     *)

USE LifecycleAssumption DEF Goes, procVars, fileVars, Runs

LEMMA InitTyped == Init => Typed
  BY DEF Init, Typed, ProcsTyped, FilesTyped, CallersTyped, RunTyped, Positions, CallerRecord,
         InSession

LEMMA NextProcsTyped == Typed /\ [Next]_vars => ProcsTyped'
  <1> SUFFICES ASSUME Typed, [Next]_vars PROVE ProcsTyped'
    OBVIOUS
  <1> USE DEF Typed, ProcsTyped, FilesTyped, Positions
  <1>1. ASSUME NEW p \in Procs, Acquire(p) PROVE ProcsTyped'
    <2>1. CASE Goes(p, "preparing") /\ UNCHANGED <<run, cancelled, restart, failed, interrupt>>
      BY <2>1 DEF Typed, ProcsTyped, Positions
    <2>2. CASE Leaves(p, "exited")
      BY <2>2 DEF Typed, ProcsTyped, Positions, Leaves
    <2> QED
      BY <1>1, <2>1, <2>2 DEF Acquire
  <1>2. ASSUME NEW p \in Procs, PrepareFails(p) PROVE ProcsTyped'
    BY <1>2 DEF PrepareFails
  <1>3. ASSUME NEW p \in Procs, StartControl(p) PROVE ProcsTyped'
    BY <1>3 DEF StartControl
  <1>4. ASSUME NEW p \in Procs, Announce(p) PROVE ProcsTyped'
    BY <1>4 DEF Announce, WriteLive
  <1>5. ASSUME NEW p \in Procs, StartServices(p) PROVE ProcsTyped'
    BY <1>5 DEF StartServices
  <1>6. ASSUME NEW p \in Procs, RecordServices(p) PROVE ProcsTyped'
    BY <1>6 DEF RecordServices, WriteLive
  <1>7. ASSUME NEW p \in Procs, SupervisorReturns(p) PROVE ProcsTyped'
    BY <1>7 DEF SupervisorReturns, NothingLeft, Running
  <1>8. ASSUME NEW p \in Procs, CloseControl(p) PROVE ProcsTyped'
    BY <1>8 DEF CloseControl
  <1>9. ASSUME NEW p \in Procs, Summarise(p) PROVE ProcsTyped'
    BY <1>9 DEF Summarise
  <1>10. ASSUME NEW p \in Procs, RemoveLive(p) PROVE ProcsTyped'
    BY <1>10 DEF RemoveLive
  <1>11. ASSUME NEW p \in Procs, Release(p) PROVE ProcsTyped'
    BY <1>11 DEF Release
  <1>12. ASSUME NEW p \in Procs, Loop(p) PROVE ProcsTyped'
    <2>1. CASE Leaves(p, "exited")
      BY <2>1 DEF Typed, ProcsTyped, Positions, Leaves
    <2>2. CASE /\ Goes(p, "acquiring") /\ restart' = FlagReset(p)
               /\ cancelled' = [cancelled EXCEPT ![p] = FALSE]
               /\ UNCHANGED <<run, failed, interrupt>>
      BY <2>2 DEF Typed, ProcsTyped, Positions, FlagReset
    <2> QED
      BY <1>12, <2>1, <2>2 DEF Loop
  <1>13. ASSUME NEW p \in Procs, Launch(p) PROVE ProcsTyped'
    BY <1>13 DEF Launch
  <1>14. ASSUME NEW p \in Procs, WriteLiveFails(p) PROVE ProcsTyped'
    BY <1>14 DEF WriteLiveFails
  <1>15. ASSUME NEW p \in Procs, Interrupt(p) PROVE ProcsTyped'
    BY <1>15 DEF Interrupt
  <1>16. ASSUME NEW p \in Procs, Crash(p) PROVE ProcsTyped'
    BY <1>16 DEF Crash, Leaves
  <1>17. ASSUME NEW c \in Callers, ReadLive(c) PROVE ProcsTyped'
    BY <1>17 DEF ReadLive, Returns, Caller
  <1>18. ASSUME NEW c \in Callers, Dial(c) PROVE ProcsTyped'
    BY <1>18 DEF Dial, Returns, Caller, Listener
  <1>19. ASSUME NEW c \in Callers, HungUp(c) PROVE ProcsTyped'
    BY <1>19 DEF HungUp, Returns, Caller
  <1>20. ASSUME NEW c \in Callers, NEW op \in Operations, Handle(c, op) PROVE ProcsTyped'
    BY <1>20 DEF Handle, Returns, Caller, InTurn
  <1>21. ASSUME NEW n \in Runs, ServicesEnd(n) PROVE ProcsTyped'
    BY <1>21 DEF ServicesEnd, Running
  <1>22. CASE UNCHANGED vars
    BY <1>22 DEF vars
  <1> HIDE DEF Typed, ProcsTyped, FilesTyped, Positions
  <1> QED
    BY <1>1, <1>2, <1>3, <1>4, <1>5, <1>6, <1>7, <1>8, <1>9, <1>10, <1>11, <1>12, <1>13,
       <1>14, <1>15, <1>16, <1>17, <1>18, <1>19, <1>20, <1>21, <1>22
       DEF Next, Step, CleanupStep, Happens, Call, Ended

LEMMA NextFilesTyped == Typed /\ [Next]_vars => FilesTyped'
  <1> SUFFICES ASSUME Typed, [Next]_vars PROVE FilesTyped'
    OBVIOUS
  <1> USE DEF Typed, ProcsTyped, FilesTyped, RunTyped, LiveRecord, InSession
  <1>1. ASSUME NEW p \in Procs, Acquire(p) PROVE FilesTyped'
    BY <1>1 DEF Acquire, AnyProcessOf, Leaves
  <1>2. ASSUME NEW p \in Procs, PrepareFails(p) PROVE FilesTyped'
    BY <1>2 DEF PrepareFails
  <1>3. ASSUME NEW p \in Procs, StartControl(p) PROVE FilesTyped'
    BY <1>3 DEF StartControl
  <1>4. ASSUME NEW p \in Procs, Announce(p) PROVE FilesTyped'
    <2>1. run[p] \in Runs /\ UNCHANGED <<services, runs, lock, socket, last>>
      BY <1>4 DEF Typed, RunTyped, InSession, Announce
    <2>2. WriteLive(p, FALSE) \/ UNCHANGED live
      BY <1>4 DEF Announce
    <2>3. live' \in LiveRecord \cup {None}
      <3>1. CASE WriteLive(p, FALSE)
        BY <2>1, <3>1 DEF WriteLive, LiveRecord
      <3>2. CASE UNCHANGED live
        BY <3>2 DEF Typed, FilesTyped
      <3> QED
        BY <2>2, <3>1, <3>2
    <2> QED
      BY <2>1, <2>3 DEF Typed, FilesTyped
  <1>5. ASSUME NEW p \in Procs, StartServices(p) PROVE FilesTyped'
    BY <1>5 DEF StartServices
  <1>6. ASSUME NEW p \in Procs, RecordServices(p) PROVE FilesTyped'
    BY <1>6 DEF RecordServices, WriteLive
  <1>7. ASSUME NEW p \in Procs, SupervisorReturns(p) PROVE FilesTyped'
    BY <1>7 DEF SupervisorReturns, NothingLeft, Running
  <1>8. ASSUME NEW p \in Procs, CloseControl(p) PROVE FilesTyped'
    BY <1>8 DEF CloseControl
  <1>9. ASSUME NEW p \in Procs, Summarise(p) PROVE FilesTyped'
    BY <1>9 DEF Summarise
  <1>10. ASSUME NEW p \in Procs, RemoveLive(p) PROVE FilesTyped'
    BY <1>10 DEF RemoveLive
  <1>11. ASSUME NEW p \in Procs, Release(p) PROVE FilesTyped'
    BY <1>11 DEF Release
  <1>12. ASSUME NEW p \in Procs, Loop(p) PROVE FilesTyped'
    BY <1>12 DEF Loop, Again, FlagReset, Leaves
  <1>13. ASSUME NEW p \in Procs, Launch(p) PROVE FilesTyped'
    BY <1>13 DEF Launch
  <1>14. ASSUME NEW p \in Procs, WriteLiveFails(p) PROVE FilesTyped'
    BY <1>14 DEF WriteLiveFails
  <1>15. ASSUME NEW p \in Procs, Interrupt(p) PROVE FilesTyped'
    BY <1>15 DEF Interrupt
  <1>16. ASSUME NEW p \in Procs, Crash(p) PROVE FilesTyped'
    BY <1>16 DEF Crash, Leaves
  <1>17. ASSUME NEW c \in Callers, ReadLive(c) PROVE FilesTyped'
    BY <1>17 DEF ReadLive, Returns, Caller
  <1>18. ASSUME NEW c \in Callers, Dial(c) PROVE FilesTyped'
    BY <1>18 DEF Dial, Returns, Caller, Listener
  <1>19. ASSUME NEW c \in Callers, HungUp(c) PROVE FilesTyped'
    BY <1>19 DEF HungUp, Returns, Caller
  <1>20. ASSUME NEW c \in Callers, NEW op \in Operations, Handle(c, op) PROVE FilesTyped'
    BY <1>20 DEF Handle, Returns, Caller, InTurn
  <1>21. ASSUME NEW n \in Runs, ServicesEnd(n) PROVE FilesTyped'
    BY <1>21 DEF ServicesEnd, Running
  <1>22. CASE UNCHANGED vars
    BY <1>22 DEF vars
  <1> HIDE DEF Typed, ProcsTyped, FilesTyped, RunTyped, LiveRecord, InSession
  <1> QED
    BY <1>1, <1>2, <1>3, <1>4, <1>5, <1>6, <1>7, <1>8, <1>9, <1>10, <1>11, <1>12, <1>13,
       <1>14, <1>15, <1>16, <1>17, <1>18, <1>19, <1>20, <1>21, <1>22
       DEF Next, Step, CleanupStep, Happens, Call, Ended

LEMMA NextCallersTyped == Typed /\ [Next]_vars => CallersTyped'
  <1> SUFFICES ASSUME Typed, [Next]_vars PROVE CallersTyped'
    OBVIOUS
  <1> USE DEF Typed, ProcsTyped, FilesTyped, CallersTyped, CallerRecord, LiveRecord,
              Operations
  <1>1. ASSUME NEW p \in Procs, Acquire(p) PROVE CallersTyped'
    BY <1>1 DEF Acquire, AnyProcessOf, Leaves
  <1>2. ASSUME NEW p \in Procs, PrepareFails(p) PROVE CallersTyped'
    BY <1>2 DEF PrepareFails
  <1>3. ASSUME NEW p \in Procs, StartControl(p) PROVE CallersTyped'
    BY <1>3 DEF StartControl
  <1>4. ASSUME NEW p \in Procs, Announce(p) PROVE CallersTyped'
    BY <1>4 DEF Announce, WriteLive
  <1>5. ASSUME NEW p \in Procs, StartServices(p) PROVE CallersTyped'
    BY <1>5 DEF StartServices
  <1>6. ASSUME NEW p \in Procs, RecordServices(p) PROVE CallersTyped'
    BY <1>6 DEF RecordServices, WriteLive
  <1>7. ASSUME NEW p \in Procs, SupervisorReturns(p) PROVE CallersTyped'
    BY <1>7 DEF SupervisorReturns, NothingLeft, Running
  <1>8. ASSUME NEW p \in Procs, CloseControl(p) PROVE CallersTyped'
    BY <1>8 DEF CloseControl
  <1>9. ASSUME NEW p \in Procs, Summarise(p) PROVE CallersTyped'
    BY <1>9 DEF Summarise
  <1>10. ASSUME NEW p \in Procs, RemoveLive(p) PROVE CallersTyped'
    BY <1>10 DEF RemoveLive
  <1>11. ASSUME NEW p \in Procs, Release(p) PROVE CallersTyped'
    BY <1>11 DEF Release
  <1>12. ASSUME NEW p \in Procs, Loop(p) PROVE CallersTyped'
    BY <1>12 DEF Loop, Again, FlagReset, Leaves
  <1>13. ASSUME NEW p \in Procs, Launch(p) PROVE CallersTyped'
    BY <1>13 DEF Launch
  <1>14. ASSUME NEW p \in Procs, WriteLiveFails(p) PROVE CallersTyped'
    BY <1>14 DEF WriteLiveFails
  <1>15. ASSUME NEW p \in Procs, Interrupt(p) PROVE CallersTyped'
    BY <1>15 DEF Interrupt
  <1>16. ASSUME NEW p \in Procs, Crash(p) PROVE CallersTyped'
    BY <1>16 DEF Crash, Leaves
  <1>17. ASSUME NEW c \in Callers, ReadLive(c) PROVE CallersTyped'
    <2> HIDE DEF ProcsTyped, FilesTyped, LiveRecord, Operations
    <2>1. UNCHANGED <<pc, executed>>
      BY <1>17 DEF ReadLive
    <2>2. CASE live = None
      BY <1>17, <2>1, <2>2 DEF ReadLive, Returns, Caller, Typed, CallersTyped, CallerRecord
    <2>3. CASE live # None
      <3>1. live.run \in Runs
        BY <2>3 DEF Typed, FilesTyped, LiveRecord
      <3>2. caller' = [caller EXCEPT ![c] = Caller("read", live.run, 0, None)]
        BY <1>17, <2>3 DEF ReadLive
      <3> QED
        BY <2>1, <3>1, <3>2 DEF Caller, Typed, CallersTyped, CallerRecord
    <2> QED
      BY <2>2, <2>3
  <1>18. ASSUME NEW c \in Callers, Dial(c) PROVE CallersTyped'
    <2>1. UNCHANGED <<pc, executed>> /\ caller[c].pc = "read"
      BY <1>18 DEF Dial
    <2>2. CASE Returns(c, "failed")
      BY <2>1, <2>2 DEF Returns, Caller, Typed, CallersTyped, CallerRecord
    <2>3. ASSUME NEW p \in Listener,
                 caller' = [caller EXCEPT ![c] = Caller("connected", @.token, socket, p)]
          PROVE  CallersTyped'
      <3>1. p \in Procs /\ socket \in Runs /\ pc[p] # "off"
        BY DEF Listener, Typed, FilesTyped
      <3>2. caller[c].token \in Runs
        BY <2>1 DEF Typed, CallersTyped
      <3> QED
        BY <2>1, <2>3, <3>1, <3>2 DEF Caller, Typed, CallersTyped, CallerRecord
    <2> QED
      BY <1>18, <2>2, <2>3 DEF Dial
  <1>19. ASSUME NEW c \in Callers, HungUp(c) PROVE CallersTyped'
    BY <1>19 DEF HungUp, Returns, Caller
  <1>20. ASSUME NEW c \in Callers, NEW op \in Operations, Handle(c, op) PROVE CallersTyped'
    <2>1. pc' = pc /\ caller[c].pc = "connected"
      BY <1>20 DEF Handle
    <2>2. /\ caller[c].at \in Runs /\ caller[c].by \in Procs /\ caller[c].token \in Runs
          /\ pc[caller[c].by] # "off"
      BY <2>1 DEF Typed, CallersTyped
    <2>3. \/ Returns(c, "done") /\ executed' = executed \cup
               {[run |-> caller[c].at, op |-> op, token |-> caller[c].token, by |-> caller[c].by]}
          \/ Returns(c, "failed") /\ executed' = executed
      BY <1>20 DEF Handle
    <2>4. /\ caller' \in [Callers -> CallerRecord]
          /\ \A d \in Callers : caller'[d].pc \in {"read", "connected"} => caller'[d] = caller[d]
      BY <2>3 DEF Returns, Caller, Typed, CallersTyped, CallerRecord
    <2>5. /\ executed' \subseteq [run : Runs, op : Operations, token : Runs, by : Procs]
          /\ \A e \in executed' : pc[e.by] # "off"
      BY <2>2, <2>3 DEF Typed, CallersTyped
    <2> QED
      BY <2>1, <2>4, <2>5 DEF Typed, CallersTyped
  <1>21. ASSUME NEW n \in Runs, ServicesEnd(n) PROVE CallersTyped'
    BY <1>21 DEF ServicesEnd, Running
  <1>22. CASE UNCHANGED vars
    BY <1>22 DEF vars
  <1> HIDE DEF Typed, ProcsTyped, FilesTyped, CallersTyped, CallerRecord, LiveRecord,
              Operations
  <1> QED
    BY <1>1, <1>2, <1>3, <1>4, <1>5, <1>6, <1>7, <1>8, <1>9, <1>10, <1>11, <1>12, <1>13,
       <1>14, <1>15, <1>16, <1>17, <1>18, <1>19, <1>20, <1>21, <1>22
       DEF Next, Step, CleanupStep, Happens, Call, Ended

LEMMA NextRunTyped == Typed /\ [Next]_vars => RunTyped'
  <1> SUFFICES ASSUME Typed, [Next]_vars PROVE RunTyped'
    OBVIOUS
  <1> USE DEF Typed, ProcsTyped, FilesTyped, RunTyped, InSession
  <1>1. ASSUME NEW p \in Procs, Acquire(p) PROVE RunTyped'
    BY <1>1 DEF Acquire, AnyProcessOf, Leaves
  <1>2. ASSUME NEW p \in Procs, PrepareFails(p) PROVE RunTyped'
    BY <1>2 DEF PrepareFails
  <1>3. ASSUME NEW p \in Procs, StartControl(p) PROVE RunTyped'
    BY <1>3 DEF StartControl
  <1>4. ASSUME NEW p \in Procs, Announce(p) PROVE RunTyped'
    BY <1>4 DEF Announce, WriteLive
  <1>5. ASSUME NEW p \in Procs, StartServices(p) PROVE RunTyped'
    BY <1>5 DEF StartServices
  <1>6. ASSUME NEW p \in Procs, RecordServices(p) PROVE RunTyped'
    BY <1>6 DEF RecordServices, WriteLive
  <1>7. ASSUME NEW p \in Procs, SupervisorReturns(p) PROVE RunTyped'
    BY <1>7 DEF SupervisorReturns, NothingLeft, Running
  <1>8. ASSUME NEW p \in Procs, CloseControl(p) PROVE RunTyped'
    BY <1>8 DEF CloseControl
  <1>9. ASSUME NEW p \in Procs, Summarise(p) PROVE RunTyped'
    BY <1>9 DEF Summarise
  <1>10. ASSUME NEW p \in Procs, RemoveLive(p) PROVE RunTyped'
    BY <1>10 DEF RemoveLive
  <1>11. ASSUME NEW p \in Procs, Release(p) PROVE RunTyped'
    BY <1>11 DEF Release
  <1>12. ASSUME NEW p \in Procs, Loop(p) PROVE RunTyped'
    BY <1>12 DEF Loop, Again, FlagReset, Leaves
  <1>13. ASSUME NEW p \in Procs, Launch(p) PROVE RunTyped'
    BY <1>13 DEF Launch
  <1>14. ASSUME NEW p \in Procs, WriteLiveFails(p) PROVE RunTyped'
    BY <1>14 DEF WriteLiveFails
  <1>15. ASSUME NEW p \in Procs, Interrupt(p) PROVE RunTyped'
    BY <1>15 DEF Interrupt
  <1>16. ASSUME NEW p \in Procs, Crash(p) PROVE RunTyped'
    BY <1>16 DEF Crash, Leaves
  <1>17. ASSUME NEW c \in Callers, ReadLive(c) PROVE RunTyped'
    BY <1>17 DEF ReadLive, Returns, Caller
  <1>18. ASSUME NEW c \in Callers, Dial(c) PROVE RunTyped'
    BY <1>18 DEF Dial, Returns, Caller, Listener
  <1>19. ASSUME NEW c \in Callers, HungUp(c) PROVE RunTyped'
    BY <1>19 DEF HungUp, Returns, Caller
  <1>20. ASSUME NEW c \in Callers, NEW op \in Operations, Handle(c, op) PROVE RunTyped'
    BY <1>20 DEF Handle, Returns, Caller, InTurn
  <1>21. ASSUME NEW n \in Runs, ServicesEnd(n) PROVE RunTyped'
    BY <1>21 DEF ServicesEnd, Running
  <1>22. CASE UNCHANGED vars
    BY <1>22 DEF vars
  <1> HIDE DEF Typed, ProcsTyped, FilesTyped, RunTyped, InSession
  <1> QED
    BY <1>1, <1>2, <1>3, <1>4, <1>5, <1>6, <1>7, <1>8, <1>9, <1>10, <1>11, <1>12, <1>13,
       <1>14, <1>15, <1>16, <1>17, <1>18, <1>19, <1>20, <1>21, <1>22
       DEF Next, Step, CleanupStep, Happens, Call, Ended

\* Every variable of the model keeps its shape, in the four parts the later steps cite
\* (Run, runOnce, the files of Store, the callers of the control socket).
THEOREM TypingInvariant == Spec => []Typed
  <1>1. Typed /\ [Next]_vars => Typed'
    BY NextProcsTyped, NextFilesTyped, NextCallersTyped, NextRunTyped DEF Typed
  <1> QED
    BY <1>1, InitTyped, PTL DEF Spec

-----------------------------------------------------------------------------
(* The files and the services                                              *)

LEMMA InitFiles == Init => FilesInv
  BY DEF Init, FilesInv, LockIsHeld, SessionIsNewest, LiveIsHolders, RecordedIsInLive,
         EndedInSession, SessionsDiffer, OverIsEnded, OneGeneration, Alive, Running, InSession,
         Locked

\* What a process writes into the live file is of its own session.
LEMMA WrittenIsOwn ==
    ASSUME Typed, NEW p \in Procs, run[p] \in Runs, NEW b \in BOOLEAN, WriteLive(p, b)
    PROVE  live' # None /\ live'.owner = p /\ live'.run = run[p] /\ live'.services = b
  BY DEF WriteLive

LEMMA NextLock == Typed /\ FilesInv /\ [Next]_vars => LockIsHeld'
  <1> SUFFICES ASSUME Typed /\ FilesInv, [Next]_vars PROVE LockIsHeld'
    OBVIOUS
  <1> USE DEF Typed, ProcsTyped, FilesTyped, RunTyped, InSession, FilesInv, LockIsHeld,
              Locked, Positions
  <1>1. ASSUME NEW p \in Procs, Acquire(p) PROVE LockIsHeld'
    BY <1>1 DEF Acquire, AnyProcessOf, Leaves
  <1>2. ASSUME NEW p \in Procs, PrepareFails(p) PROVE LockIsHeld'
    BY <1>2 DEF PrepareFails
  <1>3. ASSUME NEW p \in Procs, StartControl(p) PROVE LockIsHeld'
    BY <1>3 DEF StartControl
  <1>4. ASSUME NEW p \in Procs, Announce(p) PROVE LockIsHeld'
    BY <1>4 DEF Announce, WriteLive
  <1>5. ASSUME NEW p \in Procs, StartServices(p) PROVE LockIsHeld'
    BY <1>5 DEF StartServices
  <1>6. ASSUME NEW p \in Procs, RecordServices(p) PROVE LockIsHeld'
    BY <1>6 DEF RecordServices, WriteLive
  <1>7. ASSUME NEW p \in Procs, SupervisorReturns(p) PROVE LockIsHeld'
    BY <1>7 DEF SupervisorReturns, NothingLeft, Running
  <1>8. ASSUME NEW p \in Procs, CloseControl(p) PROVE LockIsHeld'
    BY <1>8 DEF CloseControl
  <1>9. ASSUME NEW p \in Procs, Summarise(p) PROVE LockIsHeld'
    BY <1>9 DEF Summarise
  <1>10. ASSUME NEW p \in Procs, RemoveLive(p) PROVE LockIsHeld'
    BY <1>10 DEF RemoveLive
  <1>11. ASSUME NEW p \in Procs, Release(p) PROVE LockIsHeld'
    BY <1>11 DEF Release
  <1>12. ASSUME NEW p \in Procs, Loop(p) PROVE LockIsHeld'
    BY <1>12 DEF Loop, Again, FlagReset, Leaves
  <1>13. ASSUME NEW p \in Procs, Launch(p) PROVE LockIsHeld'
    BY <1>13 DEF Launch
  <1>14. ASSUME NEW p \in Procs, WriteLiveFails(p) PROVE LockIsHeld'
    BY <1>14 DEF WriteLiveFails
  <1>15. ASSUME NEW p \in Procs, Interrupt(p) PROVE LockIsHeld'
    BY <1>15 DEF Interrupt
  <1>16. ASSUME NEW p \in Procs, Crash(p) PROVE LockIsHeld'
    BY <1>16 DEF Crash, Leaves
  <1>17. ASSUME NEW c \in Callers, ReadLive(c) PROVE LockIsHeld'
    BY <1>17 DEF ReadLive, Returns, Caller
  <1>18. ASSUME NEW c \in Callers, Dial(c) PROVE LockIsHeld'
    BY <1>18 DEF Dial, Returns, Caller, Listener
  <1>19. ASSUME NEW c \in Callers, HungUp(c) PROVE LockIsHeld'
    BY <1>19 DEF HungUp, Returns, Caller
  <1>20. ASSUME NEW c \in Callers, NEW op \in Operations, Handle(c, op) PROVE LockIsHeld'
    BY <1>20 DEF Handle, Returns, Caller, InTurn
  <1>21. ASSUME NEW n \in Runs, ServicesEnd(n) PROVE LockIsHeld'
    BY <1>21 DEF ServicesEnd, Running
  <1>22. CASE UNCHANGED vars
    BY <1>22 DEF vars
  <1> HIDE DEF Typed, ProcsTyped, FilesTyped, RunTyped, InSession, FilesInv, LockIsHeld,
              Locked, Positions
  <1> QED
    BY <1>1, <1>2, <1>3, <1>4, <1>5, <1>6, <1>7, <1>8, <1>9, <1>10, <1>11, <1>12, <1>13,
       <1>14, <1>15, <1>16, <1>17, <1>18, <1>19, <1>20, <1>21, <1>22
       DEF Next, Step, CleanupStep, Happens, Call, Ended

LEMMA NextNewest == Typed /\ FilesInv /\ [Next]_vars => SessionIsNewest'
  <1> SUFFICES ASSUME Typed /\ FilesInv, [Next]_vars PROVE SessionIsNewest'
    OBVIOUS
  <1> USE DEF Typed, ProcsTyped, FilesTyped, RunTyped, InSession, FilesInv, LockIsHeld,
              Locked, SessionIsNewest
  <1>1. ASSUME NEW p \in Procs, Acquire(p) PROVE SessionIsNewest'
    BY <1>1 DEF Acquire, AnyProcessOf, Leaves
  <1>2. ASSUME NEW p \in Procs, PrepareFails(p) PROVE SessionIsNewest'
    BY <1>2 DEF PrepareFails
  <1>3. ASSUME NEW p \in Procs, StartControl(p) PROVE SessionIsNewest'
    BY <1>3 DEF StartControl
  <1>4. ASSUME NEW p \in Procs, Announce(p) PROVE SessionIsNewest'
    BY <1>4 DEF Announce, WriteLive
  <1>5. ASSUME NEW p \in Procs, StartServices(p) PROVE SessionIsNewest'
    BY <1>5 DEF StartServices
  <1>6. ASSUME NEW p \in Procs, RecordServices(p) PROVE SessionIsNewest'
    BY <1>6 DEF RecordServices, WriteLive
  <1>7. ASSUME NEW p \in Procs, SupervisorReturns(p) PROVE SessionIsNewest'
    BY <1>7 DEF SupervisorReturns, NothingLeft, Running
  <1>8. ASSUME NEW p \in Procs, CloseControl(p) PROVE SessionIsNewest'
    BY <1>8 DEF CloseControl
  <1>9. ASSUME NEW p \in Procs, Summarise(p) PROVE SessionIsNewest'
    BY <1>9 DEF Summarise
  <1>10. ASSUME NEW p \in Procs, RemoveLive(p) PROVE SessionIsNewest'
    BY <1>10 DEF RemoveLive
  <1>11. ASSUME NEW p \in Procs, Release(p) PROVE SessionIsNewest'
    BY <1>11 DEF Release
  <1>12. ASSUME NEW p \in Procs, Loop(p) PROVE SessionIsNewest'
    BY <1>12 DEF Loop, Again, FlagReset, Leaves
  <1>13. ASSUME NEW p \in Procs, Launch(p) PROVE SessionIsNewest'
    BY <1>13 DEF Launch
  <1>14. ASSUME NEW p \in Procs, WriteLiveFails(p) PROVE SessionIsNewest'
    BY <1>14 DEF WriteLiveFails
  <1>15. ASSUME NEW p \in Procs, Interrupt(p) PROVE SessionIsNewest'
    BY <1>15 DEF Interrupt
  <1>16. ASSUME NEW p \in Procs, Crash(p) PROVE SessionIsNewest'
    BY <1>16 DEF Crash, Leaves
  <1>17. ASSUME NEW c \in Callers, ReadLive(c) PROVE SessionIsNewest'
    BY <1>17 DEF ReadLive, Returns, Caller
  <1>18. ASSUME NEW c \in Callers, Dial(c) PROVE SessionIsNewest'
    BY <1>18 DEF Dial, Returns, Caller, Listener
  <1>19. ASSUME NEW c \in Callers, HungUp(c) PROVE SessionIsNewest'
    BY <1>19 DEF HungUp, Returns, Caller
  <1>20. ASSUME NEW c \in Callers, NEW op \in Operations, Handle(c, op) PROVE SessionIsNewest'
    BY <1>20 DEF Handle, Returns, Caller, InTurn
  <1>21. ASSUME NEW n \in Runs, ServicesEnd(n) PROVE SessionIsNewest'
    BY <1>21 DEF ServicesEnd, Running
  <1>22. CASE UNCHANGED vars
    BY <1>22 DEF vars
  <1> HIDE DEF Typed, ProcsTyped, FilesTyped, RunTyped, InSession, FilesInv, LockIsHeld,
              Locked, SessionIsNewest
  <1> QED
    BY <1>1, <1>2, <1>3, <1>4, <1>5, <1>6, <1>7, <1>8, <1>9, <1>10, <1>11, <1>12, <1>13,
       <1>14, <1>15, <1>16, <1>17, <1>18, <1>19, <1>20, <1>21, <1>22
       DEF Next, Step, CleanupStep, Happens, Call, Ended

LEMMA NextLive == Typed /\ FilesInv /\ [Next]_vars => LiveIsHolders'
  <1> SUFFICES ASSUME Typed /\ FilesInv, [Next]_vars PROVE LiveIsHolders'
    OBVIOUS
  <1> USE DEF Typed, ProcsTyped, FilesTyped, RunTyped, InSession, FilesInv, LockIsHeld,
              Locked, LiveIsHolders, Alive, LiveRecord
  <1>1. ASSUME NEW p \in Procs, Acquire(p) PROVE LiveIsHolders'
    <2>1. CASE Goes(p, "preparing") /\ lock = None /\ lock' = p /\ live' = None
      BY <1>1, <2>1
    <2>2. CASE Leaves(p, "exited") /\ UNCHANGED <<lock, live>>
      BY <1>1, <2>2 DEF Acquire, Leaves
    <2> QED
      BY <1>1, <2>1, <2>2 DEF Acquire
  <1>2. ASSUME NEW p \in Procs, PrepareFails(p) PROVE LiveIsHolders'
    BY <1>2 DEF PrepareFails
  <1>3. ASSUME NEW p \in Procs, StartControl(p) PROVE LiveIsHolders'
    BY <1>3 DEF StartControl
  <1>4. ASSUME NEW p \in Procs, Announce(p) PROVE LiveIsHolders'
    <2>1. lock = p /\ live = None /\ run[p] \in Runs /\ run' = run /\ lock' = lock
      BY <1>4 DEF Announce
    <2>2. CASE WriteLive(p, FALSE) /\ (Goes(p, "supervising") \/ Goes(p, "closing"))
      <3>1. live' # None /\ live'.owner = p /\ live'.run = run[p]
        BY <2>1, <2>2, WrittenIsOwn
      <3>2. pc'[p] \in {"supervising", "closing"} /\ \A q \in Procs \ {p} : pc'[q] = pc[q]
        BY <2>2
      <3> QED
        BY <2>1, <3>1, <3>2
    <2>3. CASE UNCHANGED live /\ Goes(p, "closing")
      BY <2>1, <2>3
    <2> QED
      BY <1>4, <2>2, <2>3 DEF Announce
  <1>5. ASSUME NEW p \in Procs, StartServices(p) PROVE LiveIsHolders'
    BY <1>5 DEF StartServices
  <1>6. ASSUME NEW p \in Procs, RecordServices(p) PROVE LiveIsHolders'
    <2>1. lock = p /\ pc[p] = "supervising" /\ run[p] \in Runs /\ UNCHANGED <<pc, run, lock>>
      BY <1>6 DEF RecordServices
    <2>2. WriteLive(p, TRUE)
      BY <1>6 DEF RecordServices
    <2> QED
      BY <2>1, <2>2, WrittenIsOwn
  <1>7. ASSUME NEW p \in Procs, SupervisorReturns(p) PROVE LiveIsHolders'
    BY <1>7 DEF SupervisorReturns, NothingLeft, Running
  <1>8. ASSUME NEW p \in Procs, CloseControl(p) PROVE LiveIsHolders'
    BY <1>8 DEF CloseControl
  <1>9. ASSUME NEW p \in Procs, Summarise(p) PROVE LiveIsHolders'
    BY <1>9 DEF Summarise
  <1>10. ASSUME NEW p \in Procs, RemoveLive(p) PROVE LiveIsHolders'
    BY <1>10 DEF RemoveLive
  <1>11. ASSUME NEW p \in Procs, Release(p) PROVE LiveIsHolders'
    BY <1>11 DEF Release
  <1>12. ASSUME NEW p \in Procs, Loop(p) PROVE LiveIsHolders'
    BY <1>12 DEF Loop, Again, FlagReset, Leaves
  <1>13. ASSUME NEW p \in Procs, Launch(p) PROVE LiveIsHolders'
    BY <1>13 DEF Launch
  <1>14. ASSUME NEW p \in Procs, WriteLiveFails(p) PROVE LiveIsHolders'
    BY <1>14 DEF WriteLiveFails
  <1>15. ASSUME NEW p \in Procs, Interrupt(p) PROVE LiveIsHolders'
    BY <1>15 DEF Interrupt
  <1>16. ASSUME NEW p \in Procs, Crash(p) PROVE LiveIsHolders'
    BY <1>16 DEF Crash, Leaves
  <1>17. ASSUME NEW c \in Callers, ReadLive(c) PROVE LiveIsHolders'
    BY <1>17 DEF ReadLive, Returns, Caller
  <1>18. ASSUME NEW c \in Callers, Dial(c) PROVE LiveIsHolders'
    BY <1>18 DEF Dial, Returns, Caller, Listener
  <1>19. ASSUME NEW c \in Callers, HungUp(c) PROVE LiveIsHolders'
    BY <1>19 DEF HungUp, Returns, Caller
  <1>20. ASSUME NEW c \in Callers, NEW op \in Operations, Handle(c, op) PROVE LiveIsHolders'
    BY <1>20 DEF Handle, Returns, Caller, InTurn
  <1>21. ASSUME NEW n \in Runs, ServicesEnd(n) PROVE LiveIsHolders'
    BY <1>21 DEF ServicesEnd, Running
  <1>22. CASE UNCHANGED vars
    BY <1>22 DEF vars
  <1> HIDE DEF Typed, ProcsTyped, FilesTyped, RunTyped, InSession, FilesInv, LockIsHeld,
              Locked, LiveIsHolders, Alive, LiveRecord
  <1> QED
    BY <1>1, <1>2, <1>3, <1>4, <1>5, <1>6, <1>7, <1>8, <1>9, <1>10, <1>11, <1>12, <1>13,
       <1>14, <1>15, <1>16, <1>17, <1>18, <1>19, <1>20, <1>21, <1>22
       DEF Next, Step, CleanupStep, Happens, Call, Ended

LEMMA NextRecorded == Typed /\ FilesInv /\ [Next]_vars => RecordedIsInLive'
  <1> SUFFICES ASSUME Typed /\ FilesInv, [Next]_vars PROVE RecordedIsInLive'
    OBVIOUS
  <1> USE DEF Typed, ProcsTyped, FilesTyped, RunTyped, InSession, FilesInv, LockIsHeld,
              Locked, LiveIsHolders, Alive, LiveRecord, RecordedIsInLive, EndedInSession,
              Running
  <1>1. ASSUME NEW p \in Procs, Acquire(p) PROVE RecordedIsInLive'
    BY <1>1 DEF Acquire, AnyProcessOf, Leaves
  <1>2. ASSUME NEW p \in Procs, PrepareFails(p) PROVE RecordedIsInLive'
    BY <1>2 DEF PrepareFails
  <1>3. ASSUME NEW p \in Procs, StartControl(p) PROVE RecordedIsInLive'
    BY <1>3 DEF StartControl
  <1>4. ASSUME NEW p \in Procs, Announce(p) PROVE RecordedIsInLive'
    BY <1>4 DEF Announce, WriteLive
  <1>5. ASSUME NEW p \in Procs, StartServices(p) PROVE RecordedIsInLive'
    BY <1>5 DEF StartServices
  <1>6. ASSUME NEW p \in Procs, RecordServices(p) PROVE RecordedIsInLive'
    <2> HIDE DEF ProcsTyped, LiveRecord, EndedInSession, Running
    <2>1. lock = p /\ run[p] \in Runs /\ live # None /\ live.run = run[p]
      BY <1>6 DEF RecordServices
    <2>2. services' = [services EXCEPT ![run[p]] = "recorded"] /\ WriteLive(p, TRUE)
      BY <1>6 DEF RecordServices
    <2> QED
      BY <2>1, <2>2, WrittenIsOwn
  <1>7. ASSUME NEW p \in Procs, SupervisorReturns(p) PROVE RecordedIsInLive'
    BY <1>7 DEF SupervisorReturns, NothingLeft, Running
  <1>8. ASSUME NEW p \in Procs, CloseControl(p) PROVE RecordedIsInLive'
    BY <1>8 DEF CloseControl
  <1>9. ASSUME NEW p \in Procs, Summarise(p) PROVE RecordedIsInLive'
    BY <1>9 DEF Summarise
  <1>10. ASSUME NEW p \in Procs, RemoveLive(p) PROVE RecordedIsInLive'
    BY <1>10 DEF RemoveLive
  <1>11. ASSUME NEW p \in Procs, Release(p) PROVE RecordedIsInLive'
    BY <1>11 DEF Release
  <1>12. ASSUME NEW p \in Procs, Loop(p) PROVE RecordedIsInLive'
    BY <1>12 DEF Loop, Again, FlagReset, Leaves
  <1>13. ASSUME NEW p \in Procs, Launch(p) PROVE RecordedIsInLive'
    BY <1>13 DEF Launch
  <1>14. ASSUME NEW p \in Procs, WriteLiveFails(p) PROVE RecordedIsInLive'
    BY <1>14 DEF WriteLiveFails
  <1>15. ASSUME NEW p \in Procs, Interrupt(p) PROVE RecordedIsInLive'
    BY <1>15 DEF Interrupt
  <1>16. ASSUME NEW p \in Procs, Crash(p) PROVE RecordedIsInLive'
    BY <1>16 DEF Crash, Leaves
  <1>17. ASSUME NEW c \in Callers, ReadLive(c) PROVE RecordedIsInLive'
    BY <1>17 DEF ReadLive, Returns, Caller
  <1>18. ASSUME NEW c \in Callers, Dial(c) PROVE RecordedIsInLive'
    BY <1>18 DEF Dial, Returns, Caller, Listener
  <1>19. ASSUME NEW c \in Callers, HungUp(c) PROVE RecordedIsInLive'
    BY <1>19 DEF HungUp, Returns, Caller
  <1>20. ASSUME NEW c \in Callers, NEW op \in Operations, Handle(c, op) PROVE RecordedIsInLive'
    BY <1>20 DEF Handle, Returns, Caller, InTurn
  <1>21. ASSUME NEW n \in Runs, ServicesEnd(n) PROVE RecordedIsInLive'
    BY <1>21 DEF ServicesEnd
  <1>22. CASE UNCHANGED vars
    BY <1>22 DEF vars
  <1> HIDE DEF Typed, ProcsTyped, FilesTyped, RunTyped, InSession, FilesInv, LockIsHeld,
              Locked, LiveIsHolders, Alive, LiveRecord, RecordedIsInLive, EndedInSession,
              Running
  <1> QED
    BY <1>1, <1>2, <1>3, <1>4, <1>5, <1>6, <1>7, <1>8, <1>9, <1>10, <1>11, <1>12, <1>13,
       <1>14, <1>15, <1>16, <1>17, <1>18, <1>19, <1>20, <1>21, <1>22
       DEF Next, Step, CleanupStep, Happens, Call, Ended

LEMMA NextEnded == Typed /\ FilesInv /\ [Next]_vars => EndedInSession'
  <1> SUFFICES ASSUME Typed /\ FilesInv, [Next]_vars PROVE EndedInSession'
    OBVIOUS
  <1> USE DEF Typed, ProcsTyped, FilesTyped, RunTyped, InSession, FilesInv, LockIsHeld,
              Locked, SessionIsNewest, EndedInSession
  <1>1. ASSUME NEW p \in Procs, Acquire(p) PROVE EndedInSession'
    BY <1>1 DEF Acquire, AnyProcessOf, Leaves
  <1>2. ASSUME NEW p \in Procs, PrepareFails(p) PROVE EndedInSession'
    BY <1>2 DEF PrepareFails
  <1>3. ASSUME NEW p \in Procs, StartControl(p) PROVE EndedInSession'
    BY <1>3 DEF StartControl
  <1>4. ASSUME NEW p \in Procs, Announce(p) PROVE EndedInSession'
    BY <1>4 DEF Announce, WriteLive
  <1>5. ASSUME NEW p \in Procs, StartServices(p) PROVE EndedInSession'
    BY <1>5 DEF StartServices
  <1>6. ASSUME NEW p \in Procs, RecordServices(p) PROVE EndedInSession'
    BY <1>6 DEF RecordServices, WriteLive
  <1>7. ASSUME NEW p \in Procs, SupervisorReturns(p) PROVE EndedInSession'
    BY <1>7 DEF SupervisorReturns, NothingLeft, Running
  <1>8. ASSUME NEW p \in Procs, CloseControl(p) PROVE EndedInSession'
    BY <1>8 DEF CloseControl
  <1>9. ASSUME NEW p \in Procs, Summarise(p) PROVE EndedInSession'
    BY <1>9 DEF Summarise
  <1>10. ASSUME NEW p \in Procs, RemoveLive(p) PROVE EndedInSession'
    BY <1>10 DEF RemoveLive
  <1>11. ASSUME NEW p \in Procs, Release(p) PROVE EndedInSession'
    BY <1>11 DEF Release
  <1>12. ASSUME NEW p \in Procs, Loop(p) PROVE EndedInSession'
    BY <1>12 DEF Loop, Again, FlagReset, Leaves
  <1>13. ASSUME NEW p \in Procs, Launch(p) PROVE EndedInSession'
    BY <1>13 DEF Launch
  <1>14. ASSUME NEW p \in Procs, WriteLiveFails(p) PROVE EndedInSession'
    BY <1>14 DEF WriteLiveFails
  <1>15. ASSUME NEW p \in Procs, Interrupt(p) PROVE EndedInSession'
    BY <1>15 DEF Interrupt
  <1>16. ASSUME NEW p \in Procs, Crash(p) PROVE EndedInSession'
    BY <1>16 DEF Crash, Leaves
  <1>17. ASSUME NEW c \in Callers, ReadLive(c) PROVE EndedInSession'
    BY <1>17 DEF ReadLive, Returns, Caller
  <1>18. ASSUME NEW c \in Callers, Dial(c) PROVE EndedInSession'
    BY <1>18 DEF Dial, Returns, Caller, Listener
  <1>19. ASSUME NEW c \in Callers, HungUp(c) PROVE EndedInSession'
    BY <1>19 DEF HungUp, Returns, Caller
  <1>20. ASSUME NEW c \in Callers, NEW op \in Operations, Handle(c, op) PROVE EndedInSession'
    BY <1>20 DEF Handle, Returns, Caller, InTurn
  <1>21. ASSUME NEW n \in Runs, ServicesEnd(n) PROVE EndedInSession'
    BY <1>21 DEF ServicesEnd, Running
  <1>22. CASE UNCHANGED vars
    BY <1>22 DEF vars
  <1> HIDE DEF Typed, ProcsTyped, FilesTyped, RunTyped, InSession, FilesInv, LockIsHeld,
              Locked, SessionIsNewest, EndedInSession
  <1> QED
    BY <1>1, <1>2, <1>3, <1>4, <1>5, <1>6, <1>7, <1>8, <1>9, <1>10, <1>11, <1>12, <1>13,
       <1>14, <1>15, <1>16, <1>17, <1>18, <1>19, <1>20, <1>21, <1>22
       DEF Next, Step, CleanupStep, Happens, Call, Ended

LEMMA NextDiffer == Typed /\ FilesInv /\ [Next]_vars => SessionsDiffer'
  <1> SUFFICES ASSUME Typed /\ FilesInv, [Next]_vars PROVE SessionsDiffer'
    OBVIOUS
  <1> USE DEF Typed, ProcsTyped, FilesTyped, RunTyped, InSession, FilesInv, LockIsHeld,
              Locked, SessionIsNewest, SessionsDiffer
  <1>1. ASSUME NEW p \in Procs, Acquire(p) PROVE SessionsDiffer'
    <2>1. CASE Goes(p, "preparing") /\ UNCHANGED <<run, services, runs>>
      BY <2>1, <1>1 DEF Acquire
    <2>2. CASE Leaves(p, "exited") /\ UNCHANGED <<services, runs>>
      <3>1. run'[p] = 0 /\ \A q \in Procs \ {p} : run'[q] = run[q] /\ pc'[q] = pc[q]
        BY <2>2 DEF Leaves
      <3>2. ASSUME NEW q \in Procs
            PROVE  /\ run'[q] <= runs
                   /\ \A r \in Procs : q # r /\ run'[q] # 0 => run'[q] # run'[r]
        BY <3>1, 0 <= runs
      <3> QED
        BY <2>2, <3>2
    <2> QED
      BY <1>1, <2>1, <2>2 DEF Acquire
  <1>2. ASSUME NEW p \in Procs, PrepareFails(p) PROVE SessionsDiffer'
    BY <1>2 DEF PrepareFails
  <1>3. ASSUME NEW p \in Procs, StartControl(p) PROVE SessionsDiffer'
    BY <1>3 DEF StartControl
  <1>4. ASSUME NEW p \in Procs, Announce(p) PROVE SessionsDiffer'
    BY <1>4 DEF Announce, WriteLive
  <1>5. ASSUME NEW p \in Procs, StartServices(p) PROVE SessionsDiffer'
    BY <1>5 DEF StartServices
  <1>6. ASSUME NEW p \in Procs, RecordServices(p) PROVE SessionsDiffer'
    BY <1>6 DEF RecordServices, WriteLive
  <1>7. ASSUME NEW p \in Procs, SupervisorReturns(p) PROVE SessionsDiffer'
    BY <1>7 DEF SupervisorReturns, NothingLeft, Running
  <1>8. ASSUME NEW p \in Procs, CloseControl(p) PROVE SessionsDiffer'
    BY <1>8 DEF CloseControl
  <1>9. ASSUME NEW p \in Procs, Summarise(p) PROVE SessionsDiffer'
    BY <1>9 DEF Summarise
  <1>10. ASSUME NEW p \in Procs, RemoveLive(p) PROVE SessionsDiffer'
    BY <1>10 DEF RemoveLive
  <1>11. ASSUME NEW p \in Procs, Release(p) PROVE SessionsDiffer'
    BY <1>11 DEF Release
  <1>12. ASSUME NEW p \in Procs, Loop(p) PROVE SessionsDiffer'
    <2>1. CASE Goes(p, "acquiring") /\ UNCHANGED <<run, services, runs>>
      BY <2>1, <1>12 DEF Loop
    <2>2. CASE Leaves(p, "exited") /\ UNCHANGED <<services, runs>>
      <3>1. run'[p] = 0 /\ \A q \in Procs \ {p} : run'[q] = run[q] /\ pc'[q] = pc[q]
        BY <2>2 DEF Leaves
      <3>2. ASSUME NEW q \in Procs
            PROVE  /\ run'[q] <= runs
                   /\ \A r \in Procs : q # r /\ run'[q] # 0 => run'[q] # run'[r]
        BY <3>1, 0 <= runs
      <3> QED
        BY <2>2, <3>2
    <2> QED
      BY <1>12, <2>1, <2>2 DEF Loop
  <1>13. ASSUME NEW p \in Procs, Launch(p) PROVE SessionsDiffer'
    BY <1>13 DEF Launch
  <1>14. ASSUME NEW p \in Procs, WriteLiveFails(p) PROVE SessionsDiffer'
    BY <1>14 DEF WriteLiveFails
  <1>15. ASSUME NEW p \in Procs, Interrupt(p) PROVE SessionsDiffer'
    BY <1>15 DEF Interrupt
  <1>16. ASSUME NEW p \in Procs, Crash(p) PROVE SessionsDiffer'
    BY <1>16 DEF Crash, Leaves
  <1>17. ASSUME NEW c \in Callers, ReadLive(c) PROVE SessionsDiffer'
    BY <1>17 DEF ReadLive, Returns, Caller
  <1>18. ASSUME NEW c \in Callers, Dial(c) PROVE SessionsDiffer'
    BY <1>18 DEF Dial, Returns, Caller, Listener
  <1>19. ASSUME NEW c \in Callers, HungUp(c) PROVE SessionsDiffer'
    BY <1>19 DEF HungUp, Returns, Caller
  <1>20. ASSUME NEW c \in Callers, NEW op \in Operations, Handle(c, op) PROVE SessionsDiffer'
    BY <1>20 DEF Handle, Returns, Caller, InTurn
  <1>21. ASSUME NEW n \in Runs, ServicesEnd(n) PROVE SessionsDiffer'
    BY <1>21 DEF ServicesEnd
  <1>22. CASE UNCHANGED vars
    BY <1>22 DEF vars
  <1> HIDE DEF Typed, ProcsTyped, FilesTyped, RunTyped, InSession, FilesInv, LockIsHeld,
              Locked, SessionIsNewest, SessionsDiffer
  <1> QED
    BY <1>1, <1>2, <1>3, <1>4, <1>5, <1>6, <1>7, <1>8, <1>9, <1>10, <1>11, <1>12, <1>13,
       <1>14, <1>15, <1>16, <1>17, <1>18, <1>19, <1>20, <1>21, <1>22
       DEF Next, Step, CleanupStep, Happens, Call, Ended

LEMMA NextOver == Typed /\ FilesInv /\ [Next]_vars => OverIsEnded'
  <1> SUFFICES ASSUME Typed /\ FilesInv, [Next]_vars PROVE OverIsEnded'
    OBVIOUS
  <1> USE DEF Typed, ProcsTyped, FilesTyped, RunTyped, InSession, FilesInv, LockIsHeld,
              Locked, SessionIsNewest, EndedInSession, SessionsDiffer,
              OverIsEnded
  <1>1. ASSUME NEW p \in Procs, Acquire(p) PROVE OverIsEnded'
    <2>1. CASE Goes(p, "preparing") /\ UNCHANGED <<run, services, runs>>
      BY <2>1, <1>1 DEF Acquire
    <2>2. CASE Leaves(p, "exited") /\ UNCHANGED <<services, runs>>
      <3>1. run'[p] = 0 /\ \A q \in Procs \ {p} : run'[q] = run[q] /\ pc'[q] = pc[q]
        BY <2>2 DEF Leaves
      <3> QED
        BY <2>2, <3>1
    <2> QED
      BY <1>1, <2>1, <2>2 DEF Acquire
  <1>2. ASSUME NEW p \in Procs, PrepareFails(p) PROVE OverIsEnded'
    BY <1>2 DEF PrepareFails
  <1>3. ASSUME NEW p \in Procs, StartControl(p) PROVE OverIsEnded'
    BY <1>3 DEF StartControl
  <1>4. ASSUME NEW p \in Procs, Announce(p) PROVE OverIsEnded'
    BY <1>4 DEF Announce, WriteLive
  <1>5. ASSUME NEW p \in Procs, StartServices(p) PROVE OverIsEnded'
    BY <1>5 DEF StartServices
  <1>6. ASSUME NEW p \in Procs, RecordServices(p) PROVE OverIsEnded'
    BY <1>6 DEF RecordServices, WriteLive
  <1>7. ASSUME NEW p \in Procs, SupervisorReturns(p) PROVE OverIsEnded'
    BY <1>7 DEF SupervisorReturns, NothingLeft, Running
  <1>8. ASSUME NEW p \in Procs, CloseControl(p) PROVE OverIsEnded'
    BY <1>8 DEF CloseControl
  <1>9. ASSUME NEW p \in Procs, Summarise(p) PROVE OverIsEnded'
    BY <1>9 DEF Summarise
  <1>10. ASSUME NEW p \in Procs, RemoveLive(p) PROVE OverIsEnded'
    BY <1>10 DEF RemoveLive
  <1>11. ASSUME NEW p \in Procs, Release(p) PROVE OverIsEnded'
    BY <1>11 DEF Release
  <1>12. ASSUME NEW p \in Procs, Loop(p) PROVE OverIsEnded'
    <2>1. CASE Goes(p, "acquiring") /\ UNCHANGED <<run, services, runs>>
      BY <2>1, <1>12 DEF Loop
    <2>2. CASE Leaves(p, "exited") /\ UNCHANGED <<services, runs>>
      <3>1. run'[p] = 0 /\ \A q \in Procs \ {p} : run'[q] = run[q] /\ pc'[q] = pc[q]
        BY <2>2 DEF Leaves
      <3> QED
        BY <2>2, <3>1
    <2> QED
      BY <1>12, <2>1, <2>2 DEF Loop
  <1>13. ASSUME NEW p \in Procs, Launch(p) PROVE OverIsEnded'
    BY <1>13 DEF Launch
  <1>14. ASSUME NEW p \in Procs, WriteLiveFails(p) PROVE OverIsEnded'
    BY <1>14 DEF WriteLiveFails
  <1>15. ASSUME NEW p \in Procs, Interrupt(p) PROVE OverIsEnded'
    BY <1>15 DEF Interrupt
  <1>16. ASSUME NEW p \in Procs, Crash(p) PROVE OverIsEnded'
    BY <1>16 DEF Crash, Leaves
  <1>17. ASSUME NEW c \in Callers, ReadLive(c) PROVE OverIsEnded'
    BY <1>17 DEF ReadLive, Returns, Caller
  <1>18. ASSUME NEW c \in Callers, Dial(c) PROVE OverIsEnded'
    BY <1>18 DEF Dial, Returns, Caller, Listener
  <1>19. ASSUME NEW c \in Callers, HungUp(c) PROVE OverIsEnded'
    BY <1>19 DEF HungUp, Returns, Caller
  <1>20. ASSUME NEW c \in Callers, NEW op \in Operations, Handle(c, op) PROVE OverIsEnded'
    BY <1>20 DEF Handle, Returns, Caller, InTurn
  <1>21. ASSUME NEW n \in Runs, ServicesEnd(n) PROVE OverIsEnded'
    BY <1>21 DEF ServicesEnd
  <1>22. CASE UNCHANGED vars
    BY <1>22 DEF vars
  <1> HIDE DEF Typed, ProcsTyped, FilesTyped, RunTyped, InSession, FilesInv, LockIsHeld,
              Locked, SessionIsNewest, EndedInSession, SessionsDiffer,
              OverIsEnded
  <1> QED
    BY <1>1, <1>2, <1>3, <1>4, <1>5, <1>6, <1>7, <1>8, <1>9, <1>10, <1>11, <1>12, <1>13,
       <1>14, <1>15, <1>16, <1>17, <1>18, <1>19, <1>20, <1>21, <1>22
       DEF Next, Step, CleanupStep, Happens, Call, Ended

LEMMA NextGeneration == Typed /\ FilesInv /\ [Next]_vars => OneGeneration'
  <1> SUFFICES ASSUME Typed /\ FilesInv, [Next]_vars PROVE OneGeneration'
    OBVIOUS
  <1> USE DEF Typed, ProcsTyped, FilesTyped, RunTyped, InSession, FilesInv, LockIsHeld,
              Locked, SessionIsNewest, LiveIsHolders, RecordedIsInLive, Running, Alive,
              SessionsDiffer, OverIsEnded, OneGeneration
  <1>1. ASSUME NEW p \in Procs, Acquire(p) PROVE OneGeneration'
    BY <1>1 DEF Acquire, AnyProcessOf, Leaves
  <1>2. ASSUME NEW p \in Procs, PrepareFails(p) PROVE OneGeneration'
    BY <1>2 DEF PrepareFails
  <1>3. ASSUME NEW p \in Procs, StartControl(p) PROVE OneGeneration'
    BY <1>3 DEF StartControl
  <1>4. ASSUME NEW p \in Procs, Announce(p) PROVE OneGeneration'
    BY <1>4 DEF Announce, WriteLive
  <1>5. ASSUME NEW p \in Procs, StartServices(p) PROVE OneGeneration'
    <2>1. /\ pc[p] = "supervising" /\ run[p] \in Runs /\ run[p] = runs /\ lock = p
          /\ live # None /\ live.owner = p /\ live.run = run[p] /\ run' = run
          /\ services[run[p]] = "none"
          /\ services' = [services EXCEPT ![run[p]] = "started"]
      BY <1>5 DEF StartServices
    <2>2. SUFFICES ASSUME NEW m \in Runs, NEW n \in Runs, m < n,
                          services'[m] \in {"started", "recorded"},
                          services'[n] \in {"started", "recorded"}
                   PROVE  services'[m] = "started" /\ \A q \in Procs : run[q] # m
      BY <2>1
    <2>3. m # runs
      BY <2>1, <2>2
    <2>4. services'[m] = services[m]
      BY <2>1, <2>2, <2>3
    <2>5. services[m] = "started"
      BY <2>1, <2>2, <2>3, <2>4
    <2>6. ASSUME NEW q \in Procs, run[q] = m PROVE FALSE
      BY <2>2, <2>3, <2>5, <2>6
    <2> QED
      BY <2>4, <2>5, <2>6
  <1>6. ASSUME NEW p \in Procs, RecordServices(p) PROVE OneGeneration'
    BY <1>6 DEF RecordServices, WriteLive
  <1>7. ASSUME NEW p \in Procs, SupervisorReturns(p) PROVE OneGeneration'
    BY <1>7 DEF SupervisorReturns, NothingLeft, Running
  <1>8. ASSUME NEW p \in Procs, CloseControl(p) PROVE OneGeneration'
    BY <1>8 DEF CloseControl
  <1>9. ASSUME NEW p \in Procs, Summarise(p) PROVE OneGeneration'
    BY <1>9 DEF Summarise
  <1>10. ASSUME NEW p \in Procs, RemoveLive(p) PROVE OneGeneration'
    BY <1>10 DEF RemoveLive
  <1>11. ASSUME NEW p \in Procs, Release(p) PROVE OneGeneration'
    BY <1>11 DEF Release
  <1>12. ASSUME NEW p \in Procs, Loop(p) PROVE OneGeneration'
    BY <1>12 DEF Loop, Again, FlagReset, Leaves
  <1>13. ASSUME NEW p \in Procs, Launch(p) PROVE OneGeneration'
    BY <1>13 DEF Launch
  <1>14. ASSUME NEW p \in Procs, WriteLiveFails(p) PROVE OneGeneration'
    BY <1>14 DEF WriteLiveFails
  <1>15. ASSUME NEW p \in Procs, Interrupt(p) PROVE OneGeneration'
    BY <1>15 DEF Interrupt
  <1>16. ASSUME NEW p \in Procs, Crash(p) PROVE OneGeneration'
    BY <1>16 DEF Crash, Leaves
  <1>17. ASSUME NEW c \in Callers, ReadLive(c) PROVE OneGeneration'
    BY <1>17 DEF ReadLive, Returns, Caller
  <1>18. ASSUME NEW c \in Callers, Dial(c) PROVE OneGeneration'
    BY <1>18 DEF Dial, Returns, Caller, Listener
  <1>19. ASSUME NEW c \in Callers, HungUp(c) PROVE OneGeneration'
    BY <1>19 DEF HungUp, Returns, Caller
  <1>20. ASSUME NEW c \in Callers, NEW op \in Operations, Handle(c, op) PROVE OneGeneration'
    BY <1>20 DEF Handle, Returns, Caller, InTurn
  <1>21. ASSUME NEW n \in Runs, ServicesEnd(n) PROVE OneGeneration'
    BY <1>21 DEF ServicesEnd
  <1>22. CASE UNCHANGED vars
    BY <1>22 DEF vars
  <1> HIDE DEF Typed, ProcsTyped, FilesTyped, RunTyped, InSession, FilesInv, LockIsHeld,
              Locked, SessionIsNewest, LiveIsHolders, RecordedIsInLive, Running, Alive,
              SessionsDiffer, OverIsEnded, OneGeneration
  <1> QED
    BY <1>1, <1>2, <1>3, <1>4, <1>5, <1>6, <1>7, <1>8, <1>9, <1>10, <1>11, <1>12, <1>13,
       <1>14, <1>15, <1>16, <1>17, <1>18, <1>19, <1>20, <1>21, <1>22
       DEF Next, Step, CleanupStep, Happens, Call, Ended

LEMMA NextFiles == Typed /\ FilesInv /\ [Next]_vars => FilesInv'
  BY NextLock, NextNewest, NextLive, NextRecorded, NextEnded, NextDiffer, NextOver,
     NextGeneration DEF FilesInv

-----------------------------------------------------------------------------
(* The turns of Run                                                        *)

LEMMA InitTurns == Init => TurnInv
  BY DEF Init, TurnInv, FlagOfTurn, LateIsRestarted, StopIsFinal, Stopped, Executed

LEMMA NextFlag == Typed /\ TurnInv /\ [Next]_vars => FlagOfTurn'
  <1> SUFFICES ASSUME Typed /\ TurnInv, [Next]_vars PROVE FlagOfTurn'
    OBVIOUS
  <1> USE DEF Typed, ProcsTyped, CallersTyped, CallerRecord, TurnInv, Operations, InTurn,
              Alive, Positions, FlagOfTurn, Executed
  <1>1. ASSUME NEW p \in Procs, Acquire(p) PROVE FlagOfTurn'
    BY <1>1 DEF Acquire, AnyProcessOf, Leaves
  <1>2. ASSUME NEW p \in Procs, PrepareFails(p) PROVE FlagOfTurn'
    BY <1>2 DEF PrepareFails
  <1>3. ASSUME NEW p \in Procs, StartControl(p) PROVE FlagOfTurn'
    BY <1>3 DEF StartControl
  <1>4. ASSUME NEW p \in Procs, Announce(p) PROVE FlagOfTurn'
    BY <1>4 DEF Announce, WriteLive
  <1>5. ASSUME NEW p \in Procs, StartServices(p) PROVE FlagOfTurn'
    BY <1>5 DEF StartServices
  <1>6. ASSUME NEW p \in Procs, RecordServices(p) PROVE FlagOfTurn'
    BY <1>6 DEF RecordServices, WriteLive
  <1>7. ASSUME NEW p \in Procs, SupervisorReturns(p) PROVE FlagOfTurn'
    BY <1>7 DEF SupervisorReturns, NothingLeft, Running
  <1>8. ASSUME NEW p \in Procs, CloseControl(p) PROVE FlagOfTurn'
    BY <1>8 DEF CloseControl
  <1>9. ASSUME NEW p \in Procs, Summarise(p) PROVE FlagOfTurn'
    BY <1>9 DEF Summarise
  <1>10. ASSUME NEW p \in Procs, RemoveLive(p) PROVE FlagOfTurn'
    BY <1>10 DEF RemoveLive
  <1>11. ASSUME NEW p \in Procs, Release(p) PROVE FlagOfTurn'
    BY <1>11 DEF Release
  <1>12. ASSUME NEW p \in Procs, Loop(p) PROVE FlagOfTurn'
    BY <1>12 DEF Loop, Again, FlagReset, Leaves
  <1>13. ASSUME NEW p \in Procs, Launch(p) PROVE FlagOfTurn'
    BY <1>13 DEF Launch
  <1>14. ASSUME NEW p \in Procs, WriteLiveFails(p) PROVE FlagOfTurn'
    BY <1>14 DEF WriteLiveFails
  <1>15. ASSUME NEW p \in Procs, Interrupt(p) PROVE FlagOfTurn'
    BY <1>15 DEF Interrupt
  <1>16. ASSUME NEW p \in Procs, Crash(p) PROVE FlagOfTurn'
    BY <1>16 DEF Crash, Leaves
  <1>17. ASSUME NEW c \in Callers, ReadLive(c) PROVE FlagOfTurn'
    BY <1>17 DEF ReadLive, Returns, Caller
  <1>18. ASSUME NEW c \in Callers, Dial(c) PROVE FlagOfTurn'
    BY <1>18 DEF Dial, Returns, Caller, Listener
  <1>19. ASSUME NEW c \in Callers, HungUp(c) PROVE FlagOfTurn'
    BY <1>19 DEF HungUp, Returns, Caller
  <1>20. ASSUME NEW c \in Callers, NEW op \in Operations, Handle(c, op) PROVE FlagOfTurn'
    <2>0. PICK q \in Procs, n \in Runs : q = caller[c].by /\ n = caller[c].at
      BY <1>20 DEF Handle, Typed, CallersTyped
    <2>1. q \in Procs /\ n \in Runs /\ run' = run /\ pc' = pc
      BY <1>20 DEF Handle
    <2>2. CASE UNCHANGED <<restart, executed>>
      BY <2>1, <2>2 DEF TurnInv, FlagOfTurn, Executed
    <2>3. CASE /\ executed' = executed \cup
                     {[run |-> n, op |-> op, token |-> caller[c].token, by |-> q]}
               /\ restart' = [restart EXCEPT ![q] = @ \/ (InTurn(q, n) /\ op = "restart")]
      <3>1. ASSUME NEW p \in Procs, restart'[p]
            PROVE  restart[p] \/ (p = q /\ InTurn(q, n) /\ op = "restart")
        BY <2>1, <2>3, <3>1 DEF Typed, ProcsTyped
      <3>2. \A p \in Procs : restart[p] => Executed(p, run[p], "restart")'
        BY <2>1, <2>3 DEF TurnInv, FlagOfTurn, Executed
      <3>3. ASSUME InTurn(q, n), op = "restart" PROVE Executed(q, run[q], "restart")'
        <4> DEFINE e == [run |-> n, op |-> op, token |-> caller[c].token, by |-> q]
        <4>1. e \in executed' /\ e.by = q /\ e.run = run'[q] /\ e.op = "restart"
          BY <2>1, <2>3, <3>3 DEF InTurn
        <4> HIDE DEF e
        <4> QED
          BY <4>1 DEF Executed
      <3>4. \A p \in Procs : pc[p] \in {"off", "acquiring", "preparing"} => ~restart'[p]
        <4>1. pc[q] # "off"
          BY <1>20, <2>0 DEF Handle, Alive
        <4> QED
          BY <2>1, <3>1, <4>1 DEF TurnInv, FlagOfTurn, InTurn
      <3>5. \A p \in Procs : restart'[p] => Executed(p, run[p], "restart")'
        <4>1. ASSUME NEW p \in Procs, restart'[p] PROVE Executed(p, run[p], "restart")'
          <5>1. CASE restart[p]
            BY <5>1, <3>2
          <5>2. CASE p = q /\ InTurn(q, n) /\ op = "restart"
            BY <5>2, <3>3
          <5> QED
            BY <3>1, <4>1, <5>1, <5>2
        <4> QED
          BY <4>1
      <3> QED
        BY <2>1, <3>4, <3>5 DEF FlagOfTurn
    <2> QED
      BY <1>20, <2>0, <2>2, <2>3 DEF Handle
  <1>21. ASSUME NEW n \in Runs, ServicesEnd(n) PROVE FlagOfTurn'
    BY <1>21 DEF ServicesEnd, Running
  <1>22. CASE UNCHANGED vars
    BY <1>22 DEF vars
  <1> HIDE DEF Typed, ProcsTyped, CallersTyped, CallerRecord, TurnInv, Operations, InTurn,
              Alive, Positions, FlagOfTurn, Executed
  <1> QED
    BY <1>1, <1>2, <1>3, <1>4, <1>5, <1>6, <1>7, <1>8, <1>9, <1>10, <1>11, <1>12, <1>13,
       <1>14, <1>15, <1>16, <1>17, <1>18, <1>19, <1>20, <1>21, <1>22
       DEF Next, Step, CleanupStep, Happens, Call, Ended

LEMMA NextLate == Typed /\ TurnInv /\ [Next]_vars => LateIsRestarted'
  <1> SUFFICES ASSUME Typed /\ TurnInv, [Next]_vars PROVE LateIsRestarted'
    OBVIOUS
  <1> USE DEF Typed, ProcsTyped, CallersTyped, CallerRecord, TurnInv, Operations, InTurn,
              Alive, Positions, FlagOfTurn, LateIsRestarted, Executed
  <1>1. ASSUME NEW p \in Procs, Acquire(p) PROVE LateIsRestarted'
    BY <1>1 DEF Acquire, AnyProcessOf, Leaves
  <1>2. ASSUME NEW p \in Procs, PrepareFails(p) PROVE LateIsRestarted'
    BY <1>2 DEF PrepareFails
  <1>3. ASSUME NEW p \in Procs, StartControl(p) PROVE LateIsRestarted'
    BY <1>3 DEF StartControl
  <1>4. ASSUME NEW p \in Procs, Announce(p) PROVE LateIsRestarted'
    BY <1>4 DEF Announce, WriteLive
  <1>5. ASSUME NEW p \in Procs, StartServices(p) PROVE LateIsRestarted'
    BY <1>5 DEF StartServices
  <1>6. ASSUME NEW p \in Procs, RecordServices(p) PROVE LateIsRestarted'
    BY <1>6 DEF RecordServices, WriteLive
  <1>7. ASSUME NEW p \in Procs, SupervisorReturns(p) PROVE LateIsRestarted'
    BY <1>7 DEF SupervisorReturns, NothingLeft, Running
  <1>8. ASSUME NEW p \in Procs, CloseControl(p) PROVE LateIsRestarted'
    BY <1>8 DEF CloseControl
  <1>9. ASSUME NEW p \in Procs, Summarise(p) PROVE LateIsRestarted'
    BY <1>9 DEF Summarise
  <1>10. ASSUME NEW p \in Procs, RemoveLive(p) PROVE LateIsRestarted'
    BY <1>10 DEF RemoveLive
  <1>11. ASSUME NEW p \in Procs, Release(p) PROVE LateIsRestarted'
    BY <1>11 DEF Release
  <1>12. ASSUME NEW p \in Procs, Loop(p) PROVE LateIsRestarted'
    BY <1>12 DEF Loop, Again, FlagReset, Leaves
  <1>13. ASSUME NEW p \in Procs, Launch(p) PROVE LateIsRestarted'
    BY <1>13 DEF Launch
  <1>14. ASSUME NEW p \in Procs, WriteLiveFails(p) PROVE LateIsRestarted'
    BY <1>14 DEF WriteLiveFails
  <1>15. ASSUME NEW p \in Procs, Interrupt(p) PROVE LateIsRestarted'
    BY <1>15 DEF Interrupt
  <1>16. ASSUME NEW p \in Procs, Crash(p) PROVE LateIsRestarted'
    BY <1>16 DEF Crash, Leaves
  <1>17. ASSUME NEW c \in Callers, ReadLive(c) PROVE LateIsRestarted'
    BY <1>17 DEF ReadLive, Returns, Caller
  <1>18. ASSUME NEW c \in Callers, Dial(c) PROVE LateIsRestarted'
    BY <1>18 DEF Dial, Returns, Caller, Listener
  <1>19. ASSUME NEW c \in Callers, HungUp(c) PROVE LateIsRestarted'
    BY <1>19 DEF HungUp, Returns, Caller
  <1>20. ASSUME NEW c \in Callers, NEW op \in Operations, Handle(c, op) PROVE LateIsRestarted'
    BY <1>20 DEF Handle, Returns, Caller
  <1>21. ASSUME NEW n \in Runs, ServicesEnd(n) PROVE LateIsRestarted'
    BY <1>21 DEF ServicesEnd, Running
  <1>22. CASE UNCHANGED vars
    BY <1>22 DEF vars
  <1> HIDE DEF Typed, ProcsTyped, CallersTyped, CallerRecord, TurnInv, Operations, InTurn,
              Alive, Positions, FlagOfTurn, LateIsRestarted, Executed
  <1> QED
    BY <1>1, <1>2, <1>3, <1>4, <1>5, <1>6, <1>7, <1>8, <1>9, <1>10, <1>11, <1>12, <1>13,
       <1>14, <1>15, <1>16, <1>17, <1>18, <1>19, <1>20, <1>21, <1>22
       DEF Next, Step, CleanupStep, Happens, Call, Ended

LEMMA NextStop == Typed /\ TurnInv /\ [Next]_vars => StopIsFinal'
  <1> SUFFICES ASSUME Typed /\ TurnInv, [Next]_vars PROVE StopIsFinal'
    OBVIOUS
  <1> USE DEF Typed, ProcsTyped, CallersTyped, CallerRecord, TurnInv, Operations, InTurn,
              Alive, Positions, FlagOfTurn, LateIsRestarted, StopIsFinal, Stopped,
              Executed
  <1>1. ASSUME NEW p \in Procs, Acquire(p) PROVE StopIsFinal'
    BY <1>1 DEF Acquire, AnyProcessOf, Leaves
  <1>2. ASSUME NEW p \in Procs, PrepareFails(p) PROVE StopIsFinal'
    BY <1>2 DEF PrepareFails
  <1>3. ASSUME NEW p \in Procs, StartControl(p) PROVE StopIsFinal'
    BY <1>3 DEF StartControl
  <1>4. ASSUME NEW p \in Procs, Announce(p) PROVE StopIsFinal'
    BY <1>4 DEF Announce, WriteLive
  <1>5. ASSUME NEW p \in Procs, StartServices(p) PROVE StopIsFinal'
    BY <1>5 DEF StartServices
  <1>6. ASSUME NEW p \in Procs, RecordServices(p) PROVE StopIsFinal'
    BY <1>6 DEF RecordServices, WriteLive
  <1>7. ASSUME NEW p \in Procs, SupervisorReturns(p) PROVE StopIsFinal'
    BY <1>7 DEF SupervisorReturns, NothingLeft, Running
  <1>8. ASSUME NEW p \in Procs, CloseControl(p) PROVE StopIsFinal'
    BY <1>8 DEF CloseControl
  <1>9. ASSUME NEW p \in Procs, Summarise(p) PROVE StopIsFinal'
    BY <1>9 DEF Summarise
  <1>10. ASSUME NEW p \in Procs, RemoveLive(p) PROVE StopIsFinal'
    BY <1>10 DEF RemoveLive
  <1>11. ASSUME NEW p \in Procs, Release(p) PROVE StopIsFinal'
    BY <1>11 DEF Release
  <1>12. ASSUME NEW p \in Procs, Loop(p) PROVE StopIsFinal'
    BY <1>12 DEF Loop, Again, FlagReset, Leaves
  <1>13. ASSUME NEW p \in Procs, Launch(p) PROVE StopIsFinal'
    BY <1>13 DEF Launch
  <1>14. ASSUME NEW p \in Procs, WriteLiveFails(p) PROVE StopIsFinal'
    BY <1>14 DEF WriteLiveFails
  <1>15. ASSUME NEW p \in Procs, Interrupt(p) PROVE StopIsFinal'
    BY <1>15 DEF Interrupt
  <1>16. ASSUME NEW p \in Procs, Crash(p) PROVE StopIsFinal'
    BY <1>16 DEF Crash, Leaves
  <1>17. ASSUME NEW c \in Callers, ReadLive(c) PROVE StopIsFinal'
    BY <1>17 DEF ReadLive, Returns, Caller
  <1>18. ASSUME NEW c \in Callers, Dial(c) PROVE StopIsFinal'
    BY <1>18 DEF Dial, Returns, Caller, Listener
  <1>19. ASSUME NEW c \in Callers, HungUp(c) PROVE StopIsFinal'
    BY <1>19 DEF HungUp, Returns, Caller
  <1>20. ASSUME NEW c \in Callers, NEW op \in Operations, Handle(c, op) PROVE StopIsFinal'
    BY <1>20 DEF Handle, Returns, Caller
  <1>21. ASSUME NEW n \in Runs, ServicesEnd(n) PROVE StopIsFinal'
    BY <1>21 DEF ServicesEnd, Running
  <1>22. CASE UNCHANGED vars
    BY <1>22 DEF vars
  <1> HIDE DEF Typed, ProcsTyped, CallersTyped, CallerRecord, TurnInv, Operations, InTurn,
              Alive, Positions, FlagOfTurn, LateIsRestarted, StopIsFinal, Stopped,
              Executed
  <1> QED
    BY <1>1, <1>2, <1>3, <1>4, <1>5, <1>6, <1>7, <1>8, <1>9, <1>10, <1>11, <1>12, <1>13,
       <1>14, <1>15, <1>16, <1>17, <1>18, <1>19, <1>20, <1>21, <1>22
       DEF Next, Step, CleanupStep, Happens, Call, Ended

LEMMA NextCause == Typed /\ CancelledForCause /\ [Next]_vars => CancelledForCause'
  <1> SUFFICES ASSUME Typed /\ CancelledForCause, [Next]_vars PROVE CancelledForCause'
    OBVIOUS
  <1> USE DEF Typed, ProcsTyped, CallersTyped, CallerRecord, Operations, InTurn, Alive,
              Positions, CancelledForCause, Executed
  <1>1. ASSUME NEW p \in Procs, Acquire(p) PROVE CancelledForCause'
    BY <1>1 DEF Acquire, AnyProcessOf, Leaves
  <1>2. ASSUME NEW p \in Procs, PrepareFails(p) PROVE CancelledForCause'
    BY <1>2 DEF PrepareFails
  <1>3. ASSUME NEW p \in Procs, StartControl(p) PROVE CancelledForCause'
    BY <1>3 DEF StartControl
  <1>4. ASSUME NEW p \in Procs, Announce(p) PROVE CancelledForCause'
    BY <1>4 DEF Announce, WriteLive
  <1>5. ASSUME NEW p \in Procs, StartServices(p) PROVE CancelledForCause'
    BY <1>5 DEF StartServices
  <1>6. ASSUME NEW p \in Procs, RecordServices(p) PROVE CancelledForCause'
    BY <1>6 DEF RecordServices, WriteLive
  <1>7. ASSUME NEW p \in Procs, SupervisorReturns(p) PROVE CancelledForCause'
    BY <1>7 DEF SupervisorReturns, NothingLeft, Running
  <1>8. ASSUME NEW p \in Procs, CloseControl(p) PROVE CancelledForCause'
    BY <1>8 DEF CloseControl
  <1>9. ASSUME NEW p \in Procs, Summarise(p) PROVE CancelledForCause'
    BY <1>9 DEF Summarise
  <1>10. ASSUME NEW p \in Procs, RemoveLive(p) PROVE CancelledForCause'
    BY <1>10 DEF RemoveLive
  <1>11. ASSUME NEW p \in Procs, Release(p) PROVE CancelledForCause'
    BY <1>11 DEF Release
  <1>12. ASSUME NEW p \in Procs, Loop(p) PROVE CancelledForCause'
    BY <1>12 DEF Loop, Again, FlagReset, Leaves
  <1>13. ASSUME NEW p \in Procs, Launch(p) PROVE CancelledForCause'
    BY <1>13 DEF Launch
  <1>14. ASSUME NEW p \in Procs, WriteLiveFails(p) PROVE CancelledForCause'
    BY <1>14 DEF WriteLiveFails
  <1>15. ASSUME NEW p \in Procs, Interrupt(p) PROVE CancelledForCause'
    BY <1>15 DEF Interrupt
  <1>16. ASSUME NEW p \in Procs, Crash(p) PROVE CancelledForCause'
    BY <1>16 DEF Crash, Leaves
  <1>17. ASSUME NEW c \in Callers, ReadLive(c) PROVE CancelledForCause'
    BY <1>17 DEF ReadLive, Returns, Caller
  <1>18. ASSUME NEW c \in Callers, Dial(c) PROVE CancelledForCause'
    BY <1>18 DEF Dial, Returns, Caller, Listener
  <1>19. ASSUME NEW c \in Callers, HungUp(c) PROVE CancelledForCause'
    BY <1>19 DEF HungUp, Returns, Caller
  <1>20. ASSUME NEW c \in Callers, NEW op \in Operations, Handle(c, op) PROVE CancelledForCause'
    <2>0. PICK q \in Procs, n \in Runs : q = caller[c].by /\ n = caller[c].at
      BY <1>20 DEF Handle, Typed, CallersTyped
    <2>1. UNCHANGED <<pc, run, failed, interrupt>>
      BY <1>20 DEF Handle
    <2>2. CASE UNCHANGED <<cancelled, executed>>
      BY <2>1, <2>2
    <2>3. CASE /\ executed' = executed \cup
                     {[run |-> n, op |-> op, token |-> caller[c].token, by |-> q]}
               /\ cancelled' = [cancelled EXCEPT ![q] = @ \/ InTurn(q, n)]
      <3>1. ASSUME NEW p \in Procs, cancelled'[p] PROVE cancelled[p] \/ (p = q /\ InTurn(q, n))
        BY <2>3, <3>1 DEF Typed, ProcsTyped
      <3>2. ASSUME NEW p \in Procs, NEW o \in Operations, Executed(p, run[p], o)
            PROVE  Executed(p, run[p], o)'
        BY <2>1, <2>3, <3>2
      <3>3. ASSUME InTurn(q, n), pc[q] # "off"
            PROVE  pc[q] \notin {"off", "acquiring", "preparing"} /\ Executed(q, run[q], op)'
        <4> DEFINE e == [run |-> n, op |-> op, token |-> caller[c].token, by |-> q]
        <4>1. e \in executed' /\ e.by = q /\ e.run = run'[q] /\ e.op = op
          BY <2>1, <2>3, <3>3 DEF InTurn
        <4> HIDE DEF e
        <4> QED
          BY <3>3, <4>1 DEF Executed, InTurn
      <3>4. pc[q] # "off"
        BY <1>20, <2>0 DEF Handle, Alive
      <3> HIDE DEF Executed, InTurn
      <3> QED
        BY <2>1, <3>1, <3>2, <3>3, <3>4 DEF CancelledForCause
    <2> QED
      BY <1>20, <2>0, <2>2, <2>3 DEF Handle
  <1>21. ASSUME NEW n \in Runs, ServicesEnd(n) PROVE CancelledForCause'
    BY <1>21 DEF ServicesEnd
  <1>22. CASE UNCHANGED vars
    BY <1>22 DEF vars
  <1> HIDE DEF Typed, ProcsTyped, CallersTyped, CallerRecord, Operations, InTurn, Alive,
              Positions, CancelledForCause, Executed
  <1> QED
    BY <1>1, <1>2, <1>3, <1>4, <1>5, <1>6, <1>7, <1>8, <1>9, <1>10, <1>11, <1>12, <1>13,
       <1>14, <1>15, <1>16, <1>17, <1>18, <1>19, <1>20, <1>21, <1>22
       DEF Next, Step, CleanupStep, Happens, Call, Ended

LEMMA NextTurns == Typed /\ TurnInv /\ [Next]_vars => TurnInv'
  BY NextFlag, NextLate, NextStop DEF TurnInv

-----------------------------------------------------------------------------
(* The promise of Worktree                                                 *)

(* A process that comes back for the lock was told to restart the session  *)
(* it had.                                                                 *)
AgainIsTold ==
    \A p \in Procs :
        /\ pc[p] = "off" => run[p] = 0
        /\ pc[p] = "acquiring" => run[p] = 0 \/ run[p] \in Told

(* The control path, and a connection, lead to sessions that have begun.   *)
NoneToCome == socket <= runs /\ \A c \in Callers : caller[c].at <= runs

LEMMA ToldGrows == [Next]_vars => Told \subseteq Told'
  <1>1. executed \subseteq executed' => Told \subseteq Told'
    BY DEF Told
  <1>2. ASSUME NEW c \in Callers, NEW op \in Operations, Handle(c, op)
        PROVE  executed \subseteq executed'
    BY <1>2 DEF Handle
  <1>3. CASE UNCHANGED executed
    BY <1>3, <1>1
  <1> HIDE DEF Told
  <1> QED
    BY <1>1, <1>2, <1>3
       DEF Next, Step, CleanupStep, Happens, Call, Ended, vars, Acquire, PrepareFails,
           StartControl, Announce, StartServices, RecordServices, SupervisorReturns,
           CloseControl, Summarise, RemoveLive, Release, Loop, Launch, WriteLiveFails,
           Interrupt, Crash, ReadLive, Dial, HungUp, ServicesEnd

LEMMA NextAgain == Typed /\ TurnInv /\ AgainIsTold /\ [Next]_vars => AgainIsTold'
  <1> SUFFICES ASSUME Typed, TurnInv, AgainIsTold, [Next]_vars PROVE AgainIsTold'
    OBVIOUS
  <1>0. Told \subseteq Told'
    BY ToldGrows
  <1> USE <1>0 DEF Typed, ProcsTyped, Positions, AgainIsTold
  <1> HIDE DEF Told
  <1>1. ASSUME NEW p \in Procs, Acquire(p) PROVE AgainIsTold'
    BY <1>1 DEF Acquire, AnyProcessOf, Leaves
  <1>2. ASSUME NEW p \in Procs, PrepareFails(p) PROVE AgainIsTold'
    BY <1>2 DEF PrepareFails
  <1>3. ASSUME NEW p \in Procs, StartControl(p) PROVE AgainIsTold'
    BY <1>3 DEF StartControl
  <1>4. ASSUME NEW p \in Procs, Announce(p) PROVE AgainIsTold'
    BY <1>4 DEF Announce, WriteLive
  <1>5. ASSUME NEW p \in Procs, StartServices(p) PROVE AgainIsTold'
    BY <1>5 DEF StartServices
  <1>6. ASSUME NEW p \in Procs, RecordServices(p) PROVE AgainIsTold'
    BY <1>6 DEF RecordServices, WriteLive
  <1>7. ASSUME NEW p \in Procs, SupervisorReturns(p) PROVE AgainIsTold'
    BY <1>7 DEF SupervisorReturns, NothingLeft, Running
  <1>8. ASSUME NEW p \in Procs, CloseControl(p) PROVE AgainIsTold'
    BY <1>8 DEF CloseControl
  <1>9. ASSUME NEW p \in Procs, Summarise(p) PROVE AgainIsTold'
    BY <1>9 DEF Summarise
  <1>10. ASSUME NEW p \in Procs, RemoveLive(p) PROVE AgainIsTold'
    BY <1>10 DEF RemoveLive
  <1>11. ASSUME NEW p \in Procs, Release(p) PROVE AgainIsTold'
    BY <1>11 DEF Release
  <1>12. ASSUME NEW p \in Procs, Loop(p) PROVE AgainIsTold'
    <2>1. Again(p) => run[p] \in Told
      BY DEF Again, TurnInv, FlagOfTurn, Executed, Told
    <2> QED
      BY <1>12, <2>1 DEF Loop, FlagReset, Leaves
  <1>13. ASSUME NEW p \in Procs, Launch(p) PROVE AgainIsTold'
    BY <1>13 DEF Launch
  <1>14. ASSUME NEW p \in Procs, WriteLiveFails(p) PROVE AgainIsTold'
    BY <1>14 DEF WriteLiveFails
  <1>15. ASSUME NEW p \in Procs, Interrupt(p) PROVE AgainIsTold'
    BY <1>15 DEF Interrupt
  <1>16. ASSUME NEW p \in Procs, Crash(p) PROVE AgainIsTold'
    BY <1>16 DEF Crash, Leaves
  <1>17. ASSUME NEW c \in Callers, ReadLive(c) PROVE AgainIsTold'
    BY <1>17 DEF ReadLive, Returns, Caller
  <1>18. ASSUME NEW c \in Callers, Dial(c) PROVE AgainIsTold'
    BY <1>18 DEF Dial, Returns, Caller, Listener
  <1>19. ASSUME NEW c \in Callers, HungUp(c) PROVE AgainIsTold'
    BY <1>19 DEF HungUp, Returns, Caller
  <1>20. ASSUME NEW c \in Callers, NEW op \in Operations, Handle(c, op) PROVE AgainIsTold'
    BY <1>20 DEF Handle, Returns, Caller
  <1>21. ASSUME NEW n \in Runs, ServicesEnd(n) PROVE AgainIsTold'
    BY <1>21 DEF ServicesEnd, Running
  <1>22. CASE UNCHANGED vars
    BY <1>22 DEF vars
  <1> HIDE DEF Typed, ProcsTyped, Positions, AgainIsTold
  <1> QED
    BY <1>1, <1>2, <1>3, <1>4, <1>5, <1>6, <1>7, <1>8, <1>9, <1>10, <1>11, <1>12, <1>13,
       <1>14, <1>15, <1>16, <1>17, <1>18, <1>19, <1>20, <1>21, <1>22
       DEF Next, Step, CleanupStep, Happens, Call, Ended

LEMMA NextPast == Typed /\ FilesInv /\ NoneToCome /\ [Next]_vars => NoneToCome'
  <1> SUFFICES ASSUME Typed, FilesInv, NoneToCome, [Next]_vars PROVE NoneToCome'
    OBVIOUS
  <1> USE DEF Typed, FilesTyped, CallersTyped, CallerRecord, NoneToCome
  <1>1. ASSUME NEW p \in Procs, Acquire(p) PROVE NoneToCome'
    BY <1>1 DEF Acquire, AnyProcessOf, Leaves
  <1>2. ASSUME NEW p \in Procs, PrepareFails(p) PROVE NoneToCome'
    BY <1>2 DEF PrepareFails
  <1>3. ASSUME NEW p \in Procs, StartControl(p) PROVE NoneToCome'
    BY <1>3 DEF StartControl
  <1>4. ASSUME NEW p \in Procs, Announce(p) PROVE NoneToCome'
    BY <1>4 DEF Announce, WriteLive
  <1>5. ASSUME NEW p \in Procs, StartServices(p) PROVE NoneToCome'
    BY <1>5 DEF StartServices
  <1>6. ASSUME NEW p \in Procs, RecordServices(p) PROVE NoneToCome'
    BY <1>6 DEF RecordServices, WriteLive
  <1>7. ASSUME NEW p \in Procs, SupervisorReturns(p) PROVE NoneToCome'
    BY <1>7 DEF SupervisorReturns, NothingLeft, Running
  <1>8. ASSUME NEW p \in Procs, CloseControl(p) PROVE NoneToCome'
    BY <1>8 DEF CloseControl
  <1>9. ASSUME NEW p \in Procs, Summarise(p) PROVE NoneToCome'
    BY <1>9 DEF Summarise
  <1>10. ASSUME NEW p \in Procs, RemoveLive(p) PROVE NoneToCome'
    BY <1>10 DEF RemoveLive
  <1>11. ASSUME NEW p \in Procs, Release(p) PROVE NoneToCome'
    BY <1>11 DEF Release
  <1>12. ASSUME NEW p \in Procs, Loop(p) PROVE NoneToCome'
    BY <1>12 DEF Loop, Again, FlagReset, Leaves
  <1>13. ASSUME NEW p \in Procs, Launch(p) PROVE NoneToCome'
    BY <1>13 DEF Launch
  <1>14. ASSUME NEW p \in Procs, WriteLiveFails(p) PROVE NoneToCome'
    BY <1>14 DEF WriteLiveFails
  <1>15. ASSUME NEW p \in Procs, Interrupt(p) PROVE NoneToCome'
    BY <1>15 DEF Interrupt
  <1>16. ASSUME NEW p \in Procs, Crash(p) PROVE NoneToCome'
    BY <1>16 DEF Crash, Leaves
  <1>17. ASSUME NEW c \in Callers, ReadLive(c) PROVE NoneToCome'
    <2>1. PICK k : k.at = 0 /\ caller' = [caller EXCEPT ![c] = k]
      BY <1>17 DEF ReadLive, Returns, Caller
    <2> QED
      BY <1>17, <2>1 DEF ReadLive
  <1>18. ASSUME NEW c \in Callers, Dial(c) PROVE NoneToCome'
    BY <1>18 DEF Dial, Returns, Caller, Listener
  <1>19. ASSUME NEW c \in Callers, HungUp(c) PROVE NoneToCome'
    BY <1>19 DEF HungUp, Returns, Caller
  <1>20. ASSUME NEW c \in Callers, NEW op \in Operations, Handle(c, op) PROVE NoneToCome'
    <2>1. PICK k : k.at = 0 /\ caller' = [caller EXCEPT ![c] = k]
      BY <1>20 DEF Handle, Returns, Caller
    <2> QED
      BY <1>20, <2>1 DEF Handle
  <1>21. ASSUME NEW n \in Runs, ServicesEnd(n) PROVE NoneToCome'
    BY <1>21 DEF ServicesEnd, Running
  <1>22. CASE UNCHANGED vars
    BY <1>22 DEF vars
  <1> HIDE DEF Typed, FilesTyped, CallersTyped, CallerRecord, NoneToCome
  <1> QED
    BY <1>1, <1>2, <1>3, <1>4, <1>5, <1>6, <1>7, <1>8, <1>9, <1>10, <1>11, <1>12, <1>13,
       <1>14, <1>15, <1>16, <1>17, <1>18, <1>19, <1>20, <1>21, <1>22
       DEF Next, Step, CleanupStep, Happens, Call, Ended

(* A process that ends, and one that goes on.                              *)
LEMMA GoneGrows ==
    ASSUME ProcsTyped, NEW p \in Procs, Alive(p) \/ pc[p] = "off",
           NEW how \in {"exited", "crashed"}, Leaves(p, how)
    PROVE  p \notin Gone /\ Gone' = Gone \cup {p} /\ run' = [run EXCEPT ![p] = 0]
  BY DEF ProcsTyped, Leaves, Gone, Alive

LEMMA GoneKept ==
    ASSUME ProcsTyped, NEW p \in Procs, pc[p] \notin {"exited", "crashed"},
           NEW to, to \notin {"exited", "crashed"}, Goes(p, to)
    PROVE  Gone' = Gone
  BY DEF ProcsTyped, Gone

LEMMA StageKept ==
    ASSUME ProcsTyped, NEW p \in Procs, lock # p, lock' = lock, lock \in Procs \cup {None},
           NEW to, Goes(p, to)
    PROVE  Stage' = Stage
  BY DEF ProcsTyped, Stage

LEMMA StageOfHolder ==
    ASSUME FilesInv, NEW p \in Procs, pc[p] \in Locked
    PROVE  /\ lock = p
           /\ pc[p] = "preparing" => Stage = "taken"
           /\ pc[p] \in InSession => Stage = "open"
           /\ pc[p] = "releasing" => Stage = "over"
  BY DEF FilesInv, LockIsHeld, Locked, InSession, Stage

PromiseVars == <<lock, Stage, run, runs, services, Shown, Told, Gone>>

(* The record of a live file is not "no live file".                        *)
LEMMA WrittenIsShown ==
    ASSUME Typed, NEW p \in Procs, pc[p] \in InSession, NEW b \in BOOLEAN, WriteLive(p, b)
    PROVE  Shown' = run[p]
  <1>1. run[p] \in Runs
    BY DEF Typed, RunTyped
  <1> QED
    BY <1>1, WrittenIsOwn DEF Shown

(* Each step keeps a part of the promise, or does not show.                *)
LEMMA StepsKeepThePromise ==
    ASSUME Typed, FilesInv, FilesInv', TurnInv, AgainIsTold, NoneToCome, [Next]_vars
    PROVE  Promise!Next \/ UNCHANGED PromiseVars
  <1> USE DEF Typed, ProcsTyped, FilesTyped, Locked, InSession
  <1>1. ASSUME NEW p \in Procs, Acquire(p) PROVE Promise!Take(p) \/ Promise!Go(p)
    <2>1. pc[p] = "acquiring" /\ lock # p /\ Told' = Told
      BY <1>1 DEF Acquire, FilesInv, LockIsHeld, Told
    <2>2. CASE lock = None /\ (live = None \/ ~AnyProcessOf(live))
      <3>1. /\ Goes(p, "preparing") /\ lock' = p /\ live' = None
            /\ UNCHANGED <<run, services, runs>>
        BY <1>1, <2>2 DEF Acquire
      <3>2. \A n \in Runs : services[n] # "recorded"
        BY <2>2 DEF FilesInv, RecordedIsInLive, AnyProcessOf, Running
      <3>3. Gone' = Gone /\ p \notin Gone
        BY <2>1, <3>1, GoneKept DEF Gone
      <3>4. run[p] = 0 \/ run[p] \in Told
        BY <2>1 DEF AgainIsTold
      <3>5. Stage' = "taken" /\ Shown' = 0
        BY <3>1 DEF Stage, Shown
      <3> QED
        BY <2>1, <2>2, <3>1, <3>2, <3>3, <3>4, <3>5 DEF Promise!Take
    <2>3. CASE ~(lock = None /\ (live = None \/ ~AnyProcessOf(live)))
      <3>1. /\ Leaves(p, "exited") /\ UNCHANGED <<lock, live, runs, services>>
        BY <1>1, <2>3 DEF Acquire
      <3>2. p \notin Gone /\ Gone' = Gone \cup {p} /\ run' = [run EXCEPT ![p] = 0]
        BY <2>1, <3>1, GoneGrows DEF Alive
      <3>3. Stage' = Stage /\ Shown' = Shown
        BY <2>1, <3>1, StageKept DEF Leaves, Shown
      <3> QED
        BY <2>1, <3>1, <3>2, <3>3 DEF Promise!Go
    <2> QED
      BY <2>2, <2>3
  <1>2. ASSUME NEW p \in Procs, PrepareFails(p) PROVE Promise!Close(p)
    <2>1. /\ pc[p] = "preparing" /\ Goes(p, "releasing")
          /\ UNCHANGED <<run, services, runs, lock, live, executed>>
      BY <1>2 DEF PrepareFails
    <2>2. lock = p /\ Stage = "taken" /\ Stage' = "over"
      BY <2>1, StageOfHolder DEF Stage
    <2>3. Shown' = Shown /\ Told' = Told /\ Gone' = Gone
      BY <2>1, GoneKept DEF Shown, Told
    <2> QED
      BY <2>1, <2>2, <2>3 DEF Promise!Close
  <1>3. ASSUME NEW p \in Procs, StartControl(p) PROVE Promise!Begin(p)
    <2>1. /\ pc[p] = "preparing" /\ Goes(p, "controlled") /\ runs < MaxRuns
          /\ runs' = runs + 1 /\ run' = [run EXCEPT ![p] = runs + 1]
          /\ UNCHANGED <<services, lock, live, executed>>
      BY <1>3 DEF StartControl
    <2>2. lock = p /\ Stage = "taken" /\ Stage' = "open"
      BY <2>1, StageOfHolder DEF Stage
    <2>3. Shown' = Shown /\ Told' = Told /\ Gone' = Gone
      BY <2>1, GoneKept DEF Shown, Told
    <2>4. runs + 1 \in Runs
      BY <2>1
    <2> QED
      BY <2>1, <2>2, <2>3, <2>4 DEF Promise!Begin
  <1>4. ASSUME NEW p \in Procs, Announce(p)
        PROVE  Promise!Announce(p) \/ UNCHANGED PromiseVars
    <2>1. PICK to \in {"supervising", "closing"} :
              /\ pc[p] = "controlled" /\ Goes(p, to)
              /\ WriteLive(p, FALSE) \/ UNCHANGED live
              /\ UNCHANGED <<run, services, runs, lock, executed>>
      BY <1>4 DEF Announce
    <2>2. lock = p /\ Stage = "open" /\ Stage' = "open"
      BY <2>1, StageOfHolder DEF Stage
    <2>3. Told' = Told /\ Gone' = Gone
      BY <2>1, GoneKept DEF Told
    <2>4. Shown' \in {Shown, run[p]}
      BY <2>1, WrittenIsShown DEF Shown
    <2> QED
      BY <2>1, <2>2, <2>3, <2>4 DEF Promise!Announce, Promise!Open, PromiseVars
  <1>5. ASSUME NEW p \in Procs, StartServices(p) PROVE Promise!Start(p)
    <2>1. lock = p /\ Stage = "open"
      BY <1>5, StageOfHolder DEF StartServices
    <2>2. UNCHANGED <<lock, Stage, run, runs, Shown, Told, Gone>>
      BY <1>5 DEF StartServices, Stage, Shown, Told, Gone
    <2> QED
      BY <1>5, <2>1, <2>2 DEF StartServices, Promise!Start, Promise!Open
  <1>6. ASSUME NEW p \in Procs, RecordServices(p) PROVE Promise!Record(p)
    <2>1. lock = p /\ Stage = "open"
      BY <1>6, StageOfHolder DEF RecordServices
    <2>2. UNCHANGED <<lock, Stage, run, runs, Told, Gone>>
      BY <1>6 DEF RecordServices, Stage, Told, Gone
    <2>3. Shown' = run[p]
      BY <1>6, WrittenIsShown DEF RecordServices
    <2> QED
      BY <1>6, <2>1, <2>2, <2>3 DEF RecordServices, Promise!Record, Promise!Open
  <1>7. ASSUME NEW p \in Procs, SupervisorReturns(p) \/ CloseControl(p) \/ Summarise(p)
        PROVE  UNCHANGED PromiseVars
    <2>1. PICK to \in {"closing", "closed", "summarised"} :
              /\ pc[p] \in {"supervising", "closing", "closed"} /\ Goes(p, to)
              /\ UNCHANGED <<run, services, runs, lock, live, executed>>
      BY <1>7 DEF SupervisorReturns, CloseControl, Summarise
    <2>2. lock = p /\ Stage = "open" /\ Stage' = "open"
      BY <2>1, StageOfHolder DEF Stage
    <2>3. Shown' = Shown /\ Told' = Told /\ Gone' = Gone
      BY <2>1, GoneKept DEF Shown, Told
    <2> QED
      BY <2>1, <2>2, <2>3 DEF PromiseVars
  <1>8. ASSUME NEW p \in Procs, RemoveLive(p) PROVE Promise!Close(p)
    <2>1. /\ pc[p] = "summarised" /\ Goes(p, "releasing") /\ live' = None
          /\ UNCHANGED <<run, services, runs, lock, executed>>
      BY <1>8 DEF RemoveLive
    <2>2. lock = p /\ Stage = "open" /\ Stage' = "over"
      BY <2>1, StageOfHolder DEF Stage
    <2>3. Shown' = 0 /\ Told' = Told /\ Gone' = Gone
      BY <2>1, GoneKept DEF Shown, Told
    <2>4. ~Promise!Runs(run[p])
      BY <2>1 DEF FilesInv, EndedInSession, Promise!Runs
    <2> QED
      BY <2>1, <2>2, <2>3, <2>4 DEF Promise!Close, Promise!Open
  <1>9. ASSUME NEW p \in Procs, Release(p) PROVE Promise!Leave(p)
    <2>1. /\ pc[p] = "releasing" /\ Goes(p, "released") /\ lock' = None
          /\ UNCHANGED <<run, services, runs, live, executed>>
      BY <1>9 DEF Release
    <2>2. lock = p /\ Stage = "over" /\ Stage' = "free"
      BY <2>1, StageOfHolder DEF Stage
    <2>3. Shown' = Shown /\ Told' = Told /\ Gone' = Gone
      BY <2>1, GoneKept DEF Shown, Told
    <2> QED
      BY <2>1, <2>2, <2>3 DEF Promise!Leave
  <1>10. ASSUME NEW p \in Procs, Loop(p) PROVE Promise!Go(p) \/ UNCHANGED PromiseVars
    <2>1. /\ pc[p] = "released" /\ lock # p
          /\ UNCHANGED <<services, runs, lock, live, executed>>
      BY <1>10 DEF Loop, FilesInv, LockIsHeld
    <2>2. Shown' = Shown /\ Told' = Told
      BY <2>1 DEF Shown, Told
    <2>3. CASE Again(p)
      <3>1. Goes(p, "acquiring") /\ run' = run
        BY <1>10, <2>3 DEF Loop
      <3>2. Gone' = Gone /\ Stage' = Stage
        BY <2>1, <3>1, GoneKept, StageKept
      <3> QED
        BY <2>1, <2>2, <3>1, <3>2 DEF PromiseVars
    <2>4. CASE ~Again(p)
      <3>1. Leaves(p, "exited")
        BY <1>10, <2>4 DEF Loop
      <3>2. p \notin Gone /\ Gone' = Gone \cup {p} /\ run' = [run EXCEPT ![p] = 0]
        BY <2>1, <3>1, GoneGrows DEF Alive
      <3>3. Stage' = Stage
        BY <2>1, <3>1, StageKept DEF Leaves
      <3> QED
        BY <2>1, <2>2, <3>2, <3>3 DEF Promise!Go
    <2> QED
      BY <2>3, <2>4
  <1>11. ASSUME NEW p \in Procs, Launch(p) PROVE UNCHANGED PromiseVars
    <2>1. /\ pc[p] = "off" /\ lock # p /\ Goes(p, "acquiring")
          /\ UNCHANGED <<run, services, runs, lock, live, executed>>
      BY <1>11 DEF Launch, FilesInv, LockIsHeld
    <2>2. Gone' = Gone /\ Stage' = Stage /\ Shown' = Shown /\ Told' = Told
      BY <2>1, GoneKept, StageKept DEF Shown, Told
    <2> QED
      BY <2>1, <2>2 DEF PromiseVars
  <1>12. ASSUME NEW p \in Procs, Crash(p) PROVE Promise!Go(p)
    <2>1. /\ Alive(p) /\ Leaves(p, "crashed") /\ lock' = IF lock = p THEN None ELSE lock
          /\ UNCHANGED <<services, runs, live, executed>>
      BY <1>12 DEF Crash
    <2>2. p \notin Gone /\ Gone' = Gone \cup {p} /\ run' = [run EXCEPT ![p] = 0]
      BY <2>1, GoneGrows
    <2>3. Shown' = Shown /\ Told' = Told
      BY <2>1 DEF Shown, Told
    <2>4. IF lock = p THEN lock' = None /\ Stage' = "free" ELSE UNCHANGED <<lock, Stage>>
      BY <2>1, StageKept DEF Leaves, Stage
    <2> QED
      BY <2>1, <2>2, <2>3, <2>4 DEF Promise!Go
  <1>13. ASSUME NEW c \in Callers, NEW op \in Operations, Handle(c, op)
         PROVE  (\E n \in Runs : Promise!TellToRestart(n)) \/ UNCHANGED PromiseVars
    <2> DEFINE n == caller[c].at
    <2>1. /\ n \in Runs /\ n <= runs
          /\ UNCHANGED <<pc, run, services, runs, lock, live>>
      BY <1>13 DEF Handle, CallersTyped, NoneToCome
    <2>2. UNCHANGED <<lock, Stage, run, runs, services, Shown, Gone>>
      BY <2>1 DEF Stage, Shown, Gone
    <2>3. Told' = Told \/ Told' = Told \cup {n}
      <3> DEFINE e == [run |-> n, op |-> op, token |-> caller[c].token, by |-> caller[c].by]
      <3>1. executed' = executed \/ executed' = executed \cup {e}
        BY <1>13 DEF Handle
      <3>2. e.run = n
        OBVIOUS
      <3> HIDE DEF e, n
      <3> QED
        BY <3>1, <3>2 DEF Told
    <2> QED
      BY <2>1, <2>2, <2>3 DEF Promise!TellToRestart, PromiseVars
  <1>14. ASSUME NEW n \in Runs, ServicesEnd(n) PROVE Promise!End(n)
    <2>1. UNCHANGED <<lock, Stage, run, runs, Shown, Told, Gone>>
      BY <1>14 DEF ServicesEnd, Stage, Shown, Told, Gone
    <2> QED
      BY <1>14, <2>1 DEF ServicesEnd, Running, Promise!End, Promise!Runs
  <1>15. CASE UNCHANGED <<pc, run, services, runs, lock, live, executed>>
    BY <1>15 DEF PromiseVars, Stage, Shown, Told, Gone
  <1> HIDE DEF Typed, ProcsTyped, FilesTyped, Locked, InSession, Runs
  <1> USE DEF Promise!Next
  <1>16. CASE \E p \in Procs : Step(p)
    BY <1>16, <1>1, <1>2, <1>3, <1>4, <1>5, <1>6, <1>7, <1>8, <1>9, <1>10
       DEF Step, CleanupStep
  <1>17. CASE \E p \in Procs : Happens(p)
    BY <1>17, <1>11, <1>12, <1>15 DEF Happens, WriteLiveFails, Interrupt
  <1>18. CASE \E c \in Callers : Call(c)
    BY <1>18, <1>13, <1>15 DEF Call, ReadLive, Dial, HungUp
  <1> QED
    BY <1>14, <1>15, <1>16, <1>17, <1>18 DEF Next, Ended, vars

LEMMA PromiseBegins == Init => Promise!Init
  BY DEF Init, Promise!Init, Stage, Shown, Told, Gone

-----------------------------------------------------------------------------
(* The results                                                             *)

\* Every variable keeps its type (Run, runOnce, the files of Store).
THEOREM TypeCorrect == Spec => []TypeOK
  <1>1. Typed => TypeOK
    BY DEF Typed, ProcsTyped, FilesTyped, CallersTyped, TypeOK, Positions, LiveRecord
  <1> QED
    BY <1>1, TypingInvariant, PTL

\* The lock, the live file and the services agree with where each process is (Store, runOnce).
THEOREM FilesInvariant == Spec => []FilesInv
  BY InitFiles, NextFiles, TypingInvariant, PTL DEF Spec

\* A live file of a process that lives, and a socket somebody listens on, belong to the
\* process that has the worktree's lock, and the file to its session (Store.Acquire,
\* WriteLive and the cleanup of runOnce).
THEOREM FilesBelongToTheHolder == Spec => []FilesAreTheHolders
  <1>1. Typed /\ FilesInv => FilesAreTheHolders
    BY DEF Typed, ProcsTyped, FilesTyped, FilesInv, LockIsHeld, Locked, LiveIsHolders, Alive,
           InSession, LiveRecord, FilesAreTheHolders, Listener
  <1> QED
    BY <1>1, TypingInvariant, FilesInvariant, PTL

\* The services of two sessions of a worktree run side by side only if the supervisor of
\* the earlier ones crashed before the live file named them (Store.Acquire after a crash).
THEOREM GenerationsDoNotMeet == Spec => []OneGeneration
  <1>1. FilesInv => OneGeneration
    BY DEF FilesInv
  <1> QED
    BY <1>1, FilesInvariant, PTL

\* A session that has executed a stop and no restart is its process's last one (the flag
\* and the context of Run's loop, handlers that are late included).
THEOREM StopsAreFinal == Spec => []StopIsFinal
  <1>1. TurnInv => StopIsFinal
    BY DEF TurnInv
  <1> QED
    BY <1>1, InitTurns, NextTurns, TypingInvariant, PTL DEF Spec

\* A request takes effect in the session whose live file its caller read and in no other,
\* though sockets of different sessions have one name and handlers outlive their turn (the
\* token in ControlServer.handle, the flag and the context of Run's loop).
THEOREM RequestsReachTheirSession == Spec => []OwnSession
  <1> DEFINE Authentic == \A e \in executed : e.run = e.token
  <1>1. Init => Authentic /\ CancelledForCause
    BY DEF Init, CancelledForCause
  <1>2. Authentic /\ [Next]_vars => Authentic'
    <2> SUFFICES ASSUME Authentic, [Next]_vars PROVE Authentic'
      OBVIOUS
    <2>1. ASSUME NEW c \in Callers, NEW op \in Operations, Handle(c, op) PROVE Authentic'
      BY <2>1 DEF Handle, Authorized
    <2>2. CASE UNCHANGED executed
      BY <2>2
    <2> QED
      BY <2>1, <2>2
         DEF Next, Step, CleanupStep, Happens, Call, Ended, vars, Acquire, PrepareFails,
             StartControl, Announce, StartServices, RecordServices, SupervisorReturns,
             CloseControl, Summarise, RemoveLive, Release, Loop, Launch, WriteLiveFails,
             Interrupt, Crash, ReadLive, Dial, HungUp, ServicesEnd
  <1>3. Spec => []Authentic
    <2> HIDE DEF Authentic
    <2> QED
      BY <1>1, <1>2, PTL DEF Spec
  <1>4. Spec => []CancelledForCause
    BY <1>1, NextCause, TypingInvariant, PTL DEF Spec
  <1>5. Authentic /\ CancelledForCause /\ TurnInv => OwnSession
    BY DEF CancelledForCause, TurnInv, FlagOfTurn, OwnSession
  <1> HIDE DEF Authentic
  <1> QED
    BY <1>3, <1>4, <1>5, InitTurns, NextTurns, TypingInvariant, PTL DEF Spec

\* What the processes of a worktree do to it is what Worktree promises: one is in charge and
\* runs one session, services on record are not taken over, and a session of the same process
\* follows only when a restart was executed (Store.Acquire, runOnce, the loop of Run).
THEOREM WorktreesAreKept == Spec => ImplementsWorktree
  <1> DEFINE All == Typed /\ FilesInv /\ TurnInv /\ AgainIsTold /\ NoneToCome
  <1>1. Init => AgainIsTold /\ NoneToCome
    BY DEF Init, AgainIsTold, NoneToCome
  <1>2. Init => All
    BY <1>1, InitTyped, InitFiles, InitTurns
  <1>3. All /\ [Next]_vars => FilesInv' /\ TurnInv' /\ AgainIsTold' /\ NoneToCome'
    BY NextFiles, NextTurns, NextAgain, NextPast
  <1>4. All /\ [Next]_vars => [Promise!Next]_PromiseVars
    BY <1>3, StepsKeepThePromise
  <1>5. Spec => []All
    BY <1>2, <1>3, TypingInvariant, PTL DEF Spec
  <1> HIDE DEF All
  <1> QED
    BY <1>4, <1>5, PromiseBegins, PTL
       DEF Spec, ImplementsWorktree, Promise!Spec, Promise!worktreeVars, PromiseVars
=============================================================================
