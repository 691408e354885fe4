------------------------- MODULE RunLifecycle_proof -------------------------
(***************************************************************************)
(* Proofs about RunLifecycle, for any set of connections, any errors and   *)
(* any hooks.                                                              *)
(*                                                                         *)
(* TrackerInv strengthens what the runs check of the tracker.  That no     *)
(* silent connection escapes the sweep rests on the order in which net/http *)
(* sets a state and calls the hook (HookFollowsState), and that the sweep  *)
(* spares served connections on nothing being swept before the flag is up  *)
(* (NothingBeforeSweep).                                                   *)
(***************************************************************************)
EXTENDS RunLifecycle, TLAPS

FlagFollowsMap == mapNil => shutdown

NothingBeforeSweep == ~shutdown => toClose = {} /\ cut = {}

HookFollowsState ==
  \A c \in Conn :
    /\ hook[c] = "late" => st[c] = "new" /\ shutdown
    /\ hook[c] \in States => st[c] = hook[c]
    /\ st[c] = None => gor[c] = None

ServedLeftNew == \A c \in served : st[c] \notin {None, "new"}

TrackerInv ==
  /\ FlagFollowsMap
  /\ NothingBeforeSweep
  /\ HookFollowsState
  /\ ServedLeftNew
  /\ NoSilentEscapes
  /\ SweepSparesServed

(* Run's side: at most one StateNew hook call at a time, in the accept     *)
(* loop; the channel carries what Serve returned, after it returned.       *)
AcceptLoopInv ==
  \A c \in Conn : hook[c] \in {"new", "late"} =>
    serve = "newHook" /\ \A d \in Conn : hook[d] \in {"new", "late"} => d = c

ServeInv ==
  /\ serveRes # None <=> serve \in {"returned", "done"}
  /\ serveErr # None => serve = "done" /\ serveErr = serveRes

RunInv ==
  /\ run \in {"serveExit", "returned"} => serve = "done"
  /\ run \in {"serveExit", "preDrain", "onShutdown"} => run \in hooks
  /\ run \in {"onShutdown", "recv"} => shutdownErr # None
  /\ run \notin {"onShutdown", "recv", "returned"} => shutdownErr = None
  /\ ret = None <=> run # "returned"
  /\ shutdownErr = "deadline" => expired

LifecycleInv == AcceptLoopInv /\ ServeInv /\ RunInv

-----------------------------------------------------------------------------
(* Types.                                                                  *)

LEMMA InitType == Init => TypeOK
<1> SUFFICES ASSUME Init PROVE TypeOK
  OBVIOUS
<1>1. TrackerTypeOK
  BY DEF Init, NetInit, TrackerInit, TrackerTypeOK
<1>2. NetTypeOK
  BY DEF Init, NetInit, NetTypeOK, None, ServePCs, GoroutinePCs, States
<1>3. RunTypeOK
  BY DEF Init, RunTypeOK, None, RunPCs
<1> QED BY <1>1, <1>2, <1>3 DEF TypeOK

(* The server's steps leave Run's variables alone.                         *)
LEMMA ServerType == TypeOK /\ Server => TypeOK'
<1> SUFFICES ASSUME TypeOK, ServerStep, UNCHANGED runVars PROVE TypeOK'
  BY DEF Server
<1>0. RunTypeOK'
  BY DEF TypeOK, RunTypeOK, runVars
<1> USE DEF TypeOK, TrackerTypeOK, NetTypeOK, trackerVars, States, ServePCs, GoroutinePCs, None
<1>1. CASE ServeStart
  BY <1>0, <1>1 DEF ServeStart
<1>2. CASE AcceptFails
  BY <1>0, <1>2 DEF AcceptFails
<1>3. CASE SweepStart
  BY <1>0, <1>3 DEF SweepStart, SweepTake
<1>4. ASSUME NEW c \in Conn, Accept(c) PROVE TypeOK'
  BY <1>0, <1>4 DEF Accept
<1>5. ASSUME NEW c \in Conn, NewHook(c) PROVE TypeOK'
  BY <1>0, <1>5 DEF NewHook, Track, LateNew, StartGoroutine
<1>6. ASSUME NEW c \in Conn, LateClose(c) PROVE TypeOK'
  BY <1>0, <1>6 DEF LateClose, CloseLate, StartGoroutine
<1>7. ASSUME NEW c \in Conn, ReadRequest(c) PROVE TypeOK'
  BY <1>0, <1>7 DEF ReadRequest
<1>8. ASSUME NEW c \in Conn, GoActive(c) PROVE TypeOK'
  BY <1>0, <1>8 DEF GoActive, SetState
<1>9. ASSUME NEW c \in Conn, ConnHook(c) PROVE TypeOK'
  BY <1>0, <1>9 DEF ConnHook, Track, LateNew
<1>10. ASSUME NEW c \in Conn, FinishRequest(c) PROVE TypeOK'
  BY <1>0, <1>10 DEF FinishRequest, SetState
<1>11. ASSUME NEW c \in Conn, Hijack(c) PROVE TypeOK'
  BY <1>0, <1>11 DEF Hijack, SetState
<1>12. ASSUME NEW c \in Conn, ReadFails(c) PROVE TypeOK'
  BY <1>0, <1>12 DEF ReadFails
<1>13. ASSUME NEW c \in Conn, EndConn(c) PROVE TypeOK'
  BY <1>0, <1>13 DEF EndConn, SetState
<1>14. ASSUME NEW c \in Conn, SweepCloses(c) PROVE TypeOK'
  BY <1>0, <1>14 DEF SweepCloses, SweepClose
<1> QED
  BY <1>1, <1>2, <1>3, <1>4, <1>5, <1>6, <1>7, <1>8, <1>9, <1>10, <1>11, <1>12, <1>13, <1>14
     DEF ServerStep, ConnStep

LEMMA RunType ==
  ASSUME TypeOK, RunStep \/ DeliverServeErr \/ Environment
  PROVE  TypeOK'
<1> USE DEF TypeOK, TrackerTypeOK, NetTypeOK, RunTypeOK, serverVars, netVars, trackerVars, runVars,
        RunPCs, GracefulPCs, DrainPCs, ServeResults, ShutdownResults, ServePCs, None
<1>1. CASE SelectServeErr
  BY <1>1 DEF SelectServeErr, Goto
<1>2. CASE ServeExitReturns
  BY <1>2 DEF ServeExitReturns, Goto
<1>3. CASE SelectCtxDone
  BY <1>3 DEF SelectCtxDone, Goto, HookOr
<1>4. CASE PreDrainReturns
  BY <1>4 DEF PreDrainReturns, Goto
<1>5. CASE AwaitServe
  BY <1>5 DEF AwaitServe, Goto
<1>6. CASE PollAgain
  BY <1>6 DEF PollAgain, Goto
<1>7. CASE PollExpired
  BY <1>7 DEF PollExpired, ShutdownReturns, Goto, HookOr
<1>8. CASE OnShutdownReturns
  BY <1>8 DEF OnShutdownReturns, Goto
<1>9. CASE Recv
  BY <1>9 DEF Recv, Goto, GraceExpiryError
<1>10. CASE Cancel
  BY <1>10 DEF Cancel
<1>11. CASE Expire
  BY <1>11 DEF Expire
<1>12. CASE CallShutdown
  BY <1>12 DEF CallShutdown, Goto, BeginShutdown
<1>13. CASE Poll
  BY <1>13 DEF Poll, Goto, ShutdownReturns, HookOr, CloseIdle, Closeable
<1>14. CASE DeliverServeErr
  BY <1>14 DEF DeliverServeErr
<1>15. CASE CallerShutdown
  BY <1>15 DEF CallerShutdown, BeginShutdown
<1>16. CASE CallerPoll
  BY <1>16 DEF CallerPoll, CloseIdle, Closeable
<1>17. CASE CallerClose
  BY <1>17 DEF CallerClose
<1> QED
  BY <1>1, <1>2, <1>3, <1>4, <1>5, <1>6, <1>7, <1>8, <1>9,
     <1>10, <1>11, <1>12, <1>13, <1>14, <1>15, <1>16, <1>17
     DEF RunStep, Environment

LEMMA NextType == TypeOK /\ [Next]_vars => TypeOK'
<1> SUFFICES ASSUME TypeOK, [Next]_vars PROVE TypeOK'
  OBVIOUS
<1>1. CASE UNCHANGED vars
  BY <1>1 DEF vars, serverVars, netVars, trackerVars, runVars, TypeOK, TrackerTypeOK,
     NetTypeOK, RunTypeOK
<1> QED BY <1>1, ServerType, RunType DEF Next, Returned

(* Every state of the server, the tracker and Run is of the declared kind: *)
(* in particular Run never returns the bare deadline error of its drain    *)
(* unless Serve failed with it.                                            *)
THEOREM TypeCorrect == Spec => []TypeOK
BY InitType, NextType, PTL DEF Spec

-----------------------------------------------------------------------------
(* The tracker.                                                            *)

LEMMA InitTracker == Init => TrackerInv
BY DEF Init, NetInit, TrackerInit, TrackerInv, FlagFollowsMap, NothingBeforeSweep,
   HookFollowsState, ServedLeftNew, NoSilentEscapes, Silent, SweepSparesServed, None, States

(* Steps that read or change what the tracker knows.                       *)
LEMMA ServerTracker ==
  ASSUME TypeOK, TrackerInv, ServerStep
  PROVE  TrackerInv'
<1> USE DEF TypeOK, TrackerTypeOK, NetTypeOK, trackerVars, TrackerInv, FlagFollowsMap,
        NothingBeforeSweep, HookFollowsState, ServedLeftNew, NoSilentEscapes, Silent,
        SweepSparesServed, None, States
<1>1. CASE ServeStart
  BY <1>1 DEF ServeStart
<1>2. CASE AcceptFails
  BY <1>2 DEF AcceptFails
<1>3. CASE SweepStart
  BY <1>3 DEF SweepStart, SweepTake
<1>4. ASSUME NEW c \in Conn, Accept(c) PROVE TrackerInv'
  BY <1>4 DEF Accept
<1>5. ASSUME NEW c \in Conn, NewHook(c) PROVE TrackerInv'
  <2>1. st[c] = "new" /\ c \notin served
    BY <1>5 DEF NewHook
  <2>2. CASE shutdown
    <3>1. /\ UNCHANGED <<conns, mapNil, shutdown, toClose, closed, st, gor, served, cut>>
          /\ hook' = [hook EXCEPT ![c] = "late"]
      BY <1>5, <2>2 DEF NewHook, Track, LateNew
    <3> QED BY <2>1, <2>2, <3>1
  <2>3. CASE ~shutdown
    <3>1. /\ UNCHANGED <<mapNil, shutdown, toClose, closed, st, served, cut>>
          /\ conns' = conns \cup {c}
          /\ hook' = [hook EXCEPT ![c] = None]
          /\ gor' = [gor EXCEPT ![c] = "reading"]
      BY <1>5, <2>3 DEF NewHook, Track, LateNew, StartGoroutine
    <3> QED BY <2>1, <2>3, <3>1
  <2> QED BY <2>2, <2>3
<1>6. ASSUME NEW c \in Conn, LateClose(c) PROVE TrackerInv'
  BY <1>6 DEF LateClose, CloseLate, StartGoroutine, InFlight
<1>7. ASSUME NEW c \in Conn, ReadRequest(c) PROVE TrackerInv'
  BY <1>7 DEF ReadRequest
<1>8. ASSUME NEW c \in Conn, GoActive(c) PROVE TrackerInv'
  BY <1>8 DEF GoActive, SetState
<1>9. ASSUME NEW c \in Conn, ConnHook(c) PROVE TrackerInv'
  BY <1>9 DEF ConnHook, Track, LateNew
<1>10. ASSUME NEW c \in Conn, FinishRequest(c) PROVE TrackerInv'
  BY <1>10 DEF FinishRequest, SetState
<1>11. ASSUME NEW c \in Conn, Hijack(c) PROVE TrackerInv'
  BY <1>11 DEF Hijack, SetState
<1>12. ASSUME NEW c \in Conn, ReadFails(c) PROVE TrackerInv'
  BY <1>12 DEF ReadFails
<1>13. ASSUME NEW c \in Conn, EndConn(c) PROVE TrackerInv'
  BY <1>13 DEF EndConn, SetState
<1>14. ASSUME NEW c \in Conn, SweepCloses(c) PROVE TrackerInv'
  BY <1>14 DEF SweepCloses, SweepClose, InFlight
<1> QED
  BY <1>1, <1>2, <1>3, <1>4, <1>5, <1>6, <1>7, <1>8, <1>9, <1>10, <1>11, <1>12, <1>13, <1>14
     DEF ServerStep, ConnStep

(* Run and its environment touch none of it, except that closeIdleConns    *)
(* and Close add to the closed sockets.                                    *)
LEMMA RunTracker ==
  ASSUME TypeOK, TrackerInv, RunStep \/ DeliverServeErr \/ Environment
  PROVE  TrackerInv'
<1>1. /\ UNCHANGED <<conns, mapNil, shutdown, toClose, st, hook, gor, served, cut>>
      /\ closed \subseteq closed'
  BY DEF RunStep, Environment, SelectServeErr, ServeExitReturns, SelectCtxDone,
     PreDrainReturns, CallShutdown, AwaitServe, Poll, PollAgain, PollExpired,
     OnShutdownReturns, Recv, DeliverServeErr, Cancel, Expire, CallerShutdown,
     CallerPoll, CallerClose, BeginShutdown, CloseIdle, serverVars, netVars, trackerVars
<1> QED
  BY <1>1 DEF TrackerInv, FlagFollowsMap, NothingBeforeSweep, HookFollowsState,
     ServedLeftNew, NoSilentEscapes, Silent, SweepSparesServed

LEMMA NextTracker == TypeOK /\ TrackerInv /\ [Next]_vars => TrackerInv'
<1> SUFFICES ASSUME TypeOK, TrackerInv, [Next]_vars PROVE TrackerInv'
  OBVIOUS
<1>1. CASE UNCHANGED vars
  BY <1>1 DEF vars, serverVars, netVars, trackerVars, TrackerInv, FlagFollowsMap,
     NothingBeforeSweep, HookFollowsState, ServedLeftNew, NoSilentEscapes, Silent,
     SweepSparesServed
<1> QED BY <1>1, ServerTracker, RunTracker DEF Next, Returned, Server

LEMMA TrackerHolds == Spec => []TrackerInv
BY TypeCorrect, InitTracker, NextTracker, PTL DEF Spec

(***************************************************************************)
(* Once closeAll has set the map to nil no hook inserts into it            *)
(* (silentConns.track): only a StateNew hook inserts, and one that comes   *)
(* so late finds the flag up (FlagFollowsMap) and is turned away.          *)
(***************************************************************************)
LEMMA ServerInserts ==
  ASSUME TypeOK, FlagFollowsMap, mapNil, ServerStep
  PROVE  conns' \subseteq conns
<1>1. shutdown
  BY DEF FlagFollowsMap
<1>2. CASE ServeStart \/ AcceptFails
  BY <1>2 DEF ServeStart, AcceptFails, trackerVars
<1>3. CASE SweepStart
  BY <1>3 DEF SweepStart, SweepTake
<1>4. ASSUME NEW c \in Conn, NewHook(c) PROVE conns' \subseteq conns
  BY <1>1, <1>4 DEF NewHook, Track, LateNew
<1>5. ASSUME NEW c \in Conn, ConnHook(c) PROVE conns' \subseteq conns
  BY <1>1, <1>5 DEF ConnHook, Track, LateNew
<1>6. ASSUME NEW c \in Conn, LateClose(c) \/ SweepCloses(c) PROVE conns' \subseteq conns
  BY <1>6 DEF LateClose, CloseLate, SweepCloses, SweepClose
<1>7. ASSUME NEW c \in Conn,
             \/ Accept(c) \/ ReadRequest(c) \/ GoActive(c) \/ FinishRequest(c)
             \/ Hijack(c) \/ ReadFails(c) \/ EndConn(c)
      PROVE  conns' \subseteq conns
  BY <1>7 DEF Accept, ReadRequest, GoActive, FinishRequest, Hijack, ReadFails, EndConn, trackerVars
<1> QED BY <1>2, <1>3, <1>4, <1>5, <1>6, <1>7 DEF ServerStep, ConnStep

LEMMA RunInserts ==
  ASSUME RunStep \/ DeliverServeErr \/ Environment
  PROVE  conns' = conns
BY DEF RunStep, Environment, SelectServeErr, ServeExitReturns, SelectCtxDone,
   PreDrainReturns, CallShutdown, AwaitServe, Poll, PollAgain, PollExpired,
   OnShutdownReturns, Recv, DeliverServeErr, Cancel, Expire, CallerShutdown,
   CallerPoll, CallerClose, serverVars, trackerVars

THEOREM NoNilMap == Spec => NoNilMapWrite
<1>1. ASSUME TypeOK, TrackerInv, [Next]_vars
      PROVE  [mapNil => conns' \subseteq conns]_vars
  <2>1. CASE UNCHANGED vars
    BY <2>1
  <2>2. CASE ServerStep
    BY <1>1, <2>2, ServerInserts DEF TrackerInv
  <2>3. CASE RunStep \/ DeliverServeErr \/ Environment
    BY <2>3, RunInserts
  <2> QED BY <1>1, <2>1, <2>2, <2>3 DEF Next, Returned, Server
<1> QED BY TypeCorrect, TrackerHolds, <1>1, PTL DEF Spec, NoNilMapWrite

(* No silent connection is lost between track and closeAll, whatever the   *)
(* order of the accept loop, the connections and the sweep.                *)
THEOREM SilentAreSwept == Spec => []NoSilentEscapes
<1>1. TrackerInv => NoSilentEscapes
  BY DEF TrackerInv
<1> QED BY TrackerHolds, <1>1, PTL

(* The tracker closes no connection it heard to be active before the sweep. *)
THEOREM ServedAreSpared == Spec => []SweepSparesServed
<1>1. TrackerInv => SweepSparesServed
  BY DEF TrackerInv
<1> QED BY TrackerHolds, <1>1, PTL

-----------------------------------------------------------------------------
(* Serve and Run.                                                          *)

LEMMA InitLifecycle == Init => LifecycleInv
BY DEF Init, NetInit, LifecycleInv, AcceptLoopInv, ServeInv, RunInv, None

LEMMA ServerLifecycle ==
  ASSUME TypeOK, LifecycleInv, ServerStep, UNCHANGED runVars
  PROVE  LifecycleInv'
<1> USE ErrAssumption DEF TypeOK, NetTypeOK, LifecycleInv, AcceptLoopInv, ServeInv, RunInv,
        runVars, ServePCs, None
<1>1. CASE ServeStart
  BY <1>1 DEF ServeStart
<1>2. CASE AcceptFails
  BY <1>2 DEF AcceptFails
<1>3. CASE SweepStart
  BY <1>3 DEF SweepStart, SweepTake
<1>4. ASSUME NEW c \in Conn, Accept(c) PROVE LifecycleInv'
  BY <1>4 DEF Accept
<1>5. ASSUME NEW c \in Conn, NewHook(c) PROVE LifecycleInv'
  BY <1>5 DEF NewHook, Track, LateNew, StartGoroutine
<1>6. ASSUME NEW c \in Conn, LateClose(c) PROVE LifecycleInv'
  BY <1>6 DEF LateClose, CloseLate, StartGoroutine, InFlight
<1>7. ASSUME NEW c \in Conn, ReadRequest(c) PROVE LifecycleInv'
  BY <1>7 DEF ReadRequest
<1>8. ASSUME NEW c \in Conn, GoActive(c) PROVE LifecycleInv'
  BY <1>8 DEF GoActive, SetState
<1>9. ASSUME NEW c \in Conn, ConnHook(c) PROVE LifecycleInv'
  BY <1>9 DEF ConnHook, Track, LateNew
<1>10. ASSUME NEW c \in Conn, FinishRequest(c) PROVE LifecycleInv'
  BY <1>10 DEF FinishRequest, SetState
<1>11. ASSUME NEW c \in Conn, Hijack(c) PROVE LifecycleInv'
  BY <1>11 DEF Hijack, SetState
<1>12. ASSUME NEW c \in Conn, ReadFails(c) PROVE LifecycleInv'
  BY <1>12 DEF ReadFails
<1>13. ASSUME NEW c \in Conn, EndConn(c) PROVE LifecycleInv'
  BY <1>13 DEF EndConn, SetState
<1>14. ASSUME NEW c \in Conn, SweepCloses(c) PROVE LifecycleInv'
  BY <1>14 DEF SweepCloses, SweepClose, InFlight
<1> QED
  BY <1>1, <1>2, <1>3, <1>4, <1>5, <1>6, <1>7, <1>8, <1>9, <1>10, <1>11, <1>12, <1>13, <1>14
     DEF ServerStep, ConnStep

LEMMA RunLifecycleStep ==
  ASSUME TypeOK, LifecycleInv, RunStep \/ DeliverServeErr \/ Environment
  PROVE  LifecycleInv'
<1> USE ErrAssumption DEF TypeOK, NetTypeOK, RunTypeOK, LifecycleInv, AcceptLoopInv, ServeInv, RunInv,
        serverVars, netVars, runVars, RunPCs, GracefulPCs, DrainPCs, ServeResults,
        ShutdownResults, ServePCs, AllHooks, None
<1>1. CASE SelectServeErr
  BY <1>1 DEF SelectServeErr, Goto
<1>2. CASE ServeExitReturns
  BY <1>2 DEF ServeExitReturns, Goto
<1>3. CASE SelectCtxDone
  BY <1>3 DEF SelectCtxDone, Goto, HookOr
<1>4. CASE PreDrainReturns
  BY <1>4 DEF PreDrainReturns, Goto
<1>5. CASE AwaitServe
  BY <1>5 DEF AwaitServe, Goto
<1>6. CASE PollAgain
  BY <1>6 DEF PollAgain, Goto
<1>7. CASE PollExpired
  BY <1>7 DEF PollExpired, ShutdownReturns, Goto, HookOr
<1>8. CASE OnShutdownReturns
  BY <1>8 DEF OnShutdownReturns, Goto
<1>9. CASE Recv
  BY <1>9 DEF Recv, Goto, GraceExpiryError
<1>10. CASE Cancel
  BY <1>10 DEF Cancel
<1>11. CASE Expire
  BY <1>11 DEF Expire
<1>12. CASE CallShutdown
  BY <1>12 DEF CallShutdown, Goto, BeginShutdown
<1>13. CASE Poll
  BY <1>13 DEF Poll, Goto, ShutdownReturns, HookOr, CloseIdle, Closeable
<1>14. CASE DeliverServeErr
  BY <1>14 DEF DeliverServeErr
<1>15. CASE CallerShutdown
  BY <1>15 DEF CallerShutdown, BeginShutdown
<1>16. CASE CallerPoll
  BY <1>16 DEF CallerPoll, CloseIdle, Closeable
<1>17. CASE CallerClose
  BY <1>17 DEF CallerClose
<1> QED
  BY <1>1, <1>2, <1>3, <1>4, <1>5, <1>6, <1>7, <1>8, <1>9,
     <1>10, <1>11, <1>12, <1>13, <1>14, <1>15, <1>16, <1>17
     DEF RunStep, Environment

LEMMA NextLifecycle == TypeOK /\ LifecycleInv /\ [Next]_vars => LifecycleInv'
<1> SUFFICES ASSUME TypeOK, LifecycleInv, [Next]_vars PROVE LifecycleInv'
  OBVIOUS
<1>1. CASE UNCHANGED vars
  BY <1>1 DEF vars, serverVars, netVars, runVars, LifecycleInv, AcceptLoopInv, ServeInv, RunInv
<1> QED BY <1>1, ServerLifecycle, RunLifecycleStep DEF Next, Returned, Server

LEMMA LifecycleHolds == Spec => []LifecycleInv
BY TypeCorrect, InitLifecycle, NextLifecycle, PTL DEF Spec

(* Run returns only after Serve has, on every path.                        *)
THEOREM ServeEnded == Spec => []ServeEndsBeforeRun
<1>1. LifecycleInv => ServeEndsBeforeRun
  BY DEF LifecycleInv, RunInv, ServeEndsBeforeRun
<1> QED BY LifecycleHolds, <1>1, PTL

-----------------------------------------------------------------------------
(* Run implements RunPromise.                                              *)

LEMMA InitPromise == Init => Promise!Init
<1> SUFFICES ASSUME Init PROVE Promise!Init
  OBVIOUS
<1>1. Ran = {} /\ serveRes = "none" /\ expired = FALSE /\ ret = "none"
  BY DEF Init, NetInit, Ran, DrainPCs, None
<1>2. hooks \in SUBSET Promise!AllHooks
  BY DEF Init, AllHooks, Promise!AllHooks
<1> QED BY <1>1, <1>2 DEF Promise!Init

(* The server's goroutine reports at most that Serve ended.                *)
LEMMA ServerPromise ==
  ASSUME TypeOK, LifecycleInv, ServerStep, UNCHANGED runVars
  PROVE  [Promise!Next]_Promise!promiseVars
<1>0. UNCHANGED <<hooks, Ran, expired, ret>>
  BY DEF runVars, Ran, Drained
<1>1. UNCHANGED serveRes \/ (serveRes = None /\ serveRes' \in FatalErrs \cup {"nil"})
  BY DEF ServerStep, ConnStep, ServeStart, AcceptFails, SweepStart, Accept, NewHook,
     LateClose, ReadRequest, GoActive, ConnHook, FinishRequest, Hijack, ReadFails,
     EndConn, SweepCloses, LifecycleInv, ServeInv, TypeOK, NetTypeOK, ServePCs, None
<1> QED
  BY <1>0, <1>1 DEF Promise!Next, Promise!ServeEnds, Promise!promiseVars, None

LEMMA RunPromiseStep ==
  ASSUME TypeOK, LifecycleInv, RunStep \/ DeliverServeErr \/ Environment
  PROVE  [Promise!Next]_Promise!promiseVars
<1> USE ErrAssumption DEF TypeOK, NetTypeOK, RunTypeOK, LifecycleInv, ServeInv, RunInv, Ran, Drained,
        DrainPCs, GracefulPCs, RunPCs, AllHooks, ServeResults, ShutdownResults, serverVars,
        netVars, runVars, None, Promise!Next, Promise!promiseVars
<1>1. CASE SelectServeErr
  BY <1>1 DEF SelectServeErr, Goto, Promise!Phase, Promise!ServeExit, Promise!Return
<1>2. CASE ServeExitReturns
  BY <1>2 DEF ServeExitReturns, Goto, Promise!Return
<1>3. CASE SelectCtxDone
  BY <1>3 DEF SelectCtxDone, Goto, HookOr, Promise!Phase, Promise!PreDrain
<1>4. CASE PreDrainReturns
  BY <1>4 DEF PreDrainReturns, Goto
<1>5. CASE CallShutdown
  BY <1>5 DEF CallShutdown, Goto, BeginShutdown, Promise!Phase, Promise!Drain
<1>6. CASE AwaitServe
  BY <1>6 DEF AwaitServe, Goto
<1>7. CASE Poll
  BY <1>7 DEF Poll, Goto, ShutdownReturns, HookOr, CloseIdle, Closeable, Promise!Phase, Promise!OnShutdown
<1>8. CASE PollAgain
  BY <1>8 DEF PollAgain, Goto
<1>9. CASE PollExpired
  BY <1>9 DEF PollExpired, ShutdownReturns, Goto, HookOr, Promise!Phase, Promise!OnShutdown
<1>10. CASE OnShutdownReturns
  BY <1>10 DEF OnShutdownReturns, Goto
<1>11. CASE Recv
  BY <1>11 DEF Recv, Goto, GraceExpiryError, Promise!Return, Promise!Graceful
<1>12. CASE DeliverServeErr
  BY <1>12 DEF DeliverServeErr
<1>13. CASE Cancel
  BY <1>13 DEF Cancel
<1>14. CASE Expire
  BY <1>14 DEF Expire, Promise!Expire
<1>15. CASE CallerShutdown
  BY <1>15 DEF CallerShutdown, BeginShutdown
<1>16. CASE CallerPoll
  BY <1>16 DEF CallerPoll, CloseIdle, Closeable
<1>17. CASE CallerClose
  BY <1>17 DEF CallerClose
<1> QED
  BY <1>1, <1>2, <1>3, <1>4, <1>5, <1>6, <1>7, <1>8, <1>9,
     <1>10, <1>11, <1>12, <1>13, <1>14, <1>15, <1>16, <1>17
     DEF RunStep, Environment

LEMMA NextPromise ==
  TypeOK /\ LifecycleInv /\ [Next]_vars => [Promise!Next]_Promise!promiseVars
<1> SUFFICES ASSUME TypeOK, LifecycleInv, [Next]_vars
             PROVE  [Promise!Next]_Promise!promiseVars
  OBVIOUS
<1>1. CASE UNCHANGED vars
  BY <1>1 DEF vars, serverVars, netVars, runVars, Ran, Drained, Promise!promiseVars
<1> QED BY <1>1, ServerPromise, RunPromiseStep DEF Next, Returned, Server

(* Every behaviour of Run, with any server under it, is one RunPromise     *)
(* allows: one sequence only, in order, and the documented return value.   *)
THEOREM RunKeepsPromise == Spec => KeepsPromise
BY InitPromise, NextPromise, TypeCorrect, LifecycleHolds, PTL
   DEF Spec, KeepsPromise, Promise!Spec

-----------------------------------------------------------------------------
(* A clean return is a drained server.  A connection leaves activeConn     *)
(* only closed or hijacked (Accounted); from the moment Shutdown has seen  *)
(* the accept loop end nothing enters it (NoMoreAccepts).                  *)

Accounted ==
  \A c \in Conn :
    /\ st[c] \notin {None, "hijacked"} => c \in tracked \cup closed
    /\ st[c] = "hijacked" => hook[c] = "hijacked" \/ gor[c] = "gone"

NoMoreAccepts ==
  /\ run \in DrainPCs \/ shutdownErr # None => inShutdown
  /\ run \in {"poll", "pollWait"} \/ shutdownErr # None => ListenerGroupFree

DrainInv ==
  /\ Accounted
  /\ NoMoreAccepts
  /\ shutdownErr \notin {None, "deadline"} => tracked = {}
  /\ run = "returned" /\ shutdownErr = "deadline" => ret # "nil"

LEMMA InitDrain == Init => DrainInv
BY DEF Init, NetInit, DrainInv, Accounted, NoMoreAccepts, DrainPCs, None

LEMMA ServerDrain ==
  ASSUME TypeOK, TrackerInv, LifecycleInv, DrainInv, ServerStep, UNCHANGED runVars
  PROVE  DrainInv'
<1> USE DEF TypeOK, TrackerTypeOK, NetTypeOK, TrackerInv, HookFollowsState, LifecycleInv,
        AcceptLoopInv, DrainInv, Accounted, DrainPCs,
        NoMoreAccepts, ListenerGroupFree, runVars, trackerVars, States, ServePCs, None
<1>1. CASE ServeStart
  BY <1>1 DEF ServeStart
<1>2. CASE AcceptFails
  BY <1>2 DEF AcceptFails
<1>3. CASE SweepStart
  BY <1>3 DEF SweepStart, SweepTake
<1>4. ASSUME NEW c \in Conn, Accept(c) PROVE DrainInv'
  BY <1>4 DEF Accept
<1>5. ASSUME NEW c \in Conn, NewHook(c) PROVE DrainInv'
  BY <1>5 DEF NewHook, Track, LateNew, StartGoroutine
<1>6. ASSUME NEW c \in Conn, LateClose(c) PROVE DrainInv'
  BY <1>6 DEF LateClose, CloseLate, StartGoroutine, InFlight
<1>7. ASSUME NEW c \in Conn, ReadRequest(c) PROVE DrainInv'
  BY <1>7 DEF ReadRequest
<1>8. ASSUME NEW c \in Conn, GoActive(c) PROVE DrainInv'
  BY <1>8 DEF GoActive, SetState
<1>9. ASSUME NEW c \in Conn, ConnHook(c) PROVE DrainInv'
  BY <1>9 DEF ConnHook, Track, LateNew
<1>10. ASSUME NEW c \in Conn, FinishRequest(c) PROVE DrainInv'
  BY <1>10 DEF FinishRequest, SetState
<1>11. ASSUME NEW c \in Conn, Hijack(c) PROVE DrainInv'
  BY <1>11 DEF Hijack, SetState
<1>12. ASSUME NEW c \in Conn, ReadFails(c) PROVE DrainInv'
  BY <1>12 DEF ReadFails
<1>13. ASSUME NEW c \in Conn, EndConn(c) PROVE DrainInv'
  BY <1>13 DEF EndConn, SetState
<1>14. ASSUME NEW c \in Conn, SweepCloses(c) PROVE DrainInv'
  BY <1>14 DEF SweepCloses, SweepClose, InFlight
<1> QED
  BY <1>1, <1>2, <1>3, <1>4, <1>5, <1>6, <1>7, <1>8, <1>9, <1>10, <1>11, <1>12, <1>13, <1>14
     DEF ServerStep, ConnStep

LEMMA RunDrain ==
  ASSUME TypeOK, TrackerInv, LifecycleInv, DrainInv, RunStep \/ DeliverServeErr \/ Environment
  PROVE  DrainInv'
<1> USE ErrAssumption DEF TypeOK, TrackerTypeOK, NetTypeOK, RunTypeOK, LifecycleInv, ServeInv,
        RunInv, DrainInv, Accounted, NoMoreAccepts, ListenerGroupFree, serverVars, netVars,
        trackerVars, runVars, DrainPCs, GracefulPCs, RunPCs, ServeResults,
        ShutdownResults, ServePCs, AllHooks, None
<1>1. CASE SelectServeErr
  BY <1>1 DEF SelectServeErr, Goto
<1>2. CASE ServeExitReturns
  BY <1>2 DEF ServeExitReturns, Goto
<1>3. CASE SelectCtxDone
  BY <1>3 DEF SelectCtxDone, Goto, HookOr
<1>4. CASE PreDrainReturns
  BY <1>4 DEF PreDrainReturns, Goto
<1>5. CASE CallShutdown
  BY <1>5 DEF CallShutdown, Goto, BeginShutdown
<1>6. CASE AwaitServe
  BY <1>6 DEF AwaitServe, Goto
<1>7. CASE Poll
  BY <1>7 DEF Poll, Goto, ShutdownReturns, HookOr, CloseIdle, Closeable
<1>8. CASE PollAgain
  BY <1>8 DEF PollAgain, Goto
<1>9. CASE PollExpired
  BY <1>9 DEF PollExpired, ShutdownReturns, Goto, HookOr
<1>10. CASE OnShutdownReturns
  BY <1>10 DEF OnShutdownReturns, Goto
<1>11. CASE Recv
  BY <1>11 DEF Recv, Goto, GraceExpiryError
<1>12. CASE DeliverServeErr
  BY <1>12 DEF DeliverServeErr
<1>13. CASE Cancel
  BY <1>13 DEF Cancel
<1>14. CASE Expire
  BY <1>14 DEF Expire
<1>15. CASE CallerShutdown
  BY <1>15 DEF CallerShutdown, BeginShutdown
<1>16. CASE CallerPoll
  BY <1>16 DEF CallerPoll, CloseIdle, Closeable
<1>17. CASE CallerClose
  BY <1>17 DEF CallerClose
<1> QED
  BY <1>1, <1>2, <1>3, <1>4, <1>5, <1>6, <1>7, <1>8, <1>9,
     <1>10, <1>11, <1>12, <1>13, <1>14, <1>15, <1>16, <1>17
     DEF RunStep, Environment

LEMMA NextDrain == TypeOK /\ TrackerInv /\ LifecycleInv /\ DrainInv /\ [Next]_vars => DrainInv'
<1> SUFFICES ASSUME TypeOK, TrackerInv, LifecycleInv, DrainInv, [Next]_vars PROVE DrainInv'
  OBVIOUS
<1>1. CASE UNCHANGED vars
  BY <1>1 DEF vars, serverVars, netVars, trackerVars, runVars, DrainInv, Accounted,
     NoMoreAccepts, ListenerGroupFree
<1> QED BY <1>1, ServerDrain, RunDrain DEF Next, Returned, Server

(* After a graceful return of nil no accepted connection is still open,    *)
(* except those their handlers took over.                                  *)
THEOREM CleanReturn == Spec => []CleanReturnIsDrained
<1>1. TypeOK /\ LifecycleInv /\ DrainInv => CleanReturnIsDrained
  BY DEF DrainInv, Accounted, CleanReturnIsDrained, LifecycleInv, RunInv
<1>2. Spec => []DrainInv
  BY InitDrain, NextDrain, TypeCorrect, TrackerHolds, LifecycleHolds, PTL DEF Spec
<1> QED BY TypeCorrect, LifecycleHolds, <1>1, <1>2, PTL

=============================================================================
