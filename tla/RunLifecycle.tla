---------------------------- MODULE RunLifecycle ----------------------------
(***************************************************************************)
(* webhttp.Run (src/server.go): serve until the context is cancelled, then *)
(* pre-drain, Shutdown and onShutdown within one grace period; or, when    *)
(* Serve returns first, the serve-exit hook alone.  Composed with the      *)
(* server and the connection tracker of NetServer.                         *)
(*                                                                         *)
(* The environment cancels the context, lets the grace run out, returns    *)
(* from its hooks and may stop the server itself, each at any moment.      *)
(* Deadlines are booleans that may become true at any time once armed.     *)
(***************************************************************************)
EXTENDS NetServer

CONSTANT LnErrs             \* errors closing the listener may report

ASSUME ErrAssumption ==
  /\ {None, "nil", "graceExpired"} \cap (FatalErrs \cup LnErrs) = {}
  /\ "deadline" \notin LnErrs

VARIABLES
  run,          \* Run's program counter, see RunPCs
  hooks,        \* the hooks registered: see AllHooks
  cancelled,    \* ctx is done
  expired,      \* the deadline of the graceful sequence has passed
  serveErr,     \* content of the channel of capacity 1, "none" when empty
  shutdownErr,  \* what Run's srv.Shutdown returned, "none" before
  ret,          \* what Run returned, "none" before
  callerStop    \* how the caller stopped the server itself, if it did

runVars == <<run, hooks, cancelled, expired, serveErr, shutdownErr, ret, callerStop>>
vars == <<serverVars, runVars>>

AllHooks == {"preDrain", "onShutdown", "serveExit"}
DrainPCs == {"awaitServe", "poll", "pollWait"}
GracefulPCs == {"preDrain", "shutdown", "onShutdown", "recv"} \cup DrainPCs
RunPCs == {"serving", "serveExit", "returned"} \cup GracefulPCs
ServeResults == FatalErrs \cup {"nil"}
ShutdownResults == LnErrs \cup {"nil", "deadline"}

RunTypeOK ==
  /\ run \in RunPCs
  /\ hooks \subseteq AllHooks
  /\ cancelled \in BOOLEAN
  /\ expired \in BOOLEAN
  /\ serveErr \in ServeResults \cup {None}
  /\ shutdownErr \in ShutdownResults \cup {None}
  /\ ret \in ServeResults \cup LnErrs \cup {None, "graceExpired"}
  /\ callerStop \in {None, "shutdown", "close"}

TypeOK == TrackerTypeOK /\ NetTypeOK /\ RunTypeOK

Init ==
  /\ NetInit
  /\ run = "serving"
  /\ hooks \in SUBSET AllHooks
  /\ cancelled = FALSE
  /\ expired = FALSE
  /\ serveErr = None
  /\ shutdownErr = None
  /\ ret = None
  /\ callerStop = None

Goto(pc) == run' = pc

(* Skip a phase whose hook is nil.                                         *)
HookOr(h, next) == IF h \in hooks THEN h ELSE next

GraceExpiryErrorUnmarked(e) == e                             \* mutant
GraceExpiryErrorDropped(e) == IF e = "deadline" THEN "nil" ELSE e  \* mutant

(* graceExpiryError: only the drain's own deadline is marked.              *)
GraceExpiryError(e) == IF e = "deadline" THEN "graceExpired" ELSE e

-----------------------------------------------------------------------------
(* Run's own goroutine.                                                    *)

(* The select, first case.  When ctx is done too, either case may be taken. *)
SelectServeErr ==
  /\ run = "serving" /\ serveErr # None
  /\ serveErr' = None
  /\ IF "serveExit" \in hooks
       THEN Goto("serveExit") /\ ret' = ret
       ELSE Goto("returned") /\ ret' = serveErr
  /\ UNCHANGED <<serverVars, hooks, cancelled, expired, shutdownErr, callerStop>>

ServeExitReturns ==
  /\ run = "serveExit"
  /\ Goto("returned") /\ ret' = serveRes
  /\ UNCHANGED <<serverVars, hooks, cancelled, expired, serveErr, shutdownErr, callerStop>>

SelectCtxDone ==
  /\ run = "serving" /\ cancelled
  /\ Goto(HookOr("preDrain", "shutdown"))
  /\ UNCHANGED <<serverVars, hooks, cancelled, expired, serveErr, shutdownErr, ret, callerStop>>

PreDrainReturns ==
  /\ run = "preDrain"
  /\ Goto("shutdown")
  /\ UNCHANGED <<serverVars, hooks, cancelled, expired, serveErr, shutdownErr, ret, callerStop>>

CallShutdown ==
  /\ run = "shutdown"
  /\ BeginShutdown
  /\ Goto("awaitServe")
  /\ UNCHANGED <<trackerVars, serve, serveRes, st, hook, gor, tracked, served, cut,
                 hooks, cancelled, expired, serveErr, shutdownErr, ret, callerStop>>

AwaitServe ==
  /\ run = "awaitServe" /\ ListenerGroupFree
  /\ Goto("poll")
  /\ UNCHANGED <<serverVars, hooks, cancelled, expired, serveErr, shutdownErr, ret, callerStop>>

ShutdownReturns(e) ==
  /\ shutdownErr' = e
  /\ Goto(HookOr("onShutdown", "recv"))

Poll ==
  /\ run = "poll"
  /\ \E aged \in AgedSets :
       /\ CloseIdle(aged)
       /\ IF tracked = Closeable(aged)
            THEN \E e \in LnErrs \cup {"nil"} : ShutdownReturns(e)
            ELSE Goto("pollWait") /\ UNCHANGED shutdownErr
  /\ UNCHANGED <<conns, mapNil, shutdown, toClose, serve, serveRes, st, hook, gor,
                 inShutdown, sweeps, served, cut, hooks, cancelled, expired,
                 serveErr, ret, callerStop>>

PollAgain ==
  /\ run = "pollWait"
  /\ Goto("poll")
  /\ UNCHANGED <<serverVars, hooks, cancelled, expired, serveErr, shutdownErr, ret, callerStop>>

PollExpired ==
  /\ run = "pollWait" /\ expired
  /\ ShutdownReturns("deadline")
  /\ UNCHANGED <<serverVars, hooks, cancelled, expired, serveErr, ret, callerStop>>

OnShutdownReturns ==
  /\ run = "onShutdown"
  /\ Goto("recv")
  /\ UNCHANGED <<serverVars, hooks, cancelled, expired, serveErr, shutdownErr, ret, callerStop>>

RecvNoWait ==           \* mutant: does not wait for Serve
  /\ run = "recv"
  /\ serveErr' = None
  /\ Goto("returned")
  /\ ret' = IF serveErr \notin {None, "nil"} THEN serveErr
            ELSE GraceExpiryError(shutdownErr)
  /\ UNCHANGED <<serverVars, hooks, cancelled, expired, shutdownErr, callerStop>>

RecvShutdownFirst ==    \* mutant: the shutdown error hides the serve error
  /\ run = "recv" /\ serveErr # None
  /\ serveErr' = None
  /\ Goto("returned")
  /\ ret' = IF shutdownErr # "nil" THEN GraceExpiryError(shutdownErr) ELSE serveErr
  /\ UNCHANGED <<serverVars, hooks, cancelled, expired, shutdownErr, callerStop>>

(* The final receive: a serve error first, else the shutdown error.        *)
Recv ==
  /\ run = "recv" /\ serveErr # None
  /\ serveErr' = None
  /\ Goto("returned")
  /\ ret' = IF serveErr # "nil" THEN serveErr ELSE GraceExpiryError(shutdownErr)
  /\ UNCHANGED <<serverVars, hooks, cancelled, expired, shutdownErr, callerStop>>

DeliverFatalOnly ==     \* mutant: a clean stop is not reported
  /\ serve = "returned"
  /\ serve' = "done"
  /\ serveErr' = IF serveRes = "nil" THEN None ELSE serveRes
  /\ UNCHANGED <<trackerVars, serveRes, st, hook, gor, tracked, inShutdown, sweeps,
                 served, cut, run, hooks, cancelled, expired, shutdownErr, ret, callerStop>>

(* The goroutine around Serve: serveErr <- err.                            *)
DeliverServeErr ==
  /\ serve = "returned"
  /\ serve' = "done"
  /\ serveErr' = serveRes
  /\ UNCHANGED <<trackerVars, serveRes, st, hook, gor, tracked, inShutdown, sweeps,
                 served, cut, run, hooks, cancelled, expired, shutdownErr, ret, callerStop>>

-----------------------------------------------------------------------------
(* The environment.                                                        *)

Cancel ==
  /\ ~cancelled
  /\ cancelled' = TRUE
  /\ UNCHANGED <<serverVars, run, hooks, expired, serveErr, shutdownErr, ret, callerStop>>

Expire ==
  /\ run \in GracefulPCs /\ ~expired
  /\ expired' = TRUE
  /\ UNCHANGED <<serverVars, run, hooks, cancelled, serveErr, shutdownErr, ret, callerStop>>

CallerShutdown ==
  /\ callerStop = None /\ run # "returned"
  /\ callerStop' = "shutdown"
  /\ BeginShutdown
  /\ UNCHANGED <<trackerVars, serve, serveRes, st, hook, gor, tracked, served, cut,
                 run, hooks, cancelled, expired, serveErr, shutdownErr, ret>>

(* The polling of the caller's own Shutdown.                               *)
CallerPoll ==
  /\ callerStop = "shutdown" /\ ListenerGroupFree
  /\ \E aged \in AgedSets : Closeable(aged) # {} /\ CloseIdle(aged)
  /\ UNCHANGED <<conns, mapNil, shutdown, toClose, serve, serveRes, st, hook, gor,
                 inShutdown, sweeps, served, cut, runVars>>

(* srv.Close runs no registered callback and closes everything it tracks.  *)
CallerClose ==
  /\ callerStop = None /\ run # "returned"
  /\ callerStop' = "close"
  /\ inShutdown' = TRUE
  /\ closed' = closed \cup tracked
  /\ tracked' = {}
  /\ UNCHANGED <<conns, mapNil, shutdown, toClose, serve, serveRes, st, hook, gor,
                 sweeps, served, cut, run, hooks, cancelled, expired, serveErr,
                 shutdownErr, ret>>

(* Run has returned: what is left of the server may stop.                  *)
Returned == run = "returned" /\ UNCHANGED vars

-----------------------------------------------------------------------------
Server == ServerStep /\ UNCHANGED runVars

RunStep ==
  \/ SelectServeErr \/ ServeExitReturns \/ SelectCtxDone \/ PreDrainReturns
  \/ CallShutdown \/ AwaitServe \/ Poll \/ PollAgain \/ PollExpired
  \/ OnShutdownReturns \/ Recv

Environment == Cancel \/ Expire \/ CallerShutdown \/ CallerPoll \/ CallerClose

Next == RunStep \/ DeliverServeErr \/ Server \/ Environment \/ Returned

Spec == Init /\ [][Next]_vars

(* Fairness.  Goroutines that can run do run, a mutex is eventually        *)
(* granted, and the caller's hooks return (they are handed a context that  *)
(* ends).  A read from a closed socket and an Accept on a closed listener  *)
(* fail at once.  Once the grace has run out Shutdown's select finds its   *)
(* context ready and its timer not, so PollExpired is not put off for ever. *)
(* Nothing is assumed of peers, handlers, the clock or the caller: the     *)
(* grace may never run out, Shutdown's 5 s rule never apply, and a handler *)
(* hang, and what a property needs of these it says itself.                *)
Fairness ==
  /\ WF_vars(RunStep) /\ SF_vars(PollExpired)
  /\ WF_vars(DeliverServeErr)
  /\ WF_vars(ServeStart /\ UNCHANGED runVars)
  /\ WF_vars(inShutdown /\ AcceptFails /\ UNCHANGED runVars)
  /\ WF_vars(SweepStart /\ UNCHANGED runVars)
  /\ \A c \in Conn :
       /\ WF_vars(SweepCloses(c) /\ UNCHANGED runVars)
       /\ WF_vars((NewHook(c) \/ LateClose(c)) /\ UNCHANGED runVars)
       /\ WF_vars((GoActive(c) \/ ConnHook(c) \/ EndConn(c)) /\ UNCHANGED runVars)
       /\ WF_vars(c \in closed /\ ReadFails(c) /\ UNCHANGED runVars)

FairSpec == Spec /\ Fairness

(* The grace timer fires once it is due.                                   *)
TimerFires == WF_vars(Expire)

(* Handlers return, which is the application's business.                   *)
HandlersReturn == \A c \in Conn : WF_vars(FinishRequest(c) /\ UNCHANGED runVars)

-----------------------------------------------------------------------------
(* Safety.                                                                 *)

(* track never inserts into the map once closeAll has set it to nil: that  *)
(* insert (src/server.go:320) would panic in the accept loop and take the  *)
(* process down.  A connection accepted before the listener closed may have*)
(* its StateNew hook run after the sweep.  Deletes from a nil map do no    *)
(* harm, and the hooks of later states make them.                          *)
NoNilMapWrite == [][mapNil => conns' \subseteq conns]_vars

(* A connection is silent: track has been told of it, and it has neither   *)
(* sent a byte the server has read nor ended.                              *)
Silent(c) == st[c] = "new" /\ gor[c] = "reading"

(* No silent connection is lost: until the sweep it is in the tracker's    *)
(* set, and after the sweep it is closed or about to be.                   *)
NoSilentEscapes ==
  \A c \in Conn : Silent(c) => IF shutdown THEN c \in toClose \cup closed
                                           ELSE c \in conns

(* The sweep spares every connection whose first request the tracker heard *)
(* of in time: only a connection that was still silent when the sweep took *)
(* its snapshot may have a request cut short.                              *)
SweepSparesServed == served \cap (conns \cup toClose \cup cut) = {}

(* A graceful return without an error means the server is drained: every   *)
(* connection it accepted is closed, or was taken over by its handler.     *)
CleanReturnIsDrained ==
  run = "returned" /\ shutdownErr # None /\ ret = "nil" =>
    \A c \in Conn : st[c] \in {None, "hijacked"} \/ c \in closed

(* Run leaves no Serve behind: its listener is closed and its accept loop  *)
(* has ended, on every path.                                               *)
ServeEndsBeforeRun == run = "returned" => serve = "done"

-----------------------------------------------------------------------------
(* Refinement: Run keeps its promise.                                      *)

Drained == {"drain"} \cup (hooks \cap {"preDrain"})
Ran ==
  CASE run = "serving"    -> {}
    [] run = "serveExit"  -> {"serveExit"}
    [] run = "preDrain"   -> {"preDrain"}
    [] run = "shutdown"   -> hooks \cap {"preDrain"}
    [] run \in DrainPCs   -> Drained
    [] run = "onShutdown" -> Drained \cup {"onShutdown"}
    [] run = "recv"       -> Drained \cup (hooks \cap {"onShutdown"})
    [] OTHER -> IF shutdownErr = None THEN hooks \cap {"serveExit"}
                ELSE Drained \cup (hooks \cap {"onShutdown"})

Promise == INSTANCE RunPromise WITH ran <- Ran

(* Run runs exactly one of its two sequences, in order and completely,     *)
(* and chooses its return value as documented.                             *)
KeepsPromise == Promise!Spec

-----------------------------------------------------------------------------
(* Liveness.                                                               *)

(* Once the context is cancelled Run returns, whatever handlers and peers  *)
(* do: the one grace period bounds the whole sequence (src/server.go:227). *)
CancelledRunReturns == TimerFires => (cancelled ~> run = "returned")

(* If handlers return a cancelled Run does too, without the grace running  *)
(* out and without the 5 s after which Shutdown gives up on a silent peer: *)
(* no silent peer holds it up, not one accepted as the listener closed     *)
(* either (silentConns' comment, src/server.go:303).                       *)
SilentPeersDoNotHold == HandlersReturn => (cancelled ~> run = "returned")

(* Once a shutdown has begun every silent connection is closed, or turns   *)
(* out to have sent a request after all.                                   *)
SilentIsClosed ==
  \A c \in Conn : (shutdown /\ Silent(c)) ~> (c \in closed \/ ~Silent(c))

=============================================================================
