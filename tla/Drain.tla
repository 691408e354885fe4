-------------------------------- MODULE Drain --------------------------------
(***************************************************************************)
(* A service around Run, as Run's promise (RunPromise) lets it be: Ready   *)
(* and ReadinessHandler (src/readiness.go) probed by a load balancer, a    *)
(* pre-drain hook that clears the flag and ends the long-lived streams, and*)
(* teardowns that wait with AwaitDone (src/server.go) for a background     *)
(* worker.  The caller reads Run's result with CausedByCancellation.       *)
(***************************************************************************)
EXTENDS RunPromise

CONSTANTS
  Ends,          \* how ctx may end: "canceled", "deadline", or "cause"
  ChainOf        \* what errors.Is finds in each result of Run

VARIABLES
  ctx,           \* "live", or how it ended
  pc,            \* where the hooks are
  exitExpired,   \* the serve-exit hook's own grace has run out
  ready,         \* Ready.flag
  stream,        \* a long-lived response: "open", "ending", "closed"
  worker,        \* "running" or "done"; done is its closed channel
  inTime,        \* history: it was done before the hook's context expired
  routes,        \* the load balancer sends traffic here
  probe,         \* its probe: "none", "sent", "ok", "refused"
  cachedOk       \* a cache on the way holds an "ok"

service == <<pc, exitExpired, stream, worker, inTime>>
balancer == <<routes, probe, cachedOk>>
drainVars == <<promiseVars, ctx, ready, service, balancer>>

DrainInit ==
  /\ Init
  /\ ctx = "live" /\ pc = "idle" /\ exitExpired = FALSE
  /\ ready = FALSE
  /\ stream \in {"open", "closed"} /\ worker = "running" /\ inTime = FALSE
  /\ routes = FALSE /\ probe = "none" /\ cachedOk = FALSE

-----------------------------------------------------------------------------
(* Run's phases, and the hooks' bodies.                                    *)

(* The service is initialised; its flag is not set again once ctx ended.   *)
SetReady ==
  /\ ctx = "live" /\ ran = {} /\ ~ready
  /\ ready' = TRUE
  /\ UNCHANGED <<promiseVars, ctx, service, balancer>>

Cancel ==
  /\ ctx = "live"
  /\ ctx' \in Ends
  /\ UNCHANGED <<promiseVars, ready, service, balancer>>

PreDrainStarts ==
  /\ ctx # "live" /\ Phase /\ ran' = {"preDrain"}
  /\ pc' = "preDrain"
  /\ UNCHANGED <<ctx, exitExpired, ready, stream, worker, inTime, balancer>>

ClearReady ==
  /\ pc = "preDrain"
  /\ ready' = FALSE /\ pc' = "unready"
  /\ UNCHANGED <<promiseVars, ctx, exitExpired, stream, worker, inTime, balancer>>

EndStreams ==
  /\ pc = "unready"
  /\ stream' = (IF stream = "open" THEN "ending" ELSE stream) /\ pc' = "preDrained"
  /\ UNCHANGED <<promiseVars, ctx, exitExpired, ready, worker, inTime, balancer>>

DrainStarts ==
  /\ ctx # "live" /\ pc \in {"idle", "preDrained"}
  /\ Phase /\ "drain" \in ran'
  /\ pc' = "drain"
  /\ UNCHANGED <<ctx, exitExpired, ready, stream, worker, inTime, balancer>>

(* Shutdown returns when nothing is in flight, or with the grace.          *)
Drained ==
  /\ pc = "drain" /\ (stream = "closed" \/ expired)
  /\ pc' = "drained"
  /\ UNCHANGED <<promiseVars, ctx, exitExpired, ready, stream, worker, inTime, balancer>>

TeardownStarts ==
  /\ pc = "drained" /\ Phase /\ "onShutdown" \in ran'
  /\ pc' = "await"
  /\ UNCHANGED <<ctx, exitExpired, ready, stream, worker, inTime, balancer>>

(* Nothing has cancelled ctx on this path, so the hook does.               *)
ServeExitStarts ==
  /\ pc = "idle" /\ Phase /\ "serveExit" \in ran'
  /\ ctx' = (IF ctx = "live" THEN "canceled" ELSE ctx) /\ pc' = "await"
  /\ UNCHANGED <<exitExpired, ready, stream, worker, inTime, balancer>>

HookExpired == IF "serveExit" \in ran THEN exitExpired ELSE expired

ExitExpires ==
  /\ "serveExit" \in ran /\ ret = "none"
  /\ exitExpired' = TRUE
  /\ UNCHANGED <<promiseVars, ctx, pc, ready, stream, worker, inTime, balancer>>

(* AwaitDone: a select of two cases, and after the context's a second look.*)
AwaitContextOnly ==               \* mutant: the wait sees only its context
  /\ pc = "await" /\ HookExpired
  /\ pc' = "recheck"
  /\ UNCHANGED <<promiseVars, ctx, exitExpired, ready, stream, worker, inTime, balancer>>
AwaitSelect ==
  /\ pc = "await"
  /\ \/ worker = "done" /\ pc' = "finished"
     \/ HookExpired /\ pc' = "recheck"
  /\ UNCHANGED <<promiseVars, ctx, exitExpired, ready, stream, worker, inTime, balancer>>

AwaitGivesUp ==                   \* mutant: no second look
  /\ pc = "recheck"
  /\ pc' = "unfinished"
  /\ UNCHANGED <<promiseVars, ctx, exitExpired, ready, stream, worker, inTime, balancer>>
AwaitRecheck ==
  /\ pc = "recheck"
  /\ pc' = IF worker = "done" THEN "finished" ELSE "unfinished"
  /\ UNCHANGED <<promiseVars, ctx, exitExpired, ready, stream, worker, inTime, balancer>>

HooksDone ==
  IF ran \cap {"onShutdown", "serveExit"} # {} THEN pc \in {"finished", "unfinished"}
  ELSE pc \in {"idle", "drained"}

RunReturns ==
  /\ HooksDone /\ Return
  /\ UNCHANGED <<ctx, ready, service, balancer>>

ServerEnds == ServeEnds /\ UNCHANGED <<ctx, ready, service, balancer>>
GraceExpires == Expire /\ UNCHANGED <<ctx, ready, service, balancer>>

StreamEnds ==
  /\ stream = "ending" /\ stream' = "closed"
  /\ UNCHANGED <<promiseVars, ctx, pc, exitExpired, ready, worker, inTime, balancer>>

WorkerEnds ==
  /\ worker = "running" /\ ctx # "live"
  /\ worker' = "done" /\ inTime' = ~HookExpired
  /\ UNCHANGED <<promiseVars, ctx, pc, exitExpired, ready, stream, balancer>>

-----------------------------------------------------------------------------
(* The load balancer probes, through a cache.                              *)
ReadinessHandlerCacheable == [ok |-> ready, noStore |-> FALSE]       \* mutant
ReadinessHandler == [ok |-> ready, noStore |-> TRUE]

SendProbe ==
  /\ probe = "none"
  /\ probe' = IF cachedOk THEN "ok" ELSE "sent"
  /\ UNCHANGED <<promiseVars, ctx, ready, service, routes, cachedOk>>

AnswerProbe ==
  /\ probe = "sent"
  /\ IF serveRes # "none" THEN probe' = "refused" /\ UNCHANGED cachedOk
     ELSE /\ probe' = IF ReadinessHandler.ok THEN "ok" ELSE "refused"
          /\ cachedOk' = (ReadinessHandler.ok /\ ~ReadinessHandler.noStore)
  /\ UNCHANGED <<promiseVars, ctx, ready, service, routes>>

TakeProbe ==
  /\ probe \in {"ok", "refused"}
  /\ routes' = (probe = "ok") /\ probe' = "none"
  /\ UNCHANGED <<promiseVars, ctx, ready, service, cachedOk>>

-----------------------------------------------------------------------------
ServiceStep ==
  \/ PreDrainStarts \/ ClearReady \/ EndStreams \/ DrainStarts \/ Drained
  \/ TeardownStarts \/ ServeExitStarts \/ AwaitSelect \/ AwaitRecheck \/ RunReturns

BalancerStep == SendProbe \/ AnswerProbe \/ TakeProbe

DrainNext ==
  \/ ServiceStep \/ BalancerStep
  \/ SetReady \/ Cancel \/ ServerEnds \/ GraceExpires \/ ExitExpires
  \/ StreamEnds \/ WorkerEnds

(* Run and the hooks proceed, Serve ends once Shutdown has closed the      *)
(* listener, streams and the worker end when told, the balancer keeps      *)
(* probing.  Neither the grace nor a probe's timing is relied on.          *)
DrainSpec ==
  /\ DrainInit /\ [][DrainNext]_drainVars
  /\ WF_drainVars(ServiceStep) /\ WF_drainVars(BalancerStep)
  /\ WF_drainVars("drain" \in ran /\ ServerEnds)
  /\ WF_drainVars(StreamEnds) /\ WF_drainVars(WorkerEnds)

-----------------------------------------------------------------------------
(* ctx.Err() and context.Cause(ctx).                                       *)
CtxErrs == IF ctx = "deadline" THEN {"deadline"} ELSE IF ctx = "cause" THEN {"canceled", "cause"} ELSE {"canceled"}
CausedByCancellation(err) ==
  /\ err # "nil" /\ ctx # "live"
  /\ ChainOf[err] \cap CtxErrs # {}

(* A teardown reports a worker unfinished only if it was not done when the *)
(* context expired, although both may be ready when AwaitDone looks, and   *)
(* finished only if it is (AwaitDone's comment, src/server.go:368); and Run*)
(* does not return before the hook has reported.                           *)
FinishedIsReported ==
  /\ ret # "none" => pc \in {"idle", "drained", "finished", "unfinished"}
  /\ pc = "unfinished" => ~inTime
  /\ pc = "finished" => worker = "done"

(* An error Serve failed with while ctx was live is never read as the end  *)
(* of ctx, whenever ctx ends after it: CausedByCancellation is to tell a   *)
(* routine stop from a fault at the same moment, by proof (its comment,    *)
(* src/server.go:394).                                                     *)
FaultIsNotAStop ==
  \A e \in FatalErrs :
    [](ctx = "live" /\ serveRes = e => [](ret = e => ~CausedByCancellation(e)))

(* Once the pre-drain hook has run, traffic stops for good: a probe in     *)
(* flight may bring it back once, a cached answer never does (the comment  *)
(* of ReadinessHandler, src/readiness.go:56).                              *)
TrafficStops == "drain" \in ran /\ "preDrain" \in hooks ~> [](~routes)

(* With a pre-drain hook that ends the streams, a cancelled Run returns    *)
(* without the grace having to run out (WithPreDrain, src/server.go:186).  *)
StopNeedsNoGrace == ctx # "live" /\ "preDrain" \in hooks ~> ret # "none"
=============================================================================
