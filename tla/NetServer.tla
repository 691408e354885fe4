----------------------------- MODULE NetServer -----------------------------
(***************************************************************************)
(* The net/http server Run drives, as far as Run depends on it: the accept *)
(* loop of Serve, one goroutine per connection, the ConnState hook calls   *)
(* that feed the tracker of SilentConns, and the pieces of Shutdown.       *)
(*                                                                         *)
(* net/http itself is outside src/: it is modelled from what Run relies on *)
(* (the comments in src/server.go and src/docs/server.md).  It sets a      *)
(* connection's state before it calls the hook, calls the hook for         *)
(* StateNew in the accept loop before the connection's goroutine starts,   *)
(* and makes every other call in that goroutine.  A request's bytes are    *)
(* read before StateActive is set.  Run wraps the caller's hook, which may *)
(* take any time, so a state change and the tracker's call are two steps.  *)
(***************************************************************************)
EXTENDS SilentConns

CONSTANT FatalErrs          \* errors the accept loop may die of

None == "none"

VARIABLES
  serve,      \* the goroutine running Serve: see ServePCs
  serveRes,   \* what Serve returned, http.ErrServerClosed normalised to "nil"
  st,         \* st[c]: the connection's http.ConnState, "none" before accept
  hook,       \* hook[c]: the state whose ConnState hook call is in progress,
              \* "late" while track closes a late connection
  gor,        \* gor[c]: the connection's goroutine, see GoroutinePCs
  tracked,    \* the server's activeConn
  inShutdown, \* Shutdown or Close has been called: no new Serve, no keep-alive
  sweeps,     \* closeAll goroutines spawned and not yet in their locked region
  served,     \* history: connections whose StateActive reached track before the sweep
  cut         \* history: connections the tracker closed with a request in flight

netVars == <<serve, serveRes, st, hook, gor, tracked, inShutdown, sweeps,
             served, cut>>
serverVars == <<trackerVars, netVars>>

ServePCs == {"start", "accept", "newHook", "returned", "done"}
GoroutinePCs == {"none", "reading", "parsed", "handling", "idling", "ending", "gone"}

NetTypeOK ==
  /\ serve \in ServePCs
  /\ serveRes \in FatalErrs \cup {None, "nil"}
  /\ st \in [Conn -> States \cup {None}]
  /\ hook \in [Conn -> States \cup {None, "late"}]
  /\ gor \in [Conn -> GoroutinePCs]
  /\ tracked \subseteq Conn
  /\ inShutdown \in BOOLEAN
  /\ sweeps \in Nat
  /\ served \subseteq Conn
  /\ cut \subseteq Conn

NetInit ==
  /\ TrackerInit
  /\ serve = "start"
  /\ serveRes = None
  /\ st = [c \in Conn |-> None]
  /\ hook = [c \in Conn |-> None]
  /\ gor = [c \in Conn |-> None]
  /\ tracked = {}
  /\ inShutdown = FALSE
  /\ sweeps = 0
  /\ served = {}
  /\ cut = {}

(* A request of c has been read, or its handler or its hijacker still owns it. *)
InFlight(c) == gor[c] \in {"parsed", "handling"} \/ st[c] = "hijacked"

-----------------------------------------------------------------------------
(* The goroutine that runs Serve.                                          *)

(* A server already shut down refuses to serve: ErrServerClosed.           *)
ServeStart ==
  /\ serve = "start"
  /\ IF inShutdown THEN serve' = "returned" /\ serveRes' = "nil"
                   ELSE serve' = "accept" /\ UNCHANGED serveRes
  /\ UNCHANGED <<trackerVars, st, hook, gor, tracked, inShutdown,
                 sweeps, served, cut>>

(* A connection may still come out of Accept after the listener's close,   *)
(* if the accept raced it.                                                 *)
Accept(c) ==
  /\ serve = "accept" /\ st[c] = None
  /\ serve' = "newHook"
  /\ st' = [st EXCEPT ![c] = "new"]
  /\ tracked' = tracked \cup {c}
  /\ hook' = [hook EXCEPT ![c] = "new"]
  /\ UNCHANGED <<trackerVars, serveRes, gor, inShutdown, sweeps, served, cut>>

StartGoroutine(c) ==
  /\ serve' = "accept"
  /\ hook' = [hook EXCEPT ![c] = None]
  /\ gor' = [gor EXCEPT ![c] = "reading"]

(* The StateNew hook: the caller's hook, then track.                       *)
NewHook(c) ==
  /\ hook[c] = "new"
  /\ Track(c, "new")
  /\ IF LateNew("new")
       THEN hook' = [hook EXCEPT ![c] = "late"] /\ UNCHANGED <<serve, gor>>
       ELSE StartGoroutine(c)
  /\ UNCHANGED <<serveRes, st, tracked, inShutdown, sweeps, served, cut>>

LateClose(c) ==
  /\ hook[c] = "late"
  /\ CloseLate(c)
  /\ StartGoroutine(c)
  /\ cut' = IF InFlight(c) THEN cut \cup {c} ELSE cut
  /\ UNCHANGED <<serveRes, st, tracked, inShutdown, sweeps, served>>

(* Accept fails: with the listener closed by Shutdown this is              *)
(* ErrServerClosed, which Run's goroutine normalises to nil.               *)
AcceptFails ==
  /\ serve = "accept"
  /\ serve' = "returned"
  /\ \/ inShutdown /\ serveRes' = "nil"
     \/ ~inShutdown /\ serveRes' \in FatalErrs
  /\ UNCHANGED <<trackerVars, st, hook, gor, tracked, inShutdown,
                 sweeps, served, cut>>

-----------------------------------------------------------------------------
(* The goroutine of one connection.                                        *)

ReadRequest(c) ==
  /\ gor[c] = "reading" /\ c \notin closed
  /\ gor' = [gor EXCEPT ![c] = "parsed"]
  /\ UNCHANGED <<trackerVars, serve, serveRes, st, hook, tracked,
                 inShutdown, sweeps, served, cut>>

SetState(c, s) ==
  /\ st' = [st EXCEPT ![c] = s]
  /\ hook' = [hook EXCEPT ![c] = s]
  /\ tracked' = IF s \in {"hijacked", "closed"} THEN tracked \ {c} ELSE tracked

GoActive(c) ==
  /\ gor[c] = "parsed" /\ hook[c] = None
  /\ SetState(c, "active")
  /\ UNCHANGED <<trackerVars, serve, serveRes, gor, inShutdown,
                 sweeps, served, cut>>

(* A ConnState hook call of the connection's goroutine: the caller's hook, *)
(* then track.  After StateIdle net/http closes instead of reading again   *)
(* when keep-alives are off, as they are once Shutdown has begun.          *)
ConnHook(c) ==
  /\ hook[c] \in {"active", "idle", "hijacked", "closed"}
  /\ Track(c, hook[c])
  /\ hook' = [hook EXCEPT ![c] = None]
  /\ gor' = [gor EXCEPT ![c] =
               CASE hook[c] = "active" -> "handling"
                 [] hook[c] = "idle"   -> IF inShutdown THEN "ending" ELSE "reading"
                 [] OTHER              -> "gone"]
  /\ served' = IF hook[c] = "active" /\ ~shutdown THEN served \cup {c} ELSE served
  /\ UNCHANGED <<serve, serveRes, st, tracked, inShutdown, sweeps, cut>>

(* The handler returns: keep the connection, or drop it (Connection:       *)
(* close, or a failed write).                                              *)
FinishRequest(c) ==
  /\ gor[c] = "handling" /\ hook[c] = None
  /\ \/ SetState(c, "idle") /\ gor' = [gor EXCEPT ![c] = "idling"]
     \/ gor' = [gor EXCEPT ![c] = "ending"] /\ UNCHANGED <<st, hook, tracked>>
  /\ UNCHANGED <<trackerVars, serve, serveRes, inShutdown, sweeps,
                 served, cut>>

Hijack(c) ==
  /\ gor[c] = "handling" /\ hook[c] = None
  /\ SetState(c, "hijacked")
  /\ UNCHANGED <<trackerVars, serve, serveRes, gor, inShutdown,
                 sweeps, served, cut>>

(* The read of the next request fails: the peer is gone, or the server     *)
(* closed the socket.                                                      *)
ReadFails(c) ==
  /\ gor[c] = "reading"
  /\ gor' = [gor EXCEPT ![c] = "ending"]
  /\ UNCHANGED <<trackerVars, serve, serveRes, st, hook, tracked,
                 inShutdown, sweeps, served, cut>>

EndConn(c) ==
  /\ gor[c] = "ending" /\ hook[c] = None
  /\ SetState(c, "closed")
  /\ closed' = closed \cup {c}
  /\ UNCHANGED <<conns, mapNil, shutdown, toClose, serve, serveRes,
                 gor, inShutdown, sweeps, served, cut>>

-----------------------------------------------------------------------------
(* Shutdown.                                                               *)

(* Shutdown's first part: listener closed, one goroutine per registered    *)
(* callback, and closeAll is registered.                                   *)
BeginShutdown ==
  /\ inShutdown' = TRUE
  /\ sweeps' = sweeps + 1

SweepStart ==
  /\ sweeps > 0
  /\ sweeps' = sweeps - 1
  /\ SweepTake
  /\ UNCHANGED <<serve, serveRes, st, hook, gor, tracked, inShutdown,
                 served, cut>>

SweepCloses(c) ==
  /\ SweepClose(c)
  /\ cut' = IF InFlight(c) THEN cut \cup {c} ELSE cut
  /\ UNCHANGED <<serve, serveRes, st, hook, gor, tracked, inShutdown,
                 sweeps, served>>

(* The connections a pass of closeIdleConns closes: a connection still in  *)
(* StateNew counts as idle only once it is 5 s old.                        *)
Closeable(aged) == {c \in tracked : st[c] = "idle" \/ (st[c] = "new" /\ c \in aged)}
AgedSets == SUBSET tracked

CloseIdle(aged) ==
  /\ closed' = closed \cup Closeable(aged)
  /\ tracked' = tracked \ Closeable(aged)

(* Shutdown's wait for the accept loop: Serve has returned, or never       *)
(* registered its listener.                                                *)
ListenerGroupFree == serve \in {"start", "returned", "done"}

ConnStep(c) ==
  \/ Accept(c) \/ NewHook(c) \/ LateClose(c)
  \/ ReadRequest(c) \/ GoActive(c) \/ ConnHook(c) \/ FinishRequest(c)
  \/ Hijack(c) \/ ReadFails(c) \/ EndConn(c)

ServerStep ==
  \/ ServeStart \/ AcceptFails \/ SweepStart
  \/ \E c \in Conn : ConnStep(c) \/ SweepCloses(c)

=============================================================================
