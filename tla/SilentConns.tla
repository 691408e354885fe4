---------------------------- MODULE SilentConns ----------------------------
(***************************************************************************)
(* The connection tracker Run installs on the server (src/server.go,      *)
(* silentConns): the set of connections still in http.StateNew, which     *)
(* http.Server.Shutdown would count as active for 5 s, and the sweep that *)
(* closes them when a shutdown starts.                                     *)
(*                                                                         *)
(* track runs in the goroutine that changes the connection's state (the    *)
(* accept loop for StateNew, the connection's own goroutine afterwards);   *)
(* closeAll runs in a goroutine of its own, which Shutdown spawns.  Both   *)
(* touch the set under one mutex and close sockets only after unlocking    *)
(* it, so the locked region and each Close are separate steps here.        *)
(***************************************************************************)
EXTENDS Naturals, FiniteSets

CONSTANT Conn               \* the connections the listener may hand out

States == {"new", "active", "idle", "hijacked", "closed"}    \* http.ConnState

VARIABLES
  conns,      \* the keys of silentConns.conns
  mapNil,     \* silentConns.conns is the nil map: a write to it panics
  shutdown,   \* silentConns.shutdown
  toClose,    \* what closeAll took from the map and has not closed yet
  closed      \* the sockets the server side has closed

trackerVars == <<conns, mapNil, shutdown, toClose, closed>>

TrackerTypeOK ==
  /\ conns \subseteq Conn
  /\ mapNil \in BOOLEAN
  /\ shutdown \in BOOLEAN
  /\ toClose \subseteq Conn
  /\ closed \subseteq Conn

TrackerInit ==
  /\ conns = {}
  /\ mapNil = FALSE
  /\ shutdown = FALSE
  /\ toClose = {}
  /\ closed = {}

(* Mutants stand next to the definition a bug would turn into them.        *)
LateNewIgnored(state) == FALSE

(* A connection Serve reports after the sweep: accepted just before the   *)
(* listener closed.                                                        *)
LateNew(state) == state = "new" /\ shutdown

TrackKeepsActive(c, state) ==     \* mutant: forgets only connections that end
  /\ conns' = CASE LateNew(state) -> conns
                [] state = "new" -> conns \cup {c}
                [] state \in {"hijacked", "closed"} -> conns \ {c}
                [] OTHER -> conns
  /\ UNCHANGED <<mapNil, shutdown, toClose, closed>>

(* track's region under the mutex.                                         *)
Track(c, state) ==
  /\ conns' = IF LateNew(state) THEN conns
              ELSE IF state = "new" THEN conns \cup {c}
              ELSE conns \ {c}
  /\ UNCHANGED <<mapNil, shutdown, toClose, closed>>

(* track's conn.Close() after the unlock, for a late connection.           *)
CloseLate(c) ==
  /\ closed' = closed \cup {c}
  /\ UNCHANGED <<conns, mapNil, shutdown, toClose>>

SweepTakeSwapped ==     \* mutant: the map is reset before it is taken
  /\ shutdown' = TRUE
  /\ conns' = {}
  /\ mapNil' = TRUE
  /\ UNCHANGED <<toClose, closed>>

(* closeAll's region under the mutex: raise the flag, take the whole map.  *)
SweepTake ==
  /\ shutdown' = TRUE
  /\ toClose' = toClose \cup conns
  /\ conns' = {}
  /\ mapNil' = TRUE
  /\ UNCHANGED closed

(* closeAll's loop after the unlock: one conn.Close(), in map order.       *)
SweepClose(c) ==
  /\ c \in toClose
  /\ toClose' = toClose \ {c}
  /\ closed' = closed \cup {c}
  /\ UNCHANGED <<conns, mapNil, shutdown>>

=============================================================================
