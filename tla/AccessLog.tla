------------------------------ MODULE AccessLog ------------------------------
(***************************************************************************)
(* The deferred access line of RequestLogger (src/reqlog.go): which record *)
(* of a request is left, given what its StatusRecorder saw and how the     *)
(* caller's hooks behave.  The hooks run outside Recoverer, so a panic in  *)
(* one must not get away.  Wording, bounds and identifiers of the line are *)
(* abstracted.                                                             *)
(***************************************************************************)
EXTENDS StatusRecorder

(* A hook is not configured, works, or fails; a path transform fails by    *)
(* panicking or by returning nothing.                                      *)
HookOutcomes == {"none", "ok", "panics"}
LogHooks == [path : HookOutcomes \cup {"empty"}, clientIP : HookOutcomes,
             level : HookOutcomes, metric : HookOutcomes]

NoRecord == [lines |-> 0, status |-> 0, path |-> "none", clientIP |-> FALSE,
             level |-> "none", metrics |-> 0, escaped |-> FALSE]

(* safeLoggedPath: a transform that fails never leaks the raw path.        *)
LoggedPath(h) ==
  CASE h.path = "none" -> "raw"
    [] h.path = "ok"   -> "transformed"
    [] OTHER           -> "redacted"

(* emitAccessLog: one line, whatever the hooks do, and then the metric.    *)
EmitUnguarded(rec, skipUpgrades, h) ==       \* mutant: hooks are not isolated
  IF skipUpgrades /\ SwitchedProtocol(rec) THEN NoRecord
  ELSE [lines |-> IF "panics" \in {h.path, h.clientIP, h.level} THEN 0 ELSE 1,
        status |-> rec.status, path |-> LoggedPath(h), clientIP |-> h.clientIP = "ok",
        level |-> IF h.level = "ok" THEN "policy" ELSE "info",
        metrics |-> IF h.metric = "ok" THEN 1 ELSE 0,
        escaped |-> "panics" \in {h.path, h.clientIP, h.level, h.metric}]
EmitAccessLog(rec, skipUpgrades, h) ==
  IF skipUpgrades /\ SwitchedProtocol(rec) THEN NoRecord
  ELSE [lines |-> 1, status |-> rec.status, path |-> LoggedPath(h),
        clientIP |-> h.clientIP = "ok",
        level |-> IF h.level = "ok" THEN "policy" ELSE "info",
        metrics |-> IF h.metric = "ok" THEN 1 ELSE 0,
        escaped |-> FALSE]
=============================================================================
