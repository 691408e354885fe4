----------------------------- MODULE RequestLine -----------------------------
(***************************************************************************)
(* What RequestLogger (src/reqlog.go) records of one request: its id, the  *)
(* path and method of the access line, the labels of the metric.  Below it *)
(* are middleware that may replace the request (RouteTimeout does) and an  *)
(* http.ServeMux, which leaves its pattern in the request it was given.    *)
(* A path is a sequence of bytes; "c" continues the rune of an "L", and a  *)
(* marker the code appends counts as one byte.                             *)
(***************************************************************************)
EXTENDS SequencesExt

CONSTANTS
  LogOptions,          \* the options an application may pass, [opt, arg]
  MaxOptions,
  Targets,             \* the paths asked for, each with the pattern it matches
  NoPattern,           \* r.Pattern of a request no pattern matched
  Nil, None,           \* a nil function; nothing yet, or nothing sent
  Methods, StandardMethods, OverlongMethods,
  InboundIds, ValidIds, Minted,
  Bytes,               \* of a path, the code's markers among them
  Credential,          \* bytes that occur in no pattern
  Transformed,         \* what a working WithPathFunc transform returns
  DefaultMaxLoggedPath

ASSUME LineAssumption ==
  /\ StandardMethods \cup OverlongMethods \subseteq Methods
  /\ StandardMethods \cap OverlongMethods = {} /\ "(overlong)" \notin OverlongMethods
  /\ Minted \in ValidIds \ InboundIds
  /\ DefaultMaxLoggedPath \in Nat \ {0} /\ MaxOptions \in Nat
  /\ None \notin {"plain", "request", "route"}

(* Paths and options are of the types Go gives them; a transform works,    *)
(* returns nothing or panics.                                              *)
ASSUME PathAssumption ==
  /\ {"(unmatched)", "(path-redaction-failed)", "...(truncated)"} \subseteq Bytes
  /\ Transformed \in Seq(Bytes)
  /\ \A t \in Targets :
       /\ t.path \in Seq(Bytes)
       /\ t.pattern # NoPattern => t.pattern.host \in Seq(Bytes) /\ t.pattern.path \in Seq(Bytes)
  /\ \A o \in LogOptions :
       /\ o = [opt |-> o.opt, arg |-> o.arg]
       /\ o.opt = "pathFunc" => o.arg \in {"ok", "empty", "panics", Nil}
       /\ o.opt = "templates" => o.arg \subseteq Seq(Bytes)
       /\ o.opt = "maxPath" => o.arg \in Int

(* No pattern and no configured prefix holds a credential, nor does what a *)
(* working transform returns or what the code itself writes.               *)
ASSUME CredentialAssumption ==
  /\ Credential \cap {"(unmatched)", "unmatched", "(path-redaction-failed)", "...(truncated)"} = {}
  /\ Credential \cap ToSet(Transformed) = {}
  /\ \A t \in Targets : t.pattern # NoPattern =>
       Credential \cap (ToSet(t.pattern.host) \cup ToSet(t.pattern.path)) = {}
  /\ \A o \in LogOptions : o.opt = "templates" => \A p \in o.arg : Credential \cap ToSet(p) = {}

VARIABLES
  opts,                \* the options of this logger, in order
  stage,               \* "idle", "received", "routed", "done"
  req,                 \* the request as net/http parsed it
  shared,              \* the mux has the same *http.Request as the logger
  pattern,             \* r.Pattern of the logger's request
  ids,                 \* the request id in the response, the context, an error body
  line,                \* the access line
  metric               \* what the metric hook was called with, if any

lineVars == <<opts, stage, req, shared, pattern, ids, line, metric>>

Requests == [method : Methods, target : Targets, id : InboundIds]

-----------------------------------------------------------------------------
(* The options.                                                            *)
DefaultConfig ==
  [skipPaths |-> {}, skipFunc |-> {}, pathFunc |-> Nil, hooks |-> {}, maxPath |-> DefaultMaxLoggedPath]

(* WithTemplatePathsUnder drops empty prefixes.                            *)
Kept(prefixes) == prefixes \ {<<>>}

(* The metric hooks after an option; a nil hook is ignored but for plain.  *)
Hooks(hooks, o) ==
  IF o.arg # Nil THEN {o.opt} ELSE IF o.opt = "plain" THEN {} ELSE hooks

Apply(c, o) ==
  CASE o.opt = "skipPaths" -> [c EXCEPT !.skipPaths = @ \cup o.arg]
    [] o.opt = "skipFunc" -> [c EXCEPT !.skipFunc = o.arg]
    [] o.opt = "pathFunc" /\ o.arg # Nil -> [c EXCEPT !.pathFunc = o]
    [] o.opt = "templates" /\ Kept(o.arg) # {} -> [c EXCEPT !.pathFunc = o]
    [] o.opt = "maxPath" /\ o.arg > 0 -> [c EXCEPT !.maxPath = o.arg]
    [] o.opt \in {"plain", "request", "route"} -> [c EXCEPT !.hooks = Hooks(@, o)]
    [] OTHER -> c

Config ==
  LET after[n \in 0..Len(opts)] ==
        IF n = 0 THEN DefaultConfig ELSE Apply(after[n - 1], opts[n])
  IN after[Len(opts)]

Path == req.target.path
Skipped == Path \in Config.skipPaths \cup Config.skipFunc

-----------------------------------------------------------------------------
(* What is recorded.                                                       *)
ValidRequestID(id) == id \in ValidIds

TemplatePathOrRaw(prefixes) ==                \* mutant: no pattern, raw path
  IF pattern # NoPattern THEN pattern.path ELSE Path
TemplatePath(prefixes) ==
  LET under == {p \in prefixes : IsPrefix(p, Path)}
  IN IF under = {} THEN Path
     ELSE IF pattern # NoPattern THEN pattern.path
     ELSE (CHOOSE p \in under : \A q \in under : Len(q) <= Len(p)) \o <<"(unmatched)">>

SafeLoggedPath(f) ==
  CASE f.opt = "templates" -> TemplatePath(Kept(f.arg))
    [] f.opt = "pathFunc" /\ f.arg = "ok" -> Transformed
    [] f.opt = "pathFunc" /\ f.arg \in {"empty", "panics"} -> <<"(path-redaction-failed)">>

PolicyPath == IF Config.pathFunc = Nil THEN Path ELSE SafeLoggedPath(Config.pathFunc)

BoundLoggedPathBytes(p, maxLen) ==            \* mutant: cut at the byte
  IF Len(p) <= maxLen THEN p ELSE SubSeq(p, 1, maxLen) \o <<"...(truncated)">>
BoundLoggedPath(p, maxLen) ==
  IF Len(p) <= maxLen THEN p
  ELSE LET cut == CHOOSE n \in 0..maxLen :
                    /\ n > 0 => p[n + 1] # "c"
                    /\ \A i \in (n + 1)..maxLen : p[i + 1] = "c"
       IN SubSeq(p, 1, cut) \o <<"...(truncated)">>

BoundLoggedMethod(method) == IF method \in OverlongMethods THEN "(overlong)" ELSE method

RouteMetricMethod(method) == IF method \in StandardMethods THEN method ELSE "other"
RouteMetricPath == IF pattern = NoPattern THEN <<"unmatched">> ELSE pattern.host \o pattern.path

(* safeRecordMetric; WithRecordMetricRequest's hook has the request itself.*)
RecordMetric ==
  LET hooks == Config.hooks
  IN IF "route" \in hooks
       THEN [hook |-> "route", method |-> RouteMetricMethod(req.method), path |-> RouteMetricPath]
     ELSE IF "request" \in hooks
       THEN [hook |-> "request", method |-> req.method, path |-> Path]
     ELSE IF "plain" \in hooks
       THEN [hook |-> "plain", method |-> BoundLoggedMethod(req.method),
             path |-> BoundLoggedPath(PolicyPath, Config.maxPath)]
     ELSE [hook |-> None, method |-> None, path |-> <<>>]

-----------------------------------------------------------------------------
LineInit ==
  /\ opts \in BoundedSeq(LogOptions, MaxOptions)
  /\ stage = "idle" /\ req \in Requests
  /\ shared = TRUE /\ pattern = NoPattern
  /\ ids = [response |-> None, context |-> None, envelope |-> None]
  /\ line = None /\ metric = None

(* RequestLogger up to next.ServeHTTP.                                     *)
Receive ==
  /\ stage = "idle" /\ stage' = "received"
  /\ LET id == IF ValidRequestID(req.id) THEN req.id ELSE Minted
     IN ids' = [ids EXCEPT !.response = id, !.context = id]
  /\ UNCHANGED <<opts, req, shared, pattern, line, metric>>

(* A middleware passes on a clone of the request, RouteTimeout's for one.  *)
Clone ==
  /\ stage = "received" /\ shared
  /\ shared' = FALSE
  /\ UNCHANGED <<opts, stage, req, pattern, ids, line, metric>>

(* The mux serves the request, or a middleware answers it before the mux.  *)
Serve ==
  /\ stage = "received" /\ stage' = "routed"
  /\ pattern' \in {NoPattern, IF shared THEN req.target.pattern ELSE NoPattern}
  /\ UNCHANGED <<opts, req, shared, ids, line, metric>>

(* The answer may be an error, from WriteError, RouteTimeout or Recoverer. *)
ErrorEnvelope ==
  /\ stage = "routed" /\ ids.envelope = None
  /\ ids' = [ids EXCEPT !.envelope = ids.context]
  /\ UNCHANGED <<opts, stage, req, shared, pattern, line, metric>>

(* A skipped request has no deferred emitAccessLog.                        *)
Emit ==
  /\ stage = "routed" /\ stage' = "done"
  /\ IF Skipped THEN UNCHANGED <<line, metric>>
     ELSE /\ line' = [method |-> BoundLoggedMethod(req.method), id |-> ids.context,
                      path |-> BoundLoggedPath(PolicyPath, Config.maxPath)]
          /\ metric' = RecordMetric
  /\ UNCHANGED <<opts, req, shared, pattern, ids>>

LineNext ==
  \/ Receive \/ Clone \/ Serve \/ ErrorEnvelope \/ Emit
  \/ stage = "done" /\ UNCHANGED lineVars

LineSpec == LineInit /\ [][LineNext]_lineVars

-----------------------------------------------------------------------------
Logged == line # None
Metered(hook) == metric # None /\ metric.hook = hook

(* The last path option that is not one the code ignores, or Nil.          *)
PathOption(o) ==
  \/ o.opt = "pathFunc" /\ o.arg # Nil
  \/ o.opt = "templates" /\ Kept(o.arg) # {}
LastPathOption ==
  LET which == {i \in DOMAIN opts : PathOption(opts[i])}
  IN IF which = {} THEN Nil ELSE opts[Max(which)]

(* Under a path policy no credential is recorded, in the line, in a metric *)
(* that takes the line's path, nor ever in a route metric: not when the    *)
(* route is unknown to the logger because a middleware cloned the request  *)
(* or answered it, and not when the transform itself fails                 *)
(* (WithTemplatePathsUnder and WithPathFunc, src/reqlog.go:237, 253).      *)
CredentialStaysOut ==
  LET f == LastPathOption
      covered == f # Nil /\ (f.opt = "pathFunc" \/ \E p \in Kept(f.arg) : IsPrefix(p, Path))
      clean(p) == Credential \cap ToSet(p) = {}
  IN Logged =>
       /\ covered => clean(line.path)
       /\ covered /\ Metered("plain") => clean(metric.path)
       /\ Metered("route") => clean(metric.path)

WholeRunes(p) == \A i \in DOMAIN p :
  /\ p[i] = "L" => i + 2 <= Len(p) /\ p[i + 1] = "c" /\ p[i + 2] = "c"
  /\ p[i] = "c" => i > 1 /\ (p[i - 1] = "L" \/ (i > 2 /\ p[i - 2] = "L"))
PathIsCapped ==
  Logged =>
    LET whole == PolicyPath
        kept == Front(line.path)
        cap == Config.maxPath
    IN \/ line.path = whole /\ Len(whole) <= cap
       \/ /\ Last(line.path) = "...(truncated)" /\ IsPrefix(kept, whole)
          /\ Len(whole) > cap /\ Len(kept) <= cap
          /\ WholeRunes(whole) => WholeRunes(kept) /\ Len(kept) >= cap - 2

SeriesComeFromRoutes ==
  Metered("route") =>
    /\ metric.method \in StandardMethods \cup {"other"}
    /\ metric.path \in {<<"unmatched">>} \cup
         {t.pattern.host \o t.pattern.path : t \in {u \in Targets : u.pattern # NoPattern}}
    /\ req.method \in StandardMethods => metric.method = line.method

OneRequestId ==
  stage # "idle" =>
    /\ ids.response \in ValidIds /\ ids.context = ids.response
    /\ ids.envelope \in {None, ids.response}
    /\ req.id \in ValidIds => ids.response = req.id
    /\ Logged => line.id = ids.response

(* However a request is made, its record stays small and of few kinds.  The*)
(* path is whole or its longest run of whole runes within the cap, visibly *)
(* cut (boundLoggedPath, src/reqlog.go:378), the method is never overlong; *)
(* the labels of a route metric come from the route table and a fixed set, *)
(* and agree with the line on a standard method (RouteMetricLabels,        *)
(* src/reqlog.go:624); and one valid id, the client's if that was valid, is*)
(* in the response, the context, an error body and the line                *)
(* (src/reqlog.go:942).                                                    *)
RecordIsBounded ==
  /\ PathIsCapped
  /\ Logged => line.method \notin OverlongMethods
  /\ SeriesComeFromRoutes
  /\ OneRequestId
=============================================================================
