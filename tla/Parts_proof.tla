----------------------------- MODULE Parts_proof -----------------------------
(***************************************************************************)
(* Proofs about parts that stand alone: the service around Run (Drain), the*)
(* record of a request (RequestLine) and the scanners of the package       *)
(* (ScannersMC: list fields, Forwarded elements, inline elements of a page *)
(* and JSON bodies).  They hold for any errors, hooks, options, routes,    *)
(* paths and caps, and for texts put together of any number of pieces.     *)
(***************************************************************************)
EXTENDS Drain, RequestLine, ScannersMC,
        WellFoundedInduction, SequenceTheorems, FiniteSetTheorems, TLAPS

(***************************************************************************)
(* What a teardown reports is about the moment its context expired, which  *)
(* the state no longer shows when it reports; ExpiredStays says that a     *)
(* wait that took its context's end for an answer stays expired, so that a *)
(* worker that ends later is not taken for one that was in time.           *)
(***************************************************************************)
DrainTypeOK ==
  /\ pc \in {"idle", "preDrain", "unready", "preDrained", "drain", "drained",
             "await", "recheck", "finished", "unfinished"}
  /\ worker \in {"running", "done"} /\ inTime \in BOOLEAN
  /\ expired \in BOOLEAN /\ exitExpired \in BOOLEAN

(* The hooks stand still once Run has returned, and are idle before any    *)
(* phase of Run has begun.                                                 *)
HooksFollowRun ==
  /\ ret # "none" => pc \in {"idle", "drained", "finished", "unfinished"}
  /\ pc # "idle" => ran # {}

ExpiredStays == pc \in {"recheck", "unfinished"} => HookExpired

Reported ==
  /\ inTime => worker = "done"
  /\ pc = "unfinished" => ~inTime
  /\ pc = "finished" => worker = "done"

DrainInv == DrainTypeOK /\ HooksFollowRun /\ ExpiredStays /\ Reported

-----------------------------------------------------------------------------
LEMMA InitDrainInv == DrainInit => DrainInv
BY DEF DrainInit, Init, DrainInv, DrainTypeOK, HooksFollowRun, ExpiredStays, Reported

(* A phase of Run that begins moves the hooks on.                          *)
LEMMA PhaseKeepsInv ==
  ASSUME DrainInv, PreDrainStarts \/ DrainStarts \/ TeardownStarts \/ ServeExitStarts
  PROVE  DrainInv'
<1> USE DEF DrainInv
<1>1. /\ pc' \in {"preDrain", "drain", "await"}
      /\ pc \in {"idle", "preDrained", "drained"}
      /\ ret' = "none" /\ ran' # {}
  BY DEF PreDrainStarts, DrainStarts, TeardownStarts, ServeExitStarts, Phase,
         PreDrain, Drain, OnShutdown, ServeExit, HooksFollowRun
<1>2. UNCHANGED <<worker, inTime, expired, exitExpired>>
  BY DEF PreDrainStarts, DrainStarts, TeardownStarts, ServeExitStarts, Phase
<1> QED BY <1>1, <1>2 DEF DrainTypeOK, HooksFollowRun, ExpiredStays, Reported

(* The hooks' own steps; a wait that goes on to look again was expired.    *)
LEMMA HooksKeepInv ==
  ASSUME DrainInv, ClearReady \/ EndStreams \/ Drained \/ AwaitSelect \/ AwaitRecheck
  PROVE  DrainInv'
<1> USE DEF DrainInv
<1>1. UNCHANGED <<promiseVars, worker, inTime, exitExpired>>
  BY DEF ClearReady, EndStreams, Drained, AwaitSelect, AwaitRecheck
<1>2. ret = "none"
  BY DEF ClearReady, EndStreams, Drained, AwaitSelect, AwaitRecheck, HooksFollowRun
<1>3. HookExpired' = HookExpired
  BY <1>1 DEF HookExpired, promiseVars
<1>4. CASE ClearReady \/ EndStreams \/ Drained
  BY <1>1, <1>2, <1>4 DEF ClearReady, EndStreams, Drained, promiseVars,
     DrainTypeOK, HooksFollowRun, ExpiredStays, Reported
<1>5. CASE AwaitSelect
  BY <1>1, <1>2, <1>3, <1>5 DEF AwaitSelect, promiseVars,
     DrainTypeOK, HooksFollowRun, ExpiredStays, Reported
<1>6. CASE AwaitRecheck
  BY <1>1, <1>2, <1>3, <1>6 DEF AwaitRecheck, promiseVars,
     DrainTypeOK, HooksFollowRun, ExpiredStays, Reported
<1> QED BY <1>4, <1>5, <1>6

(* The worker ends; if a wait has already expired it was not in time.      *)
LEMMA WorkerKeepsInv == ASSUME DrainInv, WorkerEnds PROVE DrainInv'
<1> USE DEF DrainInv
<1>1. /\ UNCHANGED <<promiseVars, pc, exitExpired>> /\ worker' = "done"
      /\ inTime' = ~HookExpired
  BY DEF WorkerEnds
<1>2. HookExpired' = HookExpired /\ HookExpired \in BOOLEAN
  BY <1>1 DEF HookExpired, promiseVars, DrainTypeOK
<1> QED BY <1>1, <1>2 DEF promiseVars, DrainTypeOK, HooksFollowRun, ExpiredStays, Reported

(* Time runs out, the server ends, Run returns, the balancer probes.       *)
LEMMA OthersKeepInv ==
  ASSUME DrainInv,
         \/ RunReturns \/ ServerEnds \/ GraceExpires \/ ExitExpires
         \/ SetReady \/ Cancel \/ StreamEnds \/ BalancerStep \/ UNCHANGED drainVars
  PROVE  DrainInv'
<1> USE DEF DrainInv
<1>1. UNCHANGED <<pc, worker, inTime, ran>>
  BY DEF RunReturns, ServerEnds, GraceExpires, ExitExpires, SetReady, Cancel, StreamEnds,
         BalancerStep, SendProbe, AnswerProbe, TakeProbe, drainVars, promiseVars, service,
         Return, ServeEnds, Expire
<1>2. /\ expired' = expired \/ expired' = TRUE
      /\ exitExpired' = exitExpired \/ exitExpired' = TRUE
  BY DEF RunReturns, ServerEnds, GraceExpires, ExitExpires, SetReady, Cancel, StreamEnds,
         BalancerStep, SendProbe, AnswerProbe, TakeProbe, drainVars, promiseVars, service,
         Return, ServeEnds, Expire
<1>3. ret' # ret => RunReturns
  BY DEF ServerEnds, GraceExpires, ExitExpires, SetReady, Cancel, StreamEnds,
         BalancerStep, SendProbe, AnswerProbe, TakeProbe, drainVars, promiseVars,
         ServeEnds, Expire
<1>4. HookExpired => HookExpired'
  <2>1. CASE "serveExit" \in ran
    <3>1. HookExpired = exitExpired /\ HookExpired' = exitExpired'
      BY <1>1, <2>1, Zenon DEF HookExpired
    <3> QED BY <1>2, <3>1, Zenon
  <2>2. CASE "serveExit" \notin ran
    <3>1. HookExpired = expired /\ HookExpired' = expired'
      BY <1>1, <2>2, Zenon DEF HookExpired
    <3> QED BY <1>2, <3>1, Zenon
  <2> QED BY <2>1, <2>2
<1>5. HooksFollowRun'
  BY <1>1, <1>3 DEF RunReturns, HooksDone, HooksFollowRun
<1> QED BY <1>1, <1>2, <1>4, <1>5 DEF DrainTypeOK, ExpiredStays, Reported

THEOREM DrainInvariant == DrainSpec => []DrainInv
<1>1. DrainInv /\ [DrainNext]_drainVars => DrainInv'
  BY PhaseKeepsInv, HooksKeepInv, WorkerKeepsInv, OthersKeepInv DEF DrainNext, ServiceStep
<1> QED BY <1>1, InitDrainInv, PTL DEF DrainSpec

-----------------------------------------------------------------------------
(* AwaitDone's report is true of the moment its context expired, and Run   *)
(* does not return before it (AwaitDone, src/server.go:368).               *)
THEOREM ReportIsTrue == DrainSpec => []FinishedIsReported
<1>1. DrainInv => FinishedIsReported
  BY DEF DrainInv, HooksFollowRun, Reported, FinishedIsReported
<1> QED BY <1>1, DrainInvariant, PTL

-----------------------------------------------------------------------------
(***************************************************************************)
(* Induction over the naturals and the existence of functions defined by   *)
(* recursion, with sets where the library has operators as parameters:     *)
(* from the least element of a set of naturals.                            *)
(***************************************************************************)
(* Least elements, by the order of the naturals.                           *)
LEMMA LeastExists ==
  ASSUME NEW S, S \subseteq Nat, S # {}
  PROVE  \E k \in S : \A j \in S : k <= j
<1> DEFINE R == OpToRel(<, Nat)
<1>1. \A x, y \in Nat : y < x => <<y, x>> \in R
  BY DEF OpToRel
<1>2. IsWellFoundedOn(R, Nat)
  BY NatLessThanWellFounded
<1> HIDE DEF R
<1>3. PICK k \in S : \A y \in S : <<y, k>> \notin R
  BY <1>2, WFMin, Zenon
<1>4. ASSUME NEW j \in S PROVE k <= j
  <2>1. <<j, k>> \notin R /\ j \in Nat /\ k \in Nat
    BY <1>3
  <2>2. ~(j < k)
    BY <1>1, <2>1
  <2> QED BY <2>1, <2>2
<1> QED BY <1>4

LEMMA GreatestExists ==
  ASSUME NEW n \in Nat, NEW S, S \subseteq 0..n, S # {}
  PROVE  \E k \in S : \A j \in S : k >= j
<1> DEFINE T == {n - i : i \in S}
<1>1. T \subseteq Nat /\ T # {}
  <2>1. \A i \in S : n - i \in Nat
    OBVIOUS
  <2>2. PICK i \in S : TRUE
    OBVIOUS
  <2>3. n - i \in T
    BY <2>2
  <2> QED BY <2>1, <2>3
<1>2. PICK t \in T : \A y \in T : t <= y
  BY <1>1, LeastExists, Zenon
<1>3. PICK k \in S : t = n - k
  OBVIOUS
<1>4. ASSUME NEW j \in S PROVE k >= j
  <2>1. t <= n - j
    BY <1>2
  <2> QED BY <1>3, <2>1
<1> QED BY <1>4

(* Induction up to a bound, over a set instead of a predicate.             *)
LEMMA UpTo ==
  ASSUME NEW N \in Nat, NEW T, 0 \in T, \A n \in 1..N : n - 1 \in T => n \in T
  PROVE  0..N \subseteq T
<1> SUFFICES ASSUME NEW x \in 0..N, x \notin T PROVE FALSE
  OBVIOUS
<1> DEFINE S == (0..N) \ T
<1>1. S \subseteq Nat /\ S # {}
  OBVIOUS
<1>2. PICK k \in S : \A j \in S : k <= j
  BY <1>1, LeastExists, Zenon
<1>3. k \in 1..N /\ k - 1 \in 0..N /\ ~(k <= k - 1)
  OBVIOUS
<1>4. k - 1 \in T
  BY <1>2, <1>3
<1> QED BY <1>3, <1>4

(* A function defined along 0..N by its value at 0 and a step exists.      *)
Steps(S, N) == [1..N -> [S -> S]]
Traces(S, N) == [0..N -> S]
Follows(f, c, N, F) == f[0] = c /\ \A n \in 1..N : f[n] = F[n][f[n - 1]]

LEMMA RecursionExists ==
  ASSUME NEW S, NEW c \in S, NEW N \in Nat, NEW F \in Steps(S, N)
  PROVE  \E f \in Traces(S, N) : Follows(f, c, N, F)
<1> USE DEF Steps, Traces
<1> DEFINE Good(f, m) == f[0] = c /\ \A n \in 1..m : f[n] = F[n][f[n - 1]]
<1> DEFINE T == {m \in 0..N : \E f \in [0..N -> S] : Good(f, m)}
<1>1. 0 \in T
  <2>1. [n \in 0..N |-> c] \in [0..N -> S] /\ 0 \in 0..N
    OBVIOUS
  <2>2. Good([n \in 0..N |-> c], 0)
    BY <2>1
  <2> HIDE DEF Good
  <2> QED BY <2>1, <2>2
<1>2. ASSUME NEW m \in 1..N, m - 1 \in T PROVE m \in T
  <2>1. PICK f \in [0..N -> S] : Good(f, m - 1)
    BY <1>2
  <2> DEFINE g == [f EXCEPT ![m] = F[m][f[m - 1]]]
  <2>2. m \in 0..N /\ m - 1 \in 0..N /\ m - 1 # m /\ m # 0
    OBVIOUS
  <2>3. f[m - 1] \in S /\ F[m] \in [S -> S]
    BY <2>2
  <2>4. F[m][f[m - 1]] \in S
    BY <2>3
  <2>5. g \in [0..N -> S] /\ g[m] = F[m][f[m - 1]] /\ \A n \in 0..N : n # m => g[n] = f[n]
    BY <2>2, <2>4
  <2>6. g[0] = c
    BY <2>1, <2>2, <2>5
  <2>7. ASSUME NEW n \in 1..m PROVE g[n] = F[n][g[n - 1]]
    <3>1. n \in 0..N /\ n - 1 \in 0..N /\ n - 1 # m
      OBVIOUS
    <3>2. g[n - 1] = f[n - 1]
      BY <2>5, <3>1
    <3>3. CASE n = m
      BY <2>5, <3>2, <3>3
    <3>4. CASE n # m
      <4>1. n \in 1..(m - 1)
        BY <3>4
      <4>2. g[n] = f[n]
        BY <2>5, <3>1, <3>4
      <4> QED BY <2>1, <3>2, <4>1, <4>2
    <3> QED BY <3>3, <3>4
  <2>8. Good(g, m)
    BY <2>6, <2>7
  <2> HIDE DEF g, Good
  <2> QED BY <2>2, <2>5, <2>8
<1>3. 0..N \subseteq T
  <2> HIDE DEF T
  <2> QED BY <1>1, <1>2, UpTo
<1>4. N \in T
  BY <1>3
<1>5. PICK f \in [0..N -> S] : Good(f, N)
  BY <1>4
<1> QED BY <1>5 DEF Follows

-----------------------------------------------------------------------------
(***************************************************************************)
(* RequestLine. The options are applied one by one, and what counts of     *)
(* them is the last path option that is not ignored; the path it makes     *)
(* holds no credential, and no cut of it does.                             *)
(***************************************************************************)
Configs ==
  [skipPaths : SUBSET UNION {o.arg : o \in LogOptions},
   skipFunc : {{}} \cup {o.arg : o \in LogOptions},
   pathFunc : {Nil} \cup {o \in LogOptions : PathOption(o)},
   hooks : SUBSET {"plain", "request", "route"},
   maxPath : Nat \ {0}]

LEMMA ApplyKeepsConfigs ==
  ASSUME NEW c \in Configs, NEW o \in LogOptions
  PROVE  /\ Apply(c, o) \in Configs
         /\ Apply(c, o).pathFunc = IF PathOption(o) THEN o ELSE c.pathFunc
<1>1. CASE o.opt = "skipPaths"
  BY <1>1 DEF Apply, Configs, PathOption
<1>2. CASE o.opt = "skipFunc"
  BY <1>2 DEF Apply, Configs, PathOption
<1>3. CASE o.opt = "pathFunc"
  BY <1>3 DEF Apply, Configs, PathOption
<1>4. CASE o.opt = "templates"
  BY <1>4 DEF Apply, Configs, PathOption
<1>5. CASE o.opt = "maxPath"
  <2>1. o.arg \in Int /\ ~PathOption(o)
    BY <1>5, PathAssumption DEF PathOption
  <2>2. CASE o.arg > 0
    <3>1. Apply(c, o) = [c EXCEPT !.maxPath = o.arg]
      BY <1>5, <2>2 DEF Apply
    <3>2. o.arg \in Nat \ {0}
      BY <2>1, <2>2
    <3> QED BY <2>1, <3>1, <3>2 DEF Configs
  <2>3. CASE ~(o.arg > 0)
    <3>1. Apply(c, o) = c
      BY <1>5, <2>3 DEF Apply
    <3> QED BY <2>1, <3>1 DEF Configs
  <2> QED BY <2>2, <2>3
<1>6. CASE o.opt \in {"plain", "request", "route"}
  <2>1. Hooks(c.hooks, o) \in SUBSET {"plain", "request", "route"}
    BY <1>6 DEF Hooks, Configs
  <2> QED BY <1>6, <2>1 DEF Apply, Configs, PathOption
<1>7. CASE o.opt \notin {"skipPaths", "skipFunc", "pathFunc", "templates", "maxPath", "plain", "request", "route"}
  BY <1>7 DEF Apply, PathOption
<1> QED BY <1>1, <1>2, <1>3, <1>4, <1>5, <1>6, <1>7

(* The configuration after the first n options.                            *)
LEMMA ConfigSteps ==
  ASSUME opts \in Seq(LogOptions)
  PROVE  \E f \in [0..Len(opts) -> Configs] :
           /\ f[0] = DefaultConfig
           /\ \A n \in 1..Len(opts) : f[n] = Apply(f[n - 1], opts[n])
           /\ Config = f[Len(opts)]
<1> DEFINE N == Len(opts)
<1> DEFINE F == [n \in 1..N |-> [c \in Configs |-> Apply(c, opts[n])]]
<1> DEFINE Body(f) == [n \in 0..N |-> IF n = 0 THEN DefaultConfig ELSE Apply(f[n - 1], opts[n])]
<1>1. N \in Nat /\ \A n \in 1..N : opts[n] \in LogOptions
  OBVIOUS
<1>2. DefaultConfig \in Configs
  BY LineAssumption DEF DefaultConfig, Configs
<1>3. F \in [1..N -> [Configs -> Configs]]
  BY <1>1, ApplyKeepsConfigs
<1>4. PICK g \in Traces(Configs, N) : Follows(g, DefaultConfig, N, F)
  <2>1. N \in Nat /\ DefaultConfig \in Configs /\ F \in Steps(Configs, N)
    BY <1>1, <1>2, <1>3 DEF Steps
  <2> HIDE DEF N, F
  <2> QED BY <2>1, RecursionExists
<1> USE DEF Traces, Follows
<1>5. g = Body(g)
  <2>1. \A n \in 1..N : n - 1 \in 0..N
    BY <1>1
  <2>2. \A n \in 1..N : g[n] = Apply(g[n - 1], opts[n])
    BY <1>4, <2>1
  <2> QED BY <1>1, <1>4, <2>2
<1> DEFINE h == CHOOSE f : f = Body(f)
<1>6. h = Body(h)
  BY <1>5
<1>7. Config = h[N]
  BY DEF Config
<1>8. h = g
  <2> HIDE DEF h
  <2> DEFINE T == {n \in 0..N : h[n] = g[n]}
  <2>1. 0 \in T
    BY <1>1, <1>5, <1>6
  <2>2. ASSUME NEW n \in 1..N, n - 1 \in T PROVE n \in T
    BY <1>1, <1>5, <1>6, <2>2
  <2>3. 0..N \subseteq T
    <3> HIDE DEF T
    <3> QED BY <1>1, <2>1, <2>2, UpTo
  <2>4. h = [n \in 0..N |-> h[n]]
    BY <1>6
  <2> QED BY <2>3, <2>4
<1>9. \A n \in 1..N : g[n] = Apply(g[n - 1], opts[n])
  BY <1>1, <1>4, \A n \in 1..N : n - 1 \in 0..N
<1> HIDE DEF h
<1> QED BY <1>4, <1>7, <1>8, <1>9

(* The options leave a configuration whose path policy is the last one     *)
(* that is not ignored.                                                    *)
LEMMA ConfigFits ==
  ASSUME opts \in Seq(LogOptions)
  PROVE  Config \in Configs /\ Config.pathFunc = LastPathOption
<1> DEFINE N == Len(opts)
<1> DEFINE which(n) == {i \in 1..n : PathOption(opts[i])}
<1>1. N \in Nat /\ DOMAIN opts = 1..N /\ \A n \in 1..N : opts[n] \in LogOptions
  OBVIOUS
<1>2. PICK f \in [0..N -> Configs] :
        /\ f[0] = DefaultConfig
        /\ \A n \in 1..N : f[n] = Apply(f[n - 1], opts[n])
        /\ Config = f[N]
  BY ConfigSteps
<1> DEFINE LastIn(n) ==
      /\ which(n) = {} => f[n].pathFunc = Nil
      /\ \A i \in which(n) : (\A j \in which(n) : i >= j) => f[n].pathFunc = opts[i]
<1> DEFINE T == {n \in 0..N : LastIn(n)}
<1>3. 0 \in T
  <2>1. which(0) = {} /\ 0 \in 0..N
    BY <1>1
  <2>2. f[0].pathFunc = Nil
    BY <1>2 DEF DefaultConfig
  <2>3. LastIn(0)
    <3> HIDE DEF which
    <3> QED BY <2>1, <2>2
  <2> HIDE DEF LastIn
  <2> QED BY <2>1, <2>3
<1>4. ASSUME NEW n \in 1..N, n - 1 \in T PROVE n \in T
  <2>1. n - 1 \in 0..N /\ f[n - 1] \in Configs /\ opts[n] \in LogOptions
    BY <1>1
  <2>2. f[n].pathFunc = IF PathOption(opts[n]) THEN opts[n] ELSE f[n - 1].pathFunc
    <3>1. f[n] = Apply(f[n - 1], opts[n])
      BY <1>2
    <3> QED BY <2>1, <3>1, ApplyKeepsConfigs
  <2>3. which(n) = which(n - 1) \cup (IF PathOption(opts[n]) THEN {n} ELSE {})
    OBVIOUS
  <2>4. CASE PathOption(opts[n])
    <3>1. n \in which(n) /\ \A i \in which(n) : i \in 1..n
      BY <2>4
    <3>2. \A i \in which(n) : (\A j \in which(n) : i >= j) => i = n
      BY <3>1
    <3> QED BY <2>2, <2>4, <3>1, <3>2
  <2>5. CASE ~PathOption(opts[n])
    <3>1. which(n) = which(n - 1)
      BY <2>3, <2>5
    <3> HIDE DEF which
    <3> QED BY <1>4, <2>2, <2>5, <3>1
  <2> QED BY <2>4, <2>5
<1>5. LastIn(N)
  <2>1. 0..N \subseteq T
    <3> HIDE DEF T
    <3> QED BY <1>1, <1>3, <1>4, UpTo
  <2> QED BY <1>1, <2>1
<1>6. CASE which(N) = {}
  BY <1>1, <1>2, <1>5, <1>6 DEF LastPathOption
<1>7. CASE which(N) # {}
  <2>1. which(N) \subseteq 0..N
    OBVIOUS
  <2>2. LastPathOption = opts[CHOOSE i \in which(N) : \A j \in which(N) : i >= j]
    BY <1>1, <1>7 DEF LastPathOption, Max
  <2> HIDE DEF which
  <2>3. PICK k \in which(N) : \A j \in which(N) : k >= j
    BY <1>1, <1>7, <2>1, GreatestExists
  <2>4. \A i \in which(N) : (\A j \in which(N) : i >= j) => Config.pathFunc = opts[i]
    BY <1>2, <1>5
  <2> QED BY <1>1, <1>2, <2>2, <2>3, <2>4
<1> QED BY <1>6, <1>7, <1>1, <1>2

-----------------------------------------------------------------------------
(* The request of a running logger, and the route it was given.            *)
Asked ==
  /\ opts \in Seq(LogOptions)
  /\ req \in Requests
  /\ pattern \in {NoPattern, req.target.pattern}

(* What the code writes itself.                                            *)
LEMMA MarkerType ==
  ASSUME NEW m, m \in {"(unmatched)", "(path-redaction-failed)", "...(truncated)"}
  PROVE  <<m>> \in Seq(Bytes) /\ ToSet(<<m>>) = {m} /\ m \notin Credential
<1>1. m \in Bytes
  BY PathAssumption
<1>2. m \notin Credential
  BY CredentialAssumption
<1>3. <<m>> \in Seq(Bytes)
  BY <1>1
<1> QED BY <1>2, <1>3 DEF ToSet

(* A prefix of the path a template policy covers; it holds no credential.  *)
LEMMA TemplateIsClean ==
  ASSUME Asked, NEW o \in LogOptions, o.opt = "templates"
  PROVE  /\ TemplatePath(Kept(o.arg)) \in Seq(Bytes)
         /\ (\E p \in Kept(o.arg) : IsPrefix(p, Path))
              => Credential \cap ToSet(TemplatePath(Kept(o.arg))) = {}
<1> DEFINE under == {p \in Kept(o.arg) : IsPrefix(p, Path)}
<1>1. /\ Path \in Seq(Bytes)
      /\ pattern # NoPattern => /\ pattern.path \in Seq(Bytes)
                                /\ Credential \cap ToSet(pattern.path) = {}
  BY PathAssumption, CredentialAssumption DEF Asked, Requests, Path
<1>2. CASE under = {}
  BY <1>1, <1>2 DEF TemplatePath
<1>3. CASE under # {} /\ pattern # NoPattern
  BY <1>1, <1>3 DEF TemplatePath
<1>4. CASE under # {} /\ pattern = NoPattern
  <2> DEFINE longest == CHOOSE p \in under : \A q \in under : Len(q) <= Len(p)
  <2>1. TemplatePath(Kept(o.arg)) = longest \o <<"(unmatched)">>
    BY <1>4 DEF TemplatePath
  <2>2. \A p \in under : p \in Seq(Bytes) /\ Credential \cap ToSet(p) = {}
          /\ Len(p) \in 0..Len(Path)
    BY <1>1, PathAssumption, CredentialAssumption DEF Kept, IsPrefix
  <2>3. PICK p \in under : \A q \in under : Len(q) <= Len(p)
    <3> DEFINE lens == {Len(p) : p \in under}
    <3>1. lens \subseteq 0..Len(Path) /\ lens # {} /\ Len(Path) \in Nat
      BY <1>1, <1>4, <2>2
    <3>2. PICK k \in lens : \A j \in lens : k >= j
      <4> HIDE DEF lens
      <4> QED BY <3>1, GreatestExists
    <3>3. PICK p \in under : k = Len(p)
      OBVIOUS
    <3>4. \A q \in under : Len(q) \in lens
      OBVIOUS
    <3>5. \A q \in under : Len(q) <= Len(p)
      <4> HIDE DEF under, lens
      <4> QED BY <2>2, <3>2, <3>3, <3>4
    <3> QED BY <3>5
  <2>4. longest \in under
    BY <2>3
  <2>5. longest \in Seq(Bytes) /\ Credential \cap ToSet(longest) = {}
    <3> HIDE DEF under, longest
    <3> QED BY <2>2, <2>4
  <2> HIDE DEF longest
  <2>6. ToSet(longest \o <<"(unmatched)">>) \subseteq ToSet(longest) \cup {"(unmatched)"}
    BY <2>5 DEF ToSet
  <2>7. longest \o <<"(unmatched)">> \in Seq(Bytes)
    BY <2>5, MarkerType, ConcatProperties
  <2>8. "(unmatched)" \notin Credential
    BY MarkerType
  <2>9. Credential \cap ToSet(longest \o <<"(unmatched)">>) = {}
    BY <2>5, <2>6, <2>8
  <2> QED BY <2>1, <2>7, <2>9
<1> QED BY <1>2, <1>3, <1>4

(* What the path policy makes of the path; covered when it redacts.        *)
Covered(f) == f # Nil /\ (f.opt = "pathFunc" \/ \E p \in Kept(f.arg) : IsPrefix(p, Path))

LEMMA PolicyIsClean ==
  ASSUME Asked
  PROVE  /\ PolicyPath \in Seq(Bytes)
         /\ Covered(LastPathOption) => Credential \cap ToSet(PolicyPath) = {}
<1> DEFINE f == Config.pathFunc
<1>1. Config \in Configs /\ f = LastPathOption
  BY ConfigFits DEF Asked
<1>2. f \in {Nil} \cup {o \in LogOptions : PathOption(o)}
  BY <1>1 DEF Configs
<1>3. Path \in Seq(Bytes)
  BY PathAssumption DEF Asked, Requests, Path
<1> HIDE DEF f
<1>4. CASE f = Nil
  BY <1>1, <1>3, <1>4 DEF PolicyPath, Covered, f
<1>5. ASSUME f # Nil PROVE PolicyPath = SafeLoggedPath(f)
  BY <1>5 DEF PolicyPath, f
<1>6. CASE f # Nil /\ f.opt = "templates"
  <2>1. f \in LogOptions
    BY <1>2, <1>6
  <2>2. PolicyPath = TemplatePath(Kept(f.arg))
    BY <1>5, <1>6 DEF SafeLoggedPath
  <2>3. Covered(f) => \E p \in Kept(f.arg) : IsPrefix(p, Path)
    BY <1>6 DEF Covered
  <2> QED BY <1>1, <1>6, <2>1, <2>2, <2>3, TemplateIsClean
<1>7. CASE f # Nil /\ f.opt # "templates"
  <2>1. f.opt = "pathFunc" /\ f.arg \in {"ok", "empty", "panics"}
    BY <1>2, <1>7, PathAssumption DEF PathOption
  <2>2. PolicyPath \in {Transformed, <<"(path-redaction-failed)">>}
    BY <1>5, <1>7, <2>1 DEF SafeLoggedPath
  <2>3. /\ <<"(path-redaction-failed)">> \in Seq(Bytes)
        /\ Credential \cap ToSet(<<"(path-redaction-failed)">>) = {}
    BY MarkerType
  <2>4. Transformed \in Seq(Bytes) /\ Credential \cap ToSet(Transformed) = {}
    BY PathAssumption, CredentialAssumption
  <2> QED BY <2>2, <2>3, <2>4
<1> QED BY <1>4, <1>6, <1>7

-----------------------------------------------------------------------------
(* The cut of a path over the cap: at the last byte that starts a rune, or *)
(* before everything.                                                      *)
IsCut(p, maxLen, n) ==
  /\ n > 0 => p[n + 1] # "c"
  /\ \A i \in (n + 1)..maxLen : p[i + 1] = "c"

LEMMA CutExists ==
  ASSUME NEW p \in Seq(Bytes), NEW maxLen \in Nat, Len(p) > maxLen
  PROVE  \E n \in 0..maxLen : IsCut(p, maxLen, n)
<1> DEFINE starts == {n \in 1..maxLen : p[n + 1] # "c"}
<1>1. CASE starts = {}
  <2>1. \A i \in 1..maxLen : p[i + 1] = "c"
    BY <1>1
  <2>2. IsCut(p, maxLen, 0)
    BY <2>1 DEF IsCut
  <2> QED BY <2>2
<1>2. CASE starts # {}
  <2>1. starts \subseteq 0..maxLen
    OBVIOUS
  <2>2. PICK n \in starts : \A j \in starts : n >= j
    <3> HIDE DEF starts
    <3> QED BY <1>2, <2>1, GreatestExists
  <2>3. IsCut(p, maxLen, n)
    BY <2>2 DEF IsCut
  <2> QED BY <2>1, <2>3
<1> QED BY <1>1, <1>2

(* The bounded path is the whole one, or a run of it and the mark.         *)
LEMMA BoundForm ==
  ASSUME NEW p \in Seq(Bytes), NEW maxLen \in Nat
  PROVE  LET b == BoundLoggedPath(p, maxLen)
         IN IF Len(p) <= maxLen THEN b = p
            ELSE \E n \in 0..maxLen :
                   IsCut(p, maxLen, n) /\ b = SubSeq(p, 1, n) \o <<"...(truncated)">>
<1>1. CASE Len(p) <= maxLen
  BY <1>1 DEF BoundLoggedPath
<1>2. CASE ~(Len(p) <= maxLen)
  <2> DEFINE cut == CHOOSE n \in 0..maxLen : IsCut(p, maxLen, n)
  <2>1. BoundLoggedPath(p, maxLen) = SubSeq(p, 1, cut) \o <<"...(truncated)">>
    BY <1>2 DEF BoundLoggedPath, IsCut
  <2>2. Len(p) > maxLen
    BY <1>2
  <2>3. cut \in 0..maxLen /\ IsCut(p, maxLen, cut)
    BY <2>2, CutExists
  <2> HIDE DEF cut
  <2> QED BY <1>2, <2>1, <2>3
<1> QED BY <1>1, <1>2

LEMMA BoundIsClean ==
  ASSUME NEW p \in Seq(Bytes), NEW maxLen \in Nat, Credential \cap ToSet(p) = {}
  PROVE  Credential \cap ToSet(BoundLoggedPath(p, maxLen)) = {}
<1>1. CASE Len(p) <= maxLen
  BY <1>1, BoundForm
<1>2. CASE ~(Len(p) <= maxLen)
  <2>1. PICK n \in 0..maxLen : BoundLoggedPath(p, maxLen) = SubSeq(p, 1, n) \o <<"...(truncated)">>
    BY <1>2, BoundForm
  <2>2. n \in 0..Len(p)
    BY <1>2
  <2>3. ToSet(SubSeq(p, 1, n) \o <<"...(truncated)">>) \subseteq ToSet(p) \cup {"...(truncated)"}
    BY <2>2 DEF ToSet
  <2>4. "...(truncated)" \notin Credential
    BY CredentialAssumption
  <2> QED BY <2>1, <2>3, <2>4
<1> QED BY <1>1, <1>2

(* A cut leaves whole runes, and no more than two bytes of room.           *)
LEMMA CutIsWhole ==
  ASSUME NEW p \in Seq(Bytes), NEW maxLen \in Nat, Len(p) > maxLen,
         NEW n \in 0..maxLen, IsCut(p, maxLen, n), WholeRunes(p)
  PROVE  WholeRunes(SubSeq(p, 1, n)) /\ n >= maxLen - 2
<1>1. /\ Len(SubSeq(p, 1, n)) = n /\ DOMAIN SubSeq(p, 1, n) = 1..n
      /\ \A i \in 1..n : SubSeq(p, 1, n)[i] = p[i]
  OBVIOUS
<1>2. \A i \in 1..Len(p) :
        /\ p[i] = "L" => i + 2 <= Len(p) /\ p[i + 1] = "c" /\ p[i + 2] = "c"
        /\ p[i] = "c" => i > 1 /\ (p[i - 1] = "L" \/ (i > 2 /\ p[i - 2] = "L"))
  BY DEF WholeRunes
<1>3. WholeRunes(SubSeq(p, 1, n))
  <2> SUFFICES ASSUME NEW i \in 1..n
               PROVE  /\ p[i] = "L" => i + 2 <= n /\ p[i + 1] = "c" /\ p[i + 2] = "c"
                      /\ p[i] = "c" => i > 1 /\ (p[i - 1] = "L" \/ (i > 2 /\ p[i - 2] = "L"))
    <3> DEFINE q == SubSeq(p, 1, n)
    <3>1. DOMAIN q = 1..n /\ Len(q) = n /\ \A i \in 1..n : q[i] = p[i]
      BY <1>1
    <3> HIDE DEF q
    <3>2. ASSUME NEW i \in 1..n
          PROVE  /\ q[i] = "L" => i + 2 <= n /\ q[i + 1] = "c" /\ q[i + 2] = "c"
                 /\ q[i] = "c" => i > 1 /\ (q[i - 1] = "L" \/ (i > 2 /\ q[i - 2] = "L"))
      BY <3>1
    <3>3. WholeRunes(q)
      BY <3>1, <3>2 DEF WholeRunes
    <3> QED BY <3>3 DEF q
  <2>1. p[n + 1] # "c"
    BY DEF IsCut
  <2>2. p[i] = "L" => i + 1 # n + 1 /\ i + 2 # n + 1
    BY <1>2, <2>1
  <2> QED BY <1>2, <2>2
<1>4. ASSUME n < maxLen - 2 PROVE FALSE
  <2>1. \A i \in (n + 1)..maxLen : p[i + 1] = "c"
    BY DEF IsCut
  <2>2. p[n + 2] = "c" /\ p[n + 3] = "c" /\ p[n + 4] = "c" /\ n + 4 \in 1..Len(p)
    <3>1. n + 1 \in (n + 1)..maxLen /\ n + 2 \in (n + 1)..maxLen /\ n + 3 \in (n + 1)..maxLen
      BY <1>4
    <3>2. n + 1 + 1 = n + 2 /\ n + 2 + 1 = n + 3 /\ n + 3 + 1 = n + 4
      OBVIOUS
    <3>3. n + 4 \in 1..Len(p)
      BY <1>4
    <3>4. p[n + 1 + 1] = "c" /\ p[n + 2 + 1] = "c" /\ p[n + 3 + 1] = "c"
      BY <2>1, <3>1
    <3> QED BY <3>2, <3>3, <3>4
  <2>3. p[n + 4 - 1] = "L" \/ p[n + 4 - 2] = "L"
    BY <1>2, <2>2 DEF WholeRunes
  <2> QED BY <2>2, <2>3
<1> QED BY <1>3, <1>4

(* What is recorded of a path is whole, or cut and marked.                 *)
LEMMA BoundIsCapped ==
  ASSUME NEW p \in Seq(Bytes), NEW maxLen \in Nat
  PROVE  LET b == BoundLoggedPath(p, maxLen)
         IN \/ b = p /\ Len(p) <= maxLen
            \/ /\ Last(b) = "...(truncated)" /\ IsPrefix(Front(b), p)
               /\ Len(p) > maxLen /\ Len(Front(b)) <= maxLen
               /\ WholeRunes(p) => WholeRunes(Front(b)) /\ Len(Front(b)) >= maxLen - 2
<1>1. CASE Len(p) <= maxLen
  BY <1>1, BoundForm
<1>2. CASE ~(Len(p) <= maxLen)
  <2>1. PICK n \in 0..maxLen :
          IsCut(p, maxLen, n)
            /\ BoundLoggedPath(p, maxLen) = SubSeq(p, 1, n) \o <<"...(truncated)">>
    BY <1>2, BoundForm
  <2> DEFINE kept == SubSeq(p, 1, n)
  <2> DEFINE b == kept \o <<"...(truncated)">>
  <2>2. n \in 0..Len(p) /\ Len(p) > maxLen
    BY <1>2
  <2>3. kept \in Seq(Bytes) /\ Len(kept) = n /\ \A i \in 1..n : kept[i] = p[i]
    BY <2>2
  <2>4. Len(b) = n + 1 /\ Last(b) = "...(truncated)"
    BY <2>3 DEF Last
  <2>5. Front(b) = kept
    <3> HIDE DEF kept
    <3>1. Front(b) = SubSeq(b, 1, n)
      BY <2>4 DEF Front
    <3>2. Len(SubSeq(b, 1, n)) = n /\ \A i \in 1..n : SubSeq(b, 1, n)[i] = kept[i]
      BY <2>3
    <3> QED BY <2>3, <3>1, <3>2
  <2>6. IsPrefix(kept, p)
    <3>1. SubSeq(kept, 1, n) = kept
      BY <2>2, <2>3
    <3> QED BY <2>2, <2>3, <3>1 DEF IsPrefix
  <2>7. WholeRunes(p) => WholeRunes(kept) /\ n >= maxLen - 2
    BY <2>1, <2>2, CutIsWhole
  <2>8. BoundLoggedPath(p, maxLen) = b
    BY <2>1
  <2> HIDE DEF kept, b
  <2> QED BY <2>2, <2>3, <2>4, <2>5, <2>6, <2>7, <2>8
<1> QED BY <1>1, <1>2

-----------------------------------------------------------------------------
TheLine ==
  [method |-> BoundLoggedMethod(req.method), id |-> ids.context,
   path |-> BoundLoggedPath(PolicyPath, Config.maxPath)]

(* The id is chosen once; an error body takes it from the context.         *)
Identified ==
  /\ stage = "idle" => ids.envelope = None
  /\ stage # "idle" =>
       /\ ids.response = IF ValidRequestID(req.id) THEN req.id ELSE Minted
       /\ ids.context = ids.response
       /\ ids.envelope \in {None, ids.response}

(* The record is made of what the last step saw, and only then.            *)
Recorded ==
  /\ stage # "done" => line = None /\ metric = None
  /\ Logged => stage = "done" /\ line = TheLine
  /\ metric # None => metric = RecordMetric /\ line = TheLine

LineInv ==
  /\ Asked /\ Identified /\ Recorded
  /\ stage \in {"idle", "received", "routed", "done"}
  /\ ids = [response |-> ids.response, context |-> ids.context, envelope |-> ids.envelope]

LEMMA InitLineInv == LineInit => LineInv
<1> SUFFICES ASSUME LineInit PROVE LineInv
  OBVIOUS
<1>1. opts \in Seq(LogOptions)
  BY LineAssumption DEF LineInit, BoundedSeq, SeqOf
<1> QED BY <1>1 DEF LineInit, LineInv, Asked, Identified, Recorded, Logged

LEMMA LineStep == LineInv /\ [LineNext]_lineVars => LineInv'
<1> SUFFICES ASSUME LineInv, [LineNext]_lineVars PROVE LineInv'
  OBVIOUS
<1>1. UNCHANGED <<opts, req>>
  BY DEF LineNext, Receive, Clone, Serve, ErrorEnvelope, Emit, lineVars
<1>2. Config' = Config /\ Path' = Path
  BY <1>1 DEF Config, Path
<1>3. CASE Receive
  BY <1>1, <1>3 DEF Receive, LineInv, Asked, Identified, Recorded, Logged
<1>4. CASE Clone
  BY <1>1, <1>4 DEF Clone, LineInv, Asked, Identified, Recorded, Logged
<1>5. CASE Serve
  BY <1>1, <1>5 DEF Serve, LineInv, Asked, Identified, Recorded, Logged
<1>6. CASE ErrorEnvelope
  BY <1>1, <1>6 DEF ErrorEnvelope, LineInv, Asked, Identified, Recorded, Logged
<1>7. CASE Emit
  <2>1. UNCHANGED <<pattern, ids>> /\ stage = "routed" /\ stage' = "done"
    BY <1>7 DEF Emit
  <2>2. PolicyPath' = PolicyPath
    BY <1>1, <1>2, <2>1 DEF PolicyPath, SafeLoggedPath, TemplatePath
  <2>3. TheLine' = TheLine /\ RecordMetric' = RecordMetric
    BY <1>1, <1>2, <2>1, <2>2 DEF TheLine, RecordMetric, RouteMetricPath
  <2>4. \/ UNCHANGED <<line, metric>>
        \/ line' = TheLine /\ metric' = RecordMetric
    BY <1>7 DEF Emit, TheLine
  <2>5. Recorded'
    BY <2>1, <2>3, <2>4 DEF LineInv, Recorded, Logged
  <2> QED BY <1>1, <2>1, <2>5 DEF LineInv, Asked, Identified
<1>8. CASE UNCHANGED lineVars
  <2>1. UNCHANGED <<pattern, ids, stage, line, metric>>
    BY <1>8 DEF lineVars
  <2>2. PolicyPath' = PolicyPath
    BY <1>1, <1>2, <2>1 DEF PolicyPath, SafeLoggedPath, TemplatePath
  <2>3. TheLine' = TheLine /\ RecordMetric' = RecordMetric
    BY <1>1, <1>2, <2>1, <2>2 DEF TheLine, RecordMetric, RouteMetricPath
  <2> QED BY <1>1, <2>1, <2>3 DEF LineInv, Asked, Identified, Recorded, Logged
<1> QED BY <1>3, <1>4, <1>5, <1>6, <1>7, <1>8 DEF LineNext

LEMMA LineInvariant == LineSpec => []LineInv
BY InitLineInv, LineStep, PTL DEF LineSpec

-----------------------------------------------------------------------------
LEMMA ConcatSet ==
  ASSUME NEW a \in Seq(Bytes), NEW b \in Seq(Bytes)
  PROVE  ToSet(a \o b) \subseteq ToSet(a) \cup ToSet(b)
<1>1. /\ DOMAIN a = 1..Len(a) /\ DOMAIN b = 1..Len(b) /\ Len(a) \in Nat /\ Len(b) \in Nat
      /\ DOMAIN (a \o b) = 1..(Len(a) + Len(b))
  OBVIOUS
<1>2. ASSUME NEW i \in 1..(Len(a) + Len(b))
      PROVE  (a \o b)[i] \in ToSet(a) \cup ToSet(b)
  <2>1. (a \o b)[i] = IF i <= Len(a) THEN a[i] ELSE b[i - Len(a)]
    BY ConcatProperties
  <2>2. CASE i <= Len(a)
    BY <1>1, <2>1, <2>2 DEF ToSet
  <2>3. CASE ~(i <= Len(a))
    <3>1. i - Len(a) \in DOMAIN b
      BY <1>1, <2>3
    <3> QED BY <2>1, <2>3, <3>1 DEF ToSet
  <2> QED BY <2>2, <2>3
<1> QED BY <1>1, <1>2 DEF ToSet

LEMMA MetricForm ==
  ASSUME LineInv, metric # None
  PROVE  /\ Metered("route") => /\ metric.method = RouteMetricMethod(req.method)
                                /\ metric.path = RouteMetricPath
         /\ Metered("plain") => metric.path = BoundLoggedPath(PolicyPath, Config.maxPath)
BY LineAssumption DEF LineInv, Recorded, RecordMetric, Metered

(* No credential is recorded under a path policy, for any options, routes, *)
(* paths and cap, and whatever the transform does (WithPathFunc,           *)
(* src/reqlog.go:237).                                                     *)
THEOREM NoCredential == LineSpec => []CredentialStaysOut
<1>1. ASSUME LineInv PROVE CredentialStaysOut
  <2> USE <1>1
  <2>1. /\ PolicyPath \in Seq(Bytes)
        /\ Covered(LastPathOption) => Credential \cap ToSet(PolicyPath) = {}
    BY PolicyIsClean DEF LineInv
  <2>2. Config.maxPath \in Nat
    BY ConfigFits DEF LineInv, Asked, Configs
  <2>3. Covered(LastPathOption) =>
          Credential \cap ToSet(BoundLoggedPath(PolicyPath, Config.maxPath)) = {}
    BY <2>1, <2>2, BoundIsClean
  <2>4. Credential \cap ToSet(RouteMetricPath) = {}
    <3>1. CASE pattern = NoPattern
      BY <3>1, CredentialAssumption DEF RouteMetricPath, ToSet
    <3>2. CASE pattern # NoPattern
      <4>1. /\ pattern.host \in Seq(Bytes) /\ pattern.path \in Seq(Bytes)
            /\ Credential \cap (ToSet(pattern.host) \cup ToSet(pattern.path)) = {}
        BY <3>2, PathAssumption, CredentialAssumption DEF LineInv, Asked, Requests
      <4>2. ToSet(pattern.host \o pattern.path) \subseteq ToSet(pattern.host) \cup ToSet(pattern.path)
        BY <4>1, ConcatSet
      <4> QED BY <3>2, <4>1, <4>2 DEF RouteMetricPath
    <3> QED BY <3>1, <3>2
  <2>5. Logged => line.path = BoundLoggedPath(PolicyPath, Config.maxPath)
    BY DEF LineInv, Recorded, TheLine
  <2>6. Metered("plain") => metric.path = BoundLoggedPath(PolicyPath, Config.maxPath)
    BY MetricForm DEF Metered
  <2>7. Metered("route") => metric.path = RouteMetricPath
    BY MetricForm DEF Metered
  <2> QED BY <2>3, <2>4, <2>5, <2>6, <2>7 DEF CredentialStaysOut, Covered
<1> QED BY <1>1, LineInvariant, PTL

(* The record of any request is small, of few kinds and under one id       *)
(* (boundLoggedPath, src/reqlog.go:378).                                   *)
THEOREM RecordsAreBounded == LineSpec => []RecordIsBounded
<1>1. ASSUME LineInv PROVE RecordIsBounded
  <2> USE <1>1
  <2>1. PathIsCapped
    <3>1. PolicyPath \in Seq(Bytes) /\ Config.maxPath \in Nat
      BY PolicyIsClean, ConfigFits DEF LineInv, Asked, Configs
    <3>2. Logged => line.path = BoundLoggedPath(PolicyPath, Config.maxPath)
      BY DEF LineInv, Recorded, TheLine
    <3> QED BY <3>1, <3>2, BoundIsCapped DEF PathIsCapped
  <2>2. Logged => line.method = BoundLoggedMethod(req.method) /\ line.id = ids.context
    BY DEF LineInv, Recorded, TheLine
  <2>3. Logged => line.method \notin OverlongMethods
    BY <2>2, LineAssumption DEF BoundLoggedMethod
  <2>4. SeriesComeFromRoutes
    <3> SUFFICES ASSUME Metered("route")
                 PROVE  /\ metric.method \in StandardMethods \cup {"other"}
                        /\ metric.path \in {<<"unmatched">>} \cup
                             {t.pattern.host \o t.pattern.path :
                                t \in {u \in Targets : u.pattern # NoPattern}}
                        /\ req.method \in StandardMethods => metric.method = line.method
      BY DEF SeriesComeFromRoutes
    <3>1. metric.method = RouteMetricMethod(req.method) /\ metric.path = RouteMetricPath
      BY MetricForm DEF Metered
    <3>2. line.method = BoundLoggedMethod(req.method)
      BY DEF LineInv, Recorded, Metered, TheLine
    <3>3. req.target \in Targets
      BY DEF LineInv, Asked, Requests
    <3>4. req.method \in StandardMethods => metric.method = line.method
      BY <3>1, <3>2, LineAssumption DEF RouteMetricMethod, BoundLoggedMethod
    <3>5. metric.path \in {<<"unmatched">>} \cup
            {t.pattern.host \o t.pattern.path : t \in {u \in Targets : u.pattern # NoPattern}}
      BY <3>1, <3>3 DEF RouteMetricPath, LineInv, Asked
    <3> QED BY <3>1, <3>4, <3>5 DEF RouteMetricMethod
  <2>5. OneRequestId
    BY <2>2, LineAssumption DEF OneRequestId, LineInv, Identified, ValidRequestID, Asked, Requests
  <2> QED BY <2>1, <2>3, <2>4, <2>5 DEF RecordIsBounded
<1> QED BY <1>1, LineInvariant, PTL

-----------------------------------------------------------------------------
(***************************************************************************)
(* List fields. A run of bytes that opens no quote it does not close, and  *)
(* has no comma outside of them, is read as part of one element (Passes);  *)
(* so after every line and element added, what the loop has yielded, with  *)
(* the element it is in, is what was sent (ListRead).                      *)
(***************************************************************************)
ListByte == {"comma", "quote", "slash", "space", "x", "y"}
Elem == Seq(ListByte)
ScanState == [list : Seq(Elem), elem : Elem, quoted : BOOLEAN, escaped : BOOLEAN]

(* White space around an element, and nothing but white space.             *)
Solid(w) == w # <<>> /\ w[1] # "space" /\ w[Len(w)] # "space"

LEMMA TrimmedType ==
  ASSUME NEW w \in Elem PROVE Trimmed(w) \in Elem
<1> DEFINE solid == {i \in DOMAIN w : w[i] # "space"}
<1>1. CASE solid = {}
  BY <1>1 DEF Trimmed, Elem
<1>2. CASE solid # {}
  <2>1. solid \subseteq 0..Len(w) /\ solid \subseteq Nat /\ Len(w) \in Nat
    BY DEF Elem
  <2> HIDE DEF solid
  <2>2. PICK a \in solid : \A j \in solid : a <= j
    BY <1>2, <2>1, LeastExists
  <2>3. PICK b \in solid : \A j \in solid : b >= j
    BY <1>2, <2>1, GreatestExists
  <2>4. Min(solid) \in solid /\ Max(solid) \in solid
    BY <2>2, <2>3 DEF Min, Max
  <2>5. Trimmed(w) = SubSeq(w, Min(solid), Max(solid))
    BY <1>2 DEF Trimmed, solid
  <2>6. Min(solid) \in 1..Len(w) /\ Max(solid) \in 1..Len(w)
    BY <2>4 DEF solid, Elem
  <2> QED BY <2>5, <2>6 DEF Elem
<1> QED BY <1>1, <1>2

LEMMA TrimmedSolid ==
  ASSUME NEW w \in Elem, Solid(w), NEW v \in Padded(w)
  PROVE  Trimmed(v) = w /\ v \in Elem
<1> DEFINE n == Len(w)
<1>1. n \in Nat /\ n > 0 /\ 1 \in DOMAIN w /\ n \in DOMAIN w /\ DOMAIN w = 1..n
  BY DEF Elem, Solid
<1>2. CASE v = w
  <2> DEFINE solid == {i \in DOMAIN w : w[i] # "space"}
  <2>1. 1 \in solid /\ n \in solid /\ \A j \in solid : j \in 1..n
    BY <1>1 DEF Solid
  <2> HIDE DEF solid
  <2>2. Min(solid) = 1 /\ Max(solid) = n
    BY <1>1, <2>1 DEF Min, Max
  <2>3. Trimmed(v) = SubSeq(w, 1, n)
    BY <1>2, <2>1, <2>2 DEF Trimmed, solid
  <2> QED BY <1>1, <1>2, <2>3 DEF Elem
<1>3. CASE v = <<"space">> \o w \o <<"space">>
  <2>1. v \in Elem /\ Len(v) = n + 2 /\ v[1] = "space" /\ v[n + 2] = "space"
        /\ \A i \in 1..n : v[i + 1] = w[i]
    BY <1>1, <1>3 DEF Elem, ListByte
  <2> DEFINE solid == {i \in DOMAIN v : v[i] # "space"}
  <2>2. 2 \in solid /\ n + 1 \in solid
    <3>1. v[2] = w[1] /\ v[n + 1] = w[n]
      BY <1>1, <2>1
    <3> QED BY <1>1, <2>1, <3>1 DEF Solid, Elem
  <2>3. \A j \in solid : j \in 2..(n + 1)
    BY <1>1, <2>1 DEF Elem
  <2> HIDE DEF solid
  <2>4. Min(solid) = 2 /\ Max(solid) = n + 1
    BY <1>1, <2>2, <2>3 DEF Min, Max
  <2>5. Trimmed(v) = SubSeq(v, 2, n + 1)
    BY <2>2, <2>4 DEF Trimmed, solid
  <2>6. SubSeq(v, 2, n + 1) = w
    BY <1>1, <2>1 DEF Elem
  <2> QED BY <2>1, <2>5, <2>6
<1> QED BY <1>2, <1>3 DEF Padded

LEMMA TrimmedEmpty == Trimmed(<<>>) = <<>> /\ Trimmed(<<"space">>) = <<>>
BY DEF Trimmed

-----------------------------------------------------------------------------
LEMMA ReadByteType ==
  ASSUME NEW s \in ScanState, NEW c \in ListByte, NEW syntax
  PROVE  ReadByte(s, c, syntax) \in ScanState
<1>1. Append(s.elem, c) \in Elem /\ <<>> \in Elem
  BY DEF ScanState, Elem
<1>2. Yield(s.list, s.elem) \in Seq(Elem)
  BY TrimmedType DEF Yield, ScanState
<1> QED BY <1>1, <1>2 DEF ReadByte, ScanState

(* The states of the loop over a field.                                    *)
LEMMA ScanSteps ==
  ASSUME NEW field \in Elem, NEW syntax
  PROVE  \E f \in [0..Len(field) -> ScanState] :
           /\ f[0] = AtStart
           /\ \A n \in 1..Len(field) : f[n] = ReadByte(f[n - 1], field[n], syntax)
           /\ Scan(field, syntax) = f[Len(field)]
<1> DEFINE N == Len(field)
<1> DEFINE F == [n \in 1..N |-> [s \in ScanState |-> ReadByte(s, field[n], syntax)]]
<1> DEFINE Body(f) == [n \in 0..N |-> IF n = 0 THEN AtStart ELSE ReadByte(f[n - 1], field[n], syntax)]
<1>1. N \in Nat /\ \A n \in 1..N : field[n] \in ListByte /\ n - 1 \in 0..N
  BY DEF Elem
<1>2. AtStart \in ScanState
  BY DEF AtStart, ScanState, Elem
<1>3. F \in Steps(ScanState, N)
  BY <1>1, ReadByteType DEF Steps
<1>4. PICK g \in Traces(ScanState, N) : Follows(g, AtStart, N, F)
  <2> HIDE DEF N, F
  <2> QED BY <1>1, <1>2, <1>3, RecursionExists
<1>5. g = Body(g)
  <2>1. \A n \in 1..N : g[n] = ReadByte(g[n - 1], field[n], syntax)
    BY <1>1, <1>4 DEF Traces, Follows
  <2> QED BY <1>1, <1>4, <2>1 DEF Traces, Follows
<1> DEFINE h == CHOOSE f : f = Body(f)
<1>6. h = Body(h)
  BY <1>5
<1>7. Scan(field, syntax) = h[N]
  BY DEF Scan
<1> HIDE DEF h
<1>8. \A n \in 0..N : h[n] \in ScanState
  <2> DEFINE T == {n \in 0..N : h[n] \in ScanState}
  <2>1. 0 \in T
    BY <1>1, <1>2, <1>6
  <2>2. ASSUME NEW n \in 1..N, n - 1 \in T PROVE n \in T
    <3>1. h[n] = ReadByte(h[n - 1], field[n], syntax)
      BY <1>6
    <3> QED BY <1>1, <2>2, <3>1, ReadByteType
  <2>3. 0..N \subseteq T
    <3> HIDE DEF T
    <3> QED BY <1>1, <2>1, <2>2, UpTo
  <2> QED BY <2>3
<1>9. h = [n \in 0..N |-> h[n]]
  BY <1>6
<1>10. h \in [0..N -> ScanState]
  BY <1>8, <1>9
<1>11. h[0] = AtStart /\ \A n \in 1..N : h[n] = ReadByte(h[n - 1], field[n], syntax)
  BY <1>1, <1>6
<1> QED BY <1>7, <1>10, <1>11

(* One byte more is one turn of the loop more.                             *)
LEMMA ScanAppend ==
  ASSUME NEW field \in Elem, NEW c \in ListByte, NEW syntax
  PROVE  /\ Scan(Append(field, c), syntax) = ReadByte(Scan(field, syntax), c, syntax)
         /\ Scan(field, syntax) \in ScanState
<1> DEFINE N == Len(field)
<1> DEFINE more == Append(field, c)
<1>1. N \in Nat /\ more \in Elem /\ Len(more) = N + 1 /\ more[N + 1] = c
      /\ \A n \in 1..N : more[n] = field[n]
  BY DEF Elem
<1>2. PICK f \in [0..N -> ScanState] :
        /\ f[0] = AtStart
        /\ \A n \in 1..N : f[n] = ReadByte(f[n - 1], field[n], syntax)
        /\ Scan(field, syntax) = f[N]
  BY ScanSteps
<1>3. PICK g \in [0..(N + 1) -> ScanState] :
        /\ g[0] = AtStart
        /\ \A n \in 1..(N + 1) : g[n] = ReadByte(g[n - 1], more[n], syntax)
        /\ Scan(more, syntax) = g[N + 1]
  <2> HIDE DEF more, N
  <2>1. PICK g \in [0..Len(more) -> ScanState] :
          /\ g[0] = AtStart
          /\ \A n \in 1..Len(more) : g[n] = ReadByte(g[n - 1], more[n], syntax)
          /\ Scan(more, syntax) = g[Len(more)]
    BY <1>1, ScanSteps
  <2> QED BY <1>1, <2>1
<1>4. g[N] = f[N]
  <2> DEFINE T == {n \in 0..N : g[n] = f[n]}
  <2>1. 0 \in T
    BY <1>1, <1>2, <1>3
  <2>2. ASSUME NEW n \in 1..N, n - 1 \in T PROVE n \in T
    <3>1. n \in 1..(N + 1)
      BY <1>1
    <3>2. g[n] = ReadByte(g[n - 1], field[n], syntax) /\ f[n] = ReadByte(f[n - 1], field[n], syntax)
      BY <1>1, <1>2, <1>3, <3>1
    <3> QED BY <2>2, <3>2
  <2>3. 0..N \subseteq T
    <3> HIDE DEF T
    <3> QED BY <1>1, <2>1, <2>2, UpTo
  <2> QED BY <1>1, <2>3
<1>5. g[N + 1] = ReadByte(g[N], c, syntax)
  <2>1. N + 1 \in 1..(N + 1) /\ N + 1 - 1 = N
    BY <1>1
  <2> QED BY <1>1, <1>3, <2>1
<1> QED BY <1>1, <1>2, <1>3, <1>4, <1>5

-----------------------------------------------------------------------------
(* The loop in the middle of an element, and outside quotes.               *)
Part(list, elem, q, x) == [list |-> list, elem |-> elem, quoted |-> q, escaped |-> x]
Reading(list, elem) == Part(list, elem, FALSE, FALSE)

(* A run of bytes in which every comma is quoted or escaped, and that ends *)
(* outside quotes: inQ and inX are the positions after which the loop is   *)
(* inside quotes and after a backslash.                                    *)
NextIn(inQ, inX, n, c, syntax) ==
  /\ n + 1 \in inX <=> n \notin inX /\ n \in inQ /\ c = "slash" /\ syntax = "quotedString"
  /\ n + 1 \in inQ <=> IF n \notin inX /\ c = "quote" /\ syntax # "token" THEN n \notin inQ
        ELSE n \in inQ
  /\ c = "comma" => n \in inQ \/ n \in inX

Whole(w, syntax) ==
  \E inQ, inX \in SUBSET (1..(Len(w) - 1)) :
    \A n \in 0..(Len(w) - 1) : NextIn(inQ, inX, n, w[n + 1], syntax)

Turned(q, x, c, syntax, q1, x1) ==
  /\ q1 <=> IF ~x /\ c = "quote" /\ syntax # "token" THEN ~q ELSE q
  /\ x1 <=> (~x /\ q /\ c = "slash" /\ syntax = "quotedString")

ReadOn(list, e, q, x, c, syntax) ==
  \E q1, x1 \in BOOLEAN :
    /\ ReadByte(Part(list, e, q, x), c, syntax) = Part(list, Append(e, c), q1, x1)
    /\ Turned(q, x, c, syntax, q1, x1)

LEMMA ReadNext ==
  ASSUME NEW list \in Seq(Elem), NEW e \in Elem, NEW q \in BOOLEAN, NEW x \in BOOLEAN,
         NEW c \in ListByte, NEW syntax, c = "comma" => q \/ x, x => q
  PROVE  ReadOn(list, e, q, x, c, syntax)
<1> USE DEF Part, Turned, ReadOn
<1>1. CASE x
  <2>1. ReadByte(Part(list, e, q, x), c, syntax) = Part(list, Append(e, c), q, FALSE)
    BY <1>1 DEF ReadByte
  <2> QED BY <1>1, <2>1
<1>2. CASE ~x /\ syntax = "quotedString" /\ q /\ c = "slash"
  <2>1. ReadByte(Part(list, e, q, x), c, syntax) = Part(list, Append(e, c), q, TRUE)
    BY <1>2 DEF ReadByte
  <2> QED BY <1>2, <2>1
<1>3. CASE ~x /\ syntax # "token" /\ c = "quote"
  <2>1. ReadByte(Part(list, e, q, x), c, syntax) = Part(list, Append(e, c), ~q, FALSE)
    BY <1>3 DEF ReadByte
  <2> QED BY <1>3, <2>1
<1>4. CASE ~x /\ ~(syntax = "quotedString" /\ q /\ c = "slash")
             /\ ~(syntax # "token" /\ c = "quote")
  <2>1. ReadByte(Part(list, e, q, x), c, syntax) = Part(list, Append(e, c), q, FALSE)
    BY <1>4 DEF ReadByte
  <2> QED BY <1>4, <2>1
<1> QED BY <1>1, <1>2, <1>3, <1>4

LEMMA ConcatAppend ==
  ASSUME NEW a \in Elem, NEW b \in Elem, NEW c \in ListByte
  PROVE  a \o Append(b, c) = Append(a \o b, c) /\ a \o b \in Elem /\ Append(b, c) \in Elem
BY DEF Elem

(* Such a run is read as part of the element begun.                        *)
LEMMA WholeIsRead ==
  ASSUME NEW field \in Elem, NEW list \in Seq(Elem), NEW e \in Elem, NEW syntax,
         NEW w \in Elem, Whole(w, syntax), Scan(field, syntax) = Reading(list, e)
  PROVE  Scan(field \o w, syntax) = Reading(list, e \o w)
<1> DEFINE N == Len(w)
<1> DEFINE first(n) == SubSeq(w, 1, n)
<1>1. N \in Nat /\ first(0) = <<>> /\ first(N) = w
      /\ \A n \in 1..N : w[n] \in ListByte /\ first(n) = Append(first(n - 1), w[n])
            /\ first(n - 1) \in Elem
  BY DEF Elem
<1>2. PICK inQ, inX \in SUBSET (1..(N - 1)) :
        \A n \in 0..(N - 1) : NextIn(inQ, inX, n, w[n + 1], syntax)
  BY DEF Whole
<1> DEFINE Read(n, q, x) ==
      /\ Scan(field \o first(n), syntax) = Part(list, e \o first(n), q, x)
      /\ q <=> n \in inQ
      /\ x <=> n \in inX
      /\ x => q
<1> DEFINE T == {n \in 0..N : \E q, x \in BOOLEAN : Read(n, q, x)}
<1>3. 0 \in T
  <2>1. field \o <<>> = field /\ e \o <<>> = e
    BY DEF Elem
  <2>2. 0 \notin inQ /\ 0 \notin inX
    BY <1>1
  <2>3. Read(0, FALSE, FALSE)
    BY <1>1, <2>1, <2>2 DEF Reading
  <2>4. 0 \in 0..N
    BY <1>1
  <2> HIDE DEF Read
  <2> QED BY <2>3, <2>4, Zenon
<1>4. ASSUME NEW n \in 1..N, n - 1 \in T PROVE n \in T
  <2> DEFINE c == w[n]
  <2> DEFINE p == first(n - 1)
  <2>1. n - 1 \in 0..(N - 1) /\ n - 1 + 1 = n /\ c \in ListByte /\ p \in Elem
          /\ first(n) = Append(p, c)
    BY <1>1
  <2>2. NextIn(inQ, inX, n - 1, c, syntax)
    BY <1>2, <2>1
  <2>3. PICK q, x \in BOOLEAN : Read(n - 1, q, x)
    BY <1>4
  <2> HIDE DEF c
  <2>4. Scan(field \o p, syntax) = Part(list, e \o p, q, x) /\ (x => q)
        /\ (q <=> n - 1 \in inQ) /\ (x <=> n - 1 \in inX)
    BY <2>3
  <2> HIDE DEF p, first
  <2>5. field \o p \in Elem /\ e \o p \in Elem
    BY <2>1, ConcatAppend
  <2>6. field \o first(n) = Append(field \o p, c) /\ e \o first(n) = Append(e \o p, c)
    BY <2>1, ConcatAppend
  <2>7. Scan(field \o first(n), syntax) = ReadByte(Part(list, e \o p, q, x), c, syntax)
    BY <2>1, <2>4, <2>5, <2>6, ScanAppend
  <2>8. c = "comma" => q \/ x
    BY <2>2, <2>4 DEF NextIn
  <2>9. PICK q1, x1 \in BOOLEAN :
          /\ ReadByte(Part(list, e \o p, q, x), c, syntax) = Part(list, Append(e \o p, c), q1, x1)
          /\ Turned(q, x, c, syntax, q1, x1)
    <3> DEFINE ep == e \o p
    <3>1. ep \in Elem
      BY <2>5
    <3>2. q \in BOOLEAN /\ x \in BOOLEAN
      OBVIOUS
    <3> HIDE DEF ep
    <3>3. c \in ListByte /\ (c = "comma" => q \/ x) /\ (x => q)
      BY <2>1, <2>4, <2>8
    <3>4. ReadOn(list, ep, q, x, c, syntax)
      BY <3>1, <3>2, <3>3, ReadNext
    <3> QED BY <3>4 DEF ep, ReadOn
  <2>10. (q1 <=> n \in inQ) /\ (x1 <=> n \in inX)
    BY <2>1, <2>2, <2>4, <2>9 DEF NextIn, Turned
  <2>11. x1 => q1
    BY <2>9 DEF Turned
  <2>12. Read(n, q1, x1)
    BY <2>6, <2>7, <2>9, <2>10, <2>11
  <2> HIDE DEF Read
  <2> QED BY <2>12
<1>5. N \in T
  <2> HIDE DEF T
  <2>1. 0..N \subseteq T
    BY <1>1, <1>3, <1>4, UpTo
  <2> QED BY <1>1, <2>1
<1>6. N \notin inQ /\ N \notin inX
  BY <1>1
<1>7. PICK q, x \in BOOLEAN : Read(N, q, x)
  BY <1>5
<1>8. q = FALSE /\ x = FALSE /\ Scan(field \o w, syntax) = Part(list, e \o w, q, x)
  BY <1>1, <1>6, <1>7
<1> QED BY <1>8 DEF Reading

(* The field so far, while the lines are joined.                           *)
Joins(f, lines) ==
  /\ f \in [0..Len(lines) -> Elem]
  /\ f[0] = <<>>
  /\ \A n \in 1..Len(lines) :
       f[n] = IF n = 1 THEN lines[1] ELSE f[n - 1] \o <<"comma">> \o lines[n]

LEMMA JoinSteps ==
  ASSUME NEW lines \in Seq(Elem)
  PROVE  \E f : Joins(f, lines) /\ Joined(lines) = f[Len(lines)]
<1> DEFINE N == Len(lines)
<1> DEFINE Turn(s, n) == IF n = 1 THEN lines[1] ELSE s \o <<"comma">> \o lines[n]
<1> DEFINE F == [n \in 1..N |-> [s \in Elem |-> Turn(s, n)]]
<1> DEFINE Body(f) == [n \in 0..N |-> IF n = 0 THEN <<>>
                                     ELSE IF n = 1 THEN lines[1]
                                     ELSE f[n - 1] \o <<"comma">> \o lines[n]]
<1>1. N \in Nat /\ \A n \in 1..N : lines[n] \in Elem /\ n - 1 \in 0..N
  OBVIOUS
<1>2. <<>> \in Elem /\ <<"comma">> \in Elem
  BY DEF Elem, ListByte
<1>3. \A s \in Elem, n \in 1..N : Turn(s, n) \in Elem
  BY <1>1, <1>2 DEF Elem
<1>4. F \in Steps(Elem, N)
  <2> HIDE DEF Turn
  <2> QED BY <1>1, <1>3 DEF Steps
<1>5. PICK g \in Traces(Elem, N) : Follows(g, <<>>, N, F)
  <2> HIDE DEF N, F
  <2> QED BY <1>1, <1>2, <1>4, RecursionExists
<1>6. \A n \in 1..N : g[n] = Turn(g[n - 1], n)
  <2> HIDE DEF Turn
  <2> QED BY <1>1, <1>5 DEF Traces, Follows
<1>7. g = Body(g)
  BY <1>1, <1>5, <1>6 DEF Traces, Follows
<1> DEFINE h == CHOOSE f : f = Body(f)
<1>8. h = Body(h)
  BY <1>7
<1>9. Joined(lines) = h[N]
  BY DEF Joined
<1> HIDE DEF h
<1>10. \A n \in 1..N : h[n] = Turn(h[n - 1], n)
  BY <1>1, <1>8
<1>11. h = [n \in 0..N |-> h[n]] /\ h[0] = <<>>
  BY <1>1, <1>8
<1>12. \A n \in 0..N : h[n] \in Elem
  <2> DEFINE T == {n \in 0..N : h[n] \in Elem}
  <2> HIDE DEF Turn
  <2>1. 0 \in T
    BY <1>1, <1>2, <1>11
  <2>2. ASSUME NEW n \in 1..N, n - 1 \in T PROVE n \in T
    BY <1>1, <1>3, <1>10, <2>2
  <2>3. 0..N \subseteq T
    <3> HIDE DEF T
    <3> QED BY <1>1, <2>1, <2>2, UpTo
  <2> QED BY <2>3
<1>13. h \in [0..N -> Elem]
  BY <1>11, <1>12
<1>14. Joins(h, lines)
  BY <1>10, <1>11, <1>13 DEF Joins
<1> QED BY <1>9, <1>14

(* Lists that agree but on the last line are joined alike up to it.        *)
LEMMA JoinedLast ==
  ASSUME NEW a \in Seq(Elem), NEW b \in Seq(Elem), NEW n \in Nat,
         n <= Len(a), n <= Len(b), \A i \in 1..n : a[i] = b[i],
         NEW f, Joins(f, a), NEW g, Joins(g, b)
  PROVE  f[n] = g[n]
<1> USE DEF Joins
<1> DEFINE T == {i \in 0..n : f[i] = g[i]}
<1>1. 0 \in T
  OBVIOUS
<1>2. ASSUME NEW i \in 1..n, i - 1 \in T PROVE i \in T
  <2>1. i \in 1..Len(a) /\ i \in 1..Len(b) /\ a[i] = b[i] /\ f[i - 1] = g[i - 1] /\ 1 \in 1..n
    BY <1>2
  <2>2. a[1] = b[1]
    BY <2>1
  <2> QED BY <2>1, <2>2
<1>3. 0..n \subseteq T
  <2> HIDE DEF T
  <2> QED BY <1>1, <1>2, UpTo
<1> QED BY <1>3

LEMMA JoinedAppend ==
  ASSUME NEW lines \in Seq(Elem), NEW w \in Elem
  PROVE  /\ Joined(lines) \in Elem
         /\ Joined(Append(lines, w)) = IF lines = <<>> THEN w ELSE Joined(lines) \o <<"comma">> \o w
<1> DEFINE N == Len(lines)
<1> DEFINE more == Append(lines, w)
<1>1. N \in Nat /\ more \in Seq(Elem) /\ Len(more) = N + 1 /\ more[N + 1] = w
      /\ (\A i \in 1..N : more[i] = lines[i]) /\ (N = 0 <=> lines = <<>>)
  OBVIOUS
<1> HIDE DEF more
<1>2. PICK f : Joins(f, lines) /\ Joined(lines) = f[N]
  BY JoinSteps
<1>3. PICK g : Joins(g, more) /\ Joined(more) = g[Len(more)]
  BY <1>1, JoinSteps
<1>4. g[N] = f[N]
  BY <1>1, <1>2, <1>3, N <= Len(lines), N <= Len(more), JoinedLast
<1>5. g[N + 1] = IF N = 0 THEN w ELSE g[N] \o <<"comma">> \o w
  <2>1. N + 1 \in 1..Len(more) /\ N + 1 - 1 = N
    BY <1>1
  <2> QED BY <1>1, <1>3, <2>1 DEF Joins
<1> QED BY <1>1, <1>2, <1>3, <1>4, <1>5 DEF more, Joins

LEMMA ConcatAssoc ==
  ASSUME NEW a \in Elem, NEW b \in Elem, NEW c \in Elem
  PROVE  a \o b \o c = a \o (b \o c) /\ b \o c \in Elem
BY DEF Elem

LEMMA JoinedExtend ==
  ASSUME NEW lines \in Seq(Elem), lines # <<>>, NEW w \in Elem
  PROVE  Joined([lines EXCEPT ![Len(lines)] = @ \o w]) = Joined(lines) \o w
<1> DEFINE N == Len(lines)
<1> DEFINE more == [lines EXCEPT ![N] = @ \o w]
<1>1. N \in Nat /\ N > 0 /\ lines[N] \in Elem
  OBVIOUS
<1>2. lines[N] \o w \in Elem
  BY <1>1 DEF Elem
<1>3. more \in Seq(Elem) /\ Len(more) = N /\ more[N] = lines[N] \o w
      /\ \A i \in 1..(N - 1) : more[i] = lines[i]
  BY <1>1, <1>2
<1> HIDE DEF more
<1>4. PICK f : Joins(f, lines) /\ Joined(lines) = f[N]
  BY JoinSteps
<1>5. PICK g : Joins(g, more) /\ Joined(more) = g[Len(more)]
  BY <1>3, JoinSteps
<1>6. N - 1 \in Nat /\ N - 1 <= N
  BY <1>1
<1>7. g[N - 1] = f[N - 1] /\ f[N - 1] \in Elem
  <2>1. g[N - 1] = f[N - 1]
    <3> DEFINE h == N - 1
    <3>1. h \in Nat /\ h <= Len(lines) /\ h <= Len(more) /\ \A i \in 1..h : lines[i] = more[i]
      BY <1>3, <1>6
    <3> HIDE DEF h
    <3>2. f[h] = g[h]
      BY <1>3, <1>4, <1>5, <3>1, JoinedLast
    <3> QED BY <3>2 DEF h
  <2>2. N - 1 \in 0..N
    BY <1>1
  <2> QED BY <1>4, <2>1, <2>2 DEF Joins
<1>8. N \in 1..N
  BY <1>1
<1>9. CASE N = 1
  BY <1>3, <1>4, <1>5, <1>8, <1>9 DEF more, Joins
<1>10. CASE N # 1
  <2>1. Joined(lines) = f[N - 1] \o <<"comma">> \o lines[N]
    BY <1>4, <1>8, <1>10 DEF Joins
  <2>2. Joined(more) = f[N - 1] \o <<"comma">> \o (lines[N] \o w)
    <3>1. Joined(more) = g[N] /\ N \in 1..Len(more)
      BY <1>3, <1>5, <1>8
    <3>2. g[N] = g[N - 1] \o <<"comma">> \o more[N]
      BY <1>5, <1>10, <3>1 DEF Joins
    <3>3. g[N - 1] = f[N - 1] /\ more[N] = lines[N] \o w
      BY <1>3, <1>7, Zenon
    <3> QED BY <3>1, <3>2, <3>3, Zenon
  <2>3. f[N - 1] \o <<"comma">> \in Elem
    BY <1>7 DEF Elem, ListByte
  <2>4. Joined(more) = (f[N - 1] \o <<"comma">> \o lines[N]) \o w
    <3> DEFINE c == f[N - 1] \o <<"comma">>
    <3>1. c \in Elem /\ lines[N] \in Elem /\ w \in Elem
      BY <1>1, <2>3
    <3>2. Joined(more) = c \o (lines[N] \o w)
      BY <2>2
    <3> HIDE DEF c
    <3>3. Joined(more) = c \o lines[N] \o w
      BY <3>1, <3>2, ConcatAssoc
    <3> QED BY <3>3 DEF c
  <2> QED BY <2>1, <2>4 DEF more
<1> QED BY <1>9, <1>10

(* A run with the places named where the loop is in quotes and escaped.    *)
LEMMA WholeBy ==
  ASSUME NEW w \in Elem, NEW syntax,
         NEW inQ \in SUBSET (1..(Len(w) - 1)), NEW inX \in SUBSET (1..(Len(w) - 1)),
         \A n \in 0..(Len(w) - 1) : NextIn(inQ, inX, n, w[n + 1], syntax)
  PROVE  Whole(w, syntax)
BY Zenon DEF Whole

(* Each element the sender writes is one run, with no white space around.  *)
LEMMA ElementsAreWhole ==
  ASSUME NEW syntax \in Syntaxes, NEW w \in Elements(syntax)
  PROVE  w \in Elem /\ Solid(w) /\ Whole(w, syntax)
<1>1. CASE syntax = "token"
  <2>1. CASE w = <<"x">>
    <3>1. w \in Elem /\ Solid(w)
      BY <2>1 DEF Elem, ListByte, Solid
    <3>2. {} \in SUBSET (1..(Len(w) - 1)) /\ {} \in SUBSET (1..(Len(w) - 1))
      BY <2>1
    <3>3. \A n \in 0..(Len(w) - 1) : NextIn({}, {}, n, w[n + 1], syntax)
      BY <1>1, <2>1 DEF NextIn
    <3> QED BY <3>1, <3>2, <3>3, WholeBy
  <2>2. CASE w = <<"quote">>
    <3>1. w \in Elem /\ Solid(w)
      BY <2>2 DEF Elem, ListByte, Solid
    <3>2. {} \in SUBSET (1..(Len(w) - 1)) /\ {} \in SUBSET (1..(Len(w) - 1))
      BY <2>2
    <3>3. \A n \in 0..(Len(w) - 1) : NextIn({}, {}, n, w[n + 1], syntax)
      BY <1>1, <2>2 DEF NextIn
    <3> QED BY <3>1, <3>2, <3>3, WholeBy
  <2>3. CASE w = <<"quote", "x">>
    <3>1. w \in Elem /\ Solid(w)
      BY <2>3 DEF Elem, ListByte, Solid
    <3>2. {} \in SUBSET (1..(Len(w) - 1)) /\ {} \in SUBSET (1..(Len(w) - 1))
      BY <2>3
    <3>3. \A n \in 0..(Len(w) - 1) : NextIn({}, {}, n, w[n + 1], syntax)
      BY <1>1, <2>3 DEF NextIn
    <3> QED BY <3>1, <3>2, <3>3, WholeBy
  <2>4. CASE w = <<"x", "quote", "slash">>
    <3>1. w \in Elem /\ Solid(w)
      BY <2>4 DEF Elem, ListByte, Solid
    <3>2. {} \in SUBSET (1..(Len(w) - 1)) /\ {} \in SUBSET (1..(Len(w) - 1))
      BY <2>4
    <3>3. \A n \in 0..(Len(w) - 1) : NextIn({}, {}, n, w[n + 1], syntax)
      BY <1>1, <2>4 DEF NextIn
    <3> QED BY <3>1, <3>2, <3>3, WholeBy
  <2>5. CASE w = <<"x", "space", "y">>
    <3>1. w \in Elem /\ Solid(w)
      BY <2>5 DEF Elem, ListByte, Solid
    <3>2. {} \in SUBSET (1..(Len(w) - 1)) /\ {} \in SUBSET (1..(Len(w) - 1))
      BY <2>5
    <3>3. \A n \in 0..(Len(w) - 1) : NextIn({}, {}, n, w[n + 1], syntax)
      BY <1>1, <2>5 DEF NextIn
    <3> QED BY <3>1, <3>2, <3>3, WholeBy
  <2>6. CASE w = <<"slash", "quote">>
    <3>1. w \in Elem /\ Solid(w)
      BY <2>6 DEF Elem, ListByte, Solid
    <3>2. {} \in SUBSET (1..(Len(w) - 1)) /\ {} \in SUBSET (1..(Len(w) - 1))
      BY <2>6
    <3>3. \A n \in 0..(Len(w) - 1) : NextIn({}, {}, n, w[n + 1], syntax)
      BY <1>1, <2>6 DEF NextIn
    <3> QED BY <3>1, <3>2, <3>3, WholeBy
  <2> QED BY <1>1, <2>1, <2>2, <2>3, <2>4, <2>5, <2>6 DEF Elements
<1>2. CASE syntax = "quotedString"
  <2>1. CASE w = <<"x">>
    <3>1. w \in Elem /\ Solid(w)
      BY <2>1 DEF Elem, ListByte, Solid
    <3>2. {} \in SUBSET (1..(Len(w) - 1)) /\ {} \in SUBSET (1..(Len(w) - 1))
      BY <2>1
    <3>3. \A n \in 0..(Len(w) - 1) : NextIn({}, {}, n, w[n + 1], syntax)
      BY <1>2, <2>1 DEF NextIn
    <3> QED BY <3>1, <3>2, <3>3, WholeBy
  <2>2. CASE w = <<"quote", "comma", "quote">>
    <3>1. w \in Elem /\ Solid(w)
      BY <2>2 DEF Elem, ListByte, Solid
    <3>2. {1, 2} \in SUBSET (1..(Len(w) - 1)) /\ {} \in SUBSET (1..(Len(w) - 1))
      BY <2>2
    <3>3. \A n \in 0..(Len(w) - 1) : NextIn({1, 2}, {}, n, w[n + 1], syntax)
      BY <1>2, <2>2 DEF NextIn
    <3> QED BY <3>1, <3>2, <3>3, WholeBy
  <2>3. CASE w = <<"x", "quote", "slash", "quote", "comma", "quote">>
    <3>1. w \in Elem /\ Solid(w)
      BY <2>3 DEF Elem, ListByte, Solid
    <3>2. (2..5) \in SUBSET (1..(Len(w) - 1)) /\ {3} \in SUBSET (1..(Len(w) - 1))
      BY <2>3
    <3>3. \A n \in 0..(Len(w) - 1) : NextIn((2..5), {3}, n, w[n + 1], syntax)
      BY <1>2, <2>3 DEF NextIn
    <3> QED BY <3>1, <3>2, <3>3, WholeBy
  <2>4. CASE w = <<"quote", "slash", "slash", "quote">>
    <3>1. w \in Elem /\ Solid(w)
      BY <2>4 DEF Elem, ListByte, Solid
    <3>2. (1..3) \in SUBSET (1..(Len(w) - 1)) /\ {2} \in SUBSET (1..(Len(w) - 1))
      BY <2>4
    <3>3. \A n \in 0..(Len(w) - 1) : NextIn((1..3), {2}, n, w[n + 1], syntax)
      BY <1>2, <2>4 DEF NextIn
    <3> QED BY <3>1, <3>2, <3>3, WholeBy
  <2>5. CASE w = <<"slash", "x">>
    <3>1. w \in Elem /\ Solid(w)
      BY <2>5 DEF Elem, ListByte, Solid
    <3>2. {} \in SUBSET (1..(Len(w) - 1)) /\ {} \in SUBSET (1..(Len(w) - 1))
      BY <2>5
    <3>3. \A n \in 0..(Len(w) - 1) : NextIn({}, {}, n, w[n + 1], syntax)
      BY <1>2, <2>5 DEF NextIn
    <3> QED BY <3>1, <3>2, <3>3, WholeBy
  <2>6. CASE w = <<"quote", "space", "quote">>
    <3>1. w \in Elem /\ Solid(w)
      BY <2>6 DEF Elem, ListByte, Solid
    <3>2. {1, 2} \in SUBSET (1..(Len(w) - 1)) /\ {} \in SUBSET (1..(Len(w) - 1))
      BY <2>6
    <3>3. \A n \in 0..(Len(w) - 1) : NextIn({1, 2}, {}, n, w[n + 1], syntax)
      BY <1>2, <2>6 DEF NextIn
    <3> QED BY <3>1, <3>2, <3>3, WholeBy
  <2>7. CASE w = <<"quote", "quote", "x">>
    <3>1. w \in Elem /\ Solid(w)
      BY <2>7 DEF Elem, ListByte, Solid
    <3>2. {1} \in SUBSET (1..(Len(w) - 1)) /\ {} \in SUBSET (1..(Len(w) - 1))
      BY <2>7
    <3>3. \A n \in 0..(Len(w) - 1) : NextIn({1}, {}, n, w[n + 1], syntax)
      BY <1>2, <2>7 DEF NextIn
    <3> QED BY <3>1, <3>2, <3>3, WholeBy
  <2> QED BY <1>2, <2>1, <2>2, <2>3, <2>4, <2>5, <2>6, <2>7 DEF Elements
<1>3. CASE syntax = "entityTag"
  <2>1. CASE w = <<"quote", "x", "quote">>
    <3>1. w \in Elem /\ Solid(w)
      BY <2>1 DEF Elem, ListByte, Solid
    <3>2. {1, 2} \in SUBSET (1..(Len(w) - 1)) /\ {} \in SUBSET (1..(Len(w) - 1))
      BY <2>1
    <3>3. \A n \in 0..(Len(w) - 1) : NextIn({1, 2}, {}, n, w[n + 1], syntax)
      BY <1>3, <2>1 DEF NextIn
    <3> QED BY <3>1, <3>2, <3>3, WholeBy
  <2>2. CASE w = <<"x", "quote", "comma", "x", "quote">>
    <3>1. w \in Elem /\ Solid(w)
      BY <2>2 DEF Elem, ListByte, Solid
    <3>2. (2..4) \in SUBSET (1..(Len(w) - 1)) /\ {} \in SUBSET (1..(Len(w) - 1))
      BY <2>2
    <3>3. \A n \in 0..(Len(w) - 1) : NextIn((2..4), {}, n, w[n + 1], syntax)
      BY <1>3, <2>2 DEF NextIn
    <3> QED BY <3>1, <3>2, <3>3, WholeBy
  <2>3. CASE w = <<"quote", "slash", "quote">>
    <3>1. w \in Elem /\ Solid(w)
      BY <2>3 DEF Elem, ListByte, Solid
    <3>2. {1, 2} \in SUBSET (1..(Len(w) - 1)) /\ {} \in SUBSET (1..(Len(w) - 1))
      BY <2>3
    <3>3. \A n \in 0..(Len(w) - 1) : NextIn({1, 2}, {}, n, w[n + 1], syntax)
      BY <1>3, <2>3 DEF NextIn
    <3> QED BY <3>1, <3>2, <3>3, WholeBy
  <2>4. CASE w = <<"quote", "slash", "slash", "quote">>
    <3>1. w \in Elem /\ Solid(w)
      BY <2>4 DEF Elem, ListByte, Solid
    <3>2. (1..3) \in SUBSET (1..(Len(w) - 1)) /\ {} \in SUBSET (1..(Len(w) - 1))
      BY <2>4
    <3>3. \A n \in 0..(Len(w) - 1) : NextIn((1..3), {}, n, w[n + 1], syntax)
      BY <1>3, <2>4 DEF NextIn
    <3> QED BY <3>1, <3>2, <3>3, WholeBy
  <2>5. CASE w = <<"x">>
    <3>1. w \in Elem /\ Solid(w)
      BY <2>5 DEF Elem, ListByte, Solid
    <3>2. {} \in SUBSET (1..(Len(w) - 1)) /\ {} \in SUBSET (1..(Len(w) - 1))
      BY <2>5
    <3>3. \A n \in 0..(Len(w) - 1) : NextIn({}, {}, n, w[n + 1], syntax)
      BY <1>3, <2>5 DEF NextIn
    <3> QED BY <3>1, <3>2, <3>3, WholeBy
  <2> QED BY <1>3, <2>1, <2>2, <2>3, <2>4, <2>5 DEF Elements
<1> QED BY <1>1, <1>2, <1>3 DEF Syntaxes

LEMMA SpaceIsWhole ==
  ASSUME NEW syntax
  PROVE  /\ <<"space">> \in Elem /\ Whole(<<"space">>, syntax)
         /\ <<>> \in Elem /\ Whole(<<>>, syntax)
<1>1. <<"space">> \in Elem /\ Len(<<"space">>) = 1 /\ <<>> \in Elem /\ Len(<<>>) = 0
  BY DEF Elem, ListByte
<1>2. {} \in SUBSET (1..(1 - 1)) /\ {} \in SUBSET (1..(0 - 1))
  OBVIOUS
<1>3. \A n \in 0..(1 - 1) : NextIn({}, {}, n, <<"space">>[n + 1], syntax)
  BY DEF NextIn
<1>4. \A n \in 0..(0 - 1) : NextIn({}, {}, n, <<>>[n + 1], syntax)
  OBVIOUS
<1> QED BY <1>1, <1>2, <1>3, <1>4, WholeBy

-----------------------------------------------------------------------------
(* The loop is between two elements of the field: what it has yielded, and *)
(* what it would with the element begun, are the elements sent.            *)
ListRead ==
  /\ text \in Seq(Elem) /\ meant \in Seq(Elem)
  /\ text = <<>> => meant = <<>>
  /\ text # <<>> => \E list \in Seq(Elem), e \in Elem :
       Scan(Joined(text), kind) = Reading(list, e) /\ Yield(list, e) = meant

ScanInv == kind \in Syntaxes => ListRead

LEMMA EmptyField == ASSUME NEW syntax PROVE Scan(<<>>, syntax) = Reading(<<>>, <<>>)
<1>1. <<>> \in Elem /\ Len(<<>>) = 0
  BY DEF Elem
<1>2. PICK f \in [0..Len(<<>>) -> ScanState] : f[0] = AtStart /\ Scan(<<>>, syntax) = f[Len(<<>>)]
  BY <1>1, ScanSteps
<1> QED BY <1>1, <1>2 DEF AtStart, Reading, Part

(* A comma outside quotes ends an element.                                 *)
LEMMA CommaEnds ==
  ASSUME NEW field \in Elem, NEW list \in Seq(Elem), NEW e \in Elem, NEW syntax,
         Scan(field, syntax) = Reading(list, e)
  PROVE  Scan(field \o <<"comma">>, syntax) = Reading(Yield(list, e), <<>>)
<1>1. field \o <<"comma">> = Append(field, "comma") /\ "comma" \in ListByte
  BY DEF Elem, ListByte
<1>2. Scan(field \o <<"comma">>, syntax) = ReadByte(Reading(list, e), "comma", syntax)
  BY <1>1, ScanAppend
<1> QED BY <1>2 DEF ReadByte, Reading, Part

(* A run is read as part of the element begun, and two of them are.        *)
Passes(w, syntax) ==
  \A field, e \in Elem, list \in Seq(Elem) :
    Scan(field, syntax) = Reading(list, e) => Scan(field \o w, syntax) = Reading(list, e \o w)

LEMMA WholePasses ==
  ASSUME NEW w \in Elem, NEW syntax, Whole(w, syntax) PROVE Passes(w, syntax)
BY WholeIsRead DEF Passes

LEMMA BothPass ==
  ASSUME NEW v \in Elem, NEW w \in Elem, NEW syntax, Passes(v, syntax), Passes(w, syntax)
  PROVE  Passes(v \o w, syntax)
<1> SUFFICES ASSUME NEW field \in Elem, NEW e \in Elem, NEW list \in Seq(Elem),
                    Scan(field, syntax) = Reading(list, e)
             PROVE  Scan(field \o (v \o w), syntax) = Reading(list, e \o (v \o w))
  BY DEF Passes
<1>1. Scan(field \o v, syntax) = Reading(list, e \o v) /\ field \o v \in Elem /\ e \o v \in Elem
  BY ConcatAssoc DEF Passes
<1>2. Scan((field \o v) \o w, syntax) = Reading(list, (e \o v) \o w)
  BY <1>1 DEF Passes
<1> QED BY <1>2, ConcatAssoc

(* Bytes added to the lines: as a line of its own or after a comma, they   *)
(* are read after what was meant before.                                   *)
LEMMA AddedIsRead ==
  ASSUME ListRead, NEW w \in Elem, Passes(w, kind), AddToLines(w)
  PROVE  /\ text' \in Seq(Elem) /\ text' # <<>>
         /\ Scan(Joined(text'), kind) = Reading(meant, w)
<1>1. /\ text \in Seq(Elem) /\ meant \in Seq(Elem)
      /\ <<"comma">> \in Elem /\ <<>> \in Elem /\ <<>> \in Seq(Elem)
  BY DEF ListRead, Elem, ListByte
<1>2. CASE text = <<>>
  <2>1. text' = Append(text, w)
    BY <1>2 DEF AddToLines
  <2>2. Joined(text') = w
    BY <1>1, <1>2, <2>1, JoinedAppend
  <2>3. Scan(<<>> \o w, kind) = Reading(<<>>, <<>> \o w)
    <3> DEFINE none == <<>>
    <3>1. none \in Elem /\ none \in Seq(Elem) /\ Scan(none, kind) = Reading(none, none)
      BY <1>1, EmptyField
    <3> HIDE DEF none
    <3>2. Scan(none \o w, kind) = Reading(none, none \o w)
      BY <3>1 DEF Passes
    <3> QED BY <3>2 DEF none
  <2>4. <<>> \o w = w
    BY DEF Elem
  <2>5. meant = <<>>
    BY <1>2 DEF ListRead
  <2> QED BY <1>1, <2>1, <2>2, <2>3, <2>4, <2>5
<1>3. CASE text # <<>>
  <2> DEFINE sep == <<"comma">>
  <2> DEFINE field == Joined(text)
  <2>1. field \in Elem /\ sep \in Elem
    BY <1>1, JoinedAppend
  <2>2. text' \in Seq(Elem) /\ text' # <<>> /\ Joined(text') = (field \o sep) \o w
    <3>1. CASE text' = Append(text, w)
      <4>1. Joined(Append(text, w)) = field \o sep \o w
        BY <1>1, <1>3, JoinedAppend
      <4>2. Append(text, w) \in Seq(Elem) /\ Append(text, w) # <<>>
        BY <1>1
      <4> QED BY <3>1, <4>1, <4>2
    <3>2. CASE text' = [text EXCEPT ![Len(text)] = @ \o sep \o w]
      <4>1. text[Len(text)] \in Elem
        BY <1>1, <1>3
      <4>2. text[Len(text)] \o sep \o w = text[Len(text)] \o (sep \o w) /\ sep \o w \in Elem
        <5> HIDE DEF sep
        <5> QED BY <2>1, <4>1, ConcatAssoc
      <4>3. text' = [text EXCEPT ![Len(text)] = @ \o (sep \o w)]
        BY <3>2, <4>2
      <4>4. Joined(text') = field \o (sep \o w)
        BY <1>1, <1>3, <4>2, <4>3, JoinedExtend
      <4>5. field \o (sep \o w) = (field \o sep) \o w
        <5> HIDE DEF field, sep
        <5> QED BY <2>1 DEF Elem
      <4>6. text[Len(text)] \o (sep \o w) \in Elem
        BY <4>1, <4>2 DEF Elem
      <4>7. text' \in Seq(Elem) /\ text' # <<>>
        <5> DEFINE last == text[Len(text)] \o (sep \o w)
        <5>1. text' = [text EXCEPT ![Len(text)] = last]
          BY <4>3
        <5>2. last \in Elem
          BY <4>6
        <5> HIDE DEF last
        <5> QED BY <1>1, <1>3, <5>1, <5>2
      <4> QED BY <4>4, <4>5, <4>7
    <3> QED BY <1>3, <3>1, <3>2 DEF AddToLines
  <2>3. PICK list \in Seq(Elem), e \in Elem :
          Scan(field, kind) = Reading(list, e) /\ Yield(list, e) = meant
    BY <1>3 DEF ListRead
  <2> HIDE DEF field
  <2>4. Scan(field \o sep, kind) = Reading(meant, <<>>)
    BY <2>1, <2>3, CommaEnds
  <2>5. field \o sep \in Elem
    BY <2>1 DEF Elem
  <2>6. Scan((field \o sep) \o w, kind) = Reading(meant, <<>> \o w)
    <3> DEFINE none == <<>>
    <3> DEFINE before == field \o sep
    <3>1. none \in Elem /\ before \in Elem /\ Scan(before, kind) = Reading(meant, none)
      BY <1>1, <2>4, <2>5
    <3> HIDE DEF none, before
    <3>2. Scan(before \o w, kind) = Reading(meant, none \o w)
      BY <1>1, <3>1 DEF Passes
    <3> QED BY <3>2 DEF none, before
  <2>7. <<>> \o w = w
    BY DEF Elem
  <2> QED BY <2>2, <2>6, <2>7
<1> QED BY <1>2, <1>3

(* An element, plain or padded, is one run that trims to it.               *)
LEMMA PaddedIsRead ==
  ASSUME NEW syntax \in Syntaxes, NEW w \in Elements(syntax), NEW v \in Padded(w)
  PROVE  /\ v \in Elem /\ Passes(v, syntax)
         /\ \A list \in Seq(Elem) : Yield(list, v) = Append(list, w)
<1>1. w \in Elem /\ Solid(w) /\ Whole(w, syntax)
  BY ElementsAreWhole
<1>2. v \in Elem /\ Trimmed(v) = w
  BY <1>1, TrimmedSolid
<1>3. Passes(w, syntax) /\ <<"space">> \in Elem /\ Passes(<<"space">>, syntax)
  BY <1>1, SpaceIsWhole, WholePasses
<1>4. Passes(<<"space">> \o w \o <<"space">>, syntax)
  <2>1. Passes(<<"space">> \o w, syntax) /\ <<"space">> \o w \in Elem
    BY <1>1, <1>3, BothPass, ConcatAssoc
  <2> QED BY <1>3, <2>1, BothPass
<1>5. \A list \in Seq(Elem) : Yield(list, v) = Append(list, w)
  BY <1>1, <1>2 DEF Yield, Solid
<1> QED BY <1>2, <1>3, <1>4, <1>5 DEF Padded

LEMMA ScanStep == ScanInv /\ [ScanNext]_scanVars => ScanInv'
<1> SUFFICES ASSUME ScanInv, [ScanNext]_scanVars, kind' \in Syntaxes PROVE ListRead'
  BY DEF ScanInv
<1>1. kind' = kind
  BY DEF ScanNext, AddElement, AddEmpty, AddPair, AddScript, AddOther, CutShort, AddToPage,
         AddToBody, Written, scanVars
<1>2. ListRead /\ kind \in Syntaxes
  BY <1>1 DEF ScanInv
<1>3. CASE AddElement
  <2>1. PICK elem \in Elements(kind) :
          /\ meant' = Append(meant, elem)
          /\ \E bytes \in Padded(elem) : AddToLines(bytes)
    BY <1>3 DEF AddElement
  <2>2. PICK bytes \in Padded(elem) : AddToLines(bytes)
    BY <2>1
  <2>3. /\ bytes \in Elem /\ elem \in Elem /\ Passes(bytes, kind)
        /\ \A list \in Seq(Elem) : Yield(list, bytes) = Append(list, elem)
    BY <1>2, PaddedIsRead, ElementsAreWhole
  <2>4. /\ text' \in Seq(Elem) /\ text' # <<>>
        /\ Scan(Joined(text'), kind) = Reading(meant, bytes)
    BY <1>2, <2>2, <2>3, AddedIsRead
  <2>5. meant \in Seq(Elem) /\ meant' \in Seq(Elem) /\ Yield(meant, bytes) = meant'
    BY <1>2, <2>1, <2>3 DEF ListRead
  <2> QED BY <1>1, <2>3, <2>4, <2>5 DEF ListRead
<1>4. CASE AddEmpty
  <2>1. meant' = meant
    BY <1>4 DEF AddEmpty
  <2>2. PICK bytes \in {<<>>, <<"space">>} : AddToLines(bytes)
    BY <1>4 DEF AddEmpty
  <2>3. bytes \in Elem /\ Passes(bytes, kind) /\ Trimmed(bytes) = <<>>
    BY SpaceIsWhole, WholePasses, TrimmedEmpty
  <2>4. /\ text' \in Seq(Elem) /\ text' # <<>>
        /\ Scan(Joined(text'), kind) = Reading(meant, bytes)
    BY <1>2, <2>2, <2>3, AddedIsRead
  <2>5. meant \in Seq(Elem) /\ Yield(meant, bytes) = meant
    BY <1>2, <2>3 DEF ListRead, Yield
  <2> QED BY <1>1, <2>1, <2>3, <2>4, <2>5 DEF ListRead
<1>5. CASE AddPair \/ AddScript \/ AddOther \/ CutShort \/ AddToBody
  BY <1>2, <1>5 DEF AddPair, AddScript, AddOther, CutShort, AddToPage, AddToBody, Syntaxes
<1>6. CASE Written \/ UNCHANGED scanVars
  <2>1. UNCHANGED <<text, meant, kind>>
    BY <1>6 DEF Written, scanVars
  <2> QED BY <1>2, <2>1 DEF ListRead
<1> QED BY <1>3, <1>4, <1>5, <1>6 DEF ScanNext

(* What fieldList reads of a field is what was sent, in each syntax and for*)
(* any number of elements, empty ones among them, on any lines             *)
(* (src/fieldlist.go:26).                                                  *)
THEOREM ListIsRead == ScanSpec => []ReadsWhatWasSent
<1>1. ScanInit => ScanInv
  BY DEF ScanInit, ScanInv, ListRead
<1>2. ASSUME ScanInv PROVE ReadsWhatWasSent
  <2> SUFFICES ASSUME kind \in Syntaxes PROVE Fields(text, kind) = meant
    BY DEF ReadsWhatWasSent
  <2>1. ListRead
    BY <1>2 DEF ScanInv
  <2>2. CASE text = <<>>
    <3>1. Joined(text) = <<>>
      <4>1. <<>> \in Seq(Elem)
        OBVIOUS
      <4>2. PICK f : Joins(f, <<>>) /\ Joined(<<>>) = f[Len(<<>>)]
        BY <4>1, JoinSteps
      <4> QED BY <2>2, <4>2 DEF Joins
    <3>2. Scan(<<>>, kind) = Reading(<<>>, <<>>)
      BY EmptyField
    <3> QED BY <2>1, <2>2, <3>1, <3>2, TrimmedEmpty DEF Fields, Reading, Part, Yield, ListRead
  <2>3. CASE text # <<>>
    <3>1. PICK list \in Seq(Elem), e \in Elem :
            Scan(Joined(text), kind) = Reading(list, e) /\ Yield(list, e) = meant
      BY <2>1, <2>3 DEF ListRead
    <3> QED BY <3>1 DEF Fields, Reading, Part
  <2> QED BY <2>2, <2>3
<1> QED BY <1>1, <1>2, ScanStep, PTL DEF ScanSpec

(***************************************************************************)
(* Forwarded elements.                                                     *)
(***************************************************************************)
Special == {"quote", "slash", "ctl"}
Group == TokenGroups \cup Special \cup {"eq", "semi", "colon", "lbracket", "rbracket", "v6"}
Groups == Seq(Group)
QuoteState == [value : Groups, escaped : BOOLEAN, end : Nat, bad : BOOLEAN]
Cut(value, rest) == [ok |-> TRUE, value |-> value, rest |-> rest]

LEMMA QuotedByteType ==
  ASSUME NEW p \in QuoteState, NEW c \in Group, NEW i \in Nat
  PROVE  QuotedByte(p, c, i) \in QuoteState
<1>1. Append(p.value, c) \in Groups
  BY DEF QuoteState, Groups
<1> QED BY <1>1 DEF QuotedByte, QuoteState

(* The states of the scan of a quoted-string.                              *)
QuotedSteps(f, s) ==
  /\ f[0] = InQuotes
  /\ \A n \in 1..Len(s) : f[n] = QuotedByte(f[n - 1], s[n], n)

LEMMA QuotedScan ==
  ASSUME NEW s \in Groups
  PROVE  \E f : /\ QuotedSteps(f, s)
                /\ CutQuoted(s) = IF f[Len(s)].end = 0 THEN Uncut
                                  ELSE Cut(f[Len(s)].value, After(s, f[Len(s)].end))
<1> DEFINE N == Len(s)
<1> DEFINE F == [n \in 1..N |-> [p \in QuoteState |-> QuotedByte(p, s[n], n)]]
<1> DEFINE Body(f) == [n \in 0..N |-> IF n = 0 THEN InQuotes ELSE QuotedByte(f[n - 1], s[n], n)]
<1>1. N \in Nat /\ \A n \in 1..N : s[n] \in Group /\ n \in Nat /\ n - 1 \in 0..N
  BY DEF Groups
<1>2. InQuotes \in QuoteState
  BY DEF InQuotes, QuoteState, Groups
<1>3. F \in Steps(QuoteState, N)
  BY <1>1, QuotedByteType DEF Steps
<1>4. PICK g \in Traces(QuoteState, N) : Follows(g, InQuotes, N, F)
  <2> HIDE DEF N, F
  <2> QED BY <1>1, <1>2, <1>3, RecursionExists
<1>5. g = Body(g)
  <2>1. \A n \in 1..N : g[n] = QuotedByte(g[n - 1], s[n], n)
    BY <1>1, <1>4 DEF Traces, Follows
  <2> QED BY <1>1, <1>4, <2>1 DEF Traces, Follows
<1> DEFINE h == CHOOSE f : f = Body(f)
<1>6. h = Body(h)
  BY <1>5
<1>7. CutQuoted(s) = IF h[N].end = 0 THEN Uncut ELSE Cut(h[N].value, After(s, h[N].end))
  BY DEF CutQuoted, Cut
<1> HIDE DEF h
<1>8. QuotedSteps(h, s)
  BY <1>1, <1>6 DEF QuotedSteps
<1> QED BY <1>7, <1>8

(* Bytes that are neither the end nor an escape are decoded as they are.   *)
LEMMA PlainScan ==
  ASSUME NEW s \in Groups, NEW m \in 0..Len(s), NEW f, QuotedSteps(f, s),
         \A i \in 1..m : s[i] \notin Special
  PROVE  f[m] = [value |-> SubSeq(s, 1, m), escaped |-> FALSE, end |-> 0, bad |-> FALSE]
<1> DEFINE At(n) == [value |-> SubSeq(s, 1, n), escaped |-> FALSE, end |-> 0, bad |-> FALSE]
<1> DEFINE T == {n \in 0..m : f[n] = At(n)}
<1>1. Len(s) \in Nat /\ m \in Nat /\ m <= Len(s)
  BY DEF Groups
<1>2. 0 \in T
  <2>1. SubSeq(s, 1, 0) = <<>>
    BY DEF Groups
  <2>2. At(0) = InQuotes
    BY <2>1 DEF InQuotes
  <2>3. f[0] = At(0) /\ 0 \in 0..m
    BY <1>1, <2>2 DEF QuotedSteps
  <2> HIDE DEF At
  <2> QED BY <2>3
<1>3. ASSUME NEW n \in 1..m, n - 1 \in T PROVE n \in T
  <2>1. n \in 1..Len(s) /\ s[n] \notin Special /\ f[n - 1] = At(n - 1)
    BY <1>1, <1>3
  <2>2. f[n] = QuotedByte(At(n - 1), s[n], n)
    BY <2>1 DEF QuotedSteps
  <2>3. Append(SubSeq(s, 1, n - 1), s[n]) = SubSeq(s, 1, n)
    BY <2>1 DEF Groups
  <2>4. f[n] = [At(n - 1) EXCEPT !.value = Append(@, s[n]), !.escaped = FALSE]
    BY <2>1, <2>2 DEF QuotedByte, Special
  <2>5. f[n] = [At(n - 1) EXCEPT !.value = SubSeq(s, 1, n), !.escaped = FALSE]
    BY <2>3, <2>4
  <2>6. f[n] = At(n)
    BY <2>5
  <2> HIDE DEF At
  <2> QED BY <1>1, <2>6
<1>4. 0..m \subseteq T
  <2> HIDE DEF T
  <2> QED BY <1>1, <1>2, <1>3, UpTo
<1>5. m \in T
  BY <1>1, <1>4
<1> QED BY <1>5

(* Nothing changes after the end, or after a byte that cannot be there.    *)
LEMMA ScanEnded ==
  ASSUME NEW s \in Groups, NEW m \in 0..Len(s), NEW f, QuotedSteps(f, s),
         f[m].end > 0 \/ f[m].bad
  PROVE  f[Len(s)] = f[m]
<1> DEFINE N == Len(s) - m
<1> DEFINE T == {n \in 0..N : f[m + n] = f[m]}
<1>1. N \in Nat /\ m \in Nat /\ Len(s) \in Nat
  BY DEF Groups
<1>2. 0 \in T
  BY <1>1
<1>3. ASSUME NEW n \in 1..N, n - 1 \in T PROVE n \in T
  <2>1. m + n \in 1..Len(s) /\ m + n - 1 = m + (n - 1)
    BY <1>1
  <2>2. f[m + n] = QuotedByte(f[m + n - 1], s[m + n], m + n) /\ f[m + n - 1] = f[m]
    BY <1>3, <2>1 DEF QuotedSteps
  <2> QED BY <2>2 DEF QuotedByte
<1>4. 0..N \subseteq T
  <2> HIDE DEF T, N
  <2> QED BY <1>1, <1>2, <1>3, UpTo
<1>5. N \in T
  <2> HIDE DEF T
  <2> QED BY <1>1, <1>4
<1>6. m + N = Len(s)
  BY <1>1
<1> QED BY <1>5, <1>6

(* A sequence put together of two.                                         *)
Concats(c, a, b) ==
  /\ Len(c) = Len(a) + Len(b) /\ Len(a) \in Nat /\ Len(b) \in Nat
  /\ \A i \in 1..Len(a) : c[i] = a[i]
  /\ \A i \in 1..Len(b) : c[Len(a) + i] = b[i]
  /\ SubSeq(c, 1, Len(a)) = a
  /\ SubSeq(c, Len(a) + 1, Len(c)) = b

LEMMA Concat ==
  ASSUME NEW S, NEW a \in Seq(S), NEW b \in Seq(S)
  PROVE  a \o b \in Seq(S) /\ Concats(a \o b, a, b)
<1>1. a \o b \in Seq(S) /\ Len(a \o b) = Len(a) + Len(b) /\ Len(a) \in Nat /\ Len(b) \in Nat
  OBVIOUS
<1>2. \A i \in 1..Len(a) : (a \o b)[i] = a[i]
  OBVIOUS
<1>3. \A i \in 1..Len(b) : (a \o b)[Len(a) + i] = b[i]
  OBVIOUS
<1>4. SubSeq(a \o b, 1, Len(a)) = a
  OBVIOUS
<1>5. SubSeq(a \o b, Len(a) + 1, Len(a \o b)) = b
  OBVIOUS
<1> QED BY <1>1, <1>2, <1>3, <1>4, <1>5 DEF Concats

(* A plain run and the closing quote.                                      *)
LEMMA CutPlain ==
  ASSUME NEW w \in Groups, \A i \in 1..Len(w) : w[i] \notin Special, NEW q \in Groups
  PROVE  CutQuoted(w \o (<<"quote">> \o q)) = Cut(w, q)
<1> DEFINE n == Len(w)
<1> DEFINE s == w \o (<<"quote">> \o q)
<1>1. /\ <<"quote">> \in Groups /\ <<"quote">> \o q \in Groups
      /\ (<<"quote">> \o q)[1] = "quote" /\ Len(<<"quote">> \o q) = Len(q) + 1
      /\ \A i \in 1..Len(q) : (<<"quote">> \o q)[i + 1] = q[i]
  BY DEF Groups, Group, Special
<1>2. /\ n \in Nat /\ s \in Groups /\ Len(s) = n + 1 + Len(q) /\ Len(q) \in Nat
      /\ \A i \in 1..n : s[i] = w[i]
      /\ s[n + 1] = "quote" /\ SubSeq(s, 1, n) = w
  <2> DEFINE r == <<"quote">> \o q
  <2>1. r \in Groups /\ r[1] = "quote" /\ Len(r) = Len(q) + 1 /\ Len(q) \in Nat
    BY <1>1 DEF Groups
  <2> HIDE DEF r
  <2>2. w \o r \in Groups /\ Concats(w \o r, w, r)
    BY <2>1, Concat DEF Groups
  <2>3. 1 \in 1..Len(r) /\ n \in Nat
    BY <2>1 DEF Groups
  <2>4. (w \o r)[n + 1] = "quote"
    BY <2>1, <2>2, <2>3 DEF Concats
  <2> QED BY <2>1, <2>2, <2>3, <2>4 DEF r, Concats
<1>3. After(s, n + 1) = q
  <2>1. w \o <<"quote">> \in Groups /\ Len(w \o <<"quote">>) = n + 1
    BY <1>1 DEF Groups
  <2>2. s = (w \o <<"quote">>) \o q
    BY <1>1 DEF Groups
  <2> DEFINE v == w \o <<"quote">>
  <2> HIDE DEF v, s
  <2>3. SubSeq(v \o q, Len(v) + 1, Len(v \o q)) = q
    BY <2>1, Concat DEF Groups, v, Concats
  <2> QED BY <2>1, <2>2, <2>3, <1>2 DEF After, v
<1> HIDE DEF s
<1>4. PICK f : QuotedSteps(f, s) /\
               CutQuoted(s) = IF f[Len(s)].end = 0 THEN Uncut
                              ELSE Cut(f[Len(s)].value, After(s, f[Len(s)].end))
  BY <1>2, QuotedScan
<1>5. f[n] = [value |-> w, escaped |-> FALSE, end |-> 0, bad |-> FALSE]
  BY <1>2, <1>4, PlainScan
<1>6. f[n + 1] = [value |-> w, escaped |-> FALSE, end |-> n + 1, bad |-> FALSE]
  <2>1. f[n + 1] = QuotedByte(f[n], "quote", n + 1)
    BY <1>2, <1>4 DEF QuotedSteps
  <2> DEFINE p == [value |-> w, escaped |-> FALSE, end |-> 0, bad |-> FALSE]
  <2>2. p.end = 0 /\ ~p.bad /\ ~p.escaped /\ ~(p.end > 0)
    OBVIOUS
  <2>3. QuotedByte(p, "quote", n + 1) = [p EXCEPT !.end = n + 1]
    <3> HIDE DEF p
    <3> QED BY <2>2 DEF QuotedByte
  <2> QED BY <1>5, <2>1, <2>3
<1>7. f[Len(s)] = f[n + 1]
  <2>1. n + 1 \in 0..Len(s) /\ f[n + 1].end > 0
    BY <1>2, <1>6
  <2> QED BY <1>2, <1>4, <2>1, ScanEnded
<1> QED BY <1>2, <1>3, <1>4, <1>6, <1>7 DEF s

(* What may follow a value: the end of the element or a semicolon; and the *)
(* first byte in it that means something in a quoted-string is a quote,    *)
(* with more than a semicolon after it.                                    *)
OpensFirst(t) ==
  \A i \in 1..Len(t) :
    t[i] \in Special /\ (\A j \in 1..(i - 1) : t[j] \notin Special) =>
      t[i] = "quote" /\ i < Len(t) /\ t[i + 1] # "semi"
Tails == {t \in Groups : (t # <<>> => t[1] = "semi") /\ OpensFirst(t)}

LEMMA Prefix ==
  ASSUME NEW a \in Groups, NEW q \in Groups
  PROVE  a \o q \in Groups /\ Concats(a \o q, a, q) /\ After(a \o q, Len(a)) = q
<1>1. a \o q \in Groups /\ Concats(a \o q, a, q)
  BY Concat DEF Groups
<1> QED BY <1>1 DEF Concats, After

(* One byte of a quoted-string that is still open.                         *)
Open(p, value, x) ==
  p \in QuoteState /\ p.value = value /\ p.escaped = x /\ p.end = 0 /\ ~p.bad

Closed(p, value, i) == p.value = value /\ p.end = i

LEMMA OpenTurns ==
  ASSUME NEW p \in QuoteState, NEW value, NEW i \in Nat
  PROVE  /\ Open(p, value, FALSE) => Open(QuotedByte(p, "slash", i), value, TRUE)
         /\ Open(p, value, TRUE) => Open(QuotedByte(p, "v4", i), Append(value, "v4"), FALSE)
         /\ Open(p, value, FALSE) => Closed(QuotedByte(p, "quote", i), value, i)
<1>1. "slash" \in Group /\ "v4" \in Group
  BY DEF Group, Special, TokenGroups
<1>2. QuotedByte(p, "slash", i) \in QuoteState /\ QuotedByte(p, "v4", i) \in QuoteState
  BY <1>1, QuotedByteType
<1>3. ASSUME Open(p, value, FALSE) PROVE Open(QuotedByte(p, "slash", i), value, TRUE)
  <2>1. QuotedByte(p, "slash", i) = [p EXCEPT !.escaped = TRUE]
    BY <1>3 DEF Open, QuotedByte
  <2> QED BY <1>2, <1>3, <2>1 DEF Open, QuoteState
<1>4. ASSUME Open(p, value, TRUE)
      PROVE  Open(QuotedByte(p, "v4", i), Append(value, "v4"), FALSE)
  <2>1. QuotedByte(p, "v4", i) = [p EXCEPT !.value = Append(@, "v4"), !.escaped = FALSE]
    BY <1>4 DEF Open, QuotedByte
  <2> QED BY <1>2, <1>4, <2>1 DEF Open, QuoteState
<1>5. ASSUME Open(p, value, FALSE) PROVE Closed(QuotedByte(p, "quote", i), value, i)
  <2>1. QuotedByte(p, "quote", i) = [p EXCEPT !.end = i]
    BY <1>5 DEF Open, QuotedByte
  <2> QED BY <1>5, <2>1 DEF Open, Closed, QuoteState
<1> QED BY <1>3, <1>4, <1>5

LEMMA CutEscaped ==
  ASSUME NEW q \in Groups
  PROVE  CutQuoted(<<"slash", "v4", "quote">> \o q) = Cut(<<"v4">>, q)
<1> DEFINE a == <<"slash", "v4", "quote">>
<1> DEFINE s == a \o q
<1>1. a \in Groups /\ Len(a) = 3 /\ a[1] = "slash" /\ a[2] = "v4" /\ a[3] = "quote"
  BY DEF Groups, Group, Special, TokenGroups
<1> HIDE DEF a
<1>2. s \in Groups /\ Concats(s, a, q) /\ After(s, 3) = q
  BY <1>1, Prefix
<1>3. Len(s) \in Nat /\ Len(s) >= 3 /\ s[1] = "slash" /\ s[2] = "v4" /\ s[3] = "quote"
  BY <1>1, <1>2 DEF Concats
<1> HIDE DEF s
<1>4. PICK f : QuotedSteps(f, s) /\
               CutQuoted(s) = IF f[Len(s)].end = 0 THEN Uncut
                              ELSE Cut(f[Len(s)].value, After(s, f[Len(s)].end))
  BY <1>2, QuotedScan
<1>5. f[0] \in QuoteState /\ Open(f[0], <<>>, FALSE)
  BY <1>4 DEF QuotedSteps, InQuotes, Open, QuoteState, Groups
<1>6. /\ f[1] = QuotedByte(f[0], "slash", 1)
      /\ f[2] = QuotedByte(f[1], "v4", 2)
      /\ f[3] = QuotedByte(f[2], "quote", 3)
  BY <1>3, <1>4 DEF QuotedSteps
<1>7. Open(f[1], <<>>, TRUE)
  <2> DEFINE none == <<>>
  <2>1. Open(f[0], none, FALSE)
    BY <1>5
  <2> HIDE DEF none
  <2>2. Open(f[1], none, TRUE)
    BY <1>5, <1>6, <2>1, OpenTurns
  <2> QED BY <2>2 DEF none
<1>8. Open(f[2], <<"v4">>, FALSE)
  <2> DEFINE none == <<>>
  <2>1. Open(f[1], none, TRUE) /\ f[1] \in QuoteState
    BY <1>7 DEF Open
  <2>2. Append(none, "v4") = <<"v4">>
    OBVIOUS
  <2> HIDE DEF none
  <2>3. Open(f[2], Append(none, "v4"), FALSE)
    BY <1>6, <2>1, OpenTurns
  <2> QED BY <2>2, <2>3
<1>9. f[3].value = <<"v4">> /\ f[3].end = 3
  <2> DEFINE value == <<"v4">>
  <2>1. Open(f[2], value, FALSE) /\ f[2] \in QuoteState
    BY <1>8 DEF Open
  <2> HIDE DEF value
  <2>2. Closed(f[3], value, 3)
    BY <1>6, <2>1, OpenTurns
  <2> QED BY <2>2 DEF Closed, value
<1>10. f[Len(s)] = f[3]
  <2>1. 3 \in 0..Len(s) /\ f[3].end > 0
    BY <1>3, <1>9
  <2> QED BY <1>2, <1>4, <2>1, ScanEnded
<1> QED BY <1>2, <1>4, <1>9, <1>10 DEF s, a

LEMMA CutCtl ==
  ASSUME NEW q \in Groups
  PROVE  CutQuoted(<<"ctl", "quote">> \o q) = Uncut
<1> DEFINE a == <<"ctl", "quote">>
<1> DEFINE s == a \o q
<1>1. a \in Groups /\ Len(a) = 2 /\ a[1] = "ctl"
  BY DEF Groups, Group, Special
<1> HIDE DEF a
<1>2. s \in Groups /\ Concats(s, a, q)
  BY <1>1, Prefix
<1>3. Len(s) \in Nat /\ Len(s) >= 2 /\ s[1] = "ctl"
  BY <1>1, <1>2 DEF Concats
<1> HIDE DEF s
<1>4. PICK f : QuotedSteps(f, s) /\
               CutQuoted(s) = IF f[Len(s)].end = 0 THEN Uncut
                              ELSE Cut(f[Len(s)].value, After(s, f[Len(s)].end))
  BY <1>2, QuotedScan
<1>5. f[1] = [InQuotes EXCEPT !.bad = TRUE]
  <2>1. f[1] = QuotedByte(InQuotes, "ctl", 1)
    BY <1>3, <1>4 DEF QuotedSteps
  <2> QED BY <2>1 DEF QuotedByte, InQuotes
<1>6. f[1].bad /\ f[1].end = 0 /\ 1 \in 0..Len(s)
  BY <1>3, <1>5 DEF InQuotes
<1>7. f[Len(s)] = f[1]
  BY <1>2, <1>4, <1>6, ScanEnded
<1> QED BY <1>4, <1>6, <1>7 DEF s, a

(* A quoted-string that is never closed ends nowhere, or at the opening    *)
(* quote of a later value, which is not where a pair may end.              *)
Unread(cut) == cut.ok => cut.rest # <<>> /\ cut.rest[1] # "semi"

LEMMA CutOpen ==
  ASSUME NEW t \in Tails
  PROVE  Unread(CutQuoted(<<"v4">> \o t))
<1> DEFINE a == <<"v4">>
<1> DEFINE s == a \o t
<1>1. a \in Groups /\ Len(a) = 1 /\ a[1] = "v4" /\ t \in Groups /\ OpensFirst(t)
        /\ "v4" \notin Special
  BY DEF Tails, Groups, Group, Special, TokenGroups
<1> HIDE DEF a
<1>2. s \in Groups /\ Concats(s, a, t)
  BY <1>1, Prefix
<1>3. /\ Len(t) \in Nat /\ Len(s) = 1 + Len(t) /\ s[1] = "v4"
      /\ \A i \in 1..Len(t) : s[1 + i] = t[i]
  BY <1>1, <1>2 DEF Concats
<1> HIDE DEF s
<1>4. PICK f : QuotedSteps(f, s) /\
               CutQuoted(s) = IF f[Len(s)].end = 0 THEN Uncut
                              ELSE Cut(f[Len(s)].value, After(s, f[Len(s)].end))
  BY <1>2, QuotedScan
<1> DEFINE special == {i \in 1..Len(t) : t[i] \in Special}
<1>5. CASE special = {}
  <2>1. \A i \in 1..Len(s) : s[i] \notin Special
    <3> TAKE i \in 1..Len(s)
    <3>1. CASE i = 1
      BY <1>1, <1>3, <3>1
    <3>2. CASE i # 1
      <4>1. i - 1 \in 1..Len(t) /\ 1 + (i - 1) = i
        BY <1>3, <3>2
      <4>2. s[i] = t[i - 1]
        BY <1>3, <4>1
      <4> QED BY <1>5, <4>1, <4>2
    <3> QED BY <3>1, <3>2
  <2>2. Len(s) \in 0..Len(s)
    BY <1>3
  <2>3. f[Len(s)] = [value |-> SubSeq(s, 1, Len(s)), escaped |-> FALSE, end |-> 0, bad |-> FALSE]
    BY <1>2, <1>4, <2>1, <2>2, PlainScan
  <2> QED BY <1>4, <2>3 DEF s, a, Unread, Uncut
<1>6. CASE special # {}
  <2>1. special \subseteq Nat
    OBVIOUS
  <2>2. PICK i \in special : \A j \in special : i <= j
    BY <1>6, <2>1, LeastExists
  <2>3. i \in 1..Len(t) /\ t[i] \in Special /\ \A j \in 1..(i - 1) : t[j] \notin Special
    <3>1. \A j \in 1..(i - 1) : j \in 1..Len(t) /\ ~(i <= j)
      BY <1>3, <2>2
    <3> QED BY <2>2, <3>1
  <2>4. t[i] = "quote" /\ i < Len(t) /\ t[i + 1] # "semi"
    BY <1>1, <2>3 DEF OpensFirst
  <2>5. \A k \in 1..i : s[k] \notin Special
    <3> TAKE k \in 1..i
    <3>1. CASE k = 1
      BY <1>1, <1>3, <3>1
    <3>2. CASE k # 1
      <4>1. k - 1 \in 1..(i - 1) /\ k - 1 \in 1..Len(t) /\ 1 + (k - 1) = k
        BY <1>3, <2>3, <3>2
      <4>2. s[k] = t[k - 1]
        BY <1>3, <4>1
      <4> QED BY <2>3, <4>1, <4>2
    <3> QED BY <3>1, <3>2
  <2>6. i \in 0..Len(s) /\ i + 1 \in 1..Len(s) /\ i + 1 - 1 = i /\ i + 2 \in 1..Len(s)
    BY <1>3, <2>3, <2>4
  <2> DEFINE p == [value |-> SubSeq(s, 1, i), escaped |-> FALSE, end |-> 0, bad |-> FALSE]
  <2>7. f[i] = p
    BY <1>2, <1>4, <2>5, <2>6, PlainScan
  <2>8. s[i + 1] = "quote" /\ s[i + 2] # "semi"
    <3>1. s[1 + i] = t[i]
      BY <1>3, <2>3
    <3>2. i + 1 \in 1..Len(t) /\ 1 + (i + 1) = i + 2
      BY <1>3, <2>3, <2>4
    <3>3. s[i + 2] = t[i + 1]
      BY <1>3, <3>2
    <3> QED BY <2>3, <2>4, <3>1, <3>3
  <2>9. f[i + 1] = [p EXCEPT !.end = i + 1]
    <3>1. f[i + 1] = QuotedByte(p, "quote", i + 1)
      BY <1>4, <2>6, <2>7, <2>8 DEF QuotedSteps
    <3>2. p.end = 0 /\ ~p.bad /\ ~p.escaped /\ ~(p.end > 0)
      OBVIOUS
    <3> HIDE DEF p
    <3> QED BY <3>1, <3>2 DEF QuotedByte
  <2>10. f[Len(s)] = f[i + 1] /\ f[i + 1].end = i + 1
    <3>1. i + 1 \in 0..Len(s) /\ f[i + 1].end = i + 1 /\ i + 1 > 0
      BY <2>6, <2>9
    <3> QED BY <1>2, <1>4, <3>1, ScanEnded
  <2>11. CutQuoted(s).rest = After(s, i + 1) \/ CutQuoted(s) = Uncut
    BY <1>4, <2>10 DEF Cut
  <2>12. After(s, i + 1) # <<>> /\ After(s, i + 1)[1] # "semi"
    <3>1. After(s, i + 1) = SubSeq(s, i + 2, Len(s))
      BY <2>6 DEF After
    <3>2. Len(SubSeq(s, i + 2, Len(s))) = Len(s) - i - 1 /\ SubSeq(s, i + 2, Len(s))[1] = s[i + 2]
      BY <1>2, <1>3, <2>6 DEF Groups
    <3>3. Len(s) - i - 1 > 0
      BY <1>3, <2>6
    <3> QED BY <2>8, <3>1, <3>2, <3>3
  <2> QED BY <2>11, <2>12 DEF s, a, Unread, Uncut
<1> QED BY <1>5, <1>6

-----------------------------------------------------------------------------
LEMMA TokenEnds ==
  ASSUME NEW s \in Groups, NEW n \in 0..Len(s), \A i \in 1..n : s[i] \in TokenGroups,
         n < Len(s) => s[n + 1] \notin TokenGroups
  PROVE  TokenLen(s) = n
<1> DEFINE tokens == {m \in 0..Len(s) : \A i \in 1..m : s[i] \in TokenGroups}
<1>1. n \in tokens /\ Len(s) \in Nat
  BY DEF Groups
<1>2. \A m \in tokens : m <= n /\ m \in Nat
  <2> SUFFICES ASSUME NEW m \in tokens, ~(m <= n) PROVE FALSE
    BY <1>1
  <2>1. n + 1 \in 1..m /\ n < Len(s)
    BY <1>1
  <2> QED BY <2>1
<1>3. TokenLen(s) = Max(tokens)
  BY DEF TokenLen
<1> HIDE DEF tokens
<1>4. Max(tokens) \in tokens /\ \A m \in tokens : Max(tokens) >= m
  BY <1>1, <1>2 DEF Max
<1>5. Max(tokens) <= n /\ Max(tokens) >= n /\ Max(tokens) \in Nat /\ n \in Nat
  BY <1>1, <1>2, <1>4
<1> QED BY <1>3, <1>5

NodeValues ==
  {<<"v4">>, <<"v4", "colon", "digits">>, <<"unknown">>,
   <<"lbracket", "v6", "rbracket", "colon", "obf">>}

LEMMA Nodes ==
  /\ \A w \in NodeValues : ValidNode(w)
  /\ NodeAddr(<<"v4">>) = "v4" /\ NodeAddr(<<"v4", "colon", "digits">>) = "v4"
  /\ NodeAddr(<<"unknown">>) = "none"
  /\ NodeAddr(<<"lbracket", "v6", "rbracket", "colon", "obf">>) = "v6"
  /\ ~ValidNode(<<"v6">>) /\ ~ValidNode(<<"v4", "semi">>) /\ ~ValidNode(<<>>)
<1>1. ValidNode(<<"v4">>) /\ ValidNode(<<"unknown">>)
  BY DEF ValidNode, NodeNames
<1>2. ValidNode(<<"v4", "colon", "digits">>)
  <2>1. <<"v4", "colon", "digits">> = <<"v4">> \o <<"colon", "digits">>
    OBVIOUS
  <2> QED BY <2>1, Zenon DEF ValidNode, NodeNames
<1>3. ValidNode(<<"lbracket", "v6", "rbracket", "colon", "obf">>)
  <2>1. <<"lbracket", "v6", "rbracket", "colon", "obf">> = <<"lbracket", "v6", "rbracket">> \o <<"colon", "obf">>
    OBVIOUS
  <2> QED BY <2>1, Zenon DEF ValidNode, NodeNames
<1>4. \A w : ValidNode(w) => w \in NodeNames \/ Len(w) \in {3, 5}
  <2> SUFFICES ASSUME NEW name \in NodeNames, NEW port
                        PROVE Len(name \o <<"colon", port>>) \in {3, 5}
    BY DEF ValidNode
  <2>1. Len(<<"v4">> \o <<"colon", port>>) = 3 /\ Len(<<"unknown">> \o <<"colon", port>>) = 3
    OBVIOUS
  <2>2. Len(<<"obf">> \o <<"colon", port>>) = 3
    OBVIOUS
  <2>3. Len(<<"lbracket", "v6", "rbracket">> \o <<"colon", port>>) = 5
    OBVIOUS
  <2> QED BY <2>1, <2>2, <2>3, Zenon DEF NodeNames
<1>5. ~ValidNode(<<"v6">>) /\ ~ValidNode(<<"v4", "semi">>) /\ ~ValidNode(<<>>)
  <2>1. <<"v6">> \notin NodeNames /\ <<"v4", "semi">> \notin NodeNames /\ <<>> \notin NodeNames
    BY DEF NodeNames
  <2>2. Len(<<"v6">>) = 1 /\ Len(<<"v4", "semi">>) = 2 /\ Len(<<>>) = 0
    OBVIOUS
  <2> QED BY <1>4, <2>1, <2>2
<1>6. /\ NodeAddr(<<"v4">>) = "v4" /\ NodeAddr(<<"v4", "colon", "digits">>) = "v4"
      /\ NodeAddr(<<"unknown">>) = "none"
      /\ NodeAddr(<<"lbracket", "v6", "rbracket", "colon", "obf">>) = "v6"
  BY DEF NodeAddr
<1> QED BY <1>1, <1>2, <1>3, <1>5, <1>6 DEF NodeValues

LEMMA FirstByte ==
  ASSUME NEW c \in Group, NEW q \in Groups
  PROVE  /\ <<c>> \o q \in Groups /\ (<<c>> \o q)[1] = c /\ <<c>> \o q # <<>>
         /\ Len(<<c>> \o q) = Len(q) + 1 /\ Len(q) \in Nat
         /\ \A i \in 1..Len(q) : (<<c>> \o q)[1 + i] = q[i]
         /\ Tail(<<c>> \o q) = q /\ After(<<c>> \o q, 1) = q
         /\ SubSeq(<<c>> \o q, 1, 1) = <<c>>
<1> DEFINE a == <<c>>
<1>1. a \in Groups /\ Len(a) = 1 /\ a[1] = c
  BY DEF Groups
<1> HIDE DEF a
<1>2. a \o q \in Groups /\ Concats(a \o q, a, q) /\ After(a \o q, Len(a)) = q
  BY <1>1, Prefix
<1>3. /\ (a \o q)[1] = c /\ Len(a \o q) = Len(q) + 1 /\ Len(q) \in Nat
      /\ \A i \in 1..Len(q) : (a \o q)[1 + i] = q[i]
      /\ SubSeq(a \o q, 1, 1) = a
  BY <1>1, <1>2 DEF Concats
<1>4. a \o q # <<>>
  BY <1>2, <1>3 DEF Groups
<1>5. Tail(a \o q) = After(a \o q, 1)
  BY <1>2, <1>3, <1>4 DEF After, Groups
<1>6. After(a \o q, 1) = q
  BY <1>1, <1>2
<1> QED BY <1>1, <1>2, <1>3, <1>4, <1>5, <1>6, Zenon DEF a

Shifts(a, b, c) ==
  (a \o b) \o c = a \o (b \o c) /\ a \o b \in Groups /\ b \o c \in Groups

LEMMA Shift ==
  ASSUME NEW a \in Groups, NEW b \in Groups, NEW c \in Groups PROVE Shifts(a, b, c)
BY DEF Groups, Shifts

(* A value without quotes is one token; with them a quoted-string.         *)
NoToken(q) == q # <<>> => q[1] \notin TokenGroups

LEMMA TokenCut ==
  ASSUME NEW g \in TokenGroups, NEW q \in Groups, NoToken(q)
  PROVE  TokenLen(<<g>> \o q) = 1 /\ CutForwardedValue(<<g>> \o q) = Cut(<<g>>, q)
<1> DEFINE s == <<g>> \o q
<1>1. g \in Group /\ g # "quote"
  BY DEF Group, TokenGroups
<1>2. /\ s \in Groups /\ s[1] = g /\ Len(s) = Len(q) + 1 /\ Len(q) \in Nat /\ s # <<>>
      /\ \A i \in 1..Len(q) : s[1 + i] = q[i]
      /\ After(s, 1) = q /\ SubSeq(s, 1, 1) = <<g>>
  BY <1>1, FirstByte
<1> HIDE DEF s
<1>3. TokenLen(s) = 1
  <2>1. 1 \in 0..Len(s) /\ \A i \in 1..1 : s[i] \in TokenGroups
    BY <1>2
  <2>2. ASSUME 1 < Len(s) PROVE s[1 + 1] \notin TokenGroups
    <3>1. 1 \in 1..Len(q) /\ q # <<>>
      BY <1>2, <2>2
    <3> QED BY <1>2, <3>1 DEF NoToken
  <2> QED BY <1>2, <2>1, <2>2, TokenEnds
<1>4. (TokenLen(s) > 0) = TRUE /\ ~(s[1] = "quote")
  BY <1>1, <1>2, <1>3
<1>5. CutForwardedValue(s) =
        [ok |-> TokenLen(s) > 0, value |-> SubSeq(s, 1, TokenLen(s)), rest |-> After(s, TokenLen(s))]
  BY <1>4, Zenon DEF CutForwardedValue
<1>6. CutForwardedValue(s) = Cut(<<g>>, q)
  BY <1>2, <1>3, <1>4, <1>5, Zenon DEF Cut
<1> QED BY <1>3, <1>6 DEF s

LEMMA NoTokenCut ==
  ASSUME NEW q \in Groups, NoToken(q), q # <<>> => q[1] # "quote"
  PROVE  ~CutForwardedValue(q).ok
<1>1. Len(q) \in Nat /\ (q = <<>> <=> Len(q) = 0)
  BY DEF Groups
<1>2. TokenLen(q) = 0
  <2>1. 0 \in 0..Len(q) /\ \A i \in 1..0 : q[i] \in TokenGroups
    BY <1>1
  <2>2. 0 < Len(q) => q[0 + 1] \notin TokenGroups
    BY <1>1 DEF NoToken
  <2> QED BY <2>1, <2>2, TokenEnds
<1>3. ~(q # <<>> /\ q[1] = "quote")
  OBVIOUS
<1>4. CutForwardedValue(q) =
        [ok |-> TokenLen(q) > 0, value |-> SubSeq(q, 1, TokenLen(q)), rest |-> After(q, TokenLen(q))]
  BY <1>3, Zenon DEF CutForwardedValue
<1>5. ~(TokenLen(q) > 0)
  BY <1>2
<1>6. (TokenLen(q) > 0) = FALSE
  BY <1>5
<1>7. CutForwardedValue(q) =
        [ok |-> FALSE, value |-> SubSeq(q, 1, TokenLen(q)), rest |-> After(q, TokenLen(q))]
  BY <1>4, <1>6, Zenon
<1> QED BY <1>7

LEMMA QuoteCut ==
  ASSUME NEW q \in Groups
  PROVE  CutForwardedValue(<<"quote">> \o q) = CutQuoted(q)
<1>1. "quote" \in Group
  BY DEF Group, Special
<1>2. <<"quote">> \o q # <<>> /\ (<<"quote">> \o q)[1] = "quote" /\ Tail(<<"quote">> \o q) = q
  BY <1>1, FirstByte
<1> QED BY <1>2, Zenon DEF CutForwardedValue

(* What is cut of each way to write a value, with what follows it.         *)
CutAs(v, cut, t) ==
  IF v.node = "broken" THEN Unread(cut)
  ELSE /\ cut.ok /\ cut.rest = t
       /\ ValidNode(cut.value) <=> v.node # "bad"
       /\ v.node # "bad" => NodeAddr(cut.value) = v.node

LEMMA QuotedCut ==
  ASSUME NEW w \in Groups, \A i \in 1..Len(w) : w[i] \notin Special, NEW t \in Groups
  PROVE  CutForwardedValue(Quoted(w) \o t) = Cut(w, t)
<1>1. <<"quote">> \in Groups
  BY DEF Groups, Group, Special
<1> DEFINE quote == <<"quote">>
<1> HIDE DEF quote
<1>2. quote \in Groups
  BY <1>1 DEF quote
<1>3. ((quote \o w) \o quote) \o t = quote \o (w \o (quote \o t)) /\ w \o (quote \o t) \in Groups
  <2>1. Shifts(quote, w, quote)
    BY <1>2, Shift
  <2>2. quote \o w \in Groups
    BY <2>1 DEF Shifts
  <2>3. Shifts(quote \o w, quote, t)
    BY <1>2, <2>2, Shift
  <2>4. quote \o t \in Groups
    BY <2>3 DEF Shifts
  <2>5. Shifts(quote, w, quote \o t)
    BY <1>2, <2>4, Shift
  <2> QED BY <2>3, <2>5 DEF Shifts
<1>4. CutForwardedValue(quote \o (w \o (quote \o t))) = Cut(w, t)
  BY <1>3, QuoteCut, CutPlain DEF quote
<1> QED BY <1>3, <1>4 DEF Quoted, quote

LEMMA ValueCut ==
  ASSUME NEW v \in FwdValues, NEW t \in Tails
  PROVE  CutAs(v, CutForwardedValue(v.bytes \o t), t)
<1>1. t \in Groups /\ NoToken(t) /\ (t # <<>> => t[1] # "quote")
  BY DEF Tails, NoToken, TokenGroups
<1>2. CASE v.bytes = <<"v4">> /\ v.node = "v4"
  <2>1. CutForwardedValue(<<"v4">> \o t) = Cut(<<"v4">>, t)
    BY <1>1, TokenCut DEF TokenGroups
  <2> QED BY <1>2, <2>1, Nodes DEF CutAs, Cut, NodeValues
<1>3. CASE v.bytes = <<"unknown">> /\ v.node = "none"
  <2>1. CutForwardedValue(<<"unknown">> \o t) = Cut(<<"unknown">>, t)
    BY <1>1, TokenCut DEF TokenGroups
  <2> QED BY <1>3, <2>1, Nodes DEF CutAs, Cut, NodeValues
<1>4. CASE v.bytes = Escaped(<<"v4">>) /\ v.node = "v4"
  <2>1. <<"slash", "v4", "quote">> \in Groups /\ <<"quote">> \in Groups
    BY DEF Groups, Group, Special, TokenGroups
  <2>2. Escaped(<<"v4">>) = <<"quote">> \o <<"slash", "v4", "quote">>
    BY DEF Escaped
  <2>3. Shifts(<<"quote">>, <<"slash", "v4", "quote">>, t)
    BY <1>1, <2>1, Shift
  <2>4. v.bytes \o t = <<"quote">> \o (<<"slash", "v4", "quote">> \o t)
    BY <1>1, <1>4, <2>1, <2>2, <2>3 DEF Shifts
  <2>5. <<"slash", "v4", "quote">> \o t \in Groups
    BY <2>3 DEF Shifts
  <2>6. CutForwardedValue(v.bytes \o t) = Cut(<<"v4">>, t)
    BY <1>1, <2>4, <2>5, QuoteCut, CutEscaped
  <2> QED BY <1>4, <2>6, Nodes DEF CutAs, Cut, NodeValues
<1>5. ASSUME NEW w \in Groups, \A i \in 1..Len(w) : w[i] \notin Special, v.bytes = Quoted(w),
             v.node \in {"v4", "v6", "none", "bad"},
             ValidNode(w) <=> v.node # "bad", v.node # "bad" => NodeAddr(w) = v.node
      PROVE  CutAs(v, CutForwardedValue(v.bytes \o t), t)
  <2>1. CutForwardedValue(v.bytes \o t) = Cut(w, t)
    BY <1>1, <1>5, QuotedCut
  <2> QED BY <1>5, <2>1 DEF CutAs, Cut
<1>6. CASE v.bytes = Quoted(<<"v4", "colon", "digits">>) /\ v.node = "v4"
  <2> DEFINE w == <<"v4", "colon", "digits">>
  <2>1. w \in Groups /\ \A i \in 1..Len(w) : w[i] \notin Special
    BY DEF Groups, Group, Special, TokenGroups
  <2>2. ValidNode(w) /\ NodeAddr(w) = "v4"
    BY Nodes DEF NodeValues
  <2> QED BY <1>5, <1>6, <2>1, <2>2
<1>7. CASE v.bytes = Quoted(<<"lbracket", "v6", "rbracket", "colon", "obf">>) /\ v.node = "v6"
  <2> DEFINE w == <<"lbracket", "v6", "rbracket", "colon", "obf">>
  <2>1. w \in Groups /\ \A i \in 1..Len(w) : w[i] \notin Special
    BY DEF Groups, Group, Special, TokenGroups
  <2>2. ValidNode(w) /\ NodeAddr(w) = "v6"
    BY Nodes DEF NodeValues
  <2> QED BY <1>5, <1>7, <2>1, <2>2
<1>8. CASE /\ v.bytes \in {Quoted(<<"v6">>), Quoted(<<"v4", "semi">>), Quoted(<<>>)}
           /\ v.node = "bad"
  <2>1. PICK w \in {<<"v6">>, <<"v4", "semi">>, <<>>} : v.bytes = Quoted(w)
    BY <1>8
  <2>2. /\ <<"v6">> \in Groups /\ <<"v4", "semi">> \in Groups /\ <<>> \in Groups
        /\ \A i \in 1..Len(<<"v6">>) : <<"v6">>[i] \notin Special
        /\ \A i \in 1..Len(<<"v4", "semi">>) : <<"v4", "semi">>[i] \notin Special
        /\ \A i \in 1..Len(<<>>) : <<>>[i] \notin Special
    BY DEF Groups, Group, Special, TokenGroups
  <2>3. ~ValidNode(w)
    BY Nodes
  <2> QED BY <1>5, <1>8, <2>1, <2>2, <2>3
<1>9. CASE v.bytes = <<"quote", "v4">> /\ v.node = "broken"
  <2>1. <<"v4">> \in Groups /\ <<"quote">> \in Groups /\ <<"quote", "v4">> = <<"quote">> \o <<"v4">>
    BY DEF Groups, Group, Special, TokenGroups
  <2>2. Shifts(<<"quote">>, <<"v4">>, t)
    BY <1>1, <2>1, Shift
  <2>3. v.bytes \o t = <<"quote">> \o (<<"v4">> \o t) /\ <<"v4">> \o t \in Groups
    BY <1>1, <1>9, <2>1, <2>2 DEF Shifts
  <2>4. CutForwardedValue(v.bytes \o t) = CutQuoted(<<"v4">> \o t)
    BY <2>3, QuoteCut
  <2> QED BY <1>9, <2>4, CutOpen DEF CutAs
<1>10. CASE v.bytes = Quoted(<<"ctl">>) /\ v.node = "broken"
  <2>1. /\ <<"ctl", "quote">> \in Groups /\ <<"quote">> \in Groups
        /\ Quoted(<<"ctl">>) = <<"quote">> \o <<"ctl", "quote">>
    BY DEF Groups, Group, Special, TokenGroups, Quoted
  <2>2. Shifts(<<"quote">>, <<"ctl", "quote">>, t)
    BY <1>1, <2>1, Shift
  <2>3. v.bytes \o t = <<"quote">> \o (<<"ctl", "quote">> \o t)
          /\ <<"ctl", "quote">> \o t \in Groups
    BY <1>1, <1>10, <2>1, <2>2 DEF Shifts
  <2>4. CutForwardedValue(v.bytes \o t) = Uncut
    BY <1>1, <2>3, QuoteCut, CutCtl
  <2> QED BY <1>10, <2>4 DEF CutAs, Unread, Uncut
<1>11. CASE v.bytes = <<"v4", "colon", "digits">> /\ v.node = "broken"
  <2> DEFINE q == <<"colon", "digits">> \o t
  <2>1. /\ <<"v4">> \in Groups /\ <<"colon", "digits">> \in Groups
        /\ <<"v4", "colon", "digits">> = <<"v4">> \o <<"colon", "digits">>
    BY DEF Groups, Group, Special, TokenGroups
  <2>2. Shifts(<<"v4">>, <<"colon", "digits">>, t)
    BY <1>1, <2>1, Shift
  <2>3. v.bytes \o t = <<"v4">> \o q /\ q \in Groups
    BY <1>1, <1>11, <2>1, <2>2 DEF Shifts
  <2>4. q # <<>> /\ q[1] = "colon"
    BY <1>1 DEF Groups
  <2> HIDE DEF q
  <2>5. CutForwardedValue(v.bytes \o t) = Cut(<<"v4">>, q)
    BY <2>3, <2>4, TokenCut DEF NoToken, TokenGroups
  <2> QED BY <1>11, <2>4, <2>5 DEF CutAs, Unread, Cut
<1>12. CASE v.bytes = Quoted(<<"v4">>) \o <<"x">> /\ v.node = "broken"
  <2> DEFINE q == <<"x">> \o t
  <2>1. <<"v4">> \in Groups /\ <<"x">> \in Groups /\ Quoted(<<"v4">>) \in Groups
        /\ \A i \in 1..Len(<<"v4">>) : <<"v4">>[i] \notin Special
    BY DEF Groups, Group, Special, TokenGroups, Quoted
  <2>2. Shifts(Quoted(<<"v4">>), <<"x">>, t)
    BY <1>1, <2>1, Shift
  <2>3. v.bytes \o t = Quoted(<<"v4">>) \o q /\ q \in Groups
    BY <1>1, <1>12, <2>1, <2>2 DEF Shifts
  <2>4. q # <<>> /\ q[1] = "x"
    BY <1>1 DEF Groups
  <2> HIDE DEF q
  <2>5. CutForwardedValue(v.bytes \o t) = Cut(<<"v4">>, q)
    BY <2>1, <2>3, QuotedCut
  <2> QED BY <1>12, <2>4, <2>5 DEF CutAs, Unread, Cut
<1>13. CASE v.bytes = <<>> /\ v.node = "broken"
  <2>1. v.bytes \o t = t
    BY <1>1, <1>13 DEF Groups
  <2> QED BY <1>1, <1>13, <2>1, NoTokenCut DEF CutAs, Unread
<1> QED BY <1>2, <1>3, <1>4, <1>6, <1>7, <1>8, <1>9, <1>10, <1>11, <1>12, <1>13 DEF FwdValues

Names == {"for", "by", "x"}
PairText(name, v, t) == <<name, "eq">> \o (v.bytes \o t)

NoSpecial(w) == \A i \in 1..Len(w) : w[i] \notin Special
QuoteFirst(w) == Len(w) >= 2 /\ w[1] = "quote" /\ w[2] # "semi"

OpenValue(w) == w \in Groups /\ (NoSpecial(w) \/ QuoteFirst(w))

LEMMA ValueOpens ==
  ASSUME NEW v \in FwdValues
  PROVE  v.bytes \in Groups /\ (NoSpecial(v.bytes) \/ QuoteFirst(v.bytes))
<1>1. OpenValue(<<"v4">>) /\ OpenValue(<<"unknown">>) /\ OpenValue(<<>>)
  BY DEF Groups, Group, Special, TokenGroups, NoSpecial, OpenValue
<1>2. OpenValue(<<"v4", "colon", "digits">>)
  BY DEF Groups, Group, Special, TokenGroups, NoSpecial, OpenValue
<1>3. OpenValue(Escaped(<<"v4">>)) /\ OpenValue(<<"quote", "v4">>)
  BY DEF Groups, Group, Special, TokenGroups, QuoteFirst, Escaped, OpenValue
<1>4. OpenValue(Quoted(<<"v4", "colon", "digits">>))
  BY DEF Groups, Group, Special, TokenGroups, QuoteFirst, Quoted, OpenValue
<1>5. OpenValue(Quoted(<<"v6">>)) /\ OpenValue(Quoted(<<"v4", "semi">>)) /\ OpenValue(Quoted(<<>>))
  BY DEF Groups, Group, Special, TokenGroups, QuoteFirst, Quoted, OpenValue
<1>6. OpenValue(Quoted(<<"lbracket", "v6", "rbracket", "colon", "obf">>))
  BY DEF Groups, Group, Special, TokenGroups, QuoteFirst, Quoted, OpenValue
<1>7. OpenValue(Quoted(<<"ctl">>)) /\ OpenValue(Quoted(<<"v4">>) \o <<"x">>)
  BY DEF Groups, Group, Special, TokenGroups, QuoteFirst, Quoted, OpenValue
<1>8. OpenValue(v.bytes)
  <2>1. v.bytes \in {<<"v4">>, Escaped(<<"v4">>), Quoted(<<"v4", "colon", "digits">>),
                    Quoted(<<"lbracket", "v6", "rbracket", "colon", "obf">>), <<"unknown">>,
                    Quoted(<<"v6">>), Quoted(<<"v4", "semi">>), Quoted(<<>>), <<"quote", "v4">>,
                    Quoted(<<"ctl">>), <<"v4", "colon", "digits">>, Quoted(<<"v4">>) \o <<"x">>, <<>>}
    BY DEF FwdValues
  <2> QED BY <1>1, <1>2, <1>3, <1>4, <1>5, <1>6, <1>7, <2>1, Zenon
<1> QED BY <1>8 DEF OpenValue

LEMMA OpensAfter ==
  ASSUME NEW a \in Groups, NEW r \in Groups, OpensFirst(r), NoSpecial(a) \/ QuoteFirst(a)
  PROVE  a \o r \in Groups /\ OpensFirst(a \o r)
<1> DEFINE s == a \o r
<1>1. s \in Groups /\ Concats(s, a, r)
  BY Prefix
<1>2. /\ Len(s) = Len(a) + Len(r) /\ Len(a) \in Nat /\ Len(r) \in Nat
      /\ \A i \in 1..Len(a) : s[i] = a[i]
      /\ \A i \in 1..Len(r) : s[Len(a) + i] = r[i]
  BY <1>1 DEF Concats
<1> HIDE DEF s
<1> SUFFICES ASSUME NEW i \in 1..Len(s), s[i] \in Special, \A j \in 1..(i - 1) : s[j] \notin Special
             PROVE  s[i] = "quote" /\ i < Len(s) /\ s[i + 1] # "semi"
  BY <1>1 DEF OpensFirst, s
<1>3. CASE NoSpecial(a)
  <2>1. i \notin 1..Len(a)
    BY <1>2, <1>3 DEF NoSpecial
  <2> DEFINE k == i - Len(a)
  <2>2. k \in 1..Len(r) /\ Len(a) + k = i
    BY <1>2, <2>1
  <2>3. r[k] = s[i]
    BY <1>2, <2>2
  <2>4. \A j \in 1..(k - 1) : r[j] \notin Special
    <3> TAKE j \in 1..(k - 1)
    <3>1. j \in 1..Len(r) /\ Len(a) + j \in 1..(i - 1)
      BY <1>2, <2>2
    <3> QED BY <1>2, <3>1
  <2>5. r[k] = "quote" /\ k < Len(r) /\ r[k + 1] # "semi"
    BY <2>2, <2>3, <2>4 DEF OpensFirst
  <2>6. k + 1 \in 1..Len(r) /\ Len(a) + (k + 1) = i + 1
    BY <1>2, <2>2, <2>5
  <2>7. s[i + 1] = r[k + 1]
    BY <1>2, <2>6
  <2> QED BY <1>2, <2>2, <2>3, <2>5, <2>7
<1>4. CASE QuoteFirst(a)
  <2>1. 1 \in 1..Len(a) /\ 2 \in 1..Len(a) /\ 2 <= Len(s)
    BY <1>2, <1>4 DEF QuoteFirst
  <2>2. s[1] = "quote" /\ s[2] # "semi" /\ "quote" \in Special
    BY <1>2, <1>4, <2>1 DEF QuoteFirst, Special
  <2>3. i = 1
    <3>1. ~(1 \in 1..(i - 1))
      BY <2>2
    <3> QED BY <3>1, <1>2
  <2> QED BY <1>2, <2>1, <2>2, <2>3
<1> QED BY <1>3, <1>4

(* A pair to come is a tail too.                                           *)
LEMMA PairIsTail ==
  ASSUME NEW t \in Tails, NEW name \in Names, NEW v \in FwdValues
  PROVE  /\ PairText(name, v, t) \in Groups
         /\ \A semi \in {<<"semi">>, <<"semi", "semi">>} : semi \o PairText(name, v, t) \in Tails
<1>1. t \in Groups /\ OpensFirst(t)
  BY DEF Tails
<1>2. v.bytes \o t \in Groups /\ OpensFirst(v.bytes \o t)
  BY <1>1, ValueOpens, OpensAfter
<1> DEFINE head == <<name, "eq">>
<1>3. head \in Groups /\ NoSpecial(head)
  BY DEF Groups, Group, Special, TokenGroups, NoSpecial, Names
<1> HIDE DEF head
<1>4. PairText(name, v, t) \in Groups /\ OpensFirst(PairText(name, v, t))
  BY <1>2, <1>3, OpensAfter DEF PairText, head
<1>5. ASSUME NEW semi \in {<<"semi">>, <<"semi", "semi">>}
      PROVE  semi \o PairText(name, v, t) \in Tails
  <2>1. semi \in Groups /\ NoSpecial(semi) /\ Len(semi) >= 1 /\ semi[1] = "semi"
    <3>1. CASE semi = <<"semi">>
      BY <3>1 DEF Groups, Group, Special, TokenGroups, NoSpecial
    <3>2. CASE semi = <<"semi", "semi">>
      BY <3>2 DEF Groups, Group, Special, TokenGroups, NoSpecial
    <3> QED BY <3>1, <3>2
  <2>2. semi \o PairText(name, v, t) \in Groups /\ OpensFirst(semi \o PairText(name, v, t))
    BY <1>4, <2>1, OpensAfter
  <2>3. Concats(semi \o PairText(name, v, t), semi, PairText(name, v, t))
    BY <1>4, <2>1, Prefix
  <2>4. (semi \o PairText(name, v, t))[1] = "semi"
    BY <2>1, <2>3 DEF Concats
  <2> QED BY <2>2, <2>4 DEF Tails
<1> QED BY <1>4, <1>5

-----------------------------------------------------------------------------
PairAs(name, v, pair, t) ==
  IF v.node = "broken" THEN ~pair.ok
  ELSE /\ pair.ok /\ pair.name = <<name>> /\ pair.rest = t
       /\ ValidNode(pair.value) <=> v.node # "bad"
       /\ v.node # "bad" => NodeAddr(pair.value) = v.node

LEMMA PairCut ==
  ASSUME NEW t \in Tails, NEW name \in Names, NEW v \in FwdValues
  PROVE  PairAs(name, v, CutForwardedPair(PairText(name, v, t)), t)
<1> DEFINE s == PairText(name, v, t)
<1> DEFINE r == v.bytes \o t
<1>1. r \in Groups /\ t \in Groups
  BY ValueOpens, Prefix DEF Tails
<1> DEFINE head == <<name, "eq">>
<1>2. head \in Groups /\ Len(head) = 2 /\ head[1] = name /\ head[2] = "eq"
  BY DEF Groups, Group, TokenGroups, Names
<1> HIDE DEF head, r
<1>3. s \in Groups /\ Concats(s, head, r) /\ After(s, 2) = r
  BY <1>1, <1>2, Prefix DEF PairText, head, r
<1>4. Len(s) \in Nat /\ Len(s) >= 2 /\ s[1] = name /\ s[2] = "eq"
  BY <1>2, <1>3 DEF Concats
<1> HIDE DEF s
<1>5. TokenLen(s) = 1
  <2>1. 1 \in 0..Len(s) /\ \A i \in 1..1 : s[i] \in TokenGroups
    BY <1>4 DEF Names, TokenGroups
  <2>2. s[1 + 1] \notin TokenGroups
    BY <1>4 DEF TokenGroups
  <2> QED BY <1>3, <2>1, <2>2, TokenEnds
<1>6. SubSeq(s, 1, 1) = <<name>>
  <2>1. name \in Group /\ <<"eq">> \in Groups
    BY DEF Names, Group, Groups, TokenGroups
  <2> DEFINE one == <<name>>
  <2> DEFINE eq == <<"eq">>
  <2>2. one \in Groups /\ one \o eq = head
    <3>1. <<name>> \in Groups
      BY <2>1 DEF Groups
    <3>2. <<name>> \o <<"eq">> = <<name, "eq">>
      <4>1. <<"for", "eq">> = <<"for">> \o <<"eq">>
        OBVIOUS
      <4>2. <<"by", "eq">> = <<"by">> \o <<"eq">>
        OBVIOUS
      <4>3. <<"x", "eq">> = <<"x">> \o <<"eq">>
        OBVIOUS
      <4> QED BY <4>1, <4>2, <4>3, Zenon DEF Names
    <3> QED BY <3>1, <3>2 DEF head
  <2> HIDE DEF one, eq
  <2>3. Shifts(one, eq, r)
    BY <1>1, <2>1, <2>2, Shift DEF eq
  <2>4. s = one \o (eq \o r) /\ eq \o r \in Groups
    BY <2>2, <2>3 DEF Shifts, s, PairText, head, r
  <2>5. SubSeq(<<name>> \o (eq \o r), 1, 1) = <<name>>
    BY <2>1, <2>4, FirstByte
  <2> QED BY <2>4, <2>5 DEF one
<1> DEFINE cut == CutForwardedValue(r)
<1>7. CutAs(v, cut, t)
  BY ValueCut DEF r
<1> HIDE DEF cut
<1> DEFINE fits == cut.ok /\ (cut.rest # <<>> => cut.rest[1] = "semi")
<1>8. CutForwardedPair(s) =
        IF fits THEN [ok |-> TRUE, name |-> <<name>>, value |-> cut.value, rest |-> cut.rest]
        ELSE [ok |-> FALSE, name |-> <<>>, value |-> <<>>, rest |-> <<>>]
  <2>1. 1 \in 1..(Len(s) - 1) /\ s[1 + 1] = "eq" /\ After(s, 1 + 1) = r
    BY <1>3, <1>4
  <2> QED BY <1>5, <1>6, <2>1, Zenon DEF CutForwardedPair, cut
<1>9. CASE v.node = "broken"
  <2>1. ~fits
    BY <1>7, <1>9 DEF CutAs, Unread
  <2> QED BY <1>8, <1>9, <2>1 DEF PairAs, s
<1>10. CASE v.node # "broken"
  <2>1. fits
    BY <1>7, <1>10 DEF CutAs, Tails
  <2>2. CutForwardedPair(s) = [ok |-> TRUE, name |-> <<name>>, value |-> cut.value, rest |-> cut.rest]
    BY <1>8, <2>1
  <2> HIDE DEF fits
  <2> QED BY <1>7, <1>10, <2>2 DEF PairAs, CutAs, s
<1> QED BY <1>9, <1>10

-----------------------------------------------------------------------------
(* The loop before each turn: what is left, the names seen, the node found.*)
At(rest, seen, node) == [rest |-> rest, seen |-> seen, forNode |-> node, valid |-> TRUE]

LEMMA SemiRead ==
  ASSUME NEW r \in Groups, NEW seen, NEW node
  PROVE  ReadPair(At(<<"semi">> \o r, seen, node)) = At(r, seen, node)
<1> DEFINE s == <<"semi">> \o r
<1>1. s # <<>> /\ s[1] = "semi" /\ Tail(s) = r
  BY FirstByte DEF Group
<1> HIDE DEF s
<1>2. ReadPair(At(s, seen, node)) = [At(s, seen, node) EXCEPT !.rest = Tail(s)]
  BY <1>1 DEF ReadPair, At
<1> QED BY <1>1, <1>2 DEF At, s

Refuses(seen, name, v) ==
  \/ Cardinality(seen) = MaxPairs \/ v.node = "broken" \/ <<name>> \in seen
  \/ v.node = "bad" /\ name \in {"for", "by"}

ReadAs(next, seen, node, name, v, t) ==
  IF Refuses(seen, name, v) THEN ~next.valid
  ELSE next = At(t, seen \cup {<<name>>}, IF name = "for" THEN v.node ELSE node)

LEMMA PairRead ==
  ASSUME NEW t \in Tails, NEW name \in Names, NEW v \in FwdValues, NEW seen, NEW node
  PROVE  ReadAs(ReadPair(At(PairText(name, v, t), seen, node)), seen, node, name, v, t)
<1> DEFINE e == PairText(name, v, t)
<1> DEFINE pair == CutForwardedPair(e)
<1>1. PairAs(name, v, pair, t)
  BY PairCut
<1>2. e # <<>> /\ e[1] # "semi"
  <2> DEFINE r == v.bytes \o t
  <2>1. r \in Groups
    BY ValueOpens, Prefix DEF Tails
  <2> HIDE DEF r
  <2> QED BY <2>1 DEF Groups, PairText, r, Names
<1> HIDE DEF e, pair
<1> DEFINE nodeNamed == pair.name \in {<<"for">>, <<"by">>}
<1> DEFINE refused == \/ Cardinality(seen) = MaxPairs \/ ~pair.ok \/ pair.name \in seen
                      \/ nodeNamed /\ ~ValidNode(pair.value)
<1>3. ReadPair(At(e, seen, node)) =
        IF refused THEN [At(e, seen, node) EXCEPT !.valid = FALSE]
        ELSE [At(e, seen, node) EXCEPT !.rest = pair.rest, !.seen = @ \cup {pair.name},
                !.forNode = IF pair.name = <<"for">> THEN NodeAddr(pair.value) ELSE @]
  BY <1>2 DEF ReadPair, At, pair
<1>4. (<<name>> = <<"for">> <=> name = "for") /\ (<<name>> = <<"by">> <=> name = "by")
  OBVIOUS
<1>5. refused <=> Refuses(seen, name, v)
  BY <1>1, <1>4 DEF PairAs, Refuses
<1>6. CASE refused
  BY <1>3, <1>5, <1>6 DEF At, ReadAs, e
<1>7. CASE ~refused
  <2>1. pair.ok
    BY <1>7
  <2>2. pair.name = <<name>> /\ pair.rest = t /\ (v.node # "bad" => NodeAddr(pair.value) = v.node)
    BY <1>1, <2>1 DEF PairAs
  <2>3. name = "for" => v.node # "bad"
    BY <1>5, <1>7 DEF Refuses
  <2>4. ReadPair(At(e, seen, node)) =
          [At(e, seen, node) EXCEPT !.rest = t, !.seen = seen \cup {<<name>>},
             !.forNode = IF name = "for" THEN v.node ELSE node]
    <3>1. At(e, seen, node).seen = seen /\ At(e, seen, node).forNode = node
      BY DEF At
    <3> HIDE DEF refused
    <3> QED BY <1>3, <1>4, <1>7, <2>2, <2>3, <3>1
  <2>5. ReadPair(At(e, seen, node)) =
          At(t, seen \cup {<<name>>}, IF name = "for" THEN v.node ELSE node)
    BY <2>4 DEF At
  <2> QED BY <1>5, <1>7, <2>5 DEF ReadAs, e
<1> QED BY <1>6, <1>7

(* The turns of the loop over an element, one after the other.             *)
TraceOf(f, elem) ==
  /\ f[0] = At(elem, {}, "none")
  /\ \A n \in 1..Len(elem) : f[n] = ReadPair(f[n - 1])

LEMMA ParseTrace ==
  ASSUME NEW elem \in Groups
  PROVE  \E f : /\ TraceOf(f, elem)
                /\ ParseForwardedElement(elem) =
                     IF f[Len(elem)].valid
                       THEN [valid |-> TRUE, forNode |-> f[Len(elem)].forNode] ELSE Invalid
<1> DEFINE N == Len(elem)
<1> DEFINE start == At(elem, {}, "none")
<1> DEFINE Good(f, m) == f[0] = start /\ \A n \in 1..m : f[n] = ReadPair(f[n - 1])
<1> DEFINE T == {m \in 0..N : \E f : Good(f, m)}
<1> DEFINE Body(f) == [n \in 0..N |-> IF n = 0 THEN start ELSE ReadPair(f[n - 1])]
<1>1. N \in Nat
  BY DEF Groups
<1>2. 0 \in T
  <2>1. Good([n \in 0..N |-> start], 0) /\ 0 \in 0..N
    BY <1>1
  <2> HIDE DEF Good
  <2> QED BY <2>1
<1>3. ASSUME NEW m \in 1..N, m - 1 \in T PROVE m \in T
  <2>1. PICK f : Good(f, m - 1)
    BY <1>3
  <2> DEFINE g == [n \in 0..N |-> IF n = m THEN ReadPair(f[m - 1]) ELSE f[n]]
  <2>2. m \in 0..N /\ m # 0 /\ 0 \in 0..N
    BY <1>1
  <2>3. g[0] = start
    BY <2>1, <2>2
  <2>4. ASSUME NEW n \in 1..m PROVE g[n] = ReadPair(g[n - 1])
    <3>1. n \in 0..N /\ n - 1 \in 0..N /\ n - 1 # m
      BY <1>1
    <3>2. g[n - 1] = f[n - 1]
      BY <3>1
    <3>3. CASE n = m
      BY <3>1, <3>2, <3>3
    <3>4. CASE n # m
      <4>1. n \in 1..(m - 1)
        BY <3>4
      <4> QED BY <2>1, <3>1, <3>2, <3>4, <4>1
    <3> QED BY <3>3, <3>4
  <2>5. Good(g, m)
    BY <2>3, <2>4
  <2> HIDE DEF g, Good
  <2> QED BY <2>2, <2>5
<1>4. 0..N \subseteq T
  <2> HIDE DEF T
  <2> QED BY <1>1, <1>2, <1>3, UpTo
<1>5. PICK g : Good(g, N)
  BY <1>1, <1>4
<1> DEFINE g2 == [n \in 0..N |-> g[n]]
<1>6. g2 = Body(g2)
  <2>1. \A n \in 0..N : n # 0 => g2[n] = ReadPair(g2[n - 1])
    BY <1>1, <1>5
  <2>2. g2[0] = start
    BY <1>1, <1>5
  <2> QED BY <2>1, <2>2
<1> DEFINE h == CHOOSE f : f = Body(f)
<1>7. h = Body(h)
  BY <1>6
<1>8. ParseForwardedElement(elem) =
        IF h[N].valid THEN [valid |-> TRUE, forNode |-> h[N].forNode] ELSE Invalid
  BY Zenon DEF ParseForwardedElement, At
<1> HIDE DEF h
<1>9. TraceOf(h, elem)
  <2>1. \A n \in 1..N : h[n] = ReadPair(h[n - 1])
    BY <1>1, <1>7
  <2>2. h[0] = start
    BY <1>1, <1>7
  <2> QED BY <2>1, <2>2 DEF TraceOf
<1> QED BY <1>8, <1>9

(* Nothing is read once a pair was refused or nothing is left.             *)
LEMMA ReadNoMore ==
  ASSUME NEW elem \in Groups, NEW f, TraceOf(f, elem), NEW k \in 0..Len(elem),
         f[k].rest = <<>> \/ ~f[k].valid, NEW n \in k..Len(elem)
  PROVE  f[n] = f[k]
<1> DEFINE N == Len(elem) - k
<1> DEFINE T == {i \in 0..N : f[k + i] = f[k]}
<1>1. N \in Nat /\ k \in Nat /\ Len(elem) \in Nat
  BY DEF Groups
<1>2. 0 \in T
  BY <1>1
<1>3. ASSUME NEW i \in 1..N, i - 1 \in T PROVE i \in T
  <2>1. k + i \in 1..Len(elem) /\ k + i - 1 = k + (i - 1)
    BY <1>1
  <2>2. f[k + i] = ReadPair(f[k]) /\ f[k + (i - 1)] = f[k]
    BY <1>3, <2>1 DEF TraceOf
  <2>3. ReadPair(f[k]) = f[k]
    BY Zenon DEF ReadPair
  <2> QED BY <2>2, <2>3
<1>4. 0..N \subseteq T
  <2> HIDE DEF T, N
  <2> QED BY <1>1, <1>2, <1>3, UpTo
<1>5. n - k \in T /\ k + (n - k) = n
  <2>1. n - k \in 0..N /\ k + (n - k) = n
    BY <1>1
  <2> HIDE DEF T
  <2> QED BY <1>4, <2>1
<1> QED BY <1>5

-----------------------------------------------------------------------------
(* What is wrong with a pair, the names there are and the node named.      *)
NodeKinds == {"v4", "v6", "none", "bad", "broken"}
Pairs == [name : Names, node : NodeKinds]
WrongPair(m, i) ==
  \/ i > MaxPairs
  \/ m[i].node = "broken"
  \/ m[i].node = "bad" /\ m[i].name \in {"for", "by"}
  \/ \E j \in 1..(i - 1) : m[j].name = m[i].name
Clean(m) == \A i \in 1..Len(m) : ~WrongPair(m, i)
SeenOf(m) == {<<m[i].name>> : i \in 1..Len(m)}
NodeOf(m) ==
  IF \E i \in DOMAIN m : m[i].name = "for"
    THEN LET i == CHOOSE i \in DOMAIN m : m[i].name = "for" IN m[i].node
    ELSE "none"

LEMMA CleanNode ==
  ASSUME NEW m \in Seq(Pairs), Clean(m), NEW i \in 1..Len(m), m[i].name = "for"
  PROVE  NodeOf(m) = m[i].node
<1> DEFINE c == CHOOSE j \in DOMAIN m : m[j].name = "for"
<1>1. c \in 1..Len(m) /\ m[c].name = "for"
  OBVIOUS
<1>2. NodeOf(m) = m[c].node
  BY DEF NodeOf
<1> HIDE DEF c
<1>3. ~(c < i) /\ ~(i < c)
  <2>1. ~WrongPair(m, i) /\ ~WrongPair(m, c)
    BY <1>1 DEF Clean
  <2>2. c < i => c \in 1..(i - 1)
    BY <1>1
  <2>3. i < c => i \in 1..(c - 1)
    BY <1>1
  <2> QED BY <1>1, <2>1, <2>2, <2>3 DEF WrongPair
<1>4. c = i
  BY <1>1, <1>3
<1> QED BY <1>2, <1>4

(* As many names as pairs, when no name is repeated.                       *)
Counted(m) == Clean(m) => IsFiniteSet(SeenOf(m)) /\ Cardinality(SeenOf(m)) = Len(m)

LEMMA AddedPair ==
  ASSUME NEW m \in Seq(Pairs), NEW p \in Pairs
  PROVE  /\ Append(m, p) \in Seq(Pairs) /\ Len(Append(m, p)) = Len(m) + 1 /\ Len(m) \in Nat
         /\ Append(m, p)[Len(m) + 1] = p
         /\ \A i \in 1..Len(m) : Append(m, p)[i] = m[i]
         /\ Clean(Append(m, p)) <=> Clean(m) /\ ~WrongPair(Append(m, p), Len(m) + 1)
         /\ SeenOf(Append(m, p)) = SeenOf(m) \cup {<<p.name>>}
<1> DEFINE q == Append(m, p)
<1>1. /\ q \in Seq(Pairs) /\ Len(q) = Len(m) + 1 /\ Len(m) \in Nat /\ q[Len(m) + 1] = p
      /\ \A i \in 1..Len(m) : q[i] = m[i]
  OBVIOUS
<1> HIDE DEF q
<1>2. \A i \in 1..Len(m) : WrongPair(q, i) <=> WrongPair(m, i)
  <2> TAKE i \in 1..Len(m)
  <2>1. q[i] = m[i] /\ \A j \in 1..(i - 1) : q[j] = m[j]
    BY <1>1
  <2> QED BY <2>1 DEF WrongPair
<1>3. \A i \in 1..Len(q) : i \in 1..Len(m) \/ i = Len(m) + 1
  BY <1>1
<1>4. 1..Len(m) \subseteq 1..Len(q) /\ Len(m) + 1 \in 1..Len(q)
  BY <1>1
<1>5. Clean(q) <=> Clean(m) /\ ~WrongPair(q, Len(m) + 1)
  BY <1>2, <1>3, <1>4 DEF Clean
<1>6. SeenOf(q) = SeenOf(m) \cup {<<p.name>>}
  <2>1. ASSUME NEW x \in SeenOf(q) PROVE x \in SeenOf(m) \cup {<<p.name>>}
    <3>1. PICK i \in 1..Len(q) : x = <<q[i].name>>
      BY DEF SeenOf
    <3> QED BY <1>1, <1>3, <3>1 DEF SeenOf
  <2>2. ASSUME NEW x \in SeenOf(m) PROVE x \in SeenOf(q)
    <3>1. PICK i \in 1..Len(m) : x = <<m[i].name>>
      BY DEF SeenOf
    <3> QED BY <1>1, <1>4, <3>1 DEF SeenOf
  <2>3. <<p.name>> \in SeenOf(q)
    BY <1>1, <1>4 DEF SeenOf
  <2> QED BY <2>1, <2>2, <2>3
<1> QED BY <1>1, <1>5, <1>6 DEF q

LEMMA RefusedPair ==
  ASSUME NEW m \in Seq(Pairs), NEW name \in Names, NEW v \in FwdValues, Clean(m), Counted(m)
  PROVE  LET p == [name |-> name, node |-> v.node]
         IN /\ p \in Pairs
            /\ Refuses(SeenOf(m), name, v) <=> ~Clean(Append(m, p))
            /\ Counted(Append(m, p))
            /\ Clean(Append(m, p)) =>
                 NodeOf(Append(m, p)) = IF name = "for" THEN v.node ELSE NodeOf(m)
<1> DEFINE p == [name |-> name, node |-> v.node]
<1> DEFINE q == Append(m, p)
<1>1. v.node \in NodeKinds
  BY DEF FwdValues, NodeKinds
<1>2. p \in Pairs /\ p.name = name /\ p.node = v.node
  BY <1>1 DEF Pairs
<1> HIDE DEF p
<1>3. /\ q \in Seq(Pairs) /\ Len(q) = Len(m) + 1 /\ Len(m) \in Nat
      /\ q[Len(m) + 1] = p /\ \A i \in 1..Len(m) : q[i] = m[i]
      /\ Clean(q) <=> ~WrongPair(q, Len(m) + 1)
      /\ SeenOf(q) = SeenOf(m) \cup {<<name>>}
  BY <1>2, AddedPair
<1> HIDE DEF q
<1>4. IsFiniteSet(SeenOf(m)) /\ Cardinality(SeenOf(m)) = Len(m)
  BY DEF Counted
<1>5. Len(m) <= MaxPairs /\ MaxPairs \in Nat
  <2>1. MaxPairs \in Nat
    BY PairsAssumption
  <2>2. CASE Len(m) = 0
    BY <2>1, <2>2
  <2>3. CASE Len(m) # 0
    <3>1. Len(m) \in 1..Len(m)
      BY <1>3, <2>3
    <3>2. ~WrongPair(m, Len(m))
      BY <3>1 DEF Clean
    <3> QED BY <1>3, <2>1, <3>2 DEF WrongPair
  <2> QED BY <2>2, <2>3
<1>6. <<name>> \in SeenOf(m) <=> \E j \in 1..Len(m) : q[j].name = q[Len(m) + 1].name
  BY <1>2, <1>3 DEF SeenOf
<1>7. Len(m) + 1 - 1 = Len(m) /\ (Len(m) = MaxPairs <=> Len(m) + 1 > MaxPairs)
  BY <1>3, <1>5
<1>8. Refuses(SeenOf(m), name, v) <=> WrongPair(q, Len(m) + 1)
  BY <1>2, <1>3, <1>4, <1>6, <1>7 DEF Refuses, WrongPair
<1>9. Clean(q) => <<name>> \notin SeenOf(m)
  BY <1>3, <1>8 DEF Refuses
<1>10. Counted(q)
  <2> SUFFICES ASSUME Clean(q) PROVE IsFiniteSet(SeenOf(q)) /\ Cardinality(SeenOf(q)) = Len(q)
    BY DEF Counted
  <2> DEFINE seen == SeenOf(m)
  <2>1. IsFiniteSet(seen \cup {<<name>>})
          /\ Cardinality(seen \cup {<<name>>}) = Cardinality(seen) + 1
    <3> HIDE DEF seen
    <3> QED BY <1>4, <1>9, FS_AddElement DEF seen
  <2> QED BY <1>3, <1>4, <2>1
<1>11. ASSUME Clean(q) PROVE NodeOf(q) = IF name = "for" THEN v.node ELSE NodeOf(m)
  <2>1. CASE name = "for"
    <3>1. Len(m) + 1 \in 1..Len(q) /\ q[Len(m) + 1].name = "for"
      BY <1>2, <1>3, <2>1
    <3> QED BY <1>2, <1>3, <1>11, <2>1, <3>1, CleanNode
  <2>2. CASE name # "for" /\ \E i \in 1..Len(m) : m[i].name = "for"
    <3>1. PICK i \in 1..Len(m) : m[i].name = "for"
      BY <2>2
    <3>2. i \in 1..Len(q) /\ q[i] = m[i]
      BY <1>3
    <3>3. NodeOf(q) = q[i].node /\ NodeOf(m) = m[i].node
      BY <1>3, <1>11, <3>1, <3>2, CleanNode
    <3> QED BY <2>2, <3>2, <3>3
  <2>3. CASE name # "for" /\ ~\E i \in 1..Len(m) : m[i].name = "for"
    <3>1. ~\E i \in DOMAIN m : m[i].name = "for"
      BY <2>3
    <3>2. ~\E i \in DOMAIN q : q[i].name = "for"
      BY <1>2, <1>3, <2>3
    <3> QED BY <2>3, <3>1, <3>2, Zenon DEF NodeOf
  <2> QED BY <2>1, <2>2, <2>3
<1> QED BY <1>2, <1>3, <1>8, <1>10, <1>11 DEF p, q

LenOfJoin(a, b) == Len(a \o b) = Len(a) + Len(b) /\ Len(a) \in Nat /\ Len(b) \in Nat
LEMMA Join ==
  ASSUME NEW a \in Groups, NEW b \in Groups PROVE a \o b \in Groups /\ LenOfJoin(a, b)
BY DEF Groups, LenOfJoin

(* What the loop holds once the pairs of m are read and t is left.         *)
Holds(s, m, t) ==
  IF Clean(m) THEN s = At(t, SeenOf(m), NodeOf(m)) ELSE ~s.valid

LEMMA PairHolds ==
  ASSUME NEW m \in Seq(Pairs), Clean(m), Counted(m), NEW name \in Names, NEW v \in FwdValues,
         NEW t \in Tails
  PROVE  Holds(ReadPair(At(PairText(name, v, t), SeenOf(m), NodeOf(m))),
               Append(m, [name |-> name, node |-> v.node]), t)
<1> DEFINE p == [name |-> name, node |-> v.node]
<1> DEFINE next == ReadPair(At(PairText(name, v, t), SeenOf(m), NodeOf(m)))
<1>1. ReadAs(next, SeenOf(m), NodeOf(m), name, v, t)
  BY PairRead
<1>2. /\ p \in Pairs
      /\ Refuses(SeenOf(m), name, v) <=> ~Clean(Append(m, p))
      /\ Clean(Append(m, p)) => NodeOf(Append(m, p)) = IF name = "for" THEN v.node ELSE NodeOf(m)
  BY RefusedPair
<1>3. SeenOf(Append(m, p)) = SeenOf(m) \cup {<<name>>}
  BY <1>2, AddedPair
<1> HIDE DEF next, p
<1> QED BY <1>1, <1>2, <1>3 DEF ReadAs, Holds, next, p

(* After as many turns as text has bytes at most, whatever follows it, the *)
(* loop holds what text means.                                             *)
Read(tx, m) ==
  \A t \in Tails : \E k \in 0..Len(tx) : \A f :
    TraceOf(f, tx \o t) => Holds(f[k], m, t)

LEMMA FirstPair ==
  ASSUME NEW name \in Names, NEW v \in FwdValues
  PROVE  Read(<<name, "eq">> \o v.bytes, Append(<<>>, [name |-> name, node |-> v.node]))
<1> DEFINE tx == <<name, "eq">> \o v.bytes
<1> DEFINE m2 == Append(<<>>, [name |-> name, node |-> v.node])
<1>1. <<name, "eq">> \in Groups /\ v.bytes \in Groups /\ Len(<<name, "eq">>) = 2
  BY ValueOpens DEF Groups, Group, TokenGroups, Names
<1>2. tx \in Groups /\ Len(tx) >= 1
  <2> DEFINE head == <<name, "eq">>
  <2> HIDE DEF head
  <2> QED BY <1>1 DEF head, Groups
<1> SUFFICES ASSUME NEW t \in Tails, NEW f, TraceOf(f, tx \o t) PROVE Holds(f[1], m2, t)
  <2>1. 1 \in 0..Len(tx)
    BY <1>2 DEF Groups
  <2> QED BY <2>1 DEF Read
<1>3. tx \o t = PairText(name, v, t)
  <2> DEFINE head == <<name, "eq">>
  <2> HIDE DEF head
  <2>1. Shifts(head, v.bytes, t)
    BY <1>1, Shift DEF head, Tails
  <2> QED BY <2>1 DEF Shifts, PairText, head
<1>4. 1 \in 1..Len(tx \o t)
  <2> HIDE DEF tx
  <2> QED BY <1>2 DEF Groups, Tails
<1>5. f[1] = ReadPair(At(PairText(name, v, t), {}, "none"))
  <2>1. f[1] = ReadPair(f[1 - 1])
    BY <1>4 DEF TraceOf
  <2> HIDE DEF tx
  <2> QED BY <1>3, <2>1 DEF TraceOf
<1>6. <<>> \in Seq(Pairs) /\ Clean(<<>>) /\ SeenOf(<<>>) = {} /\ NodeOf(<<>>) = "none"
  BY DEF Clean, SeenOf, NodeOf
<1>7. Counted(<<>>)
  BY <1>6, FS_EmptySet DEF Counted
<1> QED BY <1>5, <1>6, <1>7, PairHolds

Semis == {<<"semi">>, <<"semi", "semi">>}

LEMMA NextPair ==
  ASSUME NEW tx \in Groups, NEW m \in Seq(Pairs), Read(tx, m), Counted(m),
         NEW name \in Names, NEW v \in FwdValues, NEW semi \in Semis
  PROVE  Read(tx \o semi \o <<name, "eq">> \o v.bytes,
              Append(m, [name |-> name, node |-> v.node]))
<1> DEFINE head == <<name, "eq">>
<1> DEFINE tx2 == tx \o semi \o head \o v.bytes
<1> DEFINE p == [name |-> name, node |-> v.node]
<1> DEFINE m2 == Append(m, p)
<1>1. head \in Groups /\ v.bytes \in Groups /\ Len(head) = 2
  BY ValueOpens DEF Groups, Group, TokenGroups, Names
<1>2. semi \in Groups /\ Len(semi) \in {1, 2}
  <2>1. CASE semi = <<"semi">>
    BY <2>1 DEF Groups, Group
  <2>2. CASE semi = <<"semi", "semi">>
    BY <2>2 DEF Groups, Group
  <2> QED BY <2>1, <2>2 DEF Semis
<1> HIDE DEF head
<1> SUFFICES ASSUME NEW t \in Tails
             PROVE  \E k \in 0..Len(tx2) : \A f : TraceOf(f, tx2 \o t) => Holds(f[k], m2, t)
  BY DEF Read, head
<1> DEFINE e == PairText(name, v, t)
<1> DEFINE t2 == semi \o e
<1>3. e \in Groups /\ t2 \in Tails /\ t \in Groups
  BY PairIsTail DEF Tails, Semis
<1>4. tx2 \o t = tx \o t2
  <2>1. Shifts(tx, semi, head)
    BY <1>1, <1>2, Shift
  <2>2. tx \o semi \in Groups
    BY <2>1 DEF Shifts
  <2>3. Shifts(tx \o semi, head, v.bytes)
    BY <1>1, <2>2, Shift
  <2>4. tx2 = (tx \o semi) \o (head \o v.bytes) /\ head \o v.bytes \in Groups
          /\ tx \o semi \in Groups
    BY <2>1, <2>3 DEF Shifts
  <2>5. Shifts(tx \o semi, head \o v.bytes, t) /\ Shifts(head, v.bytes, t)
    BY <1>1, <1>3, <2>4, Shift
  <2>6. e = (head \o v.bytes) \o t
    BY <2>5 DEF Shifts, PairText, head
  <2>7. tx2 \o t = (tx \o semi) \o e
    BY <2>4, <2>5, <2>6 DEF Shifts
  <2>8. Shifts(tx, semi, e)
    BY <1>2, <1>3, Shift
  <2> HIDE DEF tx2, e
  <2> QED BY <2>7, <2>8 DEF Shifts
<1>5. Len(tx2) = Len(tx) + Len(semi) + 2 + Len(v.bytes)
  <2> DEFINE a == tx \o semi
  <2>1. a \in Groups /\ LenOfJoin(tx, semi)
    BY <1>2, Join
  <2> DEFINE b == a \o head
  <2>2. b \in Groups /\ LenOfJoin(a, head)
    <3> HIDE DEF a
    <3> QED BY <1>1, <2>1, Join
  <2>3. LenOfJoin(b, v.bytes)
    <3> HIDE DEF b
    <3> QED BY <1>1, <2>2, Join
  <2>4. Len(a) = Len(tx) + Len(semi) /\ Len(tx) \in Nat /\ Len(semi) \in Nat
    BY <2>1 DEF LenOfJoin
  <2>5. Len(b) = Len(a) + 2 /\ Len(a) \in Nat
    <3> HIDE DEF a
    <3> QED BY <1>1, <2>2 DEF LenOfJoin
  <2>6. Len(tx2) = Len(b) + Len(v.bytes) /\ Len(v.bytes) \in Nat /\ Len(b) \in Nat
    <3> HIDE DEF b
    <3> QED BY <2>3 DEF LenOfJoin, b
  <2> HIDE DEF a, b, tx2
  <2> QED BY <2>4, <2>5, <2>6
<1>6. Len(tx) \in Nat /\ Len(semi) \in Nat /\ Len(v.bytes) \in Nat /\ Len(t) \in Nat
  BY <1>1, <1>2, <1>3 DEF Groups
<1>7. tx2 \o t \in Groups /\ tx2 \in Groups
  <2>1. tx \o semi \in Groups
    BY <1>2 DEF Groups
  <2>2. (tx \o semi) \o head \in Groups
    BY <1>1, <2>1 DEF Groups
  <2>3. tx2 \in Groups
    BY <1>1, <2>2 DEF Groups
  <2> HIDE DEF tx2
  <2> QED BY <1>3, <2>3 DEF Groups
<1> HIDE DEF tx2, t2, e
<1>8. PICK k \in 0..Len(tx) : \A f : TraceOf(f, tx \o t2) => Holds(f[k], m, t2)
  BY <1>3 DEF Read
<1> DEFINE k2 == k + Len(semi) + 1
<1> DEFINE nt == Len(tx)
<1> DEFINE ns == Len(semi)
<1> DEFINE nv == Len(v.bytes)
<1> DEFINE n2 == Len(tx2)
<1> DEFINE na == Len(tx2 \o t)
<1>9. /\ k \in 0..nt /\ nt \in Nat /\ ns \in {1, 2} /\ nv \in Nat
       /\ n2 = nt + ns + 2 + nv /\ na \in Nat /\ n2 <= na
  <2>1. Len(tx2 \o t) \in Nat /\ Len(tx2) <= Len(tx2 \o t)
    BY <1>3, <1>7 DEF Groups
  <2> QED BY <1>2, <1>6, <1>5, <2>1, Zenon
<1> HIDE DEF nt, ns, nv, n2, na
<1>10. /\ k2 = k + ns + 1 /\ k \in Nat
       /\ \A n \in 1..(ns + 1) : k + n \in 1..n2 /\ k + n - 1 = k + (n - 1)
       /\ k + ns + 1 = k + (ns + 1) /\ k + ns + 1 \in 0..n2
       /\ k \in 0..na /\ k + ns + 1 \in k..na
  <2>1. k2 = k + ns + 1
    BY DEF ns
  <2> HIDE DEF k2
  <2> QED BY <1>9, <2>1
<1>11. k2 \in 0..Len(tx2) /\ k \in Nat
  BY <1>10, Zenon DEF n2
<1>12. Len(tx2 \o t) \in Nat /\ Len(tx2) <= Len(tx2 \o t)
  BY <1>3, <1>7 DEF Groups
<1>13. Len(tx2) \in Nat
  BY <1>7 DEF Groups
<1> SUFFICES ASSUME NEW f, TraceOf(f, tx2 \o t) PROVE Holds(f[k2], m2, t)
  BY <1>11
<1>14. Holds(f[k], m, t2) /\ \A n \in 1..Len(tx2) : f[n] = ReadPair(f[n - 1])
  <2>1. \A n \in 1..Len(tx2) : n \in 1..Len(tx2 \o t)
    BY <1>12, <1>13
  <2> QED BY <1>4, <1>8, <2>1 DEF TraceOf
<1>15. p \in Pairs
  BY DEF Pairs, FwdValues, NodeKinds
<1>16. Clean(m2) => Clean(m)
  BY <1>15, AddedPair
<1>17. /\ \A n \in 1..(Len(semi) + 1) : k + n \in 1..Len(tx2) /\ k + n - 1 = k + (n - 1)
       /\ k2 = k + (Len(semi) + 1)
  BY <1>10, Zenon DEF n2, ns
<1>18. CASE ~Clean(m)
  <2>1. ~f[k].valid
    BY <1>14, <1>18 DEF Holds
  <2>2. TraceOf(f, tx2 \o t) /\ tx2 \o t \in Groups /\ k \in 0..Len(tx2 \o t)
          /\ k2 \in k..Len(tx2 \o t)
    <3>1. tx2 \o t \in Groups
      BY <1>7
    <3>2. k \in 0..Len(tx2 \o t) /\ k2 \in k..Len(tx2 \o t)
      BY <1>10, Zenon DEF na
    <3> QED BY <3>1, <3>2 DEF Semis
  <2>3. f[k2] = f[k]
    <3> DEFINE all == tx2 \o t
    <3>1. TraceOf(f, all) /\ all \in Groups /\ k \in 0..Len(all) /\ k2 \in k..Len(all)
      BY <2>2, Zenon
    <3> HIDE DEF all, k2
    <3> QED BY <2>1, <3>1, ReadNoMore
  <2> QED BY <1>16, <1>18, <2>1, <2>3 DEF Holds
<1>19. CASE Clean(m)
  <2>1. f[k] = At(t2, SeenOf(m), NodeOf(m))
    BY <1>14, <1>19 DEF Holds
  <2>2. f[k + Len(semi)] = At(e, SeenOf(m), NodeOf(m))
    <3>1. CASE semi = <<"semi">>
      <4>1. Len(semi) = 1 /\ k + 1 \in 1..Len(tx2) /\ k + 1 - 1 = k
        BY <1>17, <3>1
      <4>2. f[k + 1] = ReadPair(At(<<"semi">> \o e, SeenOf(m), NodeOf(m)))
        BY <1>14, <2>1, <3>1, <4>1 DEF t2
      <4> QED BY <1>3, <4>1, <4>2, SemiRead
    <3>2. CASE semi = <<"semi", "semi">>
      <4>1. /\ Len(semi) = 2 /\ k + 1 \in 1..Len(tx2) /\ k + 1 - 1 = k
            /\ k + 2 \in 1..Len(tx2) /\ k + 2 - 1 = k + 1
        <5>1. Len(semi) = 2 /\ 1 \in 1..(Len(semi) + 1) /\ 2 \in 1..(Len(semi) + 1)
          BY <3>2
        <5> QED BY <1>11, <1>17, <5>1
      <4>2. <<"semi", "semi">> = <<"semi">> \o <<"semi">> /\ <<"semi">> \in Groups
        BY DEF Groups, Group
      <4>3. t2 = <<"semi">> \o (<<"semi">> \o e) /\ <<"semi">> \o e \in Groups
        <5> DEFINE one == <<"semi">>
        <5>1. one \in Groups /\ semi = one \o one
          BY <3>2, <4>2
        <5> HIDE DEF one
        <5>2. Shifts(one, one, e)
          BY <1>3, <5>1, Shift
        <5>3. t2 = one \o (one \o e) /\ one \o e \in Groups
          BY <5>1, <5>2 DEF Shifts, t2
        <5> QED BY <5>3 DEF one
      <4>4. f[k + 1] = At(<<"semi">> \o e, SeenOf(m), NodeOf(m))
        <5>1. f[k + 1] = ReadPair(At(<<"semi">> \o (<<"semi">> \o e), SeenOf(m), NodeOf(m)))
          BY <1>14, <2>1, <4>1, <4>3
        <5> QED BY <4>3, <5>1, SemiRead
      <4>5. f[k + 2] = ReadPair(At(<<"semi">> \o e, SeenOf(m), NodeOf(m)))
        BY <1>14, <4>1, <4>4
      <4> QED BY <1>3, <4>1, <4>5, SemiRead
    <3> QED BY <3>1, <3>2 DEF Semis
  <2>3. f[k2] = ReadPair(At(PairText(name, v, t), SeenOf(m), NodeOf(m)))
    <3>1. Len(semi) + 1 \in 1..(Len(semi) + 1) /\ Len(semi) + 1 - 1 = Len(semi)
      BY <1>6, <1>2
    <3>2. k2 \in 1..Len(tx2) /\ k2 - 1 = k + Len(semi)
      BY <1>17, <3>1
    <3> HIDE DEF k2
    <3> QED BY <1>14, <2>2, <3>2 DEF e
  <2> HIDE DEF k2
  <2> QED BY <1>19, <2>3, PairHolds
<1> QED BY <1>18, <1>19

-----------------------------------------------------------------------------
(* What is written of an element, and the pairs it says.                   *)
FwdInv ==
  kind = "forwarded" =>
    /\ text \in Groups /\ meant \in Seq(Pairs) /\ Counted(meant)
    /\ IF text = <<>> THEN meant = <<>> ELSE Read(text, meant)

LEMMA PairStep ==
  ASSUME FwdInv, AddPair PROVE FwdInv'
<1>1. /\ kind = "forwarded" /\ kind' = kind
      /\ text \in Groups /\ meant \in Seq(Pairs) /\ Counted(meant)
      /\ text = <<>> => meant = <<>>
      /\ text # <<>> => Read(text, meant)
  BY DEF FwdInv, AddPair
<1>2. PICK name \in Names, v \in FwdValues, semi \in Semis :
        /\ text' = IF text = <<>> THEN <<name, "eq">> \o v.bytes
              ELSE text \o semi \o <<name, "eq">> \o v.bytes
        /\ meant' = Append(meant, [name |-> name, node |-> v.node])
  BY Zenon DEF AddPair, Names, Semis
<1> DEFINE head == <<name, "eq">>
<1> DEFINE p == [name |-> name, node |-> v.node]
<1>3. head \in Groups /\ v.bytes \in Groups /\ Len(head) = 2
  BY ValueOpens DEF Groups, Group, TokenGroups, Names
<1>4. semi \in Groups
  <2>1. CASE semi = <<"semi">>
    BY <2>1 DEF Groups, Group
  <2>2. CASE semi = <<"semi", "semi">>
    BY <2>2 DEF Groups, Group
  <2> QED BY <2>1, <2>2 DEF Semis
<1> HIDE DEF head
<1>5. p \in Pairs
  BY DEF Pairs, FwdValues, NodeKinds
<1>6. meant' \in Seq(Pairs)
  BY <1>1, <1>2, <1>5, AddedPair
<1>7. Counted(meant)'
  <2>1. CASE Clean(meant)
    <3>1. Counted(Append(meant, p))
      BY <1>1, <2>1, RefusedPair
    <3> QED BY <1>2, <3>1 DEF Counted
  <2>2. CASE ~Clean(meant)
    <3>1. ~Clean(Append(meant, p))
      BY <1>1, <1>5, <2>2, AddedPair
    <3> QED BY <1>2, <3>1 DEF Counted
  <2> QED BY <2>1, <2>2
<1>8. text' \in Groups /\ text' # <<>> /\ Read(text', meant')
  <2>1. CASE text = <<>>
    <3>1. text' = head \o v.bytes /\ meant' = Append(<<>>, p)
      BY <1>1, <1>2, <2>1 DEF head
    <3>2. head \o v.bytes \in Groups
      BY <1>3 DEF Groups
    <3>3. head \o v.bytes # <<>>
      <4>1. LenOfJoin(head, v.bytes)
        BY <1>3, Join
      <4>2. Len(head \o v.bytes) # 0
        BY <1>3, <4>1 DEF LenOfJoin
      <4> QED BY <4>2
    <3> QED BY <3>1, <3>2, <3>3, FirstPair DEF head
  <2>2. CASE text # <<>>
    <3>1. text' = text \o semi \o head \o v.bytes /\ meant' = Append(meant, p)
      BY <1>2, <2>2 DEF head
    <3>2. text \o semi \o head \o v.bytes \in Groups /\ text \o semi \o head \o v.bytes # <<>>
      <4> DEFINE a == text \o semi
      <4> DEFINE b == a \o head
      <4> DEFINE c == b \o v.bytes
      <4>1. a \in Groups
        BY <1>1, <1>4 DEF Groups
      <4> HIDE DEF a
      <4>2. b \in Groups /\ Len(b) >= 2
        <5>1. b \in Groups /\ LenOfJoin(a, head)
          BY <1>3, <4>1, Join
        <5> QED BY <1>3, <5>1 DEF LenOfJoin
      <4> HIDE DEF b
      <4>3. c \in Groups /\ Len(c) >= 2
        <5>1. c \in Groups /\ LenOfJoin(b, v.bytes)
          BY <1>3, <4>2, Join
        <5> QED BY <4>2, <5>1 DEF LenOfJoin
      <4> HIDE DEF c
      <4>4. c # <<>>
        BY <4>3 DEF Groups
      <4> QED BY <4>3, <4>4 DEF a, b, c
    <3>3. Read(text \o semi \o head \o v.bytes, Append(meant, p))
      BY <1>1, <2>2, NextPair DEF head
    <3> QED BY <3>1, <3>2, <3>3
  <2> QED BY <2>1, <2>2
<1> QED BY <1>6, <1>7, <1>8 DEF FwdInv, Read, Counted

LEMMA FwdIsKept ==
  ASSUME FwdInv, [ScanNext]_scanVars PROVE FwdInv'
<1>1. CASE AddPair
  BY <1>1, PairStep
<1>2. CASE kind # "forwarded" /\ kind' = kind
  BY <1>2 DEF FwdInv
<1>3. CASE UNCHANGED scanVars
  BY <1>3 DEF FwdInv, scanVars, Counted, Read, Clean, SeenOf
<1>4. CASE AddElement \/ AddEmpty
  BY <1>2, <1>4 DEF AddElement, AddEmpty, Syntaxes
<1>5. CASE AddScript \/ AddOther
  BY <1>2, <1>5 DEF AddScript, AddOther, AddToPage
<1>6. CASE CutShort
  BY <1>2, <1>6 DEF CutShort
<1>7. CASE AddToBody
  BY <1>2, <1>7 DEF AddToBody
<1>8. CASE Written
  BY <1>3, <1>8 DEF Written
<1> QED BY <1>1, <1>3, <1>4, <1>5, <1>6, <1>7, <1>8 DEF ScanNext

LEMMA FwdSays ==
  ASSUME FwdInv PROVE ForwardedNamesItsNode
<1> SUFFICES ASSUME kind = "forwarded"
             PROVE  ParseForwardedElement(text) =
                      IF Clean(meant) THEN [valid |-> TRUE, forNode |-> NodeOf(meant)] ELSE Invalid
  <2>1. kind = "forwarded" => meant \in Seq(Pairs)
    BY DEF FwdInv
  <2>2. kind = "forwarded" => (Clean(meant) <=> ~\E i \in DOMAIN meant : WrongPair(meant, i))
    BY <2>1 DEF Clean
  <2> QED BY <2>2, Zenon DEF ForwardedNamesItsNode, WrongPair, NodeOf
<1>1. text \in Groups /\ meant \in Seq(Pairs) /\ (text = <<>> => meant = <<>>)
        /\ (text # <<>> => Read(text, meant))
  BY DEF FwdInv
<1>2. PICK f : /\ TraceOf(f, text)
               /\ ParseForwardedElement(text) =
                    IF f[Len(text)].valid
                      THEN [valid |-> TRUE, forNode |-> f[Len(text)].forNode] ELSE Invalid
  BY <1>1, ParseTrace
<1>3. PICK k \in 0..Len(text) : Holds(f[k], meant, <<>>)
  <2>1. <<>> \in Tails /\ text \o <<>> = text
    BY <1>1 DEF Tails, Groups, OpensFirst
  <2>2. CASE text # <<>>
    <3>1. \E k \in 0..Len(text) : \A g : TraceOf(g, text \o <<>>) => Holds(g[k], meant, <<>>)
      BY <1>1, <2>1, <2>2 DEF Read
    <3> QED BY <1>2, <2>1, <3>1
  <2>3. CASE text = <<>>
    <3>1. Clean(<<>>) /\ SeenOf(<<>>) = {} /\ NodeOf(<<>>) = "none"
      BY DEF Clean, SeenOf, NodeOf
    <3>2. f[0] = At(<<>>, {}, "none") /\ 0 \in 0..Len(text)
      BY <1>2, <2>3 DEF TraceOf
    <3> QED BY <1>1, <2>3, <3>1, <3>2 DEF Holds
  <2> QED BY <2>2, <2>3
<1>4. f[k].rest = <<>> \/ ~f[k].valid
  BY <1>3 DEF Holds, At
<1>5. f[Len(text)] = f[k]
  <2>1. Len(text) \in k..Len(text)
    BY <1>1 DEF Groups
  <2> QED BY <1>1, <1>2, <1>4, <2>1, ReadNoMore
<1>6. CASE Clean(meant)
  <2>1. f[k].valid /\ f[k].forNode = NodeOf(meant)
    BY <1>3, <1>6 DEF Holds, At
  <2> QED BY <1>2, <1>5, <1>6, <2>1
<1>7. CASE ~Clean(meant)
  BY <1>2, <1>3, <1>5, <1>7 DEF Holds
<1> QED BY <1>6, <1>7

(***************************************************************************)
(* A Forwarded element names the node of its one "for" pair, however the   *)
(* values are written and however many pairs there are, and names nothing  *)
(* when a pair is broken, repeated, no node, or one too many               *)
(* (parseForwardedElement, src/clientip.go:197).                           *)
(***************************************************************************)
THEOREM ForwardedIsRead == ScanSpec => []ForwardedNamesItsNode
<1>1. ScanInit => FwdInv
  <2> SUFFICES ASSUME ScanInit PROVE FwdInv
    OBVIOUS
  <2>1. text = <<>> /\ meant = <<>> /\ <<>> \in Groups /\ <<>> \in Seq(Pairs)
    BY DEF ScanInit, Groups
  <2>2. SeenOf(<<>>) = {}
    BY DEF SeenOf
  <2>3. Counted(<<>>)
    BY <2>2, FS_EmptySet DEF Counted
  <2> QED BY <2>1, <2>3 DEF FwdInv
<1>2. FwdInv /\ [ScanNext]_scanVars => FwdInv'
  BY FwdIsKept
<1>3. FwdInv => ForwardedNamesItsNode
  BY FwdSays
<1> QED BY <1>1, <1>2, <1>3, PTL DEF ScanSpec

(***************************************************************************)
(* Pages.                                                                  *)
(***************************************************************************)
PageBytes == {"open", "close", "src", "gt", "slash", "space", "eq", "dq", "sq", "x"}
Pages == Seq(PageBytes)
Quotes == {"none", "dq", "sq"}

LEMMA FirstIs ==
  ASSUME NEW S, S \subseteq Nat, NEW m \in S, \A j \in S : m <= j
  PROVE  First(S) = m
<1>1. S # {} /\ m \in Nat
  OBVIOUS
<1>2. Min(S) \in S /\ \A j \in S : Min(S) <= j
  BY DEF Min
<1>3. Min(S) <= m /\ m <= Min(S) /\ Min(S) \in Nat
  BY <1>2
<1>4. Min(S) = m
  BY <1>1, <1>3
<1> QED BY <1>1, <1>4 DEF First

(* One byte, of the bytes the attributes hold.                             *)
LEMMA QuotesByByte ==
  /\ \A q : /\ QuoteAfter(q, "space") = q /\ QuoteAfter(q, "x") = q /\ QuoteAfter(q, "eq") = q
            /\ QuoteAfter(q, "gt") = q /\ QuoteAfter(q, "src") = q /\ QuoteAfter(q, "close") = q
  /\ QuoteAfter("none", "dq") = "dq" /\ QuoteAfter("none", "sq") = "sq"
  /\ QuoteAfter("dq", "dq") = "none" /\ QuoteAfter("sq", "sq") = "none"
  /\ QuoteAfter("dq", "sq") = "dq" /\ QuoteAfter("sq", "dq") = "sq"
<1>1. ASSUME NEW q
      PROVE  /\ QuoteAfter(q, "space") = q /\ QuoteAfter(q, "x") = q /\ QuoteAfter(q, "eq") = q
             /\ QuoteAfter(q, "gt") = q /\ QuoteAfter(q, "src") = q /\ QuoteAfter(q, "close") = q
  BY DEF QuoteAfter
<1>2. /\ QuoteAfter("none", "dq") = "dq" /\ QuoteAfter("none", "sq") = "sq"
      /\ QuoteAfter("dq", "dq") = "none" /\ QuoteAfter("sq", "sq") = "none"
      /\ QuoteAfter("dq", "sq") = "dq" /\ QuoteAfter("sq", "dq") = "sq"
  BY DEF QuoteAfter
<1> QED BY <1>1, <1>2

(* The quote open after each byte.                                         *)
QuoteSteps(f, bytes) ==
  f[0] = "none" /\ \A i \in 1..Len(bytes) : f[i] = QuoteAfter(f[i - 1], bytes[i])

LEMMA QuotesExist ==
  ASSUME NEW bytes \in Pages PROVE QuoteSteps(OpenQuote(bytes), bytes)
<1> DEFINE N == Len(bytes)
<1> DEFINE F == [n \in 1..N |-> [q \in Quotes |-> QuoteAfter(q, bytes[n])]]
<1> DEFINE Body(f) == [n \in 0..N |-> IF n = 0 THEN "none" ELSE QuoteAfter(f[n - 1], bytes[n])]
<1>1. N \in Nat /\ \A n \in 1..N : bytes[n] \in PageBytes /\ n - 1 \in 0..N
  BY DEF Pages
<1>2. "none" \in Quotes
  BY DEF Quotes
<1>3. F \in Steps(Quotes, N)
  <2>1. \A n \in 1..N, q \in Quotes : QuoteAfter(q, bytes[n]) \in Quotes
    BY DEF QuoteAfter, Quotes
  <2> QED BY <2>1 DEF Steps
<1>4. PICK g \in Traces(Quotes, N) : Follows(g, "none", N, F)
  <2> HIDE DEF N, F
  <2> QED BY <1>1, <1>2, <1>3, RecursionExists
<1>5. g = Body(g)
  <2>1. \A n \in 1..N : g[n] = QuoteAfter(g[n - 1], bytes[n])
    BY <1>1, <1>4 DEF Traces, Follows
  <2> QED BY <1>1, <1>4, <2>1 DEF Traces, Follows
<1> DEFINE h == CHOOSE f : f = Body(f)
<1>6. h = Body(h)
  BY <1>5
<1>7. OpenQuote(bytes) = h
  BY DEF OpenQuote
<1> HIDE DEF h
<1>8. QuoteSteps(h, bytes)
  BY <1>1, <1>6 DEF QuoteSteps
<1> QED BY <1>7, <1>8

(* Attributes as the two scanners of a tag read them: no ">" of theirs ends*)
(* the tag, and they declare a source or not.                              *)
Attrs == Attributes \cup External
GtInQuotes(attrs) ==
  \A f : QuoteSteps(f, attrs) =>
    f[Len(attrs)] = "none" /\ \A i \in 1..Len(attrs) : attrs[i] = "gt" => f[i - 1] # "none"

LEMMA QuotesOfAttrs == \A attrs \in Attrs : GtInQuotes(attrs) /\ attrs \in Pages
<1>1. GtInQuotes(<<>>) /\ <<>> \in Pages
  BY DEF GtInQuotes, QuoteSteps, Pages
<1>2. ASSUME NEW a1, NEW a2, NEW a3, NEW a4, NEW a5,
             {a1, a2, a3, a4, a5} \subseteq {"space", "src", "x", "eq"}
      PROVE  GtInQuotes(<<a1, a2, a3, a4, a5>>)
  <2> SUFFICES ASSUME NEW f, QuoteSteps(f, <<a1, a2, a3, a4, a5>>) PROVE f[5] = "none"
    BY <1>2 DEF GtInQuotes
  <2>1. /\ f[0] = "none" /\ f[1] = QuoteAfter(f[0], a1) /\ f[2] = QuoteAfter(f[1], a2)
        /\ f[3] = QuoteAfter(f[2], a3) /\ f[4] = QuoteAfter(f[3], a4) /\ f[5] = QuoteAfter(f[4], a5)
    BY DEF QuoteSteps
  <2> QED BY <1>2, <2>1, QuotesByByte
<1>3. /\ GtInQuotes(<<"space", "src", "x", "eq", "x">>)
            /\ <<"space", "src", "x", "eq", "x">> \in Pages
  BY <1>2 DEF Pages, PageBytes
<1>4. /\ GtInQuotes(<<"space", "x", "src", "eq", "x">>)
            /\ <<"space", "x", "src", "eq", "x">> \in Pages
  BY <1>2 DEF Pages, PageBytes
<1>5. /\ GtInQuotes(<<"space", "src", "space", "eq", "x">>)
            /\ <<"space", "src", "space", "eq", "x">> \in Pages
  BY <1>2 DEF Pages, PageBytes
<1>6. /\ GtInQuotes(<<"space", "x", "eq", "sq", "dq", "sq">>)
      /\ <<"space", "x", "eq", "sq", "dq", "sq">> \in Pages
  <2> DEFINE a == <<"space", "x", "eq", "sq", "dq", "sq">>
  <2>1. ASSUME NEW f, QuoteSteps(f, a) PROVE f[6] = "none"
    <3>1. /\ f[0] = "none" /\ f[1] = QuoteAfter(f[0], "space") /\ f[2] = QuoteAfter(f[1], "x")
          /\ f[3] = QuoteAfter(f[2], "eq") /\ f[4] = QuoteAfter(f[3], "sq")
          /\ f[5] = QuoteAfter(f[4], "dq") /\ f[6] = QuoteAfter(f[5], "sq")
      BY <2>1 DEF QuoteSteps
    <3> QED BY <3>1, QuotesByByte
  <2> QED BY <2>1 DEF GtInQuotes, Pages, PageBytes
<1>7. /\ GtInQuotes(<<"space", "x", "eq", "dq", "gt", "dq", "space", "src", "eq", "x">>)
      /\ <<"space", "x", "eq", "dq", "gt", "dq", "space", "src", "eq", "x">> \in Pages
  <2> DEFINE a == <<"space", "x", "eq", "dq", "gt", "dq", "space", "src", "eq", "x">>
  <2>1. ASSUME NEW f, QuoteSteps(f, a) PROVE f[10] = "none" /\ f[4] = "dq"
    <3>1. /\ f[0] = "none" /\ f[1] = QuoteAfter(f[0], "space") /\ f[2] = QuoteAfter(f[1], "x")
          /\ f[3] = QuoteAfter(f[2], "eq") /\ f[4] = QuoteAfter(f[3], "dq")
          /\ f[5] = QuoteAfter(f[4], "gt") /\ f[6] = QuoteAfter(f[5], "dq")
          /\ f[7] = QuoteAfter(f[6], "space") /\ f[8] = QuoteAfter(f[7], "src")
          /\ f[9] = QuoteAfter(f[8], "eq") /\ f[10] = QuoteAfter(f[9], "x")
      BY <2>1 DEF QuoteSteps
    <3> QED BY <3>1, QuotesByByte
  <2>2. \A i \in 1..10 : a[i] = "gt" => i = 5
    OBVIOUS
  <2>3. Len(a) = 10 /\ a \in Pages
    BY DEF Pages, PageBytes
  <2> QED BY <2>1, <2>2, <2>3 DEF GtInQuotes
<1>8. /\ GtInQuotes(<<"space", "x", "eq", "dq", "sq", "gt", "space", "src", "eq", "dq">>)
      /\ <<"space", "x", "eq", "dq", "sq", "gt", "space", "src", "eq", "dq">> \in Pages
  <2> DEFINE a == <<"space", "x", "eq", "dq", "sq", "gt", "space", "src", "eq", "dq">>
  <2>1. ASSUME NEW f, QuoteSteps(f, a) PROVE f[10] = "none" /\ f[5] = "dq"
    <3>1. /\ f[0] = "none" /\ f[1] = QuoteAfter(f[0], "space") /\ f[2] = QuoteAfter(f[1], "x")
          /\ f[3] = QuoteAfter(f[2], "eq") /\ f[4] = QuoteAfter(f[3], "dq")
          /\ f[5] = QuoteAfter(f[4], "sq") /\ f[6] = QuoteAfter(f[5], "gt")
          /\ f[7] = QuoteAfter(f[6], "space") /\ f[8] = QuoteAfter(f[7], "src")
          /\ f[9] = QuoteAfter(f[8], "eq") /\ f[10] = QuoteAfter(f[9], "dq")
      BY <2>1 DEF QuoteSteps
    <3> QED BY <3>1, QuotesByByte
  <2>2. \A i \in 1..10 : a[i] = "gt" => i = 6
    OBVIOUS
  <2>3. Len(a) = 10 /\ a \in Pages
    BY DEF Pages, PageBytes
  <2> QED BY <2>1, <2>2, <2>3 DEF GtInQuotes
<1> QED BY <1>1, <1>3, <1>4, <1>5, <1>6, <1>7, <1>8, Zenon DEF Attrs, Attributes, External

(* A name where one can stand, then white space and "=".                   *)
NamedAt(attrs, i) ==
  /\ attrs[i] = "src" /\ OpenQuote(attrs)[i - 1] = "none"
  /\ i > 1 => attrs[i - 1] = "space"
  /\ \E j \in (i + 1)..Len(attrs) :
       attrs[j] = "eq" /\ \A k \in (i + 1)..(j - 1) : attrs[k] = "space"

LEMMA SourceOfAttrs == \A attrs \in Attrs : HasSrcAttr(attrs) <=> attrs \in External
<1>1. \A attrs : HasSrcAttr(attrs) <=> \E i \in DOMAIN attrs : NamedAt(attrs, i)
  BY DEF HasSrcAttr, NamedAt
<1>2. ~HasSrcAttr(<<>>)
  BY <1>1
<1>3. ~HasSrcAttr(<<"space", "src", "x", "eq", "x">>)
  <2> DEFINE a == <<"space", "src", "x", "eq", "x">>
  <2> SUFFICES ASSUME NEW i \in 1..5, NamedAt(a, i) PROVE FALSE
    BY <1>1
  <2>1. i = 2 /\ \E j \in 3..5 : a[j] = "eq" /\ \A k \in 3..(j - 1) : a[k] = "space"
    BY DEF NamedAt
  <2>2. PICK j \in 3..5 : a[j] = "eq" /\ \A k \in 3..(j - 1) : a[k] = "space"
    BY <2>1
  <2>3. j = 4 /\ 3 \in 3..(j - 1)
    BY <2>2
  <2> QED BY <2>2, <2>3
<1>4. ~HasSrcAttr(<<"space", "x", "src", "eq", "x">>)
  <2> DEFINE a == <<"space", "x", "src", "eq", "x">>
  <2> SUFFICES ASSUME NEW i \in 1..5, NamedAt(a, i) PROVE FALSE
    BY <1>1
  <2> QED BY DEF NamedAt
<1>5. ~HasSrcAttr(<<"space", "x", "eq", "sq", "dq", "sq">>)
  <2> DEFINE a == <<"space", "x", "eq", "sq", "dq", "sq">>
  <2> SUFFICES ASSUME NEW i \in 1..6, NamedAt(a, i) PROVE FALSE
    BY <1>1
  <2> QED BY DEF NamedAt
<1>6. ~HasSrcAttr(<<"space", "x", "eq", "dq", "sq", "gt", "space", "src", "eq", "dq">>)
  <2> DEFINE a == <<"space", "x", "eq", "dq", "sq", "gt", "space", "src", "eq", "dq">>
  <2> SUFFICES ASSUME NEW i \in 1..10, NamedAt(a, i) PROVE FALSE
    BY <1>1
  <2> DEFINE f == OpenQuote(a)
  <2>1. a \in Pages
    BY DEF Pages, PageBytes
  <2>2. QuoteSteps(f, a)
    BY <2>1, QuotesExist
  <2>3. i = 8 /\ f[7] = "none"
    <3>1. a[i] = "src" /\ f[i - 1] = "none"
      BY DEF NamedAt
    <3> HIDE DEF f
    <3>2. i = 8
      BY <3>1
    <3> QED BY <3>1, <3>2
  <2> HIDE DEF f
  <2>4. /\ f[0] = "none" /\ f[1] = QuoteAfter(f[0], "space") /\ f[2] = QuoteAfter(f[1], "x")
        /\ f[3] = QuoteAfter(f[2], "eq") /\ f[4] = QuoteAfter(f[3], "dq")
        /\ f[5] = QuoteAfter(f[4], "sq") /\ f[6] = QuoteAfter(f[5], "gt")
        /\ f[7] = QuoteAfter(f[6], "space")
    BY <2>2 DEF QuoteSteps
  <2>5. f[7] = "dq"
    BY <2>4, QuotesByByte
  <2> QED BY <2>3, <2>5
<1>7. HasSrcAttr(<<"space", "src", "space", "eq", "x">>)
  <2> DEFINE a == <<"space", "src", "space", "eq", "x">>
  <2> DEFINE f == OpenQuote(a)
  <2>1. a \in Pages
    BY DEF Pages, PageBytes
  <2>2. QuoteSteps(f, a)
    BY <2>1, QuotesExist
  <2> HIDE DEF f
  <2>3. f[0] = "none" /\ f[1] = QuoteAfter(f[0], "space")
    BY <2>2 DEF QuoteSteps
  <2>4. f[1] = "none"
    BY <2>3, QuotesByByte
  <2>5. 4 \in 3..5 /\ a[4] = "eq" /\ \A k \in 3..(4 - 1) : a[k] = "space"
    OBVIOUS
  <2>6. Len(a) = 5 /\ 2 \in DOMAIN a /\ a[2] = "src" /\ a[1] = "space"
    OBVIOUS
  <2>7. NamedAt(a, 2)
    BY <2>4, <2>5, <2>6 DEF NamedAt, f
  <2> QED BY <1>1, <2>6, <2>7
<1>8. HasSrcAttr(<<"space", "x", "eq", "dq", "gt", "dq", "space", "src", "eq", "x">>)
  <2> DEFINE a == <<"space", "x", "eq", "dq", "gt", "dq", "space", "src", "eq", "x">>
  <2> DEFINE f == OpenQuote(a)
  <2>1. a \in Pages
    BY DEF Pages, PageBytes
  <2>2. QuoteSteps(f, a)
    BY <2>1, QuotesExist
  <2> HIDE DEF f
  <2>3. /\ f[0] = "none" /\ f[1] = QuoteAfter(f[0], "space") /\ f[2] = QuoteAfter(f[1], "x")
        /\ f[3] = QuoteAfter(f[2], "eq") /\ f[4] = QuoteAfter(f[3], "dq")
        /\ f[5] = QuoteAfter(f[4], "gt") /\ f[6] = QuoteAfter(f[5], "dq")
        /\ f[7] = QuoteAfter(f[6], "space")
    BY <2>2 DEF QuoteSteps
  <2>4. f[7] = "none"
    BY <2>3, QuotesByByte
  <2>5. 9 \in 9..10 /\ a[9] = "eq" /\ \A k \in 9..(9 - 1) : a[k] = "space"
    OBVIOUS
  <2>6. Len(a) = 10 /\ 8 \in DOMAIN a /\ a[8] = "src" /\ a[7] = "space"
    OBVIOUS
  <2>7. NamedAt(a, 8)
    BY <2>4, <2>5, <2>6 DEF NamedAt, f
  <2> QED BY <1>1, <2>6, <2>7
<1>9. \A attrs \in Attributes : attrs \notin External
  BY DEF Attributes, External
<1> QED BY <1>2, <1>3, <1>4, <1>5, <1>6, <1>7, <1>8, <1>9, Zenon DEF Attrs, Attributes, External

(* The bytes of w stand after the first n bytes of a page.                 *)
Located(page, n, w) ==
  n \in Nat /\ Len(w) \in Nat /\ n + Len(w) <= Len(page) /\ \A i \in 1..Len(w) : page[n + i] = w[i]

LEMMA PageParts ==
  ASSUME NEW a \in Pages, NEW b \in Pages
  PROVE  /\ a \o b \in Pages /\ Len(a \o b) = Len(a) + Len(b) /\ Len(a) \in Nat /\ Len(b) \in Nat
         /\ \A i \in 1..Len(a) : (a \o b)[i] = a[i]
         /\ \A i \in 1..Len(b) : (a \o b)[Len(a) + i] = b[i]
BY DEF Pages

Spans(a, b) == a \o b \in Pages /\ Len(a \o b) = Len(a) + Len(b)
LEMMA Span == ASSUME NEW a \in Pages, NEW b \in Pages PROVE Spans(a, b)
BY PageParts DEF Spans

LEMMA LocatedParts ==
  ASSUME NEW page \in Pages, NEW n, NEW a \in Pages, NEW b \in Pages, Located(page, n, a \o b)
  PROVE  Located(page, n, a) /\ Located(page, n + Len(a), b)
<1> DEFINE c == a \o b
<1> DEFINE na == Len(a)
<1> DEFINE nb == Len(b)
<1> DEFINE nc == Len(c)
<1> DEFINE np == Len(page)
<1>1. /\ nc = na + nb /\ na \in Nat /\ nb \in Nat /\ np \in Nat
      /\ \A i \in 1..na : c[i] = a[i]
      /\ \A i \in 1..nb : c[na + i] = b[i]
  BY PageParts DEF Pages
<1>2. n \in Nat /\ n + nc <= np /\ \A i \in 1..nc : page[n + i] = c[i]
  BY DEF Located
<1> HIDE DEF na, nb, nc, np, c
<1>3. n + na \in Nat /\ n + na <= np /\ (n + na) + nb <= np
  BY <1>1, <1>2
<1>4. \A i \in 1..na : page[n + i] = a[i]
  BY <1>1, <1>2
<1>5. \A i \in 1..nb : page[(n + na) + i] = b[i]
  <2> TAKE i \in 1..nb
  <2>1. na + i \in 1..nc /\ n + (na + i) = (n + na) + i
    BY <1>1, <1>2
  <2> QED BY <1>1, <1>2, <2>1
<1>6. Located(page, n, a)
  BY <1>1, <1>2, <1>3, <1>4, Zenon DEF Located, na, np
<1>7. Located(page, n + Len(a), b)
  BY <1>1, <1>2, <1>3, <1>5, Zenon DEF Located, na, nb, np
<1> QED BY <1>6, <1>7

LEMMA LocatedSpan ==
  ASSUME NEW page \in Pages, NEW n, NEW w \in Pages, Located(page, n, w)
  PROVE  SubSeq(page, n + 1, n + Len(w)) = w
<1> DEFINE s == SubSeq(page, n + 1, n + Len(w))
<1>1. n \in Nat /\ Len(w) \in Nat /\ n + Len(w) <= Len(page)
        /\ \A i \in 1..Len(w) : page[n + i] = w[i]
  BY DEF Located
<1>2. s \in Pages /\ Len(s) = Len(w) /\ \A i \in 1..Len(w) : s[i] = page[n + i]
  BY <1>1 DEF Pages
<1> HIDE DEF s
<1>3. s = w
  <2>1. \A i \in 1..Len(s) : s[i] = w[i]
    BY <1>1, <1>2
  <2> QED BY <1>2, <2>1, SeqEqual DEF Pages
<1> QED BY <1>3 DEF s

(* No element is opened in the bytes of a page from p to n.                *)
Clear(page, p, n) ==
  p \in 1..(n + 1) /\ \A i \in p..n : page[i] = "open" => i < n /\ ~Boundary(page[i + 1])

LEMMA OpenFound ==
  ASSUME NEW page \in Pages, NEW n \in Nat, NEW p, Clear(page, p, n), n < Len(page),
         page[n + 1] = "open", n + 1 = Len(page) \/ Boundary(page[n + 2])
  PROVE  FindElementOpen(page, p) = n + 1
<1> DEFINE S == {i \in p..Len(page) : page[i] = "open" /\ (i = Len(page) \/ Boundary(page[i + 1]))}
<1>1. Len(page) \in Nat /\ p \in 1..(n + 1) /\ S \subseteq Nat
  BY DEF Pages, Clear
<1>2. n + 1 \in S
  BY <1>1
<1>3. ASSUME NEW j \in S PROVE n + 1 <= j
  <2> SUFFICES ASSUME j \in p..n PROVE FALSE
    BY <1>1
  <2>1. j < n /\ ~Boundary(page[j + 1])
    BY DEF Clear
  <2> QED BY <1>1, <2>1
<1>4. FindElementOpen(page, p) = First(S)
  BY DEF FindElementOpen
<1> HIDE DEF S
<1> QED BY <1>1, <1>2, <1>3, <1>4, FirstIs

LEMMA NoOpenFound ==
  ASSUME NEW page \in Pages, NEW p, Clear(page, p, Len(page))
  PROVE  FindElementOpen(page, p) = 0
<1> DEFINE S == {i \in p..Len(page) : page[i] = "open" /\ (i = Len(page) \/ Boundary(page[i + 1]))}
<1>1. S = {}
  <2> SUFFICES ASSUME NEW i \in S PROVE FALSE
    OBVIOUS
  <2>1. i < Len(page) /\ ~Boundary(page[i + 1]) /\ Len(page) \in Nat
    BY DEF Clear, Pages
  <2> QED BY <2>1
<1>2. FindElementOpen(page, p) = First(S)
  BY DEF FindElementOpen
<1> QED BY <1>1, <1>2 DEF First

LEMMA TagEnds ==
  ASSUME NEW page \in Pages, NEW n, NEW attrs \in Attrs, Located(page, n, attrs),
         n + Len(attrs) < Len(page), page[n + Len(attrs) + 1] = "gt"
  PROVE  OpenTagEnd(page, n + 1) = n + Len(attrs) + 1
<1> DEFINE b == SubSeq(page, n + 1, Len(page))
<1> DEFINE f == OpenQuote(b)
<1> DEFINE L == Len(attrs)
<1> DEFINE N == Len(page)
<1> DEFINE S == {i \in (n + 1)..N : page[i] = "gt" /\ f[i - (n + 1)] = "none"}
<1>1. /\ n \in Nat /\ L \in Nat /\ N \in Nat /\ n + L < N
      /\ \A i \in 1..L : page[n + i] = attrs[i]
  BY DEF Located, Pages
<1>2. b \in Pages /\ Len(b) = N - n /\ \A i \in 1..(N - n) : b[i] = page[n + i]
  BY <1>1 DEF Pages
<1>3. QuoteSteps(f, b)
  BY <1>2, QuotesExist
<1>4. OpenTagEnd(page, n + 1) = First(S)
  BY DEF OpenTagEnd
<1> HIDE DEF f, b
<1>5. QuoteSteps(f, attrs)
  <2>1. ASSUME NEW i \in 1..L PROVE f[i] = QuoteAfter(f[i - 1], attrs[i])
    <3>1. i \in 1..(N - n)
      BY <1>1
    <3> QED BY <1>1, <1>2, <1>3, <3>1 DEF QuoteSteps
  <2> QED BY <1>3, <2>1 DEF QuoteSteps
<1>6. f[L] = "none" /\ \A i \in 1..L : attrs[i] = "gt" => f[i - 1] # "none"
  BY <1>5, QuotesOfAttrs DEF GtInQuotes
<1> HIDE DEF L, N
<1>7. n + L + 1 \in S /\ S \subseteq Nat
  <2>1. n + L + 1 \in (n + 1)..N /\ n + L + 1 - (n + 1) = L
    BY <1>1
  <2>2. page[n + L + 1] = "gt"
    BY DEF L
  <2> QED BY <1>1, <1>6, <2>1, <2>2
<1>8. ASSUME NEW j \in S PROVE n + L + 1 <= j
  <2> SUFFICES ASSUME j < n + L + 1 PROVE FALSE
    BY <1>1
  <2> DEFINE i == j - n
  <2>1. i \in 1..L /\ n + i = j /\ j - (n + 1) = i - 1
    BY <1>1
  <2> QED BY <1>1, <1>6, <2>1
<1> HIDE DEF S
<1> QED BY <1>4, <1>7, <1>8, FirstIs DEF L

LEMMA ContentBytes ==
  \A c \in Contents :
    c \in Pages /\ \A i \in 1..Len(c) : c[i] = "close" => i < Len(c) /\ ~Boundary(c[i + 1])
<1>1. \A i \in 1..3 : <<"x", "gt", "dq">>[i] # "close"
  OBVIOUS
<1>2. \A i \in 1..2 : <<"open", "gt">>[i] # "close"
  OBVIOUS
<1>3. \A i \in 1..3 : <<"close", "x", "gt">>[i] = "close" => i = 1
  OBVIOUS
<1>4. /\ <<>> \in Pages /\ <<"x", "gt", "dq">> \in Pages /\ <<"open", "gt">> \in Pages
      /\ <<"close", "x", "gt">> \in Pages
      /\ Len(<<>>) = 0 /\ Len(<<"x", "gt", "dq">>) = 3 /\ Len(<<"open", "gt">>) = 2
      /\ Len(<<"close", "x", "gt">>) = 3 /\ <<"close", "x", "gt">>[2] = "x" /\ ~Boundary("x")
  BY DEF Pages, PageBytes, Boundary
<1> DEFINE Good(c) == c \in Pages /\ \A i \in 1..Len(c) : c[i] = "close" => i < Len(c)
             /\ ~Boundary(c[i + 1])
<1>5. Good(<<>>)
  BY <1>4
<1>6. Good(<<"x", "gt", "dq">>)
  BY <1>1, <1>4
<1>7. Good(<<"open", "gt">>)
  BY <1>2, <1>4
<1>8. Good(<<"close", "x", "gt">>)
  BY <1>3, <1>4
<1> QED BY <1>5, <1>6, <1>7, <1>8, Zenon DEF Contents

LEMMA CloseFound ==
  ASSUME NEW page \in Pages, NEW n, NEW c \in Contents, Located(page, n, c),
         n + Len(c) + 2 <= Len(page), page[n + Len(c) + 1] = "close", Boundary(page[n + Len(c) + 2])
  PROVE  FindElementClose(page, n + 1) = n + Len(c) + 1
<1> DEFINE L == Len(c)
<1> DEFINE N == Len(page)
<1> DEFINE S == {i \in (n + 1)..(N - 1) : page[i] = "close" /\ Boundary(page[i + 1])}
<1>1. /\ n \in Nat /\ L \in Nat /\ N \in Nat /\ n + L + 2 <= N
      /\ \A i \in 1..L : page[n + i] = c[i]
      /\ page[n + L + 1] = "close" /\ Boundary(page[n + L + 2])
  BY DEF Located, Pages
<1>2. FindElementClose(page, n + 1) = First(S)
  BY DEF FindElementClose
<1>3. \A i \in 1..L : c[i] = "close" => i < L /\ ~Boundary(c[i + 1])
  BY ContentBytes
<1> HIDE DEF L, N
<1>4. n + L + 1 \in S /\ S \subseteq Nat
  <2>1. n + L + 1 \in (n + 1)..(N - 1) /\ (n + L + 1) + 1 = n + L + 2
    BY <1>1
  <2> QED BY <1>1, <2>1
<1>5. ASSUME NEW j \in S PROVE n + L + 1 <= j
  <2> SUFFICES ASSUME j < n + L + 1 PROVE FALSE
    BY <1>1
  <2> DEFINE i == j - n
  <2>1. i \in 1..L /\ n + i = j
    BY <1>1
  <2>2. c[i] = "close"
    BY <1>1, <2>1
  <2>3. i + 1 \in 1..L /\ n + (i + 1) = j + 1 /\ ~Boundary(c[i + 1])
    BY <1>1, <1>3, <2>1, <2>2
  <2>4. page[j + 1] = c[i + 1]
    BY <1>1, <2>3
  <2> QED BY <2>3, <2>4
<1> HIDE DEF S
<1> QED BY <1>2, <1>4, <1>5, FirstIs DEF L

-----------------------------------------------------------------------------
LEMMA AttrsFirst == \A attrs \in Attrs : attrs # <<>> => attrs[1] = "space"
<1>1. /\ <<"space", "src", "x", "eq", "x">>[1] = "space"
            /\ <<"space", "x", "src", "eq", "x">>[1] = "space"
      /\ <<"space", "x", "eq", "dq", "sq", "gt", "space", "src", "eq", "dq">>[1] = "space"
      /\ <<"space", "x", "eq", "sq", "dq", "sq">>[1] = "space"
      /\ <<"space", "src", "space", "eq", "x">>[1] = "space"
      /\ <<"space", "x", "eq", "dq", "gt", "dq", "space", "src", "eq", "x">>[1] = "space"
  OBVIOUS
<1> QED BY <1>1, Zenon DEF Attrs, Attributes, External

ScriptText(attrs, content, end) == <<"open">> \o attrs \o <<"gt">> \o content \o end

(* Where the parts of a whole element stand.                               *)
LEMMA ScriptParts ==
  ASSUME NEW page \in Pages, NEW n, NEW attrs \in Attrs, NEW content \in Contents, NEW end \in EndTags,
         Located(page, n, ScriptText(attrs, content, end))
  PROVE  LET gt == n + 1 + Len(attrs) + 1
             close == gt + Len(content) + 1
         IN /\ n \in Nat /\ Len(attrs) \in Nat /\ Len(content) \in Nat
            /\ n + 1 + Len(attrs) < Len(page) /\ close + 1 <= Len(page)
            /\ page[n + 1] = "open" /\ Boundary(page[n + 2])
            /\ Located(page, n + 1, attrs) /\ page[gt] = "gt" /\ Located(page, gt, content)
            /\ page[close] = "close" /\ Boundary(page[close + 1])
<1> DEFINE o == <<"open">>
<1> DEFINE g == <<"gt">>
<1> DEFINE a1 == o \o attrs
<1> DEFINE a2 == a1 \o g
<1> DEFINE a3 == a2 \o content
<1> DEFINE na == Len(attrs)
<1> DEFINE nc == Len(content)
<1> DEFINE ne == Len(end)
<1> DEFINE np == Len(page)
<1>1. o \in Pages /\ Len(o) = 1 /\ o[1] = "open" /\ g \in Pages /\ Len(g) = 1 /\ g[1] = "gt"
  BY DEF Pages, PageBytes
<1>2. attrs \in Pages /\ content \in Pages
  BY QuotesOfAttrs, ContentBytes
<1>3. end \in Pages /\ Len(end) >= 2 /\ end[1] = "close" /\ Boundary(end[2])
  <2>1. <<"close", "gt">> \in Pages /\ Boundary("gt") /\ <<"close", "space", "gt">> \in Pages
          /\ Boundary("space")
    BY DEF Pages, PageBytes, Boundary
  <2>2. CASE end = <<"close", "gt">>
    BY <2>1, <2>2
  <2>3. CASE end = <<"close", "space", "gt">>
    BY <2>1, <2>3
  <2> QED BY <2>2, <2>3 DEF EndTags
<1>4. ScriptText(attrs, content, end) = a3 \o end
  BY DEF ScriptText
<1> HIDE DEF o, g
<1>5. a1 \in Pages /\ Len(a1) = 1 + na /\ na \in Nat /\ nc \in Nat /\ ne \in Nat /\ np \in Nat
  <2>1. Spans(o, attrs)
    BY <1>1, <1>2, Span
  <2>2. a1 \in Pages /\ Len(a1) = Len(o) + Len(attrs)
    BY <2>1, Zenon DEF Spans
  <2> HIDE DEF a1
  <2> QED BY <1>1, <1>2, <1>3, <2>2 DEF Pages
<1> HIDE DEF a1
<1>6. a2 \in Pages /\ Len(a2) = Len(a1) + 1
  <2>1. Spans(a1, g) /\ Len(g) = 1
    BY <1>1, <1>5, Span
  <2> QED BY <2>1, Zenon DEF Spans
<1> HIDE DEF a2
<1>7. a3 \in Pages /\ Len(a3) = Len(a2) + nc
  BY <1>2, <1>6, PageParts
<1> HIDE DEF a3
<1>8. Located(page, n, a3) /\ Located(page, n + Len(a3), end)
  BY <1>3, <1>4, <1>7, LocatedParts
<1>9. Located(page, n, a2) /\ Located(page, n + Len(a2), content)
  BY <1>2, <1>6, <1>8, LocatedParts DEF a3
<1>10. Located(page, n, a1) /\ Located(page, n + Len(a1), g)
  BY <1>1, <1>5, <1>9, LocatedParts DEF a2
<1>11. Located(page, n, o) /\ Located(page, n + 1, attrs)
  BY <1>1, <1>2, <1>10, LocatedParts DEF a1
<1>12. n \in Nat /\ page[n + 1] = "open"
  BY <1>1, <1>11 DEF Located
<1> DEFINE l1 == Len(a1)
<1> DEFINE l2 == Len(a2)
<1> DEFINE l3 == Len(a3)
<1>13. /\ l1 = 1 + na /\ l2 = l1 + 1 /\ l3 = l2 + nc /\ ne >= 2 /\ Len(g) = 1
       /\ (n + l1) + 1 <= np /\ (n + l3) + ne <= np
       /\ page[(n + l1) + 1] = "gt" /\ page[(n + l3) + 1] = "close" /\ page[(n + l3) + 2] = end[2]
  <2>1. 1 \in 1..Len(g)
    BY <1>1
  <2>2. 1 \in 1..Len(end) /\ 2 \in 1..Len(end)
    BY <1>3, <1>5
  <2>3. page[(n + l1) + 1] = g[1] /\ (n + l1) + Len(g) <= np
    BY <1>10, <2>1 DEF Located
  <2>4. page[(n + l3) + 1] = end[1] /\ page[(n + l3) + 2] = end[2] /\ (n + l3) + ne <= np
    BY <1>8, <2>2 DEF Located
  <2> QED BY <1>1, <1>3, <1>5, <1>6, <1>7, <2>3, <2>4, Zenon
<1>14. Located(page, n + l2, content)
  BY <1>9
<1>15. na > 0 => page[n + 2] = attrs[1]
  <2> SUFFICES ASSUME na > 0 PROVE page[n + 2] = attrs[1]
    OBVIOUS
  <2>1. 1 \in 1..Len(attrs)
    BY <1>5
  <2>2. page[(n + 1) + 1] = attrs[1]
    BY <1>11, <2>1 DEF Located
  <2>3. (n + 1) + 1 = n + 2
    BY <1>12
  <2> QED BY <2>2, <2>3
<1> HIDE DEF l1, l2, l3, na, nc, ne, np
<1>16. /\ n + l1 + 1 = n + 1 + na + 1 /\ n + l2 = n + 1 + na + 1
       /\ (n + l3) + 1 = (n + 1 + na + 1) + nc + 1 /\ (n + l3) + 2 = ((n + 1 + na + 1) + nc + 1) + 1
       /\ n + 1 + na < np /\ ((n + 1 + na + 1) + nc + 1) + 1 <= np
       /\ na = 0 => n + 1 + na + 1 = n + 2
  BY <1>5, <1>12, <1>13
<1>17. Boundary(page[n + 2])
  <2>1. CASE na = 0
    <3>1. page[n + 2] = "gt"
      BY <1>13, <1>16, <2>1
    <3> QED BY <3>1 DEF Boundary
  <2>2. CASE na # 0
    <3>1. attrs # <<>> => attrs[1] = "space"
      BY Zenon, AttrsFirst
    <3>2. na > 0 /\ attrs # <<>>
      BY <1>5, <2>2 DEF na
    <3> QED BY <1>15, <3>1, <3>2 DEF Boundary
  <2> QED BY <2>1, <2>2
<1>18. Boundary(page[(n + l3) + 2])
  BY <1>3, <1>13
<1> QED BY <1>5, <1>11, <1>12, <1>13, <1>14, <1>16, <1>17, <1>18, Zenon DEF na, nc, np

Turn(page, s) == NextElement(page, TRUE, s)
From(p, hashes) == [at |-> p, hashes |-> hashes]

(* One turn of the loop reads one whole element.                           *)
LEMMA ElementTurn ==
  ASSUME NEW page \in Pages, NEW n, NEW p, Clear(page, p, n), NEW m,
         NEW attrs \in Attrs, NEW content \in Contents, NEW end \in EndTags,
         Located(page, n, ScriptText(attrs, content, end))
  PROVE  Turn(page, From(p, m)) =
           From(n + 1 + Len(attrs) + 1 + Len(content) + 2,
                IF attrs \in External THEN m ELSE Append(m, content))
<1> DEFINE na == Len(attrs)
<1> DEFINE nc == Len(content)
<1> DEFINE np == Len(page)
<1> DEFINE gt == n + 1 + na + 1
<1> DEFINE close == gt + nc + 1
<1>1. /\ n \in Nat /\ na \in Nat /\ nc \in Nat
      /\ n + 1 + na < np /\ close + 1 <= np
      /\ page[n + 1] = "open" /\ Boundary(page[n + 2])
      /\ Located(page, n + 1, attrs) /\ page[gt] = "gt" /\ Located(page, gt, content)
      /\ page[close] = "close" /\ Boundary(page[close + 1])
  BY ScriptParts
<1>2. np \in Nat /\ attrs \in Pages /\ content \in Pages
  BY QuotesOfAttrs, ContentBytes DEF Pages
<1> HIDE DEF na, nc, np
<1>3. /\ n < np /\ (n + 1) + na < np /\ (n + 1) + na + 1 = gt
      /\ gt + nc + 2 <= np /\ gt + nc + 1 = close /\ gt + nc + 2 = close + 1
      /\ (n + 1) + na = gt - 1 /\ gt + nc = close - 1 /\ gt # 0 /\ close # 0 /\ n + 1 # 0
      /\ n + 1 + na + 1 + nc + 2 = close + 1
  BY <1>1, <1>2
<1> HIDE DEF close
<1>4. FindElementOpen(page, p) = n + 1
  BY <1>1, <1>3, OpenFound DEF np
<1>5. OpenTagEnd(page, (n + 1) + 1) = gt
  <2>1. (n + 1) + Len(attrs) < Len(page) /\ page[(n + 1) + Len(attrs) + 1] = "gt"
    BY <1>1, <1>3 DEF na, np
  <2>2. OpenTagEnd(page, (n + 1) + 1) = (n + 1) + Len(attrs) + 1
    BY <1>1, <2>1, TagEnds
  <2> QED BY <1>3, <2>2, Zenon DEF na
<1> HIDE DEF gt
<1>6. FindElementClose(page, gt + 1) = close
  <2>1. /\ gt + Len(content) + 2 <= Len(page) /\ page[gt + Len(content) + 1] = "close"
        /\ Boundary(page[gt + Len(content) + 2])
    BY <1>1, <1>3, Zenon DEF nc, np
  <2>2. FindElementClose(page, gt + 1) = gt + Len(content) + 1
    BY <1>1, <2>1, CloseFound
  <2> QED BY <1>3, <2>2, Zenon DEF nc
<1>7. SubSeq(page, (n + 1) + 1, gt - 1) = attrs
  <2>1. SubSeq(page, (n + 1) + 1, (n + 1) + Len(attrs)) = attrs
    BY <1>1, <1>2, LocatedSpan
  <2> QED BY <1>3, <2>1, Zenon DEF na
<1>8. SubSeq(page, gt + 1, close - 1) = content
  <2>1. SubSeq(page, gt + 1, gt + Len(content)) = content
    BY <1>1, <1>2, LocatedSpan
  <2> QED BY <1>3, <2>1, Zenon DEF nc
<1>9. HasSrcAttr(attrs) <=> attrs \in External
  BY SourceOfAttrs
<1>10. From(p, m).at = p /\ From(p, m).hashes = m /\ ~(p > Len(page))
  <2>1. p \in 1..(n + 1)
    BY DEF Clear
  <2> QED BY <1>1, <1>2, <1>3, <2>1 DEF From, np
<1>11. NextElement(page, TRUE, From(p, m)) =
         [at |-> close + 1, hashes |-> IF TRUE /\ HasSrcAttr(attrs) THEN m ELSE Append(m, content)]
  BY <1>3, <1>4, <1>5, <1>6, <1>7, <1>8, <1>10, Zenon DEF NextElement
<1>12. n + 1 + Len(attrs) + 1 + Len(content) + 2 = close + 1
  BY <1>3, Zenon DEF na, nc
<1> QED BY <1>9, <1>11, <1>12, Zenon DEF From, Turn

(* The turn that finds no whole element is the last.                       *)
Ended(page, p, m) == Turn(page, From(p, m)) = From(Len(page) + 1, m)

LEMMA LastTurn ==
  ASSUME NEW page \in Pages, NEW p \in 1..(Len(page) + 1), NEW m,
         LET open == FindElementOpen(page, p)
             gt == OpenTagEnd(page, open + 1)
         IN open = 0 \/ gt = 0 \/ FindElementClose(page, gt + 1) = 0
  PROVE  Ended(page, p, m)
<1>1. From(p, m).at = p /\ From(p, m).hashes = m
  BY DEF From
<1>2. [From(p, m) EXCEPT !.at = Len(page) + 1] = From(Len(page) + 1, m)
  BY DEF From
<1>3. CASE p > Len(page)
  <2>1. p = Len(page) + 1
    BY <1>3 DEF Pages
  <2>2. NextElement(page, TRUE, From(p, m)) = From(p, m)
    BY <1>1, <1>3, Zenon DEF NextElement
  <2> QED BY <2>1, <2>2, Zenon DEF Ended, Turn
<1>4. CASE ~(p > Len(page))
  <2>1. NextElement(page, TRUE, From(p, m)) = [From(p, m) EXCEPT !.at = Len(page) + 1]
    BY <1>1, <1>4, Zenon DEF NextElement
  <2> QED BY <1>2, <2>1, Zenon DEF Ended, Turn
<1> QED BY <1>3, <1>4

LEMMA NoMoreElements ==
  ASSUME NEW page \in Pages, NEW p, Clear(page, p, Len(page)), NEW m
  PROVE  Ended(page, p, m)
<1>1. p \in 1..(Len(page) + 1)
  BY DEF Clear
<1> QED BY <1>1, NoOpenFound, LastTurn

LEMMA NoTagEnd ==
  ASSUME NEW page \in Pages, NEW n \in Nat, n <= Len(page), \A i \in (n + 1)..Len(page) : page[i] # "gt"
  PROVE  OpenTagEnd(page, n + 1) = 0
<1> DEFINE quote == OpenQuote(SubSeq(page, n + 1, Len(page)))
<1>1. {i \in (n + 1)..Len(page) : page[i] = "gt" /\ quote[i - (n + 1)] = "none"} = {}
  OBVIOUS
<1>2. OpenTagEnd(page, n + 1) = First({i \in (n + 1)..Len(page) : page[i] = "gt" /\ quote[i - (n + 1)] = "none"})
  BY DEF OpenTagEnd
<1> QED BY <1>1, <1>2 DEF First

(* An element the page ends in: its tag is not ended, or it is not closed. *)
Unquoted == <<"space", "x", "eq", "dq", "gt", "x", "close", "gt">>
LEMMA OpenQuoteTag ==
  ASSUME NEW page \in Pages, NEW n, Located(page, n, Unquoted), n + 8 = Len(page)
  PROVE  OpenTagEnd(page, n + 1) = 0
<1> DEFINE b == SubSeq(page, n + 1, Len(page))
<1> DEFINE f == OpenQuote(b)
<1> DEFINE S == {i \in (n + 1)..Len(page) : page[i] = "gt" /\ f[i - (n + 1)] = "none"}
<1>1. /\ n \in Nat /\ Len(page) = n + 8
      /\ page[n + 1] = "space" /\ page[n + 2] = "x" /\ page[n + 3] = "eq" /\ page[n + 4] = "dq"
      /\ page[n + 5] = "gt" /\ page[n + 6] = "x" /\ page[n + 7] = "close" /\ page[n + 8] = "gt"
  <2>1. n \in Nat /\ \A i \in 1..8 : page[n + i] = Unquoted[i]
    BY DEF Located, Unquoted
  <2>2. /\ Unquoted[1] = "space" /\ Unquoted[2] = "x" /\ Unquoted[3] = "eq" /\ Unquoted[4] = "dq"
        /\ Unquoted[5] = "gt" /\ Unquoted[6] = "x" /\ Unquoted[7] = "close" /\ Unquoted[8] = "gt"
    BY DEF Unquoted
  <2>3. 1 \in 1..8 /\ 2 \in 1..8 /\ 3 \in 1..8 /\ 4 \in 1..8 /\ 5 \in 1..8 /\ 6 \in 1..8
          /\ 7 \in 1..8 /\ 8 \in 1..8
    OBVIOUS
  <2> QED BY <2>1, <2>2, <2>3
<1>2. b \in Pages /\ Len(b) = 8 /\ \A i \in 1..8 : b[i] = page[n + i]
  BY <1>1 DEF Pages
<1>3. QuoteSteps(f, b)
  BY <1>2, QuotesExist
<1>4. OpenTagEnd(page, n + 1) = First(S)
  BY DEF OpenTagEnd
<1> HIDE DEF f, b
<1>5. /\ f[0] = "none" /\ f[1] = QuoteAfter(f[0], "space") /\ f[2] = QuoteAfter(f[1], "x")
      /\ f[3] = QuoteAfter(f[2], "eq") /\ f[4] = QuoteAfter(f[3], "dq")
      /\ f[5] = QuoteAfter(f[4], "gt") /\ f[6] = QuoteAfter(f[5], "x")
            /\ f[7] = QuoteAfter(f[6], "close")
  <2>1. \A i \in 1..8 : f[i] = QuoteAfter(f[i - 1], page[n + i])
    BY <1>2, <1>3 DEF QuoteSteps
  <2> QED BY <1>1, <1>3, <2>1 DEF QuoteSteps
<1>6. f[4] = "dq" /\ f[7] = "dq"
  BY <1>5, QuotesByByte
<1>7. S = {}
  <2> SUFFICES ASSUME NEW i \in S PROVE FALSE
    OBVIOUS
  <2>1. i = n + 5 \/ i = n + 8
    BY <1>1
  <2> QED BY <1>1, <1>6, <2>1
<1> QED BY <1>4, <1>7 DEF First

LEMMA CutTurn ==
  ASSUME NEW page \in Pages, NEW n, NEW p, Clear(page, p, n), NEW m, NEW cut \in Broken,
         Located(page, n, cut), n + Len(cut) = Len(page)
  PROVE  Ended(page, p, m)
<1>1. n \in Nat /\ Len(page) \in Nat
  BY DEF Located, Pages
<1>2. p \in 1..(Len(page) + 1)
  BY <1>1 DEF Clear
<1>3. CASE cut = <<"open">>
  <2>1. page[n + 1] = "open" /\ Len(page) = n + 1
    BY <1>3 DEF Located
  <2>2. FindElementOpen(page, p) = n + 1
    BY <1>1, <2>1, OpenFound
  <2>3. OpenTagEnd(page, (n + 1) + 1) = 0
    BY <1>1, <2>1, NoTagEnd
  <2> QED BY <1>2, <2>2, <2>3, LastTurn
<1>4. CASE cut = <<"open", "gt", "x">>
  <2>1. page[n + 1] = "open" /\ page[n + 2] = "gt" /\ page[n + 3] = "x" /\ Len(page) = n + 3
    BY <1>4 DEF Located
  <2>2. FindElementOpen(page, p) = n + 1
    BY <1>1, <2>1, OpenFound DEF Boundary
  <2>3. OpenTagEnd(page, (n + 1) + 1) = n + 2
    <3>1. <<>> \in Attrs /\ Len(<<>>) = 0 /\ Located(page, n + 1, <<>>)
      BY <1>1, <2>1 DEF Attrs, Attributes, Located
    <3>2. (n + 1) + Len(<<>>) + 1 = n + 2 /\ (n + 1) + Len(<<>>) < Len(page)
      BY <1>1, <2>1
    <3>3. OpenTagEnd(page, (n + 1) + 1) = (n + 1) + Len(<<>>) + 1
      BY <2>1, <3>1, <3>2, TagEnds
    <3> QED BY <3>2, <3>3
  <2>4. FindElementClose(page, (n + 2) + 1) = 0
    <3>1. {i \in ((n + 2) + 1)..(Len(page) - 1) : page[i] = "close" /\ Boundary(page[i + 1])} = {}
      BY <1>1, <2>1
    <3> QED BY <3>1 DEF FindElementClose, First
  <2> QED BY <1>2, <2>2, <2>3, <2>4, LastTurn
<1>5. CASE cut = <<"open", "gt", "x", "close">>
  <2>1. page[n + 1] = "open" /\ page[n + 2] = "gt" /\ page[n + 3] = "x" /\ Len(page) = n + 4
    BY <1>5 DEF Located
  <2>2. FindElementOpen(page, p) = n + 1
    BY <1>1, <2>1, OpenFound DEF Boundary
  <2>3. OpenTagEnd(page, (n + 1) + 1) = n + 2
    <3>1. <<>> \in Attrs /\ Len(<<>>) = 0 /\ Located(page, n + 1, <<>>)
      BY <1>1, <2>1 DEF Attrs, Attributes, Located
    <3>2. (n + 1) + Len(<<>>) + 1 = n + 2 /\ (n + 1) + Len(<<>>) < Len(page)
      BY <1>1, <2>1
    <3>3. OpenTagEnd(page, (n + 1) + 1) = (n + 1) + Len(<<>>) + 1
      BY <2>1, <3>1, <3>2, TagEnds
    <3> QED BY <3>2, <3>3
  <2>4. FindElementClose(page, (n + 2) + 1) = 0
    <3>1. {i \in ((n + 2) + 1)..(Len(page) - 1) : page[i] = "close" /\ Boundary(page[i + 1])} = {}
      <4> SUFFICES ASSUME NEW i \in ((n + 2) + 1)..(Len(page) - 1) PROVE page[i] # "close"
        OBVIOUS
      <4>1. i = n + 3
        BY <1>1, <2>1
      <4> QED BY <2>1, <4>1
    <3> QED BY <3>1 DEF FindElementClose, First
  <2> QED BY <1>2, <2>2, <2>3, <2>4, LastTurn
<1>6. CASE cut = <<"open", "space", "x", "eq", "dq", "gt", "x", "close", "gt">>
  <2> DEFINE o == <<"open">>
  <2>1. o \in Pages /\ Unquoted \in Pages /\ Len(o) = 1 /\ Len(Unquoted) = 8
          /\ Unquoted[1] = "space" /\ o[1] = "open"
    BY DEF Pages, PageBytes, Unquoted
  <2>2. cut = o \o Unquoted /\ Len(cut) = 9
    BY <1>6 DEF Unquoted
  <2> HIDE DEF o
  <2>3. Located(page, n, o) /\ Located(page, n + 1, Unquoted)
    BY <2>1, <2>2, LocatedParts
  <2>4. page[n + 1] = "open"
    BY <2>1, <2>3 DEF Located
  <2>5. page[n + 2] = "space" /\ Len(page) = (n + 1) + 8
    <3>1. page[(n + 1) + 1] = "space"
      BY <2>1, <2>3 DEF Located
    <3> QED BY <1>1, <2>2, <3>1
  <2>6. FindElementOpen(page, p) = n + 1
    BY <1>1, <2>4, <2>5, OpenFound DEF Boundary
  <2>7. OpenTagEnd(page, (n + 1) + 1) = 0
    BY <2>3, <2>5, OpenQuoteTag
  <2> QED BY <1>2, <2>6, <2>7, LastTurn
<1> QED BY <1>3, <1>4, <1>5, <1>6 DEF Broken

(* The turns of the loop over a page, one after the other.                 *)
PageTurns(f, page) ==
  /\ f[0] = From(1, <<>>)
  /\ \A n \in 1..Len(page) : f[n] = Turn(page, f[n - 1])

LEMMA PageTrace ==
  ASSUME NEW page \in Pages
  PROVE  \E f : PageTurns(f, page) /\ InlineElementHashes(page, TRUE) = f[Len(page)].hashes
<1> DEFINE N == Len(page)
<1> DEFINE start == From(1, <<>>)
<1> DEFINE Good(f, m) == f[0] = start /\ \A n \in 1..m : f[n] = Turn(page, f[n - 1])
<1> DEFINE T == {m \in 0..N : \E f : Good(f, m)}
<1> DEFINE Body(f) == [n \in 0..N |-> IF n = 0 THEN start ELSE Turn(page, f[n - 1])]
<1>1. N \in Nat
  BY DEF Pages
<1>2. 0 \in T
  <2>1. Good([n \in 0..N |-> start], 0) /\ 0 \in 0..N
    BY <1>1
  <2> HIDE DEF Good
  <2> QED BY <2>1
<1>3. ASSUME NEW m \in 1..N, m - 1 \in T PROVE m \in T
  <2>1. PICK f : Good(f, m - 1)
    BY <1>3
  <2> DEFINE g == [n \in 0..N |-> IF n = m THEN Turn(page, f[m - 1]) ELSE f[n]]
  <2>2. m \in 0..N /\ m # 0 /\ 0 \in 0..N
    BY <1>1
  <2>3. g[0] = start
    BY <2>1, <2>2
  <2>4. ASSUME NEW n \in 1..m PROVE g[n] = Turn(page, g[n - 1])
    <3>1. n \in 0..N /\ n - 1 \in 0..N /\ n - 1 # m
      BY <1>1
    <3>2. g[n - 1] = f[n - 1]
      BY <3>1
    <3>3. CASE n = m
      BY <3>1, <3>2, <3>3
    <3>4. CASE n # m
      <4>1. n \in 1..(m - 1)
        BY <3>4
      <4> QED BY <2>1, <3>1, <3>2, <3>4, <4>1
    <3> QED BY <3>3, <3>4
  <2>5. Good(g, m)
    BY <2>3, <2>4
  <2> HIDE DEF g, Good
  <2> QED BY <2>2, <2>5
<1>4. 0..N \subseteq T
  <2> HIDE DEF T
  <2> QED BY <1>1, <1>2, <1>3, UpTo
<1>5. PICK g : Good(g, N)
  BY <1>1, <1>4
<1> DEFINE g2 == [n \in 0..N |-> g[n]]
<1>6. g2 = Body(g2)
  <2>1. \A n \in 0..N : n # 0 => g2[n] = Turn(page, g2[n - 1])
    BY <1>1, <1>5
  <2>2. g2[0] = start
    BY <1>1, <1>5
  <2> QED BY <2>1, <2>2
<1> DEFINE h == CHOOSE f : f = Body(f)
<1>7. h = Body(h)
  BY <1>6
<1>8. InlineElementHashes(page, TRUE) = h[N].hashes
  BY Zenon DEF InlineElementHashes, From, Turn
<1> HIDE DEF h
<1>9. PageTurns(h, page)
  <2>1. \A n \in 1..N : h[n] = Turn(page, h[n - 1])
    BY <1>1, <1>7
  <2>2. h[0] = start
    BY <1>1, <1>7
  <2> QED BY <2>1, <2>2 DEF PageTurns
<1> QED BY <1>8, <1>9

(* Once a turn ends the loop, or would, no later one adds a hash.          *)
LEMMA HashesStay ==
  ASSUME NEW page \in Pages, NEW f, PageTurns(f, page), NEW k \in 0..Len(page), NEW p, NEW m,
         f[k] = From(p, m), Ended(page, p, m)
  PROVE  f[Len(page)].hashes = m
<1> DEFINE N == Len(page) - k
<1> DEFINE last == From(Len(page) + 1, m)
<1> DEFINE T == {i \in 0..N : f[k + i] = f[k] \/ f[k + i] = last}
<1>1. N \in Nat /\ k \in Nat /\ Len(page) \in Nat
  BY DEF Pages
<1>2. 0 \in T
  BY <1>1
<1>3. Turn(page, f[k]) = last /\ Turn(page, last) = last
  <2>1. Clear(page, Len(page) + 1, Len(page))
    BY <1>1 DEF Clear
  <2>2. Ended(page, Len(page) + 1, m)
    BY <2>1, NoMoreElements
  <2> QED BY <2>2 DEF Ended
<1> HIDE DEF last
<1>4. ASSUME NEW i \in 1..N, i - 1 \in T PROVE i \in T
  <2>1. k + i \in 1..Len(page) /\ k + i - 1 = k + (i - 1)
    BY <1>1
  <2>2. f[k + i] = Turn(page, f[k + (i - 1)])
    BY <2>1 DEF PageTurns
  <2>3. f[k + i] = last
    BY <1>3, <1>4, <2>2
  <2> QED BY <2>3
<1>5. 0..N \subseteq T
  <2> HIDE DEF T, N
  <2> QED BY <1>1, <1>2, <1>4, UpTo
<1>6. N \in T /\ k + N = Len(page)
  <2>1. N \in 0..N /\ k + N = Len(page)
    BY <1>1
  <2> HIDE DEF T, N
  <2> QED BY <1>5, <2>1
<1>7. f[Len(page)] = f[k] \/ f[Len(page)] = last
  BY <1>6
<1> QED BY <1>7 DEF From, last

-----------------------------------------------------------------------------
(* After as many turns as there are bytes at most, whatever follows, the   *)
(* loop has hashed m and stands where nothing is opened any more.          *)
HashedUpTo(tx, m, k, p) ==
  /\ k \in 0..Len(tx) /\ Clear(tx, p, Len(tx))
  /\ \A q \in Pages : \A f : PageTurns(f, tx \o q) => f[k] = From(p, m)
Hashed(tx, m) == \E k, p : HashedUpTo(tx, m, k, p)

LEMMA HashedSays ==
  ASSUME NEW tx \in Pages, NEW m, Hashed(tx, m)
  PROVE  InlineElementHashes(tx, TRUE) = m
<1>1. PICK k, p : HashedUpTo(tx, m, k, p)
  BY DEF Hashed
<1>2. PICK f : PageTurns(f, tx) /\ InlineElementHashes(tx, TRUE) = f[Len(tx)].hashes
  BY PageTrace
<1>3. <<>> \in Pages /\ tx \o <<>> = tx
  BY DEF Pages
<1>4. f[k] = From(p, m) /\ k \in 0..Len(tx) /\ Clear(tx, p, Len(tx))
  BY <1>1, <1>2, <1>3 DEF HashedUpTo
<1>5. Ended(tx, p, m)
  BY <1>4, NoMoreElements
<1> QED BY <1>2, <1>4, <1>5, HashesStay

LEMMA ClearBefore ==
  ASSUME NEW tx \in Pages, NEW q \in Pages, NEW p, Clear(tx, p, Len(tx))
  PROVE  Clear(tx \o q, p, Len(tx)) /\ Located(tx \o q, Len(tx), q)
<1> DEFINE s == tx \o q
<1>1. /\ Len(s) = Len(tx) + Len(q) /\ Len(tx) \in Nat /\ Len(q) \in Nat
      /\ \A i \in 1..Len(tx) : s[i] = tx[i]
      /\ \A i \in 1..Len(q) : s[Len(tx) + i] = q[i]
  BY PageParts
<1> HIDE DEF s
<1>2. Located(s, Len(tx), q)
  BY <1>1 DEF Located
<1>3. ASSUME NEW i \in p..Len(tx), s[i] = "open" PROVE i < Len(tx) /\ ~Boundary(s[i + 1])
  <2>1. i \in 1..Len(tx)
    BY <1>1 DEF Clear
  <2>2. i < Len(tx) /\ ~Boundary(tx[i + 1])
    BY <1>1, <1>3, <2>1 DEF Clear
  <2>3. i + 1 \in 1..Len(tx)
    BY <1>1, <2>1, <2>2
  <2> QED BY <1>1, <2>2, <2>3
<1> QED BY <1>2, <1>3 DEF Clear, s

LEMMA Regroup ==
  ASSUME NEW a \in Pages, NEW b \in Pages, NEW c \in Pages
  PROVE  (a \o b) \o c = a \o (b \o c) /\ a \o b \in Pages /\ b \o c \in Pages
BY DEF Pages

(* Bytes between elements add no hash, and an element adds its own.        *)
LEMMA OtherHashed ==
  ASSUME NEW tx \in Pages, NEW m, Hashed(tx, m), NEW b \in Between
  PROVE  tx \o b \in Pages /\ Hashed(tx \o b, m)
<1>1. b \in Pages /\ \A i \in 1..Len(b) : b[i] = "open" => i < Len(b) /\ ~Boundary(b[i + 1])
  <2>1. CASE b = <<"x">>
    BY <2>1 DEF Pages, PageBytes
  <2>2. CASE b = <<"dq">>
    BY <2>2 DEF Pages, PageBytes
  <2>3. CASE b = <<"open", "x", "gt">>
    <3>1. <<"open", "x", "gt">> \in Pages /\ Len(b) = 3 /\ b[2] = "x" /\ ~Boundary("x")
      BY <2>3 DEF Pages, PageBytes, Boundary
    <3>2. \A i \in 1..3 : b[i] = "open" => i = 1
      BY <2>3
    <3> QED BY <2>3, <3>1, <3>2
  <2> QED BY <2>1, <2>2, <2>3 DEF Between
<1>2. PICK k, p : HashedUpTo(tx, m, k, p)
  BY DEF Hashed
<1> DEFINE s == tx \o b
<1>3. /\ s \in Pages /\ Len(s) = Len(tx) + Len(b) /\ Len(tx) \in Nat /\ Len(b) \in Nat
      /\ \A i \in 1..Len(b) : s[Len(tx) + i] = b[i]
  BY <1>1, PageParts
<1>4. Clear(s, p, Len(tx)) /\ k \in 0..Len(tx)
  BY <1>1, <1>2, ClearBefore DEF HashedUpTo
<1>5. ASSUME NEW q \in Pages, NEW f, PageTurns(f, s \o q) PROVE f[k] = From(p, m)
  <2>1. s \o q = tx \o (b \o q) /\ b \o q \in Pages
    BY <1>1, Regroup
  <2> HIDE DEF s
  <2> QED BY <1>2, <1>5, <2>1 DEF HashedUpTo
<1> HIDE DEF s
<1>6. Clear(s, p, Len(s))
  <2>1. ASSUME NEW i \in p..Len(s), s[i] = "open" PROVE i < Len(s) /\ ~Boundary(s[i + 1])
    <3>1. CASE i <= Len(tx)
      <4>1. i \in p..Len(tx)
        BY <1>3, <1>4, <3>1 DEF Clear
      <4> QED BY <1>3, <1>4, <2>1, <4>1 DEF Clear
    <3>2. CASE i > Len(tx)
      <4> DEFINE j == i - Len(tx)
      <4>1. j \in 1..Len(b) /\ Len(tx) + j = i
        BY <1>3, <1>4, <3>2 DEF Clear
      <4>2. j < Len(b) /\ ~Boundary(b[j + 1])
        <5> HIDE DEF j
        <5>1. b[j] = "open"
          BY <1>3, <2>1, <4>1
        <5> QED BY <1>1, <4>1, <5>1
      <4>3. j + 1 \in 1..Len(b) /\ Len(tx) + (j + 1) = i + 1
        <5>1. Len(tx) \in Nat /\ Len(b) \in Nat
          BY <1>3
        <5> HIDE DEF j
        <5> QED BY <4>1, <4>2, <5>1
      <4>4. s[i + 1] = b[j + 1]
        <5> DEFINE h == j + 1
        <5>1. h \in 1..Len(b) /\ Len(tx) + h = i + 1
          BY <4>3
        <5> HIDE DEF h
        <5>2. s[Len(tx) + h] = b[h]
          BY <1>3, <5>1
        <5> QED BY <5>1, <5>2 DEF h
      <4>5. i < Len(s)
        <5>1. Len(s) = Len(tx) + Len(b) /\ Len(tx) \in Nat /\ Len(b) \in Nat
          BY <1>3
        <5>2. j \in 1..Len(b) /\ Len(tx) + j = i /\ j < Len(b)
          BY <4>1, <4>2
        <5> HIDE DEF j
        <5> QED BY <5>1, <5>2
      <4> QED BY <4>2, <4>4, <4>5
    <3>3. i \in Int /\ Len(tx) \in Int
      BY <1>3, <1>4 DEF Clear
    <3> QED BY <3>1, <3>2, <3>3
  <2>2. p \in 1..(Len(s) + 1)
    BY <1>3, <1>4 DEF Clear
  <2> QED BY <2>1, <2>2 DEF Clear
<1>7. k \in 0..Len(s)
  BY <1>3, <1>4
<1>8. HashedUpTo(s, m, k, p)
  BY <1>5, <1>6, <1>7 DEF HashedUpTo
<1> QED BY <1>3, <1>8 DEF Hashed, s

LEMMA ScriptForm ==
  ASSUME NEW attrs \in Attrs, NEW content \in Contents, NEW end \in EndTags
  PROVE  /\ ScriptText(attrs, content, end) \in Pages
         /\ Len(attrs) \in Nat /\ Len(content) \in Nat /\ Len(end) \in Nat /\ Len(end) >= 2
         /\ Len(ScriptText(attrs, content, end)) = Len(attrs) + Len(content) + 2 + Len(end)
         /\ \A i \in 2..Len(end) :
              ScriptText(attrs, content, end)[Len(attrs) + Len(content) + 2 + i] # "open"
<1> DEFINE o == <<"open">>
<1> DEFINE g == <<"gt">>
<1> DEFINE a1 == o \o attrs
<1> DEFINE a2 == a1 \o g
<1> DEFINE a3 == a2 \o content
<1> DEFINE na == Len(attrs)
<1> DEFINE nc == Len(content)
<1> DEFINE ne == Len(end)
<1>1. o \in Pages /\ Len(o) = 1 /\ g \in Pages /\ Len(g) = 1
  BY DEF Pages, PageBytes
<1>2. attrs \in Pages /\ content \in Pages
  BY QuotesOfAttrs, ContentBytes
<1>3. end \in Pages /\ Len(end) >= 2 /\ \A i \in 2..Len(end) : end[i] # "open"
  <2>1. CASE end = <<"close", "gt">>
    BY <2>1 DEF Pages, PageBytes
  <2>2. CASE end = <<"close", "space", "gt">>
    BY <2>2 DEF Pages, PageBytes
  <2> QED BY <2>1, <2>2 DEF EndTags
<1>4. ScriptText(attrs, content, end) = a3 \o end
  BY DEF ScriptText
<1>5. na \in Nat /\ nc \in Nat /\ ne \in Nat
  BY <1>2, <1>3 DEF Pages
<1> HIDE DEF o, g
<1>6. a1 \in Pages /\ Len(a1) = Len(o) + na
  <2>1. Spans(o, attrs)
    BY <1>1, <1>2, Span
  <2> QED BY <2>1, Zenon DEF Spans
<1> HIDE DEF a1
<1>7. a2 \in Pages /\ Len(a2) = Len(a1) + Len(g)
  <2>1. Spans(a1, g)
    BY <1>1, <1>6, Span
  <2> QED BY <2>1, Zenon DEF Spans
<1> HIDE DEF a2
<1>8. a3 \in Pages /\ Len(a3) = Len(a2) + nc
  <2>1. Spans(a2, content)
    BY <1>2, <1>7, Span
  <2> QED BY <2>1, Zenon DEF Spans
<1> HIDE DEF a3
<1>9. /\ a3 \o end \in Pages /\ Len(a3 \o end) = Len(a3) + ne
      /\ \A i \in 1..ne : (a3 \o end)[Len(a3) + i] = end[i]
  BY <1>3, <1>8, PageParts
<1> DEFINE l1 == Len(a1)
<1> DEFINE l2 == Len(a2)
<1> DEFINE l3 == Len(a3)
<1>10. l1 = 1 + na /\ l2 = l1 + 1 /\ l3 = l2 + nc
  BY <1>1, <1>6, <1>7, <1>8, Zenon
<1> DEFINE s == ScriptText(attrs, content, end)
<1>11. s \in Pages /\ Len(s) = l3 + ne /\ (\A i \in 1..ne : s[l3 + i] = end[i]) /\ ne >= 2
  BY <1>3, <1>4, <1>9, Zenon
<1>12. \A i \in 2..ne : end[i] # "open"
  BY <1>3
<1> HIDE DEF l1, l2, l3, na, nc, ne, s
<1>13. l3 = na + nc + 2
  BY <1>5, <1>10
<1>14. \A i \in 2..ne : s[l3 + i] # "open"
  <2> TAKE i \in 2..ne
  <2>1. i \in 1..ne
    BY <1>5
  <2> QED BY <1>11, <1>12, <2>1
<1> QED BY <1>5, <1>11, <1>13, <1>14, Zenon DEF na, nc, ne, s

LEMMA ScriptHashed ==
  ASSUME NEW tx \in Pages, NEW m, Hashed(tx, m),
         NEW attrs \in Attrs, NEW content \in Contents, NEW end \in EndTags
  PROVE  /\ tx \o ScriptText(attrs, content, end) \in Pages
         /\ Hashed(tx \o ScriptText(attrs, content, end),
                   IF attrs \in External THEN m ELSE Append(m, content))
<1> DEFINE b == ScriptText(attrs, content, end)
<1> DEFINE m2 == IF attrs \in External THEN m ELSE Append(m, content)
<1> DEFINE s == tx \o b
<1> DEFINE na == Len(attrs)
<1> DEFINE nc == Len(content)
<1> DEFINE ne == Len(end)
<1> DEFINE n == Len(tx)
<1> DEFINE ns == Len(s)
<1> DEFINE p2 == n + 1 + na + 1 + nc + 2
<1>1. /\ b \in Pages /\ na \in Nat /\ nc \in Nat /\ ne \in Nat /\ ne >= 2
      /\ Len(b) = na + nc + 2 + ne
      /\ \A i \in 2..ne : b[na + nc + 2 + i] # "open"
  BY ScriptForm
<1>2. PICK k, p : HashedUpTo(tx, m, k, p)
  BY DEF Hashed
<1> HIDE DEF b
<1>3. /\ s \in Pages /\ ns = n + Len(b) /\ n \in Nat
      /\ \A i \in 1..Len(b) : s[n + i] = b[i]
  BY <1>1, PageParts
<1>4. k \in 0..n /\ Clear(tx, p, Len(tx))
  BY <1>2 DEF HashedUpTo
<1>5. ASSUME NEW q \in Pages, NEW f, PageTurns(f, s \o q) PROVE f[k + 1] = From(p2, m2)
  <2> DEFINE page == s \o q
  <2>1. page = tx \o (b \o q) /\ b \o q \in Pages
    BY <1>1, Regroup
  <2>2. f[k] = From(p, m)
    <3> HIDE DEF s
    <3> QED BY <1>2, <1>5, <2>1 DEF HashedUpTo
  <2>3. Clear(page, p, Len(tx)) /\ Located(page, Len(tx), b \o q) /\ page \in Pages
    <3> HIDE DEF s, page
    <3>1. tx \o (b \o q) \in Pages
      BY <2>1, PageParts
    <3> QED BY <1>4, <2>1, <3>1, ClearBefore
  <2>4. k + 1 \in 1..Len(page) /\ k + 1 - 1 = k
    <3> DEFINE np == Len(page)
    <3>1. np = ns + Len(q) /\ Len(q) \in Nat
      <4> HIDE DEF s
      <4> QED BY <1>3, PageParts
    <3> DEFINE nq == Len(q)
    <3> DEFINE nb == Len(b)
    <3>2. np = ns + nq /\ nq \in Nat /\ ns = n + nb /\ nb = na + nc + 2 + ne
      BY <1>1, <1>3, <3>1
    <3> HIDE DEF n, ns, na, nc, ne, np, nq, nb
    <3>3. k + 1 \in 1..np /\ k + 1 - 1 = k
      BY <1>1, <1>3, <1>4, <3>2
    <3> QED BY <3>3, Zenon DEF np
  <2> HIDE DEF page
  <2>5. Located(page, Len(tx), b)
    BY <1>1, <2>3, LocatedParts
  <2>6. f[k + 1] = Turn(page, From(p, m))
    <3>1. PageTurns(f, page)
      BY <1>5 DEF page
    <3>2. \A i \in 1..Len(page) : f[i] = Turn(page, f[i - 1])
      BY <3>1 DEF PageTurns
    <3>3. k + 1 \in 1..Len(page) /\ k \in Int
      BY <1>3, <1>4, <2>4
    <3>4. \A j \in Int : (j + 1) - 1 = j
      OBVIOUS
    <3> DEFINE j == k + 1
    <3>5. j - 1 = k
      BY <3>3, <3>4, Zenon
    <3>6. j \in 1..Len(page) /\ j - 1 = k
      BY <3>3, <3>5
    <3> HIDE DEF j
    <3>7. f[j] = Turn(page, f[j - 1])
      BY <3>2, <3>6, Zenon
    <3>8. f[j] = Turn(page, f[k])
      BY <3>6, <3>7, Zenon
    <3> QED BY <2>2, <3>8, Zenon DEF j
  <2> QED BY <2>3, <2>5, <2>6, ElementTurn DEF b
<1> DEFINE nb == Len(b)
<1>6. ns = n + nb /\ nb = na + nc + 2 + ne /\ (\A i \in 1..nb : s[n + i] = b[i])
  BY <1>1, <1>3
<1> HIDE DEF n, na, nc, ne, nb, ns, s, m2
<1>7. k + 1 \in 0..ns /\ p2 \in 1..(ns + 1)
  BY <1>1, <1>3, <1>4, <1>6
<1>8. ASSUME NEW i \in p2..ns PROVE s[i] # "open"
  <2> DEFINE j == i - (n + na + nc + 2)
  <2>1. j \in 2..ne /\ na + nc + 2 + j \in 1..nb /\ n + (na + nc + 2 + j) = i
    BY <1>1, <1>3, <1>6
  <2> HIDE DEF j
  <2>2. s[n + (na + nc + 2 + j)] = b[na + nc + 2 + j]
    BY <1>6, <2>1
  <2> QED BY <1>1, <2>1, <2>2
<1>9. Clear(s, p2, ns)
  BY <1>7, <1>8 DEF Clear
<1> HIDE DEF p2
<1>10. HashedUpTo(s, m2, k + 1, p2)
  BY <1>5, <1>7, <1>9, Zenon DEF HashedUpTo, ns
<1> QED BY <1>3, <1>10 DEF Hashed, s, b, m2

LEMMA CutHashed ==
  ASSUME NEW tx \in Pages, NEW m, Hashed(tx, m), NEW cut \in Broken
  PROVE  InlineElementHashes(tx \o cut, TRUE) = m
<1> DEFINE page == tx \o cut
<1>1. cut \in Pages
  <2>1. CASE cut = <<"open">>
    BY <2>1 DEF Pages, PageBytes
  <2>2. CASE cut = <<"open", "space", "x", "eq", "dq", "gt", "x", "close", "gt">>
    BY <2>2 DEF Pages, PageBytes
  <2>3. CASE cut = <<"open", "gt", "x">>
    BY <2>3 DEF Pages, PageBytes
  <2>4. CASE cut = <<"open", "gt", "x", "close">>
    BY <2>4 DEF Pages, PageBytes
  <2> QED BY <2>1, <2>2, <2>3, <2>4 DEF Broken
<1>2. PICK k, p : HashedUpTo(tx, m, k, p)
  BY DEF Hashed
<1>3. page \in Pages /\ Len(tx) + Len(cut) = Len(page) /\ Len(tx) \in Nat /\ Len(cut) \in Nat
  BY <1>1, PageParts
<1>4. k \in 0..Len(tx) /\ Clear(tx, p, Len(tx))
  BY <1>2 DEF HashedUpTo
<1>5. Clear(page, p, Len(tx)) /\ Located(page, Len(tx), cut)
  BY <1>1, <1>4, ClearBefore
<1>6. Ended(page, p, m)
  <2> HIDE DEF page
  <2> QED BY <1>3, <1>5, CutTurn
<1>7. PICK f : PageTurns(f, page) /\ InlineElementHashes(page, TRUE) = f[Len(page)].hashes
  <2> HIDE DEF page
  <2> QED BY <1>3, PageTrace
<1>8. f[k] = From(p, m)
  BY <1>1, <1>2, <1>7 DEF HashedUpTo
<1> HIDE DEF page
<1>9. k \in 0..Len(page)
  BY <1>3, <1>4
<1>10. InlineElementHashes(page, TRUE) = m
  BY <1>3, <1>6, <1>7, <1>8, <1>9, HashesStay
<1> QED BY <1>10 DEF page

-----------------------------------------------------------------------------
(* Until it is cut short, a page is one that more may follow.              *)
PageInv ==
  kind = "page" =>
    \/ text \in Pages /\ Hashed(text, meant)
    \/ ~(empties < MaxElements) /\ InlineElementHashes(text, TRUE) = meant

LEMMA PageIsKept ==
  ASSUME PageInv, [ScanNext]_scanVars PROVE PageInv'
<1>1. ASSUME AddScript PROVE PageInv'
  <2>1. PICK attrs \in Attrs, content \in Contents, end \in EndTags :
          /\ AddToPage(<<"open">> \o attrs \o <<"gt">> \o content \o end)
          /\ meant' = IF attrs \in External THEN meant ELSE Append(meant, content)
    BY <1>1, Zenon DEF AddScript, Attrs
  <2>2. kind = "page" /\ empties < MaxElements /\ text' = text \o ScriptText(attrs, content, end)
    BY <2>1 DEF AddToPage, ScriptText
  <2>3. text \in Pages /\ Hashed(text, meant)
    BY <2>2 DEF PageInv
  <2>4. text' \in Pages /\ Hashed(text', meant')
    BY <2>1, <2>2, <2>3, ScriptHashed
  <2> QED BY <2>4 DEF PageInv, Hashed, HashedUpTo
<1>2. ASSUME AddOther PROVE PageInv'
  <2>1. PICK b \in Between : AddToPage(b) /\ UNCHANGED meant
    BY <1>2 DEF AddOther
  <2>2. kind = "page" /\ empties < MaxElements /\ text' = text \o b
    BY <2>1 DEF AddToPage
  <2>3. text \in Pages /\ Hashed(text, meant)
    BY <2>2 DEF PageInv
  <2>4. text' \in Pages /\ Hashed(text', meant')
    BY <2>1, <2>2, <2>3, OtherHashed
  <2> QED BY <2>4 DEF PageInv, Hashed, HashedUpTo
<1>3. ASSUME CutShort PROVE PageInv'
  <2>1. PICK cut \in Broken : text' = text \o cut
    BY <1>3 DEF CutShort
  <2>2. kind = "page" /\ empties < MaxElements /\ empties' = MaxElements /\ meant' = meant
    BY <1>3 DEF CutShort
  <2>3. text \in Pages /\ Hashed(text, meant)
    BY <2>2 DEF PageInv
  <2>4. InlineElementHashes(text', TRUE) = meant'
    BY <2>1, <2>2, <2>3, CutHashed
  <2>5. ~(MaxElements < MaxElements)
    BY ScanAssumption
  <2> QED BY <2>2, <2>4, <2>5 DEF PageInv
<1>4. CASE kind # "page" /\ kind' = kind
  BY <1>4 DEF PageInv
<1>5. CASE UNCHANGED scanVars
  BY <1>5 DEF PageInv, scanVars, Hashed, HashedUpTo
<1>6. CASE AddElement \/ AddEmpty
  BY <1>4, <1>6 DEF AddElement, AddEmpty, Syntaxes
<1>7. CASE AddPair
  BY <1>4, <1>7 DEF AddPair
<1>8. CASE AddToBody
  BY <1>4, <1>8 DEF AddToBody
<1>9. CASE Written
  BY <1>5, <1>9 DEF Written
<1> QED BY <1>1, <1>2, <1>3, <1>5, <1>6, <1>7, <1>8, <1>9 DEF ScanNext

(***************************************************************************)
(* The spans hashed for a page's policy are the contents of its inline     *)
(* elements, in order and to the byte, however many there are, and nothing *)
(* of an element the page ends in (inlineElementHashes, src/csp.go:84).    *)
(***************************************************************************)
THEOREM InlineIsHashed == ScanSpec => []HashesWhatIsInline
<1>1. ScanInit => PageInv
  <2> SUFFICES ASSUME ScanInit PROVE PageInv
    OBVIOUS
  <2>1. text = <<>> /\ meant = <<>> /\ <<>> \in Pages
    BY DEF ScanInit, Pages
  <2>2. HashedUpTo(<<>>, <<>>, 0, 1)
    <3>1. 0 \in 0..Len(<<>>) /\ Clear(<<>>, 1, Len(<<>>))
      BY DEF Clear
    <3>2. \A q, f : PageTurns(f, <<>> \o q) => f[0] = From(1, <<>>)
      BY DEF PageTurns
    <3> QED BY <3>1, <3>2, Zenon DEF HashedUpTo
  <2> QED BY <2>1, <2>2 DEF PageInv, Hashed
<1>2. PageInv /\ [ScanNext]_scanVars => PageInv'
  BY PageIsKept
<1>3. PageInv => HashesWhatIsInline
  BY HashedSays DEF PageInv, HashesWhatIsInline
<1> QED BY <1>1, <1>2, <1>3, PTL DEF ScanSpec

(***************************************************************************)
(* Bodies.                                                                 *)
(***************************************************************************)
BodyBytes == {"open", "close", "space", "junk"}
Bodies == Seq(BodyBytes)

(* How many objects are open after byte j, of those opened from byte i on. *)
Count(bytes, c, i, j) == Cardinality({k \in i..j : bytes[k] = c})
Depth(bytes, i, j) == Count(bytes, "open", i, j) - Count(bytes, "close", i, j)

LEMMA CountType ==
  ASSUME NEW bytes, NEW c, NEW i \in Nat, NEW j \in Int PROVE Count(bytes, c, i, j) \in Nat
<1>1. IsFiniteSet(i..j)
  BY FS_Interval
<1>2. {k \in i..j : bytes[k] = c} \subseteq i..j
  OBVIOUS
<1>3. IsFiniteSet({k \in i..j : bytes[k] = c})
  BY <1>1, <1>2, FS_Subset
<1> QED BY <1>3, FS_CardinalityType DEF Count

LEMMA CountStep ==
  ASSUME NEW bytes, NEW c, NEW i \in Nat, NEW j \in Int, i <= j + 1
  PROVE  Count(bytes, c, i, j + 1) =
           IF bytes[j + 1] = c THEN Count(bytes, c, i, j) + 1 ELSE Count(bytes, c, i, j)
<1> DEFINE S == {k \in i..j : bytes[k] = c}
<1> DEFINE T == {k \in i..(j + 1) : bytes[k] = c}
<1>1. IsFiniteSet(S)
  <2>1. IsFiniteSet(i..j) /\ S \subseteq i..j
    BY FS_Interval
  <2> HIDE DEF S
  <2> QED BY <2>1, FS_Subset
<1>2. CASE bytes[j + 1] = c
  <2>1. T = S \cup {j + 1} /\ j + 1 \notin S
    BY <1>2
  <2> HIDE DEF S, T
  <2>2. Cardinality(T) = Cardinality(S) + 1
    BY <1>1, <2>1, FS_AddElement
  <2> QED BY <1>2, <2>2 DEF S, T, Count
<1>3. CASE bytes[j + 1] # c
  <2>1. T = S
    BY <1>3
  <2> QED BY <1>3, <2>1 DEF Count
<1> QED BY <1>2, <1>3

LEMMA DepthStep ==
  ASSUME NEW bytes, NEW i \in Nat, NEW j \in Int, i <= j + 1
  PROVE  /\ Depth(bytes, i, j) \in Int /\ Depth(bytes, i, j + 1) \in Int
         /\ bytes[j + 1] = "open" => Depth(bytes, i, j + 1) = Depth(bytes, i, j) + 1
         /\ bytes[j + 1] = "close" => Depth(bytes, i, j + 1) = Depth(bytes, i, j) - 1
         /\ bytes[j + 1] \notin {"open", "close"} => Depth(bytes, i, j + 1) = Depth(bytes, i, j)
<1> DEFINE o1 == Count(bytes, "open", i, j)
<1> DEFINE o2 == Count(bytes, "open", i, j + 1)
<1> DEFINE c1 == Count(bytes, "close", i, j)
<1> DEFINE c2 == Count(bytes, "close", i, j + 1)
<1>1. o1 \in Nat /\ o2 \in Nat /\ c1 \in Nat /\ c2 \in Nat
  BY CountType
<1>2. /\ o2 = IF bytes[j + 1] = "open" THEN o1 + 1 ELSE o1
      /\ c2 = IF bytes[j + 1] = "close" THEN c1 + 1 ELSE c1
  BY CountStep
<1>3. Depth(bytes, i, j) = o1 - c1 /\ Depth(bytes, i, j + 1) = o2 - c2
  BY DEF Depth
<1> HIDE DEF o1, o2, c1, c2
<1> QED BY <1>1, <1>2, <1>3

LEMMA NoDepth == ASSUME NEW bytes, NEW i \in Nat PROVE Depth(bytes, i, i - 1) = 0
<1>1. {k \in i..(i - 1) : bytes[k] = "open"} = {} /\ {k \in i..(i - 1) : bytes[k] = "close"} = {}
  OBVIOUS
<1>2. Count(bytes, "open", i, i - 1) = 0 /\ Count(bytes, "close", i, i - 1) = 0
  BY <1>1, FS_EmptySet DEF Count
<1> QED BY <1>2 DEF Depth

LEMMA SameDepth ==
  ASSUME NEW a, NEW b, NEW i \in Nat, NEW j \in Int, \A k \in i..j : a[k] = b[k]
  PROVE  Depth(a, i, j) = Depth(b, i, j)
<1>1. /\ {k \in i..j : a[k] = "open"} = {k \in i..j : b[k] = "open"}
      /\ {k \in i..j : a[k] = "close"} = {k \in i..j : b[k] = "close"}
  OBVIOUS
<1> QED BY <1>1 DEF Depth, Count

-----------------------------------------------------------------------------
LEMMA ReadableIs ==
  ASSUME NEW body \in Bodies, NEW cap \in Nat
  PROVE  LET r == Readable(body, cap)
         IN /\ r \in Bodies /\ Len(r) \in Nat /\ Len(r) <= Len(body) /\ Len(body) \in Nat
            /\ \A i \in 1..Len(r) : r[i] = body[i]
            /\ Len(body) <= cap => Len(r) = Len(body)
<1> DEFINE m == Min({Len(body), cap})
<1>1. Len(body) \in Nat
  BY DEF Bodies
<1>2. m \in {Len(body), cap} /\ m <= Len(body) /\ m <= cap
  <2>1. \E x \in {Len(body), cap} : \A y \in {Len(body), cap} : x <= y
    BY <1>1
  <2> QED BY <2>1 DEF Min
<1>3. Readable(body, cap) = SubSeq(body, 1, m)
  BY DEF Readable
<1> HIDE DEF m
<1>4. m \in Nat /\ m <= Len(body) /\ (Len(body) <= cap => m = Len(body))
  BY <1>1, <1>2
<1>5. /\ SubSeq(body, 1, m) \in Bodies /\ Len(SubSeq(body, 1, m)) = m
      /\ \A i \in 1..m : SubSeq(body, 1, m)[i] = body[i]
  BY <1>4 DEF Bodies
<1> QED BY <1>1, <1>3, <1>4, <1>5

(* The four ways in which Decode ends.                                     *)
FirstSolid(r, from, start) ==
  start \in from..Len(r) /\ r[start] # "space" /\ \A i \in from..(start - 1) : r[i] = "space"

LEMMA MinIs ==
  ASSUME NEW S, S \subseteq Nat, NEW m \in S, \A j \in S : m <= j
  PROVE  Min(S) = m
<1>1. Min(S) \in S /\ \A j \in S : Min(S) <= j
  BY DEF Min
<1>2. Min(S) <= m /\ m <= Min(S) /\ Min(S) \in Nat /\ m \in Nat
  BY <1>1
<1> QED BY <1>2

SolidFrom(r, from) == {i \in from..Len(r) : r[i] # "space"}
EndsOf(r, start) == {j \in start..Len(r) : Count(r, "open", start, j) = Count(r, "close", start, j)}
UpToEnd(r, start) == IF EndsOf(r, start) = {} THEN Len(r) ELSE Min(EndsOf(r, start))

DecodesAs(d, body, from, cap, r, start) ==
  LET junk == Count(r, "junk", start, UpToEnd(r, start))
  IN d = CASE SolidFrom(r, from) = {} -> [got |-> AtEnd(body, cap, "eof"), next |-> from]
           [] SolidFrom(r, from) # {} /\ (r[start] # "open" \/ junk > 0) ->
                [got |-> "syntax", next |-> from]
           [] SolidFrom(r, from) # {} /\ r[start] = "open" /\ junk = 0 ->
                IF EndsOf(r, start) = {} THEN [got |-> AtEnd(body, cap, "syntax"), next |-> from]
                ELSE [got |-> "value", next |-> Min(EndsOf(r, start)) + 1]

LEMMA DecodeIs ==
  ASSUME NEW body, NEW from, NEW cap
  PROVE  DecodesAs(Decode(body, from, cap), body, from, cap, Readable(body, cap),
                   Min(SolidFrom(Readable(body, cap), from)))
BY Zenon DEF Decode, DecodesAs, SolidFrom, EndsOf, UpToEnd, Count

LEMMA JunkType ==
  ASSUME NEW r, NEW start \in Nat, Len(r) \in Nat
  PROVE  Count(r, "junk", start, UpToEnd(r, start)) \in Nat
<1>1. UpToEnd(r, start) \in Int
  <2>1. EndsOf(r, start) \subseteq Nat
    BY DEF EndsOf
  <2>2. ASSUME EndsOf(r, start) # {} PROVE Min(EndsOf(r, start)) \in EndsOf(r, start)
    <3>1. \E x \in EndsOf(r, start) : \A y \in EndsOf(r, start) : x <= y
      BY <2>1, <2>2, LeastExists
    <3> QED BY <3>1 DEF Min
  <2> QED BY <2>1, <2>2 DEF UpToEnd
<1> QED BY <1>1, CountType

LEMMA StartIs ==
  ASSUME NEW r, NEW from \in Nat, NEW start, FirstSolid(r, from, start)
  PROVE  SolidFrom(r, from) # {} /\ Min(SolidFrom(r, from)) = start /\ start \in Nat
<1>1. start \in SolidFrom(r, from) /\ SolidFrom(r, from) \subseteq Nat
  BY DEF SolidFrom, FirstSolid
<1>2. ASSUME NEW j \in SolidFrom(r, from) PROVE start <= j
  <2>1. j \notin from..(start - 1)
    BY DEF SolidFrom, FirstSolid
  <2> QED BY <1>1, <2>1 DEF SolidFrom
<1> QED BY <1>1, <1>2, MinIs

LEMMA DecodeEnds ==
  ASSUME NEW body \in Bodies, NEW cap \in Nat, NEW from \in Nat
  PROVE  LET d == Decode(body, from, cap)
         IN /\ d.got = "maxBytes" => Len(body) > cap
            /\ d.got = "eof" => ~(Len(body) > cap) /\ SolidFrom(Readable(body, cap), from) = {}
            /\ d.got = "value" => SolidFrom(Readable(body, cap), from) # {}
            /\ d.got \in {"value", "eof", "syntax", "maxBytes"}
<1> DEFINE d == Decode(body, from, cap)
<1> DEFINE r == Readable(body, cap)
<1> DEFINE start == Min(SolidFrom(r, from))
<1>1. DecodesAs(d, body, from, cap, r, start)
  BY DecodeIs
<1>2. AtEnd(body, cap, "eof") = IF Len(body) > cap THEN "maxBytes" ELSE "eof"
  BY DEF AtEnd
<1>3. AtEnd(body, cap, "syntax") = IF Len(body) > cap THEN "maxBytes" ELSE "syntax"
  BY DEF AtEnd
<1>4. Len(r) \in Nat
  BY ReadableIs
<1> HIDE DEF d, r
<1>5. SolidFrom(r, from) # {} => Count(r, "junk", start, UpToEnd(r, start)) \in Nat
  <2> SUFFICES ASSUME SolidFrom(r, from) # {} PROVE start \in Nat
    BY <1>4, JunkType
  <2>1. SolidFrom(r, from) \subseteq Nat
    BY DEF SolidFrom
  <2>2. \E x \in SolidFrom(r, from) : \A y \in SolidFrom(r, from) : x <= y
    BY <2>1, LeastExists
  <2> QED BY <2>1, <2>2 DEF Min
<1> DEFINE junk == Count(r, "junk", start, UpToEnd(r, start))
<1> HIDE DEF start
<1>6. CASE SolidFrom(r, from) = {}
  <2>1. d = [got |-> AtEnd(body, cap, "eof"), next |-> from]
    BY <1>1, <1>6 DEF DecodesAs
  <2> QED BY <1>2, <1>6, <2>1 DEF d, r
<1>7. CASE SolidFrom(r, from) # {} /\ (r[start] # "open" \/ junk > 0)
  <2>1. d = [got |-> "syntax", next |-> from]
    BY <1>1, <1>5, <1>7 DEF DecodesAs
  <2> QED BY <1>7, <2>1 DEF d, r
<1>8. CASE SolidFrom(r, from) # {} /\ r[start] = "open" /\ junk = 0
  <2>1. \/ d = [got |-> AtEnd(body, cap, "syntax"), next |-> from]
        \/ d = [got |-> "value", next |-> Min(EndsOf(r, start)) + 1]
    BY <1>1, <1>8 DEF DecodesAs
  <2> QED BY <1>3, <1>8, <2>1 DEF d, r
<1> QED BY <1>5, <1>6, <1>7, <1>8

LEMMA DecodeBlank ==
  ASSUME NEW body \in Bodies, NEW cap \in Nat, NEW from \in Nat,
         \A i \in from..Len(Readable(body, cap)) : Readable(body, cap)[i] = "space"
  PROVE  Decode(body, from, cap).got = AtEnd(body, cap, "eof")
<1> DEFINE r == Readable(body, cap)
<1>1. SolidFrom(r, from) = {}
  BY DEF SolidFrom
<1>2. DecodesAs(Decode(body, from, cap), body, from, cap, r, Min(SolidFrom(r, from)))
  BY DecodeIs
<1> HIDE DEF r
<1> QED BY <1>1, <1>2 DEF DecodesAs

LEMMA DecodeSyntax ==
  ASSUME NEW body \in Bodies, NEW cap \in Nat, NEW from \in Nat, NEW start,
         FirstSolid(Readable(body, cap), from, start), Readable(body, cap)[start] # "open"
  PROVE  Decode(body, from, cap).got = "syntax"
<1> DEFINE r == Readable(body, cap)
<1>1. SolidFrom(r, from) # {} /\ Min(SolidFrom(r, from)) = start /\ start \in Nat
  BY StartIs
<1>2. DecodesAs(Decode(body, from, cap), body, from, cap, r, start)
  BY <1>1, DecodeIs
<1> HIDE DEF r
<1> QED BY <1>1, <1>2 DEF DecodesAs, r

LEMMA EndsAre ==
  ASSUME NEW r, NEW start \in Nat
  PROVE  EndsOf(r, start) = {j \in start..Len(r) : Depth(r, start, j) = 0}
<1>1. ASSUME NEW j \in start..Len(r)
      PROVE  Count(r, "open", start, j) = Count(r, "close", start, j) <=> Depth(r, start, j) = 0
  <2>1. Count(r, "open", start, j) \in Nat /\ Count(r, "close", start, j) \in Nat
    BY CountType
  <2> QED BY <2>1 DEF Depth
<1> QED BY <1>1 DEF EndsOf

LEMMA DecodeOpen ==
  ASSUME NEW body \in Bodies, NEW cap \in Nat, NEW from \in Nat, NEW start,
         FirstSolid(Readable(body, cap), from, start),
         \A j \in start..Len(Readable(body, cap)) : Depth(Readable(body, cap), start, j) # 0
  PROVE  Decode(body, from, cap).got \notin {"value", "eof"}
<1> DEFINE r == Readable(body, cap)
<1> DEFINE d == Decode(body, from, cap)
<1>1. SolidFrom(r, from) # {} /\ Min(SolidFrom(r, from)) = start /\ start \in Nat
  BY StartIs
<1>2. DecodesAs(d, body, from, cap, r, start)
  BY <1>1, DecodeIs
<1>3. EndsOf(r, start) = {}
  BY <1>1, EndsAre
<1>4. AtEnd(body, cap, "syntax") \in {"maxBytes", "syntax"}
  BY DEF AtEnd
<1>5. Len(r) \in Nat
  BY ReadableIs
<1> HIDE DEF r, d
<1>6. Count(r, "junk", start, UpToEnd(r, start)) \in Nat
  BY <1>1, <1>5, JunkType
<1> DEFINE junk == Count(r, "junk", start, UpToEnd(r, start))
<1>7. CASE r[start] # "open" \/ junk > 0
  <2>1. d.got = "syntax"
    BY <1>1, <1>2, <1>6, <1>7 DEF DecodesAs
  <2> QED BY <2>1 DEF d
<1>8. CASE r[start] = "open" /\ junk = 0
  <2>1. d.got = AtEnd(body, cap, "syntax")
    BY <1>1, <1>2, <1>3, <1>8 DEF DecodesAs
  <2> QED BY <1>4, <2>1 DEF d
<1> QED BY <1>6, <1>7, <1>8

LEMMA DecodeValue ==
  ASSUME NEW body \in Bodies, NEW cap \in Nat, NEW from \in Nat, NEW start, NEW e,
         FirstSolid(Readable(body, cap), from, start), Readable(body, cap)[start] = "open",
         e \in start..Len(Readable(body, cap)), Depth(Readable(body, cap), start, e) = 0,
         \A j \in start..(e - 1) : Depth(Readable(body, cap), start, j) # 0,
         \A j \in start..e : Readable(body, cap)[j] # "junk"
  PROVE  Decode(body, from, cap) = [got |-> "value", next |-> e + 1]
<1> DEFINE r == Readable(body, cap)
<1> DEFINE d == Decode(body, from, cap)
<1>1. SolidFrom(r, from) # {} /\ Min(SolidFrom(r, from)) = start /\ start \in Nat
  BY StartIs
<1>2. DecodesAs(d, body, from, cap, r, start)
  BY <1>1, DecodeIs
<1>3. EndsOf(r, start) = {j \in start..Len(r) : Depth(r, start, j) = 0}
  BY <1>1, EndsAre
<1> HIDE DEF r, d
<1>4. e \in EndsOf(r, start) /\ EndsOf(r, start) \subseteq Nat
  BY <1>1, <1>3 DEF r
<1>5. ASSUME NEW j \in EndsOf(r, start) PROVE e <= j
  <2>1. j \in start..Len(r) /\ Depth(r, start, j) = 0
    BY <1>3
  <2>2. j \notin start..(e - 1)
    BY <2>1 DEF r
  <2> QED BY <1>1, <1>4, <2>1, <2>2
<1>6. Min(EndsOf(r, start)) = e
  BY <1>4, <1>5, MinIs
<1>7. EndsOf(r, start) # {} /\ UpToEnd(r, start) = e
  BY <1>4, <1>6 DEF UpToEnd
<1>8. Count(r, "junk", start, e) = 0
  <2>1. {k \in start..e : r[k] = "junk"} = {}
    BY DEF r
  <2> QED BY <2>1, FS_EmptySet DEF Count
<1>9. d = [got |-> "value", next |-> e + 1]
  <2>1. r[start] = "open"
    BY DEF r
  <2> QED BY <1>1, <1>2, <1>6, <1>7, <1>8, <2>1 DEF DecodesAs
<1> QED BY <1>9 DEF d

Objects == {<<"open", "close">>, <<"open", "space", "open", "close", "close">>}
Solids == Objects \cup {<<"open">>, <<"junk">>}

LEMMA PieceBytes ==
  /\ \A b \in Solids : b \in Bodies /\ Len(b) >= 1 /\ b[1] # "space"
  /\ <<"space">> \in Bodies /\ Pieces = Solids \cup {<<"space">>} /\ <<"space">> \notin Solids
<1>1. <<"open", "close">> \in Bodies /\ Len(<<"open", "close">>) = 2
        /\ <<"open", "close">>[1] = "open"
  BY DEF Bodies, BodyBytes
<1>2. /\ <<"open", "space", "open", "close", "close">> \in Bodies
      /\ Len(<<"open", "space", "open", "close", "close">>) = 5
      /\ <<"open", "space", "open", "close", "close">>[1] = "open"
  BY DEF Bodies, BodyBytes
<1>3. <<"open">> \in Bodies /\ Len(<<"open">>) = 1 /\ <<"open">>[1] = "open"
  BY DEF Bodies, BodyBytes
<1>4. <<"junk">> \in Bodies /\ Len(<<"junk">>) = 1 /\ <<"junk">>[1] = "junk"
  BY DEF Bodies, BodyBytes
<1>5. \A b \in Solids : b \in Bodies /\ Len(b) \in {1, 2, 5} /\ b[1] \in {"open", "junk"}
  BY <1>1, <1>2, <1>3, <1>4, Zenon DEF Solids, Objects
<1>6. \A b \in Solids : b \in Bodies /\ Len(b) >= 1 /\ b[1] # "space"
  BY <1>5
<1>7. <<"space">> \in Bodies /\ <<"space">>[1] = "space"
  BY DEF Bodies, BodyBytes
<1>8. Pieces = Solids \cup {<<"space">>}
  BY DEF Pieces, Solids, Objects
<1> QED BY <1>6, <1>7, <1>8

LEMMA ObjectLengths == \A o \in Objects : Len(o) = 2 \/ Len(o) = 5
<1>1. Len(<<"open", "close">>) = 2 /\ Len(<<"open", "space", "open", "close", "close">>) = 5
  OBVIOUS
<1> QED BY <1>1, Zenon DEF Objects

(* A piece never closes more than it opens, and an object closes what it   *)
(* opened with its last byte.                                              *)
LEMMA PieceDepth ==
  ASSUME NEW s, NEW n \in Nat, NEW i \in Nat, i <= n + 1, NEW b \in Pieces,
         \A j \in 1..Len(b) : s[n + j] = b[j]
  PROVE  /\ \A j \in 1..Len(b) : Depth(s, i, n + j) >= Depth(s, i, n)
         /\ b \in Objects =>
              /\ Depth(s, i, n + Len(b)) = Depth(s, i, n)
              /\ \A j \in 1..(Len(b) - 1) : Depth(s, i, n + j) > Depth(s, i, n)
<1> DEFINE d(j) == Depth(s, i, n + j)
<1>1. ASSUME NEW j \in 1..5
      PROVE  /\ d(j - 1) \in Int /\ d(j) \in Int
             /\ s[n + j] = "open" => d(j) = d(j - 1) + 1
             /\ s[n + j] = "close" => d(j) = d(j - 1) - 1
             /\ s[n + j] \notin {"open", "close"} => d(j) = d(j - 1)
  <2> DEFINE h == n + (j - 1)
  <2>1. h \in Int /\ i <= h + 1 /\ h + 1 = n + j
    OBVIOUS
  <2> HIDE DEF h
  <2>2. /\ Depth(s, i, h) \in Int /\ Depth(s, i, h + 1) \in Int
        /\ s[h + 1] = "open" => Depth(s, i, h + 1) = Depth(s, i, h) + 1
        /\ s[h + 1] = "close" => Depth(s, i, h + 1) = Depth(s, i, h) - 1
        /\ s[h + 1] \notin {"open", "close"} => Depth(s, i, h + 1) = Depth(s, i, h)
    BY <2>1, DepthStep
  <2>3. d(j - 1) = Depth(s, i, h)
    BY DEF h
  <2> QED BY <2>1, <2>2, <2>3
<1>2. d(0) = Depth(s, i, n)
  OBVIOUS
<1> HIDE DEF d
<1>3. /\ d(0) \in Int /\ d(1) \in Int /\ d(2) \in Int /\ d(3) \in Int /\ d(4) \in Int
            /\ d(5) \in Int
      /\ s[n + 1] = "open" => d(1) = d(0) + 1
      /\ s[n + 1] \notin {"open", "close"} => d(1) = d(0)
      /\ s[n + 2] = "close" => d(2) = d(1) - 1
      /\ s[n + 2] \notin {"open", "close"} => d(2) = d(1)
      /\ s[n + 3] = "open" => d(3) = d(2) + 1
      /\ s[n + 4] = "close" => d(4) = d(3) - 1
      /\ s[n + 5] = "close" => d(5) = d(4) - 1
  <2>1. 1 - 1 = 0 /\ 2 - 1 = 1 /\ 3 - 1 = 2 /\ 4 - 1 = 3 /\ 5 - 1 = 4
    OBVIOUS
  <2>2. 1 \in 1..5 /\ 2 \in 1..5 /\ 3 \in 1..5 /\ 4 \in 1..5 /\ 5 \in 1..5
    OBVIOUS
  <2> QED BY <1>1, <2>1, <2>2
<1>4. \A j \in {0, 1, 2, 3, 4, 5} : d(j) \in Int
  BY <1>3, Zenon
<1> DEFINE GrowsTo(k) == \A j \in 1..k : d(j) >= d(0)
<1> DEFINE ClosesAt(k) == d(k) = d(0) /\ \A j \in 1..(k - 1) : d(j) > d(0)
<1>5. ASSUME b = <<"open", "close">>
      PROVE  GrowsTo(Len(b)) /\ (b \in Objects => ClosesAt(Len(b)))
  <2>1. s[n + 1] = "open" /\ s[n + 2] = "close"
    BY <1>5
  <2>2. d(1) > d(0) /\ d(2) = d(0)
    BY <1>3, <2>1
  <2>3. Len(b) = 2
    BY <1>5
  <2>4. (\A j \in 1..2 : j = 1 \/ j = 2) /\ (\A j \in 1..(2 - 1) : j = 1)
    OBVIOUS
  <2>5. d(1) >= d(0) /\ d(2) >= d(0)
    BY <1>4, <2>2
  <2>6. GrowsTo(2) /\ ClosesAt(2)
    BY <2>2, <2>4, <2>5, Zenon
  <2> QED BY <2>3, <2>6, Zenon
<1>6. ASSUME b = <<"open", "space", "open", "close", "close">>
      PROVE  GrowsTo(Len(b)) /\ (b \in Objects => ClosesAt(Len(b)))
  <2>1. /\ s[n + 1] = "open" /\ s[n + 2] = "space" /\ s[n + 3] = "open"
        /\ s[n + 4] = "close" /\ s[n + 5] = "close"
    BY <1>6
  <2>2. d(1) > d(0) /\ d(2) > d(0) /\ d(3) > d(0) /\ d(4) > d(0) /\ d(5) = d(0)
    <3>1. d(1) = d(0) + 1 /\ d(2) = d(1) /\ d(3) = d(2) + 1 /\ d(4) = d(3) - 1 /\ d(5) = d(4) - 1
      <4>1. s[n + 2] \notin {"open", "close"}
        BY <2>1
      <4> QED BY <1>3, <2>1, <4>1, Zenon
    <3> QED BY <1>4, <3>1
  <2>3. Len(b) = 5
    BY <1>6
  <2>4. /\ \A j \in 1..5 : j = 1 \/ j = 2 \/ j = 3 \/ j = 4 \/ j = 5
        /\ \A j \in 1..(5 - 1) : j = 1 \/ j = 2 \/ j = 3 \/ j = 4
    OBVIOUS
  <2>5. d(1) >= d(0) /\ d(2) >= d(0) /\ d(3) >= d(0) /\ d(4) >= d(0) /\ d(5) >= d(0)
    BY <1>4, <2>2
  <2>6. GrowsTo(5) /\ ClosesAt(5)
    BY <2>2, <2>4, <2>5, Zenon
  <2> QED BY <2>3, <2>6, Zenon
<1>7. ASSUME b \in {<<"open">>, <<"junk">>, <<"space">>}
      PROVE  GrowsTo(Len(b)) /\ (b \in Objects => ClosesAt(Len(b)))
  <2>1. Len(b) = 1 /\ s[n + 1] \in {"open", "junk", "space"}
    BY <1>7
  <2>2. d(1) >= d(0)
    BY <1>3, <2>1
  <2>3. \A j \in 1..1 : j = 1
    OBVIOUS
  <2>4. GrowsTo(1)
    BY <1>3, <2>2, <2>3
  <2>5. b \notin Objects
    BY <2>1, ObjectLengths
  <2>6. Len(b) = 1
    BY <2>1
  <2> QED BY <2>4, <2>5, <2>6, Zenon
<1>8. \/ b = <<"open", "close">> \/ b = <<"open", "space", "open", "close", "close">>
      \/ b \in {<<"open">>, <<"junk">>, <<"space">>}
  BY Zenon DEF Pieces
<1>9. GrowsTo(Len(b)) /\ (b \in Objects => ClosesAt(Len(b)))
  BY <1>5, <1>6, <1>7, <1>8, Zenon
<1> QED BY <1>2, <1>9 DEF d

LEMMA DepthType == ASSUME NEW s, NEW i \in Nat, NEW j \in Int PROVE Depth(s, i, j) \in Int
<1>1. Count(s, "open", i, j) \in Nat /\ Count(s, "close", i, j) \in Nat
  BY CountType
<1> QED BY <1>1 DEF Depth

-----------------------------------------------------------------------------
WholeObject(tx, start, e) ==
  /\ tx[start] = "open" /\ e \in start..Len(tx) /\ Depth(tx, start, e) = 0
  /\ \A j \in start..(e - 1) : Depth(tx, start, j) > 0
  /\ \A j \in start..e : tx[j] # "junk"

FirstPiece(tx, m, start) ==
  /\ start \in 1..Len(tx) /\ \A i \in 1..(start - 1) : tx[i] = "space"
  /\ \/ m[1] = <<"junk">> /\ tx[start] = "junk"
     \/ /\ m[1] = <<"open">> /\ tx[start] = "open"
        /\ \A j \in start..Len(tx) : Depth(tx, start, j) > 0
     \/ /\ m[1] \in Objects
        /\ \E e : /\ WholeObject(tx, start, e)
                  /\ (\A i \in (e + 1)..Len(tx) : tx[i] = "space") <=> Len(m) = 1

(* A body, and what is not white space in it.                              *)
BodyForm(tx, m) ==
  /\ tx \in Bodies /\ m \in Seq(Solids)
  /\ IF m = <<>> THEN \A i \in 1..Len(tx) : tx[i] = "space"
     ELSE \E start : FirstPiece(tx, m, start)

LEMMA BodyParts ==
  ASSUME NEW a \in Bodies, NEW b \in Bodies
  PROVE  /\ a \o b \in Bodies /\ Len(a \o b) = Len(a) + Len(b) /\ Len(a) \in Nat /\ Len(b) \in Nat
         /\ \A i \in 1..Len(a) : (a \o b)[i] = a[i]
         /\ \A i \in 1..Len(b) : (a \o b)[Len(a) + i] = b[i]
BY DEF Bodies

FollowsIn(s, a, b) ==
  /\ s \in Bodies /\ Len(s) = Len(a) + Len(b) /\ Len(a) \in Nat /\ Len(b) \in Nat
  /\ \A i \in 1..Len(a) : s[i] = a[i]
  /\ \A i \in 1..Len(b) : s[Len(a) + i] = b[i]
LEMMA BodyFollows == ASSUME NEW a \in Bodies, NEW b \in Bodies PROVE FollowsIn(a \o b, a, b)
BY BodyParts DEF FollowsIn

LEMMA BlankThenSpace ==
  ASSUME NEW tx, BodyForm(tx, <<>>)
  PROVE  BodyForm(tx \o <<"space">>, <<>>)
<1> DEFINE b == <<"space">>
<1> DEFINE s == tx \o b
<1>1. tx \in Bodies /\ b \in Bodies /\ Len(b) = 1 /\ b[1] = "space"
        /\ \A i \in 1..Len(tx) : tx[i] = "space"
  BY PieceBytes DEF BodyForm
<1> HIDE DEF b
<1>2. /\ s \in Bodies /\ Len(s) = Len(tx) + 1 /\ Len(tx) \in Nat
      /\ (\A i \in 1..Len(tx) : s[i] = tx[i]) /\ s[Len(tx) + 1] = "space"
  <2>1. FollowsIn(s, tx, b)
    BY <1>1, BodyFollows, Zenon
  <2> HIDE DEF s
  <2> QED BY <1>1, <2>1 DEF FollowsIn
<1> HIDE DEF s
<1>3. \A i \in 1..Len(s) : s[i] = "space"
  <2> TAKE i \in 1..Len(s)
  <2>1. i \in 1..Len(tx) \/ i = Len(tx) + 1
    BY <1>2
  <2> QED BY <1>1, <1>2, <2>1
<1>4. <<>> \in Seq(Solids)
  OBVIOUS
<1> QED BY <1>2, <1>3, <1>4 DEF BodyForm, s, b

LEMMA BlankThenSolid ==
  ASSUME NEW tx, BodyForm(tx, <<>>), NEW b \in Solids
  PROVE  BodyForm(tx \o b, <<b>>)
<1> DEFINE s == tx \o b
<1> DEFINE n == Len(tx)
<1> DEFINE m == <<b>>
<1>1. tx \in Bodies /\ b \in Bodies /\ Len(b) >= 1 /\ b \in Pieces
        /\ \A i \in 1..Len(tx) : tx[i] = "space"
  BY PieceBytes DEF BodyForm
<1>2. /\ s \in Bodies /\ Len(s) = n + Len(b) /\ n \in Nat /\ Len(b) \in Nat
      /\ (\A i \in 1..n : s[i] = tx[i]) /\ \A i \in 1..Len(b) : s[n + i] = b[i]
  BY <1>1, BodyParts
<1>3. m \in Seq(Solids) /\ m[1] = b /\ Len(m) = 1 /\ m # <<>>
  OBVIOUS
<1> HIDE DEF s, m
<1>4. n + 1 \in 1..Len(s) /\ n + 1 - 1 = n /\ s[n + 1] = b[1]
  BY <1>1, <1>2
<1>5. Depth(s, n + 1, n) = 0
  <2>1. n + 1 \in Nat /\ (n + 1) - 1 = n
    BY <1>2
  <2>2. Depth(s, n + 1, (n + 1) - 1) = 0
    BY <2>1, NoDepth
  <2> QED BY <2>1, <2>2
<1>6. /\ \A j \in 1..Len(b) : Depth(s, n + 1, n + j) >= 0
      /\ b \in Objects =>
           Depth(s, n + 1, n + Len(b)) = 0 /\ \A j \in 1..(Len(b) - 1) : Depth(s, n + 1, n + j) > 0
  <2>1. n + 1 \in Nat /\ n + 1 <= n + 1
    BY <1>2
  <2> DEFINE h == n + 1
  <2>2. h \in Nat /\ h <= n + 1
    BY <2>1
  <2> HIDE DEF h
  <2>3. /\ \A j \in 1..Len(b) : Depth(s, h, n + j) >= Depth(s, h, n)
        /\ b \in Objects =>
             /\ Depth(s, h, n + Len(b)) = Depth(s, h, n)
             /\ \A j \in 1..(Len(b) - 1) : Depth(s, h, n + j) > Depth(s, h, n)
    BY <1>1, <1>2, <2>2, PieceDepth
  <2> QED BY <1>5, <2>3 DEF h
<1>7. \A i \in 1..(n + 1 - 1) : s[i] = "space"
  BY <1>1, <1>2
<1>8. FirstPiece(s, m, n + 1)
  <2>1. CASE b = <<"junk">>
    <3>1. s[n + 1] = "junk"
      BY <1>4, <2>1
    <3> QED BY <1>3, <1>4, <1>7, <2>1, <3>1 DEF FirstPiece
  <2>2. CASE b = <<"open">>
    <3>1. s[n + 1] = "open" /\ Len(s) = n + 1
      BY <1>2, <1>4, <2>2
    <3>2. Depth(s, n + 1, n + 1) = Depth(s, n + 1, n) + 1
      <4> DEFINE h == n + 1
      <4>1. h \in Nat /\ h <= n + 1 /\ n \in Int /\ s[n + 1] = "open"
        BY <1>2, <3>1
      <4> HIDE DEF h
      <4>2. Depth(s, h, n + 1) = Depth(s, h, n) + 1
        BY <4>1, DepthStep
      <4> QED BY <4>2 DEF h
    <3>3. \A j \in (n + 1)..Len(s) : Depth(s, n + 1, j) > 0
      BY <1>2, <1>5, <3>1, <3>2
    <3> QED BY <1>3, <1>4, <1>7, <2>2, <3>1, <3>3 DEF FirstPiece
  <2>3. CASE b \in Objects
    <3> DEFINE e == n + Len(b)
    <3>1. b[1] = "open" /\ \A j \in 1..Len(b) : b[j] # "junk"
      <4>1. CASE b = <<"open", "close">>
        BY <4>1
      <4>2. CASE b = <<"open", "space", "open", "close", "close">>
        BY <4>2
      <4> QED BY <2>3, <4>1, <4>2 DEF Objects
    <3>2. e \in (n + 1)..Len(s) /\ Depth(s, n + 1, e) = 0 /\ e = Len(s)
      BY <1>1, <1>2, <1>6, <2>3
    <3>3. \A j \in (n + 1)..(e - 1) : Depth(s, n + 1, j) > 0
      <4> TAKE j \in (n + 1)..(e - 1)
      <4>1. j - n \in 1..(Len(b) - 1) /\ n + (j - n) = j
        BY <1>2
      <4> QED BY <1>6, <2>3, <4>1
    <3>4. \A j \in (n + 1)..e : s[j] # "junk"
      <4> TAKE j \in (n + 1)..e
      <4> DEFINE i == j - n
      <4>1. i \in 1..Len(b) /\ n + i = j
        BY <1>2
      <4> HIDE DEF i
      <4>2. s[n + i] = b[i] /\ b[i] # "junk"
        BY <1>2, <3>1, <4>1
      <4> QED BY <4>1, <4>2
    <3>5. WholeObject(s, n + 1, e)
      BY <1>4, <3>1, <3>2, <3>3, <3>4 DEF WholeObject
    <3>6. (\A i \in (e + 1)..Len(s) : s[i] = "space") <=> Len(m) = 1
      BY <1>2, <1>3, <3>2
    <3> HIDE DEF e
    <3> QED BY <1>3, <1>4, <1>7, <2>3, <3>5, <3>6 DEF FirstPiece
  <2> QED BY <2>1, <2>2, <2>3 DEF Solids
<1> QED BY <1>2, <1>3, <1>8 DEF BodyForm, s, m

LEMMA MorePieces ==
  ASSUME NEW tx, NEW m, BodyForm(tx, m), m # <<>>, NEW b \in Pieces
  PROVE  BodyForm(tx \o b, IF b = <<"space">> THEN m ELSE Append(m, b))
<1> DEFINE s == tx \o b
<1> DEFINE n == Len(tx)
<1> DEFINE m2 == IF b = <<"space">> THEN m ELSE Append(m, b)
<1>1. PICK start : FirstPiece(tx, m, start)
  BY DEF BodyForm
<1>2. tx \in Bodies /\ m \in Seq(Solids) /\ b \in Bodies
  BY PieceBytes DEF BodyForm
<1>3. /\ s \in Bodies /\ Len(s) = n + Len(b) /\ n \in Nat /\ Len(b) \in Nat
      /\ (\A i \in 1..n : s[i] = tx[i]) /\ \A i \in 1..Len(b) : s[n + i] = b[i]
  BY <1>2, BodyParts
<1>4. /\ m2 \in Seq(Solids) /\ m2[1] = m[1] /\ m2 # <<>>
      /\ IF b = <<"space">> THEN m2 = m ELSE Len(m2) = Len(m) + 1 /\ Len(m) >= 1
  <2>1. b # <<"space">> => b \in Solids
    BY PieceBytes
  <2> QED BY <1>2, <2>1
<1>5. start \in 1..n /\ start \in Nat /\ \A i \in 1..(start - 1) : tx[i] = "space"
  BY <1>1, <1>3 DEF FirstPiece
<1> HIDE DEF s, m2, n
<1>6. start \in 1..Len(s) /\ \A i \in 1..(start - 1) : s[i] = "space"
  BY <1>3, <1>5
<1>7. \A j \in start..n : Depth(s, start, j) = Depth(tx, start, j)
  <2> TAKE j \in start..n
  <2>1. \A k \in start..j : s[k] = tx[k]
    BY <1>3, <1>5
  <2> QED BY <1>3, <1>5, <2>1, SameDepth
<1>8. \A j \in 1..Len(b) : Depth(s, start, n + j) >= Depth(s, start, n)
  BY <1>3, <1>5, PieceDepth
<1>9. FirstPiece(s, m2, start)
  <2>1. CASE m[1] = <<"junk">> /\ tx[start] = "junk"
    BY <1>3, <1>4, <1>5, <1>6, <2>1 DEF FirstPiece
  <2>2. CASE m[1] = <<"open">> /\ tx[start] = "open"
               /\ \A j \in start..Len(tx) : Depth(tx, start, j) > 0
    <3>1. ASSUME NEW j \in start..Len(s) PROVE Depth(s, start, j) > 0
      <4>1. CASE j <= n
        BY <1>3, <1>5, <1>7, <2>2, <4>1 DEF n
      <4>2. CASE j > n
        <5> DEFINE i == j - n
        <5>1. i \in 1..Len(b) /\ n + i = j
          BY <1>3, <1>5, <4>2
        <5>2. n \in start..n
          BY <1>3, <1>5
        <5>3. Depth(s, start, n) > 0
          BY <1>7, <2>2, <5>2 DEF n
        <5>4. Depth(s, start, j) >= Depth(s, start, n)
          <6> HIDE DEF i
          <6> QED BY <1>8, <5>1
        <5>5. Depth(s, start, n) \in Int /\ Depth(s, start, j) \in Int
          BY <1>3, <1>5, DepthType
        <5> QED BY <5>3, <5>4, <5>5
      <4> QED BY <1>3, <1>5, <4>1, <4>2
    <3>2. s[start] = "open"
      BY <1>3, <1>5, <2>2
    <3> QED BY <1>4, <1>6, <2>2, <3>1, <3>2 DEF FirstPiece
  <2>3. CASE /\ m[1] \in Objects
             /\ \E e : /\ WholeObject(tx, start, e)
                       /\ (\A i \in (e + 1)..Len(tx) : tx[i] = "space") <=> Len(m) = 1
    <3>1. PICK e : /\ WholeObject(tx, start, e)
                   /\ (\A i \in (e + 1)..Len(tx) : tx[i] = "space") <=> Len(m) = 1
      BY <2>3
    <3>2. e \in start..n /\ e \in start..Len(s)
      BY <1>3, <1>5, <3>1 DEF WholeObject, n
    <3>3. WholeObject(s, start, e)
      <4>1. s[start] = "open" /\ Depth(s, start, e) = 0
        BY <1>3, <1>5, <1>7, <3>1, <3>2 DEF WholeObject
      <4>2. \A j \in start..(e - 1) : Depth(s, start, j) > 0
        BY <1>3, <1>5, <1>7, <3>1, <3>2 DEF WholeObject
      <4>3. ASSUME NEW j \in start..e PROVE s[j] # "junk"
        <5>1. j \in 1..n
          BY <1>3, <1>5, <3>2
        <5>2. s[j] = tx[j]
          BY <1>3, <5>1
        <5>3. tx[j] # "junk"
          BY <3>1 DEF WholeObject
        <5> QED BY <5>2, <5>3
      <4> QED BY <3>2, <4>1, <4>2, <4>3 DEF WholeObject
    <3>4. (\A i \in (e + 1)..Len(s) : s[i] = "space") <=> Len(m2) = 1
      <4>1. CASE b = <<"space">>
        <5>1. Len(s) = n + 1 /\ s[n + 1] = "space" /\ m2 = m
          BY <1>3, <1>4, <4>1
        <5>2. \A i \in (e + 1)..Len(s) : i \in (e + 1)..n \/ i = n + 1
          BY <1>3, <1>5, <3>2, <5>1
        <5>3. \A i \in (e + 1)..n : i \in 1..n /\ i \in (e + 1)..Len(s)
          BY <1>3, <1>5, <3>2, <5>1
        <5> QED BY <1>3, <3>1, <5>1, <5>2, <5>3 DEF n
      <4>2. CASE b # <<"space">>
        <5>1. b \in Solids
          BY <4>2, PieceBytes
        <5>2. 1 \in 1..Len(b) /\ b[1] # "space"
          BY <1>3, <5>1, PieceBytes
        <5>3. n + 1 \in (e + 1)..Len(s) /\ s[n + 1] # "space"
          BY <1>3, <1>5, <3>2, <5>2
        <5>4. Len(m) \in Nat
          BY <1>2
        <5>5. Len(m2) # 1
          <6>1. Len(m2) = Len(m) + 1 /\ Len(m) >= 1
            BY <1>4, <4>2, Zenon
          <6> QED BY <5>4, <6>1
        <5>6. ~ \A i \in (e + 1)..Len(s) : s[i] = "space"
          BY <5>3
        <5> QED BY <5>5, <5>6
      <4> QED BY <4>1, <4>2
    <3> QED BY <1>4, <1>6, <2>3, <3>3, <3>4 DEF FirstPiece
  <2> QED BY <1>1, <2>1, <2>2, <2>3 DEF FirstPiece
<1> QED BY <1>3, <1>4, <1>9 DEF BodyForm, s, m2

(* What of a body can be read, and what was written.                       *)
ReadOf(r, tx, cap) ==
  /\ r \in Bodies /\ Len(r) \in Nat /\ Len(r) <= Len(tx) /\ Len(tx) \in Nat
  /\ \A i \in 1..Len(r) : r[i] = tx[i]
  /\ Len(tx) <= cap => Len(r) = Len(tx)

LEMMA ReadIs == ASSUME NEW tx \in Bodies, NEW cap \in Nat PROVE ReadOf(Readable(tx, cap), tx, cap)
BY ReadableIs DEF ReadOf

LEMMA EofIs ==
  ASSUME NEW tx \in Bodies, NEW cap \in Nat
  PROVE  AtEnd(tx, cap, "eof") = IF Len(tx) <= cap THEN "eof" ELSE "maxBytes"
<1>1. Len(tx) \in Nat
  BY DEF Bodies
<1> QED BY <1>1 DEF AtEnd

(* Decoding the first value of a body.                                     *)
FirstOf(d, tx, m, cap) ==
  /\ d.got = "eof" <=> Len(tx) <= cap /\ m = <<>>
  /\ d.got = "value" =>
       /\ m # <<>> /\ m[1] \in Objects /\ d.next \in Nat \ {0}
       /\ (\A i \in d.next..Len(tx) : tx[i] = "space") <=> Len(m) = 1
  /\ m # <<>> /\ m[1] \in Objects /\ Len(tx) <= cap => d.got = "value"

LEMMA FirstWhole ==
  ASSUME NEW tx, NEW m, BodyForm(tx, m), m # <<>>, NEW cap \in Nat, NEW start, NEW e,
         FirstSolid(Readable(tx, cap), 1, start), m[1] \in Objects, WholeObject(tx, start, e),
         (\A i \in (e + 1)..Len(tx) : tx[i] = "space") <=> Len(m) = 1
  PROVE  FirstOf(Decode(tx, 1, cap), tx, m, cap)
<1> DEFINE r == Readable(tx, cap)
<1> DEFINE d == Decode(tx, 1, cap)
<1>1. tx \in Bodies
  BY DEF BodyForm
<1>2. ReadOf(r, tx, cap)
  BY <1>1, ReadIs
<1>3. start \in 1..Len(r) /\ start \in Nat
  BY <1>2 DEF FirstSolid, ReadOf
<1>4. ASSUME NEW j \in start..Len(r) PROVE Depth(r, start, j) = Depth(tx, start, j)
  <2> HIDE DEF r
  <2>1. \A k \in start..j : r[k] = tx[k]
    BY <1>2, <1>3 DEF ReadOf
  <2> QED BY <1>3, <2>1, SameDepth
<1>5. CASE e <= Len(r)
  <2> HIDE DEF r
  <2>1. e \in start..Len(r) /\ e \in Nat
    BY <1>2, <1>3, <1>5 DEF WholeObject, ReadOf
  <2>2. r[start] = "open" /\ Depth(r, start, e) = 0
    BY <1>2, <1>3, <1>4, <2>1 DEF WholeObject, ReadOf
  <2>3. ASSUME NEW j \in start..(e - 1) PROVE Depth(r, start, j) # 0
    <3>1. j \in start..Len(r) /\ Depth(tx, start, j) > 0
      BY <1>2, <1>3, <2>1 DEF WholeObject, ReadOf
    <3>2. Depth(r, start, j) = Depth(tx, start, j)
      BY <1>4, <3>1
    <3> QED BY <3>1, <3>2
  <2>4. ASSUME NEW j \in start..e PROVE r[j] # "junk"
    <3>1. j \in 1..Len(r)
      BY <1>2, <1>3, <2>1 DEF ReadOf
    <3>2. r[j] = tx[j] /\ tx[j] # "junk"
      BY <1>2, <3>1 DEF WholeObject, ReadOf
    <3> QED BY <3>2
  <2>5. d = [got |-> "value", next |-> e + 1]
    BY <1>1, <2>1, <2>2, <2>3, <2>4, DecodeValue DEF r
  <2> HIDE DEF d
  <2>6. d.got = "value" /\ d.next = e + 1 /\ e + 1 \in Nat \ {0}
    BY <2>1, <2>5
  <2> QED BY <2>6 DEF FirstOf, d
<1>6. CASE ~(e <= Len(r))
  <2> HIDE DEF r
  <2>1. ASSUME NEW j \in start..Len(r) PROVE Depth(r, start, j) # 0
    <3>1. j \in start..(e - 1)
      BY <1>2, <1>3, <1>6 DEF WholeObject, ReadOf
    <3>2. Depth(tx, start, j) > 0
      BY <3>1 DEF WholeObject
    <3> QED BY <1>4, <3>2
  <2>2. d.got \notin {"value", "eof"}
    BY <1>1, <2>1, DecodeOpen DEF r
  <2>3. ~(Len(tx) <= cap)
    BY <1>2, <1>3, <1>6 DEF WholeObject, ReadOf
  <2> HIDE DEF d
  <2> QED BY <2>2, <2>3 DEF FirstOf, d
<1> QED BY <1>5, <1>6

LEMMA FirstDecode ==
  ASSUME NEW tx, NEW m, BodyForm(tx, m), NEW cap \in Nat
  PROVE  FirstOf(Decode(tx, 1, cap), tx, m, cap)
<1> DEFINE r == Readable(tx, cap)
<1> DEFINE d == Decode(tx, 1, cap)
<1>1. tx \in Bodies
  BY DEF BodyForm
<1>2. ReadOf(r, tx, cap)
  BY <1>1, ReadIs
<1>3. AtEnd(tx, cap, "eof") = IF Len(tx) <= cap THEN "eof" ELSE "maxBytes"
  BY <1>1, EofIs
<1>4. CASE m = <<>>
  <2>1. \A i \in 1..Len(r) : r[i] = "space"
    <3> HIDE DEF r
    <3>1. \A i \in 1..Len(tx) : tx[i] = "space"
      BY <1>4 DEF BodyForm
    <3> QED BY <1>2, <3>1 DEF ReadOf
  <2>2. d.got = AtEnd(tx, cap, "eof")
    BY <1>1, <2>1, DecodeBlank
  <2> HIDE DEF d
  <2> QED BY <1>3, <1>4, <2>2 DEF FirstOf, d
<1>5. ASSUME m # <<>>, NEW start, FirstPiece(tx, m, start) PROVE FirstOf(d, tx, m, cap)
  <2>1. start \in 1..Len(tx) /\ \A i \in 1..(start - 1) : tx[i] = "space"
    BY <1>5 DEF FirstPiece
  <2>2. CASE ~(start <= Len(r))
    <3> HIDE DEF r
    <3>1. \A i \in 1..Len(r) : r[i] = "space"
      <4> TAKE i \in 1..Len(r)
      <4>1. i \in 1..(start - 1)
        BY <1>2, <2>1, <2>2 DEF ReadOf
      <4> QED BY <1>2, <2>1, <4>1 DEF ReadOf
    <3>2. d.got = AtEnd(tx, cap, "eof")
      BY <1>1, <3>1, DecodeBlank DEF r
    <3>3. ~(Len(tx) <= cap)
      BY <1>2, <2>1, <2>2 DEF ReadOf
    <3>4. d.got = "maxBytes"
      BY <1>3, <3>2, <3>3
    <3> HIDE DEF d
    <3> QED BY <3>3, <3>4 DEF FirstOf
  <2>3. CASE start <= Len(r)
    <3>1. start \in 1..Len(r) /\ start \in Nat /\ \A i \in 1..(start - 1) : r[i] = "space"
      <4> HIDE DEF r
      <4>1. start \in 1..Len(r) /\ start \in Nat
        BY <1>2, <2>1, <2>3 DEF ReadOf
      <4>2. \A i \in 1..(start - 1) : i \in 1..Len(r)
        BY <1>2, <4>1 DEF ReadOf
      <4> QED BY <1>2, <2>1, <4>1, <4>2 DEF ReadOf
    <3>2. r[start] = tx[start]
      BY <1>2, <3>1 DEF ReadOf
    <3>3. ASSUME tx[start] # "space" PROVE FirstSolid(r, 1, start)
      BY <3>1, <3>2, <3>3 DEF FirstSolid
    <3>4. CASE m[1] = <<"junk">> /\ tx[start] = "junk"
      <4>1. d.got = "syntax"
        BY <1>1, <3>2, <3>3, <3>4, DecodeSyntax
      <4>2. m[1] \notin Objects
        <5>1. \A o \in Objects : Len(o) = 2 \/ Len(o) = 5
          BY ObjectLengths
        <5>2. Len(m[1]) = 1
          BY <3>4
        <5> QED BY <5>1, <5>2
      <4> HIDE DEF d
      <4> QED BY <1>5, <4>1, <4>2 DEF FirstOf
    <3>5. CASE m[1] = <<"open">> /\ tx[start] = "open"
                 /\ \A j \in start..Len(tx) : Depth(tx, start, j) > 0
      <4>1. ASSUME NEW j \in start..Len(r) PROVE Depth(r, start, j) # 0
        <5> HIDE DEF r
        <5>1. \A k \in start..j : r[k] = tx[k]
          BY <1>2, <3>1 DEF ReadOf
        <5>2. Depth(r, start, j) = Depth(tx, start, j)
          BY <3>1, <5>1, SameDepth
        <5>3. j \in start..Len(tx)
          BY <1>2, <3>1 DEF ReadOf
        <5>4. Depth(tx, start, j) > 0
          BY <3>5, <5>3
        <5> QED BY <5>2, <5>4
      <4>2. d.got \notin {"value", "eof"}
        BY <1>1, <3>3, <3>5, <4>1, DecodeOpen
      <4>3. m[1] \notin Objects
        <5>1. \A o \in Objects : Len(o) = 2 \/ Len(o) = 5
          BY ObjectLengths
        <5>2. Len(m[1]) = 1
          BY <3>5
        <5> QED BY <5>1, <5>2
      <4> HIDE DEF d
      <4> QED BY <1>5, <4>2, <4>3 DEF FirstOf
    <3>6. CASE /\ m[1] \in Objects
               /\ \E e : /\ WholeObject(tx, start, e)
                         /\ (\A i \in (e + 1)..Len(tx) : tx[i] = "space") <=> Len(m) = 1
      <4>1. PICK e : /\ WholeObject(tx, start, e)
                     /\ (\A i \in (e + 1)..Len(tx) : tx[i] = "space") <=> Len(m) = 1
        BY <3>6
      <4>2. tx[start] # "space"
        BY <4>1 DEF WholeObject
      <4> QED BY <1>5, <3>3, <3>6, <4>1, <4>2, FirstWhole
    <3> HIDE DEF d
    <3> QED BY <1>5, <3>4, <3>5, <3>6 DEF FirstPiece
  <2> QED BY <2>2, <2>3
<1> HIDE DEF d
<1> QED BY <1>4, <1>5 DEF BodyForm, d

-----------------------------------------------------------------------------
(* DecodeJSONInto, by how its two calls of Decode end.                     *)
ResultOf(result, first, extra) ==
  result = IF first.got # "value" THEN first.got
           ELSE CASE extra.got = "eof" -> "ok"
                  [] extra.got = "value" -> "trailing"
                  [] extra.got \in {"syntax", "maxBytes"} -> extra.got

LEMMA ResultIs ==
  ASSUME NEW body, NEW cap
  PROVE  LET first == Decode(body, 1, cap)
         IN ResultOf(DecodeJSONInto(body, cap), first, Decode(body, first.next, cap))
BY Zenon DEF ResultOf, DecodeJSONInto

Ending(d) == d.got \in {"value", "eof", "syntax", "maxBytes"}

LEMMA ResultBy ==
  ASSUME NEW result, NEW first, NEW extra, ResultOf(result, first, extra), Ending(first), Ending(extra)
  PROVE  /\ result = "ok" <=> first.got = "value" /\ extra.got = "eof"
         /\ result = "eof" <=> first.got = "eof"
         /\ result = "trailing" <=> first.got = "value" /\ extra.got = "value"
         /\ result = "maxBytes" <=> first.got = "maxBytes" \/ (first.got = "value" /\ extra.got = "maxBytes")
<1> DEFINE f == first.got
<1> DEFINE x == extra.got
<1>1. f \in {"value", "eof", "syntax", "maxBytes"} /\ x \in {"value", "eof", "syntax", "maxBytes"}
  BY DEF Ending
<1>2. result = IF f # "value" THEN f
               ELSE CASE x = "eof" -> "ok" [] x = "value" -> "trailing" [] x \in {"syntax", "maxBytes"} -> x
  BY DEF ResultOf
<1> HIDE DEF f, x
<1>3. /\ result = "ok" <=> f = "value" /\ x = "eof"
      /\ result = "eof" <=> f = "eof"
      /\ result = "trailing" <=> f = "value" /\ x = "value"
      /\ result = "maxBytes" <=> f = "maxBytes" \/ (f = "value" /\ x = "maxBytes")
  <2>1. CASE f # "value"
    <3>1. result = f
      BY <1>2, <2>1
    <3>2. f = "eof" \/ f = "syntax" \/ f = "maxBytes"
      BY <1>1, <2>1
    <3>3. CASE f = "eof"
      BY <3>1, <3>3
    <3>4. CASE f = "syntax"
      BY <3>1, <3>4
    <3>5. CASE f = "maxBytes"
      BY <3>1, <3>5
    <3> QED BY <3>2, <3>3, <3>4, <3>5
  <2>2. CASE f = "value" /\ x = "eof"
    BY <1>2, <2>2
  <2>3. CASE f = "value" /\ x = "value"
    BY <1>2, <2>3
  <2>4. CASE f = "value" /\ x \in {"syntax", "maxBytes"}
    <3>1. result = x
      BY <1>2, <2>4
    <3> QED BY <2>4, <3>1
  <2> QED BY <1>1, <2>1, <2>2, <2>3, <2>4
<1> QED BY <1>3 DEF f, x

(* Every wrapper of a writer the walk reaches the end of unwraps.          *)
LEMMA ReachesAll ==
  ASSUME NEW wrappers, Len(wrappers) \in Nat, ReachesServer(wrappers)
  PROVE  Len(wrappers) <= UnwrapWalkLimit /\ \A i \in 1..Len(wrappers) : wrappers[i] = "unwraps"
<1> DEFINE S == {i \in 0..Len(wrappers) : i = Len(wrappers) \/ wrappers[i + 1] # "unwraps"}
<1> DEFINE T == S \cup {UnwrapWalkLimit}
<1>1. T \subseteq Nat /\ T # {}
  BY WalkAssumption
<1>2. Min(T) = Len(wrappers)
  BY DEF ReachesServer, WalkLength
<1>3. \E x \in T : \A y \in T : x <= y
  <2> HIDE DEF T
  <2> QED BY <1>1, LeastExists
<1>4. \A y \in T : Min(T) <= y
  <2> HIDE DEF T
  <2> QED BY <1>3 DEF Min
<1>5. \A y \in T : Len(wrappers) <= y
  BY <1>2, <1>4, Zenon
<1>6. Len(wrappers) <= UnwrapWalkLimit
  <2>1. UnwrapWalkLimit \in T
    OBVIOUS
  <2> HIDE DEF T
  <2> QED BY <1>5, <2>1
<1>7. ASSUME NEW i \in 1..Len(wrappers), wrappers[i] # "unwraps" PROVE FALSE
  <2> DEFINE k == i - 1
  <2>1. k \in 0..Len(wrappers) /\ k + 1 = i /\ ~(Len(wrappers) <= k)
    OBVIOUS
  <2> HIDE DEF k
  <2>2. wrappers[k + 1] # "unwraps"
    BY <1>7, <2>1
  <2>3. k \in T
    BY <2>1, <2>2
  <2> HIDE DEF T
  <2> QED BY <1>5, <2>1, <2>3
<1> QED BY <1>6, <1>7

LEMMA BodySays ==
  ASSUME kind = "body", BodyForm(text, meant) PROVE BodyIsOneWholeValue
<1> DEFINE result == DecodeJSONInto(text, MaxBytes)
<1> DEFINE first == Decode(text, 1, MaxBytes)
<1> DEFINE extra == Decode(text, first.next, MaxBytes)
<1> DEFINE r == Readable(text, MaxBytes)
<1>1. text \in Bodies /\ meant \in Seq(Solids) /\ MaxBytes \in Nat /\ Len(text) \in Nat
        /\ Len(meant) \in Nat
  BY ScanAssumption DEF BodyForm, Bodies
<1>2. FirstOf(first, text, meant, MaxBytes)
  BY <1>1, FirstDecode
<1>3. ReadOf(r, text, MaxBytes)
  BY <1>1, ReadIs
<1>4. Ending(first) /\ (first.got = "maxBytes" => Len(text) > MaxBytes)
  BY <1>1, DecodeEnds DEF Ending
<1>5. ResultOf(result, first, extra)
  BY ResultIs
<1>6. ASSUME first.got = "value"
      PROVE  /\ Ending(extra) /\ (extra.got = "maxBytes" => Len(text) > MaxBytes)
             /\ extra.got = "eof" <=> Len(text) <= MaxBytes /\ Len(meant) = 1
             /\ extra.got = "value" => Len(meant) # 1
  <2> DEFINE next == first.next
  <2>1. next \in Nat /\ next >= 1
          /\ ((\A i \in next..Len(text) : text[i] = "space") <=> Len(meant) = 1)
    BY <1>2, <1>6 DEF FirstOf
  <2>2. extra = Decode(text, next, MaxBytes)
    OBVIOUS
  <2> HIDE DEF next, extra, first, r
  <2>3. /\ Ending(extra) /\ (extra.got = "maxBytes" => Len(text) > MaxBytes)
        /\ extra.got = "eof" => ~(Len(text) > MaxBytes) /\ SolidFrom(r, next) = {}
        /\ extra.got = "value" => SolidFrom(r, next) # {}
    BY <1>1, <2>1, <2>2, DecodeEnds DEF Ending, r
  <2>4. ASSUME NEW i \in next..Len(r) PROVE i \in 1..Len(r) /\ i \in next..Len(text)
                 /\ r[i] = text[i]
    BY <1>3, <2>1 DEF ReadOf
  <2>5. ASSUME Len(meant) = 1 PROVE SolidFrom(r, next) = {}
    BY <2>1, <2>4, <2>5 DEF SolidFrom
  <2>6. ASSUME Len(text) <= MaxBytes, SolidFrom(r, next) = {} PROVE Len(meant) = 1
    <3>1. Len(r) = Len(text)
      BY <1>3, <2>6 DEF ReadOf
    <3>2. \A i \in next..Len(r) : r[i] = "space"
      BY <2>6 DEF SolidFrom
    <3> QED BY <2>1, <2>4, <3>1, <3>2
  <2>7. ASSUME Len(text) <= MaxBytes, Len(meant) = 1 PROVE extra.got = "eof"
    <3>1. \A i \in next..Len(r) : r[i] = "space"
      BY <2>5, <2>7 DEF SolidFrom
    <3>2. extra.got = AtEnd(text, MaxBytes, "eof")
      BY <1>1, <2>1, <2>2, <3>1, DecodeBlank DEF r
    <3> QED BY <1>1, <2>7, <3>2, EofIs
  <2> QED BY <1>1, <2>3, <2>5, <2>6, <2>7
<1>7. ASSUME first.got # "value" PROVE result = first.got
  BY <1>5, <1>7 DEF ResultOf
<1>8. ASSUME first.got = "value"
      PROVE  /\ result = "ok" <=> extra.got = "eof"
             /\ result = "eof" <=> FALSE
             /\ result = "trailing" <=> extra.got = "value"
             /\ result = "maxBytes" <=> extra.got = "maxBytes"
  <2> HIDE DEF result, first, extra
  <2> QED BY <1>4, <1>5, <1>6, <1>8, ResultBy
<1> HIDE DEF result, first, extra
<1>9. Len(meant) = 1 => meant # <<>>
  OBVIOUS
<1>10. result = "ok" <=> Len(text) <= MaxBytes /\ Len(meant) = 1 /\ meant[1] \in Objects
  BY <1>2, <1>4, <1>6, <1>7, <1>8, <1>9 DEF FirstOf, Ending
<1>11. result = "eof" <=> Len(text) <= MaxBytes /\ meant = <<>>
  BY <1>2, <1>7, <1>8 DEF FirstOf
<1>12. result = "trailing" => first.got = "value" /\ Len(meant) > 1
  <2>1. ASSUME first.got = "value" PROVE meant # <<>> /\ Len(meant) >= 1
    <3>1. meant # <<>>
      BY <1>2, <2>1 DEF FirstOf
    <3> QED BY <1>1, <3>1
  <2>2. ASSUME result = "trailing" PROVE first.got = "value"
    BY <1>4, <1>7, <2>2 DEF Ending
  <2> SUFFICES ASSUME result = "trailing" PROVE first.got = "value" /\ Len(meant) > 1
    OBVIOUS
  <2>3. first.got = "value" /\ Len(meant) >= 1
    BY <2>1, <2>2
  <2>4. Len(meant) # 1
    BY <1>6, <1>8, <2>3
  <2> DEFINE n == Len(meant)
  <2>5. n \in Nat /\ n >= 1 /\ n # 1
    BY <1>1, <2>3, <2>4
  <2>6. n > 1
    <3> HIDE DEF n
    <3> QED BY <2>5
  <2> QED BY <2>3, <2>6, Zenon
<1>13. result = "maxBytes" => Len(text) > MaxBytes
  BY <1>4, <1>6, <1>7, <1>8
<1>14. ASSUME NEW wrappers \in BoundedSeq({"unwraps", "opaque", "nil"}, UnwrapWalkLimit + 1),
              ClosesConnection(wrappers, text, MaxBytes)
       PROVE  /\ Len(text) > MaxBytes /\ Len(wrappers) <= UnwrapWalkLimit
              /\ \A i \in DOMAIN wrappers : wrappers[i] = "unwraps"
  <2>1. PICK k \in 0..(UnwrapWalkLimit + 1) : wrappers \in [1..k -> {"unwraps", "opaque", "nil"}]
    BY DEF BoundedSeq, SeqOf
  <2>2. k \in Nat
    BY <2>1, WalkAssumption
  <2>3. Len(wrappers) = k /\ DOMAIN wrappers = 1..k
    BY <2>1, <2>2
  <2>4. result = "maxBytes" /\ ReachesServer(wrappers)
    BY <1>14 DEF ClosesConnection, result
  <2>5. Len(wrappers) <= UnwrapWalkLimit /\ \A i \in 1..Len(wrappers) : wrappers[i] = "unwraps"
    BY <2>2, <2>3, <2>4, ReachesAll
  <2> QED BY <1>13, <2>3, <2>4, <2>5
<1>15. DecodedOptional(text, MaxBytes) <=> first.got = "value"
  BY DEF DecodedOptional, first
<1> QED BY <1>10, <1>11, <1>12, <1>14, <1>15, Zenon DEF BodyIsOneWholeValue, Objects, result

-----------------------------------------------------------------------------
BodyInv == kind = "body" => BodyForm(text, meant)

LEMMA BodyIsKept ==
  ASSUME BodyInv, [ScanNext]_scanVars PROVE BodyInv'
<1>1. ASSUME AddToBody PROVE BodyInv'
  <2>1. PICK b \in Pieces : text' = text \o b /\ meant' = IF b = <<"space">> THEN meant
               ELSE Append(meant, b)
    BY <1>1, Zenon DEF AddToBody
  <2>2. BodyForm(text, meant)
    BY <1>1 DEF AddToBody, BodyInv
  <2>3. BodyForm(text', meant')
    <3>1. CASE meant # <<>>
      <4>1. BodyForm(text \o b, IF b = <<"space">> THEN meant ELSE Append(meant, b))
        BY <2>1, <2>2, <3>1, MorePieces
      <4> QED BY <2>1, <4>1, Zenon
    <3>2. CASE meant = <<>> /\ b = <<"space">>
      <4>1. BodyForm(text \o <<"space">>, <<>>)
        BY <2>2, <3>2, BlankThenSpace, Zenon
      <4> QED BY <2>1, <3>2, <4>1, Zenon
    <3>3. CASE meant = <<>> /\ b # <<"space">>
      <4>1. b \in Solids
        BY <2>1, <3>3, PieceBytes
      <4>2. BodyForm(text, <<>>)
        BY <2>2, <3>3, Zenon
      <4>3. BodyForm(text \o b, <<b>>)
        BY <4>1, <4>2, BlankThenSolid
      <4>4. Append(<<>>, b) = <<b>>
        OBVIOUS
      <4> QED BY <2>1, <3>3, <4>3, <4>4, Zenon
    <3> QED BY <3>1, <3>2, <3>3
  <2> QED BY <2>3 DEF BodyInv, BodyForm, FirstPiece, WholeObject, Depth, Count
<1>2. CASE kind # "body" /\ kind' = kind
  BY <1>2 DEF BodyInv
<1>3. CASE UNCHANGED scanVars
  <2>1. kind' = kind /\ text' = text /\ meant' = meant
    BY <1>3 DEF scanVars
  <2>2. kind' = "body" => BodyForm(text', meant')
    BY <2>1 DEF BodyInv
  <2> QED BY <2>2 DEF BodyInv, BodyForm, FirstPiece, WholeObject, Depth, Count
<1>4. CASE AddElement \/ AddEmpty
  BY <1>2, <1>4 DEF AddElement, AddEmpty, Syntaxes
<1>5. CASE AddPair
  BY <1>2, <1>5 DEF AddPair
<1>6. ASSUME AddScript \/ AddOther PROVE BodyInv'
  <2>1. kind = "page" /\ kind' = kind
    BY <1>6 DEF AddScript, AddOther, AddToPage
  <2> QED BY <1>2, <2>1
<1>7. CASE CutShort
  BY <1>2, <1>7 DEF CutShort
<1>8. CASE Written
  BY <1>3, <1>8 DEF Written
<1> QED BY <1>1, <1>3, <1>4, <1>5, <1>6, <1>7, <1>8 DEF ScanNext

(***************************************************************************)
(* A body of any length is accepted exactly when it is one value within    *)
(* the cap, white space included; one over the cap is refused whatever it  *)
(* holds, and the connection is closed only for such a body, and only when *)
(* every wrapper unwraps (DecodeJSONInto and LimitBody, src/prelude.go).   *)
(***************************************************************************)
THEOREM BodyIsWhole == ScanSpec => []BodyIsOneWholeValue
<1>1. ScanInit => BodyInv
  <2> SUFFICES ASSUME ScanInit PROVE BodyForm(text, meant)
    BY DEF BodyInv
  <2>1. text = <<>> /\ meant = <<>> /\ <<>> \in Bodies /\ <<>> \in Seq(Solids) /\ Len(<<>>) = 0
    BY DEF ScanInit, Bodies
  <2> QED BY <2>1 DEF BodyForm
<1>2. BodyInv /\ [ScanNext]_scanVars => BodyInv'
  BY BodyIsKept
<1>3. BodyInv => BodyIsOneWholeValue
  <2>1. CASE kind = "body"
    BY <2>1, BodySays DEF BodyInv
  <2>2. CASE kind # "body"
    BY <2>2 DEF BodyIsOneWholeValue
  <2> QED BY <2>1, <2>2
<1> QED BY <1>1, <1>2, <1>3, PTL DEF ScanSpec
=============================================================================
