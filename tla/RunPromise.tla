----------------------------- MODULE RunPromise -----------------------------
(***************************************************************************)
(* What Run promises its caller (the doc comments of Run, WithPreDrain,    *)
(* WithServeExit and ErrShutdownGraceExpired), without saying how:         *)
(*  - one of two sequences runs: pre-drain, drain, onShutdown, in this     *)
(*    order, or the serve-exit hook alone, and a hook that is registered   *)
(*    on the chosen sequence is never skipped;                             *)
(*  - Run returns only after Serve has, a serve error wins over the drain's *)
(*    error, and a return is marked as a grace expiry only if the grace    *)
(*    had run out and Serve stopped cleanly.                               *)
(***************************************************************************)
CONSTANTS FatalErrs, LnErrs

VARIABLES
  hooks,      \* the hooks the caller registered
  ran,        \* the phases begun so far
  serveRes,   \* what Serve returned, "none" while it runs
  expired,    \* the shutdown grace has run out
  ret         \* what Run returned, "none" until then

promiseVars == <<hooks, ran, serveRes, expired, ret>>

AllHooks == {"preDrain", "onShutdown", "serveExit"}

Init ==
  /\ hooks \in SUBSET AllHooks
  /\ ran = {}
  /\ serveRes = "none"
  /\ expired = FALSE
  /\ ret = "none"

PreDrain ==
  /\ "preDrain" \in hooks /\ ran = {}
  /\ ran' = {"preDrain"}

Drain ==
  /\ ran = hooks \cap {"preDrain"}
  /\ ran' = ran \cup {"drain"}

OnShutdown ==
  /\ "onShutdown" \in hooks
  /\ "drain" \in ran /\ "onShutdown" \notin ran
  /\ ran' = ran \cup {"onShutdown"}

ServeExit ==
  /\ "serveExit" \in hooks /\ ran = {} /\ serveRes # "none"
  /\ ran' = {"serveExit"}

Phase ==
  /\ ret = "none"
  /\ PreDrain \/ Drain \/ OnShutdown \/ ServeExit
  /\ UNCHANGED <<hooks, serveRes, expired, ret>>

ServeEnds ==
  /\ serveRes = "none"
  /\ serveRes' \in FatalErrs \cup {"nil"}
  /\ UNCHANGED <<hooks, ran, expired, ret>>

Expire ==
  /\ ret = "none" /\ ran # {"serveExit"}
  /\ expired' = TRUE
  /\ UNCHANGED <<hooks, ran, serveRes, ret>>

Graceful == ran = {"drain"} \cup (hooks \cap {"preDrain", "onShutdown"})

Return ==
  /\ ret = "none" /\ serveRes # "none"
  /\ \/ ran = hooks \cap {"serveExit"} /\ ret' = serveRes
     \/ Graceful /\ serveRes # "nil" /\ ret' = serveRes
     \/ /\ Graceful /\ serveRes = "nil"
        /\ ret' \in {"nil"} \cup LnErrs \cup (IF expired THEN {"graceExpired"} ELSE {})
  /\ UNCHANGED <<hooks, ran, serveRes, expired>>

Next == Phase \/ ServeEnds \/ Expire \/ Return

Spec == Init /\ [][Next]_promiseVars
=============================================================================
