-------------------------- MODULE ResponseStackMC --------------------------
(* ResponseStack with a compression threshold of two bytes, writes of up   *)
(* to two, and log hooks that are absent, all work, or fail in every way.  *)
EXTENDS ResponseStack

MCHooks ==
  { [path |-> p, clientIP |-> o, level |-> o, metric |-> o] :
      <<p, o>> \in {<<"none", "none">>, <<"ok", "ok">>, <<"panics", "panics">>,
                   <<"empty", "ok">>} }
OneHooks == { [path |-> "none", clientIP |-> "none", level |-> "none", metric |-> "ok"] }

AllStatuses == {101, 103, 200, 204, 206}
HintStatuses == {103, 200}
=============================================================================
