------------------------------ MODULE DrainMC ------------------------------
(* Drain with every set of hooks, a plain fault, a serve error that carries*)
(* a deadline of the caller's own making (src/server.go:20), and a listener*)
(* error.                                                                  *)
EXTENDS Drain

MCChainOf ==
  [err \in {"fatal", "ownDeadline", "lnErr", "graceExpired"} |->
     IF err \in {"ownDeadline", "graceExpired"} THEN {"deadline"} ELSE {}]
=============================================================================
