--------------------------- MODULE RateLimiterMC ---------------------------
(* RateLimiter with two clients and a clock of a few ticks.                *)
EXTENDS RateLimiter, TLC

CONSTANTS a, b
MCClient == {a, b}
MCSymmetry == Permutations(MCClient)
=============================================================================
