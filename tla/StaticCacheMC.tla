--------------------------- MODULE StaticCacheMC ---------------------------
(* Two clients, one of which refuses gzip in the middle of a list that     *)
(* offers everything; three versions, the last without the asset.         *)
EXTENDS StaticCache

CONSTANTS c1, c2, old, new
MCClient == {c1, c2}
MCDecodes == {c1}
MCAcceptEncoding ==
  [c \in MCClient |->
     IF c = c1 THEN <<[coding |-> "gzip", q |-> "unparseable"]>>
     ELSE <<[coding |-> "*", q |-> "positive"], [coding |-> "x-gzip", q |-> "zero"]>>]
MCContent == <<old, new, NoFile>>
MCShrinks == {old, new}
=============================================================================
