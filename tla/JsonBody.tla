------------------------------ MODULE JsonBody ------------------------------
(***************************************************************************)
(* LimitBody and the JSON decoding of a request body (src/prelude.go).  A  *)
(* body is a sequence of "open" and "close" (of an object), "space" and    *)
(* "junk".  A writer is the sequence of its wrappers, outermost first, a   *)
(* wrapper being "unwraps", "opaque" or "nil" (Unwrap returns nil), around *)
(* net/http's own writer.                                                  *)
(***************************************************************************)
EXTENDS SequencesExt

CONSTANT UnwrapWalkLimit
ASSUME WalkAssumption == UnwrapWalkLimit \in Nat

(* baseResponseWriter, and whether the writer it ends at is net/http's, the*)
(* only one MaxBytesReader can tell to close the connection.               *)
WalkLength(wrappers) ==
  Min({i \in 0..Len(wrappers) : i = Len(wrappers) \/ wrappers[i + 1] # "unwraps"} \cup {UnwrapWalkLimit})
ReachesServer(wrappers) == WalkLength(wrappers) = Len(wrappers)

(* http.MaxBytesReader: what can be read, and what the read after it says. *)
Readable(body, maxBytes) == SubSeq(body, 1, Min({Len(body), maxBytes}))
AtEnd(body, maxBytes, otherwise) == IF Len(body) > maxBytes THEN "maxBytes" ELSE otherwise

(* Decoder.Decode from byte `from`: an object, and the byte after it; a    *)
(* byte that cannot stand there; or the end, within one or before it.      *)
Decode(body, from, maxBytes) ==
  LET bytes == Readable(body, maxBytes)
      count(c, i, j) == Cardinality({k \in i..j : bytes[k] = c})
      solid == {i \in from..Len(bytes) : bytes[i] # "space"}
      start == Min(solid)
      ends == {j \in start..Len(bytes) : count("open", start, j) = count("close", start, j)}
      upTo == IF ends = {} THEN Len(bytes) ELSE Min(ends)
  IN CASE solid = {} -> [got |-> AtEnd(body, maxBytes, "eof"), next |-> from]
       [] solid # {} /\ (bytes[start] # "open" \/ count("junk", start, upTo) > 0) ->
            [got |-> "syntax", next |-> from]
       [] solid # {} /\ bytes[start] = "open" /\ count("junk", start, upTo) = 0 ->
            IF ends = {} THEN [got |-> AtEnd(body, maxBytes, "syntax"), next |-> from]
            ELSE [got |-> "value", next |-> Min(ends) + 1]

DecodeFirst(body, maxBytes) ==             \* mutant: no look at what follows
  LET first == Decode(body, 1, maxBytes) IN IF first.got = "value" THEN "ok" ELSE first.got
(* DecodeJSONInto: nil ("ok") or its error.                                *)
DecodeJSONInto(body, maxBytes) ==
  LET first == Decode(body, 1, maxBytes)
      extra == Decode(body, first.next, maxBytes)
  IN IF first.got # "value" THEN first.got
     ELSE CASE extra.got = "eof" -> "ok"
            [] extra.got = "value" -> "trailing"
            [] extra.got \in {"syntax", "maxBytes"} -> extra.got

(* DecodeBodyOptional: whether it filled v in.                             *)
DecodedOptional(body, maxBytes) == Decode(body, 1, maxBytes).got = "value"

(* The connection is closed after the reply: a read met the cap, and the   *)
(* reader's writer is net/http's.                                          *)
ClosesConnection(wrappers, body, maxBytes) ==
  DecodeJSONInto(body, maxBytes) = "maxBytes" /\ ReachesServer(wrappers)
=============================================================================
