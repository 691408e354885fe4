-------------------------- MODULE ForwardedElement --------------------------
(***************************************************************************)
(* parseForwardedElement (src/clientip.go): the client a Forwarded element *)
(* names.  The bytes are grouped as its scanner sees them: groups of token *)
(* bytes ("for", "by", "x", an IPv4 address "v4", "unknown", an obfuscated *)
(* name "obf", "digits") and single other bytes, "v6" being the part with  *)
(* colons of an IPv6 address.                                              *)
(***************************************************************************)
EXTENDS FieldList

CONSTANT MaxPairs              \* maxForwardedPairs
ASSUME PairsAssumption == MaxPairs \in Nat

TokenGroups == {"for", "by", "x", "v4", "unknown", "obf", "digits"}

(* tokenLen: the length of the token at the front of s.                    *)
TokenLen(s) == Max({n \in 0..Len(s) : \A i \in 1..n : s[i] \in TokenGroups})

(* The rest of s after its first n groups.                                 *)
After(s, n) == SubSeq(s, n + 1, Len(s))

Uncut == [ok |-> FALSE, value |-> <<>>, rest |-> <<>>]

(* A quoted-string after its opening quote, byte by byte: what is decoded  *)
(* of it, whether the next byte is escaped, and where it ended.  "ctl" is  *)
(* neither qdtext nor a quoted-pair byte.                                  *)
InQuotes == [value |-> <<>>, escaped |-> FALSE, end |-> 0, bad |-> FALSE]

QuotedByte(p, c, i) ==
  CASE p.end > 0 \/ p.bad -> p
    [] p.end = 0 /\ ~p.bad /\ c = "ctl" -> [p EXCEPT !.bad = TRUE]
    [] p.end = 0 /\ ~p.bad /\ c # "ctl" /\ ~p.escaped /\ c = "quote" -> [p EXCEPT !.end = i]
    [] p.end = 0 /\ ~p.bad /\ c # "ctl" /\ ~p.escaped /\ c = "slash" -> [p EXCEPT !.escaped = TRUE]
    [] OTHER -> [p EXCEPT !.value = Append(@, c), !.escaped = FALSE]

CutQuoted(s) ==
  LET scan[i \in 0..Len(s)] ==
        IF i = 0 THEN InQuotes ELSE QuotedByte(scan[i - 1], s[i], i)
      last == scan[Len(s)]
  IN IF last.end = 0 THEN Uncut
     ELSE [ok |-> TRUE, value |-> last.value, rest |-> After(s, last.end)]

CutForwardedValue(s) ==
  IF s # <<>> /\ s[1] = "quote" THEN CutQuoted(Tail(s))
  ELSE LET n == TokenLen(s)
       IN [ok |-> n > 0, value |-> SubSeq(s, 1, n), rest |-> After(s, n)]

CutForwardedPair(s) ==
  LET n == TokenLen(s)
      cut == CutForwardedValue(After(s, n + 1))
  IN IF /\ n \in 1..(Len(s) - 1) /\ s[n + 1] = "eq"
        /\ cut.ok /\ (cut.rest # <<>> => cut.rest[1] = "semi")
       THEN [ok |-> TRUE, name |-> SubSeq(s, 1, n), value |-> cut.value, rest |-> cut.rest]
       ELSE [ok |-> FALSE, name |-> <<>>, value |-> <<>>, rest |-> <<>>]

(* parseNode: an IPv4 address, a bracketed IPv6 one, "unknown" or an       *)
(* obfuscated name, then perhaps a port.  Its address, "none" when it has  *)
(* none.                                                                   *)
NodeNames == {<<"v4">>, <<"unknown">>, <<"obf">>, <<"lbracket", "v6", "rbracket">>}
ValidNodeBare(v) == v \in NodeNames            \* mutant
ValidNode(v) ==
  \E name \in NodeNames :
    v = name \/ \E port \in {"digits", "obf"} : v = name \o <<"colon", port>>
NodeAddr(v) == IF v[1] = "v4" THEN "v4" ELSE IF v[1] = "lbracket" THEN "v6" ELSE "none"

Invalid == [valid |-> FALSE, forNode |-> "none"]

(* One turn of the loop: a semicolon or a pair off the rest, until nothing *)
(* is left or a pair is refused.                                           *)
ReadPair(s) ==
  LET pair == CutForwardedPair(s.rest)
      nodeNamed == pair.name \in {<<"for">>, <<"by">>}
      refused == \/ Cardinality(s.seen) = MaxPairs \/ ~pair.ok \/ pair.name \in s.seen
                 \/ nodeNamed /\ ~ValidNode(pair.value)
  IN IF s.rest = <<>> \/ ~s.valid THEN s
     ELSE IF s.rest[1] = "semi" THEN [s EXCEPT !.rest = Tail(@)]
     ELSE IF refused THEN [s EXCEPT !.valid = FALSE]
     ELSE [s EXCEPT !.rest = pair.rest, !.seen = @ \cup {pair.name},
                    !.forNode = IF pair.name = <<"for">> THEN NodeAddr(pair.value) ELSE @]

(* Each turn takes a byte at least, so Len(elem) turns are enough.         *)
ParseForwardedElement(elem) ==
  LET read[n \in 0..Len(elem)] ==
        IF n = 0 THEN [rest |-> elem, seen |-> {}, forNode |-> "none", valid |-> TRUE]
        ELSE ReadPair(read[n - 1])
      end == read[Len(elem)]
  IN IF end.valid THEN [valid |-> TRUE, forNode |-> end.forNode] ELSE Invalid
=============================================================================
