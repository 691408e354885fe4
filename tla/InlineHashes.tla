---------------------------- MODULE InlineHashes ----------------------------
(***************************************************************************)
(* InlineScriptHashes and InlineStyleHashes (src/csp.go): the contents of  *)
(* the inline elements of a page, whose hashes go into its policy.  A page *)
(* is a sequence of "open" and "close" ("<script" and "</script" in any    *)
(* case), "src" (likewise), "gt", "slash", "space", "eq", the two quotes   *)
(* "dq" and "sq", and any other byte.                                      *)
(***************************************************************************)
EXTENDS SequencesExt

First(positions) == IF positions = {} THEN 0 ELSE Min(positions)
Boundary(c) == c \in {"gt", "slash", "space"}          \* isTagNameBoundary

(* The quote that is open after a byte, and after each byte of a tag.      *)
QuoteAfter(q, c) ==
  CASE c \notin {"dq", "sq"} -> q
    [] c \in {"dq", "sq"} /\ q = "none" -> c
    [] c \in {"dq", "sq"} /\ q = c -> "none"
    [] OTHER -> q
OpenQuote(bytes) ==
  LET quote[i \in 0..Len(bytes)] ==
        IF i = 0 THEN "none" ELSE QuoteAfter(quote[i - 1], bytes[i])
  IN quote

FindElementOpen(page, from) ==
  First({i \in from..Len(page) : page[i] = "open" /\ (i = Len(page) \/ Boundary(page[i + 1]))})

FindElementCloseAny(page, from) == First({i \in from..Len(page) : page[i] = "close"})  \* mutant
FindElementClose(page, from) ==
  First({i \in from..(Len(page) - 1) : page[i] = "close" /\ Boundary(page[i + 1])})

OpenTagEnd(page, from) ==
  LET quote == OpenQuote(SubSeq(page, from, Len(page)))
  IN First({i \in from..Len(page) : page[i] = "gt" /\ quote[i - from] = "none"})

(* "src" where a name can stand, then white space and "=".                 *)
HasSrcAttr(attrs) ==
  \E i \in DOMAIN attrs :
    /\ attrs[i] = "src" /\ OpenQuote(attrs)[i - 1] = "none"
    /\ i > 1 => attrs[i - 1] = "space"
    /\ \E j \in (i + 1)..Len(attrs) :
         attrs[j] = "eq" /\ \A k \in (i + 1)..(j - 1) : attrs[k] = "space"

(* One turn of the loop: the next element and the hash of its content; and *)
(* when there is none, the end.                                            *)
NextElement(page, skipSrc, s) ==
  LET open == FindElementOpen(page, s.at)
      gt == OpenTagEnd(page, open + 1)
      close == FindElementClose(page, gt + 1)
      skipped == skipSrc /\ HasSrcAttr(SubSeq(page, open + 1, gt - 1))
  IN IF s.at > Len(page) THEN s
     ELSE IF open = 0 \/ gt = 0 \/ close = 0 THEN [s EXCEPT !.at = Len(page) + 1]
     ELSE [at |-> close + 1,
           hashes |-> IF skipped THEN s.hashes ELSE Append(s.hashes, SubSeq(page, gt + 1, close - 1))]

InlineElementHashes(page, skipSrc) ==
  LET scan[n \in 0..Len(page)] ==
        IF n = 0 THEN [at |-> 1, hashes |-> <<>>] ELSE NextElement(page, skipSrc, scan[n - 1])
  IN scan[Len(page)].hashes
=============================================================================
