----------------------------- MODULE ScannersMC -----------------------------
(***************************************************************************)
(* The scanners of the package against what was written.  A text of some   *)
(* kind is put together piece by piece, as whoever sends or builds it may, *)
(* and meant records what each piece says, so that a scanner is compared   *)
(* with its input and not with another scanner.                            *)
(***************************************************************************)
EXTENDS ForwardedElement, InlineHashes, JsonBody

CONSTANTS MaxElems, MaxEmpty, MaxElements, MaxFwdPairs, MaxBytes, MaxBody
ASSUME ScanAssumption ==
  {MaxElems, MaxEmpty, MaxElements, MaxFwdPairs, MaxBytes, MaxBody} \subseteq Nat

VARIABLES
  kind,          \* a list of each syntax, a Forwarded element, a page, a body
  text,          \* for a list its lines, else a sequence
  meant,
  empties

scanVars == <<kind, text, meant, empties>>

Kinds == Syntaxes \cup {"forwarded", "page", "body"}

ScanInit ==
  /\ kind \in Kinds
  /\ text = <<>> /\ meant = <<>> /\ empties = 0

-----------------------------------------------------------------------------
(* List fields: well-formed elements of each syntax, and for the syntax    *)
(* without quotes anything without a comma, stray quotes included; on any  *)
(* line, with white space and empty elements (RFC 9110 section 5.6.1).     *)
Elements(syntax) ==
  CASE syntax = "token" ->
         {<<"x">>, <<"quote">>, <<"quote", "x">>, <<"x", "quote", "slash">>,
          <<"x", "space", "y">>, <<"slash", "quote">>}
    [] syntax = "quotedString" ->
         {<<"x">>, <<"quote", "comma", "quote">>, <<"x", "quote", "slash", "quote", "comma", "quote">>,
          <<"quote", "slash", "slash", "quote">>, <<"slash", "x">>,
          <<"quote", "space", "quote">>, <<"quote", "quote", "x">>}
    [] syntax = "entityTag" ->
         {<<"quote", "x", "quote">>, <<"x", "quote", "comma", "x", "quote">>,
          <<"quote", "slash", "quote">>, <<"quote", "slash", "slash", "quote">>, <<"x">>}

Padded(elem) == {elem, <<"space">> \o elem \o <<"space">>}

AddToLines(bytes) ==
  \/ text # <<>> /\ text' = [text EXCEPT ![Len(text)] = @ \o <<"comma">> \o bytes]
  \/ text' = Append(text, bytes)

AddElement ==
  /\ kind \in Syntaxes /\ Len(meant) < MaxElems
  /\ \E elem \in Elements(kind) :
       /\ meant' = Append(meant, elem)
       /\ \E bytes \in Padded(elem) : AddToLines(bytes)
  /\ UNCHANGED <<kind, empties>>

AddEmpty ==
  /\ kind \in Syntaxes /\ empties < MaxEmpty
  /\ empties' = empties + 1
  /\ \E bytes \in {<<>>, <<"space">>} : AddToLines(bytes)
  /\ UNCHANGED <<kind, meant>>

-----------------------------------------------------------------------------
(* A Forwarded element, pair by pair: a name, a value written as a token or*)
(* in quotes with escapes, and what is wrong with the pair, if anything.   *)
Quoted(v) == <<"quote">> \o v \o <<"quote">>
Escaped(v) == <<"quote", "slash">> \o v \o <<"quote">>
FwdValues ==
  {[bytes |-> <<"v4">>, node |-> "v4"],
   [bytes |-> Escaped(<<"v4">>), node |-> "v4"],
   [bytes |-> Quoted(<<"v4", "colon", "digits">>), node |-> "v4"],
   [bytes |-> Quoted(<<"lbracket", "v6", "rbracket", "colon", "obf">>), node |-> "v6"],
   [bytes |-> <<"unknown">>, node |-> "none"],
   [bytes |-> Quoted(<<"v6">>), node |-> "bad"],
   [bytes |-> Quoted(<<"v4", "semi">>), node |-> "bad"],
   [bytes |-> Quoted(<<>>), node |-> "bad"],
   [bytes |-> <<"quote", "v4">>, node |-> "broken"],
   [bytes |-> Quoted(<<"ctl">>), node |-> "broken"],
   [bytes |-> <<"v4", "colon", "digits">>, node |-> "broken"],
   [bytes |-> Quoted(<<"v4">>) \o <<"x">>, node |-> "broken"],
   [bytes |-> <<>>, node |-> "broken"]}

AddPair ==
  /\ kind = "forwarded" /\ Len(meant) < MaxFwdPairs
  /\ \E name \in {"for", "by", "x"}, v \in FwdValues, semi \in {<<"semi">>, <<"semi", "semi">>} :
       /\ text' = IF text = <<>> THEN <<name, "eq">> \o v.bytes ELSE text \o semi \o <<name, "eq">> \o v.bytes
       /\ meant' = Append(meant, [name |-> name, node |-> v.node])
  /\ UNCHANGED <<kind, empties>>

-----------------------------------------------------------------------------
(* A page: text, elements whose attributes are set off by white space, and *)
(* perhaps an end in the middle of one.                                    *)
Attributes ==
  {<<>>, <<"space", "src", "x", "eq", "x">>, <<"space", "x", "src", "eq", "x">>,
   <<"space", "x", "eq", "dq", "sq", "gt", "space", "src", "eq", "dq">>,
   <<"space", "x", "eq", "sq", "dq", "sq">>}
External == {<<"space", "src", "space", "eq", "x">>, <<"space", "x", "eq", "dq", "gt", "dq", "space", "src", "eq", "x">>}
Contents == {<<>>, <<"x", "gt", "dq">>, <<"open", "gt">>, <<"close", "x", "gt">>}
EndTags == {<<"close", "gt">>, <<"close", "space", "gt">>}
Between == {<<"x">>, <<"dq">>, <<"open", "x", "gt">>}
Broken == {<<"open">>, <<"open", "space", "x", "eq", "dq", "gt", "x", "close", "gt">>,
           <<"open", "gt", "x">>, <<"open", "gt", "x", "close">>}

AddToPage(bytes) ==
  /\ kind = "page" /\ empties < MaxElements
  /\ empties' = empties + 1
  /\ text' = text \o bytes
  /\ UNCHANGED kind

AddScript ==
  \E attrs \in Attributes \cup External, content \in Contents, end \in EndTags :
    /\ AddToPage(<<"open">> \o attrs \o <<"gt">> \o content \o end)
    /\ meant' = IF attrs \in External THEN meant ELSE Append(meant, content)
AddOther == \E bytes \in Between : AddToPage(bytes) /\ UNCHANGED meant
CutShort ==
  /\ \E bytes \in Broken : text' = text \o bytes
  /\ kind = "page" /\ empties < MaxElements /\ empties' = MaxElements
  /\ UNCHANGED <<kind, meant>>

-----------------------------------------------------------------------------
(* A body, of which meant keeps what is not white space, piece by piece.   *)
Pieces == {<<"space">>, <<"open", "close">>, <<"open", "space", "open", "close", "close">>, <<"open">>, <<"junk">>}
AddToBody ==
  /\ kind = "body" /\ Len(text) < MaxBody
  /\ \E bytes \in Pieces :
       /\ text' = text \o bytes
       /\ meant' = IF bytes = <<"space">> THEN meant ELSE Append(meant, bytes)
  /\ UNCHANGED <<kind, empties>>

Written ==
  /\ \/ kind \in Syntaxes /\ Len(meant) = MaxElems /\ empties = MaxEmpty
     \/ kind = "forwarded" /\ Len(meant) = MaxFwdPairs
     \/ kind = "page" /\ empties = MaxElements
     \/ kind = "body" /\ Len(text) >= MaxBody
  /\ UNCHANGED scanVars

ScanNext ==
  \/ AddElement \/ AddEmpty \/ AddPair
  \/ AddScript \/ AddOther \/ CutShort
  \/ AddToBody \/ Written

ScanSpec == ScanInit /\ [][ScanNext]_scanVars

-----------------------------------------------------------------------------
(* The elements read are those sent, in order, whatever lines, white space *)
(* and empty elements they came with; a comma in quotes separates nothing, *)
(* and where nothing is quoted a stray quote swallows nothing (the         *)
(* comments of fieldList and tokenList, src/fieldlist.go:14 and :26).      *)
ReadsWhatWasSent == kind \in Syntaxes => Fields(text, kind) = meant

(* A Forwarded element names the node of its one "for" pair, however it is *)
(* written; a broken pair, a repeated name, a for or by that is no node or *)
(* a pair too many makes it name nothing, never part of what it says       *)
(* (src/clientip.go:197).                                                  *)
ForwardedNamesItsNode ==
  kind = "forwarded" =>
    LET wrong(i) ==
          \/ i > MaxPairs
          \/ meant[i].node = "broken"
          \/ meant[i].node = "bad" /\ meant[i].name \in {"for", "by"}
          \/ \E j \in 1..(i - 1) : meant[j].name = meant[i].name
    IN ParseForwardedElement(text) =
         IF \E i \in DOMAIN meant : wrong(i) THEN Invalid
         ELSE [valid |-> TRUE,
               forNode |-> IF \E i \in DOMAIN meant : meant[i].name = "for"
                             THEN LET i == CHOOSE i \in DOMAIN meant : meant[i].name = "for" IN meant[i].node
                             ELSE "none"]

(* The spans hashed are the contents of the inline elements, in order and  *)
(* to the byte, and nothing of an element that the page ends in (the       *)
(* comment of InlineScriptHashes, src/csp.go:23).                          *)
HashesWhatIsInline == kind = "page" => InlineElementHashes(text, TRUE) = meant

(* A body is accepted exactly when it is one value and no longer than the  *)
(* cap, white space included; one over the cap is refused whatever it      *)
(* holds, and the connection is closed when the decoder met the cap and    *)
(* every wrapper unwraps (src/prelude.go:202 and :66).                     *)
BodyIsOneWholeValue ==
  kind = "body" =>
    LET result == DecodeJSONInto(text, MaxBytes)
        objects == {<<"open", "close">>, <<"open", "space", "open", "close", "close">>}
    IN /\ result = "ok" <=> Len(text) <= MaxBytes /\ Len(meant) = 1 /\ meant[1] \in objects
       /\ result = "eof" <=> Len(text) <= MaxBytes /\ meant = <<>>
       /\ result = "trailing" => DecodedOptional(text, MaxBytes) /\ Len(meant) > 1
       /\ \A wrappers \in BoundedSeq({"unwraps", "opaque", "nil"}, UnwrapWalkLimit + 1) :
            ClosesConnection(wrappers, text, MaxBytes) =>
              /\ Len(text) > MaxBytes /\ Len(wrappers) <= UnwrapWalkLimit
              /\ \A i \in DOMAIN wrappers : wrappers[i] = "unwraps"
=============================================================================
