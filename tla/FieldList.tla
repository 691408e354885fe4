------------------------------ MODULE FieldList ------------------------------
(***************************************************************************)
(* fieldList (src/fieldlist.go): the elements of a list-valued header      *)
(* field, over all its lines.  A byte is one of the classes the scanner    *)
(* tells apart: "comma", "quote", "slash", "space" (OWS), or any other.    *)
(***************************************************************************)
EXTENDS SequencesExt

Syntaxes == {"token", "quotedString", "entityTag"}      \* listSyntax

(* strings.Trim(elem, " \t")                                               *)
Trimmed(elem) ==
  LET solid == {i \in DOMAIN elem : elem[i] # "space"}
  IN IF solid = {} THEN <<>> ELSE SubSeq(elem, Min(solid), Max(solid))

(* An element ends: it is yielded trimmed, or dropped when it is empty.    *)
Yield(list, elem) == IF Trimmed(elem) = <<>> THEN list ELSE Append(list, Trimmed(elem))

FirstLine(lines) == IF lines = <<>> THEN <<>> ELSE lines[1]    \* mutant: Header.Get
(* The field lines joined with a comma.                                    *)
Joined(lines) ==
  LET join[n \in 0..Len(lines)] ==
        IF n = 0 THEN <<>>
        ELSE IF n = 1 THEN lines[1]
        ELSE join[n - 1] \o <<"comma">> \o lines[n]
  IN join[Len(lines)]

(* The loop after some bytes: the elements yielded, the one being read, and*)
(* whether the next byte is inside quotes or escaped.                      *)
AtStart == [list |-> <<>>, elem |-> <<>>, quoted |-> FALSE, escaped |-> FALSE]

ReadByte(s, c, syntax) ==
  LET more == [s EXCEPT !.elem = Append(@, c), !.escaped = FALSE]
  IN CASE s.escaped -> more
       [] ~s.escaped /\ syntax = "quotedString" /\ s.quoted /\ c = "slash" ->
            [more EXCEPT !.escaped = TRUE]
       [] ~s.escaped /\ syntax # "token" /\ c = "quote" ->
            [more EXCEPT !.quoted = ~@]
       [] ~s.escaped /\ c = "comma" /\ ~s.quoted ->
            [s EXCEPT !.list = Yield(@, s.elem), !.elem = <<>>]
       [] OTHER -> more

Scan(field, syntax) ==
  LET scan[n \in 0..Len(field)] ==
        IF n = 0 THEN AtStart ELSE ReadByte(scan[n - 1], field[n], syntax)
  IN scan[Len(field)]

Fields(lines, syntax) ==
  LET end == Scan(Joined(lines), syntax) IN Yield(end.list, end.elem)
=============================================================================
