--------------------------- MODULE ResponseWriter ---------------------------
(***************************************************************************)
(* The http.ResponseWriter net/http hands to a handler, as far as          *)
(* webhttp's wrappers rely on it.  It is outside src/; the rules modelled  *)
(* are those the comments of src/recorder.go and src/gzip.go name: the     *)
(* first final status wins and snapshots the header, informational         *)
(* statuses go out at once and decide nothing, a Write or a Flush implies  *)
(* 200, some statuses have no body, and a hijacked connection takes no     *)
(* more writes.                                                            *)
(*                                                                         *)
(* A writer is a record, and every call maps a response state (a record    *)
(* with fields hdr and net, among others) to the next one.                 *)
(***************************************************************************)
EXTENDS Naturals, Sequences

NoStatus == 0
OK200 == 200
Switching == 101

Informational(code) == code \in 100..199 /\ code # Switching
BodyAllowed(code) == code \notin {Switching, 204, 304}

(* The header fields the wrappers look at or change: ct is the media type  *)
(* class, ce the Content-Encoding, cl whether a Content-Length is set,     *)
(* vary whether Vary lists Accept-Encoding, etag the entity tag's kind,    *)
(* late stands for any field a handler sets, declared says whether Trailer *)
(* lists a field, sum is that field's value (0: unset), and prefixed the   *)
(* value of a key under http.TrailerPrefix, which is no header line.       *)
Headers == [ct : {"none", "json", "text"}, ce : {"none", "own", "gzip"},
            cl : BOOLEAN, vary : BOOLEAN, etag : {"none", "strong", "weak"},
            late : BOOLEAN, declared : BOOLEAN, sum : 0..2, prefixed : 0..2]

(* What the client gets: the informational statuses, the final status and  *)
(* the header block sent with it, and the body as a sequence of bytes.     *)
(* A byte is [id, z]: the handler's byte id, through a compressor or not;  *)
(* zdone says that the gzip trailer was sent; trailers are the values that *)
(* follow the body, in a response whose framing allows them.  A connection *)
(* that is broken takes no more bytes, and every write on it fails.        *)
Bytes(maxId) == [id : 0..maxId, z : BOOLEAN]

NewNet(hdr) == [infos |-> <<>>, status |-> NoStatus, hdr |-> hdr, body |-> <<>>,
                zdone |-> FALSE, trailers |-> [sum |-> 0, prefixed |-> 0],
                broken |-> FALSE, hijacked |-> FALSE, aborted |-> FALSE]

Committed(s) == s.net.status # NoStatus

NetWriteHeader(s, code) ==
  IF s.net.hijacked \/ Committed(s) THEN s
  ELSE IF Informational(code)
    THEN [s EXCEPT !.net.infos = Append(@, code)]
    ELSE [s EXCEPT !.net.status = code, !.net.hdr = [s.hdr EXCEPT !.prefixed = 0]]

NetWrite(s, bytes) ==
  LET t == NetWriteHeader(s, OK200)
  IN IF s.net.hijacked \/ s.net.broken \/ ~BodyAllowed(t.net.status) THEN t
     ELSE [t EXCEPT !.net.body = @ \o bytes]

(* A writer without Flush returns http.ErrNotSupported and does nothing.   *)
NetFlush(s) == IF s.canFlush THEN NetWriteHeader(s, OK200) ELSE s

HijackFails(s) == ~s.canHijack \/ s.net.hijacked
NetHijack(s) == IF HijackFails(s) THEN s ELSE [s EXCEPT !.net.hijacked = TRUE]

(* The handler chain has returned; or a panic has reached net/http, which  *)
(* cuts the connection.                                                    *)
NetReturn(s) ==
  LET t == NetWriteHeader(s, OK200)
  IN IF t.net.hijacked \/ t.net.broken \/ ~BodyAllowed(t.net.status) THEN t
     ELSE [t EXCEPT !.net.trailers =
             [sum |-> IF t.net.hdr.declared THEN t.hdr.sum ELSE 0, prefixed |-> t.hdr.prefixed]]
NetAbort(s) == [s EXCEPT !.net.aborted = TRUE]
=============================================================================
