----------------------------- MODULE GzipWriter -----------------------------
(***************************************************************************)
(* gzipWriter (src/gzip.go): the writer Gzip puts over the recorder.  It   *)
(* holds a compressible response back until it is long enough to compress, *)
(* or a Flush or the handler's return sends it as written.  Its state is   *)
(* the field gz of a response state; the compressor comes from a pool and  *)
(* goes back to it (gets, puts).                                           *)
(***************************************************************************)
EXTENDS StatusRecorder

CONSTANT MinBytes          \* WithGzipMinBytes

ASSUME MinBytesAssumption == MinBytes \in Nat /\ MinBytes >= 1

GzipStates == {"pending", "buffering", "identity", "compressed", "hijacked"}

(* zw: a compressor is attached; zbuf: what it has not emitted yet.        *)
NewGzip(accepts, hdr) ==
  [state |-> "pending", accepts |-> accepts, held |-> hdr, status |-> NoStatus,
   buf |-> <<>>, zw |-> FALSE, zbuf |-> <<>>, gets |-> 0, puts |-> 0]

(* Only a final status with a body, of a listed type, not encoded already. *)
Candidate(code, h) ==
  code \in 200..599 /\ code # 204 /\ h.ce = "none" /\ h.ct = "json"
CompressesStatus(code) == code \notin {206, 304}

(* markCompressed: the length and a strong tag describe the plain body.    *)
MarkCompressed(h) ==
  [h EXCEPT !.ce = "gzip", !.cl = FALSE, !.etag = IF @ = "strong" THEN "weak" ELSE @]

SendHeldLive(s, compressed) ==     \* mutant: sends the live header
  LET t == [s EXCEPT !.hdr = IF compressed THEN MarkCompressed(@) ELSE @]
  IN RecWriteHeader(t, s.gz.status)
(* sendHeld: the held status with the header as it was at WriteHeader; a   *)
(* trailer keeps its later value, a declared one by way of restoreHeader.  *)
RestoreHeader(s) == [s.gz.held EXCEPT !.prefixed = s.hdr.prefixed]
SendHeld(s, compressed) ==
  LET h == RestoreHeader(s)
      t == RecWriteHeader([s EXCEPT !.hdr = IF compressed THEN MarkCompressed(h) ELSE h], s.gz.status)
  IN IF s.gz.held.declared /\ s.hdr.sum # 0 THEN [t EXCEPT !.hdr.sum = s.hdr.sum] ELSE t

Encode(bytes, compressed) == [i \in DOMAIN bytes |-> [id |-> bytes[i], z |-> compressed]]

(* The compressor passes on what it likes of what it holds, at the latest  *)
(* on Flush and Close; here it emits everything on those two and nothing   *)
(* before.  It takes nothing more once a write has failed.                 *)
ZWrite(s, bytes) == IF s.net.broken THEN s ELSE [s EXCEPT !.gz.zbuf = @ \o bytes]
ZFlush(s) ==
  IF s.gz.zbuf = <<>> \/ s.net.broken THEN s
  ELSE RecWrite([s EXCEPT !.gz.zbuf = <<>>], Encode(s.gz.zbuf, TRUE))
ZClose(s) ==
  LET t == RecWrite([s EXCEPT !.gz.zbuf = <<>>], Encode(s.gz.zbuf, TRUE))
  IN [t EXCEPT !.net.zdone = ~t.net.hijacked /\ ~t.net.broken]

(* release: reset the compressor and return it to the pool, once.          *)
Release(s) ==
  IF ~s.gz.zw THEN s
  ELSE [s EXCEPT !.gz.zw = FALSE, !.gz.zbuf = <<>>, !.gz.puts = @ + 1]

CommitCompressedEmpty(s) ==        \* mutant: the buffered bytes are dropped
  LET t == SendHeld([s EXCEPT !.gz.state = "compressed"], TRUE)
  IN [t EXCEPT !.gz.zw = TRUE, !.gz.gets = @ + 1, !.gz.buf = <<>>]
CommitCompressed(s) ==
  LET t == SendHeld([s EXCEPT !.gz.state = "compressed"], TRUE)
      u == [t EXCEPT !.gz.zw = TRUE, !.gz.gets = @ + 1, !.gz.buf = <<>>]
  IN ZWrite(u, s.gz.buf)

CommitIdentity(s) ==
  LET t == SendHeld([s EXCEPT !.gz.state = "identity"], FALSE)
  IN IF s.gz.buf = <<>> THEN t
     ELSE RecWrite([t EXCEPT !.gz.buf = <<>>], Encode(s.gz.buf, FALSE))

(* WriteHeader: informational statuses pass, an incompressible response    *)
(* goes out at once, a compressible one waits for its size.                *)
GzWriteHeader(s, code) ==
  LET cand == Candidate(code, s.hdr)
      h == [s.hdr EXCEPT !.vary = @ \/ cand]
  IN CASE s.gz.state # "pending" -> s
       [] s.gz.state = "pending" /\ Informational(code) -> RecWriteHeader(s, code)
       [] OTHER ->
            IF ~cand \/ ~s.gz.accepts \/ ~CompressesStatus(code)
            THEN RecWriteHeader([s EXCEPT !.hdr = h, !.gz.state = "identity"], code)
            ELSE [s EXCEPT !.hdr = h, !.gz.state = "buffering", !.gz.status = code,
                           !.gz.held = h]

ImplicitStatus(s) == IF s.gz.state = "pending" THEN GzWriteHeader(s, OK200) ELSE s

GzWriteLate(s, bytes) ==           \* mutant: off by one at the threshold
  LET t == ImplicitStatus(s)
  IN CASE t.gz.state = "buffering" ->
            IF Len(t.gz.buf) + Len(bytes) <= MinBytes
            THEN [t EXCEPT !.gz.buf = @ \o bytes]
            ELSE ZWrite(CommitCompressed(t), bytes)
       [] t.gz.state = "compressed" -> ZWrite(t, bytes)
       [] t.gz.state = "hijacked" -> t
       [] OTHER -> RecWrite(t, Encode(bytes, FALSE))
GzWrite(s, bytes) ==
  LET t == ImplicitStatus(s)
  IN CASE t.gz.state = "buffering" ->
            IF Len(t.gz.buf) + Len(bytes) < MinBytes
            THEN [t EXCEPT !.gz.buf = @ \o bytes]
            ELSE ZWrite(CommitCompressed(t), bytes)
       [] t.gz.state = "compressed" -> ZWrite(t, bytes)
       [] t.gz.state = "hijacked" -> t                       \* http.ErrHijacked
       [] OTHER -> RecWrite(t, Encode(bytes, FALSE))

GzFlush(s) ==
  LET t == ImplicitStatus(s)
      u == CASE t.gz.state = "buffering"  -> CommitIdentity(t)
             [] t.gz.state = "compressed" -> ZFlush(t)
             [] OTHER -> t
      failed == s.net.broken /\ t.gz.state \in {"buffering", "compressed"}
  IN IF failed \/ t.gz.state = "hijacked" THEN u ELSE RecFlush(u)

GzHijackKeepsZw(s) ==              \* mutant: the compressor is not returned
  IF HijackFails(s) THEN s
  ELSE LET t == RecHijack(s)
       IN [t EXCEPT !.gz.buf = <<>>, !.gz.zw = FALSE, !.gz.zbuf = <<>>,
                    !.gz.state = "hijacked"]
(* Hijack: what is held back is dropped.                                   *)
GzHijack(s) ==
  IF HijackFails(s) THEN s
  ELSE LET t == Release([RecHijack(s) EXCEPT !.gz.buf = <<>>])
       IN [t EXCEPT !.gz.state = "hijacked"]

(* finish: the handler returned.                                           *)
GzFinish(s) ==
  LET t == ImplicitStatus(s)
  IN CASE t.gz.state = "buffering"  -> CommitIdentity(t)
       [] t.gz.state = "compressed" -> Release(ZClose(t))
       [] OTHER -> t

GzAbortCloses(s) ==                \* mutant: the stream is ended properly
  LET t == IF s.gz.state = "compressed" THEN ZClose(s) ELSE s
  IN Release([t EXCEPT !.gz.buf = <<>>])
(* abort: a panic unwinds.  A compressed stream is left without trailer.   *)
GzAbort(s) ==
  LET t == IF s.gz.state = "buffering" THEN [s EXCEPT !.hdr.cl = FALSE] ELSE s
  IN Release([t EXCEPT !.gz.buf = <<>>])
=============================================================================
