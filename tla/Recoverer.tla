------------------------------ MODULE Recoverer ------------------------------
(***************************************************************************)
(* What Recoverer (src/middleware.go) writes for a panic, onto the         *)
(* recorder that tells it whether the response was committed.              *)
(***************************************************************************)
EXTENDS StatusRecorder

EnvelopeByte == 0      \* the body of the 500, as one byte

(* WriteError(w, r, 500, ...), onto the recorder.                          *)
WriteError(t) ==
  RecWrite(RecWriteHeader([t EXCEPT !.hdr.ct = "json"], 500),
           <<[id |-> EnvelopeByte, z |-> FALSE]>>)

(* writeRecoverResponse with the default responder, or a custom one that   *)
(* panics before it writes, or after it wrote its status.                  *)
Responder(t, kind) ==
  CASE kind = "default" -> WriteError(t)
    [] kind = "panicsEarly" -> IF t.rec.wrote THEN t ELSE WriteError(t)
    [] kind = "panicsLate" ->
         LET u == RecWriteHeader(t, 500) IN IF u.rec.wrote THEN u ELSE WriteError(u)

(* recoverPanic: the 500 only onto a response that was not committed.      *)
Recover(t, kind) == IF t.rec.wrote THEN t ELSE Responder(t, kind)
=============================================================================
