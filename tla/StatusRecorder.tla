--------------------------- MODULE StatusRecorder ---------------------------
(***************************************************************************)
(* StatusRecorder (src/recorder.go): the writer RequestLogger and          *)
(* Recoverer put over net/http's to see the status and whether the         *)
(* response is committed.  Its state is the field rec of a response state. *)
(***************************************************************************)
EXTENDS ResponseWriter

NewRecorder == [status |-> OK200, wrote |-> FALSE, bare |-> FALSE]

RecorderTypeOK(rec) ==
  rec.status \in Nat /\ rec.wrote \in BOOLEAN /\ rec.bare \in BOOLEAN

RecWrote(s) == [s EXCEPT !.rec.wrote = TRUE]

(* WriteHeader: the first code is recorded, every call is forwarded.       *)
RecWriteHeader(s, code) ==
  NetWriteHeader(IF s.rec.wrote THEN s
                 ELSE [s EXCEPT !.rec.status = code, !.rec.wrote = TRUE], code)

RecWrite(s, bytes) == NetWrite(RecWrote(s), bytes)

(* FlushError: everything but ErrNotSupported commits.                     *)
RecFlush(s) == IF s.canFlush THEN RecWrote(NetFlush(s)) ELSE NetFlush(s)

(* Hijack: latch whether anything was written before, then commit.         *)
RecHijack(s) ==
  IF HijackFails(s) THEN s
  ELSE [NetHijack(s) EXCEPT !.rec.bare = ~s.rec.wrote, !.rec.wrote = TRUE]

RecReadFromEager(s, bytes) ==      \* mutant: commits before the copy
  IF bytes = <<>> THEN RecWrote(s) ELSE RecWrote(NetWrite(s, bytes))
(* ReadFrom: committed only when at least one byte was written.            *)
RecReadFrom(s, bytes) ==
  IF bytes = <<>> THEN s ELSE RecWrote(NetWrite(s, bytes))

SwitchedProtocol(rec) == rec.status = Switching \/ rec.bare
=============================================================================
