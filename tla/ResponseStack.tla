---------------------------- MODULE ResponseStack ----------------------------
(***************************************************************************)
(* One request through the usual stack Logging(Recoverer(Gzip(handler))),  *)
(* with or without Gzip and with or without a log record: the handler      *)
(* makes any calls on its writer in any order, and returns or panics.      *)
(*                                                                         *)
(* The same calls are made on plain, a bare net/http writer: what the      *)
(* client would get without the stack.  Safety properties compare the two. *)
(***************************************************************************)
EXTENDS GzipWriter, AccessLog, Recoverer, SequencesExt

CONSTANTS
  Statuses,      \* the statuses the handler may write
  MaxOps,        \* bound on the handler's calls
  MaxWrite,      \* bound on the bytes of one write
  Hooks          \* how RequestLogger's hooks behave, a set of LogHooks

ASSUME StackAssumption ==
  /\ Statuses \subseteq 100..599
  /\ MaxOps \in Nat /\ MaxWrite \in Nat \ {0}
  /\ Hooks \subseteq LogHooks

VARIABLES
  phase,         \* "handler", "panicked" while the stack unwinds, "done"
  s,             \* the response state, see the modules of its writers
  plain,         \* the response state of the bare writer, a history
  cfg,           \* what the stack is made of
  ops,           \* calls made so far
  next,          \* the next byte of the handler's body
  panicked,      \* how the handler ended: "no", "panic", "abort"
  record         \* what RequestLogger left of the request

vars == <<phase, s, plain, cfg, ops, next, panicked, record>>

(* uses: what the handler's headers are about, and whether the connection  *)
(* may fail.                                                               *)
Configs == [gzip : BOOLEAN, logged : BOOLEAN, skipUpgrades : BOOLEAN,
            uses : {"entity", "trailers", "fails"}]

TypeOK ==
  /\ phase \in {"handler", "panicked", "done"}
  /\ s.hdr \in Headers /\ s.net.hdr \in Headers /\ s.gz.held \in Headers
  /\ RecorderTypeOK(s.rec)
  /\ s.gz.state \in GzipStates
  /\ s.gz.buf \in Seq(1..(MaxOps * MaxWrite)) /\ Len(s.gz.buf) < MinBytes
  /\ s.gz.zw => s.gz.state = "compressed"
  /\ cfg \in Configs
  /\ ops \in 0..MaxOps
  /\ next \in 1..(MaxOps * MaxWrite + 1)
  /\ panicked \in {"no", "panic", "abort"}

NewHeader(ct) ==
  [ct |-> ct, ce |-> "none", cl |-> FALSE, vary |-> FALSE, etag |-> "none", late |-> FALSE,
   declared |-> FALSE, sum |-> 0, prefixed |-> 0]

Init ==
  /\ phase = "handler"
  /\ cfg \in {c \in Configs : /\ c.skipUpgrades => c.logged
                             /\ c.uses = "trailers" => ~c.logged}    \* no log looks at them
  /\ \E h \in {NewHeader("json"), NewHeader("text")}, accepts, canFlush, canHijack \in BOOLEAN :
       /\ s = [hdr |-> h, net |-> NewNet(h), canFlush |-> canFlush, canHijack |-> canHijack,
               rec |-> NewRecorder, gz |-> NewGzip(accepts, h)]
       /\ plain = [hdr |-> h, net |-> NewNet(h), canFlush |-> canFlush, canHijack |-> canHijack]
  /\ ops = 0 /\ next = 1
  /\ panicked = "no"
  /\ record = NoRecord

-----------------------------------------------------------------------------
(* The handler.                                                            *)

Call(stack, bare) ==
  /\ phase = "handler" /\ ops < MaxOps
  /\ ops' = ops + 1
  /\ s' = stack /\ plain' = bare
  /\ UNCHANGED <<phase, cfg, panicked, record>>

HandlerHeader(Set(_)) ==
  /\ Call([s EXCEPT !.hdr = Set(@)], [plain EXCEPT !.hdr = Set(@)])
  /\ UNCHANGED next

WithEntity(h) == [h EXCEPT !.cl = TRUE, !.etag = "strong"]
WithOwnEncoding(h) == [h EXCEPT !.ce = "own"]
WithOther(h) == [h EXCEPT !.late = TRUE]

DeclareTrailer(h) == [h EXCEPT !.declared = TRUE]
WithTrailer(h) == [h EXCEPT !.sum = IF @ < 2 THEN @ + 1 ELSE @]
WithPrefixed(h) == [h EXCEPT !.prefixed = IF @ < 2 THEN @ + 1 ELSE @]

SetEntityHeaders == cfg.uses = "entity" /\ HandlerHeader(WithEntity)
SetOwnEncoding == cfg.uses = "entity" /\ HandlerHeader(WithOwnEncoding)
SetOtherHeader == HandlerHeader(WithOther)
SetTrailers ==
  /\ cfg.uses = "trailers"
  /\ HandlerHeader(DeclareTrailer) \/ HandlerHeader(WithTrailer) \/ HandlerHeader(WithPrefixed)

HandlerWriteHeader ==
  /\ \E code \in Statuses :
       Call(IF cfg.gzip THEN GzWriteHeader(s, code) ELSE RecWriteHeader(s, code),
            NetWriteHeader(plain, code))
  /\ UNCHANGED next

NextBytes(n) == [i \in 1..n |-> next + i - 1]

HandlerWrite ==
  \E n \in 0..MaxWrite :
    /\ Call(IF cfg.gzip THEN GzWrite(s, NextBytes(n))
            ELSE RecWrite(s, Encode(NextBytes(n), FALSE)),
            NetWrite(plain, Encode(NextBytes(n), FALSE)))
    /\ next' = next + n

(* io.Copy into the recorder; gzipWriter has no ReadFrom.  A source that   *)
(* fails at once writes nothing.                                           *)
HandlerReadFrom ==
  /\ ~cfg.gzip
  /\ \E n \in 0..1 :
       /\ Call(RecReadFrom(s, Encode(NextBytes(n), FALSE)),
               IF n = 0 THEN plain ELSE NetWrite(plain, Encode(NextBytes(n), FALSE)))
       /\ next' = next + n

HandlerFlush ==
  /\ Call(IF cfg.gzip THEN GzFlush(s) ELSE RecFlush(s), NetFlush(plain))
  /\ UNCHANGED next

HandlerHijack ==
  /\ Call(IF cfg.gzip THEN GzHijack(s) ELSE RecHijack(s), NetHijack(plain))
  /\ UNCHANGED next

(* The compressor emits some of what it was given on its own.              *)
CompressorEmits ==
  /\ phase = "handler" /\ s.gz.zw /\ s.gz.zbuf # <<>>
  /\ s' = ZFlush(s)
  /\ UNCHANGED <<phase, plain, cfg, ops, next, panicked, record>>

(* The connection fails, under both writers.                               *)
ConnectionFails ==
  /\ phase = "handler" /\ cfg.uses = "fails" /\ ~s.net.broken
  /\ s' = [s EXCEPT !.net.broken = TRUE] /\ plain' = [plain EXCEPT !.net.broken = TRUE]
  /\ UNCHANGED <<phase, cfg, ops, next, panicked, record>>

-----------------------------------------------------------------------------
(* The end of the request.                                                 *)

(* RequestLogger's deferred line, with hooks of any kind; an escaping panic *)
(* cuts the connection.                                                    *)
Log(t, h) ==
  LET rec == IF cfg.logged THEN EmitAccessLog(t.rec, cfg.skipUpgrades, h) ELSE NoRecord
  IN /\ record' = rec
     /\ s' = IF rec.escaped THEN NetAbort(t) ELSE t

HandlerReturns ==
  /\ phase = "handler"
  /\ phase' = "done"
  /\ \E h \in Hooks :
       Log(NetReturn(IF cfg.gzip THEN GzFinish(s) ELSE s), h)
  /\ plain' = NetReturn(plain)
  /\ UNCHANGED <<cfg, ops, next, panicked>>

(* The panic reaches Gzip's deferred abort, then Recoverer's.              *)
HandlerPanics ==
  /\ phase = "handler"
  /\ phase' = "panicked"
  /\ panicked' \in {"panic", "abort"}
  /\ s' = IF cfg.gzip THEN GzAbort(s) ELSE s
  /\ UNCHANGED <<plain, cfg, ops, next, record>>

Recovered ==
  /\ phase = "panicked" /\ panicked = "panic"
  /\ phase' = "done"
  /\ \E kind \in {"default", "panicsEarly", "panicsLate"}, h \in Hooks :
       Log(NetReturn(Recover(s, kind)), h)
  /\ UNCHANGED <<plain, cfg, ops, next, panicked>>

(* http.ErrAbortHandler is re-panicked and cuts the connection.            *)
AbortPassesOn ==
  /\ phase = "panicked" /\ panicked = "abort"
  /\ phase' = "done"
  /\ \E h \in Hooks : Log(NetAbort(s), h)
  /\ UNCHANGED <<plain, cfg, ops, next, panicked>>

Finished == phase = "done" /\ UNCHANGED vars

Next ==
  \/ SetEntityHeaders \/ SetOwnEncoding \/ SetOtherHeader \/ SetTrailers \/ ConnectionFails
  \/ HandlerWriteHeader \/ HandlerWrite \/ HandlerReadFrom
  \/ HandlerFlush \/ HandlerHijack \/ CompressorEmits
  \/ HandlerReturns \/ HandlerPanics \/ Recovered \/ AbortPassesOn
  \/ Finished

Spec == Init /\ [][Next]_vars

-----------------------------------------------------------------------------
Ids(body) == [i \in DOMAIN body |-> body[i].id]
Zs(body) == {body[i].z : i \in DOMAIN body}
Compressed == TRUE \in Zs(s.net.body)
Done == phase = "done"
Answered == Done /\ panicked = "no" /\ ~s.net.hijacked /\ ~s.net.broken

(* What the client has so far is the beginning of what the bare writer     *)
(* would have sent it: nothing is reordered, doubled or dropped in the     *)
(* middle, no header or status overtakes the decision to compress, and no  *)
(* byte reaches the wire uncompressed after a compressed one, wherever the *)
(* connection fails.  A connection without Flush is excluded: a flush the  *)
(* bare writer refuses makes Gzip send its held status (FlushError,        *)
(* src/gzip.go:389).                                                       *)
WireIsPrefix ==
  phase = "handler" /\ s.canFlush =>
    /\ IsPrefix(Ids(s.net.body), Ids(plain.net.body))
    /\ s.net.infos = plain.net.infos
    /\ Cardinality(Zs(s.net.body)) <= 1
    /\ Committed(s) => s.net.status = plain.net.status

(* A completed response is the bare one, or its gzip encoding with the     *)
(* header fields markCompressed changes, and only when the client accepts  *)
(* it and the body is long enough.  Without Flush, as in WireIsPrefix, the *)
(* two may differ.                                                         *)
StackIsTransparent ==
  Answered /\ s.canFlush =>
    /\ s.net.status = plain.net.status
    /\ s.net.infos = plain.net.infos
    /\ Ids(s.net.body) = Ids(plain.net.body)
    /\ s.net.trailers = plain.net.trailers
    /\ IF s.net.hdr.ce = "gzip"
         THEN /\ s.net.hdr = [plain.net.hdr EXCEPT !.ce = "gzip", !.cl = FALSE, !.vary = TRUE,
                                                   !.etag = IF @ = "strong" THEN "weak" ELSE @]
              /\ FALSE \notin Zs(s.net.body) /\ s.net.zdone
              /\ s.gz.accepts /\ Len(s.net.body) >= MinBytes
         ELSE /\ [s.net.hdr EXCEPT !.vary = FALSE] = plain.net.hdr
              /\ TRUE \notin Zs(s.net.body)

(* A panic never mixes the 500 with the handler's response, leaves no      *)
(* length of a held-back body on it, and never ends a compressed stream as *)
(* if it were complete (abort, src/gzip.go:437).                           *)
PanicNeverCorrupts ==
  Done /\ panicked # "no" =>
    /\ EnvelopeByte \in Range(Ids(s.net.body)) =>
         /\ s.net.status = 500 /\ Ids(s.net.body) = <<EnvelopeByte>> /\ ~Compressed
         /\ s.gz.state = "buffering" => ~s.net.hdr.cl
    /\ Compressed => ~s.net.zdone

(* A panic that finds nothing of the final response on the wire, held back *)
(* or not, is answered 500, whatever the responder does (Recoverer).       *)
PanicAnswers500 ==
  [][ phase = "panicked" /\ panicked = "panic" /\ ~Committed(s) /\ ~s.net.hijacked
        => s'.net.status = 500 ]_vars

(* PanicAnswers500 for a response without an informational status: whatever *)
(* was held back, copied, flushed or refused before the panic.             *)
PanicAnswersFinal500 ==
  [][ phase = "panicked" /\ panicked = "panic" /\ ~Committed(s) /\ ~s.net.hijacked
        /\ s.net.infos = <<>>
        => s'.net.status = 500 ]_vars

(* Every request leaves exactly one line and at most one metric, except a  *)
(* skipped one and, with WithSkipUpgrades, one that switched protocols, and*)
(* the status in it is the one written (RequestMetric.Status,              *)
(* src/reqlog.go:456); hooks that panic neither lose the line nor cut the  *)
(* connection.  A response with an informational status is excluded: the   *)
(* recorder keeps that one, as PanicAnswers500 shows, and it hides a switch*)
(* of protocols.                                                           *)
SwitchedOnWire ==
  s.net.status = Switching \/ (s.net.hijacked /\ ~Committed(s))
StatusIsWritten ==
  record.lines > 0 /\ ~s.net.hijacked /\ ~s.net.aborted /\ ~s.net.broken =>
    record.status = s.net.status
OneLinePerRequest ==
  Done =>
    /\ s.net.infos = <<>> =>
         /\ StatusIsWritten
         /\ record.lines = IF cfg.logged /\ ~(cfg.skipUpgrades /\ SwitchedOnWire) THEN 1 ELSE 0
    /\ record.metrics <= record.lines
    /\ s.net.aborted => panicked = "abort"

(* The compressor of a request goes back to the pool exactly once.         *)
CompressorReturned ==
  /\ s.gz.puts <= s.gz.gets /\ s.gz.gets <= 1
  /\ phase # "handler" => s.gz.puts = s.gz.gets /\ ~s.gz.zw
=============================================================================
