---------------------------- MODULE RouteTimeout ----------------------------
(***************************************************************************)
(* RouteTimeout (src/middleware.go) under Recoverer: the handler runs in a *)
(* goroutine of its own and writes to http.TimeoutHandler's buffer; the    *)
(* request's goroutine waits for the first of the handler's end, its       *)
(* panic, and the end of the context, and then answers.  A handler that is *)
(* still running is left behind.  http.TimeoutHandler is outside src/.     *)
(***************************************************************************)
EXTENDS Recoverer

CONSTANTS
  Statuses,      \* the statuses the handler may write
  MaxOps         \* bound on the handler's calls

ASSUME TimeoutAssumption == Statuses \subseteq 200..599 /\ MaxOps \in Nat

Unavailable == 503
TimeoutByte == MaxOps + 1      \* the body of the timeout envelope, as one byte
NoHeader == [ct |-> "none", ce |-> "none", cl |-> FALSE, vary |-> FALSE,
             etag |-> "none", late |-> FALSE, declared |-> FALSE, sum |-> 0, prefixed |-> 0]

VARIABLES
  d,             \* the timeout, in units; 0 stands for none
  serve,         \* the request's goroutine: "serving", "unwinding", "done"
  hand,          \* the handler: "running", "returned", "panicked", "aborted"
  ctx,           \* the context: "live", "deadline", "canceled"
  s,             \* the response, see ResponseWriter and StatusRecorder
  tw,            \* http.TimeoutHandler's buffer
  plain,         \* history: the same calls on a bare writer
  ops,           \* calls made so far
  reported       \* Recoverer has logged a panic

vars == <<d, serve, hand, ctx, s, tw, plain, ops, reported>>

LimitedFromZero(dur) == dur >= 0       \* mutant
LimitedFromTwo(dur) == dur > 1         \* mutant
(* A timeout that is not positive returns the handler unwrapped.           *)
Limited(dur) == dur > 0

Init ==
  /\ d \in 0..2
  /\ serve = "serving" /\ hand = "running" /\ ctx = "live"
  /\ plain = [hdr |-> NoHeader, net |-> NewNet(NoHeader), canFlush |-> TRUE, canHijack |-> TRUE]
  /\ s = [hdr |-> NoHeader, net |-> NewNet(NoHeader), canFlush |-> TRUE, canHijack |-> TRUE,
          rec |-> NewRecorder]
  /\ tw = [hdr |-> NoHeader, status |-> NoStatus, body |-> <<>>, closed |-> FALSE]
  /\ ops = 0
  /\ reported = FALSE

-----------------------------------------------------------------------------
(* http.TimeoutHandler's writer: it buffers, and takes nothing once closed. *)

TwWriteHeader(t, code) ==
  IF t.closed \/ t.status # NoStatus THEN t ELSE [t EXCEPT !.status = code]
TwWrite(t, bytes) ==
  IF t.closed THEN t ELSE [TwWriteHeader(t, OK200) EXCEPT !.body = @ \o bytes]

LabelAny(hdr, code) == IF code = Unavailable THEN [hdr EXCEPT !.ct = "json"] ELSE hdr  \* mutant
(* jsonTimeoutWriter.WriteHeader: a 503 without a Content-Type is JSON.    *)
Labelled(hdr, code) ==
  IF code = Unavailable /\ hdr.ct = "none" THEN [hdr EXCEPT !.ct = "json"] ELSE hdr
JsonWriteHeader(t, code) == RecWriteHeader([t EXCEPT !.hdr = Labelled(@, code)], code)

-----------------------------------------------------------------------------
(* The handler's calls, into the buffer or straight through.               *)

Call(direct, buffered, bare) ==
  /\ hand = "running" /\ ops < MaxOps
  /\ ops' = ops + 1
  /\ plain' = bare
  /\ IF Limited(d) THEN tw' = buffered /\ UNCHANGED s ELSE s' = direct /\ UNCHANGED tw
  /\ UNCHANGED <<d, serve, hand, ctx, reported>>

HandlerSetsHeader ==
  \E ct \in {"json", "text"} :
    LET Set(h) == [h EXCEPT !.ct = ct, !.late = TRUE]
    IN Call([s EXCEPT !.hdr = Set(@)], [tw EXCEPT !.hdr = Set(@)], [plain EXCEPT !.hdr = Set(@)])

HandlerWritesHeader ==
  \E code \in Statuses :
    Call(RecWriteHeader(s, code), TwWriteHeader(tw, code), NetWriteHeader(plain, code))

HandlerWrites ==
  LET bytes == <<[id |-> ops + 1, z |-> FALSE]>>
  IN Call(RecWrite(s, bytes), TwWrite(tw, bytes), NetWrite(plain, bytes))

HandlerEnds ==
  /\ hand = "running"
  /\ hand' \in {"returned", "panicked", "aborted"}
  /\ UNCHANGED <<d, serve, ctx, s, tw, plain, ops, reported>>

-----------------------------------------------------------------------------
(* The context of a limited request ends with the timer or the client.     *)
ContextEnds(why) ==
  /\ Limited(d) /\ ctx = "live" /\ serve = "serving"
  /\ ctx' = why
  /\ UNCHANGED <<d, serve, hand, s, tw, plain, ops, reported>>
TimerFires == ContextEnds("deadline")
ClientGoes == ContextEnds("canceled")

(* The request's goroutine answers: any case of the select that is ready.  *)
Answer(t, closed) ==
  /\ serve = "serving"
  /\ serve' = "done"
  /\ s' = NetReturn(t)
  /\ tw' = [tw EXCEPT !.closed = closed]
  /\ UNCHANGED <<d, hand, ctx, plain, ops, reported>>

(* The handler is done: its header over the outer one, then the buffer.    *)
Buffered ==
  LET hdr == [s.hdr EXCEPT !.ct = IF tw.hdr.ct = "none" THEN @ ELSE tw.hdr.ct,
                           !.late = tw.hdr.late]
      code == IF tw.status = NoStatus THEN OK200 ELSE tw.status
  IN RecWrite(JsonWriteHeader([s EXCEPT !.hdr = hdr], code), tw.body)

DeliverResponse ==
  hand = "returned" /\ Answer(IF Limited(d) THEN Buffered ELSE s, FALSE)

DeliverTimeout ==
  /\ ctx = "deadline"
  /\ Answer(RecWrite(JsonWriteHeader(s, Unavailable), <<[id |-> TimeoutByte, z |-> FALSE]>>), TRUE)

(* The client went: a bare 503.                                            *)
DeliverCanceled == ctx = "canceled" /\ Answer(JsonWriteHeader(s, Unavailable), TRUE)

(* The handler's panic, passed on to the request's goroutine.              *)
Rethrow ==
  /\ serve = "serving" /\ hand \in {"panicked", "aborted"}
  /\ serve' = "unwinding"
  /\ UNCHANGED <<d, hand, ctx, s, tw, plain, ops, reported>>

Recovered ==
  /\ serve = "unwinding" /\ hand = "panicked"
  /\ serve' = "done"
  /\ reported' = TRUE
  /\ \E kind \in {"default", "panicsEarly", "panicsLate"} : s' = NetReturn(Recover(s, kind))
  /\ UNCHANGED <<d, hand, ctx, tw, plain, ops>>

AbortPassesOn ==
  /\ serve = "unwinding" /\ hand = "aborted"
  /\ serve' = "done"
  /\ s' = NetAbort(s)
  /\ UNCHANGED <<d, hand, ctx, tw, plain, ops, reported>>

Serve ==
  \/ DeliverResponse \/ DeliverTimeout \/ DeliverCanceled
  \/ Rethrow \/ Recovered \/ AbortPassesOn

Over == serve = "done" /\ UNCHANGED vars

Next ==
  \/ HandlerSetsHeader \/ HandlerWritesHeader \/ HandlerWrites \/ HandlerEnds
  \/ TimerFires \/ ClientGoes
  \/ Serve
  \/ Over

(* Timers fire and the request's goroutine runs; nothing is assumed of the *)
(* handler.                                                                *)
FairSpec == Init /\ [][Next]_vars /\ WF_vars(TimerFires) /\ WF_vars(Serve)

-----------------------------------------------------------------------------
Body(net) == [i \in DOMAIN net.body |-> net.body[i].id]

(* What the request may end with: the handler's response, with a 503 it    *)
(* left unlabelled served as JSON when there is a limit; the envelope; a   *)
(* bare 503; Recoverer's 500, or what was sent before the panic.           *)
HandlersResponse ==
  /\ hand = "returned"
  /\ s.net.status = NetReturn(plain).net.status
  /\ s.net.body = plain.net.body
  /\ s.net.hdr = IF ~Limited(d) THEN NetReturn(plain).net.hdr
                 ELSE IF s.net.status = Unavailable /\ tw.hdr.ct = "none"
                   THEN [tw.hdr EXCEPT !.ct = "json"] ELSE tw.hdr
TimeoutEnvelope ==
  /\ d > 0 /\ ctx = "deadline"
  /\ s.net.status = Unavailable /\ Body(s.net) = <<TimeoutByte>>
  /\ s.net.hdr = [NoHeader EXCEPT !.ct = "json"]
Bare503 ==
  /\ d > 0 /\ ctx = "canceled"
  /\ s.net.status = Unavailable /\ Body(s.net) = <<>>
  /\ s.net.hdr = [NoHeader EXCEPT !.ct = "json"]
Recovered500 ==
  /\ hand = "panicked"
  /\ s.net.status = 500 /\ Body(s.net) \in {<<EnvelopeByte>>, <<>>}
  /\ d > 0 => ~s.net.hdr.late
CutShort ==
  /\ hand \in {"panicked", "aborted"}
  /\ IF d > 0 THEN ~Committed(s) /\ s.net.aborted ELSE s.net.body = plain.net.body

(* A request ends with one response, whole, never a mixture, whichever of  *)
(* handler, panic, timer and client came first and whatever the handler    *)
(* does afterwards, and what the recorder reports is its status            *)
(* (RouteTimeout, src/middleware.go:506; jsonTimeoutWriter, :487).  A panic*)
(* before the timeout and the client's departure is logged, whatever was   *)
(* committed by then (Recoverer, :88); a later one may be lost in          *)
(* http.TimeoutHandler's goroutine (:554).                                 *)
OneWholeResponse ==
  serve = "done" =>
    /\ HandlersResponse \/ TimeoutEnvelope \/ Bare503 \/ Recovered500 \/ CutShort
    /\ ~s.net.aborted => s.rec.status = s.net.status
    /\ hand = "panicked" /\ ctx = "live" => reported

(* A limited request ends even if its handler never does, and is answered  *)
(* though the handler may hang (RouteTimeout, src/middleware.go:506).      *)
LimitedRequestEnds == d > 0 ~> serve = "done"

=============================================================================
