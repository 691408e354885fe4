------------------------- MODULE RouteTimeout_proof -------------------------
(***************************************************************************)
(* Proof that a request under RouteTimeout ends with one whole response,   *)
(* for any timeout, any statuses and any number of the handler's calls.    *)
(*                                                                         *)
(* The property speaks of the end alone.  What makes it true is that until *)
(* then nothing has reached the client's side of a limited request, and    *)
(* the buffer is what the bare writer was given (Behind); an unlimited     *)
(* request has no buffer and its response is the bare one (Level).         *)
(***************************************************************************)
EXTENDS RouteTimeout, Recoverer_proof

(* The headers a handler can set here.                                     *)
HandlerHeaders ==
  {h \in Headers : /\ h.ce = "none" /\ h.cl = FALSE /\ h.vary = FALSE /\ h.etag = "none"
                   /\ h.declared = FALSE /\ h.sum = 0 /\ h.prefixed = 0}
FinalStatuses == 200..599

TypeInv ==
  /\ d \in Nat /\ ops \in Nat
  /\ serve \in {"serving", "unwinding", "done"}
  /\ hand \in {"running", "returned", "panicked", "aborted"}
  /\ ctx \in {"live", "deadline", "canceled"}
  /\ ~Limited(d) => ctx = "live"
  /\ serve = "unwinding" => hand \in {"panicked", "aborted"}

(* The bare writer: no informational status, nothing hijacked or failed.   *)
Clean(n) ==
  /\ n.infos = <<>>
  /\ ~n.hijacked /\ ~n.broken /\ ~n.aborted
  /\ n.status \in {NoStatus} \cup FinalStatuses
  /\ n.status = NoStatus \/ ~BodyAllowed(n.status) => n.body = <<>>
Bare(p) == Response(p) /\ p.hdr \in HandlerHeaders /\ Clean(p.net)

(* A limited request before it is answered.                                *)
Untouched(t) ==
  /\ Recorded(t)
  /\ t.hdr = NoHeader /\ t.net = NewNet(NoHeader) /\ t.rec = NewRecorder
Buffer(hdr, status, body, closed) ==
  [hdr |-> hdr, status |-> status, body |-> body, closed |-> closed]
Behind(b, p) ==
  /\ b = Buffer(p.hdr, p.net.status, b.body, b.closed)
  /\ b.body \in Seq(Byte) /\ ~b.closed
  /\ BodyAllowed(p.net.status) => b.body = p.net.body

(* An unlimited one.                                                       *)
Level(t, p) ==
  /\ Recorded(t)
  /\ t.hdr = p.hdr /\ t.net = p.net
  /\ Agrees(t.net, t.rec)

(* A request that was answered although its handler is still running.      *)
LeftBehind == TimeoutEnvelope \/ Bare503

Ended ==
  /\ HandlersResponse \/ LeftBehind \/ Recovered500 \/ CutShort
  /\ ~s.net.aborted => s.rec.status = s.net.status
  /\ hand = "panicked" /\ ctx = "live" => reported
  /\ hand = "running" => LeftBehind

IInv ==
  /\ TypeInv
  /\ Bare(plain)
  /\ serve # "done" => IF Limited(d) THEN Untouched(s) /\ Behind(tw, plain) ELSE Level(s, plain)
  /\ serve = "done" => Ended

-----------------------------------------------------------------------------
(* The headers a handler sets have nothing net/http takes off or adds.     *)
LEMMA SameHeader ==
  ASSUME NEW g \in Headers, NEW h \in Headers,
         g.ce = h.ce, g.cl = h.cl, g.vary = h.vary, g.etag = h.etag,
         g.declared = h.declared, g.sum = h.sum, g.prefixed = h.prefixed
  PROVE  h = [g EXCEPT !.ct = h.ct, !.late = h.late]
<1> DEFINE f == [g EXCEPT !.ct = h.ct, !.late = h.late]
<1>1. f \in Headers /\ f.ct = h.ct /\ f.late = h.late
  BY DEF Headers
<1>2. /\ f.ce = g.ce /\ f.cl = g.cl /\ f.vary = g.vary /\ f.etag = g.etag
      /\ f.declared = g.declared /\ f.sum = g.sum /\ f.prefixed = g.prefixed
  BY DEF Headers
<1> HIDE DEF f
<1>3. f = h
  BY <1>1, <1>2 DEF Headers
<1> QED BY <1>3 DEF f

LEMMA HandlerHeaderFacts ==
  ASSUME NEW h \in HandlerHeaders
  PROVE  /\ h \in Headers
         /\ [h EXCEPT !.prefixed = 0] = h
         /\ h = [NoHeader EXCEPT !.ct = h.ct, !.late = h.late]
<1>1. h \in Headers
  BY DEF HandlerHeaders
<1>2. [h EXCEPT !.prefixed = 0] = h
  BY DEF HandlerHeaders, Headers
<1>3. h = [NoHeader EXCEPT !.ct = h.ct, !.late = h.late]
  <2>1. NoHeader \in Headers
    BY DEF NoHeader, Headers
  <2>2. /\ NoHeader.ce = h.ce /\ NoHeader.cl = h.cl /\ NoHeader.vary = h.vary
        /\ NoHeader.etag = h.etag /\ NoHeader.declared = h.declared
        /\ NoHeader.sum = h.sum /\ NoHeader.prefixed = h.prefixed
    BY DEF NoHeader, HandlerHeaders
  <2> QED BY <1>1, <2>1, <2>2, SameHeader
<1> QED BY <1>1, <1>2, <1>3

LEMMA HandlerSetsFacts ==
  ASSUME NEW h \in HandlerHeaders, NEW ct \in {"json", "text"}
  PROVE  /\ [h EXCEPT !.ct = ct] \in HandlerHeaders
         /\ [h EXCEPT !.ct = ct, !.late = TRUE] \in HandlerHeaders
BY DEF HandlerHeaders, Headers

LEMMA FirstHeader == NoHeader \in HandlerHeaders
  /\ [NoHeader EXCEPT !.ct = "json"] \in HandlerHeaders /\ ~NoHeader.late
<1>1. NoHeader \in HandlerHeaders /\ ~NoHeader.late
  BY DEF HandlerHeaders, NoHeader, Headers
<1> QED BY <1>1, HandlerSetsFacts

LEMMA NewNetType ==
  /\ NewNet(NoHeader) \in Net /\ ~Quiet(NewNet(NoHeader))
  /\ NewNet(NoHeader).status = NoStatus /\ NewNet(NoHeader).body = <<>>
  /\ NewNet(NoHeader).infos = <<>> /\ NewNet(NoHeader).hdr = NoHeader
  /\ ~NewNet(NoHeader).hijacked /\ ~NewNet(NoHeader).broken /\ ~NewNet(NoHeader).aborted
<1>1. NoHeader \in Headers
  BY FirstHeader, HandlerHeaderFacts
<1> QED BY <1>1 DEF NewNet, Net, Quiet, NoStatus

LEMMA NewRecorderType ==
  /\ NewRecorder \in Rec /\ NewRecorder.status = OK200 /\ ~NewRecorder.wrote /\ ~NewRecorder.bare
  /\ Agrees(NewNet(NoHeader), NewRecorder)
<1>1. /\ NewRecorder \in Rec /\ NewRecorder.status = OK200
      /\ ~NewRecorder.wrote /\ ~NewRecorder.bare
  BY DEF NewRecorder, Rec, OK200
<1> QED BY <1>1, NewNetType DEF Agrees

LEMMA FinalIsFinal ==
  ASSUME NEW code \in FinalStatuses
  PROVE  code \in Nat \ {0} /\ ~Informational(code) /\ code # NoStatus
BY DEF FinalStatuses, Informational, NoStatus

(* A final status onto a response of which nothing was sent.               *)
LEMMA FirstStatus ==
  ASSUME NEW n \in Net, ~Quiet(n), NEW h \in HandlerHeaders, NEW code \in FinalStatuses
  PROVE  /\ Headed(n, h, code) \in Net
         /\ Headed(n, h, code).status = code /\ Headed(n, h, code).hdr = h
         /\ Headed(n, h, code).body = n.body /\ Headed(n, h, code).infos = n.infos
         /\ Headed(n, h, code).hijacked = n.hijacked
         /\ Headed(n, h, code).broken = n.broken /\ Headed(n, h, code).aborted = n.aborted
<1>1. h \in Headers /\ [h EXCEPT !.prefixed = 0] = h
  BY HandlerHeaderFacts
<1>2. code \in Nat /\ ~Informational(code)
  BY FinalIsFinal
<1>3. Headed(n, h, code) = [n EXCEPT !.status = code, !.hdr = h]
  BY <1>1, <1>2 DEF Headed
<1> QED BY <1>1, <1>2, <1>3, HeadedKeeps, HeadedSends DEF Net

-----------------------------------------------------------------------------
(* The end of a request whose header block has gone out changes nothing    *)
(* but trailers.                                                           *)
LEMMA ReturnAfterStatus ==
  ASSUME NEW t, Recorded(t), Quiet(t.net)
  PROVE  /\ NetReturn(t).net.status = t.net.status /\ NetReturn(t).net.hdr = t.net.hdr
         /\ NetReturn(t).net.body = t.net.body /\ NetReturn(t).net.aborted = t.net.aborted
         /\ NetReturn(t).rec = t.rec
<1>1. t.hdr \in Headers /\ t.net \in Net /\ t.rec \in Rec
  BY DEF Recorded, Response
<1> DEFINE n == Returned(t.net, t.hdr)
<1>2. Headed(t.net, t.hdr, OK200) = t.net
  BY <1>1, OkIsNat, HeadedTwice
<1>3. /\ n \in Net /\ n.status = t.net.status /\ n.hdr = t.net.hdr
      /\ n.body = t.net.body /\ n.aborted = t.net.aborted
  <2>1. /\ n \in Net /\ n.status = Headed(t.net, t.hdr, OK200).status
        /\ n.hdr = Headed(t.net, t.hdr, OK200).hdr
        /\ n.body = t.net.body /\ n.aborted = t.net.aborted
    BY <1>1, ReturnedKeeps, Zenon
  <2> QED BY <1>2, <2>1
<1> HIDE DEF n
<1>4. NetReturn(t) = With(t, t.hdr, n, t.rec)
  BY NetEndForms DEF n
<1> QED BY <1>1, <1>3, <1>4, WithFields

(* A response that begins here: header, status and perhaps bytes.          *)
Begun(t, h, code) == RecWriteHeader([t EXCEPT !.hdr = h], code)

LEMMA BegunForm ==
  ASSUME NEW t, Untouched(t), NEW h \in HandlerHeaders, NEW code \in FinalStatuses
  PROVE  /\ Recorded(Begun(t, h, code)) /\ Begun(t, h, code).hdr = h
         /\ Begun(t, h, code).net.status = code /\ Begun(t, h, code).net.hdr = h
         /\ Begun(t, h, code).net.body = <<>>
         /\ ~Begun(t, h, code).net.aborted /\ ~Begun(t, h, code).net.hijacked
         /\ ~Begun(t, h, code).net.broken
         /\ Begun(t, h, code).rec.status = code /\ Begun(t, h, code).rec.wrote
<1> DEFINE w == With(t, h, t.net, t.rec)
           m == Headed(t.net, h, code)
           r == Coded(t.rec, code)
           u == With(w, h, m, r)
<1>1. t.net \in Net /\ t.rec \in Rec /\ ~Quiet(t.net) /\ h \in Headers /\ code \in Nat
  BY HandlerHeaderFacts, FinalIsFinal, NewNetType DEF Untouched, Recorded, Response
<1>2. /\ m \in Net /\ m.status = code /\ m.hdr = h /\ m.body = <<>>
      /\ ~m.hijacked /\ ~m.broken /\ ~m.aborted
  BY <1>1, FirstStatus, NewNetType DEF Untouched
<1>3. r \in Rec /\ r.status = code /\ r.wrote
  <2>1. ~t.rec.wrote
    BY NewRecorderType DEF Untouched
  <2> QED BY <1>1, <2>1 DEF Coded, Rec
<1>4. [t EXCEPT !.hdr = h] = w
  BY DEF Untouched, Recorded, Response, With
<1>5. Recorded(w) /\ w.hdr = h /\ w.net = t.net /\ w.rec = t.rec
  BY <1>1, WithFields DEF Untouched
<1> HIDE DEF w
<1>6. Begun(t, h, code) = u
  BY <1>1, <1>4, <1>5, RecHeaderForm DEF Begun
<1> HIDE DEF m, r
<1>7. Recorded(u) /\ u.hdr = h /\ u.net = m /\ u.rec = r
  BY <1>1, <1>2, <1>3, <1>5, WithFields
<1> HIDE DEF u
<1> QED BY <1>2, <1>3, <1>6, <1>7

LEMMA BegunReturns ==
  ASSUME NEW t, Untouched(t), NEW h \in HandlerHeaders, NEW code \in FinalStatuses
  PROVE  LET w == NetReturn(Begun(t, h, code))
         IN /\ w.net.status = code /\ w.net.hdr = h /\ w.net.body = <<>>
            /\ w.rec.status = code
<1> DEFINE u == Begun(t, h, code)
<1>1. /\ Recorded(u) /\ u.net.status = code /\ u.net.hdr = h /\ u.net.body = <<>>
      /\ u.rec.status = code
  BY BegunForm
<1> HIDE DEF u
<1>2. Quiet(u.net)
  BY <1>1, FinalIsFinal DEF Quiet
<1> QED BY <1>1, <1>2, ReturnAfterStatus DEF u

LEMMA WholeReturns ==
  ASSUME NEW t, Untouched(t), NEW h \in HandlerHeaders, NEW code \in FinalStatuses,
         NEW bytes \in Seq(Byte)
  PROVE  LET w == NetReturn(RecWrite(Begun(t, h, code), bytes))
         IN /\ w.net.status = code /\ w.net.hdr = h
            /\ w.net.body = IF BodyAllowed(code) THEN bytes ELSE <<>>
            /\ w.rec.status = code
<1> DEFINE u == Begun(t, h, code)
           n == Bodied(u.net, u.hdr, bytes)
           v == With(u, u.hdr, n, Touched(u.rec))
<1>1. /\ Recorded(u) /\ u.net.status = code /\ u.net.hdr = h /\ u.net.body = <<>>
      /\ u.rec.status = code /\ u.rec.wrote /\ ~u.net.hijacked /\ ~u.net.broken
  BY BegunForm
<1> HIDE DEF u
<1>2. Quiet(u.net) /\ u.net \in Net /\ u.hdr \in Headers /\ u.rec \in Rec
  BY <1>1, FinalIsFinal DEF Quiet, Recorded, Response
<1>3. Headed(u.net, u.hdr, OK200) = u.net
  BY <1>2, OkIsNat, HeadedTwice
<1>4. Touched(u.rec) = u.rec
  BY <1>1, <1>2 DEF Touched, Rec
<1>5. <<>> \o bytes = bytes
  BY ConcatEmptySeq
<1>6. /\ n \in Net /\ n.status = code /\ n.hdr = h
      /\ n.body = IF BodyAllowed(code) THEN bytes ELSE <<>>
  <2>1. /\ n \in Net /\ n.status = Headed(u.net, u.hdr, OK200).status
        /\ n.hdr = Headed(u.net, u.hdr, OK200).hdr
    BY <1>2, BodiedKeeps, Zenon
  <2>2. n.body = IF u.net.hijacked \/ u.net.broken
                     \/ ~BodyAllowed(Headed(u.net, u.hdr, OK200).status)
                 THEN u.net.body ELSE u.net.body \o bytes
    BY <1>2, BodiedKeeps, Zenon
  <2> QED BY <1>1, <1>3, <1>5, <2>1, <2>2
<1> HIDE DEF n
<1>7. RecWrite(u, bytes) = v
  BY <1>1, RecWriteForm DEF n
<1>8. Recorded(v) /\ v.net = n /\ v.rec = u.rec
  BY <1>1, <1>2, <1>4, <1>6, WithFields
<1> HIDE DEF v
<1>9. Quiet(v.net)
  BY <1>6, <1>8, FinalIsFinal DEF Quiet
<1> QED BY <1>1, <1>6, <1>7, <1>8, <1>9, ReturnAfterStatus DEF u

-----------------------------------------------------------------------------
LEMMA InitIInv == Init => IInv
<1> SUFFICES ASSUME Init PROVE IInv
  OBVIOUS
<1>1. TypeInv
  BY DEF Init, TypeInv
<1>2. NoHeader \in HandlerHeaders /\ NoHeader \in Headers
  BY FirstHeader, HandlerHeaderFacts
<1> DEFINE n == NewNet(NoHeader)
           r == NewRecorder
<1>3. /\ plain = [hdr |-> NoHeader, net |-> n, canFlush |-> TRUE, canHijack |-> TRUE]
      /\ s = [hdr |-> NoHeader, net |-> n, canFlush |-> TRUE, canHijack |-> TRUE, rec |-> r]
      /\ tw = [hdr |-> NoHeader, status |-> NoStatus, body |-> <<>>, closed |-> FALSE]
      /\ serve = "serving"
  BY DEF Init
<1>4. /\ n \in Net /\ Clean(n) /\ r \in Rec /\ Agrees(n, r)
      /\ n.status = NoStatus /\ n.body = <<>>
  BY NewNetType, NewRecorderType DEF Clean
<1> HIDE DEF n, r
<1>5. Bare(plain)
  BY <1>2, <1>3, <1>4 DEF Bare, Response
<1>6. Recorded(s) /\ s.hdr = NoHeader /\ s.net = n /\ s.rec = r
  BY <1>2, <1>3, <1>4 DEF Recorded, Response
<1>7. Untouched(s) /\ Level(s, plain)
  BY <1>3, <1>4, <1>6 DEF Untouched, Level, n, r
<1>8. Behind(tw, plain)
  <2>1. plain.hdr = NoHeader /\ plain.net.status = NoStatus /\ plain.net.body = <<>>
    BY <1>3, <1>4
  <2>2. tw.body = <<>> /\ tw.body \in Seq(Byte)
    BY <1>3
  <2>3. tw = Buffer(NoHeader, NoStatus, <<>>, tw.closed) /\ ~tw.closed
    BY <1>3 DEF Buffer
  <2> QED BY <2>1, <2>2, <2>3 DEF Behind
<1> QED BY <1>1, <1>3, <1>5, <1>7, <1>8 DEF IInv

-----------------------------------------------------------------------------
(* What the handler's calls do to the bare writer.                         *)
LEMMA CleanHeaded ==
  ASSUME NEW n \in Net, Clean(n), NEW h \in HandlerHeaders, NEW code \in FinalStatuses
  PROVE  /\ Clean(Headed(n, h, code)) /\ Headed(n, h, code) \in Net
         /\ Headed(n, h, code).status = IF n.status = NoStatus THEN code ELSE n.status
         /\ Headed(n, h, code).body = n.body
<1>1. CASE n.status # NoStatus
  BY <1>1 DEF Headed, Quiet
<1>2. CASE n.status = NoStatus
  <2>1. ~Quiet(n) /\ n.body = <<>>
    BY <1>2 DEF Quiet, Clean
  <2>2. code # NoStatus
    BY FinalIsFinal
  <2> QED BY <1>2, <2>1, <2>2, FirstStatus DEF Clean
<1> QED BY <1>1, <1>2

LEMMA OkIsFinalStatus == OK200 \in FinalStatuses
BY DEF OK200, FinalStatuses

LEMMA CleanBodied ==
  ASSUME NEW n \in Net, Clean(n), NEW h \in HandlerHeaders, NEW bytes \in Seq(Byte)
  PROVE  /\ Clean(Bodied(n, h, bytes)) /\ Bodied(n, h, bytes) \in Net
         /\ Bodied(n, h, bytes).status = IF n.status = NoStatus THEN OK200 ELSE n.status
         /\ Bodied(n, h, bytes).body =
              IF BodyAllowed(Bodied(n, h, bytes).status) THEN n.body \o bytes ELSE n.body
<1> DEFINE m == Headed(n, h, OK200)
           b == Bodied(n, h, bytes)
<1>1. h \in Headers
  BY HandlerHeaderFacts
<1>2. /\ Clean(m) /\ m \in Net /\ m.body = n.body
      /\ m.status = IF n.status = NoStatus THEN OK200 ELSE n.status
  BY CleanHeaded, OkIsFinalStatus
<1>3. /\ b \in Net /\ b.infos = m.infos /\ b.status = m.status
      /\ b.broken = n.broken /\ b.hijacked = n.hijacked /\ b.aborted = n.aborted
  BY <1>1, BodiedKeeps, Zenon
<1>4. b.body = IF n.hijacked \/ n.broken \/ ~BodyAllowed(m.status) THEN n.body ELSE n.body \o bytes
  BY <1>1, BodiedKeeps, Zenon
<1>5. m.status # NoStatus
  BY <1>2, OkIsFinal
<1> HIDE DEF m, b
<1>6. b.body = IF BodyAllowed(b.status) THEN n.body \o bytes ELSE n.body
  BY <1>3, <1>4 DEF Clean
<1>7. Clean(b)
  BY <1>2, <1>3, <1>5, <1>6 DEF Clean
<1> QED BY <1>2, <1>3, <1>6, <1>7 DEF b

-----------------------------------------------------------------------------
(* The handler's calls keep the response or the buffer level with the bare *)
(* writer.                                                                 *)
Follows(direct, buffered, bare) ==
  /\ Bare(bare)
  /\ Behind(tw, plain) => Behind(buffered, bare)
  /\ Level(s, plain) => Level(direct, bare)

LEMMA CallKeepsIInv ==
  ASSUME IInv, NEW direct, NEW buffered, NEW bare,
         Call(direct, buffered, bare), Follows(direct, buffered, bare)
  PROVE  IInv'
<1>1. /\ hand = "running" /\ ops' = ops + 1 /\ plain' = bare
      /\ UNCHANGED <<d, serve, hand, ctx, reported>>
      /\ Limited(d) => tw' = buffered /\ s' = s
      /\ ~Limited(d) => s' = direct /\ tw' = tw
  BY DEF Call
<1>2. TypeInv'
  BY <1>1 DEF IInv, TypeInv, Limited
<1>3. Bare(plain)'
  BY <1>1 DEF Follows
<1>4. ASSUME serve # "done"
      PROVE  (IF Limited(d) THEN Untouched(s) /\ Behind(tw, plain) ELSE Level(s, plain))'
  <2>1. CASE Limited(d)
    BY <1>1, <1>4, <2>1 DEF IInv, Follows, Limited
  <2>2. CASE ~Limited(d)
    BY <1>1, <1>4, <2>2 DEF IInv, Follows, Limited
  <2> QED BY <2>1, <2>2
<1>5. ASSUME serve = "done" PROVE Ended'
  <2>1. LeftBehind /\ (~s.net.aborted => s.rec.status = s.net.status)
    BY <1>1, <1>5 DEF IInv, Ended
  <2>2. s' = s
    BY <1>1, <2>1 DEF LeftBehind, TimeoutEnvelope, Bare503, Limited
  <2>3. LeftBehind'
    BY <1>1, <2>1, <2>2 DEF LeftBehind, TimeoutEnvelope, Bare503
  <2> QED BY <1>1, <2>1, <2>2, <2>3 DEF Ended
<1> QED BY <1>1, <1>2, <1>3, <1>4, <1>5 DEF IInv

LEMMA BufferFields ==
  ASSUME NEW h, NEW c, NEW b, NEW f, NEW x
  PROVE  /\ Buffer(h, c, b, f).hdr = h /\ Buffer(h, c, b, f).status = c
         /\ Buffer(h, c, b, f).body = b /\ Buffer(h, c, b, f).closed = f
         /\ [Buffer(h, c, b, f) EXCEPT !.hdr = x] = Buffer(x, c, b, f)
         /\ [Buffer(h, c, b, f) EXCEPT !.status = x] = Buffer(h, x, b, f)
         /\ [Buffer(h, c, b, f) EXCEPT !.body = x] = Buffer(h, c, x, f)
BY DEF Buffer

LEMMA SetHeaderFollows ==
  ASSUME IInv, HandlerSetsHeader PROVE IInv'
<1>1. PICK ct \in {"json", "text"} :
        Call([s EXCEPT !.hdr = [s.hdr EXCEPT !.ct = ct, !.late = TRUE]],
             [tw EXCEPT !.hdr = [tw.hdr EXCEPT !.ct = ct, !.late = TRUE]],
             [plain EXCEPT !.hdr = [plain.hdr EXCEPT !.ct = ct, !.late = TRUE]])
  BY DEF HandlerSetsHeader
<1> DEFINE h == [plain.hdr EXCEPT !.ct = ct, !.late = TRUE]
           direct == [s EXCEPT !.hdr = [s.hdr EXCEPT !.ct = ct, !.late = TRUE]]
           buffered == [tw EXCEPT !.hdr = [tw.hdr EXCEPT !.ct = ct, !.late = TRUE]]
           bare == [plain EXCEPT !.hdr = h]
<1>2. h \in HandlerHeaders /\ h \in Headers
  <2>1. h \in HandlerHeaders
    BY HandlerSetsFacts DEF IInv, Bare
  <2> QED BY <2>1, HandlerHeaderFacts
<1>3. Bare(bare) /\ bare.hdr = h /\ bare.net = plain.net
  BY <1>2 DEF IInv, Bare, Response
<1>4. ASSUME Behind(tw, plain) PROVE Behind(buffered, bare)
  <2>1. tw.hdr = plain.hdr
    BY <1>4, BufferFields DEF Behind
  <2>2. buffered = Buffer(h, plain.net.status, tw.body, tw.closed)
    BY <1>4, <2>1, BufferFields DEF Behind
  <2> HIDE DEF buffered, bare, h
  <2> QED BY <1>3, <1>4, <2>2, BufferFields DEF Behind
<1>5. ASSUME Level(s, plain) PROVE Level(direct, bare)
  <2>1. direct = [s EXCEPT !.hdr = h]
    BY <1>5 DEF Level
  <2>2. Recorded(direct) /\ direct.hdr = h /\ direct.net = s.net /\ direct.rec = s.rec
    BY <1>2, <1>5, <2>1 DEF Level, Recorded, Response
  <2> QED BY <1>3, <1>5, <2>2 DEF Level
<1>6. Follows(direct, buffered, bare)
  BY <1>3, <1>4, <1>5 DEF Follows
<1>7. Call(direct, buffered, bare)
  BY <1>1
<1> HIDE DEF direct, buffered, bare
<1> QED BY <1>6, <1>7, CallKeepsIInv

LEMMA WriteHeaderFollows ==
  ASSUME IInv, HandlerWritesHeader PROVE IInv'
<1>1. PICK code \in Statuses :
        Call(RecWriteHeader(s, code), TwWriteHeader(tw, code), NetWriteHeader(plain, code))
  BY DEF HandlerWritesHeader
<1> DEFINE n == Headed(plain.net, plain.hdr, code)
           direct == RecWriteHeader(s, code)
           buffered == TwWriteHeader(tw, code)
           bare == NetWriteHeader(plain, code)
<1>2. /\ code \in FinalStatuses /\ code \in Nat \ {0}
      /\ plain.net \in Net /\ plain.hdr \in HandlerHeaders /\ plain.hdr \in Headers
      /\ Response(plain) /\ Clean(plain.net)
  <2>1. code \in FinalStatuses
    BY TimeoutAssumption DEF FinalStatuses
  <2> QED BY <2>1, FinalIsFinal DEF IInv, Bare, Response
<1>3. /\ Clean(n) /\ n \in Net /\ n.body = plain.net.body
      /\ n.status = IF plain.net.status = NoStatus THEN code ELSE plain.net.status
  BY <1>2, CleanHeaded
<1> HIDE DEF n
<1>4. bare = [plain EXCEPT !.net = n]
  BY <1>2, NetForms DEF n
<1>5. Bare(bare) /\ bare.hdr = plain.hdr /\ bare.net = n
  BY <1>2, <1>3, <1>4 DEF Bare, Response
<1> HIDE DEF bare
<1>6. ASSUME Behind(tw, plain) PROVE Behind(buffered, bare)
  <2>1. /\ tw = Buffer(plain.hdr, plain.net.status, tw.body, tw.closed)
        /\ ~tw.closed /\ tw.status = plain.net.status /\ tw.body \in Seq(Byte)
    BY <1>6, BufferFields DEF Behind
  <2>2. buffered = Buffer(plain.hdr, n.status, tw.body, tw.closed)
    <3>1. CASE tw.status # NoStatus
      BY <1>3, <2>1, <3>1 DEF TwWriteHeader
    <3>2. CASE tw.status = NoStatus
      <4>1. buffered = [tw EXCEPT !.status = code]
        BY <2>1, <3>2 DEF TwWriteHeader
      <4> QED BY <1>3, <2>1, <3>2, <4>1, BufferFields
    <3> QED BY <3>1, <3>2
  <2>3. buffered.body = tw.body /\ ~buffered.closed /\ buffered.closed = tw.closed
    BY <2>1, <2>2, BufferFields
  <2>4. BodyAllowed(n.status) => tw.body = n.body
    <3>1. BodyAllowed(NoStatus)
      BY DEF BodyAllowed, NoStatus, Switching
    <3> QED BY <1>3, <1>6, <3>1 DEF Behind
  <2> HIDE DEF buffered
  <2> QED BY <1>5, <2>1, <2>2, <2>3, <2>4 DEF Behind
<1>7. ASSUME Level(s, plain) PROVE Level(direct, bare)
  <2> DEFINE r == Coded(s.rec, code)
  <2>1. Recorded(s) /\ s.hdr = plain.hdr /\ s.net = plain.net /\ Agrees(s.net, s.rec)
          /\ s.rec \in Rec
    BY <1>7 DEF Level, Recorded
  <2>2. direct = With(s, s.hdr, n, r)
    BY <1>2, <2>1, RecHeaderForm DEF n
  <2>3. Agrees(n, r)
    BY <1>2, <2>1, AgreesHeaded DEF n
  <2>4. r \in Rec
    BY <1>2, <2>1, RecTypes
  <2> HIDE DEF r, direct
  <2>5. Recorded(direct) /\ direct.hdr = s.hdr /\ direct.net = n /\ direct.rec = r
    BY <1>2, <1>3, <2>1, <2>2, <2>4, WithFields
  <2> QED BY <1>5, <2>1, <2>3, <2>5 DEF Level
<1>8. Follows(direct, buffered, bare)
  BY <1>5, <1>6, <1>7 DEF Follows
<1>9. Call(direct, buffered, bare)
  BY <1>1 DEF bare
<1> HIDE DEF direct, buffered
<1> QED BY <1>8, <1>9, CallKeepsIInv

LEMMA WriteFollows ==
  ASSUME IInv, HandlerWrites PROVE IInv'
<1> DEFINE bytes == <<[id |-> ops + 1, z |-> FALSE]>>
           n == Bodied(plain.net, plain.hdr, bytes)
           direct == RecWrite(s, bytes)
           buffered == TwWrite(tw, bytes)
           bare == NetWrite(plain, bytes)
<1>1. Call(direct, buffered, bare)
  BY DEF HandlerWrites
<1>2. /\ bytes \in Seq(Byte)
      /\ plain.net \in Net /\ plain.hdr \in HandlerHeaders /\ plain.hdr \in Headers
      /\ Response(plain) /\ Clean(plain.net)
  <2>1. ops + 1 \in Nat
    BY DEF IInv, TypeInv
  <2>2. [id |-> ops + 1, z |-> FALSE] \in Byte
    BY <2>1 DEF Byte
  <2> QED BY <2>2 DEF IInv, Bare, Response
<1> HIDE DEF bytes
<1>3. /\ Clean(n) /\ n \in Net
      /\ n.status = IF plain.net.status = NoStatus THEN OK200 ELSE plain.net.status
      /\ n.body = IF BodyAllowed(n.status) THEN plain.net.body \o bytes ELSE plain.net.body
  BY <1>2, CleanBodied
<1> HIDE DEF n
<1>4. bare = [plain EXCEPT !.net = n]
  BY <1>2, NetForms DEF n
<1>5. Bare(bare) /\ bare.hdr = plain.hdr /\ bare.net = n
  BY <1>2, <1>3, <1>4 DEF Bare, Response
<1> HIDE DEF bare
<1>6. ASSUME Behind(tw, plain) PROVE Behind(buffered, bare)
  <2>1. /\ tw = Buffer(plain.hdr, plain.net.status, tw.body, tw.closed)
        /\ ~tw.closed /\ tw.status = plain.net.status /\ tw.body \in Seq(Byte)
    BY <1>6, BufferFields DEF Behind
  <2> DEFINE w == TwWriteHeader(tw, OK200)
  <2>2. w = Buffer(plain.hdr, n.status, tw.body, tw.closed)
    <3>1. CASE tw.status # NoStatus
      BY <1>3, <2>1, <3>1 DEF TwWriteHeader
    <3>2. CASE tw.status = NoStatus
      <4>1. w = [tw EXCEPT !.status = OK200]
        BY <2>1, <3>2 DEF TwWriteHeader
      <4> QED BY <1>3, <2>1, <3>2, <4>1, BufferFields
    <3> QED BY <3>1, <3>2
  <2>3. buffered = [w EXCEPT !.body = w.body \o bytes]
    BY <2>1 DEF TwWrite
  <2> DEFINE body == tw.body \o bytes
  <2>4. body \in Seq(Byte)
    BY <1>2, <2>1
  <2> HIDE DEF w, buffered
  <2>5. w.body = tw.body
    BY <2>2, BufferFields
  <2>6. buffered = [w EXCEPT !.body = body]
    BY <2>3, <2>5
  <2> HIDE DEF body
  <2>7. buffered = Buffer(plain.hdr, n.status, body, tw.closed)
    BY <2>2, <2>6, BufferFields
  <2> HIDE DEF buffered
  <2>8. buffered.body = body /\ ~buffered.closed /\ buffered.closed = tw.closed
    BY <2>1, <2>7, BufferFields
  <2>9. BodyAllowed(n.status) => body = n.body
    <3>1. BodyAllowed(NoStatus)
      BY DEF BodyAllowed, NoStatus, Switching
    <3> QED BY <1>3, <1>6, <3>1 DEF Behind, body
  <2> QED BY <1>5, <2>7, <2>8, <2>9, <2>4, BufferFields DEF Behind
<1>7. ASSUME Level(s, plain) PROVE Level(direct, bare)
  <2> DEFINE r == Touched(s.rec)
  <2>1. Recorded(s) /\ s.hdr = plain.hdr /\ s.net = plain.net /\ Agrees(s.net, s.rec)
          /\ s.rec \in Rec
    BY <1>7 DEF Level, Recorded
  <2>2. direct = With(s, s.hdr, n, r)
    BY <1>2, <2>1, RecWriteForm DEF n
  <2>3. Agrees(n, r)
    BY <1>2, <2>1, AgreesBodied DEF n
  <2>4. r \in Rec
    BY <2>1, RecTypes
  <2> HIDE DEF r, direct
  <2>5. Recorded(direct) /\ direct.hdr = s.hdr /\ direct.net = n /\ direct.rec = r
    BY <1>2, <1>3, <2>1, <2>2, <2>4, WithFields
  <2> QED BY <1>5, <2>1, <2>3, <2>5 DEF Level
<1>8. Follows(direct, buffered, bare)
  BY <1>5, <1>6, <1>7 DEF Follows
<1> HIDE DEF direct, buffered
<1> QED BY <1>1, <1>8, CallKeepsIInv DEF bare

-----------------------------------------------------------------------------
(* The handler ends, the timer fires, the client goes.                     *)
LEMMA HandlerEndsKeepsIInv ==
  ASSUME IInv, HandlerEnds PROVE IInv'
<1>1. /\ hand = "running" /\ hand' \in {"returned", "panicked", "aborted"}
      /\ UNCHANGED <<d, serve, ctx, s, tw, plain, ops, reported>>
  BY DEF HandlerEnds
<1>2. TypeInv'
  BY <1>1 DEF IInv, TypeInv, Limited
<1>3. ASSUME serve = "done" PROVE Ended'
  <2>1. LeftBehind /\ (~s.net.aborted => s.rec.status = s.net.status)
    BY <1>1, <1>3 DEF IInv, Ended
  <2>2. LeftBehind'
    BY <1>1, <2>1 DEF LeftBehind, TimeoutEnvelope, Bare503
  <2>3. ctx' # "live"
    BY <1>1, <2>1 DEF LeftBehind, TimeoutEnvelope, Bare503
  <2> QED BY <1>1, <2>1, <2>2, <2>3 DEF Ended
<1> QED BY <1>1, <1>2, <1>3 DEF IInv, Limited

LEMMA ContextEndsKeepsIInv ==
  ASSUME IInv, TimerFires \/ ClientGoes PROVE IInv'
<1>1. /\ Limited(d) /\ serve = "serving" /\ ctx' \in {"deadline", "canceled"}
      /\ UNCHANGED <<d, serve, hand, s, tw, plain, ops, reported>>
  BY DEF TimerFires, ClientGoes, ContextEnds
<1>2. TypeInv'
  BY <1>1 DEF IInv, TypeInv, Limited
<1> QED BY <1>1, <1>2 DEF IInv, Limited

LEMMA RethrowKeepsIInv ==
  ASSUME IInv, Rethrow PROVE IInv'
<1>1. /\ serve = "serving" /\ serve' = "unwinding" /\ hand \in {"panicked", "aborted"}
      /\ UNCHANGED <<d, hand, ctx, s, tw, plain, ops, reported>>
  BY DEF Rethrow
<1>2. TypeInv'
  BY <1>1 DEF IInv, TypeInv, Limited
<1> QED BY <1>1, <1>2 DEF IInv, Limited

(* A response ends the request if it is one of those the property allows.  *)
LEMMA AnswerEnds ==
  ASSUME IInv, serve \in {"serving", "unwinding"}, serve' = "done",
         UNCHANGED <<d, hand, ctx, plain, ops>>, Ended'
  PROVE  IInv'
<1>1. TypeInv'
  BY DEF IInv, TypeInv, Limited
<1> QED BY <1>1 DEF IInv

-----------------------------------------------------------------------------
(* The envelope and the bare 503 for a request that was given up.          *)
LEMMA UnavailableForm ==
  ASSUME NEW t, Untouched(t)
  PROVE  JsonWriteHeader(t, Unavailable) = Begun(t, [NoHeader EXCEPT !.ct = "json"], 503)
<1>1. t.hdr.ct = "none" /\ t.hdr = NoHeader
  BY DEF Untouched, NoHeader
<1> QED BY <1>1 DEF JsonWriteHeader, Labelled, Unavailable, Begun

LEMMA UnavailableIsFinal == 503 \in FinalStatuses /\ BodyAllowed(503) /\ 503 = Unavailable
BY DEF FinalStatuses, BodyAllowed, Switching, Unavailable

LEMMA DeliverTimeoutKeepsIInv ==
  ASSUME IInv, DeliverTimeout PROVE IInv'
<1> DEFINE envelope == <<[id |-> TimeoutByte, z |-> FALSE]>>
           h == [NoHeader EXCEPT !.ct = "json"]
<1>1. /\ ctx = "deadline" /\ serve = "serving" /\ serve' = "done"
      /\ s' = NetReturn(RecWrite(JsonWriteHeader(s, Unavailable), envelope))
      /\ UNCHANGED <<d, hand, ctx, plain, ops, reported>>
  BY DEF DeliverTimeout, Answer
<1>2. Limited(d) /\ Untouched(s)
  BY <1>1 DEF IInv, TypeInv
<1>3. envelope \in Seq(Byte)
  <2>1. TimeoutByte \in Nat
    BY TimeoutAssumption DEF TimeoutByte
  <2>2. [id |-> TimeoutByte, z |-> FALSE] \in Byte
    BY <2>1 DEF Byte
  <2> QED BY <2>2
<1>4. s' = NetReturn(RecWrite(Begun(s, h, 503), envelope))
  BY <1>1, <1>2, UnavailableForm
<1>5. h \in HandlerHeaders
  BY FirstHeader
<1>6. Len(envelope) = 1 /\ envelope[1].id = TimeoutByte
  OBVIOUS
<1> HIDE DEF envelope, h
<1>7. /\ s'.net.status = 503 /\ s'.net.hdr = h /\ s'.net.body = envelope
      /\ s'.rec.status = 503
  BY <1>2, <1>3, <1>4, <1>5, WholeReturns, UnavailableIsFinal
<1>8. Body(s'.net) = <<TimeoutByte>>
  <2>1. Body(s'.net) = [i \in DOMAIN envelope |-> envelope[i].id]
    BY <1>7 DEF Body
  <2>2. DOMAIN envelope = {1}
    BY <1>3, <1>6
  <2>3. DOMAIN <<TimeoutByte>> = {1} /\ <<TimeoutByte>>[1] = TimeoutByte
    OBVIOUS
  <2>4. <<TimeoutByte>> = [i \in {1} |-> TimeoutByte]
    OBVIOUS
  <2> QED BY <1>6, <2>1, <2>2, <2>4
<1>9. TimeoutEnvelope'
  BY <1>1, <1>2, <1>7, <1>8, UnavailableIsFinal DEF TimeoutEnvelope, Limited, h
<1>10. Ended'
  BY <1>1, <1>7, <1>9 DEF Ended, LeftBehind
<1> QED BY <1>1, <1>10, AnswerEnds

LEMMA DeliverCanceledKeepsIInv ==
  ASSUME IInv, DeliverCanceled PROVE IInv'
<1> DEFINE h == [NoHeader EXCEPT !.ct = "json"]
<1>1. /\ ctx = "canceled" /\ serve = "serving" /\ serve' = "done"
      /\ s' = NetReturn(JsonWriteHeader(s, Unavailable))
      /\ UNCHANGED <<d, hand, ctx, plain, ops, reported>>
  BY DEF DeliverCanceled, Answer
<1>2. Limited(d) /\ Untouched(s)
  BY <1>1 DEF IInv, TypeInv
<1>3. s' = NetReturn(Begun(s, h, 503))
  BY <1>1, <1>2, UnavailableForm
<1>4. h \in HandlerHeaders
  BY FirstHeader
<1> HIDE DEF h
<1>5. /\ s'.net.status = 503 /\ s'.net.hdr = h /\ s'.net.body = <<>>
      /\ s'.rec.status = 503
  BY <1>2, <1>3, <1>4, BegunReturns, UnavailableIsFinal
<1>6. Body(s'.net) = <<>>
  BY <1>5 DEF Body
<1>7. Bare503'
  BY <1>1, <1>2, <1>5, <1>6, UnavailableIsFinal DEF Bare503, Limited, h
<1>8. Ended'
  BY <1>1, <1>5, <1>7 DEF Ended, LeftBehind
<1> QED BY <1>1, <1>8, AnswerEnds

-----------------------------------------------------------------------------
(* The handler's response.                                                 *)
LEMMA ReturnSends ==
  ASSUME NEW n \in Net, NEW h \in Headers, Clean(n)
  PROVE  /\ Returned(n, h) \in Net
         /\ Returned(n, h).status = IF n.status = NoStatus THEN OK200 ELSE n.status
         /\ Returned(n, h).body = n.body
         /\ Returned(n, h).aborted = n.aborted
<1>1. Headed(n, h, OK200).status = IF n.status = NoStatus THEN OK200 ELSE n.status
  <2>1. CASE n.status = NoStatus
    BY <2>1, OkIsNat, OkIsFinal, HeadedSends DEF Quiet, Clean
  <2>2. CASE n.status # NoStatus
    BY <2>2, OkIsNat, HeadedTwice DEF Quiet
  <2> QED BY <2>1, <2>2
<1>2. /\ Returned(n, h) \in Net /\ Returned(n, h).status = Headed(n, h, OK200).status
      /\ Returned(n, h).body = n.body /\ Returned(n, h).aborted = n.aborted
  BY ReturnedKeeps, Zenon
<1> QED BY <1>1, <1>2

LEMMA BareReturns ==
  ASSUME NEW p, Bare(p)
  PROVE  NetReturn(p).net = Returned(p.net, p.hdr)
BY NetForms DEF Bare, Response

(* Without a timeout the recorder tells the status that was sent.          *)
LEMMA LevelReturns ==
  ASSUME NEW t, NEW p, Level(t, p), Bare(p)
  PROVE  /\ NetReturn(t).net = Returned(p.net, p.hdr)
         /\ NetReturn(t).rec.status = Returned(p.net, p.hdr).status
<1> DEFINE n == Returned(p.net, p.hdr)
<1>1. /\ Recorded(t) /\ t.hdr = p.hdr /\ t.net = p.net /\ Agrees(p.net, t.rec)
      /\ p.net \in Net /\ p.hdr \in Headers /\ Clean(p.net) /\ t.rec \in Rec
  BY DEF Level, Bare, Recorded, Response
<1>2. n \in Net /\ n.status = IF p.net.status = NoStatus THEN OK200 ELSE p.net.status
  BY <1>1, ReturnSends
<1>3. t.rec.status = IF p.net.status = NoStatus THEN OK200 ELSE p.net.status
  BY <1>1 DEF Agrees, Clean, Quiet
<1> HIDE DEF n
<1>4. NetReturn(t) = With(t, t.hdr, n, t.rec)
  BY <1>1, NetEndForms DEF n
<1>5. NetReturn(t).net = n /\ NetReturn(t).rec = t.rec
  BY <1>1, <1>2, <1>4, WithFields
<1> QED BY <1>2, <1>3, <1>5 DEF n

LEMMA BufferedForm ==
  ASSUME Untouched(s), Bare(plain), Behind(tw, plain)
  PROVE  LET code == IF plain.net.status = NoStatus THEN OK200 ELSE plain.net.status
         IN /\ code \in FinalStatuses
            /\ Labelled(plain.hdr, code) \in HandlerHeaders
            /\ Buffered = RecWrite(Begun(s, Labelled(plain.hdr, code), code), tw.body)
<1> DEFINE code == IF plain.net.status = NoStatus THEN OK200 ELSE plain.net.status
           hdr == [s.hdr EXCEPT !.ct = IF tw.hdr.ct = "none" THEN s.hdr.ct ELSE tw.hdr.ct,
                                !.late = tw.hdr.late]
<1>1. /\ tw.hdr = plain.hdr /\ tw.status = plain.net.status
      /\ plain.hdr \in HandlerHeaders /\ s.hdr = NoHeader
  BY BufferFields DEF Behind, Bare, Untouched
<1>2. code \in FinalStatuses
  BY OkIsFinalStatus DEF Bare, Clean
<1>3. Labelled(plain.hdr, code) \in HandlerHeaders
  BY <1>1, HandlerSetsFacts DEF Labelled
<1>4. hdr = plain.hdr
  <2>1. NoHeader.ct = "none"
    BY DEF NoHeader
  <2>2. plain.hdr = [NoHeader EXCEPT !.ct = plain.hdr.ct, !.late = plain.hdr.late]
    BY <1>1, HandlerHeaderFacts
  <2>3. (IF tw.hdr.ct = "none" THEN s.hdr.ct ELSE tw.hdr.ct) = plain.hdr.ct
    BY <1>1, <2>1
  <2> QED BY <1>1, <2>2, <2>3
<1>5. Buffered = RecWrite(JsonWriteHeader([s EXCEPT !.hdr = hdr], code), tw.body)
  BY <1>1 DEF Buffered
<1> HIDE DEF hdr, code
<1>6. JsonWriteHeader([s EXCEPT !.hdr = hdr], code) = Begun(s, Labelled(plain.hdr, code), code)
  <2>1. [[s EXCEPT !.hdr = hdr] EXCEPT !.hdr = Labelled([s EXCEPT !.hdr = hdr].hdr, code)]
          = [s EXCEPT !.hdr = Labelled(plain.hdr, code)]
    BY <1>4 DEF Untouched, Recorded, Response
  <2> QED BY <2>1 DEF JsonWriteHeader, Begun
<1> QED BY <1>2, <1>3, <1>5, <1>6 DEF code

LEMMA DeliverResponseKeepsIInv ==
  ASSUME IInv, DeliverResponse PROVE IInv'
<1>1. /\ hand = "returned" /\ serve = "serving" /\ serve' = "done"
      /\ s' = NetReturn(IF Limited(d) THEN Buffered ELSE s)
      /\ tw' = [tw EXCEPT !.closed = FALSE]
      /\ UNCHANGED <<d, hand, ctx, plain, ops, reported>>
  BY DEF DeliverResponse, Answer
<1>2. Bare(plain) /\ plain.net \in Net /\ plain.hdr \in Headers /\ Clean(plain.net)
  BY DEF IInv, Bare, Response
<1> DEFINE sent == Returned(plain.net, plain.hdr)
           code == IF plain.net.status = NoStatus THEN OK200 ELSE plain.net.status
<1>3. NetReturn(plain).net = sent
  BY <1>2, BareReturns
<1>4. sent.status = code /\ sent.body = plain.net.body
  BY <1>2, ReturnSends
<1> HIDE DEF sent
<1>5. CASE Limited(d)
  <2>1. Untouched(s) /\ Behind(tw, plain)
    BY <1>1, <1>5 DEF IInv
  <2> DEFINE h == Labelled(plain.hdr, code)
  <2>2. /\ code \in FinalStatuses /\ h \in HandlerHeaders
        /\ Buffered = RecWrite(Begun(s, h, code), tw.body)
    BY <1>2, <2>1, BufferedForm, Zenon
  <2>3. /\ tw.body \in Seq(Byte) /\ tw.hdr = plain.hdr
        /\ BodyAllowed(plain.net.status) => tw.body = plain.net.body
    BY <2>1, BufferFields DEF Behind
  <2> HIDE DEF h, code
  <2>4. s' = NetReturn(RecWrite(Begun(s, h, code), tw.body))
    BY <1>1, <1>5, <2>2
  <2>5. /\ s'.net.status = code /\ s'.net.hdr = h /\ s'.rec.status = code
        /\ s'.net.body = IF BodyAllowed(code) THEN tw.body ELSE <<>>
    BY <2>1, <2>2, <2>3, <2>4, WholeReturns
  <2>6. s'.net.body = plain.net.body
    <3>1. BodyAllowed(NoStatus) /\ BodyAllowed(OK200)
      BY DEF BodyAllowed, NoStatus, OK200, Switching
    <3> QED BY <1>2, <2>3, <2>5, <3>1 DEF Clean, code
  <2>7. tw'.hdr = plain.hdr
    BY <1>1, <2>1, <2>3 DEF Behind, Buffer
  <2>8. HandlersResponse'
    BY <1>1, <1>3, <1>4, <1>5, <2>5, <2>6, <2>7 DEF HandlersResponse, Limited, Labelled, h
  <2>9. Ended'
    BY <1>1, <2>5, <2>8 DEF Ended
  <2> QED BY <1>1, <2>9, AnswerEnds
<1>6. CASE ~Limited(d)
  <2>1. s' = NetReturn(s) /\ Level(s, plain)
    BY <1>1, <1>6 DEF IInv
  <2>2. s'.net = sent /\ s'.rec.status = sent.status
    BY <1>2, <2>1, LevelReturns DEF sent
  <2>3. HandlersResponse'
    BY <1>1, <1>3, <1>4, <1>6, <2>2 DEF HandlersResponse, Limited
  <2>4. Ended'
    BY <1>1, <2>2, <2>3 DEF Ended
  <2> QED BY <1>1, <2>4, AnswerEnds
<1> QED BY <1>5, <1>6

-----------------------------------------------------------------------------
(* The handler's panic, in the request's goroutine.                        *)
LEMMA EnvelopeBody ==
  ASSUME NEW n, n.body \in {<<>>, <<[id |-> EnvelopeByte, z |-> FALSE]>>}
  PROVE  Body(n) \in {<<EnvelopeByte>>, <<>>}
<1>1. CASE n.body = <<>>
  BY <1>1 DEF Body
<1>2. CASE n.body = <<[id |-> EnvelopeByte, z |-> FALSE]>>
  <2> DEFINE b == <<[id |-> EnvelopeByte, z |-> FALSE]>>
  <2>1. DOMAIN b = {1} /\ b[1].id = EnvelopeByte
    OBVIOUS
  <2>2. Body(n) = [i \in DOMAIN b |-> b[i].id]
    BY <1>2 DEF Body
  <2> HIDE DEF b
  <2>3. Body(n) = [i \in {1} |-> EnvelopeByte]
    BY <2>1, <2>2
  <2>4. <<EnvelopeByte>> = [i \in {1} |-> EnvelopeByte]
    OBVIOUS
  <2> QED BY <2>3, <2>4
<1> QED BY <1>1, <1>2

LEMMA WrittenReturns ==
  ASSUME NEW t, NEW u, Recorded(t), Written500(u, t)
  PROVE  LET w == NetReturn(u)
         IN /\ w.net.status = 500 /\ w.rec.status = 500
            /\ Body(w.net) \in {<<EnvelopeByte>>, <<>>}
            /\ w.net.hdr.late = t.hdr.late
<1>1. PICK h \in Headers, m \in Net, r \in Rec :
        /\ u = With(t, h, m, r)
        /\ Answer500(m, t.net) /\ m.hdr.late = t.hdr.late
        /\ r.wrote /\ Agrees(m, r)
  BY DEF Written500
<1>2. Recorded(u) /\ u.net = m /\ u.rec = r
  BY <1>1, WithFields
<1>3. Quiet(m) /\ m.status = 500 /\ m.infos = <<>>
      /\ m.body \in {<<>>, <<[id |-> EnvelopeByte, z |-> FALSE]>>}
  BY <1>1, Code500 DEF Answer500, Quiet
<1>4. r.status = 500
  BY <1>1, <1>3, Code500 DEF Agrees
<1> DEFINE w == NetReturn(u)
<1>5. w.net.status = 500 /\ w.net.hdr = m.hdr /\ w.net.body = m.body /\ w.rec = r
  BY <1>2, <1>3, ReturnAfterStatus
<1> HIDE DEF w
<1>6. Body(w.net) \in {<<EnvelopeByte>>, <<>>}
  BY <1>3, <1>5, EnvelopeBody
<1> QED BY <1>1, <1>4, <1>5, <1>6 DEF w

LEMMA RecoveredKeepsIInv ==
  ASSUME IInv, Recovered PROVE IInv'
<1>1. /\ hand = "panicked" /\ serve = "unwinding" /\ serve' = "done" /\ reported' = TRUE
      /\ UNCHANGED <<d, hand, ctx, tw, plain, ops>>
  BY DEF Recovered
<1>2. PICK kind \in Kinds : s' = NetReturn(Recover(s, kind))
  BY DEF Recovered, Kinds
<1>3. Recorded(s) /\ Agrees(s.net, s.rec) /\ Bare(plain)
      /\ (Limited(d) => s.hdr = NoHeader /\ ~s.rec.wrote)
      /\ (~Limited(d) => Level(s, plain))
  BY <1>1, NewRecorderType DEF IInv, Untouched, Level
<1>4. CASE ~s.rec.wrote
  <2>1. Written500(Recover(s, kind), s)
    BY <1>3, <1>4, RecoverForm
  <2>2. /\ s'.net.status = 500 /\ s'.rec.status = 500
        /\ Body(s'.net) \in {<<EnvelopeByte>>, <<>>}
        /\ s'.net.hdr.late = s.hdr.late
    BY <1>2, <1>3, <2>1, WrittenReturns
  <2>3. Limited(d) => ~s'.net.hdr.late
    BY <1>3, <2>2, FirstHeader
  <2>4. Recovered500'
    BY <1>1, <2>2, <2>3 DEF Recovered500, Limited
  <2> QED BY <1>1, <2>2, <2>4, AnswerEnds DEF Ended
<1>5. CASE s.rec.wrote
  <2>1. ~Limited(d) /\ Level(s, plain)
    BY <1>3, <1>5
  <2>2. s' = NetReturn(s)
    BY <1>2, <1>3, <1>5, RecoverForm
  <2>3. s'.net = Returned(plain.net, plain.hdr) /\ s'.rec.status = s'.net.status
    BY <1>3, <2>1, <2>2, LevelReturns
  <2>4. Returned(plain.net, plain.hdr).body = plain.net.body
    BY <1>3, ReturnSends DEF Bare, Response
  <2>5. CutShort'
    BY <1>1, <2>1, <2>3, <2>4 DEF CutShort, Limited
  <2> QED BY <1>1, <2>3, <2>5, AnswerEnds DEF Ended
<1> QED BY <1>4, <1>5

LEMMA AbortKeepsIInv ==
  ASSUME IInv, AbortPassesOn PROVE IInv'
<1>1. /\ hand = "aborted" /\ serve = "unwinding" /\ serve' = "done" /\ s' = NetAbort(s)
      /\ UNCHANGED <<d, hand, ctx, tw, plain, ops, reported>>
  BY DEF AbortPassesOn
<1>2. /\ Recorded(s) /\ s.net \in Net /\ s.hdr \in Headers /\ s.rec \in Rec
      /\ Limited(d) => s.net = NewNet(NoHeader)
      /\ ~Limited(d) => s.net = plain.net
  BY <1>1 DEF IInv, Untouched, Level, Recorded, Response
<1> DEFINE n == [s.net EXCEPT !.aborted = TRUE]
<1>3. n \in Net /\ n.aborted /\ n.status = s.net.status /\ n.body = s.net.body
  BY <1>2 DEF Net
<1>4. s' = With(s, s.hdr, n, s.rec)
  BY <1>1, <1>2, NetEndForms
<1> HIDE DEF n
<1>5. s'.net = n
  BY <1>2, <1>3, <1>4, WithFields
<1>6. CutShort'
  BY <1>1, <1>2, <1>3, <1>5, NewNetType DEF CutShort, Limited, Committed
<1> QED BY <1>1, <1>3, <1>5, <1>6, AnswerEnds DEF Ended

-----------------------------------------------------------------------------
LEMMA StepKeepsIInv == IInv /\ [Next]_vars => IInv'
<1> SUFFICES ASSUME IInv, [Next]_vars PROVE IInv'
  OBVIOUS
<1>1. CASE HandlerSetsHeader \/ HandlerWritesHeader \/ HandlerWrites
  BY <1>1, SetHeaderFollows, WriteHeaderFollows, WriteFollows
<1>2. CASE HandlerEnds \/ TimerFires \/ ClientGoes \/ Rethrow
  BY <1>2, HandlerEndsKeepsIInv, ContextEndsKeepsIInv, RethrowKeepsIInv
<1>3. CASE DeliverResponse \/ DeliverTimeout \/ DeliverCanceled
  BY <1>3, DeliverResponseKeepsIInv, DeliverTimeoutKeepsIInv, DeliverCanceledKeepsIInv
<1>4. CASE Recovered \/ AbortPassesOn
  BY <1>4, RecoveredKeepsIInv, AbortKeepsIInv
<1>5. CASE UNCHANGED vars
  <2>1. UNCHANGED <<d, serve, hand, ctx, s, tw, plain, ops, reported>>
    BY <1>5 DEF vars
  <2> QED BY <2>1 DEF IInv, TypeInv, Limited, Ended, LeftBehind, HandlersResponse,
       TimeoutEnvelope, Bare503, Recovered500, CutShort
<1> QED BY <1>1, <1>2, <1>3, <1>4, <1>5 DEF Next, Serve, Over

(* A request under RouteTimeout ends with one whole response, whichever of *)
(* handler, panic, timer and client came first (src/middleware.go:506).    *)
THEOREM ResponseIsWhole == FairSpec => []OneWholeResponse
<1>1. IInv => OneWholeResponse
  BY DEF IInv, Ended, LeftBehind, OneWholeResponse
<1> QED BY <1>1, InitIInv, StepKeepsIInv, PTL DEF FairSpec
=============================================================================
