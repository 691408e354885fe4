------------------------- MODULE ResponseStack_proof -------------------------
(***************************************************************************)
(* Proofs about ResponseStack, for any statuses, threshold, bounds on the  *)
(* handler's calls and hooks of the logger.                                *)
(***************************************************************************)
EXTENDS ResponseStack, Recoverer_proof, FiniteSetTheorems

HandlerIds == 1..(MaxOps * MaxWrite)
HandlerByte == [id : HandlerIds, z : BOOLEAN]

Gz == [state : GzipStates, accepts : BOOLEAN, held : Headers, status : Nat,
       buf : Seq(HandlerIds), zw : BOOLEAN, zbuf : Seq(HandlerIds), gets : Nat, puts : Nat]

Stack == [hdr : Headers, net : Net, canFlush : BOOLEAN, canHijack : BOOLEAN,
          rec : Rec, gz : Gz]

(* The response t with every field but its connection's changed.           *)
Put(t, h, n, r, g) == [t EXCEPT !.hdr = h, !.net = n, !.rec = r, !.gz = g]

LEMMA StackFields ==
  ASSUME NEW t \in Stack
  PROVE  /\ Recorded(t)
         /\ t.hdr \in Headers /\ t.net \in Net /\ t.rec \in Rec /\ t.gz \in Gz
         /\ t.canFlush \in BOOLEAN /\ t.canHijack \in BOOLEAN
         /\ t = Put(t, t.hdr, t.net, t.rec, t.gz)
BY DEF Stack, Recorded, Response, Put

LEMMA PutFields ==
  ASSUME NEW t \in Stack, NEW h \in Headers, NEW n \in Net, NEW r \in Rec, NEW g \in Gz
  PROVE  /\ Put(t, h, n, r, g) \in Stack
         /\ Put(t, h, n, r, g).hdr = h
         /\ Put(t, h, n, r, g).net = n
         /\ Put(t, h, n, r, g).rec = r
         /\ Put(t, h, n, r, g).gz = g
         /\ Put(t, h, n, r, g).canFlush = t.canFlush
         /\ Put(t, h, n, r, g).canHijack = t.canHijack
BY DEF Stack, Put

LEMMA PutTwice ==
  ASSUME NEW t \in Stack, NEW h, NEW n, NEW r, NEW g, NEW h2, NEW n2, NEW r2, NEW g2
  PROVE  Put(Put(t, h, n, r, g), h2, n2, r2, g2) = Put(t, h2, n2, r2, g2)
BY DEF Stack, Put

LEMMA WithIsPut ==
  ASSUME NEW t \in Stack, NEW h, NEW n, NEW r
  PROVE  With(t, h, n, r) = Put(t, h, n, r, t.gz)
BY DEF Stack, Put, With

LEMMA GzFields ==
  ASSUME NEW g \in Gz
  PROVE  /\ g.state \in GzipStates /\ g.accepts \in BOOLEAN /\ g.held \in Headers
         /\ g.status \in Nat /\ g.buf \in Seq(HandlerIds) /\ g.zw \in BOOLEAN
         /\ g.zbuf \in Seq(HandlerIds) /\ g.gets \in Nat /\ g.puts \in Nat
BY DEF Gz

LEMMA EncodeType ==
  ASSUME NEW x \in Seq(HandlerIds), NEW z \in BOOLEAN
  PROVE  /\ Encode(x, z) \in Seq(HandlerByte)
         /\ Encode(x, z) \in Seq(Byte)
         /\ Len(Encode(x, z)) = Len(x)
         /\ \A i \in 1..Len(x) : Encode(x, z)[i] = [id |-> x[i], z |-> z]
<1>1. DOMAIN x = 1..Len(x) /\ Len(x) \in Nat /\ \A i \in 1..Len(x) : x[i] \in HandlerIds
  OBVIOUS
<1>2. Encode(x, z) = [i \in 1..Len(x) |-> [id |-> x[i], z |-> z]]
  BY <1>1 DEF Encode
<1>3. Encode(x, z) \in [1..Len(x) -> HandlerByte]
  BY <1>1, <1>2 DEF HandlerByte
<1>4. Encode(x, z) \in Seq(HandlerByte)
  BY <1>1, <1>3, IsASeq
<1>5. HandlerByte \subseteq Byte
  BY DEF HandlerByte, Byte, HandlerIds
<1>6. Encode(x, z) \in [1..Len(x) -> Byte]
  BY <1>3, <1>5
<1>7. Encode(x, z) \in Seq(Byte)
  BY <1>1, <1>6, IsASeq
<1>8. Len(Encode(x, z)) = Len(x)
  BY <1>1, <1>3, <1>4, LenProperties
<1> QED BY <1>2, <1>4, <1>7, <1>8

-----------------------------------------------------------------------------
(* The steps gzipWriter's calls are made of, in the same normal form.      *)

(* The header a held response is sent with, and the one left behind.       *)
SentHeader(t, c) == IF c THEN MarkCompressed(RestoreHeader(t)) ELSE RestoreHeader(t)
LeftHeader(t, c) ==
  IF t.gz.held.declared /\ t.hdr.sum # 0 THEN [SentHeader(t, c) EXCEPT !.sum = t.hdr.sum]
  ELSE SentHeader(t, c)

LEMMA HeldHeaders ==
  ASSUME NEW t \in Stack, NEW c \in BOOLEAN
  PROVE  SentHeader(t, c) \in Headers /\ LeftHeader(t, c) \in Headers
<1>1. t.hdr \in Headers /\ t.gz.held \in Headers
  BY StackFields, GzFields
<1>2. RestoreHeader(t) \in Headers
  BY <1>1 DEF RestoreHeader, Headers
<1>3. SentHeader(t, c) \in Headers
  BY <1>2 DEF SentHeader, MarkCompressed, Headers
<1>4. t.hdr.sum \in 0..2
  BY <1>1 DEF Headers
<1> QED BY <1>3, <1>4 DEF LeftHeader, Headers

LEMMA SendHeldForm ==
  ASSUME NEW t \in Stack, NEW c \in BOOLEAN
  PROVE  SendHeld(t, c) =
           Put(t, LeftHeader(t, c), Headed(t.net, SentHeader(t, c), t.gz.status),
               Coded(t.rec, t.gz.status), t.gz)
<1> DEFINE h == SentHeader(t, c)
           w == Put(t, h, t.net, t.rec, t.gz)
           n == Headed(t.net, h, t.gz.status)
           r == Coded(t.rec, t.gz.status)
           u == RecWriteHeader(w, t.gz.status)
<1>1. /\ t.net \in Net /\ t.rec \in Rec /\ t.gz \in Gz /\ t.gz.status \in Nat
      /\ h \in Headers
  BY StackFields, GzFields, HeldHeaders
<1>2. w = [t EXCEPT !.hdr = h]
  BY DEF Put, Stack
<1>3. SendHeld(t, c) = IF t.gz.held.declared /\ t.hdr.sum # 0 THEN [u EXCEPT !.hdr.sum = t.hdr.sum] ELSE u
  BY <1>2 DEF SendHeld, SentHeader
<1> HIDE DEF h
<1>4. w \in Stack /\ Recorded(w) /\ w.net = t.net /\ w.hdr = h /\ w.rec = t.rec /\ w.gz = t.gz
  BY <1>1, PutFields, StackFields
<1>5. n \in Net /\ r \in Rec
  BY <1>1, HeadedKeeps, RecTypes
<1> HIDE DEF w
<1>6. u = With(w, h, n, r)
  BY <1>1, <1>4, RecHeaderForm
<1> HIDE DEF u, n, r
<1>7. u = Put(t, h, n, r, t.gz)
  BY <1>1, <1>4, <1>6, WithIsPut, PutTwice DEF w
<1>8. [Put(t, h, n, r, t.gz) EXCEPT !.hdr.sum = t.hdr.sum]
        = Put(t, [h EXCEPT !.sum = t.hdr.sum], n, r, t.gz)
  BY DEF Put, Stack
<1> QED BY <1>3, <1>7, <1>8 DEF LeftHeader, h, n, r

LEMMA ZForms ==
  ASSUME NEW t \in Stack
  PROVE  /\ \A bytes \in Seq(HandlerIds) :
              ZWrite(t, bytes) =
                IF t.net.broken THEN t
                ELSE Put(t, t.hdr, t.net, t.rec, [t.gz EXCEPT !.zbuf = t.gz.zbuf \o bytes])
         /\ Release(t) =
              IF ~t.gz.zw THEN t
              ELSE Put(t, t.hdr, t.net, t.rec,
                       [t.gz EXCEPT !.zw = FALSE, !.zbuf = <<>>, !.puts = t.gz.puts + 1])
BY DEF ZWrite, Release, Put, Stack, Gz

LEMMA GzZbuf ==
  ASSUME NEW g \in Gz, NEW x \in Seq(HandlerIds)
  PROVE  /\ [g EXCEPT !.zbuf = x] \in Gz
         /\ [g EXCEPT !.zbuf = x].zbuf = x
         /\ [g EXCEPT !.zbuf = x].state = g.state
         /\ [g EXCEPT !.zbuf = x].accepts = g.accepts
         /\ [g EXCEPT !.zbuf = x].held = g.held
         /\ [g EXCEPT !.zbuf = x].status = g.status
         /\ [g EXCEPT !.zbuf = x].buf = g.buf
         /\ [g EXCEPT !.zbuf = x].zw = g.zw
         /\ [g EXCEPT !.zbuf = x].gets = g.gets
         /\ [g EXCEPT !.zbuf = x].puts = g.puts
BY DEF Gz

LEMMA ZEmits ==
  ASSUME NEW t \in Stack
  PROVE  RecWrite([t EXCEPT !.gz.zbuf = <<>>], Encode(t.gz.zbuf, TRUE)) =
           Put(t, t.hdr, Bodied(t.net, t.hdr, Encode(t.gz.zbuf, TRUE)), Touched(t.rec),
               [t.gz EXCEPT !.zbuf = <<>>])
<1> DEFINE g == [t.gz EXCEPT !.zbuf = <<>>]
           w == Put(t, t.hdr, t.net, t.rec, g)
           bytes == Encode(t.gz.zbuf, TRUE)
           n == Bodied(t.net, t.hdr, bytes)
           r == Touched(t.rec)
<1>1. /\ t.hdr \in Headers /\ t.net \in Net /\ t.rec \in Rec /\ t.gz \in Gz
      /\ bytes \in Seq(Byte)
  BY StackFields, GzFields, EncodeType
<1>2. g \in Gz
  <2>1. <<>> \in Seq(HandlerIds)
    OBVIOUS
  <2> QED BY <1>1, <2>1, GzZbuf
<1>3. w = [t EXCEPT !.gz.zbuf = <<>>]
  BY DEF Put, Stack
<1> HIDE DEF g, bytes
<1>4. w \in Stack /\ Recorded(w) /\ w.net = t.net /\ w.hdr = t.hdr /\ w.rec = t.rec /\ w.gz = g
  BY <1>1, <1>2, PutFields, StackFields
<1> HIDE DEF w
<1>5. RecWrite(w, bytes) = With(w, t.hdr, n, r)
  BY <1>1, <1>4, RecWriteForm
<1> HIDE DEF n, r
<1>6. RecWrite(w, bytes) = Put(t, t.hdr, n, r, g)
  BY <1>4, <1>5, WithIsPut, PutTwice DEF w
<1> QED BY <1>3, <1>6 DEF bytes, n, r, g

LEMMA ZFlushForm ==
  ASSUME NEW t \in Stack
  PROVE  ZFlush(t) =
           IF t.gz.zbuf = <<>> \/ t.net.broken THEN t
           ELSE Put(t, t.hdr, Bodied(t.net, t.hdr, Encode(t.gz.zbuf, TRUE)), Touched(t.rec),
                    [t.gz EXCEPT !.zbuf = <<>>])
BY ZEmits DEF ZFlush

(* Closing the compressor sends the rest of the stream and its end.        *)
Closed(n) == [n EXCEPT !.zdone = ~n.hijacked /\ ~n.broken]

LEMMA ZCloseForm ==
  ASSUME NEW t \in Stack
  PROVE  ZClose(t) =
           Put(t, t.hdr, Closed(Bodied(t.net, t.hdr, Encode(t.gz.zbuf, TRUE))), Touched(t.rec),
               [t.gz EXCEPT !.zbuf = <<>>])
<1> DEFINE n == Bodied(t.net, t.hdr, Encode(t.gz.zbuf, TRUE))
           r == Touched(t.rec)
           g == [t.gz EXCEPT !.zbuf = <<>>]
           u == Put(t, t.hdr, n, r, g)
<1>1. ZClose(t) = [u EXCEPT !.net.zdone = ~u.net.hijacked /\ ~u.net.broken]
  BY ZEmits DEF ZClose
<1> HIDE DEF n, r, g
<1>2. u.net = n /\ [u EXCEPT !.net.zdone = ~n.hijacked /\ ~n.broken]
                     = Put(t, t.hdr, Closed(n), r, g)
  BY DEF Put, Stack, Closed
<1> QED BY <1>1, <1>2 DEF n, r, g

-----------------------------------------------------------------------------
(* What holds of the stack while the handler runs, whatever it calls.      *)

(* A compressor that was taken from the pool is attached or was given back,*)
(* is taken at most once and only for a compressed response, and what is   *)
(* held back stays under the threshold.                                    *)
Books(g) ==
  /\ g.gets = IF g.zw THEN g.puts + 1 ELSE g.puts
  /\ g.gets <= 1
  /\ g.state \in {"pending", "buffering", "identity"} => g.gets = 0
  /\ g.zw => g.state = "compressed"
  /\ Len(g.buf) < MinBytes
  /\ g.state = "buffering" => g.status \in 200..599

Whole(t) ==
  /\ t \in Stack
  /\ Agrees(t.net, t.rec)
  /\ Books(t.gz)
  /\ ~t.net.aborted

(* Nothing but the handler's bytes is on the wire, and no stream is ended. *)
Good(t) ==
  /\ Whole(t)
  /\ t.net.body \in Seq(HandlerByte)
  /\ ~t.net.zdone

(* A net response that is fit for a stack that is good.                    *)
Fit(n) == n \in Net /\ n.body \in Seq(HandlerByte) /\ ~n.zdone /\ ~n.aborted

LEMMA GoodParts ==
  ASSUME NEW t, Good(t)
  PROVE  /\ t \in Stack /\ Recorded(t)
         /\ t.hdr \in Headers /\ t.net \in Net /\ t.rec \in Rec /\ t.gz \in Gz
         /\ Fit(t.net) /\ Agrees(t.net, t.rec) /\ Books(t.gz)
BY StackFields DEF Good, Whole, Fit

LEMMA GoodPut ==
  ASSUME NEW t \in Stack, NEW h \in Headers, NEW n, Fit(n), NEW r \in Rec, Agrees(n, r),
         NEW g \in Gz, Books(g)
  PROVE  Good(Put(t, h, n, r, g)) /\ Put(t, h, n, r, g).gz = g
BY PutFields DEF Good, Whole, Fit

LEMMA FitHeaded ==
  ASSUME NEW n, Fit(n), NEW h \in Headers, NEW code \in Nat
  PROVE  Fit(Headed(n, h, code))
BY HeadedKeeps DEF Fit

LEMMA FitBodied ==
  ASSUME NEW n, Fit(n), NEW h \in Headers, NEW x \in Seq(HandlerIds), NEW z \in BOOLEAN
  PROVE  Fit(Bodied(n, h, Encode(x, z)))
<1> DEFINE bytes == Encode(x, z)
           b == Bodied(n, h, bytes)
<1>1. bytes \in Seq(Byte) /\ bytes \in Seq(HandlerByte)
  BY EncodeType
<1>2. n \in Net /\ n.body \in Seq(HandlerByte) /\ ~n.zdone /\ ~n.aborted
  BY DEF Fit
<1>3. n.body \o bytes \in Seq(HandlerByte)
  BY <1>1, <1>2, ConcatProperties
<1> HIDE DEF bytes
<1>4. /\ b \in Net /\ b.zdone = n.zdone /\ b.aborted = n.aborted
      /\ b.body = IF n.hijacked \/ n.broken \/ ~BodyAllowed(Headed(n, h, OK200).status)
                  THEN n.body ELSE n.body \o bytes
  BY <1>1, <1>2, BodiedKeeps
<1> HIDE DEF b
<1>5. Fit(b)
  BY <1>2, <1>3, <1>4 DEF Fit
<1> QED BY <1>5 DEF b, bytes

LEMMA GoodHeader ==
  ASSUME NEW t, Good(t), NEW h \in Headers
  PROVE  /\ [t EXCEPT !.hdr = h] = Put(t, h, t.net, t.rec, t.gz)
         /\ Good([t EXCEPT !.hdr = h]) /\ [t EXCEPT !.hdr = h].gz = t.gz
         /\ [t EXCEPT !.hdr = h].hdr = h
<1>1. [t EXCEPT !.hdr = h] = Put(t, h, t.net, t.rec, t.gz)
  BY GoodParts DEF Put, Stack
<1> QED BY <1>1, GoodParts, GoodPut, PutFields

LEMMA GoodGz ==
  ASSUME NEW t, Good(t), NEW g \in Gz, Books(g)
  PROVE  /\ [t EXCEPT !.gz = g] = Put(t, t.hdr, t.net, t.rec, g)
         /\ Good([t EXCEPT !.gz = g]) /\ [t EXCEPT !.gz = g].gz = g
         /\ [t EXCEPT !.gz = g].hdr = t.hdr /\ [t EXCEPT !.gz = g].net = t.net
<1>1. [t EXCEPT !.gz = g] = Put(t, t.hdr, t.net, t.rec, g)
  BY GoodParts DEF Put, Stack
<1> QED BY <1>1, GoodParts, GoodPut, PutFields

LEMMA GoodRecHeader ==
  ASSUME NEW t, Good(t), NEW code \in Nat \ {0}
  PROVE  Good(RecWriteHeader(t, code)) /\ RecWriteHeader(t, code).gz = t.gz
<1> DEFINE n == Headed(t.net, t.hdr, code)
           r == Coded(t.rec, code)
<1>1. Fit(n) /\ r \in Rec /\ Agrees(n, r)
  BY GoodParts, FitHeaded, RecTypes, AgreesHeaded
<1> HIDE DEF n, r
<1>2. RecWriteHeader(t, code) = Put(t, t.hdr, n, r, t.gz)
  BY GoodParts, RecHeaderForm, WithIsPut DEF n, r
<1> QED BY <1>1, <1>2, GoodParts, GoodPut

LEMMA GoodRecWrite ==
  ASSUME NEW t, Good(t), NEW x \in Seq(HandlerIds), NEW z \in BOOLEAN
  PROVE  Good(RecWrite(t, Encode(x, z))) /\ RecWrite(t, Encode(x, z)).gz = t.gz
<1> DEFINE bytes == Encode(x, z)
           n == Bodied(t.net, t.hdr, bytes)
           r == Touched(t.rec)
<1>1. bytes \in Seq(Byte)
  BY EncodeType
<1>2. Fit(n)
  BY GoodParts, FitBodied
<1> HIDE DEF bytes
<1>3. r \in Rec /\ Agrees(n, r)
  BY <1>1, GoodParts, RecTypes, AgreesBodied
<1>4. RecWrite(t, bytes) = Put(t, t.hdr, n, r, t.gz)
  BY <1>1, GoodParts, RecWriteForm, WithIsPut
<1> HIDE DEF n, r
<1>5. Good(RecWrite(t, bytes)) /\ RecWrite(t, bytes).gz = t.gz
  BY <1>2, <1>3, <1>4, GoodParts, GoodPut
<1> QED BY <1>5 DEF bytes

LEMMA GoodRecReadFrom ==
  ASSUME NEW t, Good(t), NEW x \in Seq(HandlerIds)
  PROVE  Good(RecReadFrom(t, Encode(x, FALSE))) /\ RecReadFrom(t, Encode(x, FALSE)).gz = t.gz
<1> DEFINE bytes == Encode(x, FALSE)
<1>1. bytes \in Seq(Byte)
  BY EncodeType
<1>2. Good(RecWrite(t, bytes)) /\ RecWrite(t, bytes).gz = t.gz
  BY GoodRecWrite
<1> HIDE DEF bytes
<1>3. RecReadFrom(t, bytes) = IF bytes = <<>> THEN t ELSE RecWrite(t, bytes)
  BY <1>1, GoodParts, RecReadFromForm, RecWriteForm
<1>4. Good(RecReadFrom(t, bytes)) /\ RecReadFrom(t, bytes).gz = t.gz
  BY <1>2, <1>3
<1> QED BY <1>4 DEF bytes

LEMMA GoodRecFlush ==
  ASSUME NEW t, Good(t)
  PROVE  Good(RecFlush(t)) /\ RecFlush(t).gz = t.gz
<1> DEFINE n == Headed(t.net, t.hdr, OK200)
           r == Touched(t.rec)
<1>1. Fit(n) /\ r \in Rec /\ Agrees(n, r)
  BY OkIsNat, GoodParts, FitHeaded, RecTypes, AgreesTouched
<1>2. RecFlush(t) = IF t.canFlush THEN Put(t, t.hdr, n, r, t.gz) ELSE t
  BY GoodParts, RecFlushForm, WithIsPut
<1> HIDE DEF n, r
<1> QED BY <1>1, <1>2, GoodParts, GoodPut

LEMMA GoodRecHijack ==
  ASSUME NEW t, Good(t), ~HijackFails(t)
  PROVE  /\ Good(RecHijack(t)) /\ RecHijack(t).gz = t.gz /\ RecHijack(t).hdr = t.hdr
         /\ RecHijack(t).net = [t.net EXCEPT !.hijacked = TRUE]
<1> DEFINE n == [t.net EXCEPT !.hijacked = TRUE]
           r == [t.rec EXCEPT !.bare = ~t.rec.wrote, !.wrote = TRUE]
<1>1. ~t.net.hijacked
  BY GoodParts, RecHijackForm
<1>2. n \in Net /\ r \in Rec /\ Agrees(n, r)
  BY <1>1, GoodParts, AgreesHijacked
<1>3. Fit(n)
  <2>1. t.net \in Net /\ Fit(t.net)
    BY GoodParts
  <2> QED BY <1>2, <2>1 DEF Fit, Net
<1>4. RecHijack(t) = Put(t, t.hdr, n, r, t.gz)
  BY GoodParts, RecHijackForm, WithIsPut
<1> HIDE DEF r
<1> QED BY <1>2, <1>3, <1>4, GoodParts, GoodPut, PutFields

-----------------------------------------------------------------------------
(* gzipWriter's calls keep the stack good.                                 *)

LEMMA GzUpdates ==
  ASSUME NEW g \in Gz
  PROVE  /\ \A st \in GzipStates :
              /\ [g EXCEPT !.state = st] \in Gz
              /\ [g EXCEPT !.state = st].state = st
              /\ [g EXCEPT !.state = st].status = g.status
              /\ [g EXCEPT !.state = st].buf = g.buf
              /\ [g EXCEPT !.state = st].zw = g.zw
              /\ [g EXCEPT !.state = st].gets = g.gets
              /\ [g EXCEPT !.state = st].puts = g.puts
         /\ \A x \in Seq(HandlerIds) :
              /\ [g EXCEPT !.buf = x] \in Gz
              /\ [g EXCEPT !.buf = x].state = g.state
              /\ [g EXCEPT !.buf = x].status = g.status
              /\ [g EXCEPT !.buf = x].buf = x
              /\ [g EXCEPT !.buf = x].zw = g.zw
              /\ [g EXCEPT !.buf = x].gets = g.gets
              /\ [g EXCEPT !.buf = x].puts = g.puts
BY DEF Gz

LEMMA EmptyIds == <<>> \in Seq(HandlerIds) /\ Len(<<>>) = 0
OBVIOUS

LEMMA BooksZbuf ==
  ASSUME NEW g \in Gz, NEW x \in Seq(HandlerIds), Books(g)
  PROVE  [g EXCEPT !.zbuf = x] \in Gz /\ Books([g EXCEPT !.zbuf = x])
<1> DEFINE f == [g EXCEPT !.zbuf = x]
<1>1. /\ f \in Gz /\ f.state = g.state /\ f.status = g.status /\ f.buf = g.buf
      /\ f.zw = g.zw /\ f.gets = g.gets /\ f.puts = g.puts
  BY GzZbuf
<1> HIDE DEF f
<1>2. Books(f)
  BY <1>1 DEF Books
<1> QED BY <1>1, <1>2 DEF f

LEMMA BooksBuf ==
  ASSUME NEW g \in Gz, NEW x \in Seq(HandlerIds), Books(g), Len(x) < MinBytes
  PROVE  [g EXCEPT !.buf = x] \in Gz /\ Books([g EXCEPT !.buf = x])
<1> DEFINE f == [g EXCEPT !.buf = x]
<1>1. /\ f \in Gz /\ f.state = g.state /\ f.status = g.status /\ f.buf = x
      /\ f.zw = g.zw /\ f.gets = g.gets /\ f.puts = g.puts
  BY GzUpdates
<1> HIDE DEF f
<1>2. Books(f)
  BY <1>1 DEF Books
<1> QED BY <1>1, <1>2 DEF f

LEMMA BooksState ==
  ASSUME NEW g \in Gz, Books(g), NEW st \in GzipStates \ {"buffering"},
         st = "compressed" \/ ~g.zw,
         st \in {"pending", "identity"} => g.gets = 0
  PROVE  [g EXCEPT !.state = st] \in Gz /\ Books([g EXCEPT !.state = st])
<1> DEFINE f == [g EXCEPT !.state = st]
<1>1. /\ f \in Gz /\ f.state = st /\ f.status = g.status /\ f.buf = g.buf
      /\ f.zw = g.zw /\ f.gets = g.gets /\ f.puts = g.puts
  BY GzUpdates
<1> HIDE DEF f
<1>2. Books(f)
  BY <1>1 DEF Books
<1> QED BY <1>1, <1>2 DEF f

LEMMA BufferingBooks ==
  ASSUME NEW g \in Gz, Books(g), g.state = "buffering"
  PROVE  g.gets = 0 /\ ~g.zw /\ g.puts = 0 /\ g.status # 0
<1>1. ~g.zw /\ g.gets = 0 /\ g.status \in 200..599
  BY DEF Books
<1>2. g.gets = g.puts
  BY <1>1 DEF Books
<1> QED BY <1>1, <1>2

LEMMA GoodSendHeld ==
  ASSUME NEW t, Good(t), NEW c \in BOOLEAN, t.gz.status # 0
  PROVE  Good(SendHeld(t, c)) /\ SendHeld(t, c).gz = t.gz
<1> DEFINE n == Headed(t.net, SentHeader(t, c), t.gz.status)
           r == Coded(t.rec, t.gz.status)
           h == LeftHeader(t, c)
<1>1. SentHeader(t, c) \in Headers /\ h \in Headers
  BY GoodParts, HeldHeaders
<1>2. t.gz.status \in Nat \ {0}
  BY GoodParts, GzFields
<1>3. Fit(n) /\ r \in Rec /\ Agrees(n, r)
  BY <1>1, <1>2, GoodParts, FitHeaded, RecTypes, AgreesHeaded
<1>4. SendHeld(t, c) = Put(t, h, n, r, t.gz)
  BY GoodParts, SendHeldForm
<1> HIDE DEF n, r, h
<1> QED BY <1>1, <1>3, <1>4, GoodParts, GoodPut

LEMMA GoodZWrite ==
  ASSUME NEW t, Good(t), NEW x \in Seq(HandlerIds)
  PROVE  Good(ZWrite(t, x))
<1> DEFINE g == [t.gz EXCEPT !.zbuf = t.gz.zbuf \o x]
<1>1. t.gz.zbuf \o x \in Seq(HandlerIds)
  BY GoodParts, GzFields, ConcatProperties
<1>2. g \in Gz /\ Books(g)
  BY <1>1, GoodParts, BooksZbuf
<1>3. ZWrite(t, x) = IF t.net.broken THEN t ELSE Put(t, t.hdr, t.net, t.rec, g)
  BY GoodParts, ZForms
<1> HIDE DEF g
<1> QED BY <1>2, <1>3, GoodParts, GoodPut

LEMMA GoodZFlush ==
  ASSUME NEW t, Good(t)
  PROVE  Good(ZFlush(t))
<1> DEFINE g == [t.gz EXCEPT !.zbuf = <<>>]
           n == Bodied(t.net, t.hdr, Encode(t.gz.zbuf, TRUE))
           r == Touched(t.rec)
<1>1. g \in Gz /\ Books(g)
  BY EmptyIds, GoodParts, BooksZbuf
<1>2. t.gz.zbuf \in Seq(HandlerIds) /\ Encode(t.gz.zbuf, TRUE) \in Seq(Byte)
  BY GoodParts, GzFields, EncodeType
<1>3. Fit(n) /\ r \in Rec /\ Agrees(n, r)
  BY <1>2, GoodParts, FitBodied, RecTypes, AgreesBodied
<1>4. ZFlush(t) = IF t.gz.zbuf = <<>> \/ t.net.broken THEN t ELSE Put(t, t.hdr, n, r, g)
  BY GoodParts, ZFlushForm
<1> HIDE DEF g, n, r
<1> QED BY <1>1, <1>3, <1>4, GoodParts, GoodPut

(* A released compressor leaves nothing of itself on the response.         *)
LEMMA ReleaseBooks ==
  ASSUME NEW t \in Stack, Books(t.gz)
  PROVE  /\ Release(t) \in Stack /\ Books(Release(t).gz) /\ ~Release(t).gz.zw
         /\ Release(t).gz.state = t.gz.state /\ Release(t).gz.buf = t.gz.buf
         /\ Release(t).hdr = t.hdr /\ Release(t).net = t.net /\ Release(t).rec = t.rec
<1> DEFINE g == [t.gz EXCEPT !.zw = FALSE, !.zbuf = <<>>, !.puts = t.gz.puts + 1]
<1>1. t.gz \in Gz /\ t.hdr \in Headers /\ t.net \in Net /\ t.rec \in Rec
  BY StackFields
<1>2. /\ g \in Gz /\ g.state = t.gz.state /\ g.status = t.gz.status /\ g.buf = t.gz.buf
      /\ g.zw = FALSE /\ g.gets = t.gz.gets /\ g.puts = t.gz.puts + 1
  <2>1. t.gz.puts + 1 \in Nat
    BY <1>1, GzFields
  <2> QED BY <1>1, <2>1, EmptyIds DEF Gz
<1>3. Release(t) = IF ~t.gz.zw THEN t ELSE Put(t, t.hdr, t.net, t.rec, g)
  BY ZForms
<1> HIDE DEF g
<1>4. CASE ~t.gz.zw
  BY <1>3, <1>4
<1>5. CASE t.gz.zw
  <2>1. Books(g)
    BY <1>1, <1>2, <1>5, GzFields DEF Books
  <2> QED BY <1>1, <1>2, <1>3, <1>5, <2>1, PutFields
<1> QED BY <1>4, <1>5

LEMMA GoodCommitCompressed ==
  ASSUME NEW t, Good(t), t.gz.state = "buffering"
  PROVE  Good(CommitCompressed(t))
<1> DEFINE g1 == [t.gz EXCEPT !.state = "compressed"]
           t1 == [t EXCEPT !.gz = g1]
           t2 == SendHeld(t1, TRUE)
           g2 == [g1 EXCEPT !.zw = TRUE, !.gets = g1.gets + 1, !.buf = <<>>]
           t3 == [t2 EXCEPT !.gz = g2]
<1>1. t.gz \in Gz /\ t.gz.gets = 0 /\ ~t.gz.zw /\ t.gz.puts = 0 /\ t.gz.status # 0
  BY GoodParts, BufferingBooks
<1>2. /\ g1 \in Gz /\ Books(g1) /\ g1.state = "compressed" /\ g1.status = t.gz.status
      /\ g1.buf = t.gz.buf /\ g1.gets = 0 /\ g1.puts = 0
  <2>1. "compressed" \in GzipStates /\ "compressed" # "buffering"
    BY DEF GzipStates
  <2>2. t.gz \in Gz /\ Books(t.gz)
    BY GoodParts
  <2> QED BY <1>1, <2>1, <2>2, BooksState, GzUpdates
<1>3. t1 = [t EXCEPT !.gz.state = "compressed"]
  BY GoodParts DEF Stack
<1> HIDE DEF g1
<1>4. Good(t1) /\ t1.gz = g1
  BY <1>2, GoodGz
<1> HIDE DEF t1
<1>5. Good(t2) /\ t2.gz = g1
  BY <1>1, <1>2, <1>4, GoodSendHeld
<1>6. /\ g2 \in Gz /\ g2.state = "compressed" /\ g2.zw = TRUE /\ g2.gets = 1
      /\ g2.puts = 0 /\ g2.buf = <<>>
  <2>1. g1.gets + 1 \in Nat /\ g1.gets + 1 = 1
    BY <1>2
  <2> QED BY <1>2, <2>1, EmptyIds DEF Gz
<1> HIDE DEF t2
<1>7. CommitCompressed(t) = ZWrite(t3, t.gz.buf)
  <2>1. [t2 EXCEPT !.gz.zw = TRUE, !.gz.gets = @ + 1, !.gz.buf = <<>>] = t3
    BY <1>5, GoodParts DEF Stack, Gz
  <2> QED BY <1>3, <2>1 DEF CommitCompressed, t2
<1> HIDE DEF g2
<1>8. Books(g2)
  <2>1. Len(<<>>) < MinBytes
    BY EmptyIds, MinBytesAssumption
  <2> QED BY <1>6, <2>1 DEF Books
<1>9. Good(t3)
  BY <1>5, <1>6, <1>8, GoodGz
<1> HIDE DEF t3
<1>10. t.gz.buf \in Seq(HandlerIds)
  BY <1>1, GzFields
<1> QED BY <1>7, <1>9, <1>10, GoodZWrite

LEMMA GoodCommitIdentity ==
  ASSUME NEW t, Good(t), t.gz.state = "buffering"
  PROVE  Good(CommitIdentity(t)) /\ CommitIdentity(t).gz.state = "identity"
<1> DEFINE g1 == [t.gz EXCEPT !.state = "identity"]
           t1 == [t EXCEPT !.gz = g1]
           t2 == SendHeld(t1, FALSE)
           g2 == [g1 EXCEPT !.buf = <<>>]
           t3 == [t2 EXCEPT !.gz = g2]
<1>1. t.gz \in Gz /\ Books(t.gz) /\ t.gz.buf \in Seq(HandlerIds)
  BY GoodParts, GzFields
<1>2. t.gz.gets = 0 /\ ~t.gz.zw /\ t.gz.status # 0
  BY <1>1, BufferingBooks
<1>3. g1 \in Gz /\ Books(g1) /\ g1.status = t.gz.status /\ g1.state = "identity"
  <2>1. "identity" \in GzipStates /\ "identity" # "buffering"
    BY DEF GzipStates
  <2> QED BY <1>1, <1>2, <2>1, BooksState, GzUpdates
<1>4. t1 = [t EXCEPT !.gz.state = "identity"]
  BY GoodParts DEF Stack
<1> HIDE DEF g1
<1>5. Good(t1) /\ t1.gz = g1
  BY <1>3, GoodGz
<1> HIDE DEF t1
<1>6. Good(t2) /\ t2.gz = g1
  BY <1>2, <1>3, <1>5, GoodSendHeld
<1>7. g2 \in Gz /\ Books(g2) /\ g2.state = "identity"
  <2>1. Len(<<>>) < MinBytes
    BY EmptyIds, MinBytesAssumption
  <2> QED BY <1>3, <2>1, EmptyIds, BooksBuf, GzUpdates
<1> HIDE DEF t2
<1>8. t3 = [t2 EXCEPT !.gz.buf = <<>>]
  BY <1>6, GoodParts DEF Stack
<1>9. CommitIdentity(t) = IF t.gz.buf = <<>> THEN t2 ELSE RecWrite(t3, Encode(t.gz.buf, FALSE))
  BY <1>4, <1>8 DEF CommitIdentity, t2
<1> HIDE DEF g2
<1>10. Good(t3) /\ t3.gz = g2
  BY <1>6, <1>7, GoodGz
<1> HIDE DEF t3
<1>11. /\ Good(RecWrite(t3, Encode(t.gz.buf, FALSE)))
       /\ RecWrite(t3, Encode(t.gz.buf, FALSE)).gz = g2
  BY <1>1, <1>10, GoodRecWrite
<1> QED BY <1>3, <1>6, <1>7, <1>9, <1>11

(* The header a decision is taken with, and whether the response is held.  *)
Varied(h, code) == [h EXCEPT !.vary = h.vary \/ Candidate(code, h)]
Held(t, code) == Candidate(code, t.hdr) /\ t.gz.accepts /\ CompressesStatus(code)

LEMMA GzWriteHeaderForm ==
  ASSUME NEW t \in Stack, NEW code \in Nat
  PROVE  /\ Varied(t.hdr, code) \in Headers
         /\ t.gz.state # "pending" => GzWriteHeader(t, code) = t
         /\ t.gz.state = "pending" /\ Informational(code) =>
              GzWriteHeader(t, code) = RecWriteHeader(t, code)
         /\ t.gz.state = "pending" /\ ~Informational(code) /\ ~Held(t, code) =>
              GzWriteHeader(t, code) =
                RecWriteHeader(Put(t, Varied(t.hdr, code), t.net, t.rec,
                                   [t.gz EXCEPT !.state = "identity"]), code)
         /\ t.gz.state = "pending" /\ ~Informational(code) /\ Held(t, code) =>
              GzWriteHeader(t, code) =
                Put(t, Varied(t.hdr, code), t.net, t.rec,
                    [t.gz EXCEPT !.state = "buffering", !.status = code,
                                 !.held = Varied(t.hdr, code)])
<1> DEFINE h == Varied(t.hdr, code)
<1>1. h \in Headers
  <2>1. t.hdr \in Headers /\ Candidate(code, t.hdr) \in BOOLEAN
    BY StackFields DEF Candidate
  <2>2. (t.hdr.vary \/ Candidate(code, t.hdr)) \in BOOLEAN
    OBVIOUS
  <2> QED BY <2>1, <2>2 DEF Varied, Headers
<1>2. h = [t.hdr EXCEPT !.vary = @ \/ Candidate(code, t.hdr)]
  BY DEF Varied
<1> HIDE DEF h
<1>3. CASE t.gz.state # "pending"
  BY <1>1, <1>3 DEF GzWriteHeader, h
<1>4. CASE t.gz.state = "pending" /\ Informational(code)
  BY <1>1, <1>4 DEF GzWriteHeader, h
<1>5. CASE t.gz.state = "pending" /\ ~Informational(code)
  <2>1. GzWriteHeader(t, code) =
          IF ~Candidate(code, t.hdr) \/ ~t.gz.accepts \/ ~CompressesStatus(code)
          THEN RecWriteHeader([t EXCEPT !.hdr = h, !.gz.state = "identity"], code)
          ELSE [t EXCEPT !.hdr = h, !.gz.state = "buffering", !.gz.status = code, !.gz.held = h]
    BY <1>2, <1>5 DEF GzWriteHeader
  <2>2. [t EXCEPT !.hdr = h, !.gz.state = "identity"]
          = Put(t, h, t.net, t.rec, [t.gz EXCEPT !.state = "identity"])
    BY DEF Put, Stack
  <2>3. [t EXCEPT !.hdr = h, !.gz.state = "buffering", !.gz.status = code, !.gz.held = h]
          = Put(t, h, t.net, t.rec,
                [t.gz EXCEPT !.state = "buffering", !.status = code, !.held = h])
    BY DEF Put, Stack
  <2>4. CASE Held(t, code)
    BY <1>1, <1>5, <2>1, <2>3, <2>4 DEF Held, h
  <2>5. CASE ~Held(t, code)
    BY <1>1, <1>5, <2>1, <2>2, <2>5 DEF Held, h
  <2> QED BY <2>4, <2>5
<1> QED BY <1>3, <1>4, <1>5

LEMMA BooksHeld ==
  ASSUME NEW g \in Gz, Books(g), g.state = "pending", NEW h \in Headers, NEW code \in 200..599
  PROVE  /\ [g EXCEPT !.state = "buffering", !.status = code, !.held = h] \in Gz
         /\ Books([g EXCEPT !.state = "buffering", !.status = code, !.held = h])
<1> DEFINE f == [g EXCEPT !.state = "buffering", !.status = code, !.held = h]
<1>1. "buffering" \in GzipStates /\ code \in Nat
  BY DEF GzipStates
<1>2. /\ f \in Gz /\ f.state = "buffering" /\ f.status = code /\ f.buf = g.buf
      /\ f.zw = g.zw /\ f.gets = g.gets /\ f.puts = g.puts
  BY <1>1 DEF Gz
<1> HIDE DEF f
<1>3. g.gets = 0 /\ ~g.zw
  BY DEF Books
<1>4. Books(f)
  BY <1>2, <1>3 DEF Books
<1> QED BY <1>2, <1>4 DEF f

LEMMA GoodGzWriteHeader ==
  ASSUME NEW t, Good(t), NEW code \in 100..599
  PROVE  /\ Good(GzWriteHeader(t, code))
         /\ t.gz.state # "pending" => GzWriteHeader(t, code) = t
         /\ t.gz.state = "pending" /\ ~Informational(code) =>
              GzWriteHeader(t, code).gz.state \in {"identity", "buffering"}
<1>1. t \in Stack /\ code \in Nat /\ code \in Nat \ {0}
  BY GoodParts
<1>2. CASE t.gz.state # "pending"
  BY <1>1, <1>2, GzWriteHeaderForm
<1>3. CASE t.gz.state = "pending" /\ Informational(code)
  <2>1. GzWriteHeader(t, code) = RecWriteHeader(t, code)
    BY <1>1, <1>3, GzWriteHeaderForm
  <2>2. Good(RecWriteHeader(t, code))
    BY <1>1, GoodRecHeader
  <2> QED BY <1>3, <2>1, <2>2
<1>4. CASE t.gz.state = "pending" /\ ~Informational(code) /\ ~Held(t, code)
  <2> DEFINE g == [t.gz EXCEPT !.state = "identity"]
             h == Varied(t.hdr, code)
             w == Put(t, h, t.net, t.rec, g)
  <2>1. GzWriteHeader(t, code) = RecWriteHeader(w, code) /\ h \in Headers
    BY <1>1, <1>4, GzWriteHeaderForm
  <2>2. g \in Gz /\ Books(g) /\ g.state = "identity"
    <3>1. "identity" \in GzipStates /\ "identity" # "buffering"
      BY DEF GzipStates
    <3>2. t.gz \in Gz /\ Books(t.gz) /\ t.gz.gets = 0 /\ ~t.gz.zw
      BY <1>4, GoodParts DEF Books
    <3> QED BY <3>1, <3>2, BooksState, GzUpdates
  <2> HIDE DEF g, h
  <2>3. Good(w) /\ w.gz = g
    BY <1>1, <2>1, <2>2, GoodParts, GoodPut
  <2> HIDE DEF w
  <2> QED BY <1>1, <1>4, <2>1, <2>2, <2>3, GoodRecHeader
<1>5. CASE t.gz.state = "pending" /\ ~Informational(code) /\ Held(t, code)
  <2> DEFINE h == Varied(t.hdr, code)
             g == [t.gz EXCEPT !.state = "buffering", !.status = code, !.held = h]
             w == Put(t, h, t.net, t.rec, g)
  <2>1. GzWriteHeader(t, code) = w /\ h \in Headers
    BY <1>1, <1>5, GzWriteHeaderForm
  <2>2. code \in 200..599
    BY <1>5 DEF Held, Candidate
  <2>3. t.gz \in Gz /\ g.state = "buffering"
    BY GoodParts DEF Gz
  <2> HIDE DEF h
  <2>4. g \in Gz /\ Books(g)
    <3>1. t.gz \in Gz /\ Books(t.gz)
      BY GoodParts
    <3> QED BY <1>5, <2>1, <2>2, <3>1, BooksHeld
  <2> HIDE DEF g
  <2>5. Good(w) /\ w.gz = g
    BY <1>1, <2>1, <2>4, GoodParts, GoodPut
  <2> QED BY <1>5, <2>1, <2>3, <2>5
<1> QED BY <1>2, <1>3, <1>4, <1>5

LEMMA OkInRange == OK200 \in 100..599
BY DEF OK200

LEMMA GoodImplicitStatus ==
  ASSUME NEW t, Good(t)
  PROVE  Good(ImplicitStatus(t)) /\ ImplicitStatus(t).gz.state # "pending"
<1>1. ~Informational(OK200)
  BY OkIsFinal
<1>2. CASE t.gz.state = "pending"
  BY <1>1, <1>2, OkInRange, GoodGzWriteHeader DEF ImplicitStatus
<1>3. CASE t.gz.state # "pending"
  BY <1>3 DEF ImplicitStatus
<1> QED BY <1>2, <1>3

LEMMA GzWriteForm ==
  ASSUME NEW t, NEW x, ImplicitStatus(t).gz.state \in GzipStates \ {"pending"}
  PROVE  /\ ImplicitStatus(t).gz.state = "buffering" =>
              GzWrite(t, x) =
                IF Len(ImplicitStatus(t).gz.buf) + Len(x) < MinBytes
                THEN [ImplicitStatus(t) EXCEPT !.gz.buf = ImplicitStatus(t).gz.buf \o x]
                ELSE ZWrite(CommitCompressed(ImplicitStatus(t)), x)
         /\ ImplicitStatus(t).gz.state = "compressed" =>
              GzWrite(t, x) = ZWrite(ImplicitStatus(t), x)
         /\ ImplicitStatus(t).gz.state = "hijacked" => GzWrite(t, x) = ImplicitStatus(t)
         /\ ImplicitStatus(t).gz.state = "identity" =>
              GzWrite(t, x) = RecWrite(ImplicitStatus(t), Encode(x, FALSE))
<1> DEFINE u == ImplicitStatus(t)
<1>1. GzWrite(t, x) =
        CASE u.gz.state = "buffering" ->
               IF Len(u.gz.buf) + Len(x) < MinBytes
               THEN [u EXCEPT !.gz.buf = u.gz.buf \o x]
               ELSE ZWrite(CommitCompressed(u), x)
          [] u.gz.state = "compressed" -> ZWrite(u, x)
          [] u.gz.state = "hijacked" -> u
          [] OTHER -> RecWrite(u, Encode(x, FALSE))
  BY DEF GzWrite
<1> HIDE DEF u
<1>2. /\ u.gz.state = "buffering" =>
           GzWrite(t, x) =
             IF Len(u.gz.buf) + Len(x) < MinBytes
             THEN [u EXCEPT !.gz.buf = u.gz.buf \o x]
             ELSE ZWrite(CommitCompressed(u), x)
      /\ u.gz.state = "compressed" => GzWrite(t, x) = ZWrite(u, x)
      /\ u.gz.state = "hijacked" => GzWrite(t, x) = u
      /\ u.gz.state = "identity" => GzWrite(t, x) = RecWrite(u, Encode(x, FALSE))
  BY <1>1
<1> QED BY <1>2 DEF u

LEMMA GoodGzWrite ==
  ASSUME NEW t, Good(t), NEW x \in Seq(HandlerIds)
  PROVE  Good(GzWrite(t, x))
<1> DEFINE u == ImplicitStatus(t)
<1>1. Good(u) /\ u.gz.state # "pending"
  BY GoodImplicitStatus
<1>2. u \in Stack /\ u.gz \in Gz /\ Books(u.gz) /\ u.gz.buf \in Seq(HandlerIds)
      /\ u.gz.state \in GzipStates \ {"pending"}
  BY <1>1, GoodParts, GzFields
<1>3. CASE u.gz.state = "buffering"
  <2>1. CASE Len(u.gz.buf) + Len(x) < MinBytes
    <3> DEFINE g == [u.gz EXCEPT !.buf = u.gz.buf \o x]
    <3>1. u.gz.buf \o x \in Seq(HandlerIds) /\ Len(u.gz.buf \o x) < MinBytes
      BY <1>2, <2>1, ConcatProperties
    <3>2. g \in Gz /\ Books(g)
      BY <1>2, <3>1, BooksBuf
    <3>3. [u EXCEPT !.gz.buf = u.gz.buf \o x] = [u EXCEPT !.gz = g]
      BY <1>2 DEF Stack
    <3>4. GzWrite(t, x) = [u EXCEPT !.gz = g]
      BY <1>2, <1>3, <2>1, <3>3, GzWriteForm
    <3> HIDE DEF g, u
    <3> QED BY <1>1, <3>2, <3>4, GoodGz
  <2>2. CASE ~(Len(u.gz.buf) + Len(x) < MinBytes)
    <3>1. GzWrite(t, x) = ZWrite(CommitCompressed(u), x)
      BY <1>2, <1>3, <2>2, GzWriteForm
    <3> HIDE DEF u
    <3> QED BY <1>1, <1>3, <3>1, GoodCommitCompressed, GoodZWrite
  <2> QED BY <2>1, <2>2
<1>4. CASE u.gz.state = "compressed"
  <2>1. GzWrite(t, x) = ZWrite(u, x)
    BY <1>2, <1>4, GzWriteForm
  <2> HIDE DEF u
  <2> QED BY <1>1, <2>1, GoodZWrite
<1>5. CASE u.gz.state = "hijacked"
  BY <1>1, <1>2, <1>5, GzWriteForm
<1>6. CASE u.gz.state = "identity"
  <2>1. GzWrite(t, x) = RecWrite(u, Encode(x, FALSE))
    BY <1>2, <1>6, GzWriteForm
  <2> HIDE DEF u
  <2> QED BY <1>1, <2>1, GoodRecWrite
<1> QED BY <1>2, <1>3, <1>4, <1>5, <1>6 DEF GzipStates

LEMMA GzFlushForm ==
  ASSUME NEW t, ImplicitStatus(t).gz.state \in GzipStates \ {"pending"}
  PROVE  /\ ImplicitStatus(t).gz.state = "buffering" =>
              GzFlush(t) = IF t.net.broken THEN CommitIdentity(ImplicitStatus(t))
                           ELSE RecFlush(CommitIdentity(ImplicitStatus(t)))
         /\ ImplicitStatus(t).gz.state = "compressed" =>
              GzFlush(t) = IF t.net.broken THEN ZFlush(ImplicitStatus(t))
                           ELSE RecFlush(ZFlush(ImplicitStatus(t)))
         /\ ImplicitStatus(t).gz.state = "hijacked" => GzFlush(t) = ImplicitStatus(t)
         /\ ImplicitStatus(t).gz.state = "identity" => GzFlush(t) = RecFlush(ImplicitStatus(t))
<1> DEFINE u == ImplicitStatus(t)
<1>1. CASE u.gz.state = "buffering"
  BY <1>1 DEF GzFlush
<1>2. CASE u.gz.state = "compressed"
  BY <1>2 DEF GzFlush
<1>3. CASE u.gz.state = "hijacked"
  BY <1>3 DEF GzFlush
<1>4. CASE u.gz.state = "identity"
  BY <1>4 DEF GzFlush
<1> QED BY <1>1, <1>2, <1>3, <1>4 DEF GzipStates

LEMMA GoodGzFlush ==
  ASSUME NEW t, Good(t)
  PROVE  Good(GzFlush(t))
<1> DEFINE u == ImplicitStatus(t)
<1>1. Good(u) /\ u.gz.state \in GzipStates \ {"pending"}
  BY GoodImplicitStatus, GoodParts, GzFields
<1>2. CASE u.gz.state = "buffering"
  <2>1. GzFlush(t) = IF t.net.broken THEN CommitIdentity(u) ELSE RecFlush(CommitIdentity(u))
    BY <1>1, <1>2, GzFlushForm
  <2> HIDE DEF u
  <2> QED BY <1>1, <1>2, <2>1, GoodCommitIdentity, GoodRecFlush
<1>3. CASE u.gz.state = "compressed"
  <2>1. GzFlush(t) = IF t.net.broken THEN ZFlush(u) ELSE RecFlush(ZFlush(u))
    BY <1>1, <1>3, GzFlushForm
  <2> HIDE DEF u
  <2> QED BY <1>1, <2>1, GoodZFlush, GoodRecFlush
<1>4. CASE u.gz.state = "hijacked"
  BY <1>1, <1>4, GzFlushForm
<1>5. CASE u.gz.state = "identity"
  <2>1. GzFlush(t) = RecFlush(u)
    BY <1>1, <1>5, GzFlushForm
  <2> HIDE DEF u
  <2> QED BY <1>1, <2>1, GoodRecFlush
<1> QED BY <1>1, <1>2, <1>3, <1>4, <1>5 DEF GzipStates

(* A hijack drops what is held back, and the compressor with it.           *)
LEMMA GoodGzHijack ==
  ASSUME NEW t, Good(t)
  PROVE  Good(GzHijack(t))
<1>1. CASE HijackFails(t)
  BY <1>1 DEF GzHijack
<1>2. CASE ~HijackFails(t)
  <2> DEFINE u == RecHijack(t)
             g == [t.gz EXCEPT !.buf = <<>>]
             v == [u EXCEPT !.gz = g]
             w == Release(v)
             f == [w.gz EXCEPT !.state = "hijacked"]
  <2>1. Good(u) /\ u.gz = t.gz /\ t.gz \in Gz /\ Books(t.gz)
    BY <1>2, GoodRecHijack, GoodParts
  <2>2. g \in Gz /\ Books(g)
    <3>1. Len(<<>>) < MinBytes
      BY EmptyIds, MinBytesAssumption
    <3> QED BY <2>1, <3>1, EmptyIds, BooksBuf
  <2>3. v = [u EXCEPT !.gz.buf = <<>>]
    BY <2>1, GoodParts DEF Stack
  <2> HIDE DEF u, g
  <2>4. Good(v) /\ v.gz = g
    BY <2>1, <2>2, GoodGz
  <2> HIDE DEF v
  <2>5. /\ w \in Stack /\ Books(w.gz) /\ ~w.gz.zw /\ w.net = v.net /\ w.rec = v.rec
    BY <2>2, <2>4, GoodParts, ReleaseBooks
  <2>6. Good(w)
    BY <2>4, <2>5 DEF Good, Whole
  <2>7. f \in Gz /\ Books(f)
    <3>1. "hijacked" \in GzipStates \ {"buffering", "pending", "identity"}
      BY DEF GzipStates
    <3>2. w.gz \in Gz
      BY <2>6, GoodParts
    <3> QED BY <2>5, <3>1, <3>2, BooksState
  <2>8. GzHijack(t) = [w EXCEPT !.gz.state = "hijacked"]
    BY <1>2, <2>3 DEF GzHijack, u
  <2> HIDE DEF w
  <2>9. [w EXCEPT !.gz.state = "hijacked"] = [w EXCEPT !.gz = f]
    BY <2>5 DEF Stack
  <2> HIDE DEF f
  <2> QED BY <2>6, <2>7, <2>8, <2>9, GoodGz
<1> QED BY <1>1, <1>2

(* The end of a request that returned: the compressor is given back.       *)
Settled(t) == Whole(t) /\ ~t.gz.zw

LEMMA GoodIsSettled ==
  ASSUME NEW t, Good(t), t.gz.state # "compressed"
  PROVE  Settled(t)
BY DEF Good, Whole, Books, Settled

LEMMA SettledGzFinish ==
  ASSUME NEW t, Good(t)
  PROVE  Settled(GzFinish(t))
<1> DEFINE u == ImplicitStatus(t)
<1>1. Good(u) /\ u.gz.state \in GzipStates \ {"pending"}
  BY GoodImplicitStatus, GoodParts, GzFields
<1>2. CASE u.gz.state = "buffering"
  <2>1. GzFinish(t) = CommitIdentity(u)
    BY <1>2 DEF GzFinish
  <2> HIDE DEF u
  <2> QED BY <1>1, <1>2, <2>1, GoodCommitIdentity, GoodIsSettled
<1>3. CASE u.gz.state = "compressed"
  <2> DEFINE bytes == Encode(u.gz.zbuf, TRUE)
             n == Bodied(u.net, u.hdr, bytes)
             r == Touched(u.rec)
             g == [u.gz EXCEPT !.zbuf = <<>>]
             v == Put(u, u.hdr, Closed(n), r, g)
  <2>1. GzFinish(t) = Release(ZClose(u))
    BY <1>3 DEF GzFinish
  <2> HIDE DEF u
  <2>2. u \in Stack /\ u.hdr \in Headers /\ u.net \in Net /\ u.rec \in Rec /\ u.gz \in Gz
        /\ Fit(u.net) /\ Agrees(u.net, u.rec) /\ Books(u.gz) /\ u.gz.zbuf \in Seq(HandlerIds)
    BY <1>1, GoodParts, GzFields
  <2>3. g \in Gz /\ Books(g)
    BY <2>2, EmptyIds, BooksZbuf
  <2>4. Fit(n)
    BY <2>2, FitBodied
  <2>5. bytes \in Seq(Byte)
    BY <2>2, EncodeType
  <2>6. r \in Rec /\ Agrees(n, r)
    BY <2>2, <2>5, RecTypes, AgreesBodied
  <2>7. ZClose(u) = v
    BY <2>2, ZCloseForm
  <2> HIDE DEF bytes, n, r, g
  <2>8. Closed(n) \in Net /\ ~Closed(n).aborted /\ Agrees(Closed(n), r)
    <3>1. /\ Closed(n).status = n.status /\ Closed(n).infos = n.infos /\ Closed(n).body = n.body
          /\ Closed(n).hijacked = n.hijacked
      BY <2>4 DEF Fit, Net, Closed
    <3>2. Closed(n) \in Net /\ Closed(n).aborted = n.aborted
      BY <2>4 DEF Fit, Net, Closed
    <3>3. Agrees(Closed(n), r)
      BY <2>6, <3>1 DEF Agrees, Quiet
    <3> QED BY <2>4, <3>2, <3>3 DEF Fit
  <2>9. v \in Stack /\ v.net = Closed(n) /\ v.rec = r /\ v.gz = g
    BY <2>2, <2>3, <2>6, <2>8, PutFields
  <2> HIDE DEF v
  <2>10. /\ Release(v) \in Stack /\ Books(Release(v).gz) /\ ~Release(v).gz.zw
         /\ Release(v).net = v.net /\ Release(v).rec = v.rec
    BY <2>3, <2>9, ReleaseBooks
  <2> QED BY <2>1, <2>6, <2>7, <2>8, <2>9, <2>10 DEF Settled, Whole
<1>4. CASE u.gz.state \in {"hijacked", "identity"}
  <2>1. GzFinish(t) = u
    BY <1>4 DEF GzFinish
  <2> QED BY <1>1, <1>4, <2>1, GoodIsSettled
<1> QED BY <1>1, <1>2, <1>3, <1>4 DEF GzipStates

(* The end of a request that panicked: what was held back is dropped, with *)
(* its length.                                                             *)
LEMMA GoodGzAbort ==
  ASSUME NEW t, Good(t)
  PROVE  /\ Good(GzAbort(t)) /\ ~GzAbort(t).gz.zw
         /\ GzAbort(t).gz.state = "buffering" => ~GzAbort(t).hdr.cl
<1> DEFINE h == IF t.gz.state = "buffering" THEN [t.hdr EXCEPT !.cl = FALSE] ELSE t.hdr
           g == [t.gz EXCEPT !.buf = <<>>]
           w == Put(t, h, t.net, t.rec, g)
<1>1. t.gz \in Gz /\ Books(t.gz) /\ t.hdr \in Headers /\ t \in Stack
  BY GoodParts
<1>2. h \in Headers /\ (t.gz.state = "buffering" => ~h.cl)
  BY <1>1 DEF Headers
<1>3. g \in Gz /\ Books(g) /\ g.state = t.gz.state
  <2>1. Len(<<>>) < MinBytes
    BY EmptyIds, MinBytesAssumption
  <2> QED BY <1>1, <2>1, EmptyIds, BooksBuf, GzUpdates
<1>4. GzAbort(t) = Release(w)
  BY <1>1 DEF GzAbort, Put, Stack
<1> HIDE DEF h, g
<1>5. Good(w) /\ w.gz = g /\ w.hdr = h
  BY <1>1, <1>2, <1>3, GoodParts, GoodPut, PutFields
<1> HIDE DEF w
<1>6. /\ Release(w) \in Stack /\ Books(Release(w).gz) /\ ~Release(w).gz.zw
      /\ Release(w).gz.state = g.state /\ Release(w).hdr = h
      /\ Release(w).net = w.net /\ Release(w).rec = w.rec
  BY <1>3, <1>5, GoodParts, ReleaseBooks
<1>7. Good(Release(w))
  BY <1>5, <1>6 DEF Good, Whole
<1> QED BY <1>2, <1>3, <1>4, <1>6, <1>7

-----------------------------------------------------------------------------
(* The end of a request: what the client got, and what the log says of it. *)

(* The switch of protocols the recorder saw is the one on the wire, and the*)
(* status it recorded is the one the end of the handler chain leaves there.*)
SwitchedNet(n) == n.status = Switching \/ (n.hijacked /\ n.status = NoStatus)

LEMMA SwitchIsSeen ==
  ASSUME NEW n \in Net, NEW r \in Rec, Agrees(n, r), n.infos = <<>>
  PROVE  SwitchedProtocol(r) <=> SwitchedNet(n)
<1>1. OK200 # Switching
  BY DEF OK200, Switching
<1>2. CASE r.wrote
  BY <1>1, <1>2 DEF Agrees, SwitchedProtocol, SwitchedNet, Switching, NoStatus
<1>3. CASE ~r.wrote
  BY <1>1, <1>3 DEF Agrees, Quiet, SwitchedProtocol, SwitchedNet, Switching, NoStatus
<1> QED BY <1>2, <1>3

LEMMA ReturnIsTold ==
  ASSUME NEW n \in Net, NEW h \in Headers, NEW r \in Rec, Agrees(n, r),
         Returned(n, h).infos = <<>>
  PROVE  /\ SwitchedProtocol(r) <=> SwitchedNet(Returned(n, h))
         /\ ~Returned(n, h).hijacked => r.status = Returned(n, h).status
<1> DEFINE m == Returned(n, h)
<1>1. /\ m.infos = Headed(n, h, OK200).infos /\ m.status = Headed(n, h, OK200).status
      /\ m.hijacked = n.hijacked
  BY ReturnedKeeps
<1>2. CASE Quiet(n)
  <2>1. Headed(n, h, OK200) = n
    BY <1>2, OkIsNat, HeadedTwice
  <2> HIDE DEF m
  <2>2. m.infos = n.infos /\ m.status = n.status /\ m.hijacked = n.hijacked
    BY <1>1, <2>1
  <2>3. m.infos = <<>>
    BY DEF m
  <2>4. SwitchedProtocol(r) <=> SwitchedNet(m)
    BY <2>2, <2>3, SwitchIsSeen DEF SwitchedNet
  <2>5. ~m.hijacked => r.status = m.status
    BY <1>2, <2>2, <2>3 DEF Agrees, Quiet
  <2> QED BY <2>4, <2>5 DEF m
<1>3. CASE ~Quiet(n)
  <2>1. Headed(n, h, OK200).infos = n.infos /\ Headed(n, h, OK200).status = OK200
    BY <1>3, OkIsNat, OkIsFinal, HeadedSends
  <2>2. n.infos = <<>> /\ m.status = OK200 /\ ~m.hijacked
    BY <1>1, <1>3, <2>1 DEF Quiet
  <2>3. r.status = OK200 /\ ~r.bare
    BY <1>3, <2>2 DEF Agrees, Quiet
  <2>4. OK200 # Switching /\ OK200 # NoStatus
    BY DEF OK200, Switching, NoStatus
  <2> HIDE DEF m
  <2>5. (SwitchedProtocol(r) <=> SwitchedNet(m)) /\ r.status = m.status
    BY <2>2, <2>3, <2>4 DEF SwitchedProtocol, SwitchedNet
  <2> QED BY <2>5 DEF m
<1> QED BY <1>2, <1>3

(* The deferred line never gets away, and counts as it should.             *)
LEMMA LogLeaves ==
  ASSUME NEW t, NEW h, Log(t, h), NEW skipped \in BOOLEAN,
         skipped <=> cfg.skipUpgrades /\ SwitchedProtocol(t.rec)
  PROVE  /\ s' = t
         /\ record'.lines = IF cfg.logged /\ ~skipped THEN 1 ELSE 0
         /\ record'.lines > 0 => record'.status = t.rec.status
         /\ record'.metrics <= record'.lines
<1>1. CASE ~cfg.logged
  BY <1>1 DEF Log, NoRecord
<1>2. CASE cfg.logged /\ skipped
  BY <1>2 DEF Log, NoRecord, EmitAccessLog
<1>3. CASE cfg.logged /\ ~skipped
  BY <1>3 DEF Log, EmitAccessLog
<1> QED BY <1>1, <1>2, <1>3

(* PanicNeverCorrupts, of one response.                                    *)
Sound(t) ==
  /\ EnvelopeByte \in Range(Ids(t.net.body)) =>
       /\ t.net.status = 500 /\ Ids(t.net.body) = <<EnvelopeByte>> /\ TRUE \notin Zs(t.net.body)
       /\ t.gz.state = "buffering" => ~t.net.hdr.cl
  /\ TRUE \in Zs(t.net.body) => ~t.net.zdone

LEMMA HandlerBytesSound ==
  ASSUME NEW t, t.net.body \in Seq(HandlerByte), ~t.net.zdone
  PROVE  Sound(t)
<1>1. EnvelopeByte \notin HandlerIds
  BY DEF EnvelopeByte, HandlerIds
<1>2. \A i \in DOMAIN t.net.body : t.net.body[i].id \in HandlerIds
  <2>1. \A i \in DOMAIN t.net.body : t.net.body[i] \in HandlerByte
    BY LenProperties, ElementOfSeq
  <2> QED BY <2>1 DEF HandlerByte
<1>3. Range(Ids(t.net.body)) \subseteq HandlerIds
  BY <1>2 DEF Range, Ids
<1> QED BY <1>1, <1>3 DEF Sound

LEMMA EnvelopeSound ==
  ASSUME NEW t, t.net.body \in {<<>>, <<[id |-> EnvelopeByte, z |-> FALSE]>>},
         t.net.status = 500, ~t.net.zdone, t.gz.state = "buffering" => ~t.net.hdr.cl
  PROVE  Sound(t)
<1>1. CASE t.net.body = <<>>
  <2>1. Range(Ids(t.net.body)) = {}
    BY <1>1 DEF Range, Ids
  <2> QED BY <2>1 DEF Sound
<1>2. CASE t.net.body = <<[id |-> EnvelopeByte, z |-> FALSE]>>
  <2>1. DOMAIN t.net.body = 1..1 /\ t.net.body[1] = [id |-> EnvelopeByte, z |-> FALSE]
    BY <1>2
  <2>2. TRUE \notin Zs(t.net.body)
    <3>1. \A i \in DOMAIN t.net.body : t.net.body[i].z = FALSE
      BY <2>1
    <3> QED BY <3>1, Zenon DEF Zs
  <2>3. Ids(t.net.body) = [i \in 1..1 |-> EnvelopeByte]
    BY <2>1 DEF Ids
  <2>4. Ids(t.net.body) = <<EnvelopeByte>>
    BY <2>3
  <2> QED BY <2>2, <2>4 DEF Sound
<1> QED BY <1>1, <1>2

-----------------------------------------------------------------------------
(* The inductive invariant.                                                *)

Position ==
  /\ phase \in {"handler", "panicked", "done"}
  /\ panicked \in {"no", "panic", "abort"}
  /\ phase = "handler" => panicked = "no"
  /\ phase = "panicked" => panicked # "no"
  /\ cfg \in Configs
  /\ ops \in 0..MaxOps
  /\ next \in Nat \ {0} /\ next <= ops * MaxWrite + 1
  /\ ~cfg.gzip => s.gz.state = "pending"

(* While the stack unwinds, Gzip has already given back what it took.      *)
Unwound(t) == ~t.gz.zw /\ (t.gz.state = "buffering" => ~t.hdr.cl)

Ended ==
  /\ s \in Stack /\ Books(s.gz) /\ ~s.gz.zw
  /\ OneLinePerRequest
  /\ panicked # "no" => Sound(s)

StackInv ==
  /\ Position
  /\ phase # "done" => Good(s)
  /\ phase = "panicked" => Unwound(s)
  /\ phase = "done" => Ended

LEMMA PositionParts ==
  ASSUME Position
  PROVE  /\ ops \in Nat /\ MaxOps \in Nat /\ MaxWrite \in Nat /\ MaxWrite >= 1 /\ next \in Nat
         /\ ops * MaxWrite \in Nat /\ MaxOps * MaxWrite \in Nat
         /\ ops * MaxWrite <= MaxOps * MaxWrite
         /\ (ops + 1) * MaxWrite = ops * MaxWrite + MaxWrite
         /\ ops < MaxOps => ops * MaxWrite + MaxWrite <= MaxOps * MaxWrite
<1>1. ops \in Nat /\ MaxOps \in Nat /\ MaxWrite \in Nat /\ MaxWrite >= 1 /\ next \in Nat /\ ops <= MaxOps
  BY StackAssumption DEF Position
<1>2. \A i, j, w \in Nat : i <= j => i * w \in Nat /\ j * w \in Nat /\ i * w <= j * w
  OBVIOUS
<1>3. \A i, w \in Nat : (i + 1) * w = i * w + w
  OBVIOUS
<1>4. ops < MaxOps => ops + 1 \in Nat /\ ops + 1 <= MaxOps
  BY <1>1
<1>5. ops < MaxOps => (ops + 1) * MaxWrite <= MaxOps * MaxWrite
  BY <1>1, <1>2, <1>4
<1> QED BY <1>1, <1>2, <1>3, <1>5

LEMMA NextBytesType ==
  ASSUME Position, ops < MaxOps, NEW n \in 0..MaxWrite
  PROVE  /\ NextBytes(n) \in Seq(HandlerIds)
         /\ Len(NextBytes(n)) = n
         /\ next + n \in Nat \ {0} /\ next + n <= (ops + 1) * MaxWrite + 1
<1>1. n \in Nat /\ n <= MaxWrite /\ next \in Nat \ {0} /\ next <= ops * MaxWrite + 1
  BY PositionParts DEF Position
<1>2. next + n <= (ops + 1) * MaxWrite + 1
  BY <1>1, PositionParts
<1>3. \A i \in 1..n : next + i - 1 \in HandlerIds
  <2>1. next + n - 1 <= MaxOps * MaxWrite
    BY <1>1, <1>2, PositionParts
  <2> QED BY <1>1, <2>1, PositionParts DEF HandlerIds
<1>4. NextBytes(n) \in [1..n -> HandlerIds]
  BY <1>3 DEF NextBytes
<1>5. NextBytes(n) \in Seq(HandlerIds)
  BY <1>1, <1>4
<1>6. Len(NextBytes(n)) = n
  BY <1>1, <1>4, <1>5, LenProperties
<1> QED BY <1>1, <1>2, <1>5, <1>6

LEMMA InitStackInv == Init => StackInv
<1> SUFFICES ASSUME Init PROVE StackInv
  OBVIOUS
<1>1. PICK h \in Headers, accepts \in BOOLEAN, canFlush \in BOOLEAN, canHijack \in BOOLEAN :
        s = [hdr |-> h, net |-> NewNet(h), canFlush |-> canFlush, canHijack |-> canHijack,
             rec |-> NewRecorder, gz |-> NewGzip(accepts, h)]
  <2>1. NewHeader("json") \in Headers /\ NewHeader("text") \in Headers
    BY DEF NewHeader, Headers
  <2> QED BY <2>1 DEF Init
<1>4. NewNet(h) \in Net /\ Fit(NewNet(h)) /\ ~Quiet(NewNet(h)) /\ NewNet(h).infos = <<>>
  BY DEF NewNet, Net, Fit, Quiet, NoStatus
<1>5. NewRecorder \in Rec /\ Agrees(NewNet(h), NewRecorder)
  BY <1>4 DEF NewRecorder, Rec, Agrees, NewNet, OK200
<1>6. NewGzip(accepts, h) \in Gz /\ Books(NewGzip(accepts, h)) /\ NewGzip(accepts, h).state = "pending"
  BY MinBytesAssumption DEF NewGzip, Gz, GzipStates, NoStatus, Books
<1>7. s \in Stack
  BY <1>1, <1>4, <1>5, <1>6 DEF Stack
<1>8. Good(s)
  BY <1>1, <1>4, <1>5, <1>6, <1>7 DEF Good, Whole, Fit
<1>9. Position
  <2>1. ops = 0 /\ next = 1 /\ next <= ops * MaxWrite + 1 /\ 0 \in 0..MaxOps
    BY StackAssumption DEF Init
  <2> QED BY <1>1, <1>6, <2>1 DEF Position, Init
<1>10. phase = "handler"
  BY DEF Init
<1> QED BY <1>8, <1>9, <1>10 DEF StackInv

(* A call that leaves a good stack keeps the invariant.                    *)
LEMMA CallKeeps ==
  ASSUME StackInv, NEW t, NEW p, Call(t, p), Good(t), ~cfg.gzip => t.gz.state = "pending",
         next' \in Nat \ {0}, next' <= ops' * MaxWrite + 1
  PROVE  StackInv'
<1>1. /\ phase = "handler" /\ phase' = "handler" /\ cfg' = cfg /\ panicked' = panicked
      /\ s' = t /\ ops < MaxOps /\ ops' = ops + 1
  BY DEF Call
<1>2. ops' \in 0..MaxOps
  BY <1>1, StackAssumption DEF StackInv, Position
<1>3. Position'
  BY <1>1, <1>2 DEF StackInv, Position
<1>4. Good(s)'
  BY <1>1 DEF Good, Whole
<1> QED BY <1>1, <1>3, <1>4 DEF StackInv

LEMMA HandlerFacts ==
  ASSUME StackInv, phase = "handler"
  PROVE  Position /\ Good(s) /\ (~cfg.gzip => s.gz.state = "pending")
BY DEF StackInv, Position

(* A call that takes none of the body's bytes keeps the count of them.     *)
LEMMA NextStays ==
  ASSUME Position, ops < MaxOps, ops' = ops + 1, next' = next
  PROVE  next' \in Nat \ {0} /\ next' <= ops' * MaxWrite + 1
<1>1. ops \in Nat /\ MaxWrite \in Nat /\ next \in Nat \ {0} /\ next <= ops * MaxWrite + 1
  BY PositionParts DEF Position
<1>2. (ops + 1) * MaxWrite = ops * MaxWrite + MaxWrite /\ ops * MaxWrite \in Nat
  BY PositionParts
<1> QED BY <1>1, <1>2

LEMMA HeaderCallKeeps ==
  ASSUME StackInv, NEW h \in Headers, NEW p, Call([s EXCEPT !.hdr = h], p), next' = next
  PROVE  StackInv'
<1>1. phase = "handler" /\ ops < MaxOps /\ ops' = ops + 1
  BY DEF Call
<1>2. Position /\ Good(s) /\ (~cfg.gzip => s.gz.state = "pending")
  BY <1>1, HandlerFacts
<1>3. Good([s EXCEPT !.hdr = h]) /\ [s EXCEPT !.hdr = h].gz = s.gz
  BY <1>2, GoodHeader
<1>4. next' \in Nat \ {0} /\ next' <= ops' * MaxWrite + 1
  BY <1>1, <1>2, NextStays
<1> QED BY <1>2, <1>3, <1>4, CallKeeps

LEMMA HeaderSetters ==
  ASSUME NEW h \in Headers
  PROVE  /\ WithEntity(h) \in Headers /\ WithOwnEncoding(h) \in Headers /\ WithOther(h) \in Headers
         /\ DeclareTrailer(h) \in Headers /\ WithTrailer(h) \in Headers
         /\ WithPrefixed(h) \in Headers
<1>1. /\ (IF h.sum < 2 THEN h.sum + 1 ELSE h.sum) \in 0..2
      /\ (IF h.prefixed < 2 THEN h.prefixed + 1 ELSE h.prefixed) \in 0..2
  BY DEF Headers
<1>2. /\ WithEntity(h) \in Headers /\ WithOwnEncoding(h) \in Headers
      /\ WithOther(h) \in Headers /\ DeclareTrailer(h) \in Headers
  BY DEF Headers, WithEntity, WithOwnEncoding, WithOther, DeclareTrailer
<1>3. WithTrailer(h) \in Headers
  BY <1>1 DEF Headers, WithTrailer
<1>4. WithPrefixed(h) \in Headers
  BY <1>1 DEF Headers, WithPrefixed
<1> QED BY <1>2, <1>3, <1>4

LEMMA HeaderCallsKeep ==
  ASSUME StackInv, SetEntityHeaders \/ SetOwnEncoding \/ SetOtherHeader \/ SetTrailers
  PROVE  StackInv'
<1>1. phase = "handler"
  BY DEF SetEntityHeaders, SetOwnEncoding, SetOtherHeader, SetTrailers, HandlerHeader, Call
<1>2. s.hdr \in Headers
  BY <1>1, HandlerFacts, GoodParts
<1>3. PICK h \in Headers : \E p : Call([s EXCEPT !.hdr = h], p) /\ next' = next
  <2>1. CASE SetEntityHeaders
    BY <1>2, <2>1, HeaderSetters DEF SetEntityHeaders, HandlerHeader
  <2>2. CASE SetOwnEncoding
    BY <1>2, <2>2, HeaderSetters DEF SetOwnEncoding, HandlerHeader
  <2>3. CASE SetOtherHeader
    BY <1>2, <2>3, HeaderSetters DEF SetOtherHeader, HandlerHeader
  <2>4. CASE HandlerHeader(DeclareTrailer)
    BY <1>2, <2>4, HeaderSetters DEF HandlerHeader
  <2>5. CASE HandlerHeader(WithTrailer)
    BY <1>2, <2>5, HeaderSetters DEF HandlerHeader
  <2>6. CASE HandlerHeader(WithPrefixed)
    BY <1>2, <2>6, HeaderSetters DEF HandlerHeader
  <2> QED BY <2>1, <2>2, <2>3, <2>4, <2>5, <2>6 DEF SetTrailers
<1> QED BY <1>3, HeaderCallKeeps

LEMMA WriteHeaderKeeps ==
  ASSUME StackInv, HandlerWriteHeader
  PROVE  StackInv'
<1>1. PICK code \in Statuses :
        Call(IF cfg.gzip THEN GzWriteHeader(s, code) ELSE RecWriteHeader(s, code),
             NetWriteHeader(plain, code))
  BY DEF HandlerWriteHeader
<1> DEFINE t == IF cfg.gzip THEN GzWriteHeader(s, code) ELSE RecWriteHeader(s, code)
<1>2. phase = "handler" /\ ops < MaxOps /\ ops' = ops + 1 /\ next' = next
  BY <1>1 DEF Call, HandlerWriteHeader
<1>3. Position /\ Good(s) /\ (~cfg.gzip => s.gz.state = "pending")
  BY <1>2, HandlerFacts
<1>4. code \in 100..599 /\ code \in Nat \ {0}
  BY StackAssumption
<1>5. Good(t) /\ (~cfg.gzip => t.gz.state = "pending")
  <2>1. CASE cfg.gzip
    BY <1>3, <1>4, <2>1, GoodGzWriteHeader
  <2>2. CASE ~cfg.gzip
    BY <1>3, <1>4, <2>2, GoodRecHeader
  <2> QED BY <2>1, <2>2
<1>6. next' \in Nat \ {0} /\ next' <= ops' * MaxWrite + 1
  BY <1>2, <1>3, NextStays
<1> HIDE DEF t
<1>7. Call(t, NetWriteHeader(plain, code))
  BY <1>1 DEF t
<1> QED BY <1>5, <1>6, <1>7, CallKeeps

LEMMA WriteKeeps ==
  ASSUME StackInv, HandlerWrite \/ HandlerReadFrom
  PROVE  StackInv'
<1>1. CASE HandlerWrite
  <2>1. PICK n \in 0..MaxWrite :
          /\ Call(IF cfg.gzip THEN GzWrite(s, NextBytes(n))
                  ELSE RecWrite(s, Encode(NextBytes(n), FALSE)),
                  NetWrite(plain, Encode(NextBytes(n), FALSE)))
          /\ next' = next + n
    BY <1>1 DEF HandlerWrite
  <2> DEFINE t == IF cfg.gzip THEN GzWrite(s, NextBytes(n))
                  ELSE RecWrite(s, Encode(NextBytes(n), FALSE))
  <2>2. phase = "handler" /\ ops < MaxOps /\ ops' = ops + 1
    BY <2>1 DEF Call
  <2>3. Position /\ Good(s) /\ (~cfg.gzip => s.gz.state = "pending")
    BY <2>2, HandlerFacts
  <2>4. NextBytes(n) \in Seq(HandlerIds) /\ next' \in Nat \ {0} /\ next' <= ops' * MaxWrite + 1
    BY <2>1, <2>2, <2>3, NextBytesType
  <2>5. Good(t) /\ (~cfg.gzip => t.gz.state = "pending")
    BY <2>3, <2>4, GoodGzWrite, GoodRecWrite
  <2> HIDE DEF t
  <2>6. Call(t, NetWrite(plain, Encode(NextBytes(n), FALSE)))
    BY <2>1 DEF t
  <2> QED BY <2>4, <2>5, <2>6, CallKeeps
<1>2. CASE HandlerReadFrom
  <2>1. PICK n \in 0..1 :
          /\ Call(RecReadFrom(s, Encode(NextBytes(n), FALSE)),
                  IF n = 0 THEN plain ELSE NetWrite(plain, Encode(NextBytes(n), FALSE)))
          /\ next' = next + n
    BY <1>2 DEF HandlerReadFrom
  <2> DEFINE t == RecReadFrom(s, Encode(NextBytes(n), FALSE))
             p == IF n = 0 THEN plain ELSE NetWrite(plain, Encode(NextBytes(n), FALSE))
  <2>2. phase = "handler" /\ ops < MaxOps /\ ops' = ops + 1
    BY <2>1 DEF Call
  <2>3. Position /\ Good(s) /\ (~cfg.gzip => s.gz.state = "pending")
    BY <2>2, HandlerFacts
  <2>4. n \in 0..MaxWrite
    BY PositionParts, <2>3
  <2>5. NextBytes(n) \in Seq(HandlerIds) /\ next' \in Nat \ {0} /\ next' <= ops' * MaxWrite + 1
    BY <2>1, <2>2, <2>3, <2>4, NextBytesType
  <2>6. Good(t) /\ (~cfg.gzip => t.gz.state = "pending")
    BY <2>3, <2>5, GoodRecReadFrom
  <2> HIDE DEF t, p
  <2>7. Call(t, p)
    BY <2>1 DEF t, p
  <2> QED BY <2>5, <2>6, <2>7, CallKeeps
<1> QED BY <1>1, <1>2

LEMMA FlushKeeps ==
  ASSUME StackInv, HandlerFlush
  PROVE  StackInv'
<1> DEFINE t == IF cfg.gzip THEN GzFlush(s) ELSE RecFlush(s)
<1>1. Call(t, NetFlush(plain)) /\ next' = next
  BY DEF HandlerFlush
<1>2. phase = "handler" /\ ops < MaxOps /\ ops' = ops + 1
  BY <1>1 DEF Call
<1>3. Position /\ Good(s) /\ (~cfg.gzip => s.gz.state = "pending")
  BY <1>2, HandlerFacts
<1>4. Good(t) /\ (~cfg.gzip => t.gz.state = "pending")
  BY <1>3, GoodGzFlush, GoodRecFlush
<1>5. next' \in Nat \ {0} /\ next' <= ops' * MaxWrite + 1
  BY <1>1, <1>2, <1>3, NextStays
<1> HIDE DEF t
<1> QED BY <1>1, <1>4, <1>5, CallKeeps

LEMMA HijackKeeps ==
  ASSUME StackInv, HandlerHijack
  PROVE  StackInv'
<1> DEFINE t == IF cfg.gzip THEN GzHijack(s) ELSE RecHijack(s)
<1>1. Call(t, NetHijack(plain)) /\ next' = next
  BY DEF HandlerHijack
<1>2. phase = "handler" /\ ops < MaxOps /\ ops' = ops + 1
  BY <1>1 DEF Call
<1>3. Position /\ Good(s) /\ (~cfg.gzip => s.gz.state = "pending")
  BY <1>2, HandlerFacts
<1>4. Good(t) /\ (~cfg.gzip => t.gz.state = "pending")
  <2>1. CASE HijackFails(s)
    BY <1>3, <2>1, GoodGzHijack DEF RecHijack
  <2>2. CASE ~HijackFails(s)
    BY <1>3, <2>2, GoodGzHijack, GoodRecHijack
  <2> QED BY <2>1, <2>2
<1>5. next' \in Nat \ {0} /\ next' <= ops' * MaxWrite + 1
  BY <1>1, <1>2, <1>3, NextStays
<1> HIDE DEF t
<1> QED BY <1>1, <1>4, <1>5, CallKeeps

LEMMA PositionStays ==
  ASSUME Position, UNCHANGED <<cfg, ops, next>>, s'.gz.state = s.gz.state,
         phase' \in {"handler", "panicked", "done"}, panicked' \in {"no", "panic", "abort"},
         phase' = "handler" => panicked' = "no", phase' = "panicked" => panicked' # "no"
  PROVE  Position'
BY DEF Position

LEMMA EmitsKeeps ==
  ASSUME StackInv, CompressorEmits
  PROVE  StackInv'
<1>1. /\ phase = "handler" /\ s.gz.zw /\ s' = ZFlush(s) /\ s.gz.zbuf # <<>>
      /\ UNCHANGED <<phase, plain, cfg, ops, next, panicked, record>>
  BY DEF CompressorEmits
<1>2. Position /\ Good(s) /\ s.gz.zbuf \in Seq(HandlerIds)
  BY <1>1, HandlerFacts, GoodParts, GzFields
<1>3. Good(s')
  BY <1>1, <1>2, GoodZFlush
<1>4. cfg.gzip
  <2>1. s.gz.state = "compressed"
    BY <1>1, <1>2, GoodParts DEF Books
  <2> QED BY <1>2, <2>1 DEF Position
<1>5. Position'
  BY <1>1, <1>2, <1>4 DEF Position
<1> QED BY <1>1, <1>3, <1>5 DEF StackInv, Good, Whole

LEMMA FailsKeeps ==
  ASSUME StackInv, ConnectionFails
  PROVE  StackInv'
<1> DEFINE n == [s.net EXCEPT !.broken = TRUE]
<1>1. /\ phase = "handler" /\ s' = [s EXCEPT !.net.broken = TRUE]
      /\ UNCHANGED <<phase, cfg, ops, next, panicked, record>>
  BY DEF ConnectionFails
<1>2. Position /\ Good(s)
  BY <1>1, HandlerFacts
<1>3. /\ s \in Stack /\ s.hdr \in Headers /\ s.net \in Net /\ s.rec \in Rec /\ s.gz \in Gz
      /\ Fit(s.net) /\ Agrees(s.net, s.rec) /\ Books(s.gz)
  BY <1>2, GoodParts
<1>4. /\ n.status = s.net.status /\ n.infos = s.net.infos /\ n.body = s.net.body
      /\ n.hijacked = s.net.hijacked /\ n.zdone = s.net.zdone /\ n.aborted = s.net.aborted
      /\ n \in Net
  BY <1>3 DEF Net
<1>5. s' = Put(s, s.hdr, n, s.rec, s.gz)
  BY <1>1, <1>3 DEF Put, Stack
<1> HIDE DEF n
<1>6. Fit(n) /\ Agrees(n, s.rec)
  BY <1>3, <1>4 DEF Fit, Agrees, Quiet
<1>7. Good(s') /\ s'.gz = s.gz
  BY <1>3, <1>5, <1>6, GoodPut
<1>8. Position'
  BY <1>1, <1>2, <1>7 DEF Position
<1> QED BY <1>1, <1>7, <1>8 DEF StackInv, Good, Whole

LEMMA PanicsKeeps ==
  ASSUME StackInv, HandlerPanics
  PROVE  StackInv'
<1>1. /\ phase = "handler" /\ phase' = "panicked" /\ panicked' \in {"panic", "abort"}
      /\ s' = (IF cfg.gzip THEN GzAbort(s) ELSE s) /\ UNCHANGED <<plain, cfg, ops, next, record>>
  BY DEF HandlerPanics
<1>2. Position /\ Good(s) /\ (~cfg.gzip => s.gz.state = "pending")
  BY <1>1, HandlerFacts
<1>3. Good(s') /\ Unwound(s') /\ (~cfg.gzip => s'.gz.state = "pending")
  <2>1. CASE cfg.gzip
    BY <1>1, <1>2, <2>1, GoodGzAbort DEF Unwound
  <2>2. CASE ~cfg.gzip
    <3>1. s' = s /\ s.gz.state = "pending"
      BY <1>1, <1>2, <2>2
    <3>2. ~s.gz.zw
      BY <1>2, <3>1, GoodParts DEF Books
    <3> QED BY <1>2, <3>1, <3>2 DEF Unwound
  <2> QED BY <2>1, <2>2
<1>4. Position'
  BY <1>1, <1>2, <1>3 DEF Position
<1> QED BY <1>1, <1>3, <1>4 DEF StackInv, Good, Whole, Unwound

(* A response that was returned by the handler chain, or cut, and logged.  *)
LEMMA ReturnedLogged ==
  ASSUME NEW t \in Stack, Agrees(t.net, t.rec), Books(t.gz), ~t.gz.zw, ~t.net.aborted,
         NEW h, Log(NetReturn(t), h), cfg \in Configs, phase' = "done", cfg' = cfg
  PROVE  /\ s' \in Stack /\ s'.gz = t.gz /\ s'.net = Returned(t.net, t.hdr)
         /\ OneLinePerRequest'
<1> DEFINE n == Returned(t.net, t.hdr)
           u == Put(t, t.hdr, n, t.rec, t.gz)
           skipped == cfg.skipUpgrades /\ SwitchedProtocol(t.rec)
<1>1. t.hdr \in Headers /\ t.net \in Net /\ t.rec \in Rec /\ t.gz \in Gz
  BY StackFields
<1>2. n \in Net /\ n.aborted = t.net.aborted
  BY <1>1, ReturnedKeeps
<1>3. n.infos = <<>> => /\ SwitchedProtocol(t.rec) <=> SwitchedNet(n)
                        /\ ~n.hijacked => t.rec.status = n.status
  BY <1>1, ReturnIsTold
<1>4. NetReturn(t) = u
  <2>1. NetReturn(t) = With(t, t.hdr, n, t.rec)
    BY StackFields, NetEndForms
  <2> HIDE DEF n
  <2> QED BY <2>1, WithIsPut
<1> HIDE DEF n
<1>5. u \in Stack /\ u.gz = t.gz /\ u.net = n /\ u.rec = t.rec
  BY <1>1, <1>2, PutFields
<1> HIDE DEF u
<1>6. skipped \in BOOLEAN /\ Log(u, h)
  BY <1>4 DEF SwitchedProtocol, Configs
<1> HIDE DEF skipped
<1>7. /\ s' = u
      /\ record'.lines = IF cfg.logged /\ ~skipped THEN 1 ELSE 0
      /\ record'.lines > 0 => record'.status = t.rec.status
      /\ record'.metrics <= record'.lines
  <2>1. skipped <=> cfg.skipUpgrades /\ SwitchedProtocol(u.rec)
    BY <1>5 DEF skipped
  <2> QED BY <1>5, <1>6, <2>1, LogLeaves
<1>8. s'.net = n /\ ~s'.net.aborted
  BY <1>2, <1>5, <1>7
<1>9. s'.net.infos = <<>> => (skipped <=> cfg'.skipUpgrades /\ SwitchedOnWire')
  BY <1>3, <1>8 DEF skipped, SwitchedNet, SwitchedOnWire, Committed
<1>10. s'.net.infos = <<>> => StatusIsWritten'
  BY <1>3, <1>7, <1>8 DEF StatusIsWritten
<1>11. s'.net.infos = <<>> =>
         record'.lines = IF cfg'.logged /\ ~(cfg'.skipUpgrades /\ SwitchedOnWire') THEN 1 ELSE 0
  BY <1>7, <1>9
<1>12. OneLinePerRequest'
  BY <1>7, <1>8, <1>10, <1>11 DEF OneLinePerRequest
<1> QED BY <1>5, <1>7, <1>12 DEF n

LEMMA AbortedLogged ==
  ASSUME Good(s), NEW h, Log(NetAbort(s), h), cfg \in Configs, phase' = "done", cfg' = cfg,
         panicked' = "abort"
  PROVE  /\ s' \in Stack /\ s'.gz = s.gz /\ s'.net = [s.net EXCEPT !.aborted = TRUE]
         /\ OneLinePerRequest'
<1> DEFINE n == [s.net EXCEPT !.aborted = TRUE]
           u == Put(s, s.hdr, n, s.rec, s.gz)
           skipped == cfg.skipUpgrades /\ SwitchedProtocol(s.rec)
<1>1. s.hdr \in Headers /\ s.net \in Net /\ s.rec \in Rec /\ s.gz \in Gz /\ Agrees(s.net, s.rec)
      /\ s \in Stack
  BY GoodParts
<1>2. n \in Net /\ n.infos = s.net.infos /\ n.status = s.net.status /\ n.hijacked = s.net.hijacked
      /\ n.aborted
  BY <1>1 DEF Net
<1>3. n.infos = <<>> => (SwitchedProtocol(s.rec) <=> SwitchedNet(n))
  BY <1>1, <1>2, SwitchIsSeen DEF SwitchedNet
<1>4. NetAbort(s) = u
  BY <1>1, StackFields, NetEndForms, WithIsPut
<1> HIDE DEF n
<1>5. u \in Stack /\ u.gz = s.gz /\ u.net = n /\ u.rec = s.rec
  BY <1>1, <1>2, PutFields
<1> HIDE DEF u
<1>6. skipped \in BOOLEAN /\ Log(u, h)
  BY <1>4 DEF SwitchedProtocol, Configs
<1> HIDE DEF skipped
<1>7. /\ s' = u
      /\ record'.lines = IF cfg.logged /\ ~skipped THEN 1 ELSE 0
      /\ record'.metrics <= record'.lines
  <2>1. skipped <=> cfg.skipUpgrades /\ SwitchedProtocol(u.rec)
    BY <1>5 DEF skipped
  <2> QED BY <1>5, <1>6, <2>1, LogLeaves
<1>8. s'.net = n /\ s'.net.aborted
  BY <1>2, <1>5, <1>7
<1>9. s'.net.infos = <<>> => (skipped <=> cfg'.skipUpgrades /\ SwitchedOnWire')
  BY <1>3, <1>8 DEF skipped, SwitchedNet, SwitchedOnWire, Committed
<1>10. StatusIsWritten'
  BY <1>8 DEF StatusIsWritten
<1>11. s'.net.infos = <<>> =>
         record'.lines = IF cfg'.logged /\ ~(cfg'.skipUpgrades /\ SwitchedOnWire') THEN 1 ELSE 0
  BY <1>7, <1>9
<1>12. OneLinePerRequest'
  BY <1>7, <1>8, <1>10, <1>11 DEF OneLinePerRequest
<1> QED BY <1>5, <1>7, <1>12 DEF n

LEMMA ReturnsKeeps ==
  ASSUME StackInv, HandlerReturns
  PROVE  StackInv'
<1> DEFINE t == IF cfg.gzip THEN GzFinish(s) ELSE s
<1>1. PICK h \in Hooks : Log(NetReturn(t), h)
  BY DEF HandlerReturns
<1>2. /\ phase = "handler" /\ phase' = "done" /\ cfg' = cfg /\ ops' = ops /\ next' = next
      /\ panicked' = panicked
  BY DEF HandlerReturns
<1>3. Position /\ Good(s) /\ (~cfg.gzip => s.gz.state = "pending") /\ panicked = "no" /\ cfg \in Configs
  BY <1>2, HandlerFacts DEF Position
<1>4. Settled(t) /\ (~cfg.gzip => t.gz.state = "pending")
  BY <1>3, SettledGzFinish, GoodIsSettled
<1> HIDE DEF t
<1>5. s' \in Stack /\ s'.gz = t.gz /\ OneLinePerRequest'
  BY <1>1, <1>2, <1>3, <1>4, ReturnedLogged DEF Settled, Whole
<1>6. Position'
  BY <1>2, <1>3, <1>4, <1>5 DEF Position
<1>7. Ended'
  BY <1>2, <1>3, <1>4, <1>5 DEF Ended, Settled, Whole
<1> QED BY <1>2, <1>6, <1>7 DEF StackInv

LEMMA RecoveredKeeps ==
  ASSUME StackInv, Recovered
  PROVE  StackInv'
<1>1. PICK kind \in Kinds, h \in Hooks : Log(NetReturn(Recover(s, kind)), h)
  BY DEF Recovered, Kinds
<1>2. /\ phase = "panicked" /\ phase' = "done" /\ cfg' = cfg /\ ops' = ops /\ next' = next
      /\ panicked = "panic" /\ panicked' = panicked
  BY DEF Recovered
<1>3. Position /\ Good(s) /\ Unwound(s) /\ cfg \in Configs
  BY <1>2 DEF StackInv, Position
<1>4. /\ s \in Stack /\ s.hdr \in Headers /\ s.net \in Net /\ s.rec \in Rec /\ s.gz \in Gz
      /\ Recorded(s) /\ Agrees(s.net, s.rec) /\ Books(s.gz) /\ Fit(s.net)
  BY <1>3, GoodParts
<1> DEFINE t == Recover(s, kind)
<1>5. /\ t \in Stack /\ t.gz = s.gz /\ Agrees(t.net, t.rec) /\ ~t.net.aborted /\ ~t.net.zdone
      /\ \/ t.net.body \in Seq(HandlerByte)
         \/ /\ t.net.body \in {<<>>, <<[id |-> EnvelopeByte, z |-> FALSE]>>}
            /\ t.net.status = 500 /\ t.net.hdr.cl = s.hdr.cl
  <2>1. CASE s.rec.wrote
    <3>1. t = s
      BY <1>4, <2>1, RecoverForm
    <3> HIDE DEF t
    <3> QED BY <1>4, <3>1 DEF Fit
  <2>2. CASE ~s.rec.wrote
    <3>1. Written500(t, s)
      BY <1>4, <2>2, RecoverForm
    <3> HIDE DEF t
    <3>2. PICK g \in Headers, m \in Net, r \in Rec :
            /\ t = With(s, g, m, r)
            /\ Answer500(m, s.net) /\ m.hdr.cl = s.hdr.cl
            /\ r.wrote /\ Agrees(m, r)
      BY <3>1 DEF Written500
    <3>3. t \in Stack /\ t.gz = s.gz /\ t.net = m /\ t.rec = r
      BY <1>4, <3>2, WithIsPut, PutFields
    <3> QED BY <1>4, <3>2, <3>3 DEF Answer500, Fit
  <2> QED BY <2>1, <2>2
<1> HIDE DEF t
<1>6. /\ s' \in Stack /\ s'.gz = t.gz /\ s'.net = Returned(t.net, t.hdr) /\ OneLinePerRequest'
  BY <1>1, <1>2, <1>3, <1>4, <1>5, ReturnedLogged DEF Unwound, t
<1>7. /\ s'.net.body = t.net.body /\ ~s'.net.zdone
      /\ t.net.status = 500 => s'.net.status = 500 /\ s'.net.hdr = t.net.hdr
  <2>1. t.net \in Net /\ t.hdr \in Headers
    BY <1>5, StackFields
  <2>2. t.net.status = 500 => Headed(t.net, t.hdr, OK200) = t.net
    BY <2>1, OkIsNat, Code500, HeadedTwice DEF Quiet
  <2> DEFINE m == Returned(t.net, t.hdr)
  <2>3. /\ m.body = t.net.body /\ m.zdone = t.net.zdone
        /\ m.status = Headed(t.net, t.hdr, OK200).status
        /\ m.hdr = Headed(t.net, t.hdr, OK200).hdr
    BY <2>1, ReturnedKeeps
  <2>4. s'.net = m
    BY <1>6
  <2> HIDE DEF m
  <2> QED BY <1>5, <2>2, <2>3, <2>4
<1>8. Sound(s')
  <2>1. CASE t.net.body \in Seq(HandlerByte)
    BY <1>7, <2>1, HandlerBytesSound
  <2>2. CASE /\ t.net.body \in {<<>>, <<[id |-> EnvelopeByte, z |-> FALSE]>>}
             /\ t.net.status = 500 /\ t.net.hdr.cl = s.hdr.cl
    <3>1. s'.gz.state = "buffering" => ~s'.net.hdr.cl
      BY <1>3, <1>5, <1>6, <1>7, <2>2 DEF Unwound
    <3> QED BY <1>7, <2>2, <3>1, EnvelopeSound
  <2> QED BY <1>5, <2>1, <2>2
<1>9. Position'
  BY <1>2, <1>3, <1>5, <1>6 DEF Position
<1>10. Ended'
  BY <1>3, <1>4, <1>5, <1>6, <1>8 DEF Ended, Unwound, Sound
<1> QED BY <1>2, <1>9, <1>10 DEF StackInv

LEMMA AbortKeeps ==
  ASSUME StackInv, AbortPassesOn
  PROVE  StackInv'
<1>1. PICK h \in Hooks : Log(NetAbort(s), h)
  BY DEF AbortPassesOn
<1>2. /\ phase = "panicked" /\ phase' = "done" /\ cfg' = cfg /\ ops' = ops /\ next' = next
      /\ panicked = "abort" /\ panicked' = panicked
  BY DEF AbortPassesOn
<1>3. Position /\ Good(s) /\ Unwound(s) /\ cfg \in Configs
  BY <1>2 DEF StackInv, Position
<1>4. /\ s' \in Stack /\ s'.gz = s.gz /\ s'.net = [s.net EXCEPT !.aborted = TRUE]
      /\ OneLinePerRequest'
  BY <1>1, <1>2, <1>3, AbortedLogged
<1>5. s.net \in Net /\ Fit(s.net) /\ Books(s.gz)
  BY <1>3, GoodParts
<1>6. s'.net.body \in Seq(HandlerByte) /\ ~s'.net.zdone
  <2>1. s'.net.body = s.net.body /\ s'.net.zdone = s.net.zdone
    BY <1>4, <1>5 DEF Net
  <2> QED BY <1>5, <2>1 DEF Fit
<1>7. Sound(s')
  BY <1>6, HandlerBytesSound
<1>8. Position'
  BY <1>2, <1>3, <1>4 DEF Position
<1>9. Ended'
  BY <1>3, <1>4, <1>5, <1>7 DEF Ended, Unwound, Sound
<1> QED BY <1>2, <1>8, <1>9 DEF StackInv

LEMMA NextStackInv == StackInv /\ [Next]_vars => StackInv'
<1> SUFFICES ASSUME StackInv, [Next]_vars PROVE StackInv'
  OBVIOUS
<1>1. CASE SetEntityHeaders \/ SetOwnEncoding \/ SetOtherHeader \/ SetTrailers
  BY <1>1, HeaderCallsKeep
<1>2. CASE ConnectionFails
  BY <1>2, FailsKeeps
<1>3. CASE HandlerWriteHeader
  BY <1>3, WriteHeaderKeeps
<1>4. CASE HandlerWrite \/ HandlerReadFrom
  BY <1>4, WriteKeeps
<1>5. CASE HandlerFlush
  BY <1>5, FlushKeeps
<1>6. CASE HandlerHijack
  BY <1>6, HijackKeeps
<1>7. CASE CompressorEmits
  BY <1>7, EmitsKeeps
<1>8. CASE HandlerReturns
  BY <1>8, ReturnsKeeps
<1>9. CASE HandlerPanics
  BY <1>9, PanicsKeeps
<1>10. CASE Recovered
  BY <1>10, RecoveredKeeps
<1>11. CASE AbortPassesOn
  BY <1>11, AbortKeeps
<1>12. CASE UNCHANGED vars
  <2>1. OneLinePerRequest => OneLinePerRequest'
    BY <1>12 DEF vars, OneLinePerRequest, Done, StatusIsWritten, SwitchedOnWire, Committed
  <2>2. (Good(s) => Good(s)') /\ (Unwound(s) => Unwound(s)') /\ (Sound(s) => Sound(s)')
    BY <1>12 DEF vars, Good, Whole, Unwound, Sound
  <2>3. Position'
    BY <1>12 DEF vars, StackInv, Position
  <2>4. Ended => Ended'
    BY <1>12, <2>1, <2>2 DEF vars, Ended
  <2> QED BY <1>12, <2>2, <2>3, <2>4 DEF vars, StackInv
<1> QED
  BY <1>1, <1>2, <1>3, <1>4, <1>5, <1>6, <1>7, <1>8, <1>9, <1>10, <1>11, <1>12
  DEF Next, Finished

THEOREM StackInvariant == Spec => []StackInv
<1> QED BY InitStackInv, NextStackInv, PTL DEF Spec

-----------------------------------------------------------------------------
(* What the stack promises.                                                *)

LEMMA InvHasBooks ==
  ASSUME StackInv
  PROVE  s \in Stack /\ s.gz \in Gz /\ Books(s.gz) /\ (phase # "handler" => ~s.gz.zw)
BY StackFields DEF StackInv, Position, Good, Whole, Unwound, Ended

(* The state stays within its types, whatever is called, and what is held  *)
(* back stays under the threshold (gzipWriter, src/gzip.go).               *)
THEOREM StackTypes == Spec => []TypeOK
<1>1. StackInv => TypeOK
  <2> SUFFICES ASSUME StackInv PROVE TypeOK
    OBVIOUS
  <2>1. /\ s \in Stack /\ Books(s.gz) /\ s.gz \in Gz /\ s.hdr \in Headers /\ s.net \in Net
        /\ s.rec \in Rec
    BY InvHasBooks, StackFields
  <2>2. /\ s.gz.state \in GzipStates /\ s.gz.held \in Headers
        /\ s.gz.buf \in Seq(1..(MaxOps * MaxWrite))
    BY <2>1, GzFields DEF HandlerIds
  <2>3. s.net.hdr \in Headers /\ RecorderTypeOK(s.rec)
    BY <2>1 DEF Net, Rec, RecorderTypeOK
  <2>4. Position
    BY DEF StackInv
  <2>5. next \in 1..(MaxOps * MaxWrite + 1)
    BY <2>4, PositionParts DEF Position
  <2> QED BY <2>1, <2>2, <2>3, <2>4, <2>5 DEF TypeOK, Position, Books
<1> QED BY <1>1, StackInvariant, PTL

(* A compressor taken from the pool goes back to it once, by the time the  *)
(* handler has returned or panicked, whatever state the response was in    *)
(* (release, src/gzip.go:269).                                             *)
THEOREM CompressorGoesBack == Spec => []CompressorReturned
<1>1. StackInv => CompressorReturned
  <2> SUFFICES ASSUME StackInv PROVE CompressorReturned
    OBVIOUS
  <2>1. s.gz.gets \in Nat /\ s.gz.puts \in Nat /\ Books(s.gz) /\ (phase # "handler" => ~s.gz.zw)
    BY InvHasBooks, GzFields
  <2>2. CASE s.gz.zw
    BY <2>1, <2>2 DEF Books, CompressorReturned
  <2>3. CASE ~s.gz.zw
    BY <2>1, <2>3 DEF Books, CompressorReturned
  <2> QED BY <2>2, <2>3
<1> QED BY <1>1, StackInvariant, PTL

(* Every request leaves its one line, with the status that was written,    *)
(* whatever the hooks do (emitAccessLog, src/reqlog.go).                   *)
THEOREM OneLineEach == Spec => []OneLinePerRequest
<1>1. StackInv => OneLinePerRequest
  <2> SUFFICES ASSUME StackInv, Done PROVE OneLinePerRequest
    BY DEF OneLinePerRequest
  <2> QED BY DEF StackInv, Ended, Done
<1> QED BY <1>1, StackInvariant, PTL

(* A panic mixes no 500 with the handler's response and ends no compressed *)
(* stream (abort, src/gzip.go:437; recoverPanic, src/middleware.go).       *)
THEOREM PanicIsClean == Spec => []PanicNeverCorrupts
<1>1. StackInv => PanicNeverCorrupts
  BY DEF StackInv, Ended, Done, Sound, PanicNeverCorrupts, Compressed
<1> QED BY <1>1, StackInvariant, PTL

(* A panic that finds nothing of the response on the wire is answered 500, *)
(* held back or not, whatever the responder does (recoverPanic).           *)
THEOREM PanicIsAnswered == Spec => PanicAnswersFinal500
<1> DEFINE Uncommitted == /\ phase = "panicked" /\ panicked = "panic" /\ ~Committed(s)
                          /\ ~s.net.hijacked /\ s.net.infos = <<>>
<1>1. StackInv /\ [Next]_vars => [Uncommitted => s'.net.status = 500]_vars
  <2> SUFFICES ASSUME StackInv, Next, Uncommitted PROVE s'.net.status = 500
    OBVIOUS
  <2>1. Recovered
    BY DEF Next, SetEntityHeaders, SetOwnEncoding, SetOtherHeader, SetTrailers, HandlerHeader,
           ConnectionFails, HandlerWriteHeader, HandlerWrite, HandlerReadFrom, HandlerFlush,
           HandlerHijack, CompressorEmits, Call, HandlerReturns, HandlerPanics, AbortPassesOn,
           Finished
  <2>2. PICK kind \in Kinds, h \in Hooks : Log(NetReturn(Recover(s, kind)), h)
    BY <2>1 DEF Recovered, Kinds
  <2>3. /\ s \in Stack /\ Recorded(s) /\ s.net \in Net /\ s.rec \in Rec /\ s.gz \in Gz
        /\ Agrees(s.net, s.rec)
    BY GoodParts DEF StackInv
  <2>4. ~s.rec.wrote
    BY <2>3 DEF Agrees, Committed
  <2> DEFINE t == Recover(s, kind)
  <2>5. t \in Stack /\ t.net.status = 500
    <3>1. Written500(t, s)
      BY <2>3, <2>4, RecoverForm
    <3> HIDE DEF t
    <3>2. PICK g \in Headers, m \in Net, r \in Rec : t = With(s, g, m, r) /\ Answer500(m, s.net)
      BY <3>1 DEF Written500
    <3> QED BY <2>3, <3>2, WithIsPut, PutFields DEF Answer500
  <2> HIDE DEF t
  <2>6. t.hdr \in Headers /\ t.net \in Net /\ Recorded(t) /\ t.rec \in Rec
    BY <2>5, StackFields
  <2> DEFINE n == Returned(t.net, t.hdr)
  <2>7. n \in Net /\ n.status = 500
    <3>1. Headed(t.net, t.hdr, OK200) = t.net
      BY <2>5, <2>6, OkIsNat, Code500, HeadedTwice DEF Quiet
    <3>2. n \in Net /\ n.status = Headed(t.net, t.hdr, OK200).status
      BY <2>6, ReturnedKeeps
    <3> HIDE DEF n
    <3> QED BY <2>5, <3>1, <3>2
  <2>8. NetReturn(t) = With(t, t.hdr, n, t.rec)
    BY <2>6, NetEndForms
  <2> HIDE DEF n
  <2>9. NetReturn(t).net = n
    BY <2>6, <2>7, <2>8, WithFields
  <2>10. s' = NetReturn(t)
    <3>1. CASE cfg.logged /\ ~(cfg.skipUpgrades /\ SwitchedProtocol(NetReturn(t).rec))
      BY <2>2, <3>1, LogLeaves DEF t
    <3>2. CASE ~(cfg.logged /\ ~(cfg.skipUpgrades /\ SwitchedProtocol(NetReturn(t).rec)))
      BY <2>2, <3>2 DEF t, Log, EmitAccessLog, NoRecord
    <3> QED BY <3>1, <3>2
  <2> QED BY <2>7, <2>9, <2>10
<1> QED BY <1>1, StackInvariant, PTL DEF Spec, PanicAnswersFinal500

-----------------------------------------------------------------------------
(***************************************************************************)
(* The stack beside the bare writer: what the client gets through the      *)
(* stack is what a bare writer would have sent it.  The two responses are  *)
(* followed by a relation with one case for each state of gzipWriter.      *)
(***************************************************************************)

(* Bodies as the client reads them: the ids, and how they were sent.       *)
LEMMA IdsType ==
  ASSUME NEW b \in Seq(Byte)
  PROVE  /\ Ids(b) \in Seq(Nat)
         /\ Len(Ids(b)) = Len(b)
         /\ \A i \in 1..Len(b) : Ids(b)[i] = b[i].id
<1>1. DOMAIN b = 1..Len(b) /\ Len(b) \in Nat /\ \A i \in 1..Len(b) : b[i] \in Byte
  OBVIOUS
<1>2. Ids(b) = [i \in 1..Len(b) |-> b[i].id]
  BY <1>1 DEF Ids
<1>3. Ids(b) \in [1..Len(b) -> Nat]
  BY <1>1, <1>2 DEF Byte
<1>4. Ids(b) \in Seq(Nat)
  BY <1>1, <1>3
<1>5. Len(Ids(b)) = Len(b)
  BY <1>1, <1>3, <1>4, LenProperties
<1> QED BY <1>2, <1>4, <1>5

LEMMA IdsConcat ==
  ASSUME NEW a \in Seq(Byte), NEW b \in Seq(Byte)
  PROVE  Ids(a \o b) = Ids(a) \o Ids(b)
<1>1. a \o b \in Seq(Byte) /\ Len(a \o b) = Len(a) + Len(b)
  BY ConcatProperties
<1>2. /\ Ids(a) \in Seq(Nat) /\ Len(Ids(a)) = Len(a)
      /\ \A i \in 1..Len(a) : Ids(a)[i] = a[i].id
  BY IdsType
<1>3. /\ Ids(b) \in Seq(Nat) /\ Len(Ids(b)) = Len(b)
      /\ \A i \in 1..Len(b) : Ids(b)[i] = b[i].id
  BY IdsType
<1>4. /\ Ids(a \o b) \in Seq(Nat) /\ Len(Ids(a \o b)) = Len(a) + Len(b)
      /\ \A i \in 1..(Len(a) + Len(b)) : Ids(a \o b)[i] = (a \o b)[i].id
  BY <1>1, IdsType
<1>5. /\ Ids(a) \o Ids(b) \in Seq(Nat)
      /\ Len(Ids(a) \o Ids(b)) = Len(a) + Len(b)
      /\ \A i \in 1..(Len(a) + Len(b)) :
           (Ids(a) \o Ids(b))[i] = IF i <= Len(a) THEN Ids(a)[i] ELSE Ids(b)[i - Len(a)]
  BY <1>2, <1>3, ConcatProperties
<1>6. \A i \in 1..(Len(a) + Len(b)) : (a \o b)[i] = IF i <= Len(a) THEN a[i] ELSE b[i - Len(a)]
  BY ConcatProperties
<1>7. \A i \in 1..(Len(a) + Len(b)) : Ids(a \o b)[i] = (Ids(a) \o Ids(b))[i]
  <2> TAKE i \in 1..(Len(a) + Len(b))
  <2>1. CASE i <= Len(a)
    <3>1. i \in 1..Len(a)
      BY <2>1
    <3> QED BY <1>2, <1>4, <1>5, <1>6, <2>1, <3>1
  <2>2. CASE ~(i <= Len(a))
    <3>1. i - Len(a) \in 1..Len(b)
      BY <2>2
    <3> QED BY <1>3, <1>4, <1>5, <1>6, <2>2, <3>1
  <2> QED BY <2>1, <2>2
<1> QED BY <1>4, <1>5, <1>7, SeqEqual

LEMMA EncodeParts ==
  ASSUME NEW x \in Seq(HandlerIds), NEW z
  PROVE  \A i \in 1..Len(x) : Encode(x, z)[i].id = x[i]
BY DEF Encode

LEMMA IdsEncode ==
  ASSUME NEW x \in Seq(HandlerIds), NEW z \in BOOLEAN
  PROVE  Ids(Encode(x, z)) = x
<1> DEFINE e == Encode(x, z)
<1>1. e \in Seq(Byte) /\ Len(e) = Len(x)
  BY EncodeType
<1>2. \A i \in 1..Len(x) : e[i].id = x[i]
  BY EncodeParts
<1> HIDE DEF e
<1>3. /\ Ids(e) \in Seq(Nat) /\ Len(Ids(e)) = Len(x)
      /\ \A i \in 1..Len(x) : Ids(e)[i] = x[i]
  BY <1>1, <1>2, IdsType
<1>4. x \in Seq(Nat)
  <2>1. HandlerIds \subseteq Nat
    BY DEF HandlerIds
  <2> QED BY <2>1, SeqMonotonic
<1>5. Ids(e) = x
  BY <1>3, <1>4, SeqEqual
<1> QED BY <1>5 DEF e

LEMMA IdsEmpty == Ids(<<>>) = <<>> /\ Zs(<<>>) = {}
BY DEF Ids, Zs

LEMMA ZsConcat ==
  ASSUME NEW a \in Seq(Byte), NEW b \in Seq(Byte), NEW Z, Zs(a) \subseteq Z, Zs(b) \subseteq Z
  PROVE  Zs(a \o b) \subseteq Z
<1>1. /\ a \o b \in Seq(Byte) /\ Len(a \o b) = Len(a) + Len(b)
      /\ \A i \in 1..(Len(a) + Len(b)) : (a \o b)[i] = IF i <= Len(a) THEN a[i] ELSE b[i - Len(a)]
  BY ConcatProperties
<1>2. \A i \in 1..(Len(a) + Len(b)) : (a \o b)[i].z \in Z
  <2> TAKE i \in 1..(Len(a) + Len(b))
  <2>1. CASE i <= Len(a)
    <3>1. i \in DOMAIN a /\ (a \o b)[i] = a[i]
      BY <1>1, <2>1
    <3> QED BY <3>1 DEF Zs
  <2>2. CASE ~(i <= Len(a))
    <3>1. i - Len(a) \in DOMAIN b /\ (a \o b)[i] = b[i - Len(a)]
      BY <1>1, <2>2
    <3> QED BY <3>1 DEF Zs
  <2> QED BY <2>1, <2>2
<1>3. DOMAIN (a \o b) = 1..(Len(a) + Len(b))
  BY <1>1
<1> QED BY <1>2, <1>3 DEF Zs

LEMMA ZsEncode ==
  ASSUME NEW x, NEW z
  PROVE  Zs(Encode(x, z)) \subseteq {z}
BY DEF Zs, Encode

-----------------------------------------------------------------------------
(* The two responses side by side: n is what the stack has sent and H the  *)
(* header its handler sees, m and h the same of the bare writer.           *)

(* Headers that differ in Vary alone, and those of a compressed response;  *)
(* a handler names neither gzip nor Vary itself.                           *)
Alike(a, b) ==
  /\ a.ct = b.ct /\ a.ce = b.ce /\ a.cl = b.cl /\ a.etag = b.etag /\ a.late = b.late
  /\ a.declared = b.declared /\ a.sum = b.sum
Marked(a, b) ==
  /\ a.ct = b.ct /\ a.ce = "gzip" /\ a.cl = FALSE /\ a.vary = TRUE /\ a.late = b.late
  /\ a.etag = (IF b.etag = "strong" THEN "weak" ELSE b.etag)
  /\ a.declared = b.declared /\ a.sum = b.sum
Bare(h) == h.ce # "gzip" /\ h.vary = FALSE

(* The stack is behind the bare writer, and as long as the connection      *)
(* works by no more than w.                                                *)
Trails(n, m, w) ==
  /\ \E q \in Seq(Nat) : Ids(m.body) = Ids(n.body) \o q
  /\ ~m.broken => Ids(m.body) = Ids(n.body) \o w

Common(H, n, h, m) ==
  /\ h \in Headers /\ m \in Net
  /\ Bare(h) /\ Bare(m.hdr)
  /\ m.infos = n.infos /\ m.trailers = n.trailers
  /\ m.broken = n.broken /\ m.hijacked = n.hijacked
  /\ H.prefixed = h.prefixed

(* Nothing is decided yet, or there is no Gzip to decide.                  *)
Undecided(H, n, g, h, m, zip) ==
  /\ n = m /\ H = h
  /\ Zs(n.body) \subseteq {FALSE}
  /\ zip => ~Quiet(m) /\ g.buf = <<>> /\ g.zbuf = <<>>

(* The status waits, and the bytes with it.                                *)
Buffered(H, n, g, h, m) ==
  /\ ~Quiet(n) /\ Quiet(m) /\ m.status = g.status /\ BodyAllowed(m.status)
  /\ n.body = <<>> /\ g.zbuf = <<>> /\ g.accepts
  /\ Alike(g.held, m.hdr) /\ g.held.vary = TRUE /\ m.hdr.prefixed = 0
  /\ H.sum = h.sum /\ g.held.sum <= h.sum
  /\ Trails(n, m, g.buf)

Sent(H, n, h, m) ==
  /\ ~n.hijacked /\ m.status # NoStatus /\ n.status = m.status
  /\ n.hdr.prefixed = 0 /\ m.hdr.prefixed = 0
  /\ m.hdr.declared => H.sum = h.sum

SentPlain(H, n, h, m) ==
  /\ Sent(H, n, h, m)
  /\ Alike(n.hdr, m.hdr)
  /\ Zs(n.body) \subseteq {FALSE}
  /\ Trails(n, m, <<>>)

SentMarked(H, n, g, h, m) ==
  /\ Sent(H, n, h, m)
  /\ Marked(n.hdr, m.hdr)
  /\ Zs(n.body) \subseteq {TRUE}
  /\ g.accepts /\ BodyAllowed(m.status)
  /\ Trails(n, m, g.zbuf)
Long(m) == ~m.broken => Len(m.body) >= MinBytes

(* The connection is the handler's.                                        *)
Cut(n, m) ==
  /\ n.hijacked
  /\ n.status # NoStatus => n.status = m.status
  /\ \E z \in BOOLEAN : Zs(n.body) \subseteq {z}
  /\ \E q \in Seq(Nat) : Ids(m.body) = Ids(n.body) \o q

Mirrors(H, n, g, h, m, zip) ==
  /\ Common(H, n, h, m)
  /\ \/ g.state = "pending" /\ Undecided(H, n, g, h, m, zip)
     \/ g.state = "buffering" /\ Buffered(H, n, g, h, m)
     \/ g.state = "identity" /\ SentPlain(H, n, h, m)
     \/ g.state = "compressed" /\ SentMarked(H, n, g, h, m) /\ Long(m)
     \/ g.state = "hijacked" /\ Cut(n, m)

-----------------------------------------------------------------------------
(* Bytes that go out, or are held back, under a header that was sent.      *)
LEMMA BodiedQuiet ==
  ASSUME NEW n \in Net, NEW h \in Headers, NEW bytes \in Seq(Byte), Quiet(n)
  PROVE  /\ Bodied(n, h, bytes) \in Net
         /\ Bodied(n, h, bytes).infos = n.infos
         /\ Bodied(n, h, bytes).status = n.status
         /\ Bodied(n, h, bytes).hdr = n.hdr
         /\ Bodied(n, h, bytes).zdone = n.zdone
         /\ Bodied(n, h, bytes).trailers = n.trailers
         /\ Bodied(n, h, bytes).broken = n.broken
         /\ Bodied(n, h, bytes).hijacked = n.hijacked
         /\ Bodied(n, h, bytes).body =
              IF n.hijacked \/ n.broken \/ ~BodyAllowed(n.status) THEN n.body ELSE n.body \o bytes
<1>1. Headed(n, h, OK200) = n
  BY OkIsNat, HeadedTwice
<1> QED BY <1>1, BodiedKeeps

LEMMA IdsBodied ==
  ASSUME NEW n \in Net, NEW h \in Headers, NEW x \in Seq(HandlerIds), NEW z \in BOOLEAN, Quiet(n)
  PROVE  /\ Ids(n.body) \in Seq(Nat) /\ Ids(Bodied(n, h, Encode(x, z)).body) \in Seq(Nat)
         /\ x \in Seq(Nat)
         /\ n.hijacked \/ n.broken \/ ~BodyAllowed(n.status) =>
              Bodied(n, h, Encode(x, z)).body = n.body
         /\ ~n.hijacked /\ ~n.broken /\ BodyAllowed(n.status) =>
              Ids(Bodied(n, h, Encode(x, z)).body) = Ids(n.body) \o x
<1> DEFINE e == Encode(x, z)
           b == Bodied(n, h, e)
<1>1. e \in Seq(Byte) /\ Ids(e) = x
  BY EncodeType, IdsEncode
<1> HIDE DEF e
<1>2. /\ b \in Net
      /\ b.body = IF n.hijacked \/ n.broken \/ ~BodyAllowed(n.status) THEN n.body ELSE n.body \o e
  BY <1>1, BodiedQuiet
<1> HIDE DEF b
<1>3. n.body \in Seq(Byte) /\ b.body \in Seq(Byte)
  BY <1>2 DEF Net
<1>4. Ids(n.body) \in Seq(Nat) /\ Ids(b.body) \in Seq(Nat)
  BY <1>3, IdsType
<1>5. Ids(n.body \o e) = Ids(n.body) \o x
  BY <1>1, <1>3, IdsConcat
<1>6. x \in Seq(Nat)
  <2>1. HandlerIds \subseteq Nat
    BY DEF HandlerIds
  <2> QED BY <2>1, SeqMonotonic
<1> QED BY <1>2, <1>4, <1>5, <1>6 DEF b, e

LEMMA ZsBodied ==
  ASSUME NEW n \in Net, NEW h \in Headers, NEW x \in Seq(HandlerIds), NEW z \in BOOLEAN, Quiet(n),
         NEW Z, Zs(n.body) \subseteq Z, z \in Z
  PROVE  Zs(Bodied(n, h, Encode(x, z)).body) \subseteq Z
<1> DEFINE e == Encode(x, z)
           b == Bodied(n, h, e)
<1>1. e \in Seq(Byte) /\ Zs(e) \subseteq Z
  BY EncodeType, ZsEncode
<1> HIDE DEF e
<1>2. b.body = IF n.hijacked \/ n.broken \/ ~BodyAllowed(n.status) THEN n.body ELSE n.body \o e
  BY <1>1, BodiedQuiet
<1>3. n.body \in Seq(Byte)
  BY DEF Net
<1>4. Zs(n.body \o e) \subseteq Z
  BY <1>1, <1>3, ZsConcat
<1> HIDE DEF b
<1>5. Zs(b.body) \subseteq Z
  BY <1>2, <1>4
<1> QED BY <1>5 DEF b, e

(* What both writers send leaves the stack no further behind, what it holds*)
(* back by as much, and what it sends of that no more.                     *)
LEMMA TrailsBoth ==
  ASSUME NEW n \in Net, NEW m \in Net, NEW H \in Headers, NEW h \in Headers,
         NEW x \in Seq(HandlerIds), Quiet(n), Quiet(m), n.status = m.status,
         m.hijacked = n.hijacked, m.broken = n.broken, Trails(n, m, <<>>)
  PROVE  Trails(Bodied(n, H, Encode(x, FALSE)), Bodied(m, h, Encode(x, FALSE)), <<>>)
<1> DEFINE a == Bodied(n, H, Encode(x, FALSE))
           b == Bodied(m, h, Encode(x, FALSE))
<1>1. /\ Ids(n.body) \in Seq(Nat) /\ Ids(a.body) \in Seq(Nat)
      /\ n.hijacked \/ n.broken \/ ~BodyAllowed(n.status) => a.body = n.body
      /\ ~n.hijacked /\ ~n.broken /\ BodyAllowed(n.status) => Ids(a.body) = Ids(n.body) \o x
  BY IdsBodied
<1>2. /\ Ids(m.body) \in Seq(Nat) /\ Ids(b.body) \in Seq(Nat)
      /\ m.hijacked \/ m.broken \/ ~BodyAllowed(m.status) => b.body = m.body
      /\ ~m.hijacked /\ ~m.broken /\ BodyAllowed(m.status) => Ids(b.body) = Ids(m.body) \o x
  BY IdsBodied
<1>3. b.broken = m.broken
  BY EncodeType, BodiedQuiet
<1> HIDE DEF a, b
<1>4. CASE n.hijacked \/ n.broken \/ ~BodyAllowed(n.status)
  <2>1. a.body = n.body /\ b.body = m.body
    BY <1>1, <1>2, <1>4
  <2> QED BY <1>3, <2>1 DEF Trails, a, b
<1>5. CASE ~n.hijacked /\ ~n.broken /\ BodyAllowed(n.status)
  <2>1. Ids(a.body) = Ids(n.body) \o x /\ Ids(b.body) = Ids(m.body) \o x
    BY <1>1, <1>2, <1>5
  <2>2. Ids(n.body) \o <<>> = Ids(n.body) /\ Ids(a.body) \o <<>> = Ids(a.body)
    BY <1>1, ConcatEmptySeq
  <2>3. Ids(m.body) = Ids(n.body)
    BY <1>5, <2>2 DEF Trails
  <2>4. Ids(b.body) = Ids(a.body) \o <<>>
    BY <2>1, <2>2, <2>3
  <2>5. <<>> \in Seq(Nat)
    OBVIOUS
  <2> QED BY <2>4, <2>5 DEF Trails, a, b
<1> QED BY <1>4, <1>5

LEMMA InThreeParts ==
  ASSUME NEW x \in Seq(Nat), NEW y \in Seq(Nat), NEW z \in Seq(Nat)
  PROVE  x \o (y \o z) = (x \o y) \o z
BY SMTT(30)

LEMMA TrailsHeld ==
  ASSUME NEW n \in Net, NEW m \in Net, NEW h \in Headers, NEW x \in Seq(HandlerIds),
         NEW w \in Seq(HandlerIds), Quiet(m), ~m.hijacked, BodyAllowed(m.status), Trails(n, m, w)
  PROVE  Trails(n, Bodied(m, h, Encode(x, FALSE)), w \o x)
<1> DEFINE b == Bodied(m, h, Encode(x, FALSE))
<1>1. /\ Ids(m.body) \in Seq(Nat) /\ x \in Seq(Nat)
      /\ m.broken => b.body = m.body
      /\ ~m.broken => Ids(b.body) = Ids(m.body) \o x
  BY IdsBodied
<1>2. b.broken = m.broken
  BY EncodeType, BodiedQuiet
<1> HIDE DEF b
<1>3. CASE m.broken
  BY <1>1, <1>2, <1>3 DEF Trails, b
<1>4. CASE ~m.broken
  <2>1. n.body \in Seq(Byte)
    BY DEF Net
  <2>2. Ids(n.body) \in Seq(Nat) /\ w \in Seq(Nat)
    <3>1. HandlerIds \subseteq Nat
      BY DEF HandlerIds
    <3> QED BY <2>1, <3>1, IdsType, SeqMonotonic
  <2>3. Ids(n.body) \o (w \o x) = (Ids(n.body) \o w) \o x
    BY <1>1, <2>2, InThreeParts
  <2>4. Ids(b.body) = Ids(n.body) \o (w \o x)
    BY <1>1, <1>4, <2>3 DEF Trails
  <2>5. w \o x \in Seq(Nat)
    BY <1>1, <2>2, ConcatProperties
  <2> QED BY <2>4, <2>5 DEF Trails, b
<1> QED BY <1>3, <1>4

LEMMA TrailsSent ==
  ASSUME NEW n \in Net, NEW m \in Net, NEW h \in Headers, NEW w \in Seq(HandlerIds),
         NEW z \in BOOLEAN, Quiet(n), ~n.hijacked, BodyAllowed(n.status), m.broken = n.broken,
         Trails(n, m, w)
  PROVE  Trails(Bodied(n, h, Encode(w, z)), m, <<>>)
<1> DEFINE a == Bodied(n, h, Encode(w, z))
<1>1. /\ Ids(n.body) \in Seq(Nat) /\ Ids(a.body) \in Seq(Nat)
      /\ n.broken => a.body = n.body
      /\ ~n.broken => Ids(a.body) = Ids(n.body) \o w
  BY IdsBodied
<1> HIDE DEF a
<1>2. CASE m.broken
  BY <1>1, <1>2 DEF Trails, a
<1>3. CASE ~m.broken
  <2>1. Ids(a.body) = Ids(m.body)
    BY <1>1, <1>3 DEF Trails
  <2>2. Ids(m.body) = Ids(a.body) \o <<>>
    BY <1>1, <2>1, ConcatEmptySeq
  <2>3. <<>> \in Seq(Nat)
    OBVIOUS
  <2> QED BY <2>2, <2>3 DEF Trails, a
<1> QED BY <1>2, <1>3

-----------------------------------------------------------------------------
(* The handler's headers, set on both sides.                               *)
Steps(H, H2, h, h2) ==
  /\ H2 \in Headers /\ h2 \in Headers
  /\ H = h => H2 = h2
  /\ Bare(h) => Bare(h2)
  /\ H.prefixed = h.prefixed => H2.prefixed = h2.prefixed
  /\ H.sum = h.sum => H2.sum = h2.sum
  /\ h.sum <= h2.sum

LEMMA SettersStep ==
  ASSUME NEW H \in Headers, NEW h \in Headers
  PROVE  /\ Steps(H, WithEntity(H), h, WithEntity(h))
         /\ Steps(H, WithOwnEncoding(H), h, WithOwnEncoding(h))
         /\ Steps(H, WithOther(H), h, WithOther(h))
         /\ Steps(H, DeclareTrailer(H), h, DeclareTrailer(h))
         /\ Steps(H, WithTrailer(H), h, WithTrailer(h))
         /\ Steps(H, WithPrefixed(H), h, WithPrefixed(h))
<1>1. Steps(H, WithEntity(H), h, WithEntity(h))
  <2>1. \A k \in Headers : /\ WithEntity(k).ce = k.ce /\ WithEntity(k).vary = k.vary
                            /\ WithEntity(k).prefixed = k.prefixed /\ WithEntity(k).sum = k.sum
    BY DEF Headers, WithEntity
  <2>2. h.sum <= h.sum
    BY DEF Headers
  <2> QED BY <2>1, <2>2, HeaderSetters DEF Steps, Bare
<1>2. Steps(H, WithOwnEncoding(H), h, WithOwnEncoding(h))
  BY HeaderSetters DEF Steps, Bare, Headers, WithOwnEncoding
<1>3. Steps(H, WithOther(H), h, WithOther(h))
  BY HeaderSetters DEF Steps, Bare, Headers, WithOther
<1>4. Steps(H, DeclareTrailer(H), h, DeclareTrailer(h))
  BY HeaderSetters DEF Steps, Bare, Headers, DeclareTrailer
<1>5. Steps(H, WithTrailer(H), h, WithTrailer(h))
  BY HeaderSetters DEF Steps, Bare, Headers, WithTrailer
<1>6. Steps(H, WithPrefixed(H), h, WithPrefixed(h))
  BY HeaderSetters DEF Steps, Bare, Headers, WithPrefixed
<1> QED BY <1>1, <1>2, <1>3, <1>4, <1>5, <1>6

LEMMA SetterMirrors ==
  ASSUME NEW H \in Headers, NEW h \in Headers, NEW H2, NEW h2, Steps(H, H2, h, h2),
         NEW n \in Net, NEW m \in Net, NEW g \in Gz, NEW zip, Mirrors(H, n, g, h, m, zip)
  PROVE  Mirrors(H2, n, g, h2, m, zip)
<1>1. Common(H2, n, h2, m)
  BY DEF Mirrors, Common, Steps
<1>2. Undecided(H, n, g, h, m, zip) => Undecided(H2, n, g, h2, m, zip)
  BY DEF Undecided, Steps
<1>3. Sent(H, n, h, m) => Sent(H2, n, h2, m)
  BY DEF Sent, Steps
<1>4. Buffered(H, n, g, h, m) => Buffered(H2, n, g, h2, m)
  <2>1. g.held \in Headers
    BY GzFields
  <2>2. g.held.sum <= h.sum => g.held.sum <= h2.sum
    BY <2>1 DEF Steps, Headers
  <2> QED BY <2>2 DEF Buffered, Steps
<1> QED BY <1>1, <1>2, <1>3, <1>4 DEF Mirrors, SentPlain, SentMarked

-----------------------------------------------------------------------------
(* A status, under both writers.                                           *)
LEMMA HeadedBare ==
  ASSUME NEW n \in Net, NEW h \in Headers, NEW code \in Nat, Bare(h), Bare(n.hdr)
  PROVE  Bare(Headed(n, h, code).hdr)
BY DEF Headed, Net, Bare, Headers

LEMMA HeadedHeader ==
  ASSUME NEW n \in Net, NEW h \in Headers, NEW code \in Nat, ~Quiet(n), ~Informational(code)
  PROVE  /\ Alike(Headed(n, h, code).hdr, h)
         /\ Headed(n, h, code).hdr.vary = h.vary
         /\ Headed(n, h, code).hdr.prefixed = 0
BY DEF Headed, Net, Headers, Alike

LEMMA HeadedCommon ==
  ASSUME NEW H \in Headers, NEW n \in Net, NEW h \in Headers, NEW m \in Net,
         NEW code \in Nat, NEW G, G.prefixed = H.prefixed, Quiet(n) <=> Quiet(m), Common(H, n, h, m)
  PROVE  Common(G, Headed(n, H, code), h, Headed(m, h, code))
<1> DEFINE a == Headed(n, H, code)
           b == Headed(m, h, code)
<1>1. /\ a.trailers = n.trailers /\ a.broken = n.broken /\ a.hijacked = n.hijacked
      /\ b.trailers = m.trailers /\ b.broken = m.broken /\ b.hijacked = m.hijacked
      /\ b \in Net
  BY HeadedKeeps
<1>2. Bare(b.hdr)
  BY HeadedBare DEF Common
<1>3. a.infos = b.infos
  <2>0. n.infos = m.infos
    BY DEF Common
  <2>1. CASE Quiet(n)
    BY <2>0, <2>1, HeadedTwice
  <2>2. CASE ~Quiet(n) /\ Informational(code)
    BY <2>0, <2>2, HeadedInforms
  <2>3. CASE ~Quiet(n) /\ ~Informational(code)
    BY <2>0, <2>3, HeadedSends
  <2> QED BY <2>1, <2>2, <2>3
<1> HIDE DEF a, b
<1>4. Common(G, a, h, b)
  BY <1>1, <1>2, <1>3 DEF Common
<1> QED BY <1>4 DEF a, b

LEMMA VariedFields ==
  ASSUME NEW H \in Headers, NEW code \in Nat
  PROVE  /\ Varied(H, code) \in Headers
         /\ Alike(Varied(H, code), H)
         /\ Varied(H, code).prefixed = H.prefixed
         /\ Candidate(code, H) => Varied(H, code).vary = TRUE
<1>1. Candidate(code, H) \in BOOLEAN
  BY DEF Candidate
<1>2. (H.vary \/ Candidate(code, H)) \in BOOLEAN
  OBVIOUS
<1>3. Varied(H, code) \in Headers
  BY <1>2 DEF Varied, Headers
<1>4. Alike(Varied(H, code), H) /\ Varied(H, code).prefixed = H.prefixed
  BY DEF Varied, Headers, Alike
<1>5. Candidate(code, H) => Varied(H, code).vary = TRUE
  <2>1. Varied(H, code).vary = (H.vary \/ Candidate(code, H))
    BY DEF Varied, Headers
  <2> QED BY <1>1, <2>1
<1> QED BY <1>3, <1>4, <1>5

LEMMA AlikeTrans ==
  ASSUME NEW a, NEW b, NEW c, Alike(a, b)
  PROVE  /\ Alike(b, c) => Alike(a, c)
         /\ Alike(b, a)
BY DEF Alike

(* Nothing is decided: an informational status leaves it so, and so does   *)
(* any status where there is no Gzip.                                      *)
LEMMA UndecidedStays ==
  ASSUME NEW H \in Headers, NEW n \in Net, NEW g \in Gz, NEW h \in Headers, NEW m \in Net,
         NEW zip \in BOOLEAN, NEW code \in Nat, Mirrors(H, n, g, h, m, zip), g.state = "pending",
         zip => Informational(code)
  PROVE  Mirrors(H, Headed(n, H, code), g, h, Headed(m, h, code), zip)
<1>1. Common(H, n, h, m) /\ Undecided(H, n, g, h, m, zip)
  BY DEF Mirrors
<1>2. Common(H, Headed(n, H, code), h, Headed(m, h, code))
  BY <1>1, HeadedCommon DEF Undecided
<1>3. Headed(n, H, code) = Headed(m, h, code) /\ Headed(n, H, code).body = n.body
  BY <1>1, HeadedKeeps DEF Undecided
<1>4. zip => ~Quiet(Headed(m, h, code))
  <2> SUFFICES ASSUME zip PROVE ~Quiet(Headed(m, h, code))
    OBVIOUS
  <2>1. ~Quiet(m)
    BY <1>1 DEF Undecided
  <2>2. Headed(m, h, code).status = NoStatus
    BY <2>1, HeadedInforms
  <2>3. Headed(m, h, code).hijacked = m.hijacked
    BY HeadedKeeps
  <2> QED BY <2>1, <2>2, <2>3 DEF Quiet
<1>5. Undecided(H, Headed(n, H, code), g, h, Headed(m, h, code), zip)
  BY <1>1, <1>3, <1>4 DEF Undecided
<1> QED BY <1>2, <1>5 DEF Mirrors

(* The response goes out as it is.                                         *)
LEMMA DecidedPlain ==
  ASSUME NEW H \in Headers, NEW n \in Net, NEW g \in Gz, NEW h \in Headers, NEW m \in Net,
         NEW code \in Nat \ {0}, Mirrors(H, n, g, h, m, TRUE), g.state = "pending", ~Informational(code),
         NEW f, f.state = "identity"
  PROVE  Mirrors(Varied(H, code), Headed(n, Varied(H, code), code), f, h, Headed(m, h, code), TRUE)
<1> DEFINE G == Varied(H, code)
           a == Headed(n, G, code)
           b == Headed(m, h, code)
<1>1. Common(H, n, h, m) /\ Undecided(H, n, g, h, m, TRUE)
  BY DEF Mirrors
<1>2. n = m /\ H = h /\ ~Quiet(n) /\ Zs(n.body) \subseteq {FALSE} /\ Bare(h)
  BY <1>1 DEF Undecided, Common
<1>3. G \in Headers /\ Alike(G, H) /\ G.prefixed = H.prefixed
  BY VariedFields
<1> HIDE DEF G
<1>4. Common(G, n, h, m)
  BY <1>1, <1>3 DEF Common
<1>5. Common(G, a, h, b)
  BY <1>2, <1>3, <1>4, HeadedCommon
<1>6. /\ a.status = code /\ b.status = code /\ a.body = n.body /\ b.body = n.body
      /\ a.hijacked = n.hijacked /\ b.hijacked = n.hijacked
  BY <1>2, <1>3, HeadedSends, HeadedKeeps
<1>7. Alike(a.hdr, G) /\ Alike(b.hdr, h) /\ a.hdr.prefixed = 0 /\ b.hdr.prefixed = 0
  BY <1>2, <1>3, HeadedHeader
<1>8. Ids(n.body) = Ids(n.body) \o <<>> /\ <<>> \in Seq(Nat)
  <2>1. n.body \in Seq(Byte)
    BY DEF Net
  <2>2. Ids(n.body) \in Seq(Nat) /\ <<>> \in Seq(Nat)
    BY <2>1, IdsType
  <2> QED BY <2>2, ConcatEmptySeq
<1> HIDE DEF a, b
<1>9. Trails(a, b, <<>>)
  <2>1. a.body = n.body /\ b.body = n.body
    BY <1>2, <1>6
  <2> QED BY <1>8, <2>1 DEF Trails
<1>10. Alike(a.hdr, b.hdr)
  BY <1>2, <1>3, <1>7 DEF Alike
<1>11. G.sum = h.sum
  BY <1>2, <1>3 DEF Alike
<1>12. SentPlain(G, a, h, b)
  BY <1>2, <1>6, <1>7, <1>9, <1>10, <1>11 DEF SentPlain, Sent, Quiet, NoStatus
<1> QED BY <1>5, <1>12 DEF Mirrors, G, a, b

(* The response waits.                                                     *)
LEMMA DecidedHeld ==
  ASSUME NEW H \in Headers, NEW n \in Net, NEW g \in Gz, NEW h \in Headers, NEW m \in Net,
         NEW code \in Nat, Mirrors(H, n, g, h, m, TRUE), g.state = "pending", ~Informational(code),
         n.body = <<>>, Candidate(code, H), CompressesStatus(code), g.accepts,
         NEW f, f.state = "buffering", f.status = code, f.held = Varied(H, code),
         f.buf = g.buf, f.zbuf = g.zbuf, f.accepts = g.accepts
  PROVE  Mirrors(Varied(H, code), n, f, h, Headed(m, h, code), TRUE)
<1> DEFINE G == Varied(H, code)
           b == Headed(m, h, code)
<1>1. Common(H, n, h, m) /\ Undecided(H, n, g, h, m, TRUE)
  BY DEF Mirrors
<1>2. n = m /\ H = h /\ ~Quiet(n) /\ Bare(h) /\ g.buf = <<>> /\ g.zbuf = <<>>
  BY <1>1 DEF Undecided, Common
<1>3. G \in Headers /\ Alike(G, H) /\ G.prefixed = H.prefixed /\ G.vary = TRUE
  BY VariedFields
<1> HIDE DEF G
<1>4. /\ b.status = code /\ b.infos = m.infos /\ b.body = <<>> /\ b.trailers = m.trailers
      /\ b.hijacked = m.hijacked /\ b.broken = m.broken /\ b \in Net
  BY <1>2, HeadedSends, HeadedKeeps
<1>5. Alike(b.hdr, h) /\ b.hdr.prefixed = 0 /\ Bare(b.hdr)
  BY <1>1, <1>2, HeadedHeader, HeadedBare DEF Common
<1> HIDE DEF b
<1>6. Common(G, n, h, b)
  BY <1>1, <1>3, <1>4, <1>5 DEF Common
<1>7. Trails(n, b, <<>>)
  <2>1. Ids(n.body) = <<>> /\ Ids(b.body) = <<>>
    BY <1>4, IdsEmpty
  <2>2. <<>> \in Seq(Nat) /\ <<>> \o <<>> = <<>>
    OBVIOUS
  <2> QED BY <2>1, <2>2 DEF Trails
<1>8. Alike(G, b.hdr) /\ G.sum = h.sum /\ G.sum <= h.sum
  <2>1. h.sum <= h.sum
    BY DEF Headers
  <2> QED BY <1>2, <1>3, <1>5, <2>1 DEF Alike
<1>9. code # NoStatus /\ BodyAllowed(code)
  BY DEF Candidate, CompressesStatus, NoStatus, BodyAllowed, Switching
<1>10. Buffered(G, n, f, h, b)
  BY <1>2, <1>3, <1>4, <1>5, <1>7, <1>8, <1>9 DEF Buffered, Quiet, G
<1> QED BY <1>6, <1>10 DEF Mirrors, G, b

-----------------------------------------------------------------------------
(* What was held back is sent, with the header of its status.              *)
LEMMA HeldSentFields ==
  ASSUME NEW t \in Stack
  PROVE  /\ Alike(SentHeader(t, FALSE), t.gz.held)
         /\ t.gz.held.vary = TRUE => Marked(SentHeader(t, TRUE), t.gz.held)
         /\ \A c \in BOOLEAN :
              /\ LeftHeader(t, c).prefixed = t.hdr.prefixed
              /\ LeftHeader(t, c).sum =
                   IF t.gz.held.declared /\ t.hdr.sum # 0 THEN t.hdr.sum ELSE t.gz.held.sum
<1>1. t.hdr \in Headers /\ t.gz.held \in Headers
  BY StackFields, GzFields
<1> DEFINE R == RestoreHeader(t)
<1>2. R \in Headers /\ Alike(R, t.gz.held) /\ R.prefixed = t.hdr.prefixed /\ R.vary = t.gz.held.vary
  BY <1>1 DEF RestoreHeader, Headers, Alike
<1>3. SentHeader(t, FALSE) = R /\ SentHeader(t, TRUE) = MarkCompressed(R)
  BY DEF SentHeader
<1> HIDE DEF R
<1>4. /\ MarkCompressed(R) \in Headers /\ MarkCompressed(R).prefixed = R.prefixed
      /\ MarkCompressed(R).sum = R.sum
      /\ R.vary = TRUE => Marked(MarkCompressed(R), R)
  BY <1>2 DEF MarkCompressed, Headers, Marked
<1>5. t.gz.held.vary = TRUE => Marked(SentHeader(t, TRUE), t.gz.held)
  BY <1>2, <1>3, <1>4 DEF Marked, Alike
<1>6. ASSUME NEW c \in BOOLEAN
      PROVE  /\ LeftHeader(t, c).prefixed = t.hdr.prefixed
             /\ LeftHeader(t, c).sum =
                  IF t.gz.held.declared /\ t.hdr.sum # 0 THEN t.hdr.sum ELSE t.gz.held.sum
  <2> DEFINE S == SentHeader(t, c)
  <2>1. S \in Headers /\ S.prefixed = t.hdr.prefixed /\ S.sum = t.gz.held.sum
    <3>1. CASE c = TRUE
      BY <1>2, <1>3, <1>4, <3>1 DEF Alike
    <3>2. CASE c = FALSE
      BY <1>2, <1>3, <3>2 DEF Alike
    <3> QED BY <3>1, <3>2
  <2> HIDE DEF S
  <2>2. LeftHeader(t, c) = IF t.gz.held.declared /\ t.hdr.sum # 0 THEN [S EXCEPT !.sum = t.hdr.sum] ELSE S
    BY DEF LeftHeader, S
  <2> QED BY <2>1, <2>2 DEF Headers
<1> QED BY <1>2, <1>3, <1>5, <1>6

LEMMA SuccessIsFinal ==
  ASSUME NEW code \in 200..599
  PROVE  code \in Nat /\ ~Informational(code)
BY DEF Informational

LEMMA HeldSent ==
  ASSUME NEW t \in Stack, NEW h, NEW m, Mirrors(t.hdr, t.net, t.gz, h, m, TRUE), Books(t.gz),
         t.gz.state = "buffering", NEW c \in BOOLEAN
  PROVE  /\ Headed(t.net, SentHeader(t, c), t.gz.status) \in Net
         /\ Common(LeftHeader(t, c), Headed(t.net, SentHeader(t, c), t.gz.status), h, m)
         /\ Sent(LeftHeader(t, c), Headed(t.net, SentHeader(t, c), t.gz.status), h, m)
         /\ Headed(t.net, SentHeader(t, c), t.gz.status).body = <<>>
         /\ Trails(Headed(t.net, SentHeader(t, c), t.gz.status), m, t.gz.buf)
         /\ c = FALSE => Alike(Headed(t.net, SentHeader(t, c), t.gz.status).hdr, m.hdr)
         /\ c = TRUE => Marked(Headed(t.net, SentHeader(t, c), t.gz.status).hdr, m.hdr)
<1> DEFINE n == t.net
           H == t.hdr
           g == t.gz
           S == SentHeader(t, c)
           L == LeftHeader(t, c)
           a == Headed(n, S, g.status)
<1>1. Common(H, n, h, m) /\ Buffered(H, n, g, h, m)
  BY DEF Mirrors
<1>2. n \in Net /\ H \in Headers /\ g \in Gz /\ g.held \in Headers /\ h \in Headers /\ m \in Net
  BY <1>1, StackFields, GzFields DEF Common
<1>3. ~Quiet(n) /\ Quiet(m) /\ n.body = <<>> /\ m.status = g.status /\ m.status # NoStatus /\ ~n.hijacked
  BY <1>1 DEF Buffered, Common, Quiet
<1>4. g.status \in Nat /\ ~Informational(g.status)
  <2>1. t.gz.status \in 200..599
    BY DEF Books
  <2> QED BY <2>1, SuccessIsFinal
<1>5. S \in Headers /\ L \in Headers
  BY HeldHeaders
<1>6. /\ L.prefixed = H.prefixed
      /\ L.sum = IF g.held.declared /\ H.sum # 0 THEN H.sum ELSE g.held.sum
      /\ c = FALSE => Alike(S, g.held)
      /\ c = TRUE => Marked(S, g.held)
  BY <1>1, HeldSentFields DEF Buffered
<1> HIDE DEF n, H, g, S, L
<1>7. /\ a \in Net /\ a.body = n.body /\ a.trailers = n.trailers /\ a.broken = n.broken
      /\ a.hijacked = n.hijacked /\ a.infos = n.infos /\ a.status = g.status
  <2>1. /\ a \in Net /\ a.body = n.body /\ a.trailers = n.trailers /\ a.broken = n.broken
        /\ a.hijacked = n.hijacked
    BY <1>2, <1>4, <1>5, HeadedKeeps
  <2>2. a.infos = n.infos /\ a.status = g.status
    BY <1>2, <1>3, <1>4, <1>5, HeadedSends
  <2> QED BY <2>1, <2>2
<1>8. Alike(a.hdr, S) /\ a.hdr.vary = S.vary /\ a.hdr.prefixed = 0
  BY <1>2, <1>3, <1>4, <1>5, HeadedHeader
<1> HIDE DEF a
<1>9. Common(L, a, h, m)
  BY <1>1, <1>6, <1>7 DEF Common
<1>10. m.hdr.declared => L.sum = h.sum
  <2>1. g.held.declared = m.hdr.declared /\ H.sum = h.sum /\ g.held.sum <= h.sum
    BY <1>1 DEF Buffered, Alike
  <2>2. h.sum \in 0..2 /\ g.held.sum \in 0..2
    BY <1>2 DEF Headers
  <2> QED BY <1>6, <2>1, <2>2
<1>11. Sent(L, a, h, m)
  BY <1>1, <1>3, <1>7, <1>8, <1>10 DEF Sent, Buffered
<1>12. Trails(a, m, g.buf)
  BY <1>1, <1>7 DEF Buffered, Trails
<1>13. (c = FALSE => Alike(a.hdr, m.hdr)) /\ (c = TRUE => Marked(a.hdr, m.hdr))
  <2>1. Alike(g.held, m.hdr)
    BY <1>1 DEF Buffered
  <2> QED BY <1>6, <1>8, <2>1 DEF Alike, Marked
<1> QED BY <1>3, <1>7, <1>9, <1>11, <1>12, <1>13 DEF n, g, a, S, L

LEMMA IdentityMirrors ==
  ASSUME NEW t \in Stack, NEW h, NEW m, Mirrors(t.hdr, t.net, t.gz, h, m, TRUE), Books(t.gz),
         t.gz.state = "buffering", NEW f, f.state = "identity"
  PROVE  /\ t.gz.buf = <<>> =>
              Mirrors(LeftHeader(t, FALSE), Headed(t.net, SentHeader(t, FALSE), t.gz.status),
                      f, h, m, TRUE)
         /\ Mirrors(LeftHeader(t, FALSE),
                    Bodied(Headed(t.net, SentHeader(t, FALSE), t.gz.status), LeftHeader(t, FALSE),
                           Encode(t.gz.buf, FALSE)),
                    f, h, m, TRUE)
<1> DEFINE a == Headed(t.net, SentHeader(t, FALSE), t.gz.status)
           L == LeftHeader(t, FALSE)
           b == Bodied(a, L, Encode(t.gz.buf, FALSE))
<1>1. /\ a \in Net /\ Common(L, a, h, m) /\ Sent(L, a, h, m) /\ a.body = <<>>
      /\ Trails(a, m, t.gz.buf) /\ Alike(a.hdr, m.hdr)
  BY HeldSent
<1>2. L \in Headers /\ t.gz.buf \in Seq(HandlerIds) /\ m \in Net
  BY <1>1, HeldHeaders, StackFields, GzFields DEF Common
<1>3. Quiet(a) /\ ~a.hijacked /\ BodyAllowed(a.status) /\ m.broken = a.broken
  BY <1>1 DEF Sent, Common, Quiet, Mirrors, Buffered
<1> HIDE DEF a, L
<1>4. Zs(a.body) \subseteq {FALSE}
  BY <1>1, IdsEmpty
<1>5. /\ b.infos = a.infos /\ b.status = a.status /\ b.hdr = a.hdr /\ b.trailers = a.trailers
      /\ b.broken = a.broken /\ b.hijacked = a.hijacked
  BY <1>1, <1>2, <1>3, EncodeType, BodiedQuiet
<1>6. Zs(b.body) \subseteq {FALSE}
  <2> DEFINE x == t.gz.buf
  <2>1. x \in Seq(HandlerIds)
    BY <1>2
  <2> HIDE DEF x
  <2>2. a \in Net /\ L \in Headers /\ Quiet(a)
    BY <1>1, <1>2, <1>3
  <2>3. Zs(Bodied(a, L, Encode(x, FALSE)).body) \subseteq {FALSE}
    BY <1>4, <2>1, <2>2, ZsBodied
  <2> QED BY <2>3 DEF x
<1>7. Trails(b, m, <<>>)
  BY <1>1, <1>2, <1>3, TrailsSent
<1> HIDE DEF b
<1>8. Mirrors(L, b, f, h, m, TRUE)
  BY <1>1, <1>5, <1>6, <1>7 DEF Common, Sent, SentPlain, Mirrors
<1>9. t.gz.buf = <<>> => Mirrors(L, a, f, h, m, TRUE)
  BY <1>1, <1>4 DEF SentPlain, Mirrors
<1> QED BY <1>8, <1>9 DEF a, L, b

LEMMA CompressedMirrors ==
  ASSUME NEW t \in Stack, NEW h, NEW m, Mirrors(t.hdr, t.net, t.gz, h, m, TRUE), Books(t.gz),
         t.gz.state = "buffering", NEW f, f.state = "compressed", f.accepts = t.gz.accepts,
         f.zbuf = IF t.net.broken THEN t.gz.zbuf ELSE t.gz.zbuf \o t.gz.buf
  PROVE  /\ Common(LeftHeader(t, TRUE), Headed(t.net, SentHeader(t, TRUE), t.gz.status), h, m)
         /\ SentMarked(LeftHeader(t, TRUE), Headed(t.net, SentHeader(t, TRUE), t.gz.status), f, h, m)
<1> DEFINE a == Headed(t.net, SentHeader(t, TRUE), t.gz.status)
           L == LeftHeader(t, TRUE)
<1>1. /\ Common(L, a, h, m) /\ Sent(L, a, h, m) /\ a.body = <<>>
      /\ Trails(a, m, t.gz.buf) /\ Marked(a.hdr, m.hdr)
  BY HeldSent
<1>2. /\ t.gz.zbuf = <<>> /\ t.gz.accepts /\ BodyAllowed(m.status) /\ m.broken = t.net.broken
  BY DEF Mirrors, Buffered, Common
<1> HIDE DEF a, L
<1>3. <<>> \o t.gz.buf = t.gz.buf
  BY StackFields, GzFields, ConcatEmptySeq
<1>4. Trails(a, m, f.zbuf)
  BY <1>1, <1>2, <1>3 DEF Trails
<1>5. Zs(a.body) \subseteq {TRUE}
  BY <1>1, IdsEmpty
<1> QED BY <1>1, <1>2, <1>4, <1>5 DEF SentMarked, a, L

-----------------------------------------------------------------------------
(* What a decision leaves of the response, field by field.                 *)
LEMMA HeldIsHeld ==
  ASSUME NEW t \in Stack, NEW g \in Gz, g.held = t.gz.held, NEW c \in BOOLEAN
  PROVE  /\ SentHeader(Put(t, t.hdr, t.net, t.rec, g), c) = SentHeader(t, c)
         /\ LeftHeader(Put(t, t.hdr, t.net, t.rec, g), c) = LeftHeader(t, c)
<1> DEFINE w == Put(t, t.hdr, t.net, t.rec, g)
<1>1. w.hdr = t.hdr /\ w.gz = g
  BY StackFields, PutFields
<1> HIDE DEF w
<1>2. RestoreHeader(w) = RestoreHeader(t)
  BY <1>1 DEF RestoreHeader
<1>3. SentHeader(w, c) = SentHeader(t, c)
  BY <1>2 DEF SentHeader
<1>4. LeftHeader(w, c) = LeftHeader(t, c)
  BY <1>1, <1>3 DEF LeftHeader
<1> QED BY <1>3, <1>4 DEF w

LEMMA SendHeldFields ==
  ASSUME NEW t \in Stack, NEW g \in Gz, g.held = t.gz.held, g.status = t.gz.status,
         NEW c \in BOOLEAN
  PROVE  SendHeld(Put(t, t.hdr, t.net, t.rec, g), c) =
           Put(t, LeftHeader(t, c), Headed(t.net, SentHeader(t, c), t.gz.status),
               Coded(t.rec, t.gz.status), g)
<1> DEFINE w == Put(t, t.hdr, t.net, t.rec, g)
<1>1. w \in Stack /\ w.net = t.net /\ w.rec = t.rec /\ w.gz = g
  BY StackFields, PutFields
<1>2. SentHeader(w, c) = SentHeader(t, c) /\ LeftHeader(w, c) = LeftHeader(t, c)
  BY HeldIsHeld
<1> HIDE DEF w
<1>3. SendHeld(w, c) = Put(w, LeftHeader(w, c), Headed(w.net, SentHeader(w, c), w.gz.status),
                           Coded(w.rec, w.gz.status), w.gz)
  BY <1>1, SendHeldForm
<1>4. SendHeld(w, c) = Put(w, LeftHeader(t, c), Headed(t.net, SentHeader(t, c), t.gz.status),
                           Coded(t.rec, t.gz.status), g)
  BY <1>1, <1>2, <1>3
<1> QED BY <1>4, PutTwice DEF w

LEMMA GzStates ==
  ASSUME NEW g \in Gz, NEW st \in GzipStates
  PROVE  /\ [g EXCEPT !.state = st] \in Gz
         /\ [g EXCEPT !.state = st].state = st
         /\ [g EXCEPT !.state = st].accepts = g.accepts
         /\ [g EXCEPT !.state = st].held = g.held
         /\ [g EXCEPT !.state = st].status = g.status
         /\ [g EXCEPT !.state = st].buf = g.buf
         /\ [g EXCEPT !.state = st].zbuf = g.zbuf
         /\ [g EXCEPT !.state = st].gets = g.gets
BY DEF Gz

LEMMA HeldTypes ==
  ASSUME NEW t \in Stack, NEW c \in BOOLEAN
  PROVE  /\ LeftHeader(t, c) \in Headers
         /\ Headed(t.net, SentHeader(t, c), t.gz.status) \in Net
         /\ Coded(t.rec, t.gz.status) \in Rec
<1>1. t.net \in Net /\ t.rec \in Rec /\ t.gz.status \in Nat
  BY StackFields, GzFields
<1> QED BY <1>1, HeldHeaders, HeadedKeeps, RecTypes

LEMMA CommitIdentityFields ==
  ASSUME NEW t \in Stack
  PROVE  /\ CommitIdentity(t).hdr = LeftHeader(t, FALSE)
         /\ CommitIdentity(t).net =
              IF t.gz.buf = <<>> THEN Headed(t.net, SentHeader(t, FALSE), t.gz.status)
              ELSE Bodied(Headed(t.net, SentHeader(t, FALSE), t.gz.status), LeftHeader(t, FALSE),
                          Encode(t.gz.buf, FALSE))
         /\ CommitIdentity(t).gz.state = "identity"
         /\ CommitIdentity(t).canFlush = t.canFlush /\ CommitIdentity(t).canHijack = t.canHijack
<1> DEFINE g1 == [t.gz EXCEPT !.state = "identity"]
           t1 == Put(t, t.hdr, t.net, t.rec, g1)
           h == LeftHeader(t, FALSE)
           n == Headed(t.net, SentHeader(t, FALSE), t.gz.status)
           r == Coded(t.rec, t.gz.status)
           t2 == Put(t, h, n, r, g1)
           g2 == [g1 EXCEPT !.buf = <<>>]
           t3 == Put(t, h, n, r, g2)
           e == Encode(t.gz.buf, FALSE)
<1>1. t.gz \in Gz /\ t.gz.buf \in Seq(HandlerIds) /\ e \in Seq(Byte)
  BY StackFields, GzFields, EncodeType
<1>2. /\ g1 \in Gz /\ g1.held = t.gz.held /\ g1.status = t.gz.status /\ g1.state = "identity"
  <2>1. "identity" \in GzipStates
    BY DEF GzipStates
  <2> QED BY <1>1, <2>1, GzStates
<1>3. g2 \in Gz /\ g2.state = g1.state
  BY <1>2, EmptyIds, GzUpdates
<1>4. h \in Headers /\ n \in Net /\ r \in Rec
  BY HeldTypes
<1>5. t1 = [t EXCEPT !.gz.state = "identity"]
  BY DEF Put, Stack
<1> HIDE DEF g1, e
<1>6. SendHeld(t1, FALSE) = t2
  BY <1>2, SendHeldFields
<1> HIDE DEF t1, h, n, r
<1>7. t3 = [t2 EXCEPT !.gz.buf = <<>>]
  BY DEF Put, Stack
<1> HIDE DEF g2
<1>8. CommitIdentity(t) = IF t.gz.buf = <<>> THEN t2 ELSE RecWrite(t3, e)
  BY <1>5, <1>6, <1>7 DEF CommitIdentity, e
<1>9. /\ t2.hdr = h /\ t2.net = n /\ t2.gz = g1
      /\ t2.canFlush = t.canFlush /\ t2.canHijack = t.canHijack
  BY <1>2, <1>4, PutFields
<1>10. /\ t3 \in Stack /\ t3.hdr = h /\ t3.net = n /\ t3.rec = r /\ t3.gz = g2
       /\ t3.canFlush = t.canFlush /\ t3.canHijack = t.canHijack
  BY <1>3, <1>4, PutFields
<1> HIDE DEF t2, t3
<1>11. RecWrite(t3, e) = Put(t3, h, Bodied(n, h, e), Touched(r), g2)
  BY <1>1, <1>10, StackFields, RecWriteForm, WithIsPut
<1>12. Bodied(n, h, e) \in Net /\ Touched(r) \in Rec
  BY <1>1, <1>4, BodiedKeeps, RecTypes
<1>13. /\ RecWrite(t3, e).hdr = h /\ RecWrite(t3, e).net = Bodied(n, h, e)
       /\ RecWrite(t3, e).gz = g2
       /\ RecWrite(t3, e).canFlush = t.canFlush /\ RecWrite(t3, e).canHijack = t.canHijack
  BY <1>3, <1>4, <1>10, <1>11, <1>12, PutFields
<1> QED BY <1>2, <1>3, <1>8, <1>9, <1>13 DEF h, n, e

LEMMA GzTaken ==
  ASSUME NEW g \in Gz
  PROVE  /\ [g EXCEPT !.zw = TRUE, !.gets = g.gets + 1, !.buf = <<>>] \in Gz
         /\ [g EXCEPT !.zw = TRUE, !.gets = g.gets + 1, !.buf = <<>>].state = g.state
         /\ [g EXCEPT !.zw = TRUE, !.gets = g.gets + 1, !.buf = <<>>].accepts = g.accepts
         /\ [g EXCEPT !.zw = TRUE, !.gets = g.gets + 1, !.buf = <<>>].zbuf = g.zbuf
<1>1. g.gets + 1 \in Nat
  BY GzFields
<1> QED BY <1>1, EmptyIds DEF Gz

LEMMA CommitCompressedFields ==
  ASSUME NEW t \in Stack
  PROVE  /\ CommitCompressed(t).hdr = LeftHeader(t, TRUE)
         /\ CommitCompressed(t).net = Headed(t.net, SentHeader(t, TRUE), t.gz.status)
         /\ CommitCompressed(t).gz.state = "compressed"
         /\ CommitCompressed(t).gz.accepts = t.gz.accepts
         /\ CommitCompressed(t).gz.zbuf =
              IF t.net.broken THEN t.gz.zbuf ELSE t.gz.zbuf \o t.gz.buf
         /\ CommitCompressed(t).canFlush = t.canFlush
         /\ CommitCompressed(t).canHijack = t.canHijack
<1> DEFINE g1 == [t.gz EXCEPT !.state = "compressed"]
           t1 == Put(t, t.hdr, t.net, t.rec, g1)
           h == LeftHeader(t, TRUE)
           n == Headed(t.net, SentHeader(t, TRUE), t.gz.status)
           r == Coded(t.rec, t.gz.status)
           t2 == Put(t, h, n, r, g1)
           g2 == [g1 EXCEPT !.zw = TRUE, !.gets = g1.gets + 1, !.buf = <<>>]
           t3 == Put(t, h, n, r, g2)
           z == g2.zbuf \o t.gz.buf
           g3 == [g2 EXCEPT !.zbuf = z]
<1>1. t.gz \in Gz /\ t.gz.buf \in Seq(HandlerIds) /\ t.gz.zbuf \in Seq(HandlerIds)
  BY StackFields, GzFields
<1>2. /\ g1 \in Gz /\ g1.held = t.gz.held /\ g1.status = t.gz.status /\ g1.state = "compressed"
      /\ g1.accepts = t.gz.accepts /\ g1.zbuf = t.gz.zbuf /\ g1.gets = t.gz.gets
  <2>1. "compressed" \in GzipStates
    BY DEF GzipStates
  <2> QED BY <1>1, <2>1, GzStates
<1>3. /\ g2 \in Gz /\ g2.state = "compressed" /\ g2.accepts = t.gz.accepts /\ g2.zbuf = t.gz.zbuf
  BY <1>2, GzTaken
<1>4. h \in Headers /\ n \in Net /\ r \in Rec /\ n.broken = t.net.broken
  <2>1. h \in Headers /\ n \in Net /\ r \in Rec
    BY HeldTypes
  <2>2. t.net \in Net /\ SentHeader(t, TRUE) \in Headers /\ t.gz.status \in Nat
    BY <1>1, StackFields, HeldHeaders, GzFields
  <2>3. n.broken = t.net.broken
    BY <2>2, HeadedKeeps
  <2> QED BY <2>1, <2>3
<1>5. t1 = [t EXCEPT !.gz.state = "compressed"]
  BY DEF Put, Stack
<1> HIDE DEF g1
<1>6. SendHeld(t1, TRUE) = t2
  BY <1>2, SendHeldFields
<1> HIDE DEF t1, h, n, r
<1>7. t3 = [t2 EXCEPT !.gz.zw = TRUE, !.gz.gets = @ + 1, !.gz.buf = <<>>]
  BY <1>2 DEF Put, Stack, Gz
<1> HIDE DEF g2
<1>8. CommitCompressed(t) = ZWrite(t3, t.gz.buf)
  BY <1>5, <1>6, <1>7 DEF CommitCompressed
<1>9. /\ t3 \in Stack /\ t3.hdr = h /\ t3.net = n /\ t3.rec = r /\ t3.gz = g2
      /\ t3.canFlush = t.canFlush /\ t3.canHijack = t.canHijack
  BY <1>3, <1>4, PutFields
<1> HIDE DEF t2, t3
<1>10. /\ g3 \in Gz /\ g3.state = g2.state /\ g3.accepts = g2.accepts
       /\ g3.zbuf = t.gz.zbuf \o t.gz.buf
  <2>1. z \in Seq(HandlerIds) /\ z = t.gz.zbuf \o t.gz.buf
    BY <1>1, <1>3, ConcatProperties
  <2> HIDE DEF z
  <2> QED BY <1>3, <2>1, GzZbuf
<1>11. ZWrite(t3, t.gz.buf) = IF n.broken THEN t3 ELSE Put(t3, h, n, r, g3)
  BY <1>1, <1>9, ZForms
<1> HIDE DEF g3, z
<1>12. CASE t.net.broken
  BY <1>3, <1>4, <1>8, <1>9, <1>11, <1>12 DEF h, n
<1>13. CASE ~t.net.broken
  <2>1. CommitCompressed(t) = Put(t3, h, n, r, g3)
    BY <1>4, <1>8, <1>11, <1>13
  <2>2. /\ Put(t3, h, n, r, g3).hdr = h /\ Put(t3, h, n, r, g3).net = n
        /\ Put(t3, h, n, r, g3).gz = g3 /\ Put(t3, h, n, r, g3).canFlush = t3.canFlush
        /\ Put(t3, h, n, r, g3).canHijack = t3.canHijack
    BY <1>3, <1>4, <1>9, <1>10, PutFields
  <2> QED BY <1>3, <1>9, <1>10, <1>13, <2>1, <2>2 DEF h, n
<1> QED BY <1>12, <1>13

-----------------------------------------------------------------------------
(* The calls, made on both writers: p is the bare response.                *)
Heads(p, m) == [p EXCEPT !.net = m]

Mirrored(t, p, zip) ==
  /\ Good(t) /\ Response(p)
  /\ p.canFlush = t.canFlush /\ p.canHijack = t.canHijack
  /\ t.canFlush => Mirrors(t.hdr, t.net, t.gz, p.hdr, p.net, zip)

LEMMA HeadsFields ==
  ASSUME NEW p, Response(p), NEW m \in Net
  PROVE  /\ Response(Heads(p, m))
         /\ Heads(p, m).net = m /\ Heads(p, m).hdr = p.hdr
         /\ Heads(p, m).canFlush = p.canFlush /\ Heads(p, m).canHijack = p.canHijack
         /\ p.net \in Net /\ p.hdr \in Headers
         /\ Heads(p, p.net) = p
BY DEF Response, Heads

LEMMA HeadsTwice ==
  ASSUME NEW p, Response(p), NEW m, NEW k
  PROVE  Heads(Heads(p, m), k) = Heads(p, k)
BY DEF Response, Heads

LEMMA MirroredBy ==
  ASSUME NEW u, Good(u), NEW p, Response(p), p.canFlush = u.canFlush, p.canHijack = u.canHijack,
         NEW m \in Net, NEW zip, u.canFlush => Mirrors(u.hdr, u.net, u.gz, p.hdr, m, zip)
  PROVE  Mirrored(u, Heads(p, m), zip)
BY HeadsFields DEF Mirrored

LEMMA MirroredParts ==
  ASSUME NEW t, NEW p, NEW zip, Mirrored(t, p, zip)
  PROVE  /\ t \in Stack /\ Good(t) /\ Recorded(t) /\ Books(t.gz) /\ Agrees(t.net, t.rec)
         /\ t.hdr \in Headers /\ t.net \in Net /\ t.rec \in Rec /\ t.gz \in Gz
         /\ t.gz.state \in GzipStates /\ t.gz.buf \in Seq(HandlerIds)
         /\ t.gz.zbuf \in Seq(HandlerIds) /\ t.canFlush \in BOOLEAN
         /\ Response(p) /\ p.hdr \in Headers /\ p.net \in Net
         /\ p.canFlush = t.canFlush /\ p.canHijack = t.canHijack
<1>1. Good(t) /\ Response(p) /\ p.canFlush = t.canFlush /\ p.canHijack = t.canHijack
  BY DEF Mirrored
<1>2. p.hdr \in Headers /\ p.net \in Net
  BY <1>1 DEF Response
<1>3. t \in Stack /\ t.gz \in Gz /\ t.canFlush \in BOOLEAN
  BY <1>1, GoodParts, StackFields
<1> QED BY <1>1, <1>2, <1>3, GoodParts, GzFields

(* Once anything is decided, both have a status or are hijacked.           *)
LEMMA MirrorsQuiet ==
  ASSUME NEW H, NEW n, NEW g, NEW h, NEW m, NEW zip, Mirrors(H, n, g, h, m, zip),
         g.state # "pending"
  PROVE  Quiet(m) /\ (g.state # "buffering" => Quiet(n))
BY DEF Mirrors, Common, Buffered, SentPlain, SentMarked, Sent, Cut, Quiet

(* WriteHeader.                                                            *)
LEMMA GzWriteHeaderMirrored ==
  ASSUME NEW t, NEW p, Mirrored(t, p, TRUE), NEW code \in 100..599
  PROVE  Mirrored(GzWriteHeader(t, code), Heads(p, Headed(p.net, p.hdr, code)), TRUE)
<1> DEFINE m == Headed(p.net, p.hdr, code)
           u == GzWriteHeader(t, code)
<1>1. /\ t \in Stack /\ Good(t) /\ Recorded(t) /\ Books(t.gz) /\ Agrees(t.net, t.rec)
      /\ t.hdr \in Headers /\ t.net \in Net /\ t.rec \in Rec /\ t.gz \in Gz
      /\ Response(p) /\ p.hdr \in Headers /\ p.net \in Net
      /\ p.canFlush = t.canFlush /\ p.canHijack = t.canHijack
  BY MirroredParts
<1>2. code \in Nat /\ code \in Nat \ {0}
  OBVIOUS
<1>3. m \in Net
  BY <1>1, <1>2, HeadedKeeps
<1>4. Good(u)
  BY <1>1, GoodGzWriteHeader
<1>5. SUFFICES /\ u.canFlush = t.canFlush /\ u.canHijack = t.canHijack
               /\ t.canFlush => Mirrors(u.hdr, u.net, u.gz, p.hdr, m, TRUE)
  BY <1>1, <1>3, <1>4, MirroredBy
<1>6. t.canFlush => Mirrors(t.hdr, t.net, t.gz, p.hdr, p.net, TRUE)
  BY DEF Mirrored
<1> HIDE DEF u, m
<1>7. CASE t.gz.state # "pending"
  <2>1. u = t
    BY <1>1, <1>2, <1>7, GzWriteHeaderForm DEF u
  <2>2. t.canFlush => m = p.net
    <3> SUFFICES ASSUME t.canFlush PROVE m = p.net
      OBVIOUS
    <3>1. Quiet(p.net)
      BY <1>6, <1>7, MirrorsQuiet
    <3> QED BY <1>1, <1>2, <3>1, HeadedTwice DEF m
  <2> QED BY <1>6, <2>1, <2>2
<1>8. CASE t.gz.state = "pending" /\ Informational(code)
  <2>1. u = Put(t, t.hdr, Headed(t.net, t.hdr, code), Coded(t.rec, code), t.gz)
    <3>1. u = RecWriteHeader(t, code)
      BY <1>1, <1>2, <1>8, GzWriteHeaderForm DEF u
    <3>2. RecWriteHeader(t, code) =
            With(t, t.hdr, Headed(t.net, t.hdr, code), Coded(t.rec, code))
      BY <1>1, <1>2, RecHeaderForm
    <3> QED BY <1>1, <3>1, <3>2, WithIsPut
  <2>2. Headed(t.net, t.hdr, code) \in Net /\ Coded(t.rec, code) \in Rec
    BY <1>1, <1>2, HeadedKeeps, RecTypes
  <2>3. /\ u.hdr = t.hdr /\ u.net = Headed(t.net, t.hdr, code) /\ u.gz = t.gz
        /\ u.canFlush = t.canFlush /\ u.canHijack = t.canHijack
    <3> DEFINE k == Headed(t.net, t.hdr, code)
               r == Coded(t.rec, code)
    <3>1. t.hdr \in Headers /\ t.gz \in Gz /\ k \in Net /\ r \in Rec
      BY <1>1, <2>2, StackFields
    <3>2. u = Put(t, t.hdr, k, r, t.gz)
      BY <2>1
    <3> HIDE DEF k, r
    <3>3. /\ u.hdr = t.hdr /\ u.net = k /\ u.gz = t.gz
          /\ u.canFlush = t.canFlush /\ u.canHijack = t.canHijack
      BY <1>1, <3>1, <3>2, PutFields
    <3> QED BY <3>3 DEF k
  <2>4. ASSUME t.canFlush
        PROVE  Mirrors(t.hdr, Headed(t.net, t.hdr, code), t.gz, p.hdr, Headed(p.net, p.hdr, code), TRUE)
    <3>1. Mirrors(t.hdr, t.net, t.gz, p.hdr, p.net, TRUE)
      BY <1>6, <2>4
    <3> QED BY <1>1, <1>2, <1>8, <3>1, UndecidedStays
  <2> QED BY <2>3, <2>4 DEF m
<1>9. CASE t.gz.state = "pending" /\ ~Informational(code) /\ ~Held(t, code)
  <2> DEFINE G == Varied(t.hdr, code)
             f == [t.gz EXCEPT !.state = "identity"]
             w == Put(t, G, t.net, t.rec, f)
             a == Headed(t.net, G, code)
             r == Coded(t.rec, code)
  <2>1. G \in Headers /\ u = RecWriteHeader(w, code)
    BY <1>1, <1>2, <1>9, GzWriteHeaderForm DEF u
  <2>2. f \in Gz /\ f.state = "identity"
    <3>1. "identity" \in GzipStates
      BY DEF GzipStates
    <3> QED BY <1>1, <3>1, GzStates
  <2>3. t.canFlush => Mirrors(G, a, f, p.hdr, m, TRUE)
    BY <1>1, <1>2, <1>6, <1>9, <2>2, DecidedPlain DEF m
  <2> HIDE DEF G, f
  <2>4. w \in Stack /\ w.hdr = G /\ w.net = t.net /\ w.rec = t.rec /\ w.gz = f /\ Recorded(w)
    BY <1>1, <2>1, <2>2, PutFields, StackFields
  <2> HIDE DEF w
  <2>5. u = Put(t, G, a, Coded(t.rec, code), f)
    BY <1>1, <1>2, <2>1, <2>4, RecHeaderForm, WithIsPut, PutTwice DEF w
  <2>6. a \in Net /\ r \in Rec
    BY <1>1, <1>2, <2>1, HeadedKeeps, RecTypes
  <2>8. u = Put(t, G, a, r, f)
    BY <2>5
  <2> HIDE DEF a, r
  <2>7. /\ u.hdr = G /\ u.net = a /\ u.gz = f
        /\ u.canFlush = t.canFlush /\ u.canHijack = t.canHijack
    <3>1. t \in Stack /\ G \in Headers /\ a \in Net /\ r \in Rec /\ f \in Gz
      BY <1>1, <2>1, <2>2, <2>6
    <3>2. /\ Put(t, G, a, r, f).hdr = G /\ Put(t, G, a, r, f).net = a
          /\ Put(t, G, a, r, f).gz = f
          /\ Put(t, G, a, r, f).canFlush = t.canFlush
          /\ Put(t, G, a, r, f).canHijack = t.canHijack
      BY <3>1, PutFields
    <3> QED BY <2>8, <3>2
  <2> QED BY <2>3, <2>7
<1>10. CASE t.gz.state = "pending" /\ ~Informational(code) /\ Held(t, code)
  <2> DEFINE G == Varied(t.hdr, code)
             f == [t.gz EXCEPT !.state = "buffering", !.status = code, !.held = G]
  <2>1. G \in Headers /\ u = Put(t, G, t.net, t.rec, f)
    BY <1>1, <1>2, <1>10, GzWriteHeaderForm DEF u
  <2> HIDE DEF G
  <2>2. /\ f \in Gz /\ f.state = "buffering" /\ f.status = code /\ f.held = G
        /\ f.buf = t.gz.buf /\ f.zbuf = t.gz.zbuf /\ f.accepts = t.gz.accepts
    <3>1. "buffering" \in GzipStates
      BY DEF GzipStates
    <3> QED BY <1>1, <1>2, <2>1, <3>1 DEF Gz
  <2> HIDE DEF f
  <2>3. /\ u.hdr = G /\ u.net = t.net /\ u.gz = f
        /\ u.canFlush = t.canFlush /\ u.canHijack = t.canHijack
    BY <1>1, <2>1, <2>2, PutFields
  <2>4. t.canFlush => Mirrors(G, t.net, f, p.hdr, m, TRUE)
    <3> SUFFICES ASSUME t.canFlush PROVE Mirrors(G, t.net, f, p.hdr, m, TRUE)
      OBVIOUS
    <3>1. ~Quiet(t.net)
      BY <1>6, <1>10 DEF Mirrors, Undecided
    <3>2. t.net.body = <<>>
      BY <1>1, <3>1 DEF Agrees, Quiet
    <3>3. Candidate(code, t.hdr) /\ CompressesStatus(code) /\ t.gz.accepts
      BY <1>10 DEF Held
    <3> QED BY <1>1, <1>2, <1>6, <1>10, <2>2, <3>2, <3>3, DecidedHeld DEF G, m
  <2> QED BY <2>3, <2>4
<1> QED BY <1>7, <1>8, <1>9, <1>10

LEMMA ImplicitMirrored ==
  ASSUME NEW t, NEW p, Mirrored(t, p, TRUE)
  PROVE  /\ Mirrored(ImplicitStatus(t), Heads(p, Headed(p.net, p.hdr, OK200)), TRUE)
         /\ ImplicitStatus(t).gz.state \in GzipStates \ {"pending"}
<1>1. /\ t \in Stack /\ Good(t) /\ OK200 \in Nat
  BY MirroredParts, OkIsNat
<1>2. ImplicitStatus(t) = GzWriteHeader(t, OK200)
  BY <1>1, GzWriteHeaderForm DEF ImplicitStatus
<1>3. Mirrored(ImplicitStatus(t), Heads(p, Headed(p.net, p.hdr, OK200)), TRUE)
  BY <1>2, OkInRange, GzWriteHeaderMirrored
<1> QED BY <1>1, <1>3, GoodImplicitStatus, MirroredParts

(* Write.  The status it implies changes nothing of what it sends.         *)
LEMMA BodiedImplied ==
  ASSUME NEW m \in Net, NEW h \in Headers, NEW b \in Seq(Byte)
  PROVE  /\ Headed(m, h, OK200) \in Net /\ Quiet(Headed(m, h, OK200))
         /\ Bodied(Headed(m, h, OK200), h, b) = Bodied(m, h, b)
<1> DEFINE k == Headed(m, h, OK200)
<1>1. /\ k \in Net /\ k.body = m.body /\ k.hijacked = m.hijacked /\ k.broken = m.broken
  BY OkIsNat, HeadedKeeps
<1>2. Quiet(k)
  <2>1. CASE Quiet(m)
    BY <2>1, OkIsNat, HeadedTwice
  <2>2. CASE ~Quiet(m)
    <3>1. k.status = OK200
      BY <2>2, OkIsNat, OkIsFinal, HeadedSends
    <3> QED BY <3>1, OkIsFinal DEF Quiet
  <2> QED BY <2>1, <2>2
<1>3. Bodied(m, h, b) = IF m.hijacked \/ m.broken \/ ~BodyAllowed(k.status) THEN k
                        ELSE [k EXCEPT !.body = m.body \o b]
  BY DEF Bodied
<1> HIDE DEF k
<1>4. Headed(k, h, OK200) = k
  BY <1>1, <1>2, OkIsNat, HeadedTwice
<1>5. Bodied(k, h, b) = IF k.hijacked \/ k.broken \/ ~BodyAllowed(k.status) THEN k
                        ELSE [k EXCEPT !.body = k.body \o b]
  BY <1>4 DEF Bodied
<1>6. Bodied(k, h, b) = Bodied(m, h, b)
  BY <1>1, <1>3, <1>5
<1> QED BY <1>1, <1>2, <1>6 DEF k

LEMMA BodyCommon ==
  ASSUME NEW H \in Headers, NEW n \in Net, NEW h \in Headers, NEW m \in Net,
         NEW x \in Seq(HandlerIds), Common(H, n, h, m), Quiet(m)
  PROVE  /\ Common(H, n, h, Bodied(m, h, Encode(x, FALSE)))
         /\ Quiet(n) => Common(H, Bodied(n, H, Encode(x, FALSE)), h, Bodied(m, h, Encode(x, FALSE)))
<1> DEFINE e == Encode(x, FALSE)
           a == Bodied(n, H, e)
           b == Bodied(m, h, e)
<1>1. e \in Seq(Byte)
  BY EncodeType
<1> HIDE DEF e
<1>2. /\ b \in Net /\ b.infos = m.infos /\ b.hdr = m.hdr /\ b.trailers = m.trailers
      /\ b.broken = m.broken /\ b.hijacked = m.hijacked
  BY <1>1, BodiedQuiet
<1>3. Quiet(n) => /\ a.infos = n.infos /\ a.trailers = n.trailers
                  /\ a.broken = n.broken /\ a.hijacked = n.hijacked
  BY <1>1, BodiedQuiet
<1> HIDE DEF a, b
<1>4. Common(H, n, h, b)
  BY <1>2 DEF Common
<1>5. Quiet(n) => Common(H, a, h, b)
  BY <1>2, <1>3 DEF Common
<1> QED BY <1>4, <1>5 DEF a, b, e

LEMMA TakesPlain ==
  ASSUME NEW H \in Headers, NEW n \in Net, NEW h \in Headers, NEW m \in Net,
         NEW x \in Seq(HandlerIds), Common(H, n, h, m), SentPlain(H, n, h, m)
  PROVE  SentPlain(H, Bodied(n, H, Encode(x, FALSE)), h, Bodied(m, h, Encode(x, FALSE)))
<1> DEFINE e == Encode(x, FALSE)
           a == Bodied(n, H, e)
           b == Bodied(m, h, e)
<1>1. Quiet(n) /\ Quiet(m) /\ n.status = m.status /\ m.hijacked = n.hijacked /\ m.broken = n.broken
  BY DEF SentPlain, Sent, Common, Quiet
<1>2. Trails(a, b, <<>>)
  BY <1>1, TrailsBoth DEF SentPlain
<1>3. Zs(a.body) \subseteq {FALSE}
  BY <1>1, ZsBodied DEF SentPlain
<1>4. e \in Seq(Byte)
  BY EncodeType
<1> HIDE DEF e
<1>5. /\ a.status = n.status /\ a.hdr = n.hdr /\ a.hijacked = n.hijacked
      /\ b.status = m.status /\ b.hdr = m.hdr
  BY <1>1, <1>4, BodiedQuiet
<1> HIDE DEF a, b
<1>6. SentPlain(H, a, h, b)
  BY <1>2, <1>3, <1>5 DEF SentPlain, Sent
<1> QED BY <1>6 DEF a, b, e

LEMMA LongTrails ==
  ASSUME NEW n \in Net, NEW m \in Net, NEW w \in Seq(HandlerIds), Trails(n, m, w),
         ~m.broken => Len(w) >= MinBytes
  PROVE  Long(m)
<1> SUFFICES ASSUME ~m.broken PROVE Len(m.body) >= MinBytes
  BY DEF Long
<1>1. n.body \in Seq(Byte) /\ m.body \in Seq(Byte) /\ w \in Seq(Nat)
  <2>1. HandlerIds \subseteq Nat
    BY DEF HandlerIds
  <2> QED BY <2>1, SeqMonotonic DEF Net
<1>2. Ids(n.body) \in Seq(Nat) /\ Len(Ids(m.body)) = Len(m.body)
  BY <1>1, IdsType
<1>3. Len(Ids(n.body) \o w) = Len(Ids(n.body)) + Len(w)
  BY <1>1, <1>2, ConcatProperties
<1>4. Ids(m.body) = Ids(n.body) \o w
  BY DEF Trails
<1>5. Len(Ids(n.body)) \in Nat /\ Len(w) \in Nat
  BY <1>1, <1>2
<1> QED BY <1>2, <1>3, <1>4, <1>5, MinBytesAssumption

LEMMA LongStays ==
  ASSUME NEW m \in Net, NEW h \in Headers, NEW x \in Seq(HandlerIds), Quiet(m), ~m.hijacked,
         BodyAllowed(m.status), Long(m)
  PROVE  Long(Bodied(m, h, Encode(x, FALSE)))
<1> DEFINE b == Bodied(m, h, Encode(x, FALSE))
<1>1. b \in Net /\ b.broken = m.broken
  BY EncodeType, BodiedQuiet
<1>2. ~m.broken => Ids(b.body) = Ids(m.body) \o x
  BY IdsBodied
<1> HIDE DEF b
<1>3. /\ Ids(m.body) \in Seq(Nat) /\ Len(Ids(m.body)) = Len(m.body)
      /\ Len(Ids(b.body)) = Len(b.body) /\ x \in Seq(Nat) /\ Len(x) \in Nat /\ Len(m.body) \in Nat
  <2>1. m.body \in Seq(Byte) /\ b.body \in Seq(Byte)
    BY <1>1 DEF Net
  <2>2. x \in Seq(Nat)
    <3>1. HandlerIds \subseteq Nat
      BY DEF HandlerIds
    <3> QED BY <3>1, SeqMonotonic
  <2>3. Ids(m.body) \in Seq(Nat) /\ Len(Ids(m.body)) = Len(m.body)
    BY <2>1, IdsType
  <2>4. Len(Ids(b.body)) = Len(b.body)
    BY <2>1, IdsType
  <2>5. Len(m.body) \in Nat /\ Len(x) \in Nat
    BY <2>1, <2>2
  <2> QED BY <2>2, <2>3, <2>4, <2>5
<1>4. Len(Ids(m.body) \o x) = Len(m.body) + Len(x)
  <2>1. Ids(m.body) \in Seq(Nat) /\ x \in Seq(Nat)
    BY <1>3
  <2>2. Len(Ids(m.body) \o x) = Len(Ids(m.body)) + Len(x)
    BY <2>1, ConcatProperties
  <2> QED BY <1>3, <2>2
<1>5. Long(b)
  BY <1>1, <1>2, <1>3, <1>4, MinBytesAssumption DEF Long
<1> QED BY <1>5 DEF b

LEMMA TakesMarked ==
  ASSUME NEW H \in Headers, NEW n \in Net, NEW g \in Gz, NEW h \in Headers, NEW m \in Net,
         NEW x \in Seq(HandlerIds), Common(H, n, h, m), SentMarked(H, n, g, h, m),
         NEW f, f.accepts = g.accepts, f.zbuf = IF n.broken THEN g.zbuf ELSE g.zbuf \o x
  PROVE  /\ SentMarked(H, n, f, h, Bodied(m, h, Encode(x, FALSE)))
         /\ Long(m) => Long(Bodied(m, h, Encode(x, FALSE)))
         /\ (~n.broken => Len(g.zbuf) + Len(x) >= MinBytes) =>
              Long(Bodied(m, h, Encode(x, FALSE)))
<1> DEFINE e == Encode(x, FALSE)
           b == Bodied(m, h, e)
<1>1. /\ Quiet(m) /\ ~m.hijacked /\ BodyAllowed(m.status) /\ m.broken = n.broken
      /\ Trails(n, m, g.zbuf) /\ g.zbuf \in Seq(HandlerIds)
  BY GzFields DEF SentMarked, Sent, Common, Quiet
<1>2. Trails(n, b, g.zbuf \o x)
  BY <1>1, TrailsHeld
<1>3. Long(m) => Long(b)
  BY <1>1, LongStays
<1>4. e \in Seq(Byte)
  BY EncodeType
<1> HIDE DEF e
<1>5. b \in Net /\ b.status = m.status /\ b.hdr = m.hdr /\ b.broken = m.broken
  BY <1>1, <1>4, BodiedQuiet
<1> HIDE DEF b
<1>6. Trails(n, b, f.zbuf)
  BY <1>1, <1>2, <1>5 DEF Trails
<1>7. SentMarked(H, n, f, h, b)
  BY <1>5, <1>6 DEF SentMarked, Sent
<1>8. (~n.broken => Len(g.zbuf) + Len(x) >= MinBytes) => Long(b)
  <2> SUFFICES ASSUME ~n.broken => Len(g.zbuf) + Len(x) >= MinBytes PROVE Long(b)
    OBVIOUS
  <2> DEFINE w == g.zbuf \o x
  <2>1. w \in Seq(HandlerIds) /\ Len(w) = Len(g.zbuf) + Len(x)
    BY <1>1, ConcatProperties
  <2>2. Trails(n, b, w)
    BY <1>2
  <2> HIDE DEF w
  <2>3. ~b.broken => Len(w) >= MinBytes
    BY <1>1, <1>5, <2>1
  <2> QED BY <1>5, <2>1, <2>2, <2>3, LongTrails
<1> QED BY <1>3, <1>7, <1>8 DEF b, e

LEMMA TakesCut ==
  ASSUME NEW n \in Net, NEW h \in Headers, NEW m \in Net, NEW x \in Seq(HandlerIds),
         m.hijacked, Cut(n, m)
  PROVE  Cut(n, Bodied(m, h, Encode(x, FALSE)))
<1> DEFINE e == Encode(x, FALSE)
           b == Bodied(m, h, e)
<1>1. e \in Seq(Byte)
  BY EncodeType
<1> HIDE DEF e
<1>2. b.status = m.status /\ b.body = m.body
  BY <1>1, BodiedQuiet DEF Quiet
<1> HIDE DEF b
<1>3. Cut(n, b)
  BY <1>2 DEF Cut
<1> QED BY <1>3 DEF b, e

LEMMA ZWriteFields ==
  ASSUME NEW t \in Stack, NEW x \in Seq(HandlerIds)
  PROVE  /\ ZWrite(t, x).hdr = t.hdr /\ ZWrite(t, x).net = t.net
         /\ ZWrite(t, x).gz.state = t.gz.state /\ ZWrite(t, x).gz.accepts = t.gz.accepts
         /\ ZWrite(t, x).gz.zbuf = IF t.net.broken THEN t.gz.zbuf ELSE t.gz.zbuf \o x
         /\ ZWrite(t, x).canFlush = t.canFlush /\ ZWrite(t, x).canHijack = t.canHijack
<1> DEFINE z == t.gz.zbuf \o x
           g == [t.gz EXCEPT !.zbuf = z]
<1>1. t.hdr \in Headers /\ t.net \in Net /\ t.rec \in Rec /\ t.gz \in Gz /\ z \in Seq(HandlerIds)
  BY StackFields, GzFields, ConcatProperties
<1>2. ZWrite(t, x) = IF t.net.broken THEN t ELSE Put(t, t.hdr, t.net, t.rec, g)
  BY ZForms
<1> HIDE DEF z
<1>3. g \in Gz /\ g.zbuf = z /\ g.state = t.gz.state /\ g.accepts = t.gz.accepts
  BY <1>1, GzZbuf
<1> HIDE DEF g
<1>4. CASE t.net.broken
  BY <1>2, <1>4
<1>5. CASE ~t.net.broken
  <2>1. ZWrite(t, x) = Put(t, t.hdr, t.net, t.rec, g)
    BY <1>2, <1>5
  <2>2. /\ ZWrite(t, x).hdr = t.hdr /\ ZWrite(t, x).net = t.net /\ ZWrite(t, x).gz = g
        /\ ZWrite(t, x).canFlush = t.canFlush /\ ZWrite(t, x).canHijack = t.canHijack
    BY <1>1, <1>3, <2>1, PutFields
  <2> QED BY <1>3, <1>5, <2>2 DEF z
<1> QED BY <1>4, <1>5

LEMMA RecWriteFields ==
  ASSUME NEW t \in Stack, NEW e \in Seq(Byte)
  PROVE  /\ RecWrite(t, e).hdr = t.hdr /\ RecWrite(t, e).net = Bodied(t.net, t.hdr, e)
         /\ RecWrite(t, e).gz = t.gz
         /\ RecWrite(t, e).canFlush = t.canFlush /\ RecWrite(t, e).canHijack = t.canHijack
<1> DEFINE n == Bodied(t.net, t.hdr, e)
           r == Touched(t.rec)
<1>1. t.hdr \in Headers /\ t.net \in Net /\ t.rec \in Rec /\ t.gz \in Gz /\ Recorded(t)
  BY StackFields
<1>2. n \in Net /\ r \in Rec
  BY <1>1, BodiedKeeps, RecTypes
<1>3. RecWrite(t, e) = With(t, t.hdr, n, r)
  BY <1>1, RecWriteForm
<1> HIDE DEF n, r
<1>4. RecWrite(t, e) = Put(t, t.hdr, n, r, t.gz)
  BY <1>3, WithIsPut
<1>5. /\ RecWrite(t, e).hdr = t.hdr /\ RecWrite(t, e).net = n /\ RecWrite(t, e).gz = t.gz
      /\ RecWrite(t, e).canFlush = t.canFlush /\ RecWrite(t, e).canHijack = t.canHijack
  BY <1>1, <1>2, <1>4, PutFields
<1> QED BY <1>5 DEF n

LEMMA TakesBuffered ==
  ASSUME NEW H, NEW n \in Net, NEW g \in Gz, NEW h \in Headers, NEW m \in Net,
         NEW x \in Seq(HandlerIds), Common(H, n, h, m), Buffered(H, n, g, h, m),
         NEW f, f.status = g.status, f.zbuf = g.zbuf, f.accepts = g.accepts, f.held = g.held,
         f.buf = g.buf \o x
  PROVE  Buffered(H, n, f, h, Bodied(m, h, Encode(x, FALSE)))
<1> DEFINE e == Encode(x, FALSE)
           b == Bodied(m, h, e)
<1>1. Quiet(m) /\ ~m.hijacked /\ BodyAllowed(m.status) /\ Trails(n, m, g.buf) /\ g.buf \in Seq(HandlerIds)
  BY GzFields DEF Buffered, Common, Quiet
<1>2. Trails(n, b, g.buf \o x)
  BY <1>1, TrailsHeld
<1>3. e \in Seq(Byte)
  BY EncodeType
<1> HIDE DEF e
<1>4. b \in Net /\ b.status = m.status /\ b.hdr = m.hdr /\ b.hijacked = m.hijacked
  BY <1>1, <1>3, BodiedQuiet
<1> HIDE DEF b
<1>5. Quiet(b)
  BY <1>1, <1>4 DEF Quiet
<1>6. Buffered(H, n, f, h, b)
  BY <1>2, <1>4, <1>5 DEF Buffered
<1> QED BY <1>6 DEF b, e

LEMMA GzWriteMirrored ==
  ASSUME NEW t, NEW p, Mirrored(t, p, TRUE), NEW x \in Seq(HandlerIds)
  PROVE  Mirrored(GzWrite(t, x), Heads(p, Bodied(p.net, p.hdr, Encode(x, FALSE))), TRUE)
<1> DEFINE e == Encode(x, FALSE)
           m == Headed(p.net, p.hdr, OK200)
           b == Bodied(m, p.hdr, e)
           u == ImplicitStatus(t)
           q == Heads(p, m)
           w == GzWrite(t, x)
           h == p.hdr
<1>1. e \in Seq(Byte)
  BY EncodeType
<1>2. Good(t) /\ Response(p) /\ p.hdr \in Headers /\ p.net \in Net
  BY MirroredParts
<1>3. m \in Net /\ Quiet(m) /\ b = Bodied(p.net, p.hdr, e)
  BY <1>1, <1>2, BodiedImplied
<1>4. Mirrored(u, q, TRUE) /\ u.gz.state \in GzipStates \ {"pending"}
  BY ImplicitMirrored
<1>5. Good(w)
  BY <1>2, GoodGzWrite
<1>6. /\ u.gz.state = "buffering" =>
           w = IF Len(u.gz.buf) + Len(x) < MinBytes
               THEN [u EXCEPT !.gz.buf = u.gz.buf \o x]
               ELSE ZWrite(CommitCompressed(u), x)
      /\ u.gz.state = "compressed" => w = ZWrite(u, x)
      /\ u.gz.state = "hijacked" => w = u
      /\ u.gz.state = "identity" => w = RecWrite(u, e)
  BY <1>4, GzWriteForm
<1> HIDE DEF e, m, u, w
<1>7. Response(q) /\ q.net = m /\ q.hdr = h /\ q.canFlush = p.canFlush /\ q.canHijack = p.canHijack
  BY <1>2, <1>3, HeadsFields
<1> HIDE DEF q, h
<1>8. /\ u \in Stack /\ Good(u) /\ Books(u.gz) /\ u.hdr \in Headers /\ u.net \in Net
      /\ u.gz \in Gz /\ u.gz.buf \in Seq(HandlerIds) /\ u.gz.zbuf \in Seq(HandlerIds)
      /\ u.rec \in Rec /\ h \in Headers
      /\ p.canFlush = u.canFlush /\ p.canHijack = u.canHijack
  BY <1>4, <1>7, MirroredParts
<1>9. u.canFlush => Mirrors(u.hdr, u.net, u.gz, h, m, TRUE)
  BY <1>4, <1>7 DEF Mirrored
<1>10. b \in Net
  BY <1>1, <1>3, <1>8, BodiedKeeps DEF h
<1> HIDE DEF b
<1>11. SUFFICES /\ w.canFlush = u.canFlush /\ w.canHijack = u.canHijack
                /\ u.canFlush => Mirrors(w.hdr, w.net, w.gz, h, b, TRUE)
  <2>1. Mirrored(w, Heads(p, b), TRUE)
    BY <1>2, <1>5, <1>8, <1>10, <1>11, MirroredBy DEF h
  <2>2. b = Bodied(p.net, p.hdr, Encode(x, FALSE))
    BY <1>3 DEF e
  <2> QED BY <2>1, <2>2 DEF w
<1>12. b = Bodied(m, h, Encode(x, FALSE))
  BY DEF b, e, h
<1>13. CASE u.gz.state = "buffering" /\ Len(u.gz.buf) + Len(x) < MinBytes
  <2> DEFINE y == u.gz.buf \o x
             g == [u.gz EXCEPT !.buf = y]
  <2>1. y \in Seq(HandlerIds)
    BY <1>8, ConcatProperties
  <2>2. w = [u EXCEPT !.gz.buf = y]
    BY <1>6, <1>13
  <2> HIDE DEF y
  <2>3. w = Put(u, u.hdr, u.net, u.rec, g)
    BY <1>8, <2>2 DEF Put, Stack
  <2>4. /\ g \in Gz /\ g.state = "buffering" /\ g.status = u.gz.status /\ g.zbuf = u.gz.zbuf
        /\ g.accepts = u.gz.accepts /\ g.held = u.gz.held /\ g.buf = y
    BY <1>8, <1>13, <2>1 DEF Gz
  <2> HIDE DEF g
  <2>5. /\ w.hdr = u.hdr /\ w.net = u.net /\ w.gz = g
        /\ w.canFlush = u.canFlush /\ w.canHijack = u.canHijack
    BY <1>8, <2>3, <2>4, PutFields
  <2>6. u.canFlush => Mirrors(u.hdr, u.net, g, h, b, TRUE)
    <3> SUFFICES ASSUME u.canFlush PROVE Mirrors(u.hdr, u.net, g, h, b, TRUE)
      OBVIOUS
    <3>1. Common(u.hdr, u.net, h, m) /\ Buffered(u.hdr, u.net, u.gz, h, m)
      BY <1>9, <1>13 DEF Mirrors
    <3>2. Common(u.hdr, u.net, h, b)
      BY <1>3, <1>8, <1>12, <3>1, BodyCommon
    <3>3. Buffered(u.hdr, u.net, g, h, b)
      BY <1>3, <1>8, <1>12, <2>4, <3>1, TakesBuffered DEF y
    <3> QED BY <2>4, <3>2, <3>3 DEF Mirrors
  <2> QED BY <2>5, <2>6
<1>14. CASE u.gz.state = "buffering" /\ ~(Len(u.gz.buf) + Len(x) < MinBytes)
  <2> DEFINE c == CommitCompressed(u)
  <2>1. w = ZWrite(c, x)
    BY <1>6, <1>14
  <2>2. /\ c.hdr = LeftHeader(u, TRUE)
        /\ c.net = Headed(u.net, SentHeader(u, TRUE), u.gz.status)
        /\ c.gz.state = "compressed" /\ c.gz.accepts = u.gz.accepts
        /\ c.gz.zbuf = IF u.net.broken THEN u.gz.zbuf ELSE u.gz.zbuf \o u.gz.buf
        /\ c.canFlush = u.canFlush /\ c.canHijack = u.canHijack
    BY <1>8, CommitCompressedFields
  <2>3. c \in Stack
    BY <1>8, <1>14, GoodCommitCompressed, GoodParts
  <2> HIDE DEF c
  <2>4. /\ w.hdr = c.hdr /\ w.net = c.net /\ w.gz.state = "compressed"
        /\ w.gz.accepts = c.gz.accepts
        /\ w.gz.zbuf = IF c.net.broken THEN c.gz.zbuf ELSE c.gz.zbuf \o x
        /\ w.canFlush = c.canFlush /\ w.canHijack = c.canHijack
    BY <2>1, <2>2, <2>3, ZWriteFields
  <2>5. u.canFlush => Mirrors(w.hdr, w.net, w.gz, h, b, TRUE)
    <3> SUFFICES ASSUME u.canFlush PROVE Mirrors(w.hdr, w.net, w.gz, h, b, TRUE)
      OBVIOUS
    <3>1. Mirrors(u.hdr, u.net, u.gz, h, m, TRUE) /\ u.gz.state = "buffering"
      BY <1>9, <1>14
    <3>2. Common(c.hdr, c.net, h, m) /\ SentMarked(c.hdr, c.net, c.gz, h, m)
      BY <1>8, <2>2, <3>1, CompressedMirrors
    <3>3. /\ c.hdr \in Headers /\ c.net \in Net /\ c.gz \in Gz /\ c.gz.zbuf \in Seq(HandlerIds)
      BY <2>3, StackFields, GzFields
    <3>4. ~c.net.broken => Len(c.gz.zbuf) + Len(x) >= MinBytes
      <4>1. u.net.broken = c.net.broken
        <5>1. u.net.broken = m.broken
          BY <3>1 DEF Mirrors, Common
        <5>2. c.net.broken = m.broken
          BY <3>2 DEF Common
        <5> QED BY <5>1, <5>2
      <4>2. u.gz.zbuf = <<>>
        BY <3>1 DEF Mirrors, Buffered
      <4>3. <<>> \o u.gz.buf = u.gz.buf
        BY <1>8, ConcatEmptySeq
      <4>4. ~c.net.broken => c.gz.zbuf = u.gz.buf
        BY <2>2, <4>1, <4>2, <4>3
      <4>5. Len(u.gz.buf) \in Nat /\ Len(x) \in Nat
        BY <1>8
      <4> QED BY <1>14, <4>4, <4>5, MinBytesAssumption
    <3>5. Common(c.hdr, c.net, h, b)
      BY <1>3, <1>8, <1>12, <3>2, <3>3, BodyCommon
    <3>6. SentMarked(c.hdr, c.net, w.gz, h, b) /\ Long(b)
      <4>1. /\ h \in Headers /\ m \in Net /\ c.hdr \in Headers /\ c.net \in Net /\ c.gz \in Gz
            /\ Common(c.hdr, c.net, h, m) /\ SentMarked(c.hdr, c.net, c.gz, h, m)
        BY <1>3, <1>8, <3>2, <3>3
      <4>2. /\ w.gz.accepts = c.gz.accepts
            /\ w.gz.zbuf = IF c.net.broken THEN c.gz.zbuf ELSE c.gz.zbuf \o x
        BY <2>4
      <4>3. SentMarked(c.hdr, c.net, w.gz, h, Bodied(m, h, Encode(x, FALSE)))
        BY <4>1, <4>2, TakesMarked
      <4>4. Long(Bodied(m, h, Encode(x, FALSE)))
        BY <3>4, <4>1, <4>2, TakesMarked
      <4> QED BY <1>12, <4>3, <4>4
    <3> QED BY <2>4, <3>5, <3>6 DEF Mirrors
  <2> QED BY <2>2, <2>4, <2>5
<1>15. CASE u.gz.state = "compressed"
  <2>1. w = ZWrite(u, x)
    BY <1>6, <1>15
  <2>2. /\ w.hdr = u.hdr /\ w.net = u.net /\ w.gz.state = "compressed"
        /\ w.gz.accepts = u.gz.accepts
        /\ w.gz.zbuf = IF u.net.broken THEN u.gz.zbuf ELSE u.gz.zbuf \o x
        /\ w.canFlush = u.canFlush /\ w.canHijack = u.canHijack
    BY <1>8, <1>15, <2>1, ZWriteFields
  <2>3. u.canFlush => Mirrors(w.hdr, w.net, w.gz, h, b, TRUE)
    <3> SUFFICES ASSUME u.canFlush PROVE Mirrors(w.hdr, w.net, w.gz, h, b, TRUE)
      OBVIOUS
    <3>1. Common(u.hdr, u.net, h, m) /\ SentMarked(u.hdr, u.net, u.gz, h, m) /\ Long(m)
      BY <1>9, <1>15 DEF Mirrors
    <3>2. Common(u.hdr, u.net, h, b)
      BY <1>3, <1>8, <1>12, <3>1, BodyCommon
    <3>3. SentMarked(u.hdr, u.net, w.gz, h, b) /\ Long(b)
      BY <1>3, <1>8, <1>12, <2>2, <3>1, TakesMarked
    <3> QED BY <2>2, <3>2, <3>3 DEF Mirrors
  <2> QED BY <2>2, <2>3
<1>16. CASE u.gz.state = "hijacked"
  <2>1. w = u
    BY <1>6, <1>16
  <2>2. u.canFlush => Mirrors(u.hdr, u.net, u.gz, h, b, TRUE)
    <3> SUFFICES ASSUME u.canFlush PROVE Mirrors(u.hdr, u.net, u.gz, h, b, TRUE)
      OBVIOUS
    <3>1. Common(u.hdr, u.net, h, m) /\ Cut(u.net, m)
      BY <1>9, <1>16 DEF Mirrors
    <3>2. m.hijacked
      BY <3>1 DEF Common, Cut
    <3>3. Common(u.hdr, u.net, h, b)
      BY <1>3, <1>8, <1>12, <3>1, BodyCommon
    <3>4. Cut(u.net, b)
      BY <1>3, <1>8, <1>12, <3>1, <3>2, TakesCut
    <3> QED BY <1>16, <3>3, <3>4 DEF Mirrors
  <2> QED BY <2>1, <2>2
<1>17. CASE u.gz.state = "identity"
  <2>1. w = RecWrite(u, e)
    BY <1>6, <1>17
  <2>2. /\ w.hdr = u.hdr /\ w.net = Bodied(u.net, u.hdr, e) /\ w.gz = u.gz
        /\ w.canFlush = u.canFlush /\ w.canHijack = u.canHijack
    BY <1>1, <1>8, <2>1, RecWriteFields
  <2>3. u.canFlush => Mirrors(w.hdr, w.net, w.gz, h, b, TRUE)
    <3> SUFFICES ASSUME u.canFlush PROVE Mirrors(w.hdr, w.net, w.gz, h, b, TRUE)
      OBVIOUS
    <3>1. Common(u.hdr, u.net, h, m) /\ SentPlain(u.hdr, u.net, h, m)
      BY <1>9, <1>17 DEF Mirrors
    <3>2. Quiet(u.net)
      BY <3>1 DEF SentPlain, Sent, Quiet
    <3>3. Common(u.hdr, Bodied(u.net, u.hdr, Encode(x, FALSE)), h, b)
      BY <1>3, <1>8, <1>12, <3>1, <3>2, BodyCommon
    <3>4. SentPlain(u.hdr, Bodied(u.net, u.hdr, Encode(x, FALSE)), h, b)
      BY <1>3, <1>8, <1>12, <3>1, TakesPlain
    <3> QED BY <1>17, <2>2, <3>3, <3>4 DEF Mirrors, e
  <2> QED BY <2>2, <2>3
<1> QED BY <1>4, <1>13, <1>14, <1>15, <1>16, <1>17 DEF GzipStates

(* Flush.                                                                  *)
LEMMA RecFlushFields ==
  ASSUME NEW t \in Stack
  PROVE  /\ RecFlush(t).hdr = t.hdr /\ RecFlush(t).gz = t.gz
         /\ RecFlush(t).net = IF t.canFlush THEN Headed(t.net, t.hdr, OK200) ELSE t.net
         /\ RecFlush(t).canFlush = t.canFlush /\ RecFlush(t).canHijack = t.canHijack
<1> DEFINE n == Headed(t.net, t.hdr, OK200)
           r == Touched(t.rec)
<1>1. t.hdr \in Headers /\ t.net \in Net /\ t.rec \in Rec /\ t.gz \in Gz /\ Recorded(t)
  BY StackFields
<1>2. n \in Net /\ r \in Rec
  BY <1>1, OkIsNat, HeadedKeeps, RecTypes
<1>3. RecFlush(t) = IF t.canFlush THEN With(t, t.hdr, n, r) ELSE t
  BY <1>1, RecFlushForm
<1> HIDE DEF n, r
<1>4. CASE t.canFlush
  <2>1. RecFlush(t) = Put(t, t.hdr, n, r, t.gz)
    BY <1>3, <1>4, WithIsPut
  <2>2. /\ RecFlush(t).hdr = t.hdr /\ RecFlush(t).net = n /\ RecFlush(t).gz = t.gz
        /\ RecFlush(t).canFlush = t.canFlush /\ RecFlush(t).canHijack = t.canHijack
    BY <1>1, <1>2, <2>1, PutFields
  <2> QED BY <1>4, <2>2 DEF n
<1>5. CASE ~t.canFlush
  BY <1>3, <1>5
<1> QED BY <1>4, <1>5

LEMMA RecFlushQuiet ==
  ASSUME NEW t \in Stack, Quiet(t.net)
  PROVE  RecFlush(t).net = t.net
<1>1. t.hdr \in Headers /\ t.net \in Net
  BY StackFields
<1>2. Headed(t.net, t.hdr, OK200) = t.net
  BY <1>1, OkIsNat, HeadedTwice
<1> QED BY <1>2, RecFlushFields

LEMMA ZFlushFields ==
  ASSUME NEW t \in Stack
  PROVE  /\ ZFlush(t).hdr = t.hdr
         /\ ZFlush(t).canFlush = t.canFlush /\ ZFlush(t).canHijack = t.canHijack
         /\ t.gz.zbuf = <<>> \/ t.net.broken => ZFlush(t) = t
         /\ ~(t.gz.zbuf = <<>> \/ t.net.broken) =>
              /\ ZFlush(t).net = Bodied(t.net, t.hdr, Encode(t.gz.zbuf, TRUE))
              /\ ZFlush(t).gz.state = t.gz.state /\ ZFlush(t).gz.accepts = t.gz.accepts
              /\ ZFlush(t).gz.zbuf = <<>>
<1> DEFINE e == Encode(t.gz.zbuf, TRUE)
           n == Bodied(t.net, t.hdr, e)
           r == Touched(t.rec)
           g == [t.gz EXCEPT !.zbuf = <<>>]
<1>1. t.hdr \in Headers /\ t.net \in Net /\ t.rec \in Rec /\ t.gz \in Gz /\ e \in Seq(Byte)
  BY StackFields, GzFields, EncodeType
<1>2. ZFlush(t) = IF t.gz.zbuf = <<>> \/ t.net.broken THEN t ELSE Put(t, t.hdr, n, r, g)
  BY ZFlushForm
<1> HIDE DEF e
<1>3. n \in Net /\ r \in Rec
  BY <1>1, BodiedKeeps, RecTypes
<1>4. g \in Gz /\ g.state = t.gz.state /\ g.accepts = t.gz.accepts /\ g.zbuf = <<>>
  BY <1>1, EmptyIds, GzZbuf
<1> HIDE DEF n, r, g
<1>5. CASE t.gz.zbuf = <<>> \/ t.net.broken
  BY <1>2, <1>5
<1>6. CASE ~(t.gz.zbuf = <<>> \/ t.net.broken)
  <2>1. ZFlush(t) = Put(t, t.hdr, n, r, g)
    BY <1>2, <1>6
  <2>2. /\ ZFlush(t).hdr = t.hdr /\ ZFlush(t).net = n /\ ZFlush(t).gz = g
        /\ ZFlush(t).canFlush = t.canFlush /\ ZFlush(t).canHijack = t.canHijack
    BY <1>1, <1>3, <1>4, <2>1, PutFields
  <2> QED BY <1>4, <1>6, <2>2 DEF n, e
<1> QED BY <1>5, <1>6

(* What the compressor held is sent.                                       *)
LEMMA EmittedMirrors ==
  ASSUME NEW H \in Headers, NEW n \in Net, NEW g \in Gz, NEW h \in Headers, NEW m \in Net,
         Common(H, n, h, m), SentMarked(H, n, g, h, m)
  PROVE  /\ Common(H, Bodied(n, H, Encode(g.zbuf, TRUE)), h, m)
         /\ Sent(H, Bodied(n, H, Encode(g.zbuf, TRUE)), h, m)
         /\ Marked(Bodied(n, H, Encode(g.zbuf, TRUE)).hdr, m.hdr)
         /\ Zs(Bodied(n, H, Encode(g.zbuf, TRUE)).body) \subseteq {TRUE}
         /\ Trails(Bodied(n, H, Encode(g.zbuf, TRUE)), m, <<>>)
<1> DEFINE e == Encode(g.zbuf, TRUE)
           a == Bodied(n, H, e)
<1>1. /\ Quiet(n) /\ ~n.hijacked /\ BodyAllowed(n.status) /\ m.broken = n.broken
      /\ g.zbuf \in Seq(HandlerIds) /\ Trails(n, m, g.zbuf)
  BY GzFields DEF SentMarked, Sent, Common, Quiet
<1>2. Trails(a, m, <<>>)
  BY <1>1, TrailsSent
<1>3. Zs(a.body) \subseteq {TRUE}
  BY <1>1, ZsBodied DEF SentMarked
<1>4. e \in Seq(Byte)
  BY <1>1, EncodeType
<1> HIDE DEF e
<1>5. /\ a.infos = n.infos /\ a.status = n.status /\ a.hdr = n.hdr /\ a.trailers = n.trailers
      /\ a.broken = n.broken /\ a.hijacked = n.hijacked
  BY <1>1, <1>4, BodiedQuiet
<1> HIDE DEF a
<1>6. Common(H, a, h, m)
  BY <1>5 DEF Common
<1>7. Sent(H, a, h, m) /\ Marked(a.hdr, m.hdr)
  BY <1>5 DEF SentMarked, Sent
<1> QED BY <1>2, <1>3, <1>6, <1>7 DEF a, e

LEMMA ZFlushMirrors ==
  ASSUME NEW t \in Stack, NEW h, NEW m, t.gz.state = "compressed",
         Mirrors(t.hdr, t.net, t.gz, h, m, TRUE)
  PROVE  /\ Mirrors(ZFlush(t).hdr, ZFlush(t).net, ZFlush(t).gz, h, m, TRUE)
         /\ Quiet(ZFlush(t).net) /\ ZFlush(t).gz.state = "compressed"
<1>1. t.hdr \in Headers /\ t.net \in Net /\ t.gz \in Gz
  BY StackFields
<1>2. /\ Common(t.hdr, t.net, h, m) /\ SentMarked(t.hdr, t.net, t.gz, h, m) /\ Long(m)
      /\ h \in Headers /\ m \in Net
  BY DEF Mirrors, Common
<1> DEFINE w == ZFlush(t)
<1>3. w.hdr = t.hdr
  BY ZFlushFields
<1>4. CASE t.gz.zbuf = <<>> \/ t.net.broken
  <2>1. w = t
    BY <1>4, ZFlushFields
  <2> QED BY <1>1, <2>1, MirrorsQuiet
<1>5. CASE ~(t.gz.zbuf = <<>> \/ t.net.broken)
  <2>1. /\ w.net = Bodied(t.net, t.hdr, Encode(t.gz.zbuf, TRUE))
        /\ w.gz.state = "compressed" /\ w.gz.accepts = t.gz.accepts /\ w.gz.zbuf = <<>>
    BY <1>5, ZFlushFields
  <2> HIDE DEF w
  <2>2. /\ Common(w.hdr, w.net, h, m) /\ Sent(w.hdr, w.net, h, m) /\ Marked(w.net.hdr, m.hdr)
        /\ Zs(w.net.body) \subseteq {TRUE} /\ Trails(w.net, m, <<>>)
    BY <1>1, <1>2, <1>3, <2>1, EmittedMirrors
  <2>3. SentMarked(w.hdr, w.net, w.gz, h, m)
    BY <1>2, <2>1, <2>2 DEF SentMarked
  <2>4. Mirrors(w.hdr, w.net, w.gz, h, m, TRUE)
    BY <1>2, <2>1, <2>2, <2>3 DEF Mirrors
  <2>5. Quiet(w.net)
    BY <2>2 DEF Sent, Quiet
  <2> QED BY <2>1, <2>4, <2>5 DEF w
<1> QED BY <1>4, <1>5

LEMMA GzFlushed ==
  ASSUME NEW t, NEW p, Mirrored(t, p, TRUE)
  PROVE  /\ GzFlush(t).canFlush = t.canFlush /\ GzFlush(t).canHijack = t.canHijack
         /\ t.canFlush => Mirrors(GzFlush(t).hdr, GzFlush(t).net, GzFlush(t).gz, p.hdr,
                                  Headed(p.net, p.hdr, OK200), TRUE)
<1> DEFINE m == Headed(p.net, p.hdr, OK200)
           u == ImplicitStatus(t)
           q == Heads(p, m)
           w == GzFlush(t)
           h == p.hdr
<1>1. Response(p) /\ p.hdr \in Headers /\ p.net \in Net /\ p.canFlush = t.canFlush
      /\ p.canHijack = t.canHijack
  BY MirroredParts
<1>2. m \in Net
  BY <1>1, OkIsNat, HeadedKeeps
<1>3. Mirrored(u, q, TRUE) /\ u.gz.state \in GzipStates \ {"pending"}
  BY ImplicitMirrored
<1>4. /\ u.gz.state = "buffering" =>
           w = IF t.net.broken THEN CommitIdentity(u) ELSE RecFlush(CommitIdentity(u))
      /\ u.gz.state = "compressed" => w = IF t.net.broken THEN ZFlush(u) ELSE RecFlush(ZFlush(u))
      /\ u.gz.state = "hijacked" => w = u
      /\ u.gz.state = "identity" => w = RecFlush(u)
  BY <1>3, GzFlushForm
<1> HIDE DEF m, u, w
<1>5. Response(q) /\ q.net = m /\ q.hdr = h /\ q.canFlush = p.canFlush /\ q.canHijack = p.canHijack
  BY <1>1, <1>2, HeadsFields
<1> HIDE DEF q, h
<1>6. /\ u \in Stack /\ Good(u) /\ Books(u.gz) /\ u.gz.buf \in Seq(HandlerIds)
      /\ t.canFlush = u.canFlush /\ t.canHijack = u.canHijack
  BY <1>1, <1>3, <1>5, MirroredParts
<1>7. u.canFlush => Mirrors(u.hdr, u.net, u.gz, h, m, TRUE)
  BY <1>3, <1>5 DEF Mirrored
<1>8. SUFFICES /\ w.canFlush = u.canFlush /\ w.canHijack = u.canHijack
               /\ u.canFlush => Mirrors(w.hdr, w.net, w.gz, h, m, TRUE)
  BY <1>6 DEF w, h, m
<1>9. CASE u.gz.state = "buffering"
  <2> DEFINE v == CommitIdentity(u)
  <2>1. w = v \/ w = RecFlush(v)
    BY <1>4, <1>9
  <2>2. /\ v.hdr = LeftHeader(u, FALSE)
        /\ v.net = IF u.gz.buf = <<>> THEN Headed(u.net, SentHeader(u, FALSE), u.gz.status)
                   ELSE Bodied(Headed(u.net, SentHeader(u, FALSE), u.gz.status),
                               LeftHeader(u, FALSE), Encode(u.gz.buf, FALSE))
        /\ v.gz.state = "identity"
        /\ v.canFlush = u.canFlush /\ v.canHijack = u.canHijack
    BY <1>6, CommitIdentityFields
  <2>3. v \in Stack
    BY <1>6, <1>9, GoodCommitIdentity, GoodParts
  <2> HIDE DEF v
  <2>4. /\ w.hdr = v.hdr /\ w.gz = v.gz /\ w.canFlush = u.canFlush /\ w.canHijack = u.canHijack
    BY <2>1, <2>2, <2>3, RecFlushFields
  <2>5. u.canFlush => Mirrors(w.hdr, w.net, w.gz, h, m, TRUE)
    <3> SUFFICES ASSUME u.canFlush PROVE Mirrors(w.hdr, w.net, w.gz, h, m, TRUE)
      OBVIOUS
    <3>1. Mirrors(u.hdr, u.net, u.gz, h, m, TRUE) /\ u.gz.state = "buffering"
      BY <1>7, <1>9
    <3>2. Mirrors(v.hdr, v.net, v.gz, h, m, TRUE)
      <4>1. CASE u.gz.buf = <<>>
        <5>1. v.net = Headed(u.net, SentHeader(u, FALSE), u.gz.status)
          BY <2>2, <4>1
        <5>2. Mirrors(LeftHeader(u, FALSE), Headed(u.net, SentHeader(u, FALSE), u.gz.status),
                      v.gz, h, m, TRUE)
          BY <1>6, <2>2, <3>1, <4>1, IdentityMirrors
        <5> QED BY <2>2, <5>1, <5>2
      <4>2. CASE u.gz.buf # <<>>
        <5>1. v.net = Bodied(Headed(u.net, SentHeader(u, FALSE), u.gz.status),
                             LeftHeader(u, FALSE), Encode(u.gz.buf, FALSE))
          BY <2>2, <4>2
        <5>2. Mirrors(LeftHeader(u, FALSE),
                      Bodied(Headed(u.net, SentHeader(u, FALSE), u.gz.status),
                             LeftHeader(u, FALSE), Encode(u.gz.buf, FALSE)),
                      v.gz, h, m, TRUE)
          BY <1>6, <2>2, <3>1, IdentityMirrors
        <5> QED BY <2>2, <5>1, <5>2
      <4> QED BY <4>1, <4>2
    <3>3. Quiet(v.net)
      BY <2>2, <3>2, MirrorsQuiet
    <3>4. w.net = v.net
      BY <2>1, <2>3, <3>3, RecFlushQuiet
    <3> QED BY <2>4, <3>2, <3>4
  <2> QED BY <2>4, <2>5
<1>10. CASE u.gz.state = "compressed"
  <2> DEFINE v == ZFlush(u)
  <2>1. w = v \/ w = RecFlush(v)
    BY <1>4, <1>10
  <2>2. v.canFlush = u.canFlush /\ v.canHijack = u.canHijack
    BY <1>6, ZFlushFields
  <2>3. v \in Stack
    BY <1>6, GoodZFlush, GoodParts
  <2>4. u.canFlush => Mirrors(v.hdr, v.net, v.gz, h, m, TRUE) /\ Quiet(v.net)
    BY <1>6, <1>7, <1>10, ZFlushMirrors
  <2> HIDE DEF v
  <2>5. /\ w.hdr = v.hdr /\ w.gz = v.gz /\ w.canFlush = u.canFlush /\ w.canHijack = u.canHijack
    BY <2>1, <2>2, <2>3, RecFlushFields
  <2>6. u.canFlush => w.net = v.net
    BY <2>1, <2>3, <2>4, RecFlushQuiet
  <2> QED BY <2>4, <2>5, <2>6
<1>11. CASE u.gz.state = "hijacked"
  BY <1>4, <1>7, <1>11
<1>12. CASE u.gz.state = "identity"
  <2>1. w = RecFlush(u)
    BY <1>4, <1>12
  <2>2. /\ w.hdr = u.hdr /\ w.gz = u.gz /\ w.canFlush = u.canFlush /\ w.canHijack = u.canHijack
    BY <1>6, <2>1, RecFlushFields
  <2>3. u.canFlush => w.net = u.net
    <3> SUFFICES ASSUME u.canFlush PROVE w.net = u.net
      OBVIOUS
    <3>1. Quiet(u.net)
      BY <1>7, <1>12, MirrorsQuiet
    <3> QED BY <1>6, <2>1, <3>1, RecFlushQuiet
  <2> QED BY <1>7, <2>2, <2>3
<1> QED BY <1>3, <1>9, <1>10, <1>11, <1>12 DEF GzipStates

LEMMA GzFlushMirrored ==
  ASSUME NEW t, NEW p, Mirrored(t, p, TRUE)
  PROVE  Mirrored(GzFlush(t), NetFlush(p), TRUE)
<1> DEFINE w == GzFlush(t)
           m == Headed(p.net, p.hdr, OK200)
<1>1. /\ Good(t) /\ Response(p) /\ p.hdr \in Headers /\ p.net \in Net
      /\ p.canFlush = t.canFlush /\ p.canHijack = t.canHijack
  BY MirroredParts
<1>2. Good(w)
  BY <1>1, GoodGzFlush
<1>3. /\ w.canFlush = t.canFlush /\ w.canHijack = t.canHijack
      /\ t.canFlush => Mirrors(w.hdr, w.net, w.gz, p.hdr, m, TRUE)
  BY GzFlushed
<1>4. m \in Net
  BY <1>1, OkIsNat, HeadedKeeps
<1>5. NetFlush(p) = IF p.canFlush THEN Heads(p, m) ELSE p
  BY <1>1, NetForms DEF Heads
<1> HIDE DEF w, m
<1>6. CASE p.canFlush
  <2>1. Mirrored(w, Heads(p, m), TRUE)
    BY <1>1, <1>2, <1>3, <1>4, MirroredBy
  <2> QED BY <1>5, <1>6, <2>1 DEF w
<1>7. CASE ~p.canFlush
  <2>1. Mirrored(w, p, TRUE)
    BY <1>1, <1>2, <1>3, <1>7 DEF Mirrored
  <2> QED BY <1>5, <1>7, <2>1 DEF w
<1> QED BY <1>6, <1>7

(* Hijack.                                                                 *)
Taken(n) == [n EXCEPT !.hijacked = TRUE]

LEMMA TakenFields ==
  ASSUME NEW n \in Net
  PROVE  /\ Taken(n) \in Net /\ Taken(n).hijacked
         /\ Taken(n).infos = n.infos /\ Taken(n).status = n.status /\ Taken(n).hdr = n.hdr
         /\ Taken(n).body = n.body /\ Taken(n).trailers = n.trailers
         /\ Taken(n).broken = n.broken
BY DEF Net, Taken

LEMMA BehindSome ==
  ASSUME NEW H, NEW n \in Net, NEW g, NEW h, NEW m \in Net, NEW zip, Mirrors(H, n, g, h, m, zip)
  PROVE  /\ n.status # NoStatus => n.status = m.status
         /\ \E z \in BOOLEAN : Zs(n.body) \subseteq {z}
         /\ \E q \in Seq(Nat) : Ids(m.body) = Ids(n.body) \o q
<1>1. CASE Undecided(H, n, g, h, m, zip)
  <2>1. m.body \in Seq(Byte)
    BY DEF Net
  <2>2. Ids(m.body) = Ids(m.body) \o <<>> /\ <<>> \in Seq(Nat)
    BY <2>1, IdsType, ConcatEmptySeq
  <2>3. n = m /\ Zs(n.body) \subseteq {FALSE}
    BY <1>1 DEF Undecided
  <2> QED BY <2>2, <2>3
<1>2. CASE Buffered(H, n, g, h, m)
  <2>1. Zs(n.body) \subseteq {FALSE}
    BY <1>2, IdsEmpty DEF Buffered
  <2>2. n.status = NoStatus
    BY <1>2 DEF Buffered, Quiet
  <2> QED BY <1>2, <2>1, <2>2 DEF Buffered, Trails
<1>3. CASE SentPlain(H, n, h, m)
  BY <1>3 DEF SentPlain, Sent, Trails
<1>4. CASE SentMarked(H, n, g, h, m)
  BY <1>4 DEF SentMarked, Sent, Trails
<1>5. CASE Cut(n, m)
  BY <1>5 DEF Cut
<1> QED BY <1>1, <1>2, <1>3, <1>4, <1>5 DEF Mirrors

LEMMA TakenMirrors ==
  ASSUME NEW H, NEW n \in Net, NEW g, NEW h, NEW m \in Net, NEW zip, Mirrors(H, n, g, h, m, zip)
  PROVE  /\ \A f : f.state = "hijacked" => Mirrors(H, Taken(n), f, h, Taken(m), zip)
         /\ ~zip /\ g.state = "pending" => Mirrors(H, Taken(n), g, h, Taken(m), zip)
<1> DEFINE a == Taken(n)
           b == Taken(m)
<1>1. /\ a \in Net /\ a.hijacked /\ a.infos = n.infos /\ a.status = n.status /\ a.hdr = n.hdr
      /\ a.body = n.body /\ a.trailers = n.trailers /\ a.broken = n.broken
  BY TakenFields
<1>2. /\ b \in Net /\ b.hijacked /\ b.infos = m.infos /\ b.status = m.status /\ b.hdr = m.hdr
      /\ b.body = m.body /\ b.trailers = m.trailers /\ b.broken = m.broken
  BY TakenFields
<1>3. n = m => a = b
  OBVIOUS
<1> HIDE DEF a, b
<1>4. b.hijacked = a.hijacked
  BY <1>1, <1>2 DEF a, b, Taken, Net
<1>5. Common(H, a, h, b)
  BY <1>1, <1>2, <1>4 DEF Mirrors, Common
<1>6. Cut(a, b)
  <2>1. /\ n.status # NoStatus => n.status = m.status
        /\ \E z \in BOOLEAN : Zs(n.body) \subseteq {z}
        /\ \E q \in Seq(Nat) : Ids(m.body) = Ids(n.body) \o q
    BY BehindSome
  <2> QED BY <1>1, <1>2, <2>1 DEF Cut
<1>7. ~zip /\ g.state = "pending" => Undecided(H, a, g, h, b, zip)
  BY <1>1, <1>3 DEF Mirrors, Undecided
<1> QED BY <1>5, <1>6, <1>7 DEF Mirrors, a, b

LEMMA RecHijackFields ==
  ASSUME NEW t, Good(t)
  PROVE  /\ HijackFails(t) <=> ~t.canHijack \/ t.net.hijacked
         /\ HijackFails(t) => RecHijack(t) = t /\ GzHijack(t) = t
         /\ ~HijackFails(t) =>
              /\ RecHijack(t) \in Stack /\ RecHijack(t).gz = t.gz /\ RecHijack(t).hdr = t.hdr
              /\ RecHijack(t).net = Taken(t.net)
              /\ RecHijack(t).canFlush = t.canFlush /\ RecHijack(t).canHijack = t.canHijack
<1>1. HijackFails(t) <=> ~t.canHijack \/ t.net.hijacked
  BY GoodParts, RecHijackForm
<1>2. HijackFails(t) => RecHijack(t) = t /\ GzHijack(t) = t
  BY DEF RecHijack, GzHijack
<1>3. ASSUME ~HijackFails(t)
      PROVE  /\ RecHijack(t) \in Stack /\ RecHijack(t).gz = t.gz /\ RecHijack(t).hdr = t.hdr
             /\ RecHijack(t).net = Taken(t.net)
             /\ RecHijack(t).canFlush = t.canFlush /\ RecHijack(t).canHijack = t.canHijack
  <2>1. /\ Good(RecHijack(t)) /\ RecHijack(t).gz = t.gz /\ RecHijack(t).hdr = t.hdr
        /\ RecHijack(t).net = Taken(t.net)
    BY <1>3, GoodRecHijack DEF Taken
  <2>2. RecHijack(t).canFlush = t.canFlush /\ RecHijack(t).canHijack = t.canHijack
    <3> DEFINE n == [t.net EXCEPT !.hijacked = TRUE]
               r == [t.rec EXCEPT !.bare = ~t.rec.wrote, !.wrote = TRUE]
    <3>1. RecHijack(t) = With(t, t.hdr, n, r)
      BY <1>3, GoodParts, RecHijackForm
    <3>2. t \in Stack
      BY GoodParts
    <3> HIDE DEF n, r
    <3> QED BY <3>1, <3>2 DEF With, Stack
  <2> QED BY <2>1, <2>2, GoodParts
<1> QED BY <1>1, <1>2, <1>3

LEMMA ReleaseFlags ==
  ASSUME NEW t \in Stack
  PROVE  Release(t).canFlush = t.canFlush /\ Release(t).canHijack = t.canHijack
BY DEF Release, Stack

LEMMA GzHijackFields ==
  ASSUME NEW t, Good(t), ~HijackFails(t)
  PROVE  /\ GzHijack(t).hdr = t.hdr /\ GzHijack(t).net = Taken(t.net)
         /\ GzHijack(t).gz.state = "hijacked"
         /\ GzHijack(t).canFlush = t.canFlush /\ GzHijack(t).canHijack = t.canHijack
<1> DEFINE u == RecHijack(t)
           g == [t.gz EXCEPT !.buf = <<>>]
           v == Put(u, u.hdr, u.net, u.rec, g)
           w == Release(v)
<1>1. /\ u \in Stack /\ u.gz = t.gz /\ u.hdr = t.hdr /\ u.net = Taken(t.net)
      /\ u.canFlush = t.canFlush /\ u.canHijack = t.canHijack
  BY RecHijackFields
<1>2. t.gz \in Gz /\ Books(t.gz)
  BY GoodParts
<1>3. g \in Gz /\ Books(g)
  <2>1. Len(<<>>) < MinBytes
    BY EmptyIds, MinBytesAssumption
  <2> QED BY <1>2, <2>1, EmptyIds, BooksBuf
<1>4. [u EXCEPT !.gz.buf = <<>>] = v
  BY <1>1 DEF Put, Stack
<1>5. GzHijack(t) = [w EXCEPT !.gz.state = "hijacked"]
  BY <1>4 DEF GzHijack
<1> HIDE DEF u, g
<1>6. /\ v \in Stack /\ v.gz = g /\ v.hdr = u.hdr /\ v.net = u.net
      /\ v.canFlush = u.canFlush /\ v.canHijack = u.canHijack
  BY <1>1, <1>3, StackFields, PutFields
<1> HIDE DEF v
<1>7. w \in Stack /\ w.hdr = v.hdr /\ w.net = v.net
  BY <1>3, <1>6, ReleaseBooks
<1>8. w.canFlush = v.canFlush /\ w.canHijack = v.canHijack
  BY <1>6, ReleaseFlags
<1> HIDE DEF w
<1>9. /\ [w EXCEPT !.gz.state = "hijacked"].hdr = w.hdr
      /\ [w EXCEPT !.gz.state = "hijacked"].net = w.net
      /\ [w EXCEPT !.gz.state = "hijacked"].gz.state = "hijacked"
      /\ [w EXCEPT !.gz.state = "hijacked"].canFlush = w.canFlush
      /\ [w EXCEPT !.gz.state = "hijacked"].canHijack = w.canHijack
  BY <1>7 DEF Stack, Gz
<1> QED BY <1>1, <1>5, <1>6, <1>7, <1>8, <1>9

LEMMA HijackMirrored ==
  ASSUME NEW t, NEW p, NEW zip, Mirrored(t, p, zip), NEW w, Good(w),
         HijackFails(t) => w = t,
         ~HijackFails(t) =>
           /\ w.hdr = t.hdr /\ w.net = Taken(t.net)
           /\ w.canFlush = t.canFlush /\ w.canHijack = t.canHijack
           /\ w.gz.state = "hijacked" \/ (~zip /\ w.gz = t.gz /\ t.gz.state = "pending")
  PROVE  Mirrored(w, NetHijack(p), zip)
<1>1. /\ Good(t) /\ t.net \in Net /\ Response(p) /\ p.hdr \in Headers /\ p.net \in Net
      /\ p.canFlush = t.canFlush /\ p.canHijack = t.canHijack
  BY MirroredParts
<1>2. NetHijack(p) = IF HijackFails(p) THEN p ELSE Heads(p, Taken(p.net))
  BY <1>1, NetForms DEF Heads, Taken
<1>3. HijackFails(p) <=> ~p.canHijack \/ p.net.hijacked
  BY <1>1, NetForms
<1>4. HijackFails(t) <=> ~t.canHijack \/ t.net.hijacked
  BY <1>1, RecHijackFields
<1>5. w.canFlush = t.canFlush /\ w.canHijack = t.canHijack
  OBVIOUS
<1>6. Taken(p.net) \in Net
  BY <1>1, TakenFields
<1>7. CASE ~t.canFlush
  <2>1. Mirrored(w, p, zip)
    BY <1>1, <1>5, <1>7 DEF Mirrored
  <2>2. Mirrored(w, Heads(p, Taken(p.net)), zip)
    BY <1>1, <1>5, <1>6, <1>7, MirroredBy
  <2> QED BY <1>2, <2>1, <2>2
<1>8. CASE t.canFlush
  <2>1. Mirrors(t.hdr, t.net, t.gz, p.hdr, p.net, zip)
    BY <1>8 DEF Mirrored
  <2>2. HijackFails(p) <=> HijackFails(t)
    BY <1>1, <1>3, <1>4, <2>1 DEF Mirrors, Common
  <2>3. CASE HijackFails(t)
    BY <1>2, <2>2, <2>3
  <2>4. CASE ~HijackFails(t)
    <3>1. Mirrors(w.hdr, w.net, w.gz, p.hdr, Taken(p.net), zip)
      BY <1>1, <2>1, <2>4, TakenMirrors
    <3>2. Mirrored(w, Heads(p, Taken(p.net)), zip)
      BY <1>1, <1>5, <1>6, <3>1, MirroredBy
    <3> QED BY <1>2, <2>2, <2>4, <3>2
  <2> QED BY <2>3, <2>4
<1> QED BY <1>7, <1>8

-----------------------------------------------------------------------------
(* The same calls where there is no Gzip: both writers do the same.        *)
LEMMA RecHeaderMirrored ==
  ASSUME NEW t, NEW p, Mirrored(t, p, FALSE), t.gz.state = "pending", NEW code \in Nat \ {0}
  PROVE  Mirrored(RecWriteHeader(t, code), Heads(p, Headed(p.net, p.hdr, code)), FALSE)
<1> DEFINE n == Headed(t.net, t.hdr, code)
           r == Coded(t.rec, code)
           m == Headed(p.net, p.hdr, code)
           u == RecWriteHeader(t, code)
<1>1. /\ t \in Stack /\ Good(t) /\ Recorded(t) /\ t.hdr \in Headers /\ t.net \in Net
      /\ t.rec \in Rec /\ t.gz \in Gz /\ Response(p) /\ p.hdr \in Headers /\ p.net \in Net
      /\ p.canFlush = t.canFlush /\ p.canHijack = t.canHijack /\ code \in Nat
  BY MirroredParts
<1>2. n \in Net /\ r \in Rec /\ m \in Net
  BY <1>1, HeadedKeeps, RecTypes
<1>3. u = With(t, t.hdr, n, r)
  BY <1>1, RecHeaderForm
<1>4. Good(u)
  BY <1>1, GoodRecHeader
<1>5. t.canFlush => Mirrors(t.hdr, n, t.gz, p.hdr, m, FALSE)
  BY <1>1, UndecidedStays DEF Mirrored
<1> HIDE DEF n, r, m, u
<1>6. u = Put(t, t.hdr, n, r, t.gz)
  BY <1>1, <1>3, WithIsPut
<1>7. /\ u.hdr = t.hdr /\ u.net = n /\ u.gz = t.gz
      /\ u.canFlush = t.canFlush /\ u.canHijack = t.canHijack
  BY <1>1, <1>2, <1>6, PutFields
<1>8. Mirrored(u, Heads(p, m), FALSE)
  BY <1>1, <1>2, <1>4, <1>5, <1>7, MirroredBy
<1> QED BY <1>8 DEF u, m

LEMMA UndecidedBody ==
  ASSUME NEW H \in Headers, NEW n \in Net, NEW g \in Gz, NEW h \in Headers, NEW m \in Net,
         NEW x \in Seq(HandlerIds), Mirrors(H, n, g, h, m, FALSE), g.state = "pending"
  PROVE  Mirrors(H, Bodied(n, H, Encode(x, FALSE)), g, h, Bodied(m, h, Encode(x, FALSE)), FALSE)
<1> DEFINE e == Encode(x, FALSE)
           k == Headed(n, H, OK200)
           a == Bodied(n, H, e)
<1>1. n = m /\ H = h /\ Common(H, n, h, m) /\ Zs(n.body) \subseteq {FALSE}
  BY DEF Mirrors, Undecided
<1>2. e \in Seq(Byte)
  BY EncodeType
<1>3. k \in Net /\ Quiet(k) /\ Bodied(k, H, e) = a
  BY <1>2, BodiedImplied
<1>4. Mirrors(H, k, g, h, Headed(m, h, OK200), FALSE)
  BY OkIsNat, UndecidedStays
<1>5. Common(H, k, h, k) /\ Zs(k.body) \subseteq {FALSE}
  BY <1>1, <1>4 DEF Mirrors, Undecided
<1> HIDE DEF k
<1>6. Common(H, Bodied(k, H, e), h, Bodied(k, h, e))
  BY <1>3, <1>5, BodyCommon
<1>7. Zs(Bodied(k, H, e).body) \subseteq {FALSE}
  BY <1>3, <1>5, ZsBodied
<1> HIDE DEF e, a
<1>8. Common(H, a, h, a) /\ Zs(a.body) \subseteq {FALSE}
  BY <1>1, <1>3, <1>6, <1>7
<1>9. Bodied(m, h, e) = a
  BY <1>1 DEF a
<1>10. Undecided(H, a, g, h, a, FALSE)
  BY <1>1, <1>8 DEF Undecided
<1>11. Mirrors(H, a, g, h, Bodied(m, h, e), FALSE)
  BY <1>8, <1>9, <1>10 DEF Mirrors
<1> QED BY <1>11 DEF a, e

LEMMA RecWriteMirrored ==
  ASSUME NEW t, NEW p, Mirrored(t, p, FALSE), t.gz.state = "pending", NEW x \in Seq(HandlerIds)
  PROVE  Mirrored(RecWrite(t, Encode(x, FALSE)),
                  Heads(p, Bodied(p.net, p.hdr, Encode(x, FALSE))), FALSE)
<1> DEFINE e == Encode(x, FALSE)
           m == Bodied(p.net, p.hdr, e)
           u == RecWrite(t, e)
<1>1. /\ t \in Stack /\ Good(t) /\ t.hdr \in Headers /\ t.net \in Net
      /\ t.gz \in Gz /\ Response(p) /\ p.hdr \in Headers /\ p.net \in Net
      /\ p.canFlush = t.canFlush /\ p.canHijack = t.canHijack
  BY MirroredParts
<1>2. e \in Seq(Byte)
  BY EncodeType
<1>3. Good(u)
  BY <1>1, GoodRecWrite
<1>4. t.canFlush => Mirrors(t.hdr, Bodied(t.net, t.hdr, e), t.gz, p.hdr, m, FALSE)
  BY <1>1, UndecidedBody DEF Mirrored
<1> HIDE DEF e
<1>5. /\ u.hdr = t.hdr /\ u.net = Bodied(t.net, t.hdr, e) /\ u.gz = t.gz
      /\ u.canFlush = t.canFlush /\ u.canHijack = t.canHijack
  BY <1>1, <1>2, RecWriteFields
<1>6. m \in Net
  BY <1>1, <1>2, BodiedKeeps
<1> HIDE DEF m, u
<1>7. Mirrored(u, Heads(p, m), FALSE)
  BY <1>1, <1>3, <1>4, <1>5, <1>6, MirroredBy
<1> QED BY <1>7 DEF u, m, e

LEMMA RecFlushMirrored ==
  ASSUME NEW t, NEW p, Mirrored(t, p, FALSE), t.gz.state = "pending"
  PROVE  Mirrored(RecFlush(t), NetFlush(p), FALSE)
<1> DEFINE n == Headed(t.net, t.hdr, OK200)
           m == Headed(p.net, p.hdr, OK200)
           u == RecFlush(t)
<1>1. /\ t \in Stack /\ Good(t) /\ t.hdr \in Headers /\ t.net \in Net
      /\ t.gz \in Gz /\ Response(p) /\ p.hdr \in Headers /\ p.net \in Net
      /\ p.canFlush = t.canFlush /\ p.canHijack = t.canHijack
  BY MirroredParts
<1>2. m \in Net
  BY <1>1, OkIsNat, HeadedKeeps
<1>3. NetFlush(p) = IF p.canFlush THEN Heads(p, m) ELSE p
  BY <1>1, NetForms DEF Heads
<1>4. Good(u)
  BY <1>1, GoodRecFlush
<1>5. t.canFlush => Mirrors(t.hdr, n, t.gz, p.hdr, m, FALSE)
  BY <1>1, OkIsNat, UndecidedStays DEF Mirrored
<1>6. /\ u.hdr = t.hdr /\ u.gz = t.gz /\ (t.canFlush => u.net = n)
      /\ u.canFlush = t.canFlush /\ u.canHijack = t.canHijack
  BY <1>1, RecFlushFields
<1> HIDE DEF n, m, u
<1>7. CASE p.canFlush
  <2>1. Mirrored(u, Heads(p, m), FALSE)
    BY <1>1, <1>2, <1>4, <1>5, <1>6, MirroredBy
  <2> QED BY <1>3, <1>7, <2>1 DEF u
<1>8. CASE ~p.canFlush
  <2>1. Mirrored(u, p, FALSE)
    BY <1>1, <1>4, <1>6, <1>8 DEF Mirrored
  <2> QED BY <1>3, <1>8, <2>1 DEF u
<1> QED BY <1>7, <1>8

-----------------------------------------------------------------------------
(* The end of the request.                                                 *)

(* What StackIsTransparent says of the two responses, the stack's with the *)
(* state of gzipWriter.                                                    *)
Delivered(n, g, m) ==
  /\ n.status = m.status
  /\ n.infos = m.infos
  /\ Ids(n.body) = Ids(m.body)
  /\ n.trailers = m.trailers
  /\ IF n.hdr.ce = "gzip"
       THEN /\ n.hdr = [m.hdr EXCEPT !.ce = "gzip", !.cl = FALSE, !.vary = TRUE,
                                     !.etag = IF @ = "strong" THEN "weak" ELSE @]
            /\ FALSE \notin Zs(n.body) /\ n.zdone
            /\ g.accepts /\ Len(n.body) >= MinBytes
       ELSE /\ [n.hdr EXCEPT !.vary = FALSE] = m.hdr
            /\ TRUE \notin Zs(n.body)

LEMMA PlainHeader ==
  ASSUME NEW a \in Headers, NEW b \in Headers, Alike(a, b), Bare(b), a.prefixed = b.prefixed
  PROVE  a.ce # "gzip" /\ [a EXCEPT !.vary = FALSE] = b
BY DEF Headers, Alike, Bare

LEMMA MarkedHeader ==
  ASSUME NEW a \in Headers, NEW b \in Headers, Marked(a, b), a.prefixed = b.prefixed
  PROVE  /\ a.ce = "gzip"
         /\ a = [b EXCEPT !.ce = "gzip", !.cl = FALSE, !.vary = TRUE,
                          !.etag = IF @ = "strong" THEN "weak" ELSE @]
BY DEF Headers, Marked

LEMMA ReturnedQuiet ==
  ASSUME NEW n \in Net, NEW h \in Headers, Quiet(n), ~n.hijacked, ~n.broken
  PROVE  /\ Returned(n, h).infos = n.infos /\ Returned(n, h).status = n.status
         /\ Returned(n, h).hdr = n.hdr /\ Returned(n, h).body = n.body
         /\ Returned(n, h).zdone = n.zdone
         /\ Returned(n, h).trailers =
              IF ~BodyAllowed(n.status) THEN n.trailers
              ELSE [sum |-> IF n.hdr.declared THEN h.sum ELSE 0, prefixed |-> h.prefixed]
<1>1. Headed(n, h, OK200) = n
  BY OkIsNat, HeadedTwice
<1> QED BY <1>1, ReturnedKeeps

(* What both have sent in full is the same.                                *)
LEMMA SentDelivered ==
  ASSUME NEW H \in Headers, NEW n \in Net, NEW h \in Headers, NEW m \in Net,
         Common(H, n, h, m), Sent(H, n, h, m), ~n.broken, Trails(n, m, <<>>),
         n.hdr.declared = m.hdr.declared
  PROVE  /\ Returned(n, H).status = Returned(m, h).status
         /\ Returned(n, H).infos = Returned(m, h).infos
         /\ Ids(Returned(n, H).body) = Ids(Returned(m, h).body)
         /\ Returned(n, H).trailers = Returned(m, h).trailers
         /\ Returned(n, H).hdr = n.hdr /\ Returned(m, h).hdr = m.hdr
         /\ Returned(n, H).body = n.body /\ Returned(n, H).zdone = n.zdone
         /\ Len(n.body) = Len(m.body)
<1>1. /\ Quiet(n) /\ Quiet(m) /\ ~n.hijacked /\ ~m.hijacked /\ ~m.broken
      /\ n.status = m.status /\ n.infos = m.infos /\ n.trailers = m.trailers
      /\ H.prefixed = h.prefixed /\ (m.hdr.declared => H.sum = h.sum)
  BY DEF Common, Sent, Quiet
<1>2. /\ Returned(n, H).infos = n.infos /\ Returned(n, H).status = n.status
      /\ Returned(n, H).hdr = n.hdr /\ Returned(n, H).body = n.body
      /\ Returned(n, H).zdone = n.zdone
      /\ Returned(n, H).trailers =
           IF ~BodyAllowed(n.status) THEN n.trailers
           ELSE [sum |-> IF n.hdr.declared THEN H.sum ELSE 0, prefixed |-> H.prefixed]
  BY <1>1, ReturnedQuiet
<1>3. /\ Returned(m, h).infos = m.infos /\ Returned(m, h).status = m.status
      /\ Returned(m, h).hdr = m.hdr /\ Returned(m, h).body = m.body
      /\ Returned(m, h).trailers =
           IF ~BodyAllowed(m.status) THEN m.trailers
           ELSE [sum |-> IF m.hdr.declared THEN h.sum ELSE 0, prefixed |-> h.prefixed]
  BY <1>1, ReturnedQuiet
<1>4. n.body \in Seq(Byte) /\ m.body \in Seq(Byte)
  BY DEF Net
<1>5. Ids(n.body) \in Seq(Nat) /\ Len(Ids(n.body)) = Len(n.body)
  BY <1>4, IdsType
<1>6. Len(Ids(m.body)) = Len(m.body)
  BY <1>4, IdsType
<1>7. Ids(m.body) = Ids(n.body)
  <2>1. Ids(n.body) \o <<>> = Ids(n.body)
    BY <1>5, ConcatEmptySeq
  <2> QED BY <1>1, <2>1 DEF Trails
<1>8. Returned(n, H).trailers = Returned(m, h).trailers
  <2>1. CASE ~BodyAllowed(n.status)
    BY <1>1, <1>2, <1>3, <2>1
  <2>2. CASE BodyAllowed(n.status)
    <3>1. (IF n.hdr.declared THEN H.sum ELSE 0) = (IF m.hdr.declared THEN h.sum ELSE 0)
      BY <1>1
    <3> QED BY <1>1, <1>2, <1>3, <2>2, <3>1
  <2> QED BY <2>1, <2>2
<1> QED BY <1>1, <1>2, <1>3, <1>5, <1>6, <1>7, <1>8

LEMMA PlainDelivered ==
  ASSUME NEW H \in Headers, NEW n \in Net, NEW g, NEW h \in Headers, NEW m \in Net,
         Common(H, n, h, m), SentPlain(H, n, h, m), ~n.broken
  PROVE  Delivered(Returned(n, H), g, Returned(m, h))
<1> DEFINE r == Returned(n, H)
           p == Returned(m, h)
<1>1. Sent(H, n, h, m) /\ Trails(n, m, <<>>) /\ Alike(n.hdr, m.hdr) /\ Zs(n.body) \subseteq {FALSE}
      /\ n.hdr.declared = m.hdr.declared
  BY DEF SentPlain, Alike
<1>2. /\ r.status = p.status /\ r.infos = p.infos /\ Ids(r.body) = Ids(p.body)
      /\ r.trailers = p.trailers /\ r.hdr = n.hdr /\ p.hdr = m.hdr /\ r.body = n.body
  BY <1>1, SentDelivered
<1> HIDE DEF r, p
<1>3. n.hdr \in Headers /\ m.hdr \in Headers /\ Bare(m.hdr) /\ n.hdr.prefixed = m.hdr.prefixed
  BY <1>1 DEF Net, Common, Sent
<1>4. n.hdr.ce # "gzip" /\ [n.hdr EXCEPT !.vary = FALSE] = m.hdr
  BY <1>1, <1>3, PlainHeader
<1>5. TRUE \notin Zs(n.body)
  BY <1>1
<1>6. Delivered(r, g, p)
  BY <1>2, <1>4, <1>5 DEF Delivered
<1> QED BY <1>6 DEF r, p

LEMMA MarkedDelivered ==
  ASSUME NEW H \in Headers, NEW n \in Net, NEW g, NEW h \in Headers, NEW m \in Net,
         Common(H, n, h, m), Sent(H, n, h, m), Marked(n.hdr, m.hdr), Zs(n.body) \subseteq {TRUE},
         Trails(n, m, <<>>), Long(m), n.zdone, g.accepts, ~n.broken
  PROVE  Delivered(Returned(n, H), g, Returned(m, h))
<1> DEFINE r == Returned(n, H)
           p == Returned(m, h)
<1>1. n.hdr.declared = m.hdr.declared /\ ~m.broken
  BY DEF Marked, Common
<1>a. /\ r.status = p.status /\ r.infos = p.infos /\ Ids(r.body) = Ids(p.body)
      /\ r.trailers = p.trailers /\ r.hdr = n.hdr /\ p.hdr = m.hdr /\ r.body = n.body
  BY <1>1, SentDelivered
<1>b. Len(n.body) = Len(m.body)
  BY <1>1, SentDelivered
<1>c. r.zdone = n.zdone
  BY ReturnedKeeps
<1> HIDE DEF r, p
<1>3. n.hdr \in Headers /\ m.hdr \in Headers /\ n.hdr.prefixed = m.hdr.prefixed
  BY DEF Net, Sent
<1>4. /\ n.hdr.ce = "gzip"
      /\ n.hdr = [m.hdr EXCEPT !.ce = "gzip", !.cl = FALSE, !.vary = TRUE,
                               !.etag = IF @ = "strong" THEN "weak" ELSE @]
  BY <1>3, MarkedHeader
<1>5. FALSE \notin Zs(n.body) /\ Len(n.body) >= MinBytes
  BY <1>1, <1>a, <1>b DEF Long
<1>6. Delivered(r, g, p)
  BY <1>a, <1>c, <1>4, <1>5 DEF Delivered
<1> QED BY <1>6 DEF r, p

LEMMA SameDelivered ==
  ASSUME NEW H \in Headers, NEW n \in Net, NEW g, NEW h \in Headers, NEW m \in Net,
         Common(H, n, h, m), Undecided(H, n, g, h, m, FALSE)
  PROVE  Delivered(Returned(n, H), g, Returned(m, h))
<1> DEFINE r == Returned(n, H)
           k == Headed(n, H, OK200)
<1>1. n = m /\ H = h /\ Zs(n.body) \subseteq {FALSE} /\ Bare(h) /\ Bare(n.hdr)
  BY DEF Undecided, Common
<1>2. k \in Net /\ Bare(k.hdr)
  BY <1>1, OkIsNat, HeadedKeeps, HeadedBare
<1>3. r.hdr = k.hdr /\ r.body = n.body
  BY ReturnedKeeps
<1>4. r = Returned(m, h)
  BY <1>1
<1> HIDE DEF r, k
<1>5. r.hdr.ce # "gzip" /\ [r.hdr EXCEPT !.vary = FALSE] = r.hdr
  <2>1. k.hdr \in Headers
    BY <1>2 DEF Net
  <2>2. [k.hdr EXCEPT !.vary = FALSE] = k.hdr
    BY <1>2, <2>1 DEF Headers, Bare
  <2> QED BY <1>2, <1>3, <2>2 DEF Bare
<1>6. TRUE \notin Zs(r.body)
  BY <1>1, <1>3
<1>7. Delivered(r, g, r)
  BY <1>5, <1>6 DEF Delivered
<1> QED BY <1>4, <1>7 DEF r

-----------------------------------------------------------------------------
(* The relation holds while the handler runs, and when it has returned the *)
(* response has been delivered.                                            *)
MirrorInv ==
  /\ phase = "handler" => Mirrored(s, plain, cfg.gzip)
  /\ StackIsTransparent

LEMMA UnfinishedIsTransparent ==
  ASSUME phase' # "done" \/ panicked' # "no"
  PROVE  StackIsTransparent'
BY DEF StackIsTransparent, Answered, Done

LEMMA CallMirrors ==
  ASSUME NEW t, NEW p, Call(t, p), Mirrored(t, p, cfg.gzip)
  PROVE  MirrorInv'
<1>1. phase' = "handler" /\ s' = t /\ plain' = p /\ cfg' = cfg
  BY DEF Call
<1>2. Mirrored(s, plain, cfg.gzip)'
  BY <1>1 DEF Mirrored, Good, Whole
<1>3. StackIsTransparent'
  BY <1>1, UnfinishedIsTransparent
<1> QED BY <1>2, <1>3 DEF MirrorInv

LEMMA InitMirrorInv == Init => MirrorInv
<1> SUFFICES ASSUME Init PROVE MirrorInv
  OBVIOUS
<1>1. phase = "handler" /\ Good(s) /\ cfg.gzip \in BOOLEAN
  <2>1. StackInv /\ phase = "handler"
    BY InitStackInv DEF Init
  <2> QED BY <2>1, HandlerFacts DEF Position, Configs
<1>2. PICK h \in {NewHeader("json"), NewHeader("text")}, accepts \in BOOLEAN,
           canFlush \in BOOLEAN, canHijack \in BOOLEAN :
        /\ s = [hdr |-> h, net |-> NewNet(h), canFlush |-> canFlush, canHijack |-> canHijack,
                rec |-> NewRecorder, gz |-> NewGzip(accepts, h)]
        /\ plain = [hdr |-> h, net |-> NewNet(h), canFlush |-> canFlush, canHijack |-> canHijack]
  BY DEF Init
<1>3. /\ h \in Headers /\ Bare(h)
      /\ s.hdr = h /\ s.net = NewNet(h) /\ plain.hdr = h /\ plain.net = NewNet(h)
      /\ s.gz = NewGzip(accepts, h)
      /\ plain.canFlush = s.canFlush /\ plain.canHijack = s.canHijack
  <2>1. ASSUME NEW ct \in {"json", "text"}
        PROVE  NewHeader(ct) \in Headers /\ Bare(NewHeader(ct))
    BY DEF NewHeader, Headers, Bare
  <2>2. h \in Headers /\ Bare(h)
    BY <2>1
  <2> QED BY <1>2, <2>2
<1>4. s.net \in Net
  BY <1>1, GoodParts
<1>5. Response(plain)
  BY <1>2, <1>3, <1>4 DEF Response
<1>6. /\ s.gz.state = "pending" /\ s.gz.buf = <<>> /\ s.gz.zbuf = <<>>
  BY <1>3 DEF NewGzip
<1>7. /\ Bare(s.net.hdr) /\ ~Quiet(s.net) /\ s.net.body = <<>>
  BY <1>3 DEF NewNet, Quiet, NoStatus
<1>8. Common(s.hdr, s.net, plain.hdr, plain.net)
  BY <1>3, <1>4, <1>7 DEF Common
<1>9. Undecided(s.hdr, s.net, s.gz, plain.hdr, plain.net, cfg.gzip)
  BY <1>3, <1>6, <1>7, IdsEmpty DEF Undecided
<1>10. Mirrored(s, plain, cfg.gzip)
  BY <1>1, <1>3, <1>5, <1>6, <1>8, <1>9 DEF Mirrored, Mirrors
<1>11. StackIsTransparent
  BY <1>1 DEF StackIsTransparent, Answered, Done
<1> QED BY <1>10, <1>11 DEF MirrorInv

-----------------------------------------------------------------------------
(* One step for each action.                                               *)
LEMMA HandlerMirrors ==
  ASSUME StackInv, MirrorInv, phase = "handler"
  PROVE  /\ Position /\ Mirrored(s, plain, cfg.gzip) /\ cfg.gzip \in BOOLEAN
         /\ ~cfg.gzip => s.gz.state = "pending"
BY HandlerFacts DEF MirrorInv, Position, Configs

LEMMA BareForms ==
  ASSUME NEW p, Response(p)
  PROVE  /\ \A code \in Nat : NetWriteHeader(p, code) = Heads(p, Headed(p.net, p.hdr, code))
         /\ \A x \in Seq(HandlerIds) :
              NetWrite(p, Encode(x, FALSE)) = Heads(p, Bodied(p.net, p.hdr, Encode(x, FALSE)))
<1>1. ASSUME NEW x \in Seq(HandlerIds)
      PROVE  NetWrite(p, Encode(x, FALSE)) = Heads(p, Bodied(p.net, p.hdr, Encode(x, FALSE)))
  <2>1. Encode(x, FALSE) \in Seq(Byte)
    BY EncodeType
  <2> QED BY <2>1, NetForms DEF Heads
<1>2. ASSUME NEW code \in Nat
      PROVE  NetWriteHeader(p, code) = Heads(p, Headed(p.net, p.hdr, code))
  BY NetForms DEF Heads
<1> QED BY <1>1, <1>2

(* A header call changes both headers in the same way.                     *)
Wears(t, h) == [t EXCEPT !.hdr = h]

LEMMA WearsFields ==
  ASSUME NEW p, Response(p), NEW h \in Headers
  PROVE  /\ Response(Wears(p, h)) /\ Wears(p, h).hdr = h /\ Wears(p, h).net = p.net
         /\ Wears(p, h).canFlush = p.canFlush /\ Wears(p, h).canHijack = p.canHijack
BY DEF Response, Wears

LEMMA SetterMirrored ==
  ASSUME NEW t, NEW p, NEW zip, Mirrored(t, p, zip), NEW H2 \in Headers, NEW h2 \in Headers,
         Steps(t.hdr, H2, p.hdr, h2)
  PROVE  Mirrored(Wears(t, H2), Wears(p, h2), zip)
<1>1. /\ t \in Stack /\ Good(t) /\ t.hdr \in Headers /\ t.net \in Net /\ t.gz \in Gz /\ t.rec \in Rec
      /\ Response(p) /\ p.hdr \in Headers /\ p.net \in Net
      /\ p.canFlush = t.canFlush /\ p.canHijack = t.canHijack
  BY MirroredParts
<1> DEFINE u == Wears(t, H2)
           q == Wears(p, h2)
<1>2. Good(u) /\ u = Put(t, H2, t.net, t.rec, t.gz)
  BY <1>1, GoodHeader DEF Wears
<1>3. /\ u.hdr = H2 /\ u.net = t.net /\ u.gz = t.gz
      /\ u.canFlush = t.canFlush /\ u.canHijack = t.canHijack
  BY <1>1, <1>2, PutFields
<1>4. /\ Response(q) /\ q.hdr = h2 /\ q.net = p.net
      /\ q.canFlush = p.canFlush /\ q.canHijack = p.canHijack
  BY <1>1, WearsFields
<1> HIDE DEF u, q
<1>5. t.canFlush => Mirrors(t.hdr, t.net, t.gz, p.hdr, p.net, zip)
  BY DEF Mirrored
<1>6. t.canFlush => Mirrors(H2, t.net, t.gz, h2, p.net, zip)
  BY <1>1, <1>5, SetterMirrors
<1>7. Mirrored(u, q, zip)
  BY <1>1, <1>2, <1>3, <1>4, <1>6 DEF Mirrored
<1> QED BY <1>7 DEF u, q

LEMMA HeaderCallsMirror ==
  ASSUME StackInv, MirrorInv, SetEntityHeaders \/ SetOwnEncoding \/ SetOtherHeader \/ SetTrailers
  PROVE  MirrorInv'
<1>1. phase = "handler"
  BY DEF SetEntityHeaders, SetOwnEncoding, SetOtherHeader, SetTrailers, HandlerHeader, Call
<1>2. Mirrored(s, plain, cfg.gzip)
  BY <1>1, HandlerMirrors
<1>3. s.hdr \in Headers /\ plain.hdr \in Headers
  BY <1>2, MirroredParts
<1>4. ASSUME NEW H2 \in Headers, NEW h2 \in Headers, Steps(s.hdr, H2, plain.hdr, h2),
             Call(Wears(s, H2), Wears(plain, h2))
      PROVE  MirrorInv'
  <2>1. Mirrored(Wears(s, H2), Wears(plain, h2), cfg.gzip)
    BY <1>2, <1>4, SetterMirrored
  <2> QED BY <1>4, <2>1, CallMirrors
<1>5. PICK H2 \in Headers, h2 \in Headers :
        Steps(s.hdr, H2, plain.hdr, h2) /\ Call(Wears(s, H2), Wears(plain, h2))
  <2>1. CASE SetEntityHeaders
    <3>1. Call(Wears(s, WithEntity(s.hdr)), Wears(plain, WithEntity(plain.hdr)))
      BY <2>1 DEF SetEntityHeaders, HandlerHeader, Wears
    <3>2. WithEntity(s.hdr) \in Headers /\ WithEntity(plain.hdr) \in Headers
      BY <1>3, HeaderSetters
    <3>3. Steps(s.hdr, WithEntity(s.hdr), plain.hdr, WithEntity(plain.hdr))
      BY <1>3, SettersStep
    <3> QED BY <3>1, <3>2, <3>3
  <2>2. CASE SetOwnEncoding
    <3>1. Call(Wears(s, WithOwnEncoding(s.hdr)), Wears(plain, WithOwnEncoding(plain.hdr)))
      BY <2>2 DEF SetOwnEncoding, HandlerHeader, Wears
    <3>2. WithOwnEncoding(s.hdr) \in Headers /\ WithOwnEncoding(plain.hdr) \in Headers
      BY <1>3, HeaderSetters
    <3>3. Steps(s.hdr, WithOwnEncoding(s.hdr), plain.hdr, WithOwnEncoding(plain.hdr))
      BY <1>3, SettersStep
    <3> QED BY <3>1, <3>2, <3>3
  <2>3. CASE SetOtherHeader
    <3>1. Call(Wears(s, WithOther(s.hdr)), Wears(plain, WithOther(plain.hdr)))
      BY <2>3 DEF SetOtherHeader, HandlerHeader, Wears
    <3>2. WithOther(s.hdr) \in Headers /\ WithOther(plain.hdr) \in Headers
      BY <1>3, HeaderSetters
    <3>3. Steps(s.hdr, WithOther(s.hdr), plain.hdr, WithOther(plain.hdr))
      BY <1>3, SettersStep
    <3> QED BY <3>1, <3>2, <3>3
  <2>4. CASE SetTrailers
    <3>1. \/ Call(Wears(s, DeclareTrailer(s.hdr)), Wears(plain, DeclareTrailer(plain.hdr)))
          \/ Call(Wears(s, WithTrailer(s.hdr)), Wears(plain, WithTrailer(plain.hdr)))
          \/ Call(Wears(s, WithPrefixed(s.hdr)), Wears(plain, WithPrefixed(plain.hdr)))
      BY <2>4 DEF SetTrailers, HandlerHeader, Wears
    <3>2. /\ DeclareTrailer(s.hdr) \in Headers /\ DeclareTrailer(plain.hdr) \in Headers
          /\ WithTrailer(s.hdr) \in Headers /\ WithTrailer(plain.hdr) \in Headers
          /\ WithPrefixed(s.hdr) \in Headers /\ WithPrefixed(plain.hdr) \in Headers
      BY <1>3, HeaderSetters
    <3>3. /\ Steps(s.hdr, DeclareTrailer(s.hdr), plain.hdr, DeclareTrailer(plain.hdr))
          /\ Steps(s.hdr, WithTrailer(s.hdr), plain.hdr, WithTrailer(plain.hdr))
          /\ Steps(s.hdr, WithPrefixed(s.hdr), plain.hdr, WithPrefixed(plain.hdr))
      BY <1>3, SettersStep
    <3> QED BY <3>1, <3>2, <3>3
  <2> QED BY <2>1, <2>2, <2>3, <2>4
<1> QED BY <1>4, <1>5

LEMMA WriteHeaderMirrors ==
  ASSUME StackInv, MirrorInv, HandlerWriteHeader
  PROVE  MirrorInv'
<1>1. PICK code \in Statuses :
        Call(IF cfg.gzip THEN GzWriteHeader(s, code) ELSE RecWriteHeader(s, code),
             NetWriteHeader(plain, code))
  BY DEF HandlerWriteHeader
<1>2. phase = "handler"
  BY <1>1 DEF Call
<1>3. Mirrored(s, plain, cfg.gzip) /\ cfg.gzip \in BOOLEAN /\ (~cfg.gzip => s.gz.state = "pending")
  BY <1>2, HandlerMirrors
<1>4. code \in 100..599 /\ code \in Nat \ {0}
  BY StackAssumption
<1>5. Response(plain)
  BY <1>3 DEF Mirrored
<1> DEFINE q == Heads(plain, Headed(plain.net, plain.hdr, code))
<1>6. NetWriteHeader(plain, code) = q
  BY <1>4, <1>5, BareForms
<1>7. CASE cfg.gzip
  <2>1. Mirrored(s, plain, TRUE)
    BY <1>3, <1>7
  <2>2. Mirrored(GzWriteHeader(s, code), q, TRUE)
    BY <1>4, <2>1, GzWriteHeaderMirrored
  <2> HIDE DEF q
  <2>3. Call(GzWriteHeader(s, code), q) /\ Mirrored(GzWriteHeader(s, code), q, cfg.gzip)
    BY <1>1, <1>3, <1>6, <1>7, <2>2
  <2> QED BY <2>3, CallMirrors
<1>8. CASE ~cfg.gzip
  <2>1. Mirrored(s, plain, FALSE) /\ s.gz.state = "pending"
    BY <1>3, <1>8
  <2>2. Mirrored(RecWriteHeader(s, code), q, FALSE)
    BY <1>4, <2>1, RecHeaderMirrored
  <2> HIDE DEF q
  <2>3. Call(RecWriteHeader(s, code), q) /\ Mirrored(RecWriteHeader(s, code), q, cfg.gzip)
    BY <1>1, <1>3, <1>6, <1>8, <2>2
  <2> QED BY <2>3, CallMirrors
<1> QED BY <1>7, <1>8

LEMMA WriteMirrors ==
  ASSUME StackInv, MirrorInv, HandlerWrite
  PROVE  MirrorInv'
<1>1. PICK n \in 0..MaxWrite :
        Call(IF cfg.gzip THEN GzWrite(s, NextBytes(n)) ELSE RecWrite(s, Encode(NextBytes(n), FALSE)),
             NetWrite(plain, Encode(NextBytes(n), FALSE)))
  BY DEF HandlerWrite
<1>2. phase = "handler" /\ ops < MaxOps
  BY <1>1 DEF Call
<1>3. /\ Position /\ Mirrored(s, plain, cfg.gzip) /\ cfg.gzip \in BOOLEAN
      /\ ~cfg.gzip => s.gz.state = "pending"
  BY <1>2, HandlerMirrors
<1> DEFINE x == NextBytes(n)
<1>4. x \in Seq(HandlerIds)
  BY <1>2, <1>3, NextBytesType
<1> HIDE DEF x
<1>5. Response(plain)
  BY <1>3 DEF Mirrored
<1> DEFINE q == Heads(plain, Bodied(plain.net, plain.hdr, Encode(x, FALSE)))
<1>6. NetWrite(plain, Encode(x, FALSE)) = q
  BY <1>4, <1>5, BareForms
<1>7. CASE cfg.gzip
  <2>1. Mirrored(s, plain, TRUE)
    BY <1>3, <1>7
  <2>2. Mirrored(GzWrite(s, x), q, TRUE)
    BY <1>4, <2>1, GzWriteMirrored
  <2> HIDE DEF q
  <2>3. Call(GzWrite(s, x), q) /\ Mirrored(GzWrite(s, x), q, cfg.gzip)
    BY <1>1, <1>3, <1>6, <1>7, <2>2 DEF x
  <2> QED BY <2>3, CallMirrors
<1>8. CASE ~cfg.gzip
  <2>1. Mirrored(s, plain, FALSE) /\ s.gz.state = "pending"
    BY <1>3, <1>8
  <2>2. Mirrored(RecWrite(s, Encode(x, FALSE)), q, FALSE)
    BY <1>4, <2>1, RecWriteMirrored
  <2> HIDE DEF q
  <2>3. /\ Call(RecWrite(s, Encode(x, FALSE)), q)
        /\ Mirrored(RecWrite(s, Encode(x, FALSE)), q, cfg.gzip)
    BY <1>1, <1>3, <1>6, <1>8, <2>2 DEF x
  <2> QED BY <2>3, CallMirrors
<1> QED BY <1>7, <1>8

LEMMA ReadFromMirrored ==
  ASSUME NEW t, NEW p, Mirrored(t, p, FALSE), t.gz.state = "pending", NEW x \in Seq(HandlerIds),
         NEW q, q = IF x = <<>> THEN p ELSE Heads(p, Bodied(p.net, p.hdr, Encode(x, FALSE)))
  PROVE  Mirrored(RecReadFrom(t, Encode(x, FALSE)), q, FALSE)
<1>1. Recorded(t)
  BY MirroredParts
<1>2. Encode(x, FALSE) \in Seq(Byte) /\ Len(Encode(x, FALSE)) = Len(x)
  BY EncodeType
<1>3. Encode(x, FALSE) = <<>> <=> x = <<>>
  <2>1. Encode(x, FALSE) = <<>> <=> Len(Encode(x, FALSE)) = 0
    BY <1>2, EmptySeq
  <2>2. x = <<>> <=> Len(x) = 0
    BY EmptySeq
  <2> QED BY <1>2, <2>1, <2>2
<1>4. CASE x = <<>>
  <2>1. RecReadFrom(t, Encode(x, FALSE)) = t
    BY <1>1, <1>2, <1>3, <1>4, RecReadFromForm
  <2> QED BY <1>4, <2>1
<1>5. CASE x # <<>>
  <2>1. RecReadFrom(t, Encode(x, FALSE)) = RecWrite(t, Encode(x, FALSE))
    <3> DEFINE e == Encode(x, FALSE)
    <3>1. e \in Seq(Byte) /\ e # <<>>
      BY <1>2, <1>3, <1>5
    <3> HIDE DEF e
    <3>2. RecReadFrom(t, e) = With(t, t.hdr, Bodied(t.net, t.hdr, e), Touched(t.rec))
      BY <1>1, <3>1, RecReadFromForm
    <3>3. RecWrite(t, e) = With(t, t.hdr, Bodied(t.net, t.hdr, e), Touched(t.rec))
      BY <1>1, <3>1, RecWriteForm
    <3>4. RecReadFrom(t, e) = RecWrite(t, e)
      BY <3>2, <3>3
    <3> QED BY <3>4 DEF e
  <2>2. Mirrored(RecWrite(t, Encode(x, FALSE)), Heads(p, Bodied(p.net, p.hdr, Encode(x, FALSE))),
                 FALSE)
    BY RecWriteMirrored
  <2> QED BY <1>5, <2>1, <2>2
<1> QED BY <1>4, <1>5

LEMMA ReadFromMirrors ==
  ASSUME StackInv, MirrorInv, HandlerReadFrom
  PROVE  MirrorInv'
<1>1. PICK n \in 0..1 :
        Call(RecReadFrom(s, Encode(NextBytes(n), FALSE)),
             IF n = 0 THEN plain ELSE NetWrite(plain, Encode(NextBytes(n), FALSE)))
  BY DEF HandlerReadFrom
<1>2. phase = "handler" /\ ops < MaxOps /\ ~cfg.gzip
  BY <1>1 DEF Call, HandlerReadFrom
<1>3. /\ Position /\ Mirrored(s, plain, cfg.gzip) /\ cfg.gzip \in BOOLEAN
      /\ ~cfg.gzip => s.gz.state = "pending"
  BY <1>2, HandlerMirrors
<1> DEFINE x == NextBytes(n)
<1>4. x \in Seq(HandlerIds) /\ Len(x) = n
  <2>1. n \in 0..MaxWrite
    BY <1>3, PositionParts
  <2> QED BY <1>2, <1>3, <2>1, NextBytesType
<1> HIDE DEF x
<1>5. Response(plain)
  BY <1>3 DEF Mirrored
<1> DEFINE r == Heads(plain, Bodied(plain.net, plain.hdr, Encode(x, FALSE)))
           q == IF x = <<>> THEN plain ELSE r
<1>6. NetWrite(plain, Encode(x, FALSE)) = r
  BY <1>4, <1>5, BareForms
<1> HIDE DEF r
<1>7. x = <<>> <=> n = 0
  BY <1>4, EmptySeq
<1>8. Mirrored(s, plain, FALSE) /\ s.gz.state = "pending"
  BY <1>2, <1>3
<1>9. Mirrored(RecReadFrom(s, Encode(x, FALSE)), q, FALSE)
  BY <1>4, <1>8, ReadFromMirrored DEF r
<1>10. Call(RecReadFrom(s, Encode(x, FALSE)), q)
  BY <1>1, <1>6, <1>7 DEF x
<1> HIDE DEF q
<1>11. Mirrored(RecReadFrom(s, Encode(x, FALSE)), q, cfg.gzip)
  BY <1>2, <1>3, <1>9
<1> QED BY <1>10, <1>11, CallMirrors

LEMMA FlushMirrors ==
  ASSUME StackInv, MirrorInv, HandlerFlush
  PROVE  MirrorInv'
<1> DEFINE t == IF cfg.gzip THEN GzFlush(s) ELSE RecFlush(s)
<1>1. Call(t, NetFlush(plain)) /\ phase = "handler"
  BY DEF HandlerFlush, Call
<1>2. Mirrored(s, plain, cfg.gzip) /\ cfg.gzip \in BOOLEAN /\ (~cfg.gzip => s.gz.state = "pending")
  BY <1>1, HandlerMirrors
<1>3. Mirrored(t, NetFlush(plain), cfg.gzip)
  <2>1. CASE cfg.gzip
    <3>1. Mirrored(s, plain, TRUE)
      BY <1>2, <2>1
    <3>2. Mirrored(GzFlush(s), NetFlush(plain), TRUE)
      BY <3>1, GzFlushMirrored
    <3> QED BY <1>2, <2>1, <3>2
  <2>2. CASE ~cfg.gzip
    <3>1. Mirrored(s, plain, FALSE) /\ s.gz.state = "pending"
      BY <1>2, <2>2
    <3>2. Mirrored(RecFlush(s), NetFlush(plain), FALSE)
      BY <3>1, RecFlushMirrored
    <3> QED BY <1>2, <2>2, <3>2
  <2> QED BY <2>1, <2>2
<1> HIDE DEF t
<1> QED BY <1>1, <1>3, CallMirrors

LEMMA HijackMirrors ==
  ASSUME StackInv, MirrorInv, HandlerHijack
  PROVE  MirrorInv'
<1> DEFINE t == IF cfg.gzip THEN GzHijack(s) ELSE RecHijack(s)
<1>1. Call(t, NetHijack(plain)) /\ phase = "handler"
  BY DEF HandlerHijack, Call
<1>2. Mirrored(s, plain, cfg.gzip) /\ cfg.gzip \in BOOLEAN /\ (~cfg.gzip => s.gz.state = "pending")
  BY <1>1, HandlerMirrors
<1>3. Good(s)
  BY <1>2 DEF Mirrored
<1>4. HijackFails(s) => t = s
  BY <1>3, RecHijackFields
<1>5. Good(t)
  <2>1. CASE HijackFails(s)
    BY <1>3, <1>4, <2>1
  <2>2. CASE ~HijackFails(s)
    <3>1. Good(GzHijack(s)) /\ Good(RecHijack(s))
      BY <1>3, <2>2, GoodGzHijack, GoodRecHijack
    <3> QED BY <3>1
  <2> QED BY <2>1, <2>2
<1>6. ASSUME ~HijackFails(s)
      PROVE  /\ t.hdr = s.hdr /\ t.net = Taken(s.net)
             /\ t.canFlush = s.canFlush /\ t.canHijack = s.canHijack
             /\ t.gz.state = "hijacked" \/ (~cfg.gzip /\ t.gz = s.gz /\ s.gz.state = "pending")
  <2>1. CASE cfg.gzip
    BY <1>3, <1>6, <2>1, GzHijackFields
  <2>2. CASE ~cfg.gzip
    BY <1>2, <1>3, <1>6, <2>2, RecHijackFields
  <2> QED BY <2>1, <2>2
<1> HIDE DEF t
<1>7. Mirrored(t, NetHijack(plain), cfg.gzip)
  BY <1>2, <1>4, <1>5, <1>6, HijackMirrored
<1> QED BY <1>1, <1>7, CallMirrors

(* A connection that fails, fails under both writers.                      *)
Broken(n) == [n EXCEPT !.broken = TRUE]

LEMMA BrokenFields ==
  ASSUME NEW n \in Net
  PROVE  /\ Broken(n) \in Net /\ Broken(n).broken
         /\ Broken(n).infos = n.infos /\ Broken(n).status = n.status /\ Broken(n).hdr = n.hdr
         /\ Broken(n).body = n.body /\ Broken(n).trailers = n.trailers
         /\ Broken(n).hijacked = n.hijacked
BY DEF Net, Broken

LEMMA BrokenMirrors ==
  ASSUME NEW H, NEW n \in Net, NEW g, NEW h, NEW m \in Net, NEW zip, Mirrors(H, n, g, h, m, zip)
  PROVE  Mirrors(H, Broken(n), g, h, Broken(m), zip)
<1> DEFINE a == Broken(n)
           b == Broken(m)
<1>1. /\ a.broken
      /\ a.infos = n.infos /\ a.status = n.status /\ a.hdr = n.hdr /\ a.body = n.body
      /\ a.trailers = n.trailers /\ a.hijacked = n.hijacked
  BY BrokenFields
<1>2. /\ b \in Net /\ b.broken
      /\ b.infos = m.infos /\ b.status = m.status /\ b.hdr = m.hdr /\ b.body = m.body
      /\ b.trailers = m.trailers /\ b.hijacked = m.hijacked
  BY BrokenFields
<1>3. n = m => a = b
  OBVIOUS
<1> HIDE DEF a, b
<1>4. Common(H, a, h, b)
  BY <1>1, <1>2 DEF Mirrors, Common
<1>5. \A w : Trails(n, m, w) => Trails(a, b, w)
  BY <1>1, <1>2 DEF Trails
<1>6. g.state = "pending" /\ Undecided(H, n, g, h, m, zip) => Undecided(H, a, g, h, b, zip)
  BY <1>1, <1>2, <1>3 DEF Undecided, Quiet
<1>7. Buffered(H, n, g, h, m) => Buffered(H, a, g, h, b)
  BY <1>1, <1>2, <1>5 DEF Buffered, Quiet
<1>8. Sent(H, n, h, m) => Sent(H, a, h, b)
  BY <1>1, <1>2 DEF Sent
<1>9. SentPlain(H, n, h, m) => SentPlain(H, a, h, b)
  BY <1>1, <1>2, <1>5, <1>8 DEF SentPlain
<1>10. SentMarked(H, n, g, h, m) => SentMarked(H, a, g, h, b)
  BY <1>1, <1>2, <1>5, <1>8 DEF SentMarked
<1>11. Long(b)
  BY <1>2 DEF Long
<1>12. Cut(n, m) => Cut(a, b)
  BY <1>1, <1>2 DEF Cut
<1>13. Mirrors(H, a, g, h, b, zip)
  BY <1>4, <1>6, <1>7, <1>9, <1>10, <1>11, <1>12 DEF Mirrors
<1> QED BY <1>13 DEF a, b

LEMMA FailsMirrors ==
  ASSUME StackInv, MirrorInv, ConnectionFails, StackInv'
  PROVE  MirrorInv'
<1>1. /\ phase = "handler" /\ phase' = "handler" /\ cfg' = cfg
      /\ s' = [s EXCEPT !.net.broken = TRUE] /\ plain' = [plain EXCEPT !.net.broken = TRUE]
  BY DEF ConnectionFails
<1>2. Mirrored(s, plain, cfg.gzip)
  BY <1>1, HandlerMirrors
<1>3. /\ s \in Stack /\ s.hdr \in Headers /\ s.net \in Net /\ s.rec \in Rec /\ s.gz \in Gz
      /\ Response(plain) /\ plain.net \in Net
      /\ plain.canFlush = s.canFlush /\ plain.canHijack = s.canHijack
  BY <1>2, MirroredParts
<1>4. Broken(s.net) \in Net /\ Broken(plain.net) \in Net
  BY <1>3, BrokenFields
<1>5. s' = Put(s, s.hdr, Broken(s.net), s.rec, s.gz)
  BY <1>1, <1>3 DEF Put, Stack, Broken
<1>6. /\ s'.hdr = s.hdr /\ s'.net = Broken(s.net) /\ s'.gz = s.gz
      /\ s'.canFlush = s.canFlush /\ s'.canHijack = s.canHijack
  BY <1>3, <1>4, <1>5, PutFields
<1>7. plain' = Heads(plain, Broken(plain.net))
  BY <1>1, <1>3 DEF Response, Heads, Broken
<1>8. /\ Response(plain') /\ plain'.hdr = plain.hdr /\ plain'.net = Broken(plain.net)
      /\ plain'.canFlush = plain.canFlush /\ plain'.canHijack = plain.canHijack
  BY <1>3, <1>4, <1>7, HeadsFields
<1>9. Good(s')
  BY <1>1 DEF StackInv, Good, Whole
<1>10. s.canFlush => Mirrors(s.hdr, Broken(s.net), s.gz, plain.hdr, Broken(plain.net), cfg.gzip)
  BY <1>2, <1>3, BrokenMirrors DEF Mirrored
<1>11. s'.canFlush => Mirrors(s'.hdr, s'.net, s'.gz, plain'.hdr, plain'.net, cfg'.gzip)
  BY <1>1, <1>6, <1>8, <1>10
<1>12. Mirrored(s', plain', cfg'.gzip)
  BY <1>3, <1>6, <1>8, <1>9, <1>11 DEF Mirrored
<1>13. Mirrored(s, plain, cfg.gzip)'
  BY <1>12 DEF Mirrored, Good, Whole
<1>14. StackIsTransparent'
  BY <1>1, UnfinishedIsTransparent
<1> QED BY <1>13, <1>14 DEF MirrorInv

LEMMA EmitsMirrors ==
  ASSUME StackInv, MirrorInv, CompressorEmits
  PROVE  MirrorInv'
<1>1. /\ phase = "handler" /\ phase' = "handler" /\ cfg' = cfg /\ plain' = plain
      /\ s.gz.zw /\ s' = ZFlush(s)
  BY DEF CompressorEmits
<1>2. Mirrored(s, plain, cfg.gzip) /\ cfg.gzip \in BOOLEAN /\ (~cfg.gzip => s.gz.state = "pending")
  BY <1>1, HandlerMirrors
<1>3. /\ s \in Stack /\ Good(s) /\ Books(s.gz) /\ Response(plain)
      /\ plain.canFlush = s.canFlush /\ plain.canHijack = s.canHijack
  BY <1>2, MirroredParts
<1>4. s.gz.state = "compressed"
  BY <1>1, <1>3 DEF Books
<1>5. Mirrored(s, plain, TRUE)
  BY <1>2, <1>4
<1> DEFINE t == ZFlush(s)
<1>6. Good(t)
  BY <1>3, GoodZFlush
<1>7. t.canFlush = s.canFlush /\ t.canHijack = s.canHijack
  BY <1>3, ZFlushFields
<1>8. s.canFlush => Mirrors(t.hdr, t.net, t.gz, plain.hdr, plain.net, TRUE)
  <2>1. s.canFlush => Mirrors(s.hdr, s.net, s.gz, plain.hdr, plain.net, TRUE)
    BY <1>5 DEF Mirrored
  <2> QED BY <1>3, <1>4, <2>1, ZFlushMirrors
<1> HIDE DEF t
<1>9. Mirrored(t, plain, TRUE)
  BY <1>3, <1>6, <1>7, <1>8 DEF Mirrored
<1>10. s' = t /\ cfg'.gzip = TRUE
  BY <1>1, <1>2, <1>4 DEF t
<1>11. Mirrored(s', plain', cfg'.gzip)
  BY <1>1, <1>9, <1>10
<1>12. Mirrored(s, plain, cfg.gzip)'
  BY <1>11 DEF Mirrored, Good, Whole
<1>13. StackIsTransparent'
  BY <1>1, UnfinishedIsTransparent
<1> QED BY <1>12, <1>13 DEF MirrorInv

-----------------------------------------------------------------------------
(* The handler returns.                                                    *)
LEMMA ReturnedImplied ==
  ASSUME NEW m \in Net, NEW h \in Headers
  PROVE  Returned(Headed(m, h, OK200), h) = Returned(m, h)
<1> DEFINE k == Headed(m, h, OK200)
<1>1. /\ k \in Net /\ k.hijacked = m.hijacked /\ k.broken = m.broken
  BY OkIsNat, HeadedKeeps
<1>2. Quiet(k)
  <2>1. <<>> \in Seq(Byte)
    OBVIOUS
  <2> QED BY <2>1, BodiedImplied
<1>3. Returned(m, h) = IF m.hijacked \/ m.broken \/ ~BodyAllowed(k.status) THEN k
        ELSE [k EXCEPT !.trailers =
               [sum |-> IF k.hdr.declared THEN h.sum ELSE 0, prefixed |-> h.prefixed]]
  BY DEF Returned
<1> HIDE DEF k
<1>4. Headed(k, h, OK200) = k
  BY <1>1, <1>2, OkIsNat, HeadedTwice
<1>5. Returned(k, h) = IF k.hijacked \/ k.broken \/ ~BodyAllowed(k.status) THEN k
        ELSE [k EXCEPT !.trailers =
               [sum |-> IF k.hdr.declared THEN h.sum ELSE 0, prefixed |-> h.prefixed]]
  BY <1>4 DEF Returned
<1>6. Returned(k, h) = Returned(m, h)
  BY <1>1, <1>3, <1>5
<1> QED BY <1>6 DEF k

LEMMA ClosedFields ==
  ASSUME NEW n \in Net
  PROVE  /\ Closed(n) \in Net
         /\ Closed(n).infos = n.infos /\ Closed(n).status = n.status /\ Closed(n).hdr = n.hdr
         /\ Closed(n).body = n.body /\ Closed(n).trailers = n.trailers
         /\ Closed(n).broken = n.broken /\ Closed(n).hijacked = n.hijacked
         /\ ~n.hijacked /\ ~n.broken => Closed(n).zdone
BY DEF Net, Closed

LEMMA ReleaseAccepts ==
  ASSUME NEW t \in Stack
  PROVE  Release(t).gz.accepts = t.gz.accepts
BY DEF Release, Stack, Gz

(* Close sends what the compressor holds and ends the stream.              *)
LEMMA ClosedDelivered ==
  ASSUME NEW u \in Stack, u.gz.state = "compressed", Books(u.gz), NEW h, NEW m,
         Mirrors(u.hdr, u.net, u.gz, h, m, TRUE), ~Release(ZClose(u)).net.broken
  PROVE  Delivered(Returned(Release(ZClose(u)).net, Release(ZClose(u)).hdr),
                   Release(ZClose(u)).gz, Returned(m, h))
<1> DEFINE e == Encode(u.gz.zbuf, TRUE)
           b == Bodied(u.net, u.hdr, e)
           n == Closed(b)
           g == [u.gz EXCEPT !.zbuf = <<>>]
           v == Put(u, u.hdr, n, Touched(u.rec), g)
           f == Release(v)
<1>1. /\ u.hdr \in Headers /\ u.net \in Net /\ u.rec \in Rec /\ u.gz \in Gz
  BY StackFields
<1>2. e \in Seq(Byte)
  BY <1>1, GzFields, EncodeType
<1>3. ZClose(u) = v
  BY ZCloseForm
<1>4. /\ Common(u.hdr, u.net, h, m) /\ SentMarked(u.hdr, u.net, u.gz, h, m) /\ Long(m)
      /\ h \in Headers /\ m \in Net
  BY DEF Mirrors, Common
<1>5. /\ Common(u.hdr, b, h, m) /\ Sent(u.hdr, b, h, m) /\ Marked(b.hdr, m.hdr)
      /\ Zs(b.body) \subseteq {TRUE} /\ Trails(b, m, <<>>)
  BY <1>1, <1>4, EmittedMirrors
<1>6. g \in Gz /\ Books(g) /\ g.accepts = u.gz.accepts /\ Touched(u.rec) \in Rec
  BY <1>1, EmptyIds, BooksZbuf, GzZbuf, RecTypes
<1> HIDE DEF e
<1>7. b \in Net
  BY <1>1, <1>2, BodiedKeeps
<1> HIDE DEF b
<1>8. /\ n \in Net
      /\ n.infos = b.infos /\ n.status = b.status /\ n.hdr = b.hdr /\ n.body = b.body
      /\ n.trailers = b.trailers /\ n.broken = b.broken /\ n.hijacked = b.hijacked
      /\ ~b.hijacked /\ ~b.broken => n.zdone
  BY <1>7, ClosedFields
<1> HIDE DEF n, g
<1>9. v \in Stack /\ v.hdr = u.hdr /\ v.net = n /\ v.gz = g
  BY <1>1, <1>6, <1>8, PutFields
<1> HIDE DEF v
<1>10. f.hdr = u.hdr /\ f.net = n /\ f.gz.accepts
  <2>1. f.hdr = v.hdr /\ f.net = v.net
    BY <1>6, <1>9, ReleaseBooks
  <2>2. f.gz.accepts = v.gz.accepts
    BY <1>9, ReleaseAccepts
  <2>3. u.gz.accepts
    BY <1>4 DEF SentMarked
  <2> QED BY <1>6, <1>9, <2>1, <2>2, <2>3
<1> HIDE DEF f
<1>11. ~n.broken
  BY <1>3, <1>10 DEF f
<1>12. n.zdone
  BY <1>5, <1>8, <1>11 DEF Sent
<1>13. /\ Common(u.hdr, n, h, m) /\ Sent(u.hdr, n, h, m) /\ Marked(n.hdr, m.hdr)
       /\ Zs(n.body) \subseteq {TRUE} /\ Trails(n, m, <<>>)
  BY <1>5, <1>8 DEF Common, Sent, Trails
<1>14. Delivered(Returned(n, u.hdr), f.gz, Returned(m, h))
  BY <1>1, <1>4, <1>8, <1>10, <1>11, <1>12, <1>13, MarkedDelivered
<1> QED BY <1>3, <1>10, <1>14 DEF f

LEMMA ClosedFlag ==
  ASSUME NEW u \in Stack
  PROVE  Release(ZClose(u)).canFlush = u.canFlush
<1> DEFINE n == Closed(Bodied(u.net, u.hdr, Encode(u.gz.zbuf, TRUE)))
           g == [u.gz EXCEPT !.zbuf = <<>>]
           v == Put(u, u.hdr, n, Touched(u.rec), g)
<1>1. ZClose(u) = v
  BY ZCloseForm
<1>2. /\ u.hdr \in Headers /\ u.net \in Net /\ u.rec \in Rec /\ u.gz \in Gz
  BY StackFields
<1>3. n \in Net
  <2>1. Encode(u.gz.zbuf, TRUE) \in Seq(Byte)
    BY <1>2, GzFields, EncodeType
  <2>2. Bodied(u.net, u.hdr, Encode(u.gz.zbuf, TRUE)) \in Net
    BY <1>2, <2>1, BodiedKeeps
  <2> QED BY <2>2, ClosedFields
<1>4. g \in Gz /\ Touched(u.rec) \in Rec
  BY <1>2, EmptyIds, GzZbuf, RecTypes
<1> HIDE DEF n, g
<1>5. v \in Stack /\ v.canFlush = u.canFlush
  BY <1>2, <1>3, <1>4, PutFields
<1> HIDE DEF v
<1> QED BY <1>1, <1>5, ReleaseFlags

LEMMA FinishDelivered ==
  ASSUME NEW t, NEW p, Mirrored(t, p, TRUE)
  PROVE  /\ GzFinish(t).canFlush = t.canFlush
         /\ t.canFlush /\ ~GzFinish(t).net.hijacked /\ ~GzFinish(t).net.broken =>
              Delivered(Returned(GzFinish(t).net, GzFinish(t).hdr), GzFinish(t).gz,
                        Returned(p.net, p.hdr))
<1> DEFINE u == ImplicitStatus(t)
           m == Headed(p.net, p.hdr, OK200)
           q == Heads(p, m)
           f == GzFinish(t)
<1>1. Mirrored(u, q, TRUE) /\ u.gz.state \in GzipStates \ {"pending"}
  BY ImplicitMirrored
<1>2. Response(p) /\ p.hdr \in Headers /\ p.net \in Net /\ p.canFlush = t.canFlush
  BY MirroredParts
<1>3. Returned(p.net, p.hdr) = Returned(m, p.hdr) /\ m \in Net
  <2>1. m \in Net
    BY <1>2, OkIsNat, HeadedKeeps
  <2> QED BY <1>2, <2>1, ReturnedImplied
<1>4. /\ u.gz.state = "buffering" => f = CommitIdentity(u)
      /\ u.gz.state = "compressed" => f = Release(ZClose(u))
      /\ u.gz.state \in {"identity", "hijacked"} => f = u
  BY DEF GzFinish
<1> HIDE DEF u, m, f
<1>5. q.hdr = p.hdr /\ q.net = m /\ q.canFlush = t.canFlush
  BY <1>2, <1>3, HeadsFields
<1> HIDE DEF q
<1>6. u \in Stack /\ Books(u.gz) /\ u.canFlush = t.canFlush /\ u.hdr \in Headers /\ u.net \in Net
  BY <1>1, <1>5, MirroredParts
<1>7. u.canFlush => Mirrors(u.hdr, u.net, u.gz, p.hdr, m, TRUE)
  BY <1>1, <1>5 DEF Mirrored
<1>8. u.gz.state \in {"buffering", "compressed", "identity", "hijacked"}
  BY <1>1 DEF GzipStates
<1>9. f.canFlush = t.canFlush
  <2>1. CASE u.gz.state = "buffering"
    BY <1>4, <1>6, <2>1, CommitIdentityFields
  <2>2. CASE u.gz.state = "compressed"
    BY <1>4, <1>6, <2>2, ClosedFlag
  <2> QED BY <1>4, <1>6, <1>8, <2>1, <2>2
<1>10. ASSUME t.canFlush, ~f.net.hijacked, ~f.net.broken
       PROVE  Delivered(Returned(f.net, f.hdr), f.gz, Returned(m, p.hdr))
  <2>1. Mirrors(u.hdr, u.net, u.gz, p.hdr, m, TRUE)
    BY <1>6, <1>7, <1>10
  <2>2. ASSUME NEW H \in Headers, NEW n \in Net, NEW g, g.state = "identity", ~n.broken,
               Mirrors(H, n, g, p.hdr, m, TRUE)
        PROVE  Delivered(Returned(n, H), g, Returned(m, p.hdr))
    <3>1. Common(H, n, p.hdr, m) /\ SentPlain(H, n, p.hdr, m)
      BY <2>2 DEF Mirrors
    <3> QED BY <1>2, <1>3, <2>2, <3>1, PlainDelivered
  <2>3. CASE u.gz.state = "buffering"
    <3> DEFINE c == CommitIdentity(u)
    <3>1. /\ c.hdr = LeftHeader(u, FALSE) /\ c.gz.state = "identity"
          /\ c.net = IF u.gz.buf = <<>> THEN Headed(u.net, SentHeader(u, FALSE), u.gz.status)
                     ELSE Bodied(Headed(u.net, SentHeader(u, FALSE), u.gz.status),
                                 LeftHeader(u, FALSE), Encode(u.gz.buf, FALSE))
      BY <1>6, CommitIdentityFields
    <3>2. Good(u)
      BY <1>1 DEF Mirrored
    <3>3. c.hdr \in Headers /\ c.net \in Net
      BY <2>3, <3>2, GoodCommitIdentity, GoodParts
    <3> HIDE DEF c
    <3>4. /\ u.gz.buf = <<>> =>
               Mirrors(LeftHeader(u, FALSE), Headed(u.net, SentHeader(u, FALSE), u.gz.status),
                       c.gz, p.hdr, m, TRUE)
          /\ Mirrors(LeftHeader(u, FALSE),
                     Bodied(Headed(u.net, SentHeader(u, FALSE), u.gz.status),
                            LeftHeader(u, FALSE), Encode(u.gz.buf, FALSE)),
                     c.gz, p.hdr, m, TRUE)
      BY <1>6, <2>1, <2>3, <3>1, IdentityMirrors
    <3>5. Mirrors(c.hdr, c.net, c.gz, p.hdr, m, TRUE)
      <4>1. CASE u.gz.buf = <<>>
        BY <3>1, <3>4, <4>1
      <4>2. CASE u.gz.buf # <<>>
        BY <3>1, <3>4, <4>2
      <4> QED BY <4>1, <4>2
    <3>6. f = c
      BY <1>4, <2>3 DEF c
    <3> QED BY <1>10, <2>2, <3>1, <3>3, <3>5, <3>6
  <2>4. CASE u.gz.state = "compressed"
    BY <1>4, <1>6, <1>10, <2>1, <2>4, ClosedDelivered
  <2>5. CASE u.gz.state = "identity"
    BY <1>4, <1>6, <1>10, <2>1, <2>2, <2>5
  <2>6. CASE u.gz.state = "hijacked"
    BY <1>4, <1>10, <2>1, <2>6 DEF Mirrors, Cut
  <2> QED BY <1>8, <2>3, <2>4, <2>5, <2>6
<1> QED BY <1>3, <1>9, <1>10 DEF f

LEMMA ReturnFlag ==
  ASSUME NEW t \in Stack, NEW h, Log(NetReturn(t), h)
  PROVE  s'.canFlush = t.canFlush
<1> DEFINE n == Returned(t.net, t.hdr)
           u == NetReturn(t)
<1>1. t.hdr \in Headers /\ t.net \in Net /\ t.rec \in Rec /\ t.gz \in Gz /\ Recorded(t)
  BY StackFields
<1>2. n \in Net
  BY <1>1, ReturnedKeeps
<1>3. u = With(t, t.hdr, n, t.rec)
  BY <1>1, NetEndForms
<1> HIDE DEF n
<1>4. u.canFlush = t.canFlush
  BY <1>1, <1>2, <1>3, WithFields
<1> HIDE DEF u
<1>5. s' = u
  <2>1. CASE cfg.logged /\ ~(cfg.skipUpgrades /\ SwitchedProtocol(u.rec))
    BY <2>1, LogLeaves DEF u
  <2>2. CASE ~(cfg.logged /\ ~(cfg.skipUpgrades /\ SwitchedProtocol(u.rec)))
    BY <2>2 DEF u, Log, EmitAccessLog, NoRecord
  <2> QED BY <2>1, <2>2
<1> QED BY <1>4, <1>5

LEMMA ReturnsMirror ==
  ASSUME StackInv, MirrorInv, HandlerReturns
  PROVE  MirrorInv'
<1> DEFINE t == IF cfg.gzip THEN GzFinish(s) ELSE s
<1>1. PICK h \in Hooks : Log(NetReturn(t), h)
  BY DEF HandlerReturns
<1>2. /\ phase = "handler" /\ phase' = "done" /\ cfg' = cfg /\ plain' = NetReturn(plain)
  BY DEF HandlerReturns
<1>3. Good(s) /\ (~cfg.gzip => s.gz.state = "pending") /\ cfg \in Configs
  BY <1>2, HandlerFacts DEF Position
<1>4. Settled(t)
  BY <1>3, SettledGzFinish, GoodIsSettled
<1>5. Mirrored(s, plain, cfg.gzip) /\ cfg.gzip \in BOOLEAN
  BY <1>2, HandlerMirrors
<1>6. Response(plain) /\ plain.hdr \in Headers /\ plain.net \in Net
  BY <1>5, MirroredParts
<1>7. plain'.net = Returned(plain.net, plain.hdr)
  <2>1. NetReturn(plain) = Heads(plain, Returned(plain.net, plain.hdr))
    BY <1>6, NetForms DEF Heads
  <2>2. Returned(plain.net, plain.hdr) \in Net
    BY <1>6, ReturnedKeeps
  <2> QED BY <1>2, <1>6, <2>1, <2>2, HeadsFields
<1>8. /\ t.canFlush = s.canFlush
      /\ t.canFlush /\ ~t.net.hijacked /\ ~t.net.broken =>
           Delivered(Returned(t.net, t.hdr), t.gz, Returned(plain.net, plain.hdr))
  <2>1. CASE cfg.gzip
    <3>1. Mirrored(s, plain, TRUE)
      BY <1>5, <2>1
    <3>2. /\ GzFinish(s).canFlush = s.canFlush
          /\ s.canFlush /\ ~GzFinish(s).net.hijacked /\ ~GzFinish(s).net.broken =>
               Delivered(Returned(GzFinish(s).net, GzFinish(s).hdr), GzFinish(s).gz,
                         Returned(plain.net, plain.hdr))
      BY <3>1, FinishDelivered
    <3> QED BY <2>1, <3>2
  <2>2. CASE ~cfg.gzip
    <3>1. s.hdr \in Headers /\ s.net \in Net
      BY <1>5, MirroredParts
    <3>2. s.canFlush => /\ Common(s.hdr, s.net, plain.hdr, plain.net)
                        /\ Undecided(s.hdr, s.net, s.gz, plain.hdr, plain.net, FALSE)
      BY <1>3, <1>5, <2>2 DEF Mirrored, Mirrors
    <3>3. s.canFlush =>
            Delivered(Returned(s.net, s.hdr), s.gz, Returned(plain.net, plain.hdr))
      BY <1>6, <3>1, <3>2, SameDelivered
    <3> QED BY <2>2, <3>3
  <2> QED BY <2>1, <2>2
<1> HIDE DEF t
<1>9. t \in Stack
  BY <1>4 DEF Settled, Whole
<1>10. s'.gz = t.gz /\ s'.net = Returned(t.net, t.hdr)
  BY <1>1, <1>2, <1>3, <1>4, ReturnedLogged DEF Settled, Whole
<1>11. s'.canFlush = t.canFlush
  BY <1>1, <1>9, ReturnFlag
<1>12. s'.net.hijacked = t.net.hijacked /\ s'.net.broken = t.net.broken
  <2>1. t.net \in Net /\ t.hdr \in Headers
    BY <1>9, StackFields
  <2>2. /\ Returned(t.net, t.hdr).hijacked = t.net.hijacked
        /\ Returned(t.net, t.hdr).broken = t.net.broken
    BY <2>1, ReturnedKeeps
  <2> QED BY <1>10, <2>2
<1>13. s'.canFlush /\ ~s'.net.hijacked /\ ~s'.net.broken => Delivered(s'.net, s'.gz, plain'.net)
  BY <1>7, <1>8, <1>10, <1>11, <1>12
<1>14. StackIsTransparent'
  BY <1>13 DEF StackIsTransparent, Answered, Delivered
<1> QED BY <1>2, <1>14 DEF MirrorInv

LEMMA NextMirrorInv == StackInv /\ MirrorInv /\ [Next]_vars => MirrorInv'
<1> SUFFICES ASSUME StackInv, MirrorInv, [Next]_vars PROVE MirrorInv'
  OBVIOUS
<1>1. StackInv'
  BY NextStackInv
<1>2. CASE SetEntityHeaders \/ SetOwnEncoding \/ SetOtherHeader \/ SetTrailers
  BY <1>2, HeaderCallsMirror
<1>3. CASE HandlerWriteHeader \/ HandlerWrite \/ HandlerReadFrom
  BY <1>3, WriteHeaderMirrors, WriteMirrors, ReadFromMirrors
<1>4. CASE HandlerFlush \/ HandlerHijack
  BY <1>4, FlushMirrors, HijackMirrors
<1>5. CASE CompressorEmits
  BY <1>5, EmitsMirrors
<1>6. CASE ConnectionFails
  BY <1>1, <1>6, FailsMirrors
<1>7. CASE HandlerReturns
  BY <1>7, ReturnsMirror
<1>8. CASE HandlerPanics
  <2>1. phase' = "panicked"
    BY <1>8 DEF HandlerPanics
  <2> QED BY <2>1, UnfinishedIsTransparent DEF MirrorInv
<1>9. CASE Recovered \/ AbortPassesOn
  <2>1. phase' = "done" /\ panicked' # "no"
    BY <1>9 DEF Recovered, AbortPassesOn
  <2> QED BY <2>1, UnfinishedIsTransparent DEF MirrorInv
<1>10. CASE UNCHANGED vars
  <2>1. StackIsTransparent'
    BY <1>10 DEF vars, MirrorInv, StackIsTransparent, Answered, Done
  <2>2. Mirrored(s, plain, cfg.gzip) => Mirrored(s, plain, cfg.gzip)'
    BY <1>10 DEF vars, Mirrored, Good, Whole
  <2> QED BY <1>10, <2>1, <2>2 DEF vars, MirrorInv
<1> QED BY <1>2, <1>3, <1>4, <1>5, <1>6, <1>7, <1>8, <1>9, <1>10 DEF Next, Finished

THEOREM MirrorInvariant == Spec => [](StackInv /\ MirrorInv)
<1>1. Init => StackInv /\ MirrorInv
  BY InitStackInv, InitMirrorInv
<1>2. StackInv /\ MirrorInv /\ [Next]_vars => (StackInv /\ MirrorInv)'
  BY NextStackInv, NextMirrorInv
<1> QED BY <1>1, <1>2, PTL DEF Spec

(* A completed response is the bare one or its gzip encoding, for any      *)
(* calls, statuses, threshold and connection with a Flush (gzipWriter,     *)
(* src/gzip.go).                                                           *)
THEOREM StackIsInvisible == Spec => []StackIsTransparent
<1>1. StackInv /\ MirrorInv => StackIsTransparent
  BY DEF MirrorInv
<1> QED BY <1>1, MirrorInvariant, PTL

LEMMA PrefixOf ==
  ASSUME NEW a \in Seq(Nat), NEW q \in Seq(Nat)
  PROVE  IsPrefix(a, a \o q)
<1> DEFINE b == a \o q
<1>1. /\ b \in Seq(Nat) /\ Len(b) = Len(a) + Len(q)
      /\ \A i \in 1..Len(a) : b[i] = a[i]
  BY ConcatProperties
<1>2. Len(a) \in Nat /\ Len(q) \in Nat
  OBVIOUS
<1> HIDE DEF b
<1>3. Len(a) <= Len(b)
  BY <1>1, <1>2
<1>4. SubSeq(a, 1, Len(a)) = SubSeq(b, 1, Len(a))
  BY <1>1, <1>2, <1>3
<1>5. IsPrefix(a, b)
  BY <1>3, <1>4 DEF IsPrefix
<1> QED BY <1>5 DEF b

LEMMA OneKind ==
  ASSUME NEW Z, NEW z, Z \subseteq {z}
  PROVE  Cardinality(Z) <= 1
<1>1. CASE Z = {}
  BY <1>1, FS_EmptySet
<1>2. CASE Z = {z}
  BY <1>2, FS_Singleton
<1> QED BY <1>1, <1>2

(* While the handler runs, what is on the wire is the beginning of what the*)
(* bare writer would have sent, of one kind, under the same status         *)
(* (gzipWriter, src/gzip.go).                                              *)
THEOREM WireFollows == Spec => []WireIsPrefix
<1>1. StackInv /\ MirrorInv => WireIsPrefix
  <2> SUFFICES ASSUME MirrorInv, phase = "handler", s.canFlush PROVE WireIsPrefix
    BY DEF WireIsPrefix
  <2> DEFINE n == s.net
             m == plain.net
  <2>1. Mirrored(s, plain, cfg.gzip)
    BY DEF MirrorInv
  <2>2. n \in Net /\ m \in Net
    BY <2>1, MirroredParts
  <2>3. Mirrors(s.hdr, n, s.gz, plain.hdr, m, cfg.gzip)
    BY <2>1 DEF Mirrored
  <2> HIDE DEF n, m
  <2>4. m.infos = n.infos
    BY <2>3 DEF Mirrors, Common
  <2>5. /\ n.status # NoStatus => n.status = m.status
        /\ \E z \in BOOLEAN : Zs(n.body) \subseteq {z}
        /\ \E q \in Seq(Nat) : Ids(m.body) = Ids(n.body) \o q
    BY <2>2, <2>3, BehindSome
  <2>6. IsPrefix(Ids(n.body), Ids(m.body))
    <3>1. n.body \in Seq(Byte)
      BY <2>2 DEF Net
    <3>2. Ids(n.body) \in Seq(Nat)
      BY <3>1, IdsType
    <3>3. PICK q \in Seq(Nat) : Ids(m.body) = Ids(n.body) \o q
      BY <2>5
    <3> QED BY <3>2, <3>3, PrefixOf
  <2>7. Cardinality(Zs(n.body)) <= 1
    BY <2>5, OneKind
  <2> QED BY <2>4, <2>5, <2>6, <2>7 DEF WireIsPrefix, Committed, n, m
<1> QED BY <1>1, MirrorInvariant, PTL
=============================================================================
