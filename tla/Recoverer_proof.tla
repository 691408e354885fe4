--------------------------- MODULE Recoverer_proof ---------------------------
(***************************************************************************)
(* What the calls on a response do, for any response, status and bytes:    *)
(* the lemmas about ResponseWriter, StatusRecorder and Recoverer that the  *)
(* proofs about the stacks built of them share.                            *)
(*                                                                         *)
(* A call changes some fields of a response and leaves the others, of      *)
(* which a stack may have more than are named here.  So each call gets a   *)
(* normal form, [t EXCEPT !.net = ..., !.rec = ...], over operators on the *)
(* field alone.                                                            *)
(***************************************************************************)
EXTENDS Recoverer, SequenceTheorems, TLAPS

Byte == [id : Nat, z : BOOLEAN]
Net == [infos : Seq(Nat), status : Nat, hdr : Headers, body : Seq(Byte), zdone : BOOLEAN,
        trailers : [sum : 0..2, prefixed : 0..2],
        broken : BOOLEAN, hijacked : BOOLEAN, aborted : BOOLEAN]
Rec == [status : Nat, wrote : BOOLEAN, bare : BOOLEAN]

Response(t) ==
  /\ t = [f \in DOMAIN t |-> t[f]]
  /\ {"hdr", "net", "canFlush", "canHijack"} \subseteq DOMAIN t
  /\ t.hdr \in Headers /\ t.net \in Net /\ t.canFlush \in BOOLEAN /\ t.canHijack \in BOOLEAN

Recorded(t) == Response(t) /\ "rec" \in DOMAIN t /\ t.rec \in Rec

-----------------------------------------------------------------------------
(* The calls on a bare writer, on its field net alone.                     *)
Quiet(n) == n.hijacked \/ n.status # NoStatus
Headed(n, h, code) ==
  IF Quiet(n) THEN n
  ELSE IF Informational(code) THEN [n EXCEPT !.infos = Append(n.infos, code)]
  ELSE [n EXCEPT !.status = code, !.hdr = [h EXCEPT !.prefixed = 0]]

Bodied(n, h, bytes) ==
  LET m == Headed(n, h, OK200)
  IN IF n.hijacked \/ n.broken \/ ~BodyAllowed(m.status) THEN m
     ELSE [m EXCEPT !.body = n.body \o bytes]

Returned(n, h) ==
  LET m == Headed(n, h, OK200)
  IN IF n.hijacked \/ n.broken \/ ~BodyAllowed(m.status) THEN m
     ELSE [m EXCEPT !.trailers =
             [sum |-> IF m.hdr.declared THEN h.sum ELSE 0, prefixed |-> h.prefixed]]

LEMMA HeadedInforms ==
  ASSUME NEW n \in Net, NEW h \in Headers, NEW code \in Nat, ~Quiet(n), Informational(code)
  PROVE  /\ Headed(n, h, code).infos = Append(n.infos, code)
         /\ Headed(n, h, code).status = NoStatus
BY DEF Headed, Net, Quiet

LEMMA HeadedSends ==
  ASSUME NEW n \in Net, NEW h \in Headers, NEW code \in Nat, ~Quiet(n), ~Informational(code)
  PROVE  /\ Headed(n, h, code).infos = n.infos
         /\ Headed(n, h, code).status = code
BY DEF Headed, Net, Quiet

(* A header block that is sent keeps its type, and the rest of the response*)
(* is as it was.                                                           *)
LEMMA HeadedKeeps ==
  ASSUME NEW n \in Net, NEW h \in Headers, NEW code \in Nat
  PROVE  /\ Headed(n, h, code) \in Net
         /\ Headed(n, h, code).body = n.body
         /\ Headed(n, h, code).zdone = n.zdone
         /\ Headed(n, h, code).trailers = n.trailers
         /\ Headed(n, h, code).broken = n.broken
         /\ Headed(n, h, code).hijacked = n.hijacked
         /\ Headed(n, h, code).aborted = n.aborted
<1>1. CASE Quiet(n)
  BY <1>1 DEF Headed
<1>2. CASE ~Quiet(n) /\ Informational(code)
  <2>1. Append(n.infos, code) \in Seq(Nat)
    BY DEF Net
  <2>2. Headed(n, h, code) = [n EXCEPT !.infos = Append(n.infos, code)]
    BY <1>2 DEF Headed
  <2> QED BY <2>1, <2>2 DEF Net
<1>3. CASE ~Quiet(n) /\ ~Informational(code)
  <2>1. [h EXCEPT !.prefixed = 0] \in Headers
    BY DEF Headers
  <2>2. Headed(n, h, code) = [n EXCEPT !.status = code, !.hdr = [h EXCEPT !.prefixed = 0]]
    BY <1>3 DEF Headed
  <2> QED BY <2>1, <2>2 DEF Net
<1> QED BY <1>1, <1>2, <1>3

LEMMA OkIsNat == OK200 \in Nat
BY DEF OK200

(* Bytes go out once, after the header block.                              *)
LEMMA BodiedKeeps ==
  ASSUME NEW n \in Net, NEW h \in Headers, NEW bytes \in Seq(Byte)
  PROVE  /\ Bodied(n, h, bytes) \in Net
         /\ Bodied(n, h, bytes).infos = Headed(n, h, OK200).infos
         /\ Bodied(n, h, bytes).status = Headed(n, h, OK200).status
         /\ Bodied(n, h, bytes).hdr = Headed(n, h, OK200).hdr
         /\ Bodied(n, h, bytes).zdone = n.zdone
         /\ Bodied(n, h, bytes).trailers = n.trailers
         /\ Bodied(n, h, bytes).broken = n.broken
         /\ Bodied(n, h, bytes).hijacked = n.hijacked
         /\ Bodied(n, h, bytes).aborted = n.aborted
         /\ Bodied(n, h, bytes).body =
              IF n.hijacked \/ n.broken \/ ~BodyAllowed(Headed(n, h, OK200).status) THEN n.body
              ELSE n.body \o bytes
<1> DEFINE sent == Headed(n, h, OK200)
           shut == n.hijacked \/ n.broken \/ ~BodyAllowed(sent.status)
<1>1. /\ sent \in Net
      /\ sent.body = n.body /\ sent.zdone = n.zdone /\ sent.trailers = n.trailers
      /\ sent.broken = n.broken /\ sent.hijacked = n.hijacked /\ sent.aborted = n.aborted
  BY OkIsNat, HeadedKeeps
<1>2. n.body \o bytes \in Seq(Byte)
  BY DEF Net
<1>3. Bodied(n, h, bytes) = IF shut THEN sent ELSE [sent EXCEPT !.body = n.body \o bytes]
  BY DEF Bodied
<1> HIDE DEF sent
<1>4. CASE shut
  BY <1>1, <1>3, <1>4 DEF sent
<1>5. CASE ~shut
  <2> DEFINE b == [sent EXCEPT !.body = n.body \o bytes]
  <2>1. b \in Net /\ b.body = n.body \o bytes
    BY <1>1, <1>2 DEF Net
  <2>2. /\ b.infos = sent.infos /\ b.status = sent.status /\ b.hdr = sent.hdr
        /\ b.zdone = sent.zdone /\ b.trailers = sent.trailers
        /\ b.broken = sent.broken /\ b.hijacked = sent.hijacked /\ b.aborted = sent.aborted
    BY <1>1 DEF Net
  <2>3. Bodied(n, h, bytes) = b
    BY <1>3, <1>5
  <2> HIDE DEF b
  <2> QED BY <1>1, <1>5, <2>1, <2>2, <2>3 DEF sent
<1> QED BY <1>4, <1>5

(* The end of the handler chain sends what trailers the framing allows.    *)
LEMMA ReturnedKeeps ==
  ASSUME NEW n \in Net, NEW h \in Headers
  PROVE  /\ Returned(n, h) \in Net
         /\ Returned(n, h).infos = Headed(n, h, OK200).infos
         /\ Returned(n, h).status = Headed(n, h, OK200).status
         /\ Returned(n, h).hdr = Headed(n, h, OK200).hdr
         /\ Returned(n, h).body = n.body
         /\ Returned(n, h).zdone = n.zdone
         /\ Returned(n, h).broken = n.broken
         /\ Returned(n, h).hijacked = n.hijacked
         /\ Returned(n, h).aborted = n.aborted
         /\ Returned(n, h).trailers =
              IF n.hijacked \/ n.broken \/ ~BodyAllowed(Headed(n, h, OK200).status) THEN n.trailers
              ELSE [sum |-> IF Headed(n, h, OK200).hdr.declared THEN h.sum ELSE 0,
                    prefixed |-> h.prefixed]
<1> DEFINE sent == Headed(n, h, OK200)
           shut == n.hijacked \/ n.broken \/ ~BodyAllowed(sent.status)
           trailers == [sum |-> IF sent.hdr.declared THEN h.sum ELSE 0, prefixed |-> h.prefixed]
<1>1. /\ sent \in Net
      /\ sent.body = n.body /\ sent.zdone = n.zdone /\ sent.trailers = n.trailers
      /\ sent.broken = n.broken /\ sent.hijacked = n.hijacked /\ sent.aborted = n.aborted
  BY OkIsNat, HeadedKeeps
<1>2. trailers \in [sum : 0..2, prefixed : 0..2]
  BY DEF Headers
<1>3. Returned(n, h) = IF shut THEN sent ELSE [sent EXCEPT !.trailers = trailers]
  BY DEF Returned
<1>6. trailers = [sum |-> IF Headed(n, h, OK200).hdr.declared THEN h.sum ELSE 0,
                  prefixed |-> h.prefixed]
  OBVIOUS
<1> HIDE DEF sent, trailers
<1>4. CASE shut
  BY <1>1, <1>3, <1>4 DEF sent
<1>5. CASE ~shut
  <2> DEFINE r == [sent EXCEPT !.trailers = trailers]
  <2>1. r \in Net /\ r.trailers = trailers
    BY <1>1, <1>2 DEF Net
  <2>2. /\ r.infos = sent.infos /\ r.status = sent.status /\ r.hdr = sent.hdr
        /\ r.zdone = sent.zdone /\ r.body = sent.body
        /\ r.broken = sent.broken /\ r.hijacked = sent.hijacked /\ r.aborted = sent.aborted
    BY <1>1 DEF Net
  <2>3. Returned(n, h) = r
    BY <1>3, <1>5
  <2> HIDE DEF r
  <2> QED BY <1>1, <1>5, <1>6, <2>1, <2>2, <2>3 DEF sent
<1> QED BY <1>4, <1>5

-----------------------------------------------------------------------------
(* The normal forms.                                                       *)
LEMMA NetForms ==
  ASSUME NEW t, Response(t)
  PROVE  /\ \A code \in Nat :
              NetWriteHeader(t, code) = [t EXCEPT !.net = Headed(t.net, t.hdr, code)]
         /\ \A bytes \in Seq(Byte) :
              NetWrite(t, bytes) = [t EXCEPT !.net = Bodied(t.net, t.hdr, bytes)]
         /\ NetFlush(t) = IF t.canFlush THEN [t EXCEPT !.net = Headed(t.net, t.hdr, OK200)] ELSE t
         /\ HijackFails(t) <=> ~t.canHijack \/ t.net.hijacked
         /\ NetHijack(t) = IF HijackFails(t) THEN t
                           ELSE [t EXCEPT !.net = [t.net EXCEPT !.hijacked = TRUE]]
         /\ NetReturn(t) = [t EXCEPT !.net = Returned(t.net, t.hdr)]
         /\ NetAbort(t) = [t EXCEPT !.net = [t.net EXCEPT !.aborted = TRUE]]
<1>1. ASSUME NEW code \in Nat
      PROVE  NetWriteHeader(t, code) = [t EXCEPT !.net = Headed(t.net, t.hdr, code)]
  <2>1. CASE Quiet(t.net)
    BY <2>1 DEF Response, NetWriteHeader, Headed, Quiet, Committed
  <2>2. CASE ~Quiet(t.net) /\ Informational(code)
    BY <2>2 DEF Response, NetWriteHeader, Headed, Quiet, Committed
  <2>3. CASE ~Quiet(t.net) /\ ~Informational(code)
    BY <2>3 DEF Response, NetWriteHeader, Headed, Quiet, Committed
  <2> QED BY <2>1, <2>2, <2>3
<1>0. t.net \in Net /\ t.hdr \in Headers
  BY DEF Response
<1> DEFINE sent == Headed(t.net, t.hdr, OK200)
<1>2. /\ NetWriteHeader(t, OK200) = [t EXCEPT !.net = sent]
      /\ sent \in Net /\ sent.body = t.net.body
      /\ sent.hijacked = t.net.hijacked /\ sent.broken = t.net.broken
  <2>1. NetWriteHeader(t, OK200) = [t EXCEPT !.net = sent]
    BY <1>1, OkIsNat
  <2>2. /\ sent \in Net /\ sent.body = t.net.body
        /\ sent.hijacked = t.net.hijacked /\ sent.broken = t.net.broken
    BY <1>0, OkIsNat, HeadedKeeps
  <2> QED BY <2>1, <2>2
<1> HIDE DEF sent
<1>3. ASSUME NEW bytes \in Seq(Byte)
      PROVE  NetWrite(t, bytes) = [t EXCEPT !.net = Bodied(t.net, t.hdr, bytes)]
  BY <1>2 DEF Response, NetWrite, Bodied, sent
<1>4. NetReturn(t) = [t EXCEPT !.net = Returned(t.net, t.hdr)]
  <2> DEFINE w == [t EXCEPT !.net = sent]
             shut == t.net.hijacked \/ t.net.broken \/ ~BodyAllowed(sent.status)
             trailers == [sum |-> IF sent.hdr.declared THEN t.hdr.sum ELSE 0, prefixed |-> t.hdr.prefixed]
  <2>1. Returned(t.net, t.hdr) = IF shut THEN sent ELSE [sent EXCEPT !.trailers = trailers]
    BY DEF Returned, sent
  <2>2. /\ w.net = sent /\ w.hdr = t.hdr
        /\ w.net.hijacked = t.net.hijacked /\ w.net.broken = t.net.broken
    BY <1>2 DEF Response
  <2>3. NetReturn(t) = IF shut THEN w ELSE [w EXCEPT !.net = [sent EXCEPT !.trailers = trailers]]
    BY <1>2, <2>2 DEF NetReturn
  <2> HIDE DEF trailers, shut
  <2> QED BY <2>1, <2>3
<1>5. NetFlush(t) = IF t.canFlush THEN [t EXCEPT !.net = sent] ELSE t
  BY <1>2 DEF Response, NetFlush
<1> QED BY <1>1, <1>3, <1>4, <1>5 DEF Response, HijackFails, NetHijack, NetAbort, sent

-----------------------------------------------------------------------------
(* The same through the recorder.                                          *)
Coded(r, code) == IF r.wrote THEN r ELSE [r EXCEPT !.status = code, !.wrote = TRUE]
Touched(r) == [r EXCEPT !.wrote = TRUE]

LEMMA RecTypes ==
  ASSUME NEW r \in Rec
  PROVE  /\ \A code \in Nat : Coded(r, code) \in Rec
         /\ Touched(r) \in Rec
BY DEF Rec, Coded, Touched

(* The response t with another header, sent response and recorder.         *)
With(t, h, n, r) == [t EXCEPT !.hdr = h, !.net = n, !.rec = r]

LEMMA WithFields ==
  ASSUME NEW t, Recorded(t), NEW h \in Headers, NEW n \in Net, NEW r \in Rec
  PROVE  /\ Recorded(With(t, h, n, r))
         /\ With(t, h, n, r).hdr = h
         /\ With(t, h, n, r).net = n
         /\ With(t, h, n, r).rec = r
         /\ With(t, h, n, r).canFlush = t.canFlush
         /\ With(t, h, n, r).canHijack = t.canHijack
         /\ With(t, t.hdr, t.net, t.rec) = t
BY DEF With, Recorded, Response

LEMMA WithTwice ==
  ASSUME NEW t, Recorded(t), NEW g, NEW m, NEW q, NEW h, NEW n, NEW r
  PROVE  With(With(t, g, m, q), h, n, r) = With(t, h, n, r)
BY DEF With, Recorded, Response

LEMMA RecHeaderForm ==
  ASSUME NEW t, Recorded(t), NEW code \in Nat
  PROVE  RecWriteHeader(t, code) =
           With(t, t.hdr, Headed(t.net, t.hdr, code), Coded(t.rec, code))
<1> DEFINE w == [t EXCEPT !.rec = Coded(t.rec, code)]
<1>1. RecWriteHeader(t, code) = NetWriteHeader(w, code)
  BY DEF RecWriteHeader, Coded, Recorded, Response
<1>2. Response(w) /\ w.net = t.net /\ w.hdr = t.hdr
  BY DEF Recorded, Response
<1> HIDE DEF w
<1>3. NetWriteHeader(w, code) = [w EXCEPT !.net = Headed(t.net, t.hdr, code)]
  BY <1>2, NetForms
<1> QED BY <1>1, <1>3 DEF w, With, Recorded, Response

LEMMA RecWriteForm ==
  ASSUME NEW t, Recorded(t), NEW bytes \in Seq(Byte)
  PROVE  RecWrite(t, bytes) = With(t, t.hdr, Bodied(t.net, t.hdr, bytes), Touched(t.rec))
<1> DEFINE w == [t EXCEPT !.rec = Touched(t.rec)]
<1>1. Response(w) /\ w.net = t.net /\ w.hdr = t.hdr /\ RecWrote(t) = w
  BY DEF Recorded, Response, RecWrote, Touched
<1> HIDE DEF w
<1>2. NetWrite(w, bytes) = [w EXCEPT !.net = Bodied(t.net, t.hdr, bytes)]
  BY <1>1, NetForms
<1>3. RecWrite(t, bytes) = NetWrite(w, bytes)
  BY <1>1 DEF RecWrite
<1> QED BY <1>2, <1>3 DEF w, With, Recorded, Response

LEMMA RecReadFromForm ==
  ASSUME NEW t, Recorded(t), NEW bytes \in Seq(Byte)
  PROVE  RecReadFrom(t, bytes) =
           IF bytes = <<>> THEN t
           ELSE With(t, t.hdr, Bodied(t.net, t.hdr, bytes), Touched(t.rec))
<1>1. CASE bytes = <<>>
  BY <1>1 DEF RecReadFrom
<1>2. CASE bytes # <<>>
  <2>1. NetWrite(t, bytes) = [t EXCEPT !.net = Bodied(t.net, t.hdr, bytes)]
    BY NetForms DEF Recorded
  <2>2. RecReadFrom(t, bytes) = RecWrote(NetWrite(t, bytes))
    BY <1>2 DEF RecReadFrom
  <2> QED BY <1>2, <2>1, <2>2 DEF RecWrote, Touched, With, Recorded, Response
<1> QED BY <1>1, <1>2

LEMMA RecFlushForm ==
  ASSUME NEW t, Recorded(t)
  PROVE  RecFlush(t) = IF t.canFlush
                       THEN With(t, t.hdr, Headed(t.net, t.hdr, OK200), Touched(t.rec)) ELSE t
<1>1. CASE ~t.canFlush
  BY <1>1 DEF RecFlush, NetFlush
<1>2. CASE t.canFlush
  <2> DEFINE n == Headed(t.net, t.hdr, OK200)
  <2>1. NetFlush(t) = [t EXCEPT !.net = n]
    BY <1>2, NetForms DEF Recorded
  <2>2. RecFlush(t) = RecWrote([t EXCEPT !.net = n])
    BY <1>2, <2>1 DEF RecFlush
  <2> HIDE DEF n
  <2>3. RecWrote([t EXCEPT !.net = n]) = With(t, t.hdr, n, Touched(t.rec))
    BY DEF RecWrote, Touched, With, Recorded, Response
  <2> QED BY <1>2, <2>2, <2>3 DEF n
<1> QED BY <1>1, <1>2

LEMMA RecHijackForm ==
  ASSUME NEW t, Recorded(t)
  PROVE  /\ HijackFails(t) <=> ~t.canHijack \/ t.net.hijacked
         /\ RecHijack(t) =
              IF HijackFails(t) THEN t
              ELSE With(t, t.hdr, [t.net EXCEPT !.hijacked = TRUE],
                        [t.rec EXCEPT !.bare = ~t.rec.wrote, !.wrote = TRUE])
<1>1. CASE HijackFails(t)
  BY <1>1 DEF RecHijack, HijackFails
<1>2. CASE ~HijackFails(t)
  <2> DEFINE h == [t EXCEPT !.net = [t.net EXCEPT !.hijacked = TRUE]]
  <2>1. NetHijack(t) = h
    BY <1>2, NetForms DEF Recorded
  <2>2. RecHijack(t) = [h EXCEPT !.rec.bare = ~t.rec.wrote, !.rec.wrote = TRUE]
    BY <1>2, <2>1 DEF RecHijack
  <2>3. [h EXCEPT !.rec.bare = ~t.rec.wrote, !.rec.wrote = TRUE]
          = With(t, t.hdr, [t.net EXCEPT !.hijacked = TRUE],
                 [t.rec EXCEPT !.bare = ~t.rec.wrote, !.wrote = TRUE])
    BY DEF With, Recorded, Response
  <2> QED BY <1>2, <2>2, <2>3 DEF HijackFails
<1> QED BY <1>1, <1>2

(* The end of a request, on what a recorder is over.                       *)
LEMMA NetEndForms ==
  ASSUME NEW t, Recorded(t)
  PROVE  /\ NetReturn(t) = With(t, t.hdr, Returned(t.net, t.hdr), t.rec)
         /\ NetAbort(t) = With(t, t.hdr, [t.net EXCEPT !.aborted = TRUE], t.rec)
<1>1. NetReturn(t) = [t EXCEPT !.net = Returned(t.net, t.hdr)]
  BY NetForms DEF Recorded
<1>2. NetAbort(t) = [t EXCEPT !.net = [t.net EXCEPT !.aborted = TRUE]]
  BY NetForms DEF Recorded
<1> QED BY <1>1, <1>2 DEF With, Recorded, Response

-----------------------------------------------------------------------------
(* What the recorder knows of the response, as long as no informational    *)
(* status went through it: whether it is committed, with which status, and *)
(* whether the connection was hijacked before anything was sent.           *)
Agrees(n, r) ==
  /\ n.status = NoStatus => n.body = <<>>
  /\ ~r.wrote => ~Quiet(n) /\ n.infos = <<>> /\ r.status = OK200 /\ ~r.bare
  /\ r.wrote /\ n.infos = <<>> =>
       \/ n.status # NoStatus /\ r.status = n.status /\ ~r.bare
       \/ n.status = NoStatus /\ n.hijacked /\ r.status = OK200 /\ r.bare

LEMMA AgreesHeaded ==
  ASSUME NEW n \in Net, NEW h \in Headers, NEW r \in Rec, NEW code \in Nat \ {0}, Agrees(n, r)
  PROVE  Agrees(Headed(n, h, code), Coded(r, code))
<1>1. CASE Quiet(n)
  <2>1. Headed(n, h, code) = n /\ r.wrote
    BY <1>1 DEF Headed, Agrees
  <2> QED BY <2>1 DEF Coded
<1>2. CASE ~Quiet(n)
  <2> DEFINE m == Headed(n, h, code)
             c == Coded(r, code)
  <2>1. m.body = n.body /\ m.hijacked = n.hijacked
    BY HeadedKeeps
  <2>2. /\ Informational(code) => m.infos = Append(n.infos, code) /\ m.status = NoStatus
        /\ ~Informational(code) => m.infos = n.infos /\ m.status = code
    <3>1. code \in Nat
      OBVIOUS
    <3>2. CASE Informational(code)
      BY <1>2, <3>1, <3>2, HeadedInforms
    <3>3. CASE ~Informational(code)
      BY <1>2, <3>1, <3>3, HeadedSends
    <3> QED BY <3>2, <3>3
  <2>3. Append(n.infos, code) # <<>>
    <3>1. n.infos \in Seq(Nat) /\ code \in Nat
      BY DEF Net
    <3> QED BY <3>1, AppendProperties
  <2>4. c.wrote /\ (r.wrote => c = r) /\ (~r.wrote => c.status = code /\ c.bare = r.bare)
    BY DEF Coded, Rec
  <2> HIDE DEF m, c
  <2>5. Agrees(m, c)
    BY <1>2, <2>1, <2>2, <2>3, <2>4 DEF Agrees, Quiet, NoStatus
  <2> QED BY <2>5 DEF m, c
<1> QED BY <1>1, <1>2

LEMMA OkIsFinal == ~Informational(OK200) /\ OK200 # NoStatus /\ BodyAllowed(OK200)
BY DEF OK200, Informational, Switching, NoStatus, BodyAllowed

LEMMA AgreesTouched ==
  ASSUME NEW n \in Net, NEW h \in Headers, NEW r \in Rec, Agrees(n, r)
  PROVE  Agrees(Headed(n, h, OK200), Touched(r))
<1>1. CASE Quiet(n)
  <2>1. Headed(n, h, OK200) = n /\ r.wrote
    BY <1>1 DEF Headed, Agrees
  <2>2. Touched(r) = r
    BY <2>1 DEF Touched, Rec
  <2> QED BY <2>1, <2>2
<1>2. CASE ~Quiet(n)
  <2> DEFINE m == Headed(n, h, OK200)
             c == Touched(r)
  <2>1. m.body = n.body /\ m.infos = n.infos /\ m.status = OK200
    BY <1>2, OkIsNat, OkIsFinal, HeadedKeeps, HeadedSends
  <2>2. c.wrote /\ c.status = r.status /\ c.bare = r.bare
    BY DEF Touched, Rec
  <2> HIDE DEF m, c
  <2>3. Agrees(m, c)
    BY <1>2, <2>1, <2>2, OkIsFinal DEF Agrees, Quiet
  <2> QED BY <2>3 DEF m, c
<1> QED BY <1>1, <1>2

LEMMA AgreesBodied ==
  ASSUME NEW n \in Net, NEW h \in Headers, NEW r \in Rec, NEW bytes \in Seq(Byte), Agrees(n, r)
  PROVE  Agrees(Bodied(n, h, bytes), Touched(r))
<1> DEFINE m == Headed(n, h, OK200)
           b == Bodied(n, h, bytes)
<1>1. Agrees(m, Touched(r))
  BY AgreesTouched
<1>2. b.infos = m.infos /\ b.status = m.status /\ b.hijacked = m.hijacked
  BY BodiedKeeps, HeadedKeeps, OkIsNat
<1>3. m.status = NoStatus => n.hijacked
  <2>1. CASE Quiet(n)
    BY <2>1 DEF Quiet, Headed
  <2>2. CASE ~Quiet(n)
    BY <2>2, OkIsNat, OkIsFinal, HeadedSends
  <2> QED BY <2>1, <2>2
<1>4. n.hijacked => b.body = n.body /\ m.body = n.body
  BY BodiedKeeps, HeadedKeeps, OkIsNat
<1> HIDE DEF m, b
<1>5. Agrees(b, Touched(r))
  BY <1>1, <1>2, <1>3, <1>4 DEF Agrees, Quiet
<1> QED BY <1>5 DEF b

LEMMA AgreesHijacked ==
  ASSUME NEW n \in Net, NEW r \in Rec, Agrees(n, r), ~n.hijacked
  PROVE  LET m == [n EXCEPT !.hijacked = TRUE]
             c == [r EXCEPT !.bare = ~r.wrote, !.wrote = TRUE]
         IN m \in Net /\ c \in Rec /\ Agrees(m, c)
<1> DEFINE m == [n EXCEPT !.hijacked = TRUE]
           c == [r EXCEPT !.bare = ~r.wrote, !.wrote = TRUE]
<1>1. m \in Net /\ m.hijacked /\ m.infos = n.infos /\ m.status = n.status /\ m.body = n.body
  BY DEF Net
<1>2. c \in Rec /\ c.wrote /\ c.bare = ~r.wrote /\ c.status = r.status
  BY DEF Rec
<1> HIDE DEF m, c
<1>3. Agrees(m, c)
  <2>1. CASE r.wrote
    BY <1>1, <1>2, <2>1 DEF Agrees
  <2>2. CASE ~r.wrote
    BY <1>1, <1>2, <2>2 DEF Agrees, Quiet
  <2> QED BY <2>1, <2>2
<1> QED BY <1>1, <1>2, <1>3 DEF m, c

-----------------------------------------------------------------------------
(* What Recoverer leaves of a response: one that was committed as it was,  *)
(* and on any other a whole 500 and nothing else.                          *)
Kinds == {"default", "panicsEarly", "panicsLate"}

Answer500(m, n) ==
  /\ m \in Net
  /\ m.status = 500 /\ m.infos = <<>>
  /\ m.body \in {<<>>, <<[id |-> EnvelopeByte, z |-> FALSE]>>}
  /\ m.zdone = n.zdone /\ m.broken = n.broken
  /\ m.hijacked = n.hijacked /\ m.aborted = n.aborted

LEMMA HeadedCopies ==
  ASSUME NEW n \in Net, NEW h \in Headers, NEW code \in Nat, ~Quiet(n), ~Informational(code)
  PROVE  /\ Headed(n, h, code).hdr.cl = h.cl
         /\ Headed(n, h, code).hdr.late = h.late
BY DEF Headed, Net, Quiet, Headers

LEMMA HeadedTwice ==
  ASSUME NEW n \in Net, NEW h \in Headers, NEW code \in Nat, Quiet(n)
  PROVE  Headed(n, h, code) = n
BY DEF Headed

LEMMA Code500 == 500 \in Nat \ {0} /\ ~Informational(500) /\ 500 # NoStatus /\ BodyAllowed(500)
BY DEF Informational, NoStatus, Switching, BodyAllowed

LEMMA Answered500 ==
  ASSUME NEW n \in Net, NEW h \in Headers, NEW r \in Rec, ~r.wrote, Agrees(n, r)
  PROVE  /\ Answer500(Headed(n, h, 500), n)
         /\ Headed(n, h, 500).hdr.cl = h.cl /\ Headed(n, h, 500).hdr.late = h.late
         /\ Coded(r, 500) \in Rec /\ Coded(r, 500).wrote
         /\ Agrees(Headed(n, h, 500), Coded(r, 500))
<1>1. ~Quiet(n) /\ n.infos = <<>> /\ n.body = <<>>
  BY DEF Agrees, Quiet
<1>2. /\ Headed(n, h, 500).infos = n.infos /\ Headed(n, h, 500).status = 500
      /\ Headed(n, h, 500).hdr.cl = h.cl /\ Headed(n, h, 500).hdr.late = h.late
  BY <1>1, Code500, HeadedSends, HeadedCopies
<1>3. Answer500(Headed(n, h, 500), n)
  BY <1>1, <1>2, Code500, HeadedKeeps DEF Answer500
<1>4. Coded(r, 500) \in Rec /\ Coded(r, 500).wrote
  BY Code500 DEF Coded, Rec
<1>5. Agrees(Headed(n, h, 500), Coded(r, 500))
  BY Code500, AgreesHeaded
<1> QED BY <1>2, <1>3, <1>4, <1>5

LEMMA EnvelopeIsBytes == <<[id |-> EnvelopeByte, z |-> FALSE]>> \in Seq(Byte)
<1>1. [id |-> EnvelopeByte, z |-> FALSE] \in Byte
  BY DEF Byte, EnvelopeByte
<1> QED BY <1>1

LEMMA EnvelopeOnto500 ==
  ASSUME NEW n \in Net, NEW m \in Net, NEW h \in Headers, NEW r \in Rec,
         Answer500(m, n), m.body = <<>>, r.wrote, Agrees(m, r)
  PROVE  /\ Answer500(Bodied(m, h, <<[id |-> EnvelopeByte, z |-> FALSE]>>), n)
         /\ Bodied(m, h, <<[id |-> EnvelopeByte, z |-> FALSE]>>).hdr = m.hdr
         /\ Touched(r) = r
         /\ Agrees(Bodied(m, h, <<[id |-> EnvelopeByte, z |-> FALSE]>>), r)
<1> DEFINE envelope == <<[id |-> EnvelopeByte, z |-> FALSE]>>
           b == Bodied(m, h, envelope)
<1>1. envelope \in Seq(Byte)
  BY EnvelopeIsBytes
<1>2. <<>> \o envelope = envelope
  BY <1>1, ConcatEmptySeq
<1>3. Headed(m, h, OK200) = m
  BY Code500, OkIsNat, HeadedTwice DEF Answer500, Quiet
<1>4. Touched(r) = r
  BY DEF Touched, Rec
<1> HIDE DEF envelope
<1>5. Agrees(b, r)
  BY <1>1, <1>4, AgreesBodied
<1>6. /\ b \in Net /\ b.hdr = m.hdr /\ b.status = m.status /\ b.infos = m.infos
      /\ b.zdone = m.zdone /\ b.broken = m.broken
      /\ b.hijacked = m.hijacked /\ b.aborted = m.aborted
  BY <1>1, <1>3, BodiedKeeps
<1>7. b.body = IF m.hijacked \/ m.broken \/ ~BodyAllowed(Headed(m, h, OK200).status)
               THEN m.body ELSE m.body \o envelope
  BY <1>1, BodiedKeeps
<1> HIDE DEF b
<1>8. b.body \in {<<>>, envelope}
  BY <1>2, <1>7
<1>9. Answer500(b, n)
  BY <1>6, <1>8 DEF Answer500, envelope
<1> QED BY <1>4, <1>5, <1>6, <1>9 DEF envelope, b

(* A response to which a whole 500 was written.                            *)
Written500(u, t) ==
  \E h \in Headers, m \in Net, r \in Rec :
    /\ u = With(t, h, m, r)
    /\ Answer500(m, t.net) /\ m.hdr.cl = t.hdr.cl /\ m.hdr.late = t.hdr.late
    /\ r.wrote /\ Agrees(m, r)

LEMMA WriteErrorForm ==
  ASSUME NEW t, Recorded(t), ~t.rec.wrote, Agrees(t.net, t.rec)
  PROVE  Written500(WriteError(t), t)
<1> DEFINE h == [t.hdr EXCEPT !.ct = "json"]
           w == With(t, h, t.net, t.rec)
           m == Headed(t.net, h, 500)
           r == Coded(t.rec, 500)
           u == With(w, h, m, r)
           envelope == <<[id |-> EnvelopeByte, z |-> FALSE]>>
           b == Bodied(m, h, envelope)
<1>1. h \in Headers /\ h.cl = t.hdr.cl /\ h.late = t.hdr.late /\ t.net \in Net /\ t.rec \in Rec
  BY DEF Recorded, Response, Headers
<1>2. WriteError(t) = RecWrite(RecWriteHeader(w, 500), envelope)
  BY DEF WriteError, With, Recorded, Response
<1> HIDE DEF h, envelope
<1>3. Recorded(w) /\ w.net = t.net /\ w.hdr = h /\ w.rec = t.rec
  BY <1>1, WithFields
<1> HIDE DEF w
<1>4. envelope \in Seq(Byte)
  BY EnvelopeIsBytes DEF envelope
<1>5. /\ Answer500(m, t.net) /\ m.hdr.cl = t.hdr.cl /\ m.hdr.late = t.hdr.late
      /\ r \in Rec /\ r.wrote /\ Agrees(m, r)
  BY <1>1, Answered500
<1>6. m \in Net /\ m.body = <<>>
  <2>1. t.net.body = <<>>
    BY DEF Agrees, Quiet
  <2> QED BY <1>1, <2>1, Code500, HeadedKeeps
<1>7. RecWriteHeader(w, 500) = u
  BY <1>3, Code500, RecHeaderForm
<1> HIDE DEF m, r
<1>8. Recorded(u) /\ u.net = m /\ u.hdr = h /\ u.rec = r
  BY <1>1, <1>3, <1>5, <1>6, WithFields
<1> HIDE DEF u
<1>9. RecWrite(u, envelope) = With(u, h, b, Touched(r))
  BY <1>4, <1>8, RecWriteForm
<1>10. Answer500(b, t.net) /\ b.hdr = m.hdr /\ Touched(r) = r /\ Agrees(b, r)
  BY <1>1, <1>5, <1>6, EnvelopeOnto500 DEF envelope
<1> HIDE DEF b
<1>11. WriteError(t) = With(t, h, b, r)
  <2>1. WriteError(t) = With(u, h, b, r)
    BY <1>2, <1>7, <1>9, <1>10
  <2>2. With(u, h, b, r) = With(w, h, b, r)
    BY <1>3, WithTwice DEF u
  <2>3. With(w, h, b, r) = With(t, h, b, r)
    BY WithTwice DEF w
  <2> QED BY <2>1, <2>2, <2>3
<1>12. b \in Net
  BY <1>10 DEF Answer500
<1> QED BY <1>1, <1>5, <1>10, <1>11, <1>12 DEF Written500

THEOREM RecoverForm ==
  ASSUME NEW t, Recorded(t), Agrees(t.net, t.rec), NEW kind \in Kinds
  PROVE  /\ t.rec.wrote => Recover(t, kind) = t
         /\ ~t.rec.wrote => Written500(Recover(t, kind), t)
<1>1. CASE t.rec.wrote
  BY <1>1 DEF Recover
<1>2. CASE ~t.rec.wrote /\ kind # "panicsLate"
  <2>1. Recover(t, kind) = WriteError(t)
    BY <1>2 DEF Recover, Responder, Kinds
  <2> QED BY <1>2, <2>1, WriteErrorForm
<1>3. CASE ~t.rec.wrote /\ kind = "panicsLate"
  <2> DEFINE m == Headed(t.net, t.hdr, 500)
             r == Coded(t.rec, 500)
             u == With(t, t.hdr, m, r)
  <2>1. t.net \in Net /\ t.hdr \in Headers /\ t.rec \in Rec
    BY DEF Recorded, Response
  <2>2. RecWriteHeader(t, 500) = u
    BY Code500, RecHeaderForm
  <2>3. /\ Answer500(m, t.net) /\ m.hdr.cl = t.hdr.cl /\ m.hdr.late = t.hdr.late
        /\ r \in Rec /\ r.wrote /\ Agrees(m, r)
    BY <1>3, <2>1, Answered500
  <2> HIDE DEF m, r
  <2>4. m \in Net
    BY <2>3 DEF Answer500
  <2>5. u.rec = r
    BY <2>1, <2>3, <2>4, WithFields
  <2> HIDE DEF u
  <2>6. Recover(t, kind) = u
    <3>1. Recover(t, kind) = IF RecWriteHeader(t, 500).rec.wrote THEN RecWriteHeader(t, 500)
                             ELSE WriteError(RecWriteHeader(t, 500))
      BY <1>3 DEF Recover, Responder
    <3> QED BY <2>2, <2>3, <2>5, <3>1
  <2> QED BY <1>3, <2>1, <2>3, <2>4, <2>6 DEF Written500, u
<1> QED BY <1>1, <1>2, <1>3
=============================================================================
