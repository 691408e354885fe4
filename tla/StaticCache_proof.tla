-------------------------- MODULE StaticCache_proof --------------------------
(***************************************************************************)
(* Proofs about StaticCache, for any clients, any history of contents and  *)
(* any Accept-Encoding lists.  What the handler owes its callers is in the *)
(* tag: it names content and encoding, so whoever puts two answers together*)
(* by their tags (a resumed download, a 304) puts together one body.  The  *)
(* invariants carry that from the cache, through a request and its answer, *)
(* to what the client holds.                                               *)
(***************************************************************************)
EXTENDS StaticCache, WellFoundedInduction, TLAPS

Bodies == [content : Contents, encoding : {"identity", "gzip"}]
Carries(resp, status, b) == resp = Response(status, b.content, b.encoding)
Readable(c, b) == b \in Bodies /\ (b.encoding = "gzip" => c \in Decodes)

(* What a client holds is of one tag, and what it names the client can read*)
HeldWell(c) ==
  have[c] # None =>
    /\ have[c] = [first |-> have[c].first, second |-> have[c].second,
                  etag |-> have[c].etag, weak |-> have[c].weak]
    /\ have[c].weak \in BOOLEAN
    /\ Readable(c, have[c].first)
    /\ have[c].second \in {None, have[c].first}
    /\ have[c].etag = ETag(have[c].first.content, have[c].first.encoding)

StoredWell(s) ==
  /\ s \in Stores /\ s.vary = TRUE
  /\ \E b \in Bodies :
       /\ Carries(s.resp, 200, b) /\ s.etag = ETag(b.content, b.encoding)
       /\ b.encoding = "gzip" => AcceptsGzip(s.accept)

(* The validators of a request are of what the client or the cache has.    *)
AskedWell(c) ==
  /\ req[c] \in Requests
  /\ req[c].accept = AcceptEncoding[c]
  /\ \A s \in req[c].stored : StoredWell(s) /\ s.accept = AcceptEncoding[c]
  /\ \A t \in req[c].ifNoneMatch :
       \/ Whole(c) /\ t.etag = have[c].etag
       \/ \E s \in req[c].stored : t.etag = s.etag
  /\ req[c].ifRange # None => have[c] # None /\ req[c].ifRange.etag = have[c].etag

(* An answer is a body the client can read, the rest of the one it began,  *)
(* or a confirmation of the one it holds.                                  *)
AnsweredWell(c, resp) ==
  \/ resp = NotFound
  \/ \E b \in Bodies :
       \/ Carries(resp, 200, b) /\ Readable(c, b)
       \/ Carries(resp, 206, b) /\ have[c] # None /\ have[c].first = b
       \/ Carries(resp, 304, b) /\ Whole(c) /\ have[c].etag = ETag(b.content, b.encoding)

Shape ==
  /\ deployed \subseteq Version
  /\ have = [c \in Client |-> have[c]] /\ req = [c \in Client |-> req[c]]
  /\ seen = [c \in Client |-> seen[c]]

ClientWell(c) ==
  /\ HeldWell(c)
  /\ req[c] # None => AskedWell(c)
  /\ req[c] # None /\ req[c].resp # None => AnsweredWell(c, req[c].resp)

CacheInv ==
  /\ Shape
  /\ \A s \in cache : StoredWell(s)
  /\ \A c \in Client : ClientWell(c)

-----------------------------------------------------------------------------
(* Negotiation.                                                            *)

LEMMA LeastExists ==
  ASSUME NEW S, S \subseteq Nat, S # {}
  PROVE  \E k \in S : \A j \in S : k <= j
<1> DEFINE R == OpToRel(<, Nat)
<1>1. \A x, y \in Nat : y < x => <<y, x>> \in R
  BY DEF OpToRel
<1>2. IsWellFoundedOn(R, Nat)
  BY NatLessThanWellFounded
<1> HIDE DEF R
<1>3. PICK k \in S : \A j \in S : <<j, k>> \notin R
  BY <1>2, WFMin, Zenon
<1>4. \A j \in S : ~(j < k)
  BY <1>1, <1>3
<1> QED BY <1>4

LEMMA GreatestExists ==
  ASSUME NEW n \in Nat, NEW S, S \subseteq 1..n, S # {}
  PROVE  \E k \in S : \A j \in S : j <= k
<1> DEFINE T == {i \in Nat : n - i \in S}
<1>1. T \subseteq Nat /\ T # {}
  <2>1. PICK k \in S : TRUE
    OBVIOUS
  <2>2. n - k \in Nat /\ n - (n - k) = k
    OBVIOUS
  <2> QED BY <2>2
<1>2. PICK i \in T : \A j \in T : i <= j
  <2> HIDE DEF T
  <2> QED BY <1>1, LeastExists
<1>3. n - i \in S
  OBVIOUS
<1>4. ASSUME NEW j \in S PROVE j <= n - i
  <2>1. n - j \in Nat /\ n - (n - j) = j
    OBVIOUS
  <2>2. i <= n - j
    BY <1>2, <2>1
  <2> QED BY <2>1, <2>2
<1> QED BY <1>3, <1>4

(* A list that is offered gzip is of a client that decodes it: the element *)
(* that decides is one of those the client has an opinion in.              *)
LEMMA OfferedIsDecoded ==
  ASSUME NEW c \in Client, AcceptsGzip(AcceptEncoding[c])
  PROVE  c \in Decodes
<1> DEFINE list == AcceptEncoding[c]
           named == Gzips(list)
           stars == Stars(list)
<1> SUFFICES ASSUME c \notin Decodes PROVE FALSE
  OBVIOUS
<1>1. \A i \in (IF named # {} THEN named ELSE stars) : list[i].q = "zero"
  BY StaticAssumption
<1>2. list \in Seq(Element)
  BY StaticAssumption
<1> HIDE DEF list
<1>3. Len(list) \in Nat /\ named \subseteq 1..Len(list) /\ stars \subseteq 1..Len(list)
  BY <1>2 DEF Gzips, Stars
<1>4. AcceptsGzip(list)
  BY DEF list
<1>5. CASE named # {}
  <2>1. \E i \in named : \A j \in named : i <= j
    <3>1. named \subseteq Nat
      BY <1>3
    <3> HIDE DEF named
    <3> QED BY <1>5, <3>1, LeastExists
  <2>2. (CHOOSE i \in named : \A j \in named : i <= j) \in named
    BY <2>1
  <2>3. list[CHOOSE i \in named : \A j \in named : i <= j].q # "zero"
    BY <1>4, <1>5 DEF AcceptsGzip, Offered
  <2> QED BY <1>1, <1>5, <2>2, <2>3
<1>6. CASE named = {}
  <2>1. stars # {}
    BY <1>4, <1>6 DEF AcceptsGzip
  <2>2. \E i \in stars : \A j \in stars : j <= i
    <3> HIDE DEF stars
    <3> QED BY <1>3, <2>1, GreatestExists
  <2>3. (CHOOSE i \in stars : \A j \in stars : j <= i) \in stars
    BY <2>2
  <2>4. list[CHOOSE i \in stars : \A j \in stars : j <= i].q # "zero"
    BY <1>4, <1>6 DEF AcceptsGzip, Offered
  <2> QED BY <1>1, <1>6, <2>3, <2>4
<1> QED BY <1>5, <1>6

-----------------------------------------------------------------------------
(* The handler, and the steps.                                             *)

LEMMA OneTag ==
  ASSUME NEW a \in Bodies, NEW b \in Bodies,
         ETag(a.content, a.encoding) = ETag(b.content, b.encoding)
  PROVE  a = b
BY DEF Bodies, ETag

(* Every answer is of the version's content; a range is of the tag asked   *)
(* for, and 304 names a tag that was sent.                                 *)
LEMMA HandlerAnswers ==
  ASSUME NEW v \in Version, NEW q
  PROVE  \/ StaticHandler(v, q) = NotFound
         \/ \E b \in Bodies :
              /\ b.content = Content[v]
              /\ \/ /\ Carries(StaticHandler(v, q), 200, b)
                    /\ b.encoding = "gzip" => AcceptsGzip(q.accept)
                 \/ /\ Carries(StaticHandler(v, q), 206, b)
                    /\ q.ifRange # None /\ q.ifRange.etag = ETag(b.content, b.encoding)
                 \/ /\ Carries(StaticHandler(v, q), 304, b)
                    /\ \E t \in q.ifNoneMatch : t.etag = ETag(b.content, b.encoding)
<1> DEFINE k == Content[v]
           r == StaticHandler(v, q)
           zip == [content |-> k, encoding |-> "gzip"]
           plain == [content |-> k, encoding |-> "identity"]
<1>1. CASE k = NoFile
  BY <1>1 DEF StaticHandler
<1>2. ASSUME k # NoFile PROVE zip \in Bodies /\ plain \in Bodies
  BY <1>2 DEF Bodies, Contents
<1>3. CASE k # NoFile /\ ServesGzip(k, q)
  <2>1. r = Response(IF IfNoneMatch(q.ifNoneMatch, ETag(k, "gzip")) THEN 304 ELSE 200, k, "gzip")
    BY <1>3 DEF StaticHandler
  <2>2. AcceptsGzip(q.accept)
    BY <1>3 DEF ServesGzip
  <2>3. CASE IfNoneMatch(q.ifNoneMatch, ETag(k, "gzip"))
    <3>1. Carries(r, 304, zip) /\ \E t \in q.ifNoneMatch : t.etag = ETag(zip.content, zip.encoding)
      BY <2>1, <2>3 DEF Carries, IfNoneMatch
    <3> QED BY <1>2, <1>3, <3>1
  <2>4. CASE ~IfNoneMatch(q.ifNoneMatch, ETag(k, "gzip"))
    <3>1. Carries(r, 200, zip)
      BY <2>1, <2>4 DEF Carries
    <3> QED BY <1>2, <1>3, <2>2, <3>1
  <2> QED BY <2>3, <2>4
<1>4. CASE k # NoFile /\ ~ServesGzip(k, q)
  <2>1. r = FileServer(k, q)
    BY <1>4 DEF StaticHandler
  <2> DEFINE e == ETag(k, "identity")
  <2>2. CASE IfNoneMatch(q.ifNoneMatch, e)
    <3>1. Carries(r, 304, plain) /\ \E t \in q.ifNoneMatch : t.etag = ETag(plain.content, plain.encoding)
      BY <2>1, <2>2 DEF Carries, IfNoneMatch, FileServer
    <3> QED BY <1>2, <1>4, <3>1
  <2>3. CASE ~IfNoneMatch(q.ifNoneMatch, e) /\ q.ifRange # None /\ q.ifRange.etag = e /\ ~q.ifRange.weak
    <3>1. Carries(r, 206, plain) /\ q.ifRange.etag = ETag(plain.content, plain.encoding)
      BY <2>1, <2>3 DEF Carries, FileServer
    <3> QED BY <1>2, <1>4, <2>3, <3>1
  <2>4. CASE /\ ~IfNoneMatch(q.ifNoneMatch, e)
             /\ ~(q.ifRange # None /\ q.ifRange.etag = e /\ ~q.ifRange.weak)
    <3>1. Carries(r, 200, plain)
      BY <2>1, <2>4 DEF Carries, FileServer
    <3> QED BY <1>2, <1>4, <3>1
  <2> QED BY <2>2, <2>3, <2>4
<1> QED BY <1>1, <1>3, <1>4

(* What holds of a client holds as long as its request and body do.        *)
LEMMA ClientStands ==
  ASSUME NEW c, ClientWell(c), have'[c] = have[c], req'[c] = req[c]
  PROVE  ClientWell(c)'
<1>1. HeldWell(c)' /\ Whole(c)' = Whole(c)
  BY DEF ClientWell, HeldWell, Whole
<1>2. ASSUME req[c] # None PROVE AskedWell(c)'
  BY <1>1, <1>2 DEF ClientWell, AskedWell
<1>3. ASSUME req[c] # None, req[c].resp # None PROVE AnsweredWell(c, req[c].resp)'
  BY <1>1, <1>3 DEF ClientWell, AnsweredWell
<1> QED BY <1>1, <1>2, <1>3 DEF ClientWell

LEMMA InitCacheInv == Init => CacheInv
BY StaticAssumption DEF Init, CacheInv, Shape, ClientWell, HeldWell

LEMMA AskIsRequest ==
  ASSUME NEW c \in Client, HeldWell(c), NEW own, NEW range, NEW st,
         own \subseteq (IF Whole(c) THEN {Tag(c)} ELSE {}),
         range # None => have[c] # None /\ range = Tag(c),
         \A s \in st : StoredWell(s)
  PROVE  Request(c, own, range, st) \in Requests
<1>1. AcceptEncoding[c] \in Seq(Element)
  BY StaticAssumption
<1>2. have[c] # None => Tag(c) \in Tags
  BY DEF HeldWell, Readable, Bodies, Tag, Tags, ETags, ETag
<1>3. own \subseteq Tags
  BY <1>2 DEF Whole
<1>4. st \subseteq Stores
  BY DEF StoredWell
<1>5. {[etag |-> s.etag, weak |-> FALSE] : s \in st} \subseteq Tags
  <2>1. \A s \in st : [etag |-> s.etag, weak |-> FALSE] \in Tags
    BY <1>4 DEF Stores, Tags
  <2> QED BY <2>1
<1>6. range \in Tags \cup {None}
  BY <1>2
<1> QED BY <1>1, <1>3, <1>4, <1>5, <1>6 DEF Request, Requests

LEMMA AskStep ==
  ASSUME CacheInv, NEW c \in Client, Ask(c)
  PROVE  CacheInv' /\ AskedWell(c)'
<1>1. Shape /\ ClientWell(c) /\ \A x \in Client : ClientWell(x)
  BY DEF CacheInv
<1>2. have' = have /\ cache' = cache /\ deployed' = deployed /\ req[c] = None
  BY DEF Ask, world
<1>3. PICK own, range, st :
        /\ req' = [req EXCEPT ![c] = Request(c, own, range, st)]
        /\ st \subseteq Stored(AcceptEncoding[c])
        /\ own \subseteq (IF Whole(c) THEN {Tag(c)} ELSE {})
        /\ range # None => have[c] # None /\ range = Tag(c)
  BY DEF Ask
<1>4. req'[c] = Request(c, own, range, st) /\ \A x \in Client \ {c} : req'[x] = req[x]
  BY <1>1, <1>3 DEF Shape
<1>5. \A s \in st : StoredWell(s) /\ s.accept = AcceptEncoding[c]
  BY <1>3 DEF CacheInv, Stored, StoredWell
<1>6. HeldWell(c)' /\ Whole(c)' = Whole(c) /\ have'[c] = have[c]
  BY <1>1, <1>2 DEF ClientWell, HeldWell, Whole
<1>7. AskedWell(c)'
  <2>1. ASSUME NEW t \in req'[c].ifNoneMatch
        PROVE  \/ Whole(c) /\ t.etag = have[c].etag
               \/ \E s \in st : t.etag = s.etag
    BY <1>3, <1>4, <2>1 DEF Request, Tag
  <2>2. /\ req'[c].accept = AcceptEncoding[c] /\ req'[c].stored = st /\ req'[c].ifRange = range
    BY <1>4 DEF Request
  <2>3. range # None => have'[c] # None /\ range.etag = have'[c].etag
    BY <1>3, <1>6 DEF Tag
  <2>4. \A s \in st : StoredWell(s)'
    BY <1>5 DEF StoredWell
  <2>5. \A t \in req'[c].ifNoneMatch :
          (Whole(c)' /\ t.etag = have'[c].etag) \/ \E s \in req'[c].stored : t.etag = s.etag
    BY <1>6, <2>1, <2>2
  <2>6. req'[c] \in Requests
    <3>1. HeldWell(c) /\ \A s \in st : StoredWell(s)
      BY <1>1, <1>5 DEF ClientWell
    <3>2. Request(c, own, range, st) \in Requests
      BY <1>3, <3>1, AskIsRequest
    <3> QED BY <1>4, <3>2
  <2> QED BY <1>5, <2>2, <2>3, <2>4, <2>5, <2>6 DEF AskedWell
<1>8. req'[c].resp = None
  BY <1>4 DEF Request
<1>9. \A x \in Client : ClientWell(x)'
  <2> TAKE x \in Client
  <2>1. CASE x = c
    BY <1>6, <1>7, <1>8, <2>1 DEF ClientWell
  <2>2. CASE x # c
    BY <1>1, <1>2, <1>4, <2>2, ClientStands
  <2> QED BY <2>1, <2>2
<1>10. Shape'
  BY <1>1, <1>2, <1>3 DEF Shape, Ask
<1> QED BY <1>2, <1>7, <1>9, <1>10 DEF CacheInv

(* Whatever is stored for a client's list is a body the client can read.   *)
LEMMA StoredIsReadable ==
  ASSUME NEW c \in Client, NEW s, StoredWell(s), s.accept = AcceptEncoding[c]
  PROVE  \E b \in Bodies :
           /\ Carries(s.resp, 200, b) /\ Readable(c, b) /\ s.etag = ETag(b.content, b.encoding)
BY OfferedIsDecoded DEF StoredWell, Readable

LEMMA AnswersType ==
  ASSUME NEW c, NEW r, AnsweredWell(c, r)
  PROVE  r \in Answers
<1>1. NotFound \in Answers
  BY DEF NotFound, Answers
<1>2. ASSUME NEW b \in Bodies, NEW k \in {200, 206, 304}
      PROVE  Response(k, b.content, b.encoding) \in Answers
  BY DEF Bodies, Response, ETag, ETags, Answers
<1> QED BY <1>1, <1>2 DEF AnsweredWell, Carries

(* A request that is answered is as it was but for the answer.             *)
LEMMA AskedStands ==
  ASSUME NEW c \in Client, Shape, AskedWell(c), have' = have,
         NEW r \in Answers, req' = [req EXCEPT ![c].resp = r]
  PROVE  /\ AskedWell(c)' /\ req'[c].resp = r
         /\ \A x \in Client \ {c} : req'[x] = req[x]
<1>1. req'[c] = [req[c] EXCEPT !.resp = r] /\ \A x \in Client \ {c} : req'[x] = req[x]
  BY DEF Shape
<1>2. /\ req'[c].accept = req[c].accept /\ req'[c].ifNoneMatch = req[c].ifNoneMatch
      /\ req'[c].ifRange = req[c].ifRange /\ req'[c].stored = req[c].stored /\ req'[c].resp = r
      /\ req'[c] \in Requests
  BY <1>1 DEF AskedWell, Requests
<1>3. Whole(c)' = Whole(c)
  BY DEF Whole
<1> QED BY <1>1, <1>2, <1>3 DEF AskedWell, StoredWell

(* An answer keeps the invariant when it is well and the cache stays so.   *)
LEMMA AnswerKeeps ==
  ASSUME CacheInv, NEW c \in Client, req[c] # None, NEW r, AnsweredWell(c, r),
         req' = [req EXCEPT ![c].resp = r], UNCHANGED <<world, have, seen>>,
         \A s \in cache' : StoredWell(s)
  PROVE  CacheInv'
<1>1. Shape /\ AskedWell(c) /\ HeldWell(c) /\ \A x \in Client : ClientWell(x)
  BY DEF CacheInv, ClientWell
<1>2. have' = have /\ deployed' = deployed /\ seen' = seen
  BY DEF world
<1>3. AskedWell(c)' /\ req'[c].resp = r /\ \A x \in Client \ {c} : req'[x] = req[x]
  BY <1>1, <1>2, AnswersType, AskedStands
<1>4. HeldWell(c)' /\ AnsweredWell(c, req[c].resp)'
  BY <1>1, <1>2, <1>3 DEF HeldWell, AnsweredWell, Whole
<1>5. \A x \in Client : ClientWell(x)'
  <2> TAKE x \in Client
  <2>1. CASE x = c
    BY <1>3, <1>4, <2>1 DEF ClientWell
  <2>2. CASE x # c
    BY <1>1, <1>2, <1>3, <2>2, ClientStands
  <2> QED BY <2>1, <2>2
<1>6. Shape'
  BY <1>1, <1>2 DEF Shape
<1>7. \A s \in cache' : StoredWell(s)'
  BY DEF StoredWell
<1> QED BY <1>5, <1>6, <1>7 DEF CacheInv

LEMMA AnswerFreshStep ==
  ASSUME CacheInv, NEW c \in Client, AnswerFresh(c)
  PROVE  CacheInv'
<1>1. PICK s \in req[c].stored : req' = [req EXCEPT ![c].resp = s.resp]
  BY DEF AnswerFresh
<1>2. req[c] # None /\ cache' = cache /\ UNCHANGED <<world, have, seen>>
  BY DEF AnswerFresh
<1>3. StoredWell(s) /\ s.accept = AcceptEncoding[c]
  BY <1>1, <1>2 DEF CacheInv, ClientWell, AskedWell
<1>4. AnsweredWell(c, s.resp)
  BY <1>3, StoredIsReadable DEF AnsweredWell
<1> QED BY <1>1, <1>2, <1>4, AnswerKeeps DEF CacheInv

(* What the cache stores of an answer, and what it makes of a 304 that     *)
(* confirms its own response and not the client's.                         *)
Reused(c, resp) == {s \in req[c].stored : s.etag = resp.etag}
Confirms(c, resp) == Whole(c) /\ have[c].etag = resp.etag
Passed(c, resp) ==
  IF resp.status = 304 /\ ~Confirms(c, resp) /\ Reused(c, resp) # {}
    THEN (CHOOSE s \in Reused(c, resp) : TRUE).resp ELSE resp
Entry(c, resp) ==
  [accept |-> req[c].accept, vary |-> resp.vary, etag |-> resp.etag, resp |-> resp]

LEMMA AnswerForm ==
  ASSUME NEW c, Answer(c)
  PROVE  \E v \in deployed :
           /\ req' = [req EXCEPT ![c].resp = Passed(c, StaticHandler(v, req[c]))]
           /\ \A s \in cache' :
                s \in cache \/ (StaticHandler(v, req[c]).status = 200 /\ s = Entry(c, StaticHandler(v, req[c])))
BY DEF Answer, Passed, Reused, Confirms, Entry

LEMMA PassedWell ==
  ASSUME NEW c \in Client, NEW v \in Version, AskedWell(c), HeldWell(c)
  PROVE  /\ AnsweredWell(c, Passed(c, StaticHandler(v, req[c])))
         /\ StaticHandler(v, req[c]).status = 200 => StoredWell(Entry(c, StaticHandler(v, req[c])))
<1> DEFINE q == req[c]
           r == StaticHandler(v, q)
<1>1. \/ r = NotFound
      \/ \E b \in Bodies :
           \/ Carries(r, 200, b) /\ (b.encoding = "gzip" => AcceptsGzip(q.accept))
           \/ Carries(r, 206, b) /\ q.ifRange # None /\ q.ifRange.etag = ETag(b.content, b.encoding)
           \/ Carries(r, 304, b) /\ \E t \in q.ifNoneMatch : t.etag = ETag(b.content, b.encoding)
  BY HandlerAnswers
<1>2. q.accept = AcceptEncoding[c]
  BY DEF AskedWell
<1> HIDE DEF r
<1>3. CASE r = NotFound
  <2>1. r.status = 404 /\ Passed(c, r) = r
    BY <1>3 DEF NotFound, Passed
  <2> QED BY <1>3, <2>1 DEF AnsweredWell, r
<1>4. ASSUME NEW b \in Bodies, Carries(r, 200, b), b.encoding = "gzip" => AcceptsGzip(q.accept)
      PROVE  AnsweredWell(c, Passed(c, r)) /\ StoredWell(Entry(c, r))
  <2>1. /\ r.status = 200 /\ r.vary = TRUE /\ r.etag = ETag(b.content, b.encoding)
        /\ Passed(c, r) = r
    BY <1>4 DEF Carries, Response, Passed
  <2>2. Readable(c, b)
    BY <1>2, <1>4, OfferedIsDecoded DEF Readable
  <2>3. AnsweredWell(c, r)
    BY <1>4, <2>2 DEF AnsweredWell
  <2>4. r \in Answers
    BY <2>3, AnswersType
  <2>5. ETag(b.content, b.encoding) \in ETags
    BY DEF Bodies, ETag, ETags
  <2>6. Entry(c, r) \in Stores
    BY <2>1, <2>4, <2>5 DEF Entry, Stores, AskedWell, Requests
  <2> QED BY <1>4, <2>1, <2>3, <2>6 DEF StoredWell, Entry
<1>5. ASSUME NEW b \in Bodies, Carries(r, 206, b), q.ifRange # None,
             q.ifRange.etag = ETag(b.content, b.encoding)
      PROVE  AnsweredWell(c, Passed(c, r)) /\ r.status # 200
  <2>1. r.status = 206 /\ Passed(c, r) = r
    <3>1. Carries(r, 206, b)
      BY <1>5
    <3>2. r.status = 206
      BY <3>1 DEF Carries, Response, Part, Bodies
    <3> QED BY <3>2 DEF Passed
  <2>2. have[c] # None /\ have[c].first \in Bodies
        /\ ETag(have[c].first.content, have[c].first.encoding) = ETag(b.content, b.encoding)
    BY <1>5 DEF AskedWell, HeldWell, Readable
  <2>3. have[c].first = b
    BY <2>2, OneTag
  <2> QED BY <1>5, <2>1, <2>2, <2>3 DEF AnsweredWell
<1>6. ASSUME NEW b \in Bodies, Carries(r, 304, b), NEW t \in q.ifNoneMatch,
             t.etag = ETag(b.content, b.encoding)
      PROVE  AnsweredWell(c, Passed(c, r)) /\ r.status # 200
  <2>1. r.status = 304 /\ r.etag = ETag(b.content, b.encoding)
    <3>1. Carries(r, 304, b)
      BY <1>6
    <3> QED BY <3>1 DEF Carries, Response, Part, Bodies
  <2>2. CASE Confirms(c, r)
    <3>1. Passed(c, r) = r
      BY <2>2 DEF Passed
    <3> QED BY <1>6, <2>1, <2>2, <3>1 DEF AnsweredWell, Confirms
  <2>3. CASE ~Confirms(c, r)
    <3>1. PICK x \in q.stored : t.etag = x.etag
      BY <1>6, <2>1, <2>3 DEF AskedWell, Confirms
    <3>2. Reused(c, r) # {}
      BY <1>6, <2>1, <3>1 DEF Reused
    <3> DEFINE u == CHOOSE s \in Reused(c, r) : TRUE
    <3>3. u \in Reused(c, r) /\ Passed(c, r) = u.resp
      <4>1. u \in Reused(c, r)
        BY <3>2
      <4>2. Passed(c, r) = u.resp
        BY <2>1, <2>3, <3>2 DEF Passed
      <4> QED BY <4>1, <4>2
    <3> HIDE DEF u
    <3>4. StoredWell(u) /\ u.accept = AcceptEncoding[c]
      BY <3>3 DEF Reused, AskedWell
    <3> QED BY <2>1, <3>3, <3>4, StoredIsReadable DEF AnsweredWell
  <2> QED BY <2>2, <2>3
<1> QED BY <1>1, <1>3, <1>4, <1>5, <1>6 DEF r

LEMMA AnswerStep ==
  ASSUME CacheInv, NEW c \in Client, Answer(c)
  PROVE  CacheInv'
<1>1. PICK v \in deployed :
        /\ req' = [req EXCEPT ![c].resp = Passed(c, StaticHandler(v, req[c]))]
        /\ \A s \in cache' :
             s \in cache \/ (StaticHandler(v, req[c]).status = 200 /\ s = Entry(c, StaticHandler(v, req[c])))
  BY AnswerForm
<1>2. req[c] # None /\ UNCHANGED <<world, have, seen>>
  BY DEF Answer
<1>3. AskedWell(c) /\ HeldWell(c) /\ v \in Version
  BY <1>2 DEF CacheInv, ClientWell, Shape
<1>4. /\ AnsweredWell(c, Passed(c, StaticHandler(v, req[c])))
      /\ StaticHandler(v, req[c]).status = 200 => StoredWell(Entry(c, StaticHandler(v, req[c])))
  BY <1>3, PassedWell
<1>5. \A s \in cache' : StoredWell(s)
  BY <1>1, <1>4 DEF CacheInv
<1> DEFINE r == Passed(c, StaticHandler(v, req[c]))
<1>6. AnsweredWell(c, r) /\ req' = [req EXCEPT ![c].resp = r]
  BY <1>1, <1>4
<1> HIDE DEF r
<1> QED BY <1>2, <1>5, <1>6, AnswerKeeps

(* The client puts together what it is answered.                           *)
LEMMA TakeStep ==
  ASSUME CacheInv, NEW c \in Client, NEW cut \in BOOLEAN, NEW weak \in BOOLEAN, Take(c, cut, weak)
  PROVE  CacheInv'
<1> DEFINE r == req[c].resp
<1>1. Shape /\ HeldWell(c) /\ AnsweredWell(c, r) /\ \A x \in Client : ClientWell(x)
  BY DEF CacheInv, ClientWell, Take
<1>2. cache' = cache /\ deployed' = deployed /\ seen' = seen
  BY DEF Take, world
<1>3. /\ req' = [req EXCEPT ![c] = None]
      /\ have' = [have EXCEPT ![c] =
           CASE r.status = 200 ->
                  [first |-> Part(r), second |-> IF cut THEN None ELSE Part(r),
                   etag |-> r.etag, weak |-> weak]
             [] r.status = 206 -> [have[c] EXCEPT !.second = IF cut THEN None ELSE Part(r)]
             [] r.status = 304 -> have[c]
             [] r.status = 404 -> None]
  BY DEF Take
<1>4. /\ req'[c] = None
      /\ \A x \in Client \ {c} : req'[x] = req[x] /\ have'[x] = have[x]
  BY <1>1, <1>3 DEF Shape
<1>5. have'[c] =
           CASE r.status = 200 ->
                  [first |-> Part(r), second |-> IF cut THEN None ELSE Part(r),
                   etag |-> r.etag, weak |-> weak]
             [] r.status = 206 -> [have[c] EXCEPT !.second = IF cut THEN None ELSE Part(r)]
             [] r.status = 304 -> have[c]
             [] r.status = 404 -> None
  BY <1>1, <1>3 DEF Shape
<1> HIDE DEF r
<1>6. HeldWell(c)'
  <2>1. CASE r = NotFound
    BY <1>5, <2>1 DEF NotFound, HeldWell
  <2>2. ASSUME NEW b \in Bodies, Carries(r, 200, b), Readable(c, b)
        PROVE  HeldWell(c)'
    <3>1. Carries(r, 200, b)
      BY <2>2
    <3>2. r.status = 200 /\ Part(r) = b /\ r.etag = ETag(b.content, b.encoding)
      BY <3>1 DEF Carries, Response, Part, Bodies
    <3>3. have'[c] = [first |-> b, second |-> IF cut THEN None ELSE b,
                      etag |-> ETag(b.content, b.encoding), weak |-> weak]
      BY <1>5, <3>2
    <3> QED BY <2>2, <3>3 DEF HeldWell, Readable
  <2>3. ASSUME NEW b \in Bodies, Carries(r, 206, b), have[c] # None, have[c].first = b
        PROVE  HeldWell(c)'
    <3>1. Carries(r, 206, b)
      BY <2>3
    <3>2. r.status = 206 /\ Part(r) = b
      BY <3>1 DEF Carries, Response, Part, Bodies
    <3>3. have'[c] = [have[c] EXCEPT !.second = IF cut THEN None ELSE b]
      BY <1>5, <3>2
    <3>4. have'[c] = [first |-> b, second |-> IF cut THEN None ELSE b,
                      etag |-> have[c].etag, weak |-> have[c].weak]
      BY <1>1, <2>3, <3>3 DEF HeldWell
    <3> QED BY <1>1, <2>3, <3>4 DEF HeldWell, Readable
  <2>4. ASSUME NEW b \in Bodies, Carries(r, 304, b) PROVE HeldWell(c)'
    <3>1. r.status = 304
      BY <2>4 DEF Carries, Response, Part, Bodies
    <3>2. have'[c] = have[c]
      BY <1>5, <3>1
    <3> QED BY <1>1, <3>2 DEF HeldWell, Readable
  <2> QED BY <1>1, <2>1, <2>2, <2>3, <2>4 DEF AnsweredWell
<1>7. \A x \in Client : ClientWell(x)'
  <2> TAKE x \in Client
  <2>1. CASE x = c
    BY <1>4, <1>6, <2>1 DEF ClientWell
  <2>2. CASE x # c
    BY <1>1, <1>4, <2>2, ClientStands
  <2> QED BY <2>1, <2>2
<1>8. Shape'
  <2>1. have' = [have EXCEPT ![c] = have'[c]]
    BY <1>1, <1>3, <1>5 DEF Shape
  <2>2. have' = [x \in Client |-> have'[x]]
    <3> DEFINE v == have'[c]
    <3>1. have' = [have EXCEPT ![c] = v]
      BY <2>1
    <3> HIDE DEF v
    <3>2. have = [x \in Client |-> have[x]]
      BY <1>1 DEF Shape
    <3> QED BY <3>1, <3>2
  <2>3. req' = [x \in Client |-> req'[x]]
    BY <1>1, <1>3 DEF Shape
  <2>4. seen' = [x \in Client |-> seen'[x]] /\ deployed' \subseteq Version
    BY <1>1, <1>2 DEF Shape
  <2> QED BY <2>2, <2>3, <2>4 DEF Shape
<1>9. \A s \in cache' : StoredWell(s)'
  BY <1>2 DEF CacheInv, StoredWell
<1> QED BY <1>7, <1>8, <1>9 DEF CacheInv

LEMMA RollOutStep ==
  ASSUME CacheInv, Deploy \/ Retire
  PROVE  CacheInv'
<1>1. cache' = cache /\ have' = have /\ req' = req
  BY DEF Deploy, Retire
<1>2. Shape'
  <2>1. CASE Deploy
    BY <2>1 DEF Deploy, CacheInv, Shape
  <2>2. CASE Retire
    BY <2>2 DEF Retire, CacheInv, Shape
  <2> QED BY <2>1, <2>2
<1>3. \A x \in Client : ClientWell(x)'
  BY <1>1, ClientStands DEF CacheInv
<1> QED BY <1>1, <1>2, <1>3 DEF CacheInv, StoredWell

LEMMA NextCacheInv == CacheInv /\ [Next]_vars => CacheInv'
<1> SUFFICES ASSUME CacheInv, [Next]_vars PROVE CacheInv'
  OBVIOUS
<1>1. CASE \E c \in Client : Ask(c) \/ AnswerFresh(c) \/ Answer(c)
  BY <1>1, AskStep, AnswerFreshStep, AnswerStep
<1>2. CASE \E c \in Client : \E cut, weak \in BOOLEAN : Take(c, cut, weak)
  BY <1>2, TakeStep
<1>3. CASE Deploy \/ Retire
  BY <1>3, RollOutStep
<1>4. CASE UNCHANGED vars
  <2>1. have' = have /\ req' = req /\ cache' = cache /\ seen' = seen /\ deployed' = deployed
    BY <1>4 DEF vars, world
  <2>2. \A x \in Client : ClientWell(x)'
    BY <2>1, ClientStands DEF CacheInv
  <2> QED BY <2>1, <2>2 DEF CacheInv, Shape, StoredWell
<1> QED BY <1>1, <1>2, <1>3, <1>4 DEF Next

THEOREM CacheInvariant == Spec => []CacheInv
BY InitCacheInv, NextCacheInv, PTL DEF Spec

(* Over resumed downloads, revalidations and whatever the cache answered,  *)
(* a client's body is one content in one encoding it can read              *)
(* (StaticHandler, src/static.go:149).                                     *)
THEOREM OneBody == Spec => []BodyIsOneAsset
<1>1. CacheInv => BodyIsOneAsset
  <2> SUFFICES ASSUME CacheInv, NEW c \in Client
               PROVE  /\ have[c] # None =>
                           /\ have[c].second \in {None, have[c].first}
                           /\ have[c].first.encoding = "gzip" => c \in Decodes
                      /\ req[c] # None /\ req[c].resp # None /\ req[c].resp.status = 304 => Whole(c)
    BY DEF BodyIsOneAsset
  <2>1. ClientWell(c)
    BY DEF CacheInv
  <2>2. ASSUME req[c] # None, req[c].resp # None, req[c].resp.status = 304
        PROVE  Whole(c)
    <3>1. AnsweredWell(c, req[c].resp) /\ NotFound.status = 404
      BY <2>1, <2>2 DEF ClientWell, NotFound
    <3>2. \A b \in Bodies, k \in {200, 206, 304} : Carries(req[c].resp, k, b) => req[c].resp.status = k
      BY DEF Carries, Response
    <3> QED BY <2>2, <3>1, <3>2 DEF AnsweredWell
  <2> QED BY <2>1, <2>2 DEF ClientWell, HeldWell, Readable
<1> QED BY <1>1, CacheInvariant, PTL

-----------------------------------------------------------------------------
(* Under no-cache every answer is made by a version deployed while the     *)
(* request ran, and what a 304 confirms has its tag, so its content.       *)
ClientCurrent(c) ==
  /\ req[c] # None =>
       /\ \A v \in deployed : Content[v] \in seen[c]
       /\ req[c].resp # None /\ req[c].resp # NotFound => req[c].resp.content \in seen[c]
  /\ req[c] = None /\ Whole(c) => have[c].first.content \in seen[c]

CurrentInv == cacheControl = "no-cache" => \A c \in Client : ClientCurrent(c)

LEMMA CurrentStands ==
  ASSUME NEW c, ClientCurrent(c), have'[c] = have[c], req'[c] = req[c], seen'[c] = seen[c],
         deployed' \subseteq deployed
  PROVE  ClientCurrent(c)'
BY DEF ClientCurrent, Whole

LEMMA AskCurrent ==
  ASSUME CacheInv, NEW c \in Client, ClientCurrent(c), Ask(c)
  PROVE  ClientCurrent(c)'
<1>1. PICK own, range, st : req' = [req EXCEPT ![c] = Request(c, own, range, st)]
  BY DEF Ask
<1>2. seen' = [seen EXCEPT ![c] = {Content[v] : v \in deployed}] /\ deployed' = deployed
  BY DEF Ask, world
<1>3. req'[c] = Request(c, own, range, st) /\ seen'[c] = {Content[v] : v \in deployed}
  BY <1>1, <1>2 DEF CacheInv, Shape
<1>4. req'[c].resp = None
  BY <1>3 DEF Request
<1>5. \A v \in deployed' : Content[v] \in seen'[c]
  BY <1>2, <1>3
<1>6. req'[c] # None
  <2>1. AskedWell(c)'
    BY AskStep
  <2> QED BY <2>1, StaticAssumption DEF AskedWell
<1> QED BY <1>4, <1>5, <1>6 DEF ClientCurrent

(* What passes for the answer of version v has its content.                *)
LEMMA PassedContent ==
  ASSUME NEW c \in Client, NEW v \in Version, AskedWell(c)
  PROVE  \/ Passed(c, StaticHandler(v, req[c])) = NotFound
         \/ Passed(c, StaticHandler(v, req[c])).content = Content[v]
<1> DEFINE r == StaticHandler(v, req[c])
<1>1. \/ r = NotFound
      \/ \E b \in Bodies : \E k \in {200, 206, 304} : Carries(r, k, b) /\ b.content = Content[v]
  BY HandlerAnswers
<1> HIDE DEF r
<1>2. CASE r = NotFound
  BY <1>2 DEF NotFound, Passed, r
<1>3. ASSUME NEW b \in Bodies, NEW k \in {200, 206, 304}, Carries(r, k, b), b.content = Content[v]
      PROVE  Passed(c, r).content = Content[v]
  <2>1. r.content = b.content /\ r.etag = ETag(b.content, b.encoding)
    BY <1>3 DEF Carries, Response
  <2>2. CASE Passed(c, r) = r
    BY <1>3, <2>1, <2>2
  <2>3. CASE Passed(c, r) # r
    <3>1. Reused(c, r) # {} /\ Passed(c, r) = (CHOOSE s \in Reused(c, r) : TRUE).resp
      BY <2>3 DEF Passed
    <3> DEFINE u == CHOOSE s \in Reused(c, r) : TRUE
    <3>2. u \in Reused(c, r) /\ Passed(c, r) = u.resp
      BY <3>1
    <3> HIDE DEF u
    <3>3. StoredWell(u) /\ u.etag = r.etag
      BY <3>2 DEF Reused, AskedWell
    <3>4. PICK w \in Bodies : Carries(u.resp, 200, w) /\ u.etag = ETag(w.content, w.encoding)
      BY <3>3 DEF StoredWell
    <3>5. w.content = b.content
      BY <2>1, <3>3, <3>4 DEF ETag
    <3>6. u.resp.content = w.content
      BY <3>4 DEF Carries, Response
    <3> QED BY <1>3, <3>2, <3>5, <3>6
  <2> QED BY <2>2, <2>3
<1> QED BY <1>1, <1>2, <1>3 DEF r

LEMMA AnswerCurrent ==
  ASSUME CacheInv, NEW c \in Client, ClientCurrent(c), Answer(c)
  PROVE  ClientCurrent(c)'
<1>1. PICK v \in deployed : req' = [req EXCEPT ![c].resp = Passed(c, StaticHandler(v, req[c]))]
  BY AnswerForm
<1> DEFINE r == Passed(c, StaticHandler(v, req[c]))
<1>2. req[c] # None /\ seen' = seen /\ deployed' = deployed
  BY DEF Answer, world
<1>3. AskedWell(c) /\ v \in Version
  BY <1>2 DEF CacheInv, ClientWell, Shape
<1>4. r = NotFound \/ r.content = Content[v]
  BY <1>3, PassedContent
<1>5. req' = [req EXCEPT ![c].resp = r]
  BY <1>1
<1> HIDE DEF r
<1>6. req'[c] = [req[c] EXCEPT !.resp = r]
  BY <1>5 DEF CacheInv, Shape
<1>7. req'[c].resp = r /\ req'[c] # None
  <2>1. r \in Answers
    BY <1>2, <1>3, PassedWell, AnswersType DEF r, CacheInv, ClientWell
  <2>2. req'[c] \in Requests /\ req'[c].resp = r
    BY <1>3, <1>6, <2>1 DEF AskedWell, Requests
  <2> QED BY <2>2, StaticAssumption
<1>8. Content[v] \in seen[c] /\ \A x \in deployed : Content[x] \in seen[c]
  BY <1>2 DEF ClientCurrent
<1> QED BY <1>2, <1>4, <1>7, <1>8 DEF ClientCurrent

LEMMA TakeCurrent ==
  ASSUME CacheInv, NEW c \in Client, ClientCurrent(c),
         NEW cut \in BOOLEAN, NEW weak \in BOOLEAN, Take(c, cut, weak)
  PROVE  ClientCurrent(c)'
<1> DEFINE r == req[c].resp
<1>1. /\ Shape /\ HeldWell(c) /\ AnsweredWell(c, r)
      /\ req[c] # None /\ r # None /\ seen' = seen
  BY DEF CacheInv, ClientWell, Take
<1>2. /\ req'[c] = None
      /\ have'[c] =
           CASE r.status = 200 ->
                  [first |-> Part(r), second |-> IF cut THEN None ELSE Part(r),
                   etag |-> r.etag, weak |-> weak]
             [] r.status = 206 -> [have[c] EXCEPT !.second = IF cut THEN None ELSE Part(r)]
             [] r.status = 304 -> have[c]
             [] r.status = 404 -> None
  BY <1>1 DEF Take, Shape
<1>3. r # NotFound => r.content \in seen[c]
  BY <1>1 DEF ClientCurrent
<1> HIDE DEF r
<1>4. SUFFICES ASSUME have'[c] # None PROVE have'[c].first.content \in seen[c]
  BY <1>1, <1>2 DEF ClientCurrent, Whole
<1>5. r # NotFound
  BY <1>2, <1>4 DEF NotFound
<1>6. ASSUME NEW b \in Bodies, Carries(r, 200, b) PROVE have'[c].first.content \in seen[c]
  <2>1. r.status = 200 /\ Part(r).content = r.content
    BY <1>6 DEF Carries, Response, Part
  <2>2. have'[c].first = Part(r)
    BY <1>2, <2>1
  <2> QED BY <1>3, <1>5, <2>1, <2>2
<1>7. ASSUME NEW b \in Bodies, Carries(r, 206, b), have[c] # None, have[c].first = b
      PROVE  have'[c].first.content \in seen[c]
  <2>1. r.status = 206 /\ r.content = b.content
    BY <1>7 DEF Carries, Response
  <2>2. have'[c] = [have[c] EXCEPT !.second = IF cut THEN None ELSE Part(r)]
    BY <1>2, <2>1
  <2>3. have'[c].first = b
    BY <1>1, <1>7, <2>2 DEF HeldWell
  <2> QED BY <1>3, <1>5, <2>1, <2>3
<1>8. ASSUME NEW b \in Bodies, Carries(r, 304, b), Whole(c), have[c].etag = ETag(b.content, b.encoding)
      PROVE  have'[c].first.content \in seen[c]
  <2>1. r.status = 304 /\ r.content = b.content
    BY <1>8 DEF Carries, Response
  <2>2. have'[c] = have[c]
    BY <1>2, <2>1
  <2>3. have[c].first.content = b.content
    BY <1>1, <1>8 DEF Whole, HeldWell, ETag
  <2> QED BY <1>3, <1>5, <2>1, <2>2, <2>3
<1> QED BY <1>1, <1>5, <1>6, <1>7, <1>8 DEF AnsweredWell

LEMMA DeployCurrent ==
  ASSUME CacheInv, NEW c \in Client, ClientCurrent(c), Deploy
  PROVE  ClientCurrent(c)'
<1>1. /\ deployed' = deployed \cup {next} /\ req' = req /\ have' = have
      /\ seen'[c] = IF req[c] # None THEN seen[c] \cup {Content[next]} ELSE seen[c]
  BY DEF Deploy
<1>2. Whole(c)' = Whole(c)
  BY <1>1 DEF Whole
<1>3. ASSUME req[c] # None PROVE \A v \in deployed' : Content[v] \in seen'[c]
  BY <1>1, <1>3 DEF ClientCurrent
<1> QED BY <1>1, <1>2, <1>3 DEF ClientCurrent

LEMMA NextCurrent == CacheInv /\ CurrentInv /\ [Next]_vars => CurrentInv'
<1> SUFFICES ASSUME CacheInv, CurrentInv, [Next]_vars, cacheControl' = "no-cache", NEW x \in Client
             PROVE  ClientCurrent(x)'
  BY DEF CurrentInv
<1>1. cacheControl = "no-cache"
  BY DEF Next, Ask, AnswerFresh, Answer, Take, Deploy, Retire, vars, world
<1>2. ClientCurrent(x)
  BY <1>1 DEF CurrentInv
<1>3. ASSUME NEW c \in Client, Ask(c) \/ Answer(c) \/ \E cut, weak \in BOOLEAN : Take(c, cut, weak)
      PROVE  ClientCurrent(x)'
  <2>1. CASE x = c
    BY <1>2, <1>3, <2>1, AskCurrent, AnswerCurrent, TakeCurrent
  <2>2. CASE x # c
    <3>1. req'[x] = req[x] /\ have'[x] = have[x] /\ seen'[x] = seen[x] /\ deployed' = deployed
      BY <1>3, <2>2 DEF Ask, Answer, Take, world, CacheInv, Shape
    <3> QED BY <1>2, <3>1, CurrentStands
  <2> QED BY <2>1, <2>2
<1>4. ASSUME NEW c \in Client, AnswerFresh(c) PROVE ClientCurrent(x)'
  BY <1>1, <1>4 DEF AnswerFresh
<1>5. CASE Deploy
  BY <1>2, <1>5, DeployCurrent
<1>6. CASE Retire \/ UNCHANGED vars
  BY <1>2, <1>6, CurrentStands DEF Retire, vars, world
<1> QED BY <1>3, <1>4, <1>5, <1>6 DEF Next

(* Under no-cache a client that has an answer holds the content of a       *)
(* version deployed while it asked (ifNoneMatch, src/static.go:168).       *)
THEOREM NoCacheStaysCurrent == Spec => []NoCacheIsCurrent
<1>1. Init => CurrentInv
  BY DEF Init, CurrentInv, ClientCurrent, Whole
<1>2. CurrentInv => NoCacheIsCurrent
  BY DEF CurrentInv, ClientCurrent, NoCacheIsCurrent
<1> QED BY <1>1, <1>2, CacheInvariant, NextCurrent, PTL DEF Spec

=============================================================================
