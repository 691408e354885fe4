----------------------------- MODULE StaticCache -----------------------------
(***************************************************************************)
(* StaticHandler (src/static.go) behind a cache that clients share, while  *)
(* new versions of one asset are rolled out.  A server of each version in  *)
(* `deployed` answers; its maps are built once and never change.  The cache*)
(* and the clients do what HTTP lets them: store by Vary, revalidate by    *)
(* ETag, resume a download that was cut with If-Range.                     *)
(***************************************************************************)
EXTENDS Naturals, Sequences, FiniteSets

CONSTANTS
  Client,
  AcceptEncoding,    \* the Accept-Encoding list each client sends
  Decodes,           \* the clients that can decode gzip
  Content,           \* the asset's content in each version, NoFile without it
  Shrinks,           \* the contents gzip makes smaller
  NoFile, None

Version == DOMAIN Content
Contents == {Content[v] : v \in Version} \ {NoFile}

(* An Accept-Encoding element: its coding and its weight.                  *)
Element == [coding : {"gzip", "x-gzip", "*", "other"}, q : {"none", "zero", "positive", "unparseable"}]

Gzips(list) == {i \in DOMAIN list : list[i].coding \in {"gzip", "x-gzip"}}
Stars(list) == {i \in DOMAIN list : list[i].coding = "*"}

ETags == Contents \X {"identity", "gzip"}
Tags == [etag : ETags, weak : BOOLEAN]
Answers == [status : {200, 206, 304, 404}, content : Contents \cup {NoFile},
            encoding : {"identity", "gzip"}, etag : ETags \cup {None}, vary : BOOLEAN]
Stores == [accept : Seq(Element), vary : BOOLEAN, etag : ETags, resp : Answers]
Requests == [accept : Seq(Element), ifNoneMatch : SUBSET Tags, ifRange : Tags \cup {None},
             stored : SUBSET Stores, resp : Answers \cup {None}]

(* A client that cannot decode gzip does not ask for it, by name or by "*".*)
ASSUME StaticAssumption ==
  /\ 1 \in Version
  /\ None \notin Requests
  /\ Shrinks \subseteq Contents
  /\ AcceptEncoding \in [Client -> Seq(Element)]
  /\ \A c \in Client \ Decodes :
       LET list == AcceptEncoding[c]
           asks == IF Gzips(list) # {} THEN Gzips(list) ELSE Stars(list)
       IN \A i \in asks : list[i].q = "zero"

VARIABLES
  cacheControl,  \* "no-cache", the default, or "max-age"
  deployed,      \* the versions that answer requests
  next,          \* the version to be rolled out next
  cache,         \* the responses the cache has stored
  have,          \* what each client holds of the asset, or None
  req,           \* each client's request, or None
  seen           \* history: contents deployed while each client's last request ran

world == <<cacheControl, deployed, next>>
vars == <<world, cache, have, req, seen>>

-----------------------------------------------------------------------------
(* The handler.                                                            *)

(* encodingOffer, zeroQValue                                               *)
Offered(e) == e.q # "zero"

(* The first element that names gzip decides, else the last "*".           *)
AcceptsGzip(list) ==
  LET named == Gzips(list)
      stars == Stars(list)
  IN IF named # {}
       THEN Offered(list[CHOOSE i \in named : \A j \in named : i <= j])
       ELSE stars # {} /\ Offered(list[CHOOSE i \in stars : \A j \in stars : j <= i])

ETagOfContent(content, encoding) == <<content, "identity">>     \* mutant: no "-gz"
ETag(content, encoding) == <<content, encoding>>

IfNoneMatchAny(tags, etag) == tags # {}                        \* mutant
(* ifNoneMatch: weakly equal to a listed tag.                              *)
IfNoneMatch(tags, etag) == \E t \in tags : t.etag = etag

Response(status, content, encoding) ==
  [status |-> status, content |-> content, encoding |-> encoding,
   etag |-> ETag(content, encoding), vary |-> TRUE]

NotFound == [status |-> 404, content |-> NoFile, encoding |-> "identity", etag |-> None, vary |-> FALSE]

(* http.FileServer with the ETag the handler has set.                      *)
FileServer(content, r) ==
  LET etag == ETag(content, "identity")
  IN IF IfNoneMatch(r.ifNoneMatch, etag) THEN Response(304, content, "identity")
     ELSE IF r.ifRange # None /\ r.ifRange.etag = etag /\ ~r.ifRange.weak
       THEN Response(206, content, "identity")
     ELSE Response(200, content, "identity")

ServesGzip(content, r) ==
  content \in Shrinks /\ r.ifRange = None /\ AcceptsGzip(r.accept)

StaticHandler(v, r) ==
  LET content == Content[v]
  IN IF content = NoFile THEN NotFound
     ELSE IF ServesGzip(content, r)
       THEN Response(IF IfNoneMatch(r.ifNoneMatch, ETag(content, "gzip")) THEN 304 ELSE 200, content, "gzip")
     ELSE FileServer(content, r)

-----------------------------------------------------------------------------
(* The cache stores whole responses, one for each Accept-Encoding when the *)
(* response varies on it.  A client holds the two halves of a body and its *)
(* tag; an intermediary may have weakened the tag.                         *)
Part(resp) == [content |-> resp.content, encoding |-> resp.encoding]
Stored(accept) == {s \in cache : ~s.vary \/ s.accept = accept}
Whole(c) == have[c] # None /\ None \notin {have[c].first, have[c].second}
Tag(c) == [etag |-> have[c].etag, weak |-> have[c].weak]

Init ==
  /\ cacheControl \in {"no-cache", "max-age"}
  /\ deployed = {1} /\ next = 2
  /\ cache = {}
  /\ have = [c \in Client |-> None] /\ req = [c \in Client |-> None]
  /\ seen = [c \in Client |-> {}]

Request(c, own, range, s) ==
  [accept |-> AcceptEncoding[c],
   ifNoneMatch |-> own \cup {[etag |-> stored.etag, weak |-> FALSE] : stored \in s},
   ifRange |-> range, stored |-> s, resp |-> None]

(* A client asks for the asset, or for the rest of it; the cache adds what *)
(* it could answer with to the validators.                                 *)
Ask(c) ==
  /\ req[c] = None
  /\ seen' = [seen EXCEPT ![c] = {Content[v] : v \in deployed}]
  /\ \/ /\ have[c] # None /\ ~Whole(c)
        /\ req' = [req EXCEPT ![c] = Request(c, {}, Tag(c), {})]
     \/ \E s \in {{}} \cup {{one} : one \in Stored(AcceptEncoding[c])} :
          req' = [req EXCEPT ![c] = Request(c, IF Whole(c) THEN {Tag(c)} ELSE {}, None, s)]
  /\ UNCHANGED <<world, cache, have>>

(* The cache answers itself from a response that is fresh.                 *)
AnswerFresh(c) ==
  /\ cacheControl = "max-age"
  /\ req[c] # None /\ req[c].resp = None
  /\ \E s \in req[c].stored : req' = [req EXCEPT ![c].resp = s.resp]
  /\ UNCHANGED <<world, cache, have, seen>>

(* A server of a deployed version answers.  A 304 that names the cache's   *)
(* own response and not the client's becomes that response.                *)
Answer(c) ==
  /\ req[c] # None /\ req[c].resp = None
  /\ \E v \in deployed :
       LET resp == StaticHandler(v, req[c])
           reused == {s \in req[c].stored : s.etag = resp.etag}
           clients == Whole(c) /\ have[c].etag = resp.etag
       IN /\ req' = [req EXCEPT ![c].resp =
                       IF resp.status = 304 /\ ~clients /\ reused # {}
                         THEN (CHOOSE s \in reused : TRUE).resp ELSE resp]
          /\ cache' = IF resp.status # 200 THEN cache
                      ELSE {s \in cache : s.vary # resp.vary \/ s.accept # req[c].accept}
                             \cup {[accept |-> req[c].accept, vary |-> resp.vary, etag |-> resp.etag, resp |-> resp]}
  /\ UNCHANGED <<world, have, seen>>

(* The client takes the answer; a body may be cut in the middle.           *)
Take(c, cut, weak) ==
  /\ req[c] # None /\ req[c].resp # None
  /\ LET resp == req[c].resp
     IN have' = [have EXCEPT ![c] =
          CASE resp.status = 200 ->
                 [first |-> Part(resp), second |-> IF cut THEN None ELSE Part(resp),
                  etag |-> resp.etag, weak |-> weak]
            [] resp.status = 206 -> [@ EXCEPT !.second = IF cut THEN None ELSE Part(resp)]
            [] resp.status = 304 -> @
            [] resp.status = 404 -> None]
  /\ req' = [req EXCEPT ![c] = None]
  /\ UNCHANGED <<world, cache, seen>>

(* A roll-out: at most two versions answer at a time.                      *)
Deploy ==
  /\ next \in Version /\ Cardinality(deployed) = 1
  /\ deployed' = deployed \cup {next} /\ next' = next + 1
  /\ seen' = [c \in Client |-> IF req[c] # None THEN seen[c] \cup {Content[next]} ELSE seen[c]]
  /\ UNCHANGED <<cacheControl, cache, have, req>>

Retire ==
  /\ Cardinality(deployed) > 1
  /\ \E v \in deployed : deployed' = deployed \ {v}
  /\ UNCHANGED <<cacheControl, next, cache, have, req, seen>>

Next ==
  \/ \E c \in Client :
       Ask(c) \/ AnswerFresh(c) \/ Answer(c) \/ \E cut, weak \in BOOLEAN : Take(c, cut, weak)
  \/ Deploy \/ Retire

Spec == Init /\ [][Next]_vars

-----------------------------------------------------------------------------
(* What a client has put together, over resumed downloads, revalidations   *)
(* and whatever the cache answered, is one content in one encoding, and one*)
(* the client can decode: the gzip body has a tag of its own, ranges are of*)
(* the identity body, and every response varies (src/static.go:149).  And a*)
(* 304 comes only to a client that holds a body.                           *)
BodyIsOneAsset ==
  \A c \in Client :
    /\ have[c] # None =>
         /\ have[c].second \in {None, have[c].first}
         /\ have[c].first.encoding = "gzip" => c \in Decodes
    /\ req[c] # None /\ req[c].resp # None /\ req[c].resp.status = 304 => Whole(c)

(* Under no-cache a client that has an answer holds the content of a       *)
(* version that was deployed while it asked: a 304 never confirms another  *)
(* one, in either encoding (ifNoneMatch, src/static.go:168).               *)
NoCacheIsCurrent ==
  cacheControl = "no-cache" =>
    \A c \in Client : req[c] = None /\ Whole(c) =>
      have[c].first.content \in seen[c]
=============================================================================
