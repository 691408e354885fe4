# A TLA+ model of webhttp

webhttp is a Go library of `net/http` building blocks: a server runner with
graceful shutdown, middleware, response and request helpers. Most of it is
stateless; what is hard is small and concentrated in a few places. This
directory models those places, checks them with TLC on small instances, and
proves the most important facts with TLAPS for instances of any size.

Source positions are relative to the repository, `src/server.go:312` is line
312 of `server.go`.

## Inventory

| Component | State | Operations | Hard part |
| --- | --- | --- | --- |
| `Run` (server.go) | its place in the sequence, the one deadline, the `serveErr` channel | serve, react to the end of `ctx` or of `Serve`, pre-drain, `Shutdown`, teardown, return | three goroutines, two exits, one deadline for all steps, which error wins |
| `silentConns` (server.go) | set of connections in `StateNew`, a flag, a mutex | `track` on every state change, `closeAll` at shutdown | a set that lags behind the connections, a snapshot used after the unlock, a late accept |
| `AwaitDone`, `CausedByCancellation` | none | wait with a recheck, classify an error | both channels ready at once |
| `NewServer` and options | none | field assignments | nothing |
| Rate limiter (ratelimit.go) | token pool, last refill, mutex | `allow` per request | concurrent requests, rounding of the hint |
| `StatusRecorder` (recorder.go) | status, committed, bare hijack | write, flush, hijack, copy | any order of calls, informational statuses, failing calls |
| `Gzip` (gzip.go) | five states, held header, buffer, pooled compressor | the writer's calls, return, panic | what was held back against what went out, panics in between |
| `Recoverer`, `Chain` (middleware.go) | none (reads the recorder) | recover, answer 500 | committed or not, a responder that panics |
| `RequestLogger` (reqlog.go) | its options (reads the recorder and the request) | ids, deferred line, path policies, metric labels, hooks | hooks that panic outside `Recoverer`, switched protocols, a pattern it may never see, what a caller may put in a record |
| `RouteTimeout` (middleware.go) | `http.TimeoutHandler`'s buffer | serve with a timer | timer against handler |
| `SecurityHeaders`, `NoStore` | none | set headers | nothing |
| `Ready`, `ReadinessHandler` | one atomic flag | set, probe | traffic after the flag was cleared, cached answers |
| `ResolveClient`, `fieldList`, the Forwarded parser | none | walk a list of hops, read header fields | hops of mixed trust, quoting, bounds |
| `HostPolicy`, `LoopbackOnly` | immutable policy | admit or refuse | canonical forms, local peers that pass on what others asked |
| `LimitBody`, `DecodeJSONInto` (prelude.go) | none | cap and decode a body | the cap inside, at the end of and after a value; wrappers that do not unwrap |
| `StaticHandler` (static.go) | maps built once | negotiate, revalidate | two encodings of one asset in caches, across a roll-out |
| CSP hashes (csp.go) | none | find inline elements | quotes, prefixes of end tags, a page that ends in an element |
| JSON envelope, path and text helpers | none | pure functions | nothing |

How they interact: `Run` installs `silentConns.track` as the server's
`ConnState` hook (after the caller's) and `closeAll` as a shutdown callback;
net/http calls the first in the accept loop and in every connection's goroutine
and the second in a goroutine of its own. The middleware stack
`Logging(Recoverer(Gzip(handler)))` shares one `StatusRecorder`: `RequestLogger`
makes it, `Recoverer` reuses it to decide whether a 500 may be written, `Gzip`
writes through it, and the access line reads it when everything has returned.
`RequestLogger` puts the request id into the header and the context, from which
error envelopes take it, and learns the route only if the mux was given the same
`*http.Request`. An application wires `Ready` and `AwaitDone` into `Run`'s hooks. The
gates, `ResolveClient`, `Gzip` and `StaticHandler` read header fields through
`fieldList`.

What makes each correct: `Run` returns within the grace, never leaves `Serve`
behind, runs exactly one of its two hook sequences and reports the right error;
the sweep misses no silent connection and spares the others; the bucket bounds
the aggregate rate and its hint is honest; the stack delivers the handler's
response or its encoding, byte by byte, logs once with the status sent, answers a
panic with 500 exactly if nothing was sent, and returns its compressor once. A gate
admits only what its comment promises, however many hops lie before it; a scanner
reads what was written; a client of the static handler never holds a body of two
versions or encodings; a record names neither a credential nor a label its caller
chose.

## Modules

| Module | Models | Built on |
| --- | --- | --- |
| `SilentConns` | the tracker: `track`, `closeAll`, split at the mutex | |
| `NetServer` | the net/http server as `Run` uses it: accept loop, connection goroutines, hook calls, parts of `Shutdown` | `SilentConns` |
| `RunPromise` | abstract specification of `Run` | |
| `RunLifecycle` | `Run` and its environment; implements `RunPromise` | `NetServer` |
| `RunLifecycle_proof` | theorems about `RunLifecycle` | |
| `RateLimiter` | token bucket and middleware | |
| `RateLimiter_proof` | theorems about `RateLimiter` | |
| `ResponseWriter` | the net/http response writer, as the wrappers' comments describe it | |
| `StatusRecorder` | `StatusRecorder` over it | `ResponseWriter` |
| `GzipWriter` | `gzipWriter` over that | `StatusRecorder` |
| `Recoverer` | the 500 for a panic, onto the recorder | `StatusRecorder` |
| `Recoverer_proof` | lemmas and a theorem about the calls of `ResponseWriter`, `StatusRecorder`, `Recoverer` | |
| `AccessLog` | the deferred access line | `StatusRecorder` |
| `ResponseStack` | one request through the whole stack, beside a bare writer | `GzipWriter`, `AccessLog`, `Recoverer` |
| `ResponseStack_proof` | theorems about `ResponseStack`: accounting, panics, the line, and the stack beside the bare writer | `Recoverer_proof` |
| `RouteTimeout` | one request with a timeout, its handler's goroutine, and `Recoverer` | `Recoverer` |
| `RouteTimeout_proof` | a theorem about `RouteTimeout` | `Recoverer_proof` |
| `ProxyChain` | a request along a chain of hosts, and `ResolveClient` at its end | |
| `FieldList` | `fieldList`, a pure operator over field lines | |
| `ForwardedElement` | the parser of one Forwarded element | |
| `InlineHashes` | the scanner for inline elements of a page | |
| `JsonBody` | `LimitBody`, `DecodeJSONInto`, `DecodeBodyOptional` | |
| `ScannersMC` | whoever writes the texts these scanners read | `FieldList`, `ForwardedElement`, `InlineHashes`, `JsonBody` |
| `Admission` | the gates at the end of a chain of hosts | `ProxyChain` |
| `Admission_proof` | theorems about `ProxyChain` and `Admission` | |
| `StaticCache` | `StaticHandler` behind a shared cache, during roll-outs | |
| `StaticCache_proof` | theorems about `StaticCache` | |
| `Drain` | a service on top of `Run`: readiness, streams, teardown | `RunPromise` |
| `RequestLine` | what `RequestLogger` records of a request | |
| `Parts_proof` | theorems about `Drain`, `RequestLine` and `ScannersMC`, and induction over the naturals for them | |
| `*MC` | instances for TLC | |

### Run and the sweep

A connection `c` has the state net/http keeps (`st[c]`), its goroutine
(`gor[c]`), a hook call in progress (`hook[c]`), and the socket
(`c \in closed`). `Run` has a program counter (`run`); a blocking call is the
value of it from which the next action returns. `conns`, `shutdown` and `mapNil`
are the fields of `silentConns`; `toClose` is the snapshot `closeAll` works off.
`serveErr` is the channel of capacity one.

One step is one region nothing else can see inside: a critical section, a
channel operation, one `Close`, one return from a hook. So `track` of a late
connection is two steps (`NewHook`, `LateClose`), `closeAll` one step plus one
per connection (`SweepStart`, `SweepCloses`), and a state change is one step and
its hook call another, because the caller's own hook runs in between.

net/http is not part of the repository. `NetServer` states what `Run` relies on:
the state changes before the hook is called, the `StateNew` hook runs in the
accept loop, request bytes are read before `StateActive`, `Shutdown` closes
listeners, starts the callbacks, waits for the accept loop, then polls, closing
idle connections and those in `StateNew` for 5 s. Timers are booleans that may
become true at any moment.

The environment cancels, lets the grace run out, may call `Shutdown` or `Close`
itself, returns from hooks; peers send, hang up, or stay silent.

### Rate limiter

Time is in ticks and the pool in units, one per tick and `Interval` to a token,
so that the arithmetic is exact. `allow` holds the mutex from the clock reading
to the hint: one step per request. `ClockStepsBack` is no hazard of the program, whose
clock is read under the lock and is monotonic; it is there because `allowLocked` is
written to be total over its inputs (`src/ratelimit.go:170`), and must stay so. `drawn` and `forward` are history
variables of an observer that opens a window at any moment; `retryAt` remembers
when a client's hint ends.

### The response stack

A response is one record: the live header, what net/http has sent (`net`), the
recorder (`rec`) and the gzip writer (`gz`). Every method is an operator from
response to response, so the layers compose as the Go wrappers do. Bytes are
numbered in the order the handler wrote them, and carry whether they went
through the compressor. The same calls are applied to a second response that has
only net/http's writer; the properties compare the two.

The compressor emits what it holds at any time (`CompressorEmits`), on flush and
on close. The header is reduced to the fields the code looks at: content type,
`Content-Encoding`, whether there is a `Content-Length`, `Vary`, the kind of
`ETag`, one field that stands for any other, a trailer declared in `Trailer` with
its value, and a key under `http.TrailerPrefix`. Whether net/http can send trailers,
which depends on the framing it picks, is left out: both writers send those that
were set. A request uses entity headers, or trailers, or has a connection that
fails at any moment (`ConnectionFails`); from then on every write is lost, under
both writers.

### RouteTimeout

`http.TimeoutHandler` is outside the repository; `RouteTimeout` models what the
wrapper relies on: the handler writes to a buffer (`tw`) in its own goroutine
(`hand`), the request's goroutine (`serve`) takes any ready case of the select,
and a buffer that was left behind is closed. The handler's panic is passed on
only while the request's goroutine still waits for it. Below it is
`jsonTimeoutWriter` over the recorder. A duration of zero is a request whose
handler writes to the recorder itself. The outer header has no `Content-Type`, as
under this library's own middleware.

### Client address

`ProxyChain` builds a request host by host. A trusted proxy appends the peer it
saw; a host outside the trusted set sends any list. `route` is the truth about the
hosts passed, a history variable that `ResolveClient` does not see except for its
last element, the peer. Entries are those `FieldList` reads, classified as
`parseListEntry` does: an address alone, an address in another form, or none.

`Admission` puts the other fields on the same chain. An agent, a program or a
browser, asks for a `Host` and may send provenance fields; a trusted proxy keeps
the `Host` or sends its upstream's name; another host does to all of them what it
likes. `past` is the truth about what was asked and what hops did to it, which no
gate sees. A `Host` is a record of what `CanonicalHost` tells apart: name, address
or neither, brackets, dots, port.

`LocalGateIsLocal` has the ceiling `src/loopbackonly.go:31` states: a loopback hop
that removes every trace cannot be told from a program there. `HostPolicy`'s
loopback exemption looks at peer and `Host` only, so a proxy on the loopback
interface that sends its upstream's name there gets everybody past it;
`PolicyAdmitsNamed` leaves requests whose `Host` was rewritten to the hop that did.

### Scanners

`FieldList`, `ForwardedElement`, `InlineHashes` and `JsonBody` are pure operators
over classes of bytes. `ScannersMC` puts a text together piece by piece, as whoever
sends or builds it may, and keeps what was meant, so that a scanner is compared with
its input and not with another scanner: list elements over lines with white space
and empty elements; `for`, `by` and other pairs with tokens, quotes, escapes and
what can be wrong with them; elements with quoted `>` and attributes, text between
them, and a page that ends anywhere; JSON objects with white space, junk, a cap.
Attributes are set off by white space, as in HTML that validates: `<script/src=x>`,
and scripts in escaped comments, are not written.

### Static handler

`StaticCache` rolls out versions of one asset, at most two at a time; the servers
of each answer with `StaticHandler`. Clients of both encodings sit behind a shared
cache that stores by `Vary`, adds its own validators and may answer alone what is
fresh. A download may be cut and resumed with `If-Range`, and an intermediary may
weaken a tag. `have[c]` are the two halves of the body a client has put together.

### Drain

`Drain` composes `Ready`, `ReadinessHandler`, `AwaitDone` and `CausedByCancellation`
with `RunPromise`, the contract `RunLifecycle` is proved to implement, rather than with
`RunLifecycle` itself. A phase of the promise starts a hook, whose body is the steps
that follow (`pc`): the pre-drain hook clears the flag and ends the streams,
`Shutdown` waits for those, the teardowns wait for a worker. The load balancer's probe
is three steps, send, answer, take, so that its answer may be old when it is used.

What `errors.Is` finds in a result of `Run` is `ChainOf[ret]`: nothing of a context's in
a plain fault, `context.DeadlineExceeded` in the grace running out and in a serve error
that carries a deadline of the caller's own. `CausedByCancellation` may be asked at any
moment after `Run` returned, and `ctx` may end after the fault.

### Request line

`RequestLine` applies any options in any order to `RequestLogger` and follows one
request: id, middleware that may clone it (after which the mux's pattern does not
reach the logger), a mux that may not be reached, an error envelope, and the deferred
record. A path is a sequence of bytes in which an `L` starts a rune of three; what
the code appends, like `...(truncated)`, counts as one. A path lies under a prefix as
it is spelled. `r.Pattern` is a registered pattern or none: when `http.ServeMux`
redirects a CONNECT request to a trailing slash, some releases of net/http put the path of
the redirect there instead (it is read at `src/reqlog.go:304` and `src/reqlog.go:617`),
which is outside the model, so `CredentialStaysOut` and the path label of
`RecordIsBounded` rest on it.

## Runs

| Run | Question | Result |
| --- | --- | --- |
| `run_safety` | Under every interleaving of two connections, `Run`, the sweep and a caller that stops the server itself: no insert into the map after it became nil, no silent connection lost, no served connection swept, a nil return means drained, `Serve` ends first | holds |
| `run_live` | Does a cancelled `Run` return, by its grace although a handler hangs, and without the grace and the 5 s rule once handlers return; does the sweep reach every silent connection; and does `Run` implement `RunPromise`? | holds: the sweep is what frees it of the 5 s rule |
| `rate_limit` | Is the aggregate rate bounded, is the hint sufficient and tight? | holds |
| `stack_wire` | Is the stack transparent, call by call, trailers included and wherever the connection fails, does a panic never corrupt what was sent, is every compressor returned, and is there one line with the right status and a 500 for every uncommitted panic? | holds, the last two without informational statuses |
| `hint_panic` | Is a panic after a 103 answered 500? | violated |
| `route_timeout` | Does a request with a timeout always end, with one whole response, and is a panic in time logged? | holds |
| `admission` | Is the client resolved the last untrusted host, is a missing proxy reported, does `LoopbackOnly` admit only local programs, and `HostPolicy` only what an entry names? | holds |
| `scanners` | Do the scanners read what was written? | holds |
| `static_cache` | Does a client hold one content in one encoding, and under `no-cache` a current one? | holds |
| `drain` | Does traffic stop, does a drain need no grace, and is the worker reported as it is? | holds |
| `drain_fault` | Is a serve error that came before `ctx` ended never read as that end? | violated |
| `request_line` | Is what is recorded free of credentials, bounded, of few series, and under one id? | holds |

Bounds. Two connections are enough for the accept loop to report one while the
sweep closes the other; the liveness run has one, which may be silent, late or busy. Every hook set is an initial state. The
bucket has two tokens, a token takes 2.5 s, so hints of 1, 2 and 3 s occur, and
the window of 14 ticks lets it run dry and refill. The stack sees four calls, each
of any kind, with writes of 0 to 2 bytes against a threshold of 2: enough for
status, header change, write, commit, flush, and one more.

A handler with a timeout makes four calls: header, status, body and one more that
comes late. A route has up to three hosts out of four, a trusted proxy and a trusted
loopback proxy, another loopback process and a public host, and the list bound is
two, so lists over it occur. Fields hold three elements of every syntax and an
empty one, a Forwarded element three pairs against a cap of two, a page three
pieces, a body six bytes against a cap of five. Two clients, one that can decode gzip,
meet three versions, the last without the asset: two roll-outs, both encodings, and
a 404. One stream, one worker and one probe at a time are all that `Drain`'s properties
speak of. Three options suffice for two to contradict and a third to decide; paths
reach over a cap of four bytes and over the default, set to six.

`StackIsTransparent` and `WireIsPrefix` leave out a connection that cannot flush:
there `Gzip` commits on a flush the bare writer refuses, as the comment at
`src/gzip.go:383` has it.

## What the violated runs show

- `hint_panic`: the recorder takes the first code of any kind
  (`src/recorder.go:37`), so a 103 counts as commitment, and a panic after it is
  answered by an empty 200 instead of a 500, although no final status is on the
  wire (`src/middleware.go:109`). For the same reason the access line and the
  metric say 103, against `src/reqlog.go:456`, and a hijack after it is not taken
  for a switch of protocols; `OneLinePerRequest` and `PanicAnswersFinal500`
  exclude such responses.
- `drain_fault`: `Serve` fails with an error that carries a deadline of the caller's own
  making (`src/server.go:20`) while `ctx` is live; then `ctx` passes a deadline too, and
  `CausedByCancellation` takes the error for that, because `errors.Is` compares with a
  sentinel all contexts share (`src/server.go:417`). Its comment says that it reports the
  end of *this* context and proves the match (`src/server.go:394`, `src/server.go:398`).
  The grace running out matches in the same way, but `ErrShutdownGraceExpired` tells that
  one. A plain fault never matches.

Three other places where comments say more than the code does are left out of the
properties, which say what holds instead:

- `closeAll` closes its snapshot after releasing the mutex (`src/server.go:336`), so a
  connection whose first request arrives in between is closed with the request in
  flight, where `src/server.go:233` speaks of connections that have sent no request.
  `SweepSparesServed`, which is proved, says that a connection whose `StateActive` the
  tracker heard of before the sweep is safe.
- `abort` removes a `Content-Length` only in the buffering state
  (`src/gzip.go:441`). One set before the first `WriteHeader` or `Write` stays on
  the 500 (`src/docs/middleware.md:51`). `PanicNeverCorrupts` has the held-back case.
- Once the timeout has been chosen nobody receives the handler's panic, so
  `Recoverer` neither logs it nor calls its hook (`src/middleware.go:554`).
  `OneWholeResponse` has the panic that comes before.

## Fairness

`FairSpec` assumes that goroutines that can run do run, that mutexes are granted,
that the caller's hooks return (each gets a context that ends), and that a read from
a closed socket and an `Accept` on a closed listener fail. Once the grace has run out,
`Shutdown`'s `select` finds its context ready each time it waits, so returning is
strongly fair. Nothing is assumed of timers, peers, handlers or the caller. What else is needed is the antecedent of the property that needs it:
`CancelledRunReturns` has `TimerFires`, the grace timer fires once it is due, and
`SilentPeersDoNotHold` has `HandlersReturn` and no timer: neither the grace nor the 5 s
rule, which may never apply.

`RouteTimeout`'s `FairSpec` assumes that its timer fires and that the request's
goroutine takes a ready case of its select; nothing of the handler or the client.

`DrainSpec` assumes that `Run` and the hooks proceed, that `Serve` ends once `Shutdown`
has closed its listener, that streams and the worker end when told, and that the
balancer keeps probing. It assumes nothing of the grace timer.

## Proofs

All theorems hold for any set of connections, any error values, any hooks, any
burst, interval and clock, any hosts, lists and routes, any statuses, threshold and
number and size of calls, any clients and versions of an asset, any options, paths and
caps, and texts put together of any number of pieces. The only assumptions are the named
ASSUMEs on constants, which TLC evaluates on every run. Most give a type the Go code
gives (`PathAssumption`, `PairsAssumption`, `WalkAssumption`, `ScanAssumption`). Two are
about others than this code: a client that cannot decode gzip does not ask for it
(`StaticAssumption`), and what an application configures, its routes, templates and the
result of its own path function, holds no credential (`CredentialAssumption`).

`RunLifecycle_proof`:

- `TypeCorrect`: types, one lemma for the server's steps and one for `Run`'s.
- `NoNilMap`: no step inserts into the map once it is nil. Of all actions only a
  `StateNew` hook inserts, and one that comes so late finds the flag up, which needs the
  invariant `FlagFollowsMap`.
- `SilentAreSwept` and `ServedAreSpared` follow from `TrackerInv`. They are not
  inductive alone: a silent connection stays accounted
  for because the hook call in progress always names the connection's current
  state (`HookFollowsState`), and a served connection is out of the snapshot
  because nothing is in it before the flag is up (`NothingBeforeSweep`) and
  because a served connection has left `StateNew` for good (`ServedLeftNew`).
- `ServeEnded` and `RunKeepsPromise` follow from `LifecycleInv`: at most one
  `StateNew` hook is in progress and it holds the accept loop (`AcceptLoopInv`),
  the channel carries what `Serve` returned (`ServeInv`), and each value of `run`
  fixes which hooks and results exist (`RunInv`). The refinement is step
  simulation: every action of `RunLifecycle` is a step of `RunPromise` or a
  stutter under the mapping `Ran`.
- `CleanReturn` needs `DrainInv` on top: while nothing can be accepted any more,
  every accepted connection is tracked by the server, closed, or hijacked.

`RateLimiter_proof`: `TypeCorrect`, `RateIsBounded` and `HintIsHonoured` from
`IInv`. The bound is inductive once the pool is added to what was drawn: pool
plus drawn never exceeds capacity plus elapsed ticks. The hint is honoured
because pool plus time left to `retryAt` never falls below one token while no one
else draws. `HintScales` is the other half: a hint is never a full second longer than
needed.

`Admission_proof`, for the chain: `TypeCorrect` and `ClientFound`. The invariant behind
both is `EndsWithRoute`: the list ends with the hosts from the last untrusted one on,
each written by the trusted proxy after it, so the walk from the right cannot reach
anything an untrusted host wrote. That a walk over a list with a stop finds the last one
rests on `MaxExists`, a greatest element of a bounded set, proved from the library's
well-founded order on the naturals.

For the gates: every step of `Admission` is a step of `ProxyChain` or a stutter
(`GateRefinesChain`), so `GateClientFound` follows from `ClientFound`. The gates see
only the request as it arrived, so `GateInv` says what the request tells of its past: a
hop leaves a trace unless the last one took all off (`TracesLeft`), the Host is the one
asked for unless a hop rewrote it (`AskedIsKept`), and honest hops make the list the
route without its last host (`ListIsRoute`). From these, for routes of any length,
`LocalGate`, `NamedHosts` (with `CanonicalIsSpelled`: what `CanonicalHost` returns is
spelled by its argument) and `MissingProxy` (with `Decided` of the chain).

`Recoverer_proof` reduces every call on the writer and on the recorder to its effect
on the fields of a response (`Headed`, `Bodied`, `Returned` on net/http's side, `Coded`
and `Touched` on the recorder's), so that later proofs speak of fields and not of
nested updates. `Agrees` relates the two sides: what the recorder reports is what was
sent, as long as no informational status went through it. `RecoverForm` concludes that
`Recover` leaves a committed response alone and writes a whole 500 onto any other,
whichever way the responder fails.

`ResponseStack_proof`: the invariant is `StackInv`. While the handler runs the response
is `Good`: `Agrees` holds, only the handler's bytes are on the wire and no stream is
ended, and `Books` accounts for the compressor (taken at most once, attached or given
back, only for a compressed response; what waits is under the threshold). While the
stack unwinds it is also `Unwound`, which says that `Gzip` has already given back what
it took; afterwards it is `Ended`. From these `StackTypes`, `CompressorGoesBack`,
`OneLineEach`, `PanicIsClean` and, as an action property, `PanicIsAnswered`. None of
these is inductive alone: that a compressor comes back needs that it is taken only on
the way to the compressed state, and that a panic is answered needs that the recorder
and the wire agree.

`ResponseStack_proof`, continued: `StackIsInvisible` and `WireFollows`, by a relation between the
stack's response and the bare writer's, `Mirrors`, with one case for each state of
`gzipWriter`: nothing decided, and both are equal; held back, and the bare writer's
header is the held one and its body what waits (`Buffered`); passed through, and the
headers differ in `Vary` alone (`SentPlain`); compressed, and the header is the bare
one marked as such while the compressor holds the rest of the body (`SentMarked`);
hijacked, and the stack is only behind (`Cut`). `Trails` says how far it is behind, and
covers a connection that has failed, where all that is left is that one is a prefix of
the other. TLC confirmed the relation as an invariant first. There is one lemma
for each call the handler makes, one for what the compressor does by itself and for
the connection's failure, and one for the end, when nothing is held back any more.

`RouteTimeout_proof`: `ResponseIsWhole`. Until it is answered, nothing of a limited
request has reached its own writer (`Untouched`), and the buffer is what the handler's
calls gave the bare writer (`Behind`); a request without a limit is level with that
writer (`Level`). Once it is answered, its response is the copied buffer, a 503 of one of
two kinds written while the handler still ran (`LeftBehind`), or a 500, and nothing the
handler does later can reach it, because the buffer is closed. That the 500 is whole is
`RecoverForm`.

`StaticCache_proof`: `OneBody` and `NoCacheStaysCurrent`. A tag names content and
encoding (`OneTag`), and the invariants carry that along a request: what the cache
stores was answered to the same list (`StoredWell`), the validators of a request are of
what the client or the cache has (`AskedWell`), so an answer is a body the client can
read, the rest of the one it began, or a confirmation of the one it holds
(`AnsweredWell`). That a list which is offered gzip is of a client that decodes it
(`OfferedIsDecoded`) is about the first element that names gzip and the last `*`, hence
about least and greatest elements. `CurrentInv` adds, under `no-cache`, that whatever is
deployed while a request runs is in `seen`.

`Parts_proof`, the drain: `ReportIsTrue`, a worker is reported as it was when the
context ended. That moment has passed when the report is made, so the invariant needs
`ExpiredStays`: a wait that took its context's end for an answer stays expired.

What the rest of `Parts_proof` speaks of is computed by recursive functions and folds
over data of any length. Its inductions are first-order facts about sets of naturals: a
set that holds 0 and the successor of each of its elements below N holds all up to N
(`UpTo`), and a function given by its first value and its steps exists
(`RecursionExists`), both from the library's well-founded order.

`Parts_proof`, the request line: `NoCredential` and `RecordsAreBounded`. That the fold over
the options leaves the path policy of the last path option, and the types of everything
else, is an induction over the options (`ConfigFits`). A path the policy hides is in
nothing it returns (`PolicyIsClean`); a cut falls on a rune, keeps bytes of the path and
stays within the cap (`CutIsWhole`, `BoundIsCapped`); `LineInv` carries this from the
moment the path is prepared to the deferred record, with the id the request was given.

`Parts_proof`, the scanners: each has an invariant of the text as it is put together, and
says what the scanner's loop has done once it has gone over the text, *whatever follows
it*. That quantifier is what makes it inductive, since pieces are added at the end and the
loop reads from the front.

- `ListIsRead`: a piece between commas `Passes`, that is, the loop adds it to the element
  it has begun and leaves no quote open, so the next comma ends that element; joined
  lines are read element by element, and white space and empty elements leave nothing.
- `ForwardedIsRead`: after at most as many turns as there are bytes the loop `Holds` what
  the pairs mean: the names seen, the node of `for`, and the tail that follows, or a
  refusal if a pair was wrong (`FwdInv`). A quote left open may swallow what follows, so
  the lemma for it says only that no pair comes of it (`CutOpen`). `Counted` is for the cap:
  while no name is repeated, there are as many names as pairs.
- `InlineIsHashed`: after k turns the loop has hashed exactly what was meant and stands
  where no element is opened before the end of the text (`Hashed`). Where a quote is open
  is a function of the bytes of a tag (`QuotesOfAttrs`); a page that ends in an element is
  the last piece, and adds nothing (`CutHashed`).
- `BodyIsWhole`: the first piece that is not white space is junk, an object left open, or
  an object whose depth is positive before its last byte and zero there (`FirstPiece`); what
  is behind it is white space exactly if nothing else was written. Pieces never close more
  than they open (`PieceDepth`), so no later one ends an earlier one. With a cap only a
  prefix is read, and `FirstDecode` says which of these the prefix still shows.

Only model-checked:

- Liveness, since fairness is out of the prover's reach: `CancelledRunReturns`,
  `SilentPeersDoNotHold`, `SilentIsClosed`, `LimitedRequestEnds`, `TrafficStops`, `StopNeedsNoGrace`.

## Not modelled

- `NewServer` and its options, `SecurityHeaders`, `NoStore`: assignments of fields and
  headers, with no state and no order that matters.
- The static token verifier and the text, path and bind-class helpers: pure functions
  of one string, in reach of table tests.
- Of modelled components: `WithGzipSkip` and media types; the log level presets and the
  value of `client_ip`; `ParseCIDRs`, IPv4-mapped addresses and a peer without an IP
  address; `RequireMethod`; the encoding of JSON and the validation of error codes; the
  byte rules of a hostname.
- Float rounding in the bucket, framing of trailers, and HTTP/2, which are net/http's
  or the hardware's.

## Plan

1. An X-Forwarded-For field kept as lines, read by `FieldList`, that refines
   `ProxyChain`'s list.
2. The compressor pool over several requests at once.
