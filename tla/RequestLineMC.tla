---------------------------- MODULE RequestLineMC ----------------------------
(* RequestLine with a route table of three patterns, one of them with a    *)
(* host, and paths under nested prefixes, at the cap and over it.          *)
EXTENDS RequestLine

Pattern(host, path) == [host |-> host, path |-> path]
Sessions == <<"/", "s", "/">>
Nested == <<"/", "s", "/", "x", "/">>

MCTargets ==
  {[path |-> Sessions \o <<"k">>, pattern |-> Pattern(<<>>, Sessions \o <<"{id}">>)],
   [path |-> Sessions \o <<"L", "c", "c", "k">>, pattern |-> Pattern(<<>>, Sessions \o <<"{id}">>)],
   [path |-> Sessions \o <<"L", "c", "c", "k">>, pattern |-> NoPattern],
   [path |-> Nested \o <<"k">>, pattern |-> Pattern(<<"h">>, Nested \o <<"{id}">>)],
   [path |-> <<"/", "x", "L", "c", "c", "L", "c", "c">>, pattern |-> Pattern(<<>>, <<"/">>)],
   [path |-> <<"/", "h">>, pattern |-> NoPattern]}

MCBytes == STRING
MCTransformed == <<"/", "t", "L", "c", "c", "L", "c", "c">>

MCOptions ==
  {[opt |-> "skipPaths", arg |-> {<<"/", "h">>}],
   [opt |-> "skipFunc", arg |-> {t.path : t \in {u \in MCTargets : u.path[2] = "x"}}],
   [opt |-> "skipFunc", arg |-> {}],
   [opt |-> "templates", arg |-> {Sessions, Nested}],
   [opt |-> "templates", arg |-> {<<>>}],
   [opt |-> "maxPath", arg |-> 4], [opt |-> "maxPath", arg |-> 0]}
  \cup [opt : {"pathFunc"}, arg : {"ok", "empty", "panics", Nil}]
  \cup [opt : {"plain", "request", "route"}, arg : {"fn", Nil}]
=============================================================================
