----------------------------- MODULE ProxyChain -----------------------------
(***************************************************************************)
(* ResolveClient (src/clientip.go) at the end of a chain of hops.  A       *)
(* request starts at some client and is passed on, by trusted proxies,     *)
(* which append the peer they saw to X-Forwarded-For, and by other hosts,  *)
(* which may send on anything.  The list elements are those FieldList      *)
(* reads; addresses are compared unmapped.                                 *)
(***************************************************************************)
EXTENDS Naturals, Sequences

CONSTANTS
  Addr,          \* addresses of hosts
  Trusted,       \* the trusted proxy prefixes, as the addresses in them
  NoAddr,        \* the zero netip.Addr
  MaxEntries,    \* maxForwardingHops
  Lists,         \* what a host that is not a trusted proxy may send
  MaxRoute       \* bound on the hosts a request passes

(* listEntry: an address alone, an address with a port, in quotes or in    *)
(* brackets (named but not bare), or no address at all.                    *)
Entry == [addr : Addr, bare : BOOLEAN] \cup [addr : {NoAddr}, bare : {FALSE}]
Appended(a) == [addr |-> a, bare |-> TRUE]
Refused == [addr |-> NoAddr, bare |-> FALSE]

ASSUME ChainAssumption ==
  /\ Trusted \subseteq Addr /\ NoAddr \notin Addr
  /\ Lists \subseteq Seq(Entry)
  /\ MaxEntries \in Nat /\ MaxRoute \in Nat

VARIABLES
  route,         \* history: the hosts the request was sent by so far
  xff,           \* the X-Forwarded-For list, as the last one sent it
  res            \* the server's ClientResolution, NoResolution before

vars == <<route, xff, res>>

NoResolution == [ip |-> NoAddr, forwarded |-> FALSE]

(* In particular a resolution always names an address, also when the list  *)
(* was refused or names none (ClientResolution.IP, src/clientip.go:16).    *)
TypeOK ==
  /\ route \in Seq(Addr) /\ route # <<>>
  /\ xff \in Seq(Entry)
  /\ res \in [ip : Addr, forwarded : BOOLEAN] \cup {NoResolution}

Peer == route[Len(route)]

Init ==
  /\ \E client \in Addr : route = <<client>>
  /\ xff \in Lists
  /\ res = NoResolution

-----------------------------------------------------------------------------
(* ResolveClient.                                                          *)

BoundedInPart == IF Len(xff) > MaxEntries THEN SubSeq(xff, 1, MaxEntries) ELSE xff  \* mutant
(* parseBounded: a list over the bound is one entry that names nothing.    *)
Bounded == IF Len(xff) > MaxEntries THEN <<Refused>> ELSE xff

WalkFromLeft(list) ==         \* mutant
  LET stops == {i \in DOMAIN list : ~list[i].bare \/ list[i].addr \notin Trusted}
  IN IF stops = {} THEN Refused ELSE list[CHOOSE i \in stops : \A j \in stops : i <= j]
(* forwarding.client: from the right, past trusted hops, up to the first   *)
(* entry that is not an address alone or not trusted.                      *)
Walk(list) ==
  LET stops == {i \in DOMAIN list : ~list[i].bare \/ list[i].addr \notin Trusted}
  IN IF stops = {} THEN Refused ELSE list[CHOOSE i \in stops : \A j \in stops : j <= i]

ResolveUnchecked ==           \* mutant
  IF Peer \in Trusted
    THEN [ip |-> Walk(Bounded).addr, forwarded |-> TRUE]
    ELSE [ip |-> Peer, forwarded |-> FALSE]
ResolveClient ==
  LET entry == Walk(Bounded)
  IN IF Peer \in Trusted /\ entry.bare
       THEN [ip |-> entry.addr, forwarded |-> TRUE]
       ELSE [ip |-> Peer, forwarded |-> FALSE]

-----------------------------------------------------------------------------
Travelling == res = NoResolution /\ Len(route) < MaxRoute

(* A trusted proxy receives the request and passes it on.                  *)
ProxyForwards(p) ==
  /\ Travelling /\ p \in Trusted
  /\ xff' = Append(xff, Appended(Peer))
  /\ route' = Append(route, p)
  /\ UNCHANGED res

(* Another host does, and sends what it likes.                             *)
HostForwards(h) ==
  /\ Travelling /\ h \in Addr \ Trusted
  /\ xff' \in Lists
  /\ route' = Append(route, h)
  /\ UNCHANGED res

(* The server receives it.                                                 *)
Resolve ==
  /\ res = NoResolution
  /\ res' = ResolveClient
  /\ UNCHANGED <<route, xff>>

Resolved == res # NoResolution /\ UNCHANGED vars

Next ==
  \/ \E a \in Addr : ProxyForwards(a) \/ HostForwards(a)
  \/ Resolve \/ Resolved

Spec == Init /\ [][Next]_vars

-----------------------------------------------------------------------------
(* The last host on the route outside the trusted set.                     *)
LastUntrusted(a) ==
  \E i \in DOMAIN route :
    /\ route[i] = a /\ a \notin Trusted
    /\ \A j \in DOMAIN route : j > i => route[j] \in Trusted

(* Whatever hosts outside the trusted set wrote, the client is the last of *)
(* them, the one the outermost trusted proxy saw, or, when the list is     *)
(* over its bound, the peer itself (ResolveClient, src/clientip.go:31).    *)
ClientIsLastUntrusted ==
  res # NoResolution =>
    \A a \in Addr : LastUntrusted(a) =>
      res.ip = IF Len(xff) > MaxEntries THEN Peer ELSE a
=============================================================================
