-------------------------- MODULE Admission_proof --------------------------
(***************************************************************************)
(* Proofs about ProxyChain and about Admission, which carries it, for any  *)
(* addresses, trusted set, names, entries and fields, any lists an         *)
(* untrusted host may send, any bound, and routes of any length.           *)
(*                                                                         *)
(* The walk is right because the list ends with exactly the hosts from the *)
(* last untrusted one on (EndsWithRoute), each written by the trusted      *)
(* proxy after it; nothing an untrusted host wrote comes after them.       *)
(*                                                                         *)
(* Each gate sees only the request as it arrived; the invariants say what  *)
(* that tells of the hosts before (TracesLeft, AskedIsKept, ListIsRoute).  *)
(***************************************************************************)
EXTENDS Admission, WellFoundedInduction, TLAPS

IsLastUntrusted(u) ==
  /\ u \in DOMAIN route
  /\ route[u] \notin Trusted
  /\ \A j \in DOMAIN route : j > u => route[j] \in Trusted

(* Where the entry naming route[j] is in the list.                         *)
Place(j) == Len(xff) - (Len(route) - 1 - j)

EndsWithRoute ==
  \A u \in DOMAIN route : IsLastUntrusted(u) =>
    /\ Len(route) - u <= Len(xff)
    /\ \A j \in u..(Len(route) - 1) : xff[Place(j)] = Appended(route[j])

Decided == res # NoResolution => res = ResolveClient

IInv == TypeOK /\ EndsWithRoute /\ Decided

(* A bounded set of naturals that is not empty has a greatest element.     *)
LEMMA MaxExists ==
  ASSUME NEW n \in Nat, NEW S, S \subseteq 0..n, S # {}
  PROVE  \E k \in S : \A j \in S : j <= k
<1> DEFINE T == {i \in Nat : n - i \in S}
<1> DEFINE R == OpToRel(<, Nat)
<1>1. \A x, y \in Nat : y < x => <<y, x>> \in R
  BY DEF OpToRel
<1>2. T \subseteq Nat /\ T # {}
  <2>1. PICK s \in S : TRUE
    OBVIOUS
  <2>2. s \in 0..n /\ n - s \in Nat /\ n - (n - s) = s
    OBVIOUS
  <2> QED BY <2>2
<1>3. IsWellFoundedOn(R, Nat)
  BY NatLessThanWellFounded
<1> HIDE DEF R, T
<1>4. PICK m \in T : \A y \in T : <<y, m>> \notin R
  BY <1>2, <1>3, WFMin, Zenon
<1>5. n - m \in S /\ m \in Nat
  BY DEF T
<1>6. ASSUME NEW j \in S PROVE j <= n - m
  <2>1. j \in 0..n
    OBVIOUS
  <2>2. n - j \in T
    BY <2>1 DEF T
  <2>3. <<n - j, m>> \notin R
    BY <1>4, <2>2
  <2>4. n - j \in Nat
    BY <2>1
  <2>5. ~(n - j < m)
    BY <1>1, <1>5, <2>3, <2>4
  <2> QED BY <1>5, <2>1, <2>5
<1> QED BY <1>5, <1>6

(* Initially one host and whatever it sent.                                *)
LEMMA InitIInv == Init => IInv
<1> SUFFICES ASSUME Init PROVE IInv
  OBVIOUS
<1>1. PICK client \in Addr : route = <<client>>
  BY DEF Init
<1>2. TypeOK
  BY <1>1, ChainAssumption DEF Init, TypeOK, NoResolution
<1>3. EndsWithRoute
  BY <1>1, <1>2 DEF EndsWithRoute, IsLastUntrusted, TypeOK
<1> QED BY <1>2, <1>3 DEF IInv, Decided, Init

(* A refused list stops the walk at once.                                  *)
LEMMA WalkRefused == ~Walk(<<Refused>>).bare
<1> DEFINE list == <<Refused>>
<1> DEFINE stops == {i \in DOMAIN list : ~list[i].bare \/ list[i].addr \notin Trusted}
<1>1. list[1].bare = FALSE /\ DOMAIN list = {1}
  BY DEF Refused
<1>2. stops = {1}
  BY <1>1
<1>3. (CHOOSE i \in stops : \A j \in stops : j <= i) = 1
  BY <1>2
<1> HIDE DEF stops
<1>4. Walk(list) = list[1]
  <2>1. Walk(list) = IF stops = {} THEN Refused ELSE list[CHOOSE i \in stops : \A j \in stops : j <= i]
    BY DEF Walk, stops
  <2> QED BY <2>1, <1>2, <1>3
<1> QED BY <1>1, <1>4

(* The walk ends at the last entry that names an untrusted address.        *)
LEMMA WalkFindsLast ==
  ASSUME NEW list \in Seq(Entry), NEW k \in DOMAIN list,
         list[k].addr \notin Trusted,
         \A i \in DOMAIN list : i > k => list[i].bare /\ list[i].addr \in Trusted
  PROVE  Walk(list) = list[k]
<1> DEFINE stops == {i \in DOMAIN list : ~list[i].bare \/ list[i].addr \notin Trusted}
<1>1. k \in stops
  OBVIOUS
<1>2. \A i \in stops : i \in Nat /\ i <= k
  OBVIOUS
<1>3. Walk(list) = IF stops = {} THEN Refused ELSE list[CHOOSE i \in stops : \A j \in stops : j <= i]
  BY DEF Walk
<1> HIDE DEF stops
<1>4. (CHOOSE i \in stops : \A j \in stops : j <= i) = k
  BY <1>1, <1>2
<1> QED BY <1>1, <1>3, <1>4

(* What ResolveClient answers for a route with an untrusted host.          *)
LEMMA ResolvesRoute ==
  ASSUME TypeOK, EndsWithRoute, NEW u \in DOMAIN route, IsLastUntrusted(u)
  PROVE  ResolveClient.ip = IF Len(xff) > MaxEntries THEN Peer ELSE route[u]
<1>1. CASE Len(xff) > MaxEntries
  <2>1. Bounded = <<Refused>>
    BY <1>1 DEF Bounded
  <2> QED BY <1>1, <2>1, WalkRefused DEF ResolveClient
<1>2. CASE ~(Len(xff) > MaxEntries) /\ u = Len(route)
  <2>1. Peer = route[u] /\ Peer \notin Trusted
    BY <1>2 DEF Peer, IsLastUntrusted
  <2> QED BY <1>2, <2>1 DEF ResolveClient
<1>3. CASE ~(Len(xff) > MaxEntries) /\ u # Len(route)
  <2> DEFINE k == Place(u)
  <2>1. u \in 1..(Len(route) - 1) /\ Len(route) \in Nat /\ Len(xff) \in Nat
    BY <1>3 DEF TypeOK
  <2>2. k \in DOMAIN xff /\ xff[k] = Appended(route[u])
    <3>1. /\ Len(route) - u <= Len(xff)
          /\ \A j \in u..(Len(route) - 1) : xff[Place(j)] = Appended(route[j])
      BY DEF EndsWithRoute
    <3>2. u \in u..(Len(route) - 1)
      BY <2>1
    <3>3. k \in 1..Len(xff)
      BY <2>1, <3>1 DEF Place
    <3> QED BY <3>1, <3>2, <3>3 DEF TypeOK
  <2>3. ASSUME NEW i \in DOMAIN xff, i > k
        PROVE  xff[i].bare /\ xff[i].addr \in Trusted
    <3> DEFINE j == i - k + u
    <3>1. j \in u..(Len(route) - 1) /\ j > u /\ Place(j) = i
      <4>1. i \in 1..Len(xff) /\ i > Len(xff) - (Len(route) - 1 - u)
        BY <2>1, <2>3 DEF Place, TypeOK
      <4> QED BY <2>1, <4>1 DEF Place
    <3>2. xff[i] = Appended(route[j])
      BY <3>1 DEF EndsWithRoute
    <3>3. route[j] \in Trusted
      BY <2>1, <3>1 DEF IsLastUntrusted, TypeOK
    <3> QED BY <3>2, <3>3 DEF Appended
  <2>4. xff[k].addr \notin Trusted /\ xff[k].bare /\ xff[k].addr = route[u]
    BY <2>2 DEF Appended, IsLastUntrusted
  <2>5. Walk(xff) = xff[k]
    <3> HIDE DEF k
    <3> QED BY <2>2, <2>3, <2>4, WalkFindsLast DEF TypeOK
  <2>6. Peer \in Trusted
    BY <2>1 DEF Peer, IsLastUntrusted, TypeOK
  <2>7. Bounded = xff
    BY <1>3 DEF Bounded
  <2> QED BY <1>3, <2>4, <2>5, <2>6, <2>7 DEF ResolveClient
<1> QED BY <1>1, <1>2, <1>3

(* A trusted proxy extends the route and the list by one each.             *)
LEMMA ProxyStep ==
  ASSUME IInv, NEW p \in Addr, ProxyForwards(p)
  PROVE  IInv'
<1>1. route \in Seq(Addr) /\ route # <<>> /\ xff \in Seq(Entry) /\ p \in Trusted
  BY DEF IInv, TypeOK, ProxyForwards
<1>2. Len(route) \in Nat \ {0} /\ Len(xff) \in Nat /\ Peer \in Addr
  BY <1>1 DEF Peer
<1>3. /\ route' = Append(route, p) /\ Len(route') = Len(route) + 1
      /\ xff' = Append(xff, Appended(Peer)) /\ Len(xff') = Len(xff) + 1
  BY <1>1 DEF ProxyForwards
<1>4. Appended(Peer) \in Entry
  BY <1>2 DEF Appended, Entry
<1>5. TypeOK'
  BY <1>1, <1>3, <1>4 DEF IInv, TypeOK, ProxyForwards
<1>6. EndsWithRoute'
  <2> SUFFICES ASSUME NEW u \in DOMAIN route', IsLastUntrusted(u)'
               PROVE  /\ Len(route') - u <= Len(xff')
                      /\ \A j \in u..(Len(route') - 1) : xff'[Place(j)'] = Appended(route'[j])
    BY DEF EndsWithRoute, Appended
  <2>1. u \in 1..Len(route)
    BY <1>1, <1>2, <1>3 DEF IsLastUntrusted
  <2>2. IsLastUntrusted(u)
    <3>1. route[u] \notin Trusted
      BY <1>1, <1>3, <2>1 DEF IsLastUntrusted
    <3>2. \A j \in DOMAIN route : j > u => route[j] \in Trusted
      BY <1>1, <1>2, <1>3 DEF IsLastUntrusted
    <3> QED BY <1>1, <2>1, <3>1, <3>2 DEF IsLastUntrusted
  <2>3. Len(route) - u <= Len(xff)
    BY <1>1, <2>1, <2>2 DEF IInv, EndsWithRoute
  <2>4. ASSUME NEW j \in u..(Len(route') - 1)
        PROVE  xff'[Place(j)'] = Appended(route'[j])
    <3>1. route'[j] = route[j]
      BY <1>1, <1>2, <1>3, <2>1
    <3>2. CASE j = Len(route)
      <4>1. Place(j)' = Len(xff) + 1
        BY <1>2, <1>3, <3>2 DEF Place
      <4> QED BY <1>1, <1>2, <1>3, <3>1, <3>2, <4>1 DEF Peer
    <3>3. CASE j # Len(route)
      <4>1. j \in u..(Len(route) - 1)
        BY <1>2, <1>3, <2>1, <3>3
      <4>2. Place(j)' = Place(j) /\ Place(j) \in 1..Len(xff)
        BY <1>2, <1>3, <2>1, <2>3, <4>1 DEF Place
      <4>3. xff[Place(j)] = Appended(route[j])
        BY <1>1, <2>1, <2>2, <4>1 DEF IInv, EndsWithRoute
      <4> QED BY <1>1, <1>3, <3>1, <4>2, <4>3
    <3> QED BY <3>2, <3>3
  <2>5. Len(route') - u <= Len(xff')
    BY <1>2, <1>3, <2>1, <2>3
  <2> QED BY <2>4, <2>5
<1>7. Decided'
  BY DEF Decided, ProxyForwards, Travelling
<1> QED BY <1>5, <1>6, <1>7 DEF IInv

(* After a host outside the trusted set, whatever it sent, no entry is due. *)
LEMMA HostStep ==
  ASSUME IInv, NEW h \in Addr, HostForwards(h)
  PROVE  IInv'
<1>1. route \in Seq(Addr) /\ route # <<>> /\ h \notin Trusted
  BY DEF IInv, TypeOK, HostForwards
<1>2. route' = Append(route, h) /\ Len(route') = Len(route) + 1 /\ Len(route) \in Nat
  BY <1>1 DEF HostForwards
<1>3. xff' \in Seq(Entry)
  BY ChainAssumption DEF HostForwards
<1>4. TypeOK'
  BY <1>1, <1>2, <1>3 DEF IInv, TypeOK, HostForwards
<1>5. EndsWithRoute'
  <2>1. ASSUME NEW u \in DOMAIN route', IsLastUntrusted(u)' PROVE u = Len(route')
    <3>1. Len(route') \in DOMAIN route' /\ route'[Len(route')] \notin Trusted
      BY <1>1, <1>2
    <3> QED BY <1>1, <1>2, <2>1, <3>1 DEF IsLastUntrusted
  <2>2. Len(xff') \in Nat
    BY <1>3
  <2> QED BY <1>2, <2>1, <2>2 DEF EndsWithRoute
<1>6. Decided'
  BY DEF Decided, HostForwards, Travelling
<1> QED BY <1>4, <1>5, <1>6 DEF IInv

(* The entry that stands for a refused list is an entry.                   *)
LEMMA RefusedType == Refused \in Entry
<1>1. Refused \in [addr : {NoAddr}, bare : {FALSE}]
  BY DEF Refused
<1> QED BY <1>1 DEF Entry

(* The walk's answer is one of the list's entries, or none.                *)
LEMMA WalkType ==
  ASSUME NEW list \in Seq(Entry)
  PROVE  Walk(list) \in Entry
<1> DEFINE stops == {i \in DOMAIN list : ~list[i].bare \/ list[i].addr \notin Trusted}
<1>1. Walk(list) = IF stops = {} THEN Refused ELSE list[CHOOSE i \in stops : \A j \in stops : j <= i]
  BY DEF Walk
<1>2. CASE stops = {}
  BY <1>1, <1>2, RefusedType
<1>3. CASE stops # {}
  <2>1. stops \subseteq DOMAIN list /\ stops \subseteq 0..Len(list) /\ Len(list) \in Nat
    OBVIOUS
  <2> HIDE DEF stops
  <2>2. \E k \in stops : \A j \in stops : j <= k
    BY <1>3, <2>1, MaxExists
  <2>3. (CHOOSE i \in stops : \A j \in stops : j <= i) \in DOMAIN list
    BY <2>1, <2>2
  <2> QED BY <1>1, <1>3, <2>3
<1> QED BY <1>2, <1>3

(* The server answers an address in every case.                            *)
LEMMA ResolveStep ==
  ASSUME IInv, Resolve
  PROVE  IInv'
<1>1. route \in Seq(Addr) /\ route # <<>> /\ xff \in Seq(Entry)
  BY DEF IInv, TypeOK
<1>2. route' = route /\ xff' = xff /\ res' = ResolveClient
  BY DEF Resolve
<1>3. Peer \in Addr
  BY <1>1 DEF Peer
<1>4. Bounded \in Seq(Entry)
  <2>1. Refused \in Entry
    BY RefusedType
  <2>2. <<Refused>> \in Seq(Entry)
    BY <2>1
  <2> QED BY <1>1, <2>2 DEF Bounded
<1>5. Walk(Bounded).bare => Walk(Bounded).addr \in Addr
  BY <1>4, WalkType DEF Entry
<1>6. ResolveClient \in [ip : Addr, forwarded : BOOLEAN]
  BY <1>3, <1>5 DEF ResolveClient
<1>7. TypeOK'
  BY <1>1, <1>2, <1>6 DEF TypeOK
<1>8. EndsWithRoute'
  BY <1>2 DEF IInv, EndsWithRoute, IsLastUntrusted, Place, Appended
<1>9. Decided'
  BY <1>2 DEF Decided, ResolveClient, Peer, Bounded, Walk
<1> QED BY <1>7, <1>8, <1>9 DEF IInv

(* Every step of the chain keeps the invariant.                            *)
LEMMA NextIInv == IInv /\ [Next]_vars => IInv'
<1> SUFFICES ASSUME IInv, [Next]_vars PROVE IInv'
  OBVIOUS
<1>1. CASE \E a \in Addr : ProxyForwards(a) \/ HostForwards(a)
  BY <1>1, ProxyStep, HostStep
<1>2. CASE Resolve
  BY <1>2, ResolveStep
<1>3. CASE Resolved \/ UNCHANGED vars
  <2>1. route' = route /\ xff' = xff /\ res' = res
    BY <1>3 DEF Resolved, vars
  <2> QED BY <2>1 DEF IInv, TypeOK, EndsWithRoute, IsLastUntrusted, Place, Appended,
          Decided, ResolveClient, Peer, Bounded, Walk
<1> QED BY <1>1, <1>2, <1>3 DEF Next

(* The inductive invariant.                                                *)
THEOREM Invariant == Spec => []IInv
  BY InitIInv, NextIInv, PTL DEF Spec

(* ResolveClient always answers an address (src/clientip.go:40).           *)
THEOREM TypeCorrect == Spec => []TypeOK
<1>1. IInv => TypeOK
  BY DEF IInv
<1> QED BY <1>1, Invariant, PTL

(* The client resolved is the last untrusted host, or the peer when the    *)
(* list is over its bound (ResolveClient, src/clientip.go:40).             *)
THEOREM ClientFound == Spec => []ClientIsLastUntrusted
<1>1. IInv => ClientIsLastUntrusted
  <2> SUFFICES ASSUME IInv, res # NoResolution, NEW a \in Addr, LastUntrusted(a)
               PROVE  res.ip = IF Len(xff) > MaxEntries THEN Peer ELSE a
    BY DEF ClientIsLastUntrusted
  <2>1. PICK u \in DOMAIN route : IsLastUntrusted(u) /\ route[u] = a
    BY DEF LastUntrusted, IsLastUntrusted
  <2>2. res = ResolveClient
    BY DEF IInv, Decided
  <2> QED BY <2>1, <2>2, ResolvesRoute DEF IInv
<1> QED BY <1>1, Invariant, PTL

-----------------------------------------------------------------------------
(* The gates.                                                              *)

GateTypeOK ==
  /\ host \in Authorities /\ prov \in Provenances
  /\ past \in [agent : {"program", "browser"}, asked : Authorities,
               rewritten : BOOLEAN, stripped : BOOLEAN, honest : BOOLEAN]

(* A request that passed a host, or came from a page, shows it, unless the *)
(* last hop took every trace off.                                          *)
TracesLeft ==
  \/ past.stripped
  \/ xff # <<>> \/ prov # {}
  \/ /\ Len(route) = 1
     /\ past.agent = "program" \/ CanonicalHost(host) \notin LoopbackKey

AskedIsKept == ~past.rewritten => host = past.asked

(* When every hop was honest the list names every host but the last.       *)
ListIsRoute ==
  past.honest =>
    /\ Len(xff) = Len(route) - 1
    /\ \A i \in DOMAIN xff : xff[i] = Appended(route[i])
    /\ prov \subseteq {"secFetchSite"}

GateInv == GateTypeOK /\ TracesLeft /\ AskedIsKept /\ ListIsRoute

-----------------------------------------------------------------------------
(* The chain below the gates.                                              *)

(* Every step of Admission is a step of the chain, or changes nothing there*)
LEMMA GateStepIsChainStep == [GateNext]_gateVars => [Next]_vars
<1> SUFFICES ASSUME [GateNext]_gateVars PROVE [Next]_vars
  OBVIOUS
<1>1. CASE \E a \in Addr : GateProxyForwards(a) \/ GateHostForwards(a)
  BY <1>1 DEF GateProxyForwards, GateHostForwards, Next
<1>2. CASE GateResolve
  BY <1>2 DEF GateResolve, Next
<1>3. CASE UNCHANGED gateVars
  BY <1>3 DEF gateVars
<1> QED BY <1>1, <1>2, <1>3 DEF GateNext

(* Admission implements ProxyChain: what the gates look at besides changes *)
(* nothing of how the client is resolved (ResolveClient,                   *)
(* src/clientip.go:40).                                                    *)
THEOREM GateRefinesChain == GateSpec => Spec
<1>1. GateInit => Init
  BY DEF GateInit
<1> QED BY <1>1, GateStepIsChainStep, PTL DEF GateSpec, Spec

(* So behind the gates too the client is the last untrusted host.          *)
THEOREM GateClientFound == GateSpec => []ClientIsLastUntrusted
BY GateRefinesChain, ClientFound, PTL

-----------------------------------------------------------------------------
(* The invariant of the other fields.                                      *)

(* A request that has passed no host is what its agent sent.               *)
LEMMA InitGateInv == GateInit => GateInv
<1> SUFFICES ASSUME GateInit PROVE GateInv
  OBVIOUS
<1>1. Len(route) = 1 /\ xff \in Lists
  BY DEF GateInit, Init
<1> DEFINE sober == xff = <<>> /\ prov \subseteq {"secFetchSite"}
<1>2. PICK agent \in {"program", "browser"} : past = Past(agent)
  BY DEF GateInit
<1>3. past = [agent |-> agent, asked |-> host, rewritten |-> FALSE,
              stripped |-> FALSE, honest |-> sober]
  BY <1>2, Zenon DEF Past
<1>4. GateTypeOK
  <2>1. host \in Authorities /\ prov \in Provenances /\ sober \in BOOLEAN
    BY DEF GateInit
  <2> HIDE DEF sober
  <2> QED BY <1>3, <2>1 DEF GateTypeOK
<1>5. past.asked = host /\ ~past.stripped /\ past.honest = sober
  <2> HIDE DEF sober
  <2> QED BY <1>3
<1>6. TracesLeft
  <2>1. CASE past = Past("program")
    BY <1>1, <2>1 DEF TracesLeft, Past
  <2>2. CASE past # Past("program")
    BY <1>1, <2>2 DEF GateInit, TracesLeft
  <2> QED BY <2>1, <2>2
<1>7. AskedIsKept
  BY <1>5 DEF AskedIsKept
<1>8. ListIsRoute
  <2> SUFFICES ASSUME past.honest
               PROVE  /\ Len(xff) = Len(route) - 1
                      /\ \A i \in DOMAIN xff : xff[i] = Appended(route[i])
                      /\ prov \subseteq {"secFetchSite"}
    BY DEF ListIsRoute
  <2>1. xff = <<>> /\ prov \subseteq {"secFetchSite"}
    BY <1>5, Zenon
  <2> QED BY <1>1, <2>1
<1> QED BY <1>4, <1>6, <1>7, <1>8 DEF GateInv

(* What a hop appends names the host it had the request from.              *)
LEMMA AppendedList ==
  ASSUME TypeOK, NEW a \in Addr, Len(xff) = Len(route) - 1,
         \A i \in DOMAIN xff : xff[i] = Appended(route[i]),
         xff' = Append(xff, Appended(Peer)), route' = Append(route, a)
  PROVE  /\ Len(xff') = Len(route') - 1
         /\ \A i \in DOMAIN xff' : xff'[i] = Appended(route'[i])
<1>1. route \in Seq(Addr) /\ route # <<>> /\ xff \in Seq(Entry)
  BY DEF TypeOK
<1>2. Len(route) \in Nat \ {0} /\ Peer \in Addr
  BY <1>1 DEF Peer
<1>3. Appended(Peer) \in Entry
  BY <1>2 DEF Appended, Entry
<1>4. Len(xff') = Len(xff) + 1 /\ Len(route') = Len(route) + 1
  BY <1>1, <1>3
<1>5. ASSUME NEW i \in DOMAIN xff' PROVE xff'[i] = Appended(route'[i])
  <2>1. CASE i = Len(xff) + 1
    BY <1>1, <1>2, <1>3, <1>4, <2>1 DEF Peer
  <2>2. CASE i # Len(xff) + 1
    <3>1. i \in DOMAIN xff /\ i \in DOMAIN route
      BY <1>1, <1>3, <1>4, <2>2
    <3>2. xff'[i] = xff[i] /\ route'[i] = route[i]
      BY <1>1, <1>3, <3>1
    <3> QED BY <3>1, <3>2
  <2> QED BY <2>1, <2>2
<1> QED BY <1>4, <1>5

(* A proxy leaves a trace of the one before, and the other fields alone.   *)
LEMMA GateProxyStep ==
  ASSUME TypeOK, GateInv, NEW p \in Addr, GateProxyForwards(p)
  PROVE  GateInv'
<1>1. /\ xff' = Append(xff, Appended(Peer)) /\ route' = Append(route, p)
      /\ prov' = prov /\ host' \in {host, Upstream[p]}
  BY DEF GateProxyForwards, ProxyForwards
<1>2. /\ past' = [past EXCEPT !.rewritten = @ \/ host' # host, !.stripped = FALSE]
      /\ GateTypeOK
  BY DEF GateProxyForwards, GateInv
<1>3. GateTypeOK'
  <2>1. host' \in Authorities
    BY <1>1, <1>2, GateAssumption DEF GateTypeOK
  <2> QED BY <1>1, <1>2, <2>1 DEF GateTypeOK
<1>4. /\ past'.asked = past.asked /\ past'.honest = past.honest
      /\ past'.rewritten = (past.rewritten \/ host' # host)
  BY <1>2 DEF GateTypeOK
<1>5. TracesLeft'
  <2>1. xff' # <<>>
    BY <1>1 DEF TypeOK
  <2> QED BY <2>1 DEF TracesLeft
<1>6. AskedIsKept'
  BY <1>4 DEF GateInv, AskedIsKept
<1>7. ListIsRoute'
  <2> SUFFICES ASSUME past.honest
               PROVE  /\ Len(xff') = Len(route') - 1
                      /\ \A i \in DOMAIN xff' : xff'[i] = Appended(route'[i])
                      /\ prov' \subseteq {"secFetchSite"}
    BY <1>4 DEF ListIsRoute, Appended
  <2>1. /\ Len(xff) = Len(route) - 1 /\ prov \subseteq {"secFetchSite"}
        /\ \A i \in DOMAIN xff : xff[i] = Appended(route[i])
    BY DEF GateInv, ListIsRoute
  <2> QED BY <1>1, <2>1, AppendedList
<1> QED BY <1>3, <1>5, <1>6, <1>7 DEF GateInv

(* Another host may do anything; past notes what it did.                   *)
LEMMA GateHostStep ==
  ASSUME TypeOK, GateInv, NEW h \in Addr, GateHostForwards(h)
  PROVE  GateInv'
<1>1. /\ route' = Append(route, h)
      /\ prov' \in Provenances /\ host' \in Authorities
  BY DEF GateHostForwards, HostForwards
<1>2. /\ past' = [past EXCEPT !.rewritten = @ \/ host' # host,
                              !.stripped = xff' = <<>> /\ prov' = {},
                              !.honest = @ /\ xff' = Append(xff, Appended(Peer)) /\ prov' = prov]
      /\ GateTypeOK
  BY DEF GateHostForwards, GateInv
<1>3. GateTypeOK'
  BY <1>1, <1>2 DEF GateTypeOK
<1>4. /\ past'.asked = past.asked
      /\ past'.rewritten = (past.rewritten \/ host' # host)
      /\ past'.stripped = (xff' = <<>> /\ prov' = {})
      /\ past'.honest = (past.honest /\ xff' = Append(xff, Appended(Peer)) /\ prov' = prov)
  BY <1>2 DEF GateTypeOK
<1>5. TracesLeft'
  BY <1>4 DEF TracesLeft
<1>6. AskedIsKept'
  BY <1>4 DEF GateInv, AskedIsKept
<1>7. ListIsRoute'
  <2> SUFFICES ASSUME past'.honest
               PROVE  /\ Len(xff') = Len(route') - 1
                      /\ \A i \in DOMAIN xff' : xff'[i] = Appended(route'[i])
                      /\ prov' \subseteq {"secFetchSite"}
    BY DEF ListIsRoute, Appended
  <2>1. past.honest /\ xff' = Append(xff, Appended(Peer)) /\ prov' = prov
    BY <1>4
  <2>2. /\ Len(xff) = Len(route) - 1 /\ prov \subseteq {"secFetchSite"}
        /\ \A i \in DOMAIN xff : xff[i] = Appended(route[i])
    BY <2>1 DEF GateInv, ListIsRoute
  <2> QED BY <1>1, <2>1, <2>2, AppendedList
<1> QED BY <1>3, <1>5, <1>6, <1>7 DEF GateInv

(* Every step keeps the invariant.                                         *)
LEMMA NextGateInv == TypeOK /\ GateInv /\ [GateNext]_gateVars => GateInv'
<1> SUFFICES ASSUME TypeOK, GateInv, [GateNext]_gateVars PROVE GateInv'
  OBVIOUS
<1>1. CASE \E a \in Addr : GateProxyForwards(a) \/ GateHostForwards(a)
  BY <1>1, GateProxyStep, GateHostStep
<1>2. CASE GateResolve \/ UNCHANGED gateVars
  <2>1. UNCHANGED <<route, xff, host, prov, past>>
    BY <1>2 DEF GateResolve, Resolve, gateVars, vars
  <2> QED BY <2>1 DEF GateInv, GateTypeOK, TracesLeft, AskedIsKept, ListIsRoute,
          Appended, CanonicalHost, ParsesAsIP, CanonicalBracketed, CanonicalName
<1> QED BY <1>1, <1>2 DEF GateNext

(* The inductive invariant, beside the chain's.                            *)
THEOREM GateInvariant == GateSpec => [](IInv /\ GateInv)
<1>1. IInv => TypeOK
  BY DEF IInv
<1> QED BY <1>1, GateRefinesChain, Invariant, InitGateInv, NextGateInv, PTL DEF GateSpec

-----------------------------------------------------------------------------
(* What the gates admit.                                                   *)

(* LoopbackOnly admits only what a program on the loopback interface sent  *)
(* itself, unless the last hop is there and dropped every trace            *)
(* (LoopbackOnly, src/loopbackonly.go:31).                                 *)
THEOREM LocalGate == GateSpec => []LocalGateIsLocal
<1>1. GateInv => LocalGateIsLocal
  BY DEF GateInv, TracesLeft, LocalGateIsLocal, LoopbackOnlyAdmits,
         LoopbackRequest, ProxiedRequest
<1> QED BY <1>1, GateInvariant, PTL

(* A host CanonicalHost reads is one its argument spells.                  *)
LEMMA CanonicalIsSpelled ==
  ASSUME NEW a \in Authority, CanonicalHost(a) # NoHost
  PROVE  CanonicalHost(a) \in Key /\ Spells(a, CanonicalHost(a))
<1>1. /\ a.key \in Key /\ a.dots \in 0..2
      /\ a.kind \in {"name", "v4", "v6", "other"}
      /\ a.brackets \in {"none", "both", "left", "right"}
      /\ a.port \in {"none", "valid", "invalid"}
  BY DEF Authority
<1>2. CASE ParsesAsIP(a)
  BY <1>1, <1>2 DEF CanonicalHost, ParsesAsIP, Spells
<1>3. CASE ~ParsesAsIP(a) /\ a.brackets \in {"both", "left"}
  BY <1>1, <1>3 DEF CanonicalHost, CanonicalBracketed, Spells
<1>4. CASE ~ParsesAsIP(a) /\ a.brackets \notin {"both", "left"}
  <2> DEFINE rest == [a EXCEPT !.port = "none", !.dots = IF @ > 0 THEN @ - 1 ELSE 0]
  <2>1. /\ rest.kind = a.kind /\ rest.brackets = a.brackets /\ rest.port = "none"
        /\ rest.dots = IF a.dots > 0 THEN a.dots - 1 ELSE 0
    BY <1>1 DEF Authority
  <2> HIDE DEF rest
  <2>2. CanonicalHost(a) =
          IF a.port = "invalid" \/ a.kind = "v6" THEN NoHost
          ELSE IF ParsesAsIP(rest) \/ (rest.kind = "name" /\ rest.brackets = "none" /\ rest.dots = 0)
                 THEN a.key ELSE NoHost
    BY <1>4 DEF CanonicalHost, CanonicalName, rest
  <2>3. /\ CanonicalHost(a) = a.key /\ a.port # "invalid"
        /\ a.kind \in {"name", "v4"} /\ a.brackets = "none" /\ rest.dots = 0
    BY <1>1, <2>1, <2>2 DEF ParsesAsIP
  <2> QED BY <1>1, <2>1, <2>3 DEF Spells
<1> QED BY <1>2, <1>3, <1>4

(* A policy admits only hosts its entries spell, and loopback ones under   *)
(* the exemption, as asked for by the client (HostPolicy.Allows,           *)
(* src/hostallowlist.go:232).                                              *)
THEOREM NamedHosts == GateSpec => []PolicyAdmitsNamed
<1>1. GateInv => PolicyAdmitsNamed
  <2> SUFFICES ASSUME GateInv, ~past.rewritten,
                      NEW entries \in SUBSET Entries, NEW exempt \in BOOLEAN,
                      entries \ {Blank} # {}, Allows(ParseHostList(entries, exempt))
               PROVE  \E k \in Key :
                        /\ Spells(past.asked, k)
                        /\ \/ \E e \in entries \ {Blank} : Spells(e, k)
                           \/ exempt /\ k \in LoopbackKey /\ Peer \in Loopback
    BY DEF PolicyAdmitsNamed
  <2> DEFINE k == CanonicalHost(host)
  <2>1. host \in Authority /\ past.asked = host
    BY GateAssumption DEF GateInv, GateTypeOK, AskedIsKept
  <2>2. \/ k \in {CanonicalHost(e) : e \in entries \ {Blank}} \ {NoHost}
        \/ exempt /\ k \in LoopbackKey /\ Peer \in Loopback
    BY DEF Allows, ParseHostList
  <2>3. k # NoHost
    BY <2>2, GateAssumption
  <2>4. k \in Key /\ Spells(past.asked, k)
    BY <2>1, <2>3, CanonicalIsSpelled
  <2>5. ASSUME NEW e \in entries \ {Blank}, CanonicalHost(e) = k
        PROVE  Spells(e, k)
    <3>1. e \in Authority
      BY GateAssumption
    <3> QED BY <2>3, <2>5, <3>1, CanonicalIsSpelled
  <2> HIDE DEF k
  <2> QED BY <2>2, <2>4, <2>5
<1> QED BY <1>1, GateInvariant, PTL

(* A proxy missing from the trusted set is reported when, and only when, it*)
(* hides a public host (IgnoredPublic, src/clientip.go:27).                *)
THEOREM MissingProxy == GateSpec => []MissingProxyIsReported
<1>1. IInv /\ GateInv => MissingProxyIsReported
  <2> SUFFICES ASSUME TypeOK, Decided, ListIsRoute, Received, past.honest,
                      Len(xff) <= MaxEntries
               PROVE  /\ IgnoredPublic => UntrustedForwarding /\ res.ip = Peer
                      /\ IgnoredPublic <=> /\ Peer \notin Trusted
                                          /\ \E i \in 1..(Len(route) - 1) : route[i] \in Public
    BY DEF IInv, GateInv, MissingProxyIsReported
  <2>1. Len(xff) \in Nat /\ Len(route) \in Nat
    BY DEF TypeOK
  <2>2. Bounded = xff /\ "forwarded" \notin prov
    BY <2>1, ChainAssumption DEF Bounded, ListIsRoute
  <2>3. /\ DOMAIN xff = 1..(Len(route) - 1)
        /\ \A i \in DOMAIN xff : xff[i].addr = route[i]
    BY <2>1 DEF TypeOK, ListIsRoute, Appended
  <2>4. IgnoredPublic <=> /\ Peer \notin Trusted
                          /\ \E i \in 1..(Len(route) - 1) : route[i] \in Public
    BY <2>2, <2>3 DEF IgnoredPublic
  <2>5. ASSUME IgnoredPublic PROVE UntrustedForwarding /\ res.ip = Peer
    <3>1. Peer \notin Trusted /\ xff # <<>>
      BY <2>2, <2>5, <2>3 DEF IgnoredPublic
    <3>2. res = [ip |-> Peer, forwarded |-> FALSE]
      BY <3>1 DEF Decided, Received, ResolveClient
    <3> QED BY <2>2, <3>1, <3>2 DEF UntrustedForwarding
  <2> QED BY <2>4, <2>5
<1> QED BY <1>1, GateInvariant, PTL
=============================================================================
