------------------------------ MODULE Admission ------------------------------
(***************************************************************************)
(* The gates a request meets at the end of a chain of hosts: LoopbackOnly  *)
(* (src/loopbackonly.go), HostPolicy (src/hostallowlist.go), and what      *)
(* ResolveClient reports about headers it did not use.  ProxyChain carries *)
(* the route and X-Forwarded-For; here every hop also passes on, rewrites  *)
(* or drops the Host and the other fields that show where a request was.   *)
(***************************************************************************)
EXTENDS ProxyChain

CONSTANTS
  Loopback,      \* the addresses of the loopback interface
  Public,        \* addresses isPublic accepts
  Key,           \* canonical hosts
  LoopbackKey,   \* "localhost" and the loopback addresses among them
  NoHost,        \* CanonicalHost's ""
  Authorities,   \* the Host values that occur, records of Authority
  Provenances,   \* the sets of other provenance fields that occur
  Upstream,      \* the Host a proxy at this address sends when it rewrites it
  Entries,       \* what an operator may put in the allowlist
  Blank          \* an entry of white space

(* A Host value by what CanonicalHost tells apart: what stands where the   *)
(* name belongs ("other": not a name, not an address), the key it spells,  *)
(* the brackets around it, the dots after it and the port.                 *)
Authority == [kind : {"name", "v4", "v6", "other"}, key : Key,
              brackets : {"none", "both", "left", "right"}, dots : 0..2,
              port : {"none", "valid", "invalid"}]

(* Fields that show a request was elsewhere, by what the code does with    *)
(* them: a Forwarded or X-Real-Ip naming a public address, one of the      *)
(* X-Forwarded-Host kind, and Sec-Fetch-Site or Origin, from a browser.    *)
Provenance == {"forwarded", "xForwardedHost", "secFetchSite"}

ASSUME GateAssumption ==
  /\ Loopback \subseteq Addr /\ Public \subseteq Addr
  /\ LoopbackKey \subseteq Key /\ NoHost \notin Key
  /\ Authorities \subseteq Authority /\ Provenances \subseteq SUBSET Provenance
  /\ Upstream \in [Addr -> Authorities]
  /\ Blank \notin Authorities /\ Entries \subseteq Authorities \cup {Blank}

VARIABLES
  host,          \* r.Host as the last host sent it
  prov,          \* the other provenance fields, a subset of Provenance
  past           \* history: who asked for what, and what hops did to it

gateVars == <<vars, host, prov, past>>

-----------------------------------------------------------------------------
(* CanonicalHost and ParseHostList.                                        *)

(* net.ParseIP of the whole of what is left of a value.                    *)
ParsesAsIP(a) == a.kind \in {"v4", "v6"} /\ a.brackets = "none" /\ a.dots = 0 /\ a.port = "none"

CanonicalBracketed(a) ==
  IF a.brackets = "both" /\ a.port # "invalid" /\ a.kind = "v6" /\ a.dots = 0
    THEN a.key ELSE NoHost

(* An IPv6 address outside brackets has a colon, so the cut at the first   *)
(* one leaves no valid port; a bracket is no hostname byte.                *)
CanonicalName(a) ==
  LET rest == [a EXCEPT !.port = "none", !.dots = IF @ > 0 THEN @ - 1 ELSE 0]
  IN IF a.port = "invalid" \/ a.kind = "v6" THEN NoHost
     ELSE IF ParsesAsIP(rest) \/ (rest.kind = "name" /\ rest.brackets = "none" /\ rest.dots = 0)
            THEN a.key ELSE NoHost

CanonicalHost(a) ==
  IF ParsesAsIP(a) THEN a.key
  ELSE IF a.brackets \in {"both", "left"} THEN CanonicalBracketed(a)
  ELSE CanonicalName(a)

ParseHostList(entries, exempt) ==
  [active |-> entries \ {Blank} # {}, loopbackExempt |-> exempt,
   allowed |-> {CanonicalHost(e) : e \in entries \ {Blank}} \ {NoHost}]

-----------------------------------------------------------------------------
(* The gates' answers to the request as the server received it.            *)

LoopbackPeerRequest == Peer \in Loopback         \* mutant
LoopbackRequest == Peer \in Loopback /\ CanonicalHost(host) \in LoopbackKey

ProxiedRequest == xff # <<>> \/ prov # {}

LoopbackOnlyAdmits == LoopbackRequest /\ ~ProxiedRequest

AllowsHostOrPeer(p) ==                           \* mutant
  \/ ~p.active
  \/ CanonicalHost(host) \in p.allowed
  \/ p.loopbackExempt /\ (CanonicalHost(host) \in LoopbackKey \/ Peer \in Loopback)
Allows(p) ==
  \/ ~p.active
  \/ CanonicalHost(host) \in p.allowed
  \/ p.loopbackExempt /\ CanonicalHost(host) \in LoopbackKey /\ Peer \in Loopback

(* ClientResolution.UntrustedForwarding and IgnoredPublic.                 *)
UntrustedForwarding == Peer \notin Trusted /\ (Bounded # <<>> \/ "forwarded" \in prov)
IgnoredPublicLast ==                             \* mutant
  /\ Peer \notin Trusted
  /\ Bounded # <<>> /\ Bounded[Len(Bounded)].addr \in Public
IgnoredPublic ==
  /\ Peer \notin Trusted
  /\ \/ \E i \in DOMAIN Bounded : Bounded[i].addr \in Public
     \/ "forwarded" \in prov

-----------------------------------------------------------------------------
(* The chain.  agent asked for `asked`; rewritten: a hop changed the Host; *)
(* stripped: the last hop sent no trace of those before it; honest: every  *)
(* hop appended the peer it saw to what it had received.                   *)
Past(agent) ==
  [agent |-> agent, asked |-> host, rewritten |-> FALSE, stripped |-> FALSE,
   honest |-> xff = <<>> /\ prov \subseteq {"secFetchSite"}]

(* A program sends any Host and any fields.  A browser names the host of   *)
(* the page's URL, whatever address that resolves to, and sends            *)
(* Sec-Fetch-Site to every loopback URL, others only over TLS.             *)
GateInit ==
  /\ Init
  /\ host \in Authorities /\ prov \in Provenances
  /\ \/ past = Past("program")
     \/ /\ xff = <<>> /\ prov \subseteq {"secFetchSite"}
        /\ CanonicalHost(host) # NoHost
        /\ CanonicalHost(host) \in LoopbackKey => prov # {}
        /\ past = Past("browser")

(* A trusted proxy keeps the Host or sends its upstream's name.            *)
GateProxyForwards(p) ==
  /\ ProxyForwards(p)
  /\ host' \in {host, Upstream[p]}
  /\ past' = [past EXCEPT !.rewritten = @ \/ host' # host, !.stripped = FALSE]
  /\ UNCHANGED prov

GateHostForwards(h) ==
  /\ HostForwards(h)
  /\ host' \in Authorities /\ prov' \in Provenances
  /\ past' = [past EXCEPT !.rewritten = @ \/ host' # host,
                          !.stripped = xff' = <<>> /\ prov' = {},
                          !.honest = @ /\ xff' = Append(xff, Appended(Peer)) /\ prov' = prov]

GateResolve == Resolve /\ UNCHANGED <<host, prov, past>>

GateNext ==
  \/ \E a \in Addr : GateProxyForwards(a) \/ GateHostForwards(a)
  \/ GateResolve
  \/ Resolved /\ UNCHANGED gateVars

GateSpec == GateInit /\ [][GateNext]_gateVars

-----------------------------------------------------------------------------
Received == res # NoResolution

(* LoopbackOnly admits only what a program on the loopback interface sent  *)
(* itself, never a page in a browser or a request a proxy passed on, unless*)
(* the last hop is on that interface and dropped every trace of the others,*)
(* the ceiling its comment states (src/loopbackonly.go:31).                *)
LocalGateIsLocal ==
  Received /\ LoopbackOnlyAdmits =>
    /\ Peer \in Loopback
    /\ past.stripped \/ (Len(route) = 1 /\ past.agent = "program")

(* The shapes CanonicalHost's comment lists for a host k.                  *)
Spells(a, k) ==
  /\ a.key = k /\ a.port # "invalid"
  /\ \/ a.kind \in {"name", "v4"} /\ a.brackets = "none" /\ a.dots <= 1
     \/ a.kind = "v6" /\ a.dots = 0 /\ (a.brackets = "both" \/ (a.brackets = "none" /\ a.port = "none"))

(* A policy with any entry that is not blank admits a request only if the  *)
(* client asked for a host some entry spells, or came from the loopback    *)
(* interface for a loopback host under the exemption; a policy of entries  *)
(* that spell no host admits no other.  A hop that rewrote the Host answers*)
(* for what it wrote (ParseHostList and Allows, src/hostallowlist.go:232). *)
PolicyAdmitsNamed ==
  Received /\ ~past.rewritten =>
    \A entries \in SUBSET Entries, exempt \in BOOLEAN :
      /\ entries \ {Blank} # {}
      /\ Allows(ParseHostList(entries, exempt))
      => \E k \in Key :
           /\ Spells(past.asked, k)
           /\ \/ \E e \in entries \ {Blank} : Spells(e, k)
              \/ exempt /\ k \in LoopbackKey /\ Peer \in Loopback

(* When every hop appended what it saw but the outermost proxy is missing  *)
(* from the trusted set, a public client is reported as ignored, not       *)
(* silently replaced by the proxy; and only then, if every hop was honest  *)
(* (IgnoredPublic, src/clientip.go:27).                                    *)
MissingProxyIsReported ==
  Received /\ past.honest /\ Len(xff) <= MaxEntries =>
    /\ IgnoredPublic => UntrustedForwarding /\ res.ip = Peer
    /\ IgnoredPublic <=> Peer \notin Trusted /\ \E i \in 1..(Len(route) - 1) : route[i] \in Public
=============================================================================
