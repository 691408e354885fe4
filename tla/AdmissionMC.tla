---------------------------- MODULE AdmissionMC ----------------------------
(* Admission with a trusted proxy outside and one on the loopback          *)
(* interface, another process there, and a public host.                    *)
EXTENDS Admission

CONSTANTS lan, pub, lo1, lo2, app, evil, localhost
MCAddr == {lan, pub, lo1, lo2}
MCTrusted == {lan, lo1}
MCLoopback == {lo1, lo2}
MCPublic == {pub}
MCLists ==
  {<<>>, <<Appended(pub), Appended(lan)>>, <<Appended(lan), Appended(pub)>>, <<Refused, Appended(lo1)>>}
    \cup {<<Appended(a)>> : a \in MCAddr}
MCProvenances == {{}} \cup {{f} : f \in Provenance}
MCKey == {app, evil, localhost}
MCLoopbackKey == {localhost}

Named(kind, key, brackets, dots, port) ==
  [kind |-> kind, key |-> key, brackets |-> brackets, dots |-> dots, port |-> port]
MCEvil == Named("name", evil, "none", 0, "none")
MCLocal == Named("v6", localhost, "both", 0, "valid")
MCAuthorities ==
  {MCEvil, MCLocal,
   Named("v6", localhost, "none", 0, "valid"),
   Named("name", app, "none", 1, "valid"),
   Named("name", app, "both", 0, "none"), Named("name", app, "none", 0, "invalid")}
MCUpstream == [a \in MCAddr |-> IF a \in MCLoopback THEN MCLocal ELSE Named("name", app, "none", 1, "valid")]
MCEntries ==
  {Blank, Named("name", app, "none", 1, "valid"), Named("name", app, "both", 0, "none"), MCLocal}
=============================================================================
