\* Routes of up to three hosts; the list bound of two is within their reach.
CONSTANTS
  lan = lan
  pub = pub
  lo1 = lo1
  lo2 = lo2
  app = app
  evil = evil
  localhost = localhost
  NoAddr = NoAddr
  NoHost = NoHost
  Blank = Blank
  Addr <- MCAddr
  Trusted <- MCTrusted
  Lists <- MCLists
  Loopback <- MCLoopback
  Public <- MCPublic
  Key <- MCKey
  LoopbackKey <- MCLoopbackKey
  Authorities <- MCAuthorities
  Provenances <- MCProvenances
  Upstream <- MCUpstream
  Entries <- MCEntries
  MaxEntries = 2
  MaxRoute = 3
SPECIFICATION GateSpec
INVARIANTS TypeOK ClientIsLastUntrusted LocalGateIsLocal PolicyAdmitsNamed MissingProxyIsReported
