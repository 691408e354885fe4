\* One connection, silent, late or with a handler that may hang for ever.
CONSTANTS
  c1 = c1
  c2 = c2
  Conn <- OneConn
  FatalErrs = {"fatal"}
  LnErrs = {}
SPECIFICATION FairSpec
PROPERTIES CancelledRunReturns SilentPeersDoNotHold SilentIsClosed KeepsPromise
