\* Every hook configuration, a fatal accept error, a listener close error, the
\* grace and the 5 s rule at any moment, and a caller stopping the server.
CONSTANTS
  c1 = c1
  c2 = c2
  Conn <- MCConn
  FatalErrs = {"fatal"}
  LnErrs = {"lnErr"}
SPECIFICATION Spec
SYMMETRY MCSymmetry
INVARIANTS TypeOK NoSilentEscapes SweepSparesServed CleanReturnIsDrained ServeEndsBeforeRun
PROPERTIES NoNilMapWrite
