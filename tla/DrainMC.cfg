\* One stream, one worker, one probe at a time.
CONSTANTS
  FatalErrs = {"fatal"}
  LnErrs = {"lnErr"}
  Ends = {"canceled", "deadline", "cause"}
  ChainOf <- MCChainOf
SPECIFICATION DrainSpec
INVARIANTS FinishedIsReported
PROPERTIES TrafficStops StopNeedsNoGrace
