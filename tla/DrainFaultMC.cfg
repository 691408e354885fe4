\* A serve error with a deadline of its own under any end of ctx.
CONSTANTS
  FatalErrs = {"fatal", "ownDeadline"}
  LnErrs = {"lnErr"}
  Ends = {"canceled", "deadline", "cause"}
  ChainOf <- MCChainOf
SPECIFICATION DrainSpec
PROPERTIES FaultIsNotAStop
