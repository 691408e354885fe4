\* A token takes two and a half seconds: hints of 1, 2 and 3 s occur, and the
\* window is long enough for the bucket to run dry and fill up again.
CONSTANTS
  a = a
  b = b
  Client <- MCClient
  Burst = 2
  Interval = 5
  Sec = 2
  MaxTime = 12
  MaxForward = 14
SPECIFICATION Spec
SYMMETRY MCSymmetry
INVARIANTS TypeOK AggregateBound HintSuffices HintIsTight
