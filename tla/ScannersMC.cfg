\* Three elements of each list syntax and one empty one over all splits into
\* lines; pairs, elements and bytes past each cap.
CONSTANTS
  MaxElems = 3
  MaxEmpty = 1
  MaxPairs = 2
  MaxFwdPairs = 3
  MaxElements = 3
  MaxBytes = 5
  MaxBody = 6
  UnwrapWalkLimit = 2
SPECIFICATION ScanSpec
INVARIANTS ReadsWhatWasSent ForwardedNamesItsNode HashesWhatIsInline BodyIsOneWholeValue
