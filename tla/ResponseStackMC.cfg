\* Four calls of any kind, an early hint among them, with log hooks of every kind.
SPECIFICATION Spec
CONSTANTS
  MinBytes = 2
  MaxWrite = 2
  MaxOps = 4
  Statuses <- AllStatuses
  Hooks <- MCHooks
INVARIANTS
  TypeOK
  WireIsPrefix
  StackIsTransparent
  PanicNeverCorrupts
  CompressorReturned
  OneLinePerRequest
PROPERTIES
  PanicAnswersFinal500
