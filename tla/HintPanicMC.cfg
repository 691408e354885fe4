\* A handler that sends a 103 first: the answer to a panic.
SPECIFICATION Spec
CONSTANTS
  MinBytes = 2
  MaxWrite = 2
  MaxOps = 2
  Statuses <- HintStatuses
  Hooks <- OneHooks
PROPERTIES
  PanicAnswers500
