\* Three options in any order; the default cap is six bytes.
CONSTANTS
  Nil = Nil
  None = None
  NoPattern = NoPattern
  LogOptions <- MCOptions
  MaxOptions = 3
  Targets <- MCTargets
  Methods = {"HEAD", "PURGE", "UPDATEREDIRECTREFERENCES"}
  StandardMethods = {"HEAD"}
  OverlongMethods = {"UPDATEREDIRECTREFERENCES"}
  InboundIds = {"id1", "malformed"}
  ValidIds = {"id1", "minted"}
  Minted = "minted"
  Bytes <- MCBytes
  Credential = {"k"}
  Transformed <- MCTransformed
  DefaultMaxLoggedPath = 6
SPECIFICATION LineSpec
INVARIANTS CredentialStaysOut RecordIsBounded
