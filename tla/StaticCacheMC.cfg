\* Both cache policies.
CONSTANTS
  c1 = c1
  c2 = c2
  old = old
  new = new
  NoFile = NoFile
  None = None
  Client <- MCClient
  Decodes <- MCDecodes
  AcceptEncoding <- MCAcceptEncoding
  Content <- MCContent
  Shrinks <- MCShrinks
SPECIFICATION Spec
INVARIANTS BodyIsOneAsset NoCacheIsCurrent
