SPECIFICATION LayoutSpec
CONSTANTS
  Rams <- MCRams
  Requests <- MCRequests
  DataSize = 4
  DataAlign = 2
  MailboxSize = 2
  MailboxAlign = 4
  CodeSizes <- MCCodeSizes
  CodeAlign = 2
  AccessSizes <- MCAccessSizes
  AddressLimit = 32
  U64 = 40
  Encodes = 2
INVARIANTS
  SectionsAreSound
  AccessesHitData
  PlaceIsFirstFit
  MailboxesAreExported
  EncodingIsStable
CHECK_DEADLOCK FALSE
