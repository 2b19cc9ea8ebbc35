SPECIFICATION Spec
CONSTANTS
  r = r
  c1 = c1
  Originals <- MCOriginals
  Copies <- MCCopies
  Byte <- MCByte
  Fragments <- MCFragments
  Existing <- MCExisting
  MaxBytes = 4
  MaxInt = 3
  MaxBufferSize = 2
  ShortSendfile = FALSE
INVARIANTS
  TypeOK
  NoLeftovers
  AnnouncedIsSent
PROPERTIES
  KeepsPromise
