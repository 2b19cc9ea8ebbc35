\* A stream ends.
CHECK_DEADLOCK FALSE
SPECIFICATION StreamSpec
CONSTANTS
  Width = 64
  MaxHeader = 44
  MaxUri = 11
  MaxUpload = 5
  Input <- MCInput
INVARIANTS
  TypeOK
  Asserts
  MarkFits
  CutsDoNotMatter
  RoundTrip
  LengthAsWritten
PROPERTIES
  AllDelivered
