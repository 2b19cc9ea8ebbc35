\* A start that fails may be the last, and the parent of a daemon exits.
CHECK_DEADLOCK FALSE
SPECIFICATION Spec
CONSTANTS
  Prefix <- MCPrefix
  Url <- MCUrl
  MaxRoutes = 3
  MaxStarts = 2
INVARIANTS
  TypeOK
  StartedAsTold
  Routed
  ArgumentsAsWritten
