SPECIFICATION Spec
CONSTANTS
  MaxChunks = 2
  Window = 1
INVARIANT TypeOK
INVARIANT LastWordArrives
PROPERTY ImplementsStreams
PROPERTY Independent
PROPERTY WindsDown
\* The tunnel ends.
CHECK_DEADLOCK FALSE
