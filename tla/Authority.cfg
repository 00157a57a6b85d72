SPECIFICATION FairSpec
CONSTANTS
  c1 = c1
  c2 = c2
  c3 = c3
  n1 = n1
  n2 = n2
  Clients = {c1, c2, c3}
  Names = {n1, n2}
  Capacity = 1
  TTL = 1
  MaxClock = 1
  Nobody = Nobody
  NoCert = NoCert
  Faults = TRUE
  Panics = TRUE
  Clears = TRUE
INVARIANT TypeOK
INVARIANT OneSigner
INVARIANT NoNeedlessSigning
INVARIANT NilOnlyAfterPanic
PROPERTY HandshakeEnds
PROPERTY ImplementsSingleFlight
\* Each client makes one handshake.
CHECK_DEADLOCK FALSE
