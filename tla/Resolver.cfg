SPECIFICATION FairSpec
CONSTANTS
  d1 = d1
  d2 = d2
  h1 = h1
  Dialers = {d1, d2}
  Hosts = {h1}
  Capacity = 1
  TTL = 1
  Servers <- MCServers
  MaxClock = 1
  Nobody = Nobody
  Deadlines = TRUE
  Faults = TRUE
INVARIANT TypeOK
INVARIANT OneQueryPerHost
INVARIANT NoNilConn
INVARIANT StaleFromInFlight
PROPERTY EveryDialEnds
PROPERTY ImplementsSingleFlight
\* Each dialer dials once.
CHECK_DEADLOCK FALSE
