SPECIFICATION Spec
CONSTANTS
  Contents <- MCContents
  Fingerprints = {"A", "B"}
  Nameservers = {"system", "dns"}
  BadServers = "bad"
  SystemDNS = "system"
  NoTable = "none"
  FillKinds = {"idle", "dns"}
  MaxSaves = 1
  MaxClock = 0
  EarlySave = TRUE
  SameStamp = TRUE
  ReadFaults = TRUE
INVARIANT TypeOK
INVARIANT Coherent
INVARIANT StaleOnlyInFlight
PROPERTY NoRollback
PROPERTY KeepsUnchanged
\* main ends the process when its first reload fails, and an idle proxy waits.
CHECK_DEADLOCK FALSE
