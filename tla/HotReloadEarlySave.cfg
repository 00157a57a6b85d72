SPECIFICATION FairSpec
CONSTANTS
  Contents <- MCTwoContents
  Fingerprints = {"A", "B"}
  Nameservers = {"system", "dns"}
  BadServers = "bad"
  SystemDNS = "system"
  NoTable = "none"
  FillKinds = {}
  MaxSaves = 1
  MaxClock = 1
  EarlySave = TRUE
  SameStamp = FALSE
  ReadFaults = FALSE
PROPERTY Converges
\* main ends the process when its first reload fails, and an idle proxy waits.
CHECK_DEADLOCK FALSE
