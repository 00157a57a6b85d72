SPECIFICATION FairSpec
CONSTANTS
  Contents <- MCContents
  Fingerprints = {"A", "B"}
  Nameservers = {"system", "dns"}
  BadServers = "bad"
  SystemDNS = "system"
  NoTable = "none"
  FillKinds = {}
  MaxSaves = 2
  MaxClock = 2
  EarlySave = FALSE
  SameStamp = FALSE
  ReadFaults = FALSE
PROPERTY Converges
PROPERTY HangupServed
\* main ends the process when its first reload fails, and an idle proxy waits.
CHECK_DEADLOCK FALSE
