SPECIFICATION FairSpec
CONSTANTS
  c1 = c1
  c2 = c2
  Conns = {c1}
  MaxDepth = 1
  MaxSignals = 2
  NoConn = NoConn
  NoSignal = NoSignal
PROPERTY ExitSignalExits
\* The process ends when main returns.
CHECK_DEADLOCK FALSE
