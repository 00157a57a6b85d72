SPECIFICATION FairSpec
CONSTANTS
  c1 = c1
  c2 = c2
  Conns = {c1, c2}
  MaxDepth = 2
  MaxSignals = 2
  NoConn = NoConn
  NoSignal = NoSignal
INVARIANT TypeOK
INVARIANT DrainCoversServed
INVARIANT NotClosedInUse
INVARIANT NoLeak
PROPERTY ExitTaken
\* The process ends when main returns.
CHECK_DEADLOCK FALSE
