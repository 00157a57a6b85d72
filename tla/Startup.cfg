SPECIFICATION Spec
CONSTANTS
  p1 = p1
  p2 = p2
  Processes = {p1, p2}
  Options <- MCOptions
  MaxEdits = 1
  MaxStarts = 2
PROPERTY KeepsUserFile
PROPERTY StartServes
\* Processes fail, and start no more often than the bound.
CHECK_DEADLOCK FALSE
