SPECIFICATION FairLockedSpec
CONSTANTS
  Processes = {p1, p2}
  NoProcess = none
  Images = {a, b}
  Absent = absent
  Broken = broken
  MaxSetups = 3
INVARIANT RecoversFromOneAccident
PROPERTY KeepsBaseline
PROPERTY SetupTellsTruth
PROPERTY CallsReturn
