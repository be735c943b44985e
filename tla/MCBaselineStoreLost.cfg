SPECIFICATION FairSpec
CONSTANTS
  Processes = {p1, p2}
  NoProcess = none
  Images = {a, b}
  Absent = absent
  Broken = broken
  MaxSetups = 2
PROPERTY BaselineNotLost
