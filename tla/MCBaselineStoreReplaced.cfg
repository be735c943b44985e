SPECIFICATION FairSpec
CONSTANTS
  Processes = {p1, p2}
  NoProcess = none
  Images = {a, b}
  Absent = absent
  Broken = broken
  MaxSetups = 3
PROPERTY ReplacedOnRequest
