SPECIFICATION FairSpec
CONSTANTS
  MaxNotices = 2
  Chunk = 2
  Sizes = {2, 3, 4, 5}
  Oob = 1
  Last = 3
  MaxAsks = 2
INVARIANT PagesAreTrue
PROPERTY ReadingEnds
CHECK_DEADLOCK FALSE
