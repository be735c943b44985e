SPECIFICATION FairSpec
CONSTANTS
  a = a
  b = b
  c = c
  Dir = 0
  Recovery = {1}
  MacroOrder <- MCMacroOrder
  ProfileOrder <- MCProfileOrder
  Optional = {3}
  Generations = {a, b, c}
  Torn = torn
  NoCheckpoint = noCheckpoint
  Safe = 1
  Profiles = {1, 2}
  Baseline <- MCBaseline
  InitialMice <- MCInitialMice
  Plans <- MCPlans
  MaxOperations = 2
INVARIANT EnabledProfilesUsable
INVARIANT BackupIsRestorePoint
INVARIANT CancelledWroteNothing
INVARIANT OnlyReviewedWritten
INVARIANT AtMostOneStrayWrite
INVARIANT ReportIsTrue
PROPERTY OperationEnds
