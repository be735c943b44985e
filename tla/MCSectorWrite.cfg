SPECIFICATION FairSpec
CONSTANTS
  Units = {own, twin}
  Own = own
  NoUnit = none
  Sectors <- MCSectors
  Recovery <- MCRecovery
  Programmable <- MCProgrammable
  Chunks = 2
  Bytes <- MCBytes
  Erased = 2
  Attempts = 3
  InitialFlash <- MCInitialFlash
PROPERTY ImplementsPromise
PROPERTY NoBlindRetry
PROPERTY CallReturns
