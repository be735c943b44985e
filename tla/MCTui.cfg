CONSTANTS
  Requests = {"probe", "persistent"}
  MaxOps = 2
INIT Init
NEXT Next
INVARIANTS WritesAreShown HonestTerminal AckIsKept OneForegroundOperation
  ServesTheScreen NothingHidden QuitLeavesNoExecution
