CONSTANTS
  Requests = {"probe", "read", "switch", "persistent"}
  MaxOps = 1
SPECIFICATION Spec
PROPERTIES ExecutionEnds CancelledPreparationEnds
