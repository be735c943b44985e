SPECIFICATION Spec
CONSTANTS
  Addressable = {7, 8, 9, 10}
  GlobalFirst = 8
  GlobalLast = 10
  PageData = 11
  SectorSize = 13
  MaxInstructions = 53
  Programmable = {2, 3}
  Targets <- MCTargets
  Wheels = {"WHEEL_UP"}
  Bindings <- MCBindings
  Depth <- MCDepth
  Controls <- MCControls
  Configs <- MCConfigs
  Goldens <- MCGoldens
  Foreign <- MCForeign
INVARIANT PlaysAsCompiled
INVARIANT NothingHeld
INVARIANT VerdictIsTrue
INVARIANT StoreIsAccounted
INVARIANT HonestRefusal
INVARIANT RoutesAreOwn
INVARIANT OnlyKnownRefusals
INVARIANT SchemaIsEnough
CHECK_DEADLOCK FALSE
