CONSTANTS
  Targets = {"a", "b", "c"}
  MaxLayers = 4
  Specs <- ShortSpecs
  MaxFaults = 1
  PathOf <- TargetPaths
  LowerOf <- LowerCase
SPECIFICATION Spec
INVARIANTS TypeOK MasksExactlyBases  OverlaysStayOut FoundInAnyCase
CHECK_DEADLOCK FALSE
