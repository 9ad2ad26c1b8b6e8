SPECIFICATION TameSpec
CONSTANTS
  Paths <- DeepPaths
  Layers <- DeepLayers
  Contents = {"", "old", "new", "link"}
  Payloads = {"new"}
  Packed = "packed"
  Empty = ""
  LinkTarget = "link"
  Inodes = {i1}
  HostFaults = {"copy", "unlink"}
VIEW WithoutResult
INVARIANTS
  MasksMirrorMarkers
  ListingExact
  WhiteoutHasNoCopy
PROPERTIES
  ImplementsPlainTree
