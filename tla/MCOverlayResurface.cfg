SPECIFICATION Spec
CONSTANTS
  Paths <- FlatPaths
  Layers <- FlatLayers
  Contents = {"", "old", "new", "link"}
  Payloads = {"new"}
  Packed = "packed"
  Empty = ""
  LinkTarget = "link"
  Inodes = {i1, i2}
  HostFaults = {}
SYMMETRY InodeSymmetry
VIEW WithoutResult
PROPERTIES
  NothingResurfaces
