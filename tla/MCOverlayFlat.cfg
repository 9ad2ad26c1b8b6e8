SPECIFICATION Spec
CONSTANTS
  Paths <- FlatPaths
  Layers <- FlatLayers
  Contents = {"", "old", "new", "link"}
  Payloads = {}
  Packed = "packed"
  Empty = ""
  LinkTarget = "link"
  Inodes = {i1, i2}
  HostFaults = {"parent", "open", "mkdir", "symlink", "link", "rename", "unlink", "copy", "marker", "kill"}
SYMMETRY InodeSymmetry
VIEW WithoutResult
INVARIANTS
  TypeOK
  HostTreeOK
  
PROPERTIES
  FailureLosesNothing
  
