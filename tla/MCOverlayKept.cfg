SPECIFICATION TameSpec
CONSTANTS
  Paths <- KeptPaths
  Layers <- KeptLayers
  Contents = {"", "old", "new", "link"}
  Payloads = {}
  Packed = "packed"
  Empty = ""
  LinkTarget = "link"
  Inodes = {i1}
  HostFaults = {"kept", "unhide", "xdev", "kill", "relaunch"}
VIEW WithoutResult

  
  
PROPERTIES
  KeptStaysHidden
  
  DeletionsAreTrue
  SuccessIsPlain
