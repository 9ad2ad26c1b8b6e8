SPECIFICATION Spec
CONSTANTS
  Byte = {0, 1}
  Anchor = 2
  HashMod = 4
  RKR = 3
  BlockSize = 2
  Versions <- Short
  Cuts = {2}
  MaxChain = 2
CHECK_DEADLOCK FALSE
INVARIANTS
  TypeOK
  HashIsOfWindow
  ScanCovers
  NeverRejected
  ReadsNewest
  DamageIsSeen
  BrokenChainIsRefused
