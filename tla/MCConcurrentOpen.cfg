SPECIFICATION FairSpec
CONSTANTS
  Threads = {t1, t2, t3}
  Files = {f1}
  Shards = {s1}
  TheShard = s1
  Shard <- OneShard
  Inodes = {i1, i2, i3}
  N = 1
  CopyFails = TRUE
  None = None
INVARIANTS
  TypeOK
  SettledCopyIsWhole
PROPERTIES
  SettledCopyIsKept
  
  OpensFinish
