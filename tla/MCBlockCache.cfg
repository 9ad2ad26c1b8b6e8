SPECIFICATION FairSpec
CONSTANTS
  Readers = {r1, r2}
  Sources = 2
  Blocks = 2
  KeyBase = 2
  CacheCap = 2
INVARIANTS
  TypeOK
  QueueIsCache
  ReadsAreRight
PROPERTY
  ReadsFinish
