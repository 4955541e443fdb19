SPECIFICATION Spec
CONSTANTS
  kmem_start = 2
  kmem_end = 10
  Sizes <- MCSizes
  MDB_ALLOC_CHUNKSZ = 2
  Buflists <- MCBuflists
  max_free <- MCmax_free
INVARIANTS
  Conservation
  AllocComplete
  LastChunkFree
  PoolLists
  BuffersOnce
  NoIdlePool
