SPECIFICATION FairSpec
CONSTANTS
  t1 = t1  t2 = t2  t3 = t3
  Idle = idle  Null = null
  Threads <- ThreeThreads
  Boot <- ThreeThreads
  Named <- Nobody
  Priorities <- Nobody
  MaxPrio = 0
  Slice = 2
PROPERTIES
  RoundRobin
