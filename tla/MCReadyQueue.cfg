SPECIFICATION Spec
CONSTANTS
  t1 = t1  t2 = t2  t3 = t3
  Idle = idle  Null = null
  Threads <- ThreeThreads
  Boot <- ThreeThreads
  Named <- ThreeThreads
  Priorities <- TwoPrios
  MaxPrio = 1
  Slice = 2
INVARIANTS
  ReadyRings
  NoneAboveMaxPrio
PROPERTIES
  ImplementsScheduler
  HighestFirst
