SPECIFICATION Spec
CONSTANTS
  a1 = a1  a2 = a2  b1 = b1  c1 = c1
  Idle = idle  Nil = nil  Pager = pager
  PagerSpace = 0
  Threads <- FourThreads
  Space <- SpaceOfThread
  Windows <- ThreeWindows
  Super <- Window3
  Scenarios <- MapsAndDwords
  MaxUnmaps = 1
INVARIANTS
  DeliveredAsSent
