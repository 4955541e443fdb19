SPECIFICATION Spec
CONSTANTS
  t1 = t1  t2 = t2  t3 = t3
  i1 = i1  i2 = i2
  taskA = taskA  taskB = taskB
  Idle = idle  Null = null  Nil = nil  Invalid = invalid
  Threads <- ThreeThreads
  Irqs <- None
  MaxPrio = 0
  Boot <- TwoThreads
  Task <- OneTaskOf
  Calls <- TeardownCalls
  NewPrios <- None
  ExRegs <- ThreeThreads
  Dying <- None
SYMMETRY TwoAlike
INVARIANTS
  SendRings
  WakeupBlocked
