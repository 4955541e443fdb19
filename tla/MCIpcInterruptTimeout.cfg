SPECIFICATION Spec
CONSTANTS
  t1 = t1  t2 = t2  t3 = t3
  i1 = i1  i2 = i2
  taskA = taskA  taskB = taskB
  Idle = idle  Null = null  Nil = nil  Invalid = invalid
  Threads <- TwoThreads
  Irqs <- OneIrq
  MaxPrio = 0
  Boot <- TwoThreads
  Task <- OneTaskOf
  Calls <- InterruptCalls
  NewPrios <- None
  ExRegs <- None
  Dying <- None
INVARIANTS
  DeliveredRuns
