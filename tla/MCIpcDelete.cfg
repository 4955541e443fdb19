SPECIFICATION DeletionSpec
CONSTANTS
  t1 = t1  t2 = t2  t3 = t3
  i1 = i1  i2 = i2
  taskA = taskA  taskB = taskB
  Idle = idle  Null = null  Nil = nil  Invalid = invalid
  Threads <- ThreeThreads
  Irqs <- None
  MaxPrio = 0
  Boot <- ThreeThreads
  Task <- TwoTasksOf
  Calls <- DeletionCalls
  NewPrios <- None
  ExRegs <- None
  Dying <- TwoTasks
INVARIANTS
  DeadUnlinked
PROPERTIES
  SchedulerRefined
  DeletionTerminates
