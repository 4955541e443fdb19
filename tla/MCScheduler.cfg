CONSTANTS
    t1 = t1
    t2 = t2
    t3 = t3
    Threads <- MCThreads
    Boot <- MCBoot
    Idle = Idle
    MaxPrio = 2
SPECIFICATION Spec
INVARIANTS NoLostThread OwnerRunnable
PROPERTIES NeverDispatchIdle
