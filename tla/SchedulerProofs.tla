-------------------------- MODULE SchedulerProofs --------------------------
(***************************************************************************)
(* Proofs about Scheduler, for any set of threads and any number of        *)
(* priorities.                                                             *)
(***************************************************************************)
EXTENDS Scheduler, TLAPS

\* The inductive invariant.  NoLostThread alone is not inductive: a switch
\* enqueues the thread that gives up the processor, which covers what was
\* missing from the queues only if that thread is the one OwnerRunnable
\* speaks of.
IInv == TypeOK /\ NoLostThread /\ OwnerRunnable

\* find_next_thread returns a runnable thread, or idle when none is queued,
\* and unlinks no runnable thread.
LEMMA FindNextKeepsRunnable ==
    ASSUME TypeOK,
           NEW run \in SUBSET Threads, NEW rdy \in SUBSET Threads,
           NEW next, NEW left, FindNextThread(run, rdy, next, left)
    PROVE  /\ left \in SUBSET Threads
           /\ next \in Threads \cup {Idle}
           /\ next # Idle => next \in run
           /\ run \cap rdy \subseteq left
           /\ next = Idle => run \cap rdy = {}
  <1>1. CASE rdy \cap run = {}
    BY <1>1 DEF FindNextThread
  <1>2. CASE rdy \cap run # {}
    <2>1. next \in Candidates(run, rdy)
      BY <1>2 DEF FindNextThread
    <2>2. /\ next \in rdy \cap run
          /\ \A u \in rdy \cap run : priority[u] <= priority[next]
      BY <2>1 DEF Candidates
    <2>3. PICK passed \in SUBSET {u \in rdy \ run : priority[u] = priority[next]} :
             left = {u \in rdy : priority[u] <= priority[next]} \ passed
      BY <1>2 DEF FindNextThread
    <2>4. run \cap rdy \subseteq left
      BY <2>2, <2>3
    <2>5. next # Idle
      BY <2>2, IdleAssumption
    <2> QED
      BY <2>2, <2>3, <2>4, <2>5
  <1> QED
    BY <1>1, <1>2

\* The invariant holds when idle is started.
LEMMA InitIInv == Init => IInv
  BY IdleAssumption, BootAssumption, PrioAssumption
     DEF Init, IInv, TypeOK, NoLostThread, OwnerRunnable, Prios

\* The idle loop dispatches a runnable thread.
LEMMA IdleLoopIInv == IInv /\ IdleLoop => IInv'
  <1> SUFFICES ASSUME IInv, IdleLoop PROVE IInv'
    OBVIOUS
  <1> USE DEF IInv, TypeOK, NoLostThread, OwnerRunnable
  <1>1. /\ ready' \in SUBSET Threads
        /\ current' \in Threads \cup {Idle}
        /\ current' # Idle => current' \in runnable
        /\ runnable \cap ready \subseteq ready'
    BY FindNextKeepsRunnable DEF IdleLoop
  <1> QED
    BY <1>1 DEF IdleLoop

\* handle_timer_interrupt enqueues the running thread before it switches.
LEMMA TimerIInv ==
    ASSUME NEW woken \in SUBSET Threads, IInv, HandleTimerInterrupt(woken)
    PROVE  IInv'
  <1> USE DEF IInv, TypeOK, NoLostThread, OwnerRunnable
  <1> DEFINE rdy == ready \cup woken \cup ({current} \ {Idle})
             run == runnable \cup woken
             preempt == {t \in woken : priority[t] > PrioOf(current)}
  <1>1. run \in SUBSET Threads /\ rdy \in SUBSET Threads /\ run \subseteq rdy
    OBVIOUS
  <1>2. runnable' = run /\ priority' = priority
    BY DEF HandleTimerInterrupt
  <1>3. CASE /\ current' \in preempt
             /\ ready' = rdy
    BY <1>1, <1>2, <1>3
  <1>4. CASE current' = current /\ ready' = rdy
    BY <1>1, <1>2, <1>4
  <1>5. CASE FindNextThread(run, rdy, current', ready')
    <2> HIDE DEF run, rdy
    <2>1. /\ ready' \in SUBSET Threads
          /\ current' \in Threads \cup {Idle}
          /\ current' # Idle => current' \in run
          /\ run \cap rdy \subseteq ready'
      BY <1>1, <1>5, FindNextKeepsRunnable
    <2> QED
      BY <1>1, <1>2, <2>1
  <1> QED
    BY <1>3, <1>4, <1>5 DEF HandleTimerInterrupt

\* So does sys_thread_switch.
LEMMA ThreadSwitchIInv ==
    ASSUME NEW t \in Threads, IInv, SysThreadSwitch(t)
    PROVE  IInv'
  <1> USE DEF IInv, TypeOK, NoLostThread, OwnerRunnable
  <1> DEFINE rdy == ready \cup {current}
  <1>1. rdy \in SUBSET Threads /\ runnable \subseteq rdy
    BY DEF SysThreadSwitch
  <1>2. CASE t \in runnable
    BY <1>1, <1>2 DEF SysThreadSwitch
  <1>3. CASE t \notin runnable
    <2>1. FindNextThread(runnable, rdy, current', ready')
      BY <1>3 DEF SysThreadSwitch
    <2> HIDE DEF rdy
    <2>2. /\ ready' \in SUBSET Threads
          /\ current' \in Threads \cup {Idle}
          /\ current' # Idle => current' \in runnable
          /\ runnable \cap rdy \subseteq ready'
      BY <1>1, <2>1, FindNextKeepsRunnable
    <2> QED
      BY <1>1, <2>2 DEF SysThreadSwitch
  <1> QED
    BY <1>2, <1>3

\* One step per action; the environment's actions need no lemma.
LEMMA NextIInv == IInv /\ [Next]_vars => IInv'
  <1> SUFFICES ASSUME IInv, [Next]_vars PROVE IInv'
    OBVIOUS
  <1> USE DEF IInv, TypeOK, NoLostThread, OwnerRunnable
  <1>1. CASE IdleLoop
    BY <1>1, IdleLoopIInv
  <1>2. CASE \E woken \in SUBSET Threads : HandleTimerInterrupt(woken)
    BY <1>2, TimerIInv
  <1>3. CASE \E t \in Threads : SysThreadSwitch(t)
    BY <1>3, ThreadSwitchIInv
  <1>4. ASSUME NEW t \in Threads, NEW p \in Prios, SysSchedule(t, p)
        PROVE  IInv'
    BY <1>4 DEF SysSchedule
  <1>5. ASSUME NEW next \in Threads \cup {Idle}, NEW woken \in SUBSET Threads,
               NEW blocks \in BOOLEAN, Handover(next, woken, blocks)
        PROVE  IInv'
    BY <1>5, IdleAssumption DEF Handover
  <1>6. ASSUME NEW t \in Threads, Create(t)
        PROVE  IInv'
    BY <1>6, IdleAssumption DEF Create
  <1>7. ASSUME NEW woken \in SUBSET Threads, Activate(woken)
        PROVE  IInv'
    BY <1>7 DEF Activate
  <1>8. ASSUME NEW dead \in SUBSET Threads, NEW gone \in SUBSET Threads, NEW woken \in SUBSET Threads,
               Remove(dead, gone, woken)
        PROVE  IInv'
    BY <1>8 DEF Remove
  <1>9. CASE UNCHANGED vars
    BY <1>9 DEF vars
  <1> QED
    BY <1>1, <1>2, <1>3, <1>4, <1>5, <1>6, <1>7, <1>8, <1>9, Zenon DEF Next

\* Type correctness of the scheduler.
THEOREM TypeCorrect == Spec => []TypeOK
  <1>1. Spec => []IInv
    BY InitIInv, NextIInv, PTL DEF Spec
  <1> QED
    BY <1>1, PTL DEF IInv

\* No runnable thread is ever lost from the ready queues.
THEOREM NoThreadLost == Spec => []NoLostThread
  <1>1. Spec => []IInv
    BY InitIInv, NextIInv, PTL DEF Spec
  <1> QED
    BY <1>1, PTL DEF IInv

\* The processor is never owned by a blocked thread.
THEOREM OwnerIsRunnable == Spec => []OwnerRunnable
  <1>1. Spec => []IInv
    BY InitIInv, NextIInv, PTL DEF Spec
  <1> QED
    BY <1>1, PTL DEF IInv

\* dispatch_thread is never asked to switch from a thread to idle, so its
\* debugger trap is unreachable.
THEOREM IdleNeverDispatched == Spec => NeverDispatchIdle
  <1> DEFINE Dispatch == \/ \E woken \in SUBSET Threads : HandleTimerInterrupt(woken)
                         \/ \E t \in Threads : SysThreadSwitch(t)
  <1>1. Spec => []IInv
    BY InitIInv, NextIInv, PTL DEF Spec
  <1>2. ASSUME IInv, Dispatch, current # Idle
        PROVE  current' # Idle
    <2> USE DEF IInv, TypeOK, NoLostThread, OwnerRunnable
    <2>1. ASSUME NEW woken \in SUBSET Threads, HandleTimerInterrupt(woken)
          PROVE  current' # Idle
      <3> DEFINE rdy == ready \cup woken \cup ({current} \ {Idle})
                 run == runnable \cup woken
      <3>1. run \in SUBSET Threads /\ rdy \in SUBSET Threads /\ run \cap rdy # {}
        BY <1>2
      <3>2. CASE FindNextThread(run, rdy, current', ready')
        <4> HIDE DEF run, rdy
        <4> QED
          BY <1>2, <3>1, <3>2, FindNextKeepsRunnable
      <3> QED
        BY <1>2, <2>1, <3>2, IdleAssumption DEF HandleTimerInterrupt
    <2>2. ASSUME NEW t \in Threads, SysThreadSwitch(t)
          PROVE  current' # Idle
      <3> DEFINE rdy == ready \cup {current}
      <3>1. rdy \in SUBSET Threads /\ runnable \cap rdy # {}
        BY <1>2
      <3>2. CASE FindNextThread(runnable, rdy, current', ready')
        <4> HIDE DEF rdy
        <4> QED
          BY <1>2, <3>1, <3>2, FindNextKeepsRunnable
      <3> QED
        BY <2>2, <3>2, IdleAssumption DEF SysThreadSwitch
    <2> QED
      BY <1>2, <2>1, <2>2
  <1>3. IInv => [Dispatch => (current # Idle => current' # Idle)]_vars
    BY <1>2
  <1> QED
    BY <1>1, <1>3, PTL DEF NeverDispatchIdle

=============================================================================
