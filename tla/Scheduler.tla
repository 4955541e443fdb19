----------------------------- MODULE Scheduler -----------------------------
(***************************************************************************)
(* What the uniprocessor scheduler promises to the rest of the kernel      *)
(* (kernel/src/schedule.c), without the ring buffers it is made of: which  *)
(* threads are runnable, which of them are queued, who owns the processor. *)
(*                                                                         *)
(*   runnable  threads for which IS_RUNNING holds, plus the owner of the   *)
(*             processor (an IPC partner that is switched to marks itself  *)
(*             RUNNING only when it resumes)                               *)
(*   ready     threads with TS_QUEUE_READY set; a thread that blocks stays *)
(*             here until find_next_thread meets it (lazy dequeueing)      *)
(*                                                                         *)
(* ReadyQueue.tla implements this module with the linked rings of          *)
(* schedule.h, Ipc.tla discharges its environment (the IPC actions below). *)
(***************************************************************************)
EXTENDS FindNext

CONSTANTS
    Threads,    \* thread control blocks, the idle thread excluded
    MaxPrio,    \* MAX_PRIO
    Boot        \* the threads that exist at the start

ASSUME IdleAssumption == Idle \notin Threads
ASSUME BootAssumption == Boot \subseteq Threads
ASSUME PrioAssumption == MaxPrio \in Nat

VARIABLES runnable, ready, current

vars == <<runnable, ready, current, priority>>

Prios == 0 .. MaxPrio

\* final_init has created and enqueued the first threads; the priorities
\* are whatever sys_schedule has made of them.
Init ==
    /\ priority \in [Threads -> Prios]
    /\ runnable = Boot
    /\ ready = Boot
    /\ current = Idle

\* The idle loop: dispatch what find_next_thread returns, sleep if nothing.
IdleLoop ==
    /\ current = Idle
    /\ FindNextThread(runnable, ready, current', ready')
    /\ UNCHANGED <<runnable, priority>>

\* Mutant: the timer interrupt switches without enqueueing the running thread.
TimerForgetsCurrent(woken) ==
    /\ current \notin woken
    /\ woken # {}
    /\ runnable' = runnable \cup woken
    /\ ready' = ready \cup woken
    /\ current' \in woken
    /\ UNCHANGED priority

\* handle_timer_interrupt.  The threads in woken have timed out.
HandleTimerInterrupt(woken) ==
    LET rdy     == ready \cup woken \cup ({current} \ {Idle})
        run     == runnable \cup woken
        preempt == {t \in woken : priority[t] > PrioOf(current)}
    IN  /\ current \notin woken
        /\ runnable' = run
        /\ UNCHANGED priority
        /\ IF preempt # {}
           THEN /\ current' \in {t \in preempt :
                                    \A u \in preempt : priority[u] <= priority[t]}
                /\ ready' = rdy
           ELSE \/ current' = current /\ ready' = rdy   \* timeslice not used up
                \/ FindNextThread(run, rdy, current', ready')

\* Mutant: thread_switch does not test the state of the thread it is given.
SwitchToBlocked(t) ==
    /\ current # Idle
    /\ current' = t
    /\ ready' = ready \cup {current}
    /\ UNCHANGED <<runnable, priority>>

\* Mutant: thread_switch searches the queues without enqueueing its caller.
SwitchForgetsCaller(t) ==
    /\ current # Idle
    /\ FindNextThread(runnable, ready, current', ready')
    /\ UNCHANGED <<runnable, priority>>

\* sys_thread_switch to a named thread (donating the processor), or to
\* whichever thread is next when the named one does not exist or is blocked.
SysThreadSwitch(t) ==
    /\ current # Idle
    /\ IF t \in runnable
       THEN current' = t /\ ready' = ready \cup {current}
       ELSE FindNextThread(runnable, ready \cup {current}, current', ready')
    /\ UNCHANGED <<runnable, priority>>

\* sys_schedule: a queued thread moves to the ring of its new priority.
SysSchedule(t, p) ==
    /\ current # Idle
    /\ priority' = [priority EXCEPT ![t] = p]
    /\ UNCHANGED <<runnable, ready, current>>

\* The environment.  A system call or an interrupt hands the processor over
\* to next, outside find_next_thread.  The old owner either keeps running
\* later, and is then enqueued, or blocks, and is then not; the threads in
\* woken become runnable and are enqueued.
Handover(next, woken, blocks) ==
    /\ next # current
    /\ current = Idle => ~blocks
    /\ next = Idle => blocks
    /\ runnable' = ((runnable \cup woken \cup {next})
                        \ (IF blocks THEN {current} ELSE {})) \ {Idle}
    /\ ready' = ready \cup woken
                    \cup (IF blocks THEN {} ELSE {current} \ {Idle})
    /\ current' = next
    /\ UNCHANGED priority

\* sys_task_new or sys_lthread_ex_regs creates t, with the priority of its
\* creator.
Create(t) ==
    /\ current \notin {Idle, t}
    /\ t \notin runnable \cup ready
    /\ priority' = [priority EXCEPT ![t] = priority[current]]
    /\ runnable' = runnable \cup {t}
    /\ ready' = ready \cup {t}
    /\ UNCHANGED current

\* Threads are unwound or handed an interrupt while the owner of the
\* processor goes on.
Activate(woken) ==
    /\ runnable' = runnable \cup woken
    /\ ready' = ready \cup woken
    /\ UNCHANGED <<current, priority>>

\* A task is deleted: its threads, dead, no longer run, and those in gone
\* have left the queues.  IPC partners of the threads deleted are woken.
Remove(dead, gone, woken) ==
    /\ current \notin dead
    /\ gone \subseteq dead /\ dead \cap woken = {}
    /\ runnable' = (runnable \cup woken) \ dead
    /\ ready' = (ready \cup woken) \ gone
    /\ UNCHANGED <<current, priority>>

Next ==
    \/ IdleLoop
    \/ \E woken \in SUBSET Threads : HandleTimerInterrupt(woken)
    \/ \E t \in Threads : SysThreadSwitch(t)
    \/ \E t \in Threads, p \in Prios : SysSchedule(t, p)
    \/ \E next \in Threads \cup {Idle}, woken \in SUBSET Threads, blocks \in BOOLEAN :
          Handover(next, woken, blocks)
    \/ \E t \in Threads : Create(t)
    \/ \E woken \in SUBSET Threads : Activate(woken)
    \/ \E dead, gone, woken \in SUBSET Threads : Remove(dead, gone, woken)

Spec == Init /\ [][Next]_vars

TypeOK ==
    /\ runnable \in SUBSET Threads
    /\ ready \in SUBSET Threads
    /\ current \in Threads \cup {Idle}
    /\ priority \in [Threads -> Prios]

(***************************************************************************)
(* No runnable thread is lost: whoever could run is either running or in a *)
(* ready queue, where find_next_thread will meet it.  Threads leave the    *)
(* queues lazily and IPC switches around them, so this rests on every      *)
(* switch in ipc.c, thread.c and schedule.c enqueueing the right threads.  *)
(***************************************************************************)
NoLostThread == runnable \subseteq ready \cup ({current} \ {Idle})

\* The owner of the processor is runnable.
OwnerRunnable == current # Idle => current \in runnable

(***************************************************************************)
(* dispatch_thread enters the kernel debugger when it is asked to switch   *)
(* from a thread to idle ("dispatch: switch to idle").  Its callers, the   *)
(* timer interrupt and sys_thread_switch, never get idle from              *)
(* find_next_thread, because they enqueue the running thread first.        *)
(***************************************************************************)
NeverDispatchIdle ==
    [][ ( \/ \E woken \in SUBSET Threads : HandleTimerInterrupt(woken)
          \/ \E t \in Threads : SysThreadSwitch(t) )
        => (current # Idle => current' # Idle) ]_vars

=============================================================================
