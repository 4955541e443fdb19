----------------------------- MODULE ReadyQueue -----------------------------
(***************************************************************************)
(* The ready queues as kernel/include/schedule.h and kernel/src/schedule.c *)
(* implement them: one doubly linked ring per priority, whose head is the  *)
(* thread that ran last, a bound on the highest non-empty priority, and a  *)
(* timeslice per thread.  ThisScheduler relates it to Scheduler.tla.       *)
(*                                                                         *)
(* As there, runnable holds the IS_RUNNING threads and the owner of the    *)
(* processor, and IPC, interrupts and deletion are the environment.        *)
(***************************************************************************)
EXTENDS Integers, FiniteSets, Sequences, Functions

CONSTANTS
    Threads, Idle, Null, MaxPrio, Boot,
    Slice,      \* DEFAULT_TIMESLICE in ticks
    Named,      \* threads others switch to by name, in thread_switch or IPC
    Priorities  \* priorities clients pass to sys_schedule

ASSUME QueueAssumption ==
    /\ IsFiniteSet(Threads)
    /\ Idle \notin Threads /\ Null \notin Threads \cup {Idle}
    /\ MaxPrio \in Nat /\ Slice \in Nat \ {0, 1}
    /\ Boot \subseteq Threads /\ Named \subseteq Threads
    /\ Priorities \subseteq 0 .. MaxPrio

VARIABLES
    q,          \* prio_queue, ready_next, ready_prev, TS_QUEUE_READY, current_max_prio
    runnable, current, priority,
    slice       \* current_timeslice in ticks, 0 when used up

vars == <<q, runnable, current, priority, slice>>

Links  == [Threads -> Threads \cup {Null}]
Queues == [head : [0 .. MaxPrio -> Threads \cup {Null}], next : Links, prev : Links,
           queued : SUBSET Threads, maxPrio : -1 .. MaxPrio]

\* Mutant: current_max_prio stays as it is.
EnqueueBelowMax(rq, t, p) ==
    IF t \in rq.queued THEN rq
    ELSE LET h    == rq.head[p]
             ring == IF h = Null
                     THEN [rq EXCEPT !.head[p] = t, !.next[t] = t, !.prev[t] = t]
                     ELSE [rq EXCEPT !.next[t] = h, !.prev[t] = rq.prev[h],
                                     !.next[rq.prev[h]] = t, !.prev[h] = t]
         IN  [ring EXCEPT !.queued = @ \cup {t},
                          !.maxPrio = IF @ < 0 THEN p ELSE @]

\* thread_enqueue_ready, for a thread of priority p.
EnqueueAt(rq, t, p) ==
    IF t \in rq.queued THEN rq
    ELSE LET h    == rq.head[p]
             ring == IF h = Null
                     THEN [rq EXCEPT !.head[p] = t, !.next[t] = t, !.prev[t] = t]
                     ELSE [rq EXCEPT !.next[t] = h, !.prev[t] = rq.prev[h],
                                     !.next[rq.prev[h]] = t, !.prev[h] = t]
         IN  [ring EXCEPT !.queued = @ \cup {t},
                          !.maxPrio = IF @ < p THEN p ELSE @]

ThreadEnqueueReady(rq, t) == EnqueueAt(rq, t, priority[t])

\* The sequences that hold each thread of a set once.
Orders(S) == Bijection(1 .. Cardinality(S), S)

\* The threads of the sequence s, one after the other.
EnqueueAll(rq, s) ==
    LET after[n \in 0 .. Len(s)] ==
            IF n = 0 THEN rq ELSE ThreadEnqueueReady(after[n - 1], s[n])
    IN  after[Len(s)]

\* Mutant: the thread after a dequeued one keeps pointing back to it.
DequeueHalf(rq, t) ==
    IF t \notin rq.queued THEN rq
    ELSE LET p    == priority[t]
             ring == IF rq.next[t] = t
                     THEN [rq EXCEPT !.head[p] = Null]
                     ELSE [rq EXCEPT !.head[p] = IF @ = t THEN rq.next[t] ELSE @,
                                     !.next[rq.prev[t]] = rq.next[t]]
         IN  [ring EXCEPT !.queued = @ \ {t}, !.next[t] = Null, !.prev[t] = Null]

\* thread_dequeue_ready.  The links of a thread that is in no queue are not
\* read; they are Null, as in a CONFIG_DEBUG_SANITY kernel.
ThreadDequeueReady(rq, t) ==
    IF t \notin rq.queued THEN rq
    ELSE LET p    == priority[t]
             ring == IF rq.next[t] = t
                     THEN [rq EXCEPT !.head[p] = Null]
                     ELSE [rq EXCEPT !.head[p] = IF @ = t THEN rq.next[t] ELSE @,
                                     !.next[rq.prev[t]] = rq.next[t],
                                     !.prev[rq.next[t]] = rq.prev[t]]
         IN  [ring EXCEPT !.queued = @ \ {t}, !.next[t] = Null, !.prev[t] = Null]

\* The state of the loops of find_next_thread: the priority, the thread found.
Searches == [i : -1 .. MaxPrio, next : Threads \cup {Idle, Null}, q : Queues]

\* One round of them: the thread after the head is returned, if it runs; else it
\* is dequeued.
SearchRound(run) ==
    [s \in Searches |->
        LET h == s.q.head[s.i]
            t == s.q.next[h]
        IN  IF s.next # Null THEN s
            ELSE IF s.i < 0 THEN [s EXCEPT !.next = Idle, !.q.maxPrio = -1]
            ELSE IF h = Null THEN [s EXCEPT !.i = @ - 1]
            ELSE IF t \in run
                 THEN [s EXCEPT !.next = t, !.q.head[s.i] = t, !.q.maxPrio = s.i]
                 ELSE [s EXCEPT !.q = ThreadDequeueReady(s.q, t)]]

\* The search from priority i on.  Every round but the last leaves a priority
\* or dequeues a thread.
Search(rq, run, i) ==
    LET after[n \in Nat] == IF n = 0 THEN [i |-> i, next |-> Null, q |-> rq]
                                     ELSE SearchRound(run)[after[n - 1]]
    IN  after[i + 2 + Cardinality(rq.queued)]

\* Mutant: the search takes the head of a ring, the thread that ran last.
SearchFromHead(rq, run) ==
    LET found == Search(rq, run, rq.maxPrio)
        h     == IF found.next = Idle THEN Null ELSE rq.head[priority[found.next]]
    IN  IF h # Null /\ h \in run THEN [next |-> h, q |-> found.q] ELSE found

\* Mutant: the search goes down from one priority below the highest.
SearchTooLow(rq, run) == Search(rq, run, IF rq.maxPrio > 0 THEN rq.maxPrio - 1 ELSE rq.maxPrio)

FindNextThread(rq, run) == Search(rq, run, rq.maxPrio)

\* dispatch_thread makes the thread it switches to the head of its ring.
Dispatch(rq, t) ==
    /\ current' = t
    /\ q' = IF t # current /\ t \in rq.queued THEN [rq EXCEPT !.head[priority[t]] = t]
                                              ELSE rq

----------------------------------------------------------------------------
\* initialize_idle_thread and final_init, the boot threads enqueued one by one;
\* priorities are what sys_schedule has made of them.
Init ==
    /\ priority \in [Threads -> 0 .. MaxPrio]
    /\ LET none  == [t \in Threads |-> Null]
           empty == [head |-> [p \in 0 .. MaxPrio |-> Null], next |-> none,
                     prev |-> none, queued |-> {}, maxPrio |-> -1]
       IN  \E order \in Orders(Boot) : q = EnqueueAll(empty, order)
    /\ runnable = Boot
    /\ current = Idle
    /\ slice = [t \in Threads \cup {Idle} |-> 0]

IdleLoop ==
    /\ current = Idle
    /\ \E found \in {FindNextThread(q, runnable)} : Dispatch(found.q, found.next)
    /\ UNCHANGED <<runnable, priority, slice>>

\* handle_timer_interrupt; the threads of the sequence woken have timed out, in
\* the order of the wakeup queue, the first of the highest priority preempts.
HandleTimerInterrupt(woken) ==
    LET who     == {woken[j] : j \in DOMAIN woken}
        run     == runnable \cup who
        q1      == EnqueueAll(q, woken)
        q2      == IF current = Idle THEN q1 ELSE ThreadEnqueueReady(q1, current)
        prio    == IF current = Idle THEN 0 ELSE priority[current]
        preempt == {j \in DOMAIN woken :
                      /\ priority[woken[j]] > prio
                      /\ \A k \in DOMAIN woken :
                            \/ priority[woken[k]] < priority[woken[j]]
                            \/ priority[woken[k]] = priority[woken[j]] /\ k >= j}
        found   == FindNextThread(q2, run)
    IN  /\ who \cap runnable = {}
        /\ runnable' = run
        /\ UNCHANGED priority
        /\ \/ /\ preempt # {}
              /\ \E j \in preempt : Dispatch(q2, woken[j])
              /\ slice' = [slice EXCEPT ![current] = IF @ > 0 THEN @ - 1 ELSE 0]
           \/ /\ preempt = {} /\ slice[current] > 1
              /\ slice' = [slice EXCEPT ![current] = @ - 1]
              /\ q' = q2 /\ UNCHANGED current
           \/ /\ preempt = {} /\ slice[current] <= 1
              /\ slice' = [slice EXCEPT ![current] = Slice]
              /\ Dispatch(found.q, found.next)

\* sys_thread_switch to t, or to nobody in particular (Null).
SysThreadSwitch(t) ==
    LET q1    == ThreadEnqueueReady(q, current)
        found == FindNextThread(q1, runnable)
    IN  /\ current # Idle
        /\ IF t \in runnable THEN Dispatch(q1, t) ELSE Dispatch(found.q, found.next)
        /\ UNCHANGED <<runnable, priority, slice>>

\* Mutant: a queued thread gets its new priority in the ring of the old one.
ScheduleInPlace(t, p) ==
    /\ current # Idle
    /\ priority' = [priority EXCEPT ![t] = p]
    /\ UNCHANGED <<q, runnable, current, slice>>

\* sys_schedule; a queued thread changes rings.
SysSchedule(t, p) ==
    /\ current # Idle
    /\ priority' = [priority EXCEPT ![t] = p]
    /\ q' = IF t \in q.queued /\ p # priority[t]
            THEN EnqueueAt(ThreadDequeueReady(q, t), t, p) ELSE q
    /\ UNCHANGED <<runnable, current, slice>>

----------------------------------------------------------------------------
(* The environment: IPC, interrupts, deletion (see Ipc.tla).               *)

\* The owner of the processor blocks, or is enqueued, and next runs; a sender
\* that the owner waits for may be enqueued on the way.
Handover(next, woken, blocks) ==
    LET q1 == IF woken = Null THEN q ELSE ThreadEnqueueReady(q, woken) IN
    /\ next # current /\ woken \notin runnable
    /\ IF blocks THEN current # Idle ELSE next # Idle
    /\ q' = IF blocks \/ current = Idle THEN q1 ELSE ThreadEnqueueReady(q1, current)
    /\ runnable' = ((runnable \cup {next, woken}) \ (IF blocks THEN {current} ELSE {}))
                      \ {Idle, Null}
    /\ current' = next
    /\ UNCHANGED <<priority, slice>>

\* A thread is made to run (unwind_ipc, handle_interrupt) or is created.
Activate(t) ==
    /\ current # Idle /\ t \notin runnable
    /\ q' = ThreadEnqueueReady(q, t)
    /\ runnable' = runnable \cup {t}
    /\ UNCHANGED <<current, priority, slice>>

\* free_thread and free_tcb.
FreeThread(t) ==
    /\ current \notin {Idle, t}
    /\ q' = ThreadDequeueReady(q, t)
    /\ runnable' = runnable \ {t}
    /\ UNCHANGED <<current, priority, slice>>

Tick ==
    \E who \in SUBSET (Threads \ runnable) : \E woken \in Orders(who) :
        HandleTimerInterrupt(woken)

Next ==
    \/ IdleLoop
    \/ Tick
    \/ \E t \in Named \cup {Null} : SysThreadSwitch(t)
    \/ \E t \in Threads, p \in Priorities : SysSchedule(t, p)
    \/ \E next \in Named \cup {Idle}, woken \in Threads \cup {Null}, blocks \in BOOLEAN :
          Handover(next, woken, blocks)
    \/ \E t \in Threads : Activate(t) \/ FreeThread(t)

Spec == Init /\ [][Next]_vars

\* The idle thread does not stop, and the clock ticks for ever: a tick always
\* changes a timeslice, unless it preempts the running thread, which it never
\* does where there is one priority only.
FairSpec == Spec /\ WF_vars(IdleLoop) /\ []<><<TRUE>>_slice

----------------------------------------------------------------------------
(***************************************************************************)
(* prio_queue[p] is one doubly linked ring of exactly the threads that     *)
(* have TS_QUEUE_READY set and priority p, through every lazy dequeueing,  *)
(* change of priority and deletion (schedule.h).                           *)
(***************************************************************************)
ReadyRings ==
    \A p \in 0 .. MaxPrio :
        LET R == {t \in q.queued : priority[t] = p} IN
        IF R = {} THEN q.head[p] = Null
        ELSE /\ q.head[p] \in R
             /\ \A t \in R : /\ q.next[t] \in R /\ q.prev[q.next[t]] = t
                             /\ q.prev[t] \in R /\ q.next[q.prev[t]] = t
             /\ \A S \in (SUBSET R) \ {{}, R} : \E t \in S : q.next[t] \notin S

(***************************************************************************)
(* find_next_thread starts at current_max_prio: no thread is queued above  *)
(* it, or the search would pass it over.                                   *)
(***************************************************************************)
NoneAboveMaxPrio == \A t \in q.queued : priority[t] <= q.maxPrio

ThisScheduler == INSTANCE Scheduler WITH ready <- q.queued

(***************************************************************************)
(* The rings implement the scheduler of Scheduler.tla, the environment of  *)
(* which they share: queues are joined and left as it says, and no search  *)
(* and no change of priority loses a runnable thread.                      *)
(***************************************************************************)
ImplementsScheduler == ThisScheduler!Spec

\* A step that asks find_next_thread: the idle loop, thread_switch to nobody in
\* particular (or, which is the same, to a thread that cannot run), and the tick
\* that ends a timeslice and begins a new one, since nobody woken preempts.
Searching ==
    \/ IdleLoop
    \/ SysThreadSwitch(Null)
    \/ /\ slice[current] <= 1 /\ slice'[current] = Slice
       /\ \E woken \in Orders(runnable' \ runnable) : HandleTimerInterrupt(woken)

(***************************************************************************)
(* find_next_thread returns a runnable thread such that none, queued or    *)
(* not, has a higher priority, and idle only if no thread can run, though  *)
(* it looks at one ring after the other from current_max_prio down, past   *)
(* the threads that have blocked (schedule.c:52-90).                       *)
(***************************************************************************)
HighestFirst ==
    [][Searching => IF current' = Idle THEN runnable' = {}
                    ELSE /\ current' \in runnable'
                         /\ \A t \in runnable' : priority[t] <= priority[current']]_vars

(***************************************************************************)
(* Round robin: where all threads have one priority and none is switched   *)
(* to by name, each one that stays runnable gets the processor             *)
(* (handle_timer_interrupt, find_next_thread).                             *)
(***************************************************************************)
RoundRobin == \A t \in Threads : t \in runnable ~> (current = t \/ t \notin runnable)

=============================================================================
