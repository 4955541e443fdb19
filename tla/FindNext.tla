------------------------------ MODULE FindNext ------------------------------
(***************************************************************************)
(* find_next_thread (kernel/src/schedule.c) as its callers see it: which   *)
(* thread it returns, and whom it leaves in the ready queues.  The ring    *)
(* buffers it searches are those of ReadyQueue.tla.                        *)
(***************************************************************************)
EXTENDS Integers

CONSTANT Idle       \* get_idle_tcb()

VARIABLE priority   \* tcb->priority

\* The idle thread runs at priority 0 (create_idle_thread).
PrioOf(t) == IF t = Idle THEN 0 ELSE priority[t]

\* The threads find_next_thread may return: queued, runnable, and no queued
\* runnable thread has a higher priority.
Candidates(run, rdy) ==
    {t \in rdy \cap run : \A u \in rdy \cap run : priority[u] <= priority[t]}

\* find_next_thread over the queue rdy: the thread it returns, and the queue
\* it leaves.  It unlinks every blocked thread it passes: all of those above
\* the priority it stops at, and some of those that share it.
FindNextThread(run, rdy, next, left) ==
    IF rdy \cap run = {}
    THEN next = Idle /\ left = {}
    ELSE /\ next \in Candidates(run, rdy)
         /\ \E passed \in SUBSET {u \in rdy \ run : priority[u] = priority[next]} :
               left = {u \in rdy : priority[u] <= priority[next]} \ passed

=============================================================================
