---------------------------- MODULE IpcScheduler ----------------------------
(***************************************************************************)
(* Ipc.tla as a user of the scheduler: what its steps do to the processor  *)
(* and the ready queues is what Scheduler.tla allows.                      *)
(***************************************************************************)
EXTENDS Ipc

\* The thread just switched to by an IPC counts as runnable.
Sched == INSTANCE Scheduler
            WITH runnable <- RunningIn(state) \cup ({current} \ {Idle})

(***************************************************************************)
(* The kernel uses the scheduler as Scheduler.tla describes it: every IPC, *)
(* interrupt, unwinding and deletion is one of the hand-overs, wake-ups    *)
(* and removals allowed there, or does not concern the scheduler.          *)
(***************************************************************************)
SchedulerRefined == Sched!Spec

=============================================================================
