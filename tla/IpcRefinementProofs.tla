------------------------ MODULE IpcRefinementProofs ------------------------
(***************************************************************************)
(* Ipc uses the scheduler as Scheduler describes it: a step-by-step proof  *)
(* that its specification implements the one of Scheduler, for any number  *)
(* of threads, interrupts and priorities.  It holds while no task is       *)
(* deleted, whatever calls clients make; and with deletions, for clients   *)
(* that leave no IPC partner locked behind a third thread.                 *)
(***************************************************************************)
EXTENDS IpcProofs, IpcScheduler

\* What Ipc puts for the variable runnable of Scheduler.
Runnable == RunningIn(state) \cup ({current} \ {Idle})

\* What a step needs to know of the state it starts in.
SchedPre ==
    /\ TypeOK
    /\ current \in Threads /\ pc[current] = User =>
          IsRunning(state, current) /\ current \notin wakeup
    /\ current \in Threads /\ pc[current].at = "send" =>
          /\ pc[current].dest # current
          /\ state[current] = "POLLING" => partner[current] # current
    /\ current \in Threads => current \notin freeing.who /\ freeing.at # current
    /\ freeing.at # Null /\ current \in Threads => ~Locked(current)
    /\ \A t \in ExRegs \ exists : t \notin ready /\ ~IsRunning(state, t) /\ t # current

Stuttering == Runnable' = Runnable /\ UNCHANGED <<ready, current, priority>>
Allowed == Sched!Next \/ Stuttering

----------------------------------------------------------------------------
(* The actions of Scheduler, in the terms of Ipc.                          *)

\* find_next_thread is the same in both.
LEMMA SameSearch ==
    ASSUME NEW run, NEW rdy, NEW next, NEW left, FindNextThread(run, rdy, next, left)
    PROVE  Sched!FindNextThread(run, rdy, next, left)
  BY Zenon DEF FindNextThread, Candidates, Sched!FindNextThread, Sched!Candidates

\* Any switch of ipc.c.
LEMMA IsHandover ==
    ASSUME NEW next \in Threads \cup {Idle}, NEW woken \in SUBSET Threads,
           NEW blocks \in BOOLEAN,
           next # current, current = Idle => ~blocks, next = Idle => blocks,
           Runnable' = ((Runnable \cup woken \cup {next})
                          \ (IF blocks THEN {current} ELSE {})) \ {Idle},
           ready' = ready \cup woken \cup (IF blocks THEN {} ELSE {current} \ {Idle}),
           current' = next, UNCHANGED priority
    PROVE  Allowed
  <1>1. Sched!Handover(next, woken, blocks)
    BY Zenon DEF Sched!Handover, Runnable
  <1> QED
    BY <1>1, Zenon DEF Allowed, Sched!Next

\* Threads are enqueued while the owner of the processor goes on.
LEMMA IsActivate ==
    ASSUME NEW woken \in SUBSET Threads,
           Runnable' = Runnable \cup woken, ready' = ready \cup woken,
           UNCHANGED <<current, priority>>
    PROVE  Allowed
  <1>1. Sched!Activate(woken)
    BY Zenon DEF Sched!Activate, Runnable
  <1> QED
    BY <1>1, Zenon DEF Allowed, Sched!Next

\* A thread is taken away.
LEMMA IsRemove ==
    ASSUME NEW dead \in SUBSET Threads, NEW gone \in SUBSET Threads,
           NEW woken \in SUBSET Threads,
           current \notin dead, gone \subseteq dead, dead \cap woken = {},
           Runnable' = (Runnable \cup woken) \ dead,
           ready' = (ready \cup woken) \ gone,
           UNCHANGED <<current, priority>>
    PROVE  Allowed
  <1>1. Sched!Remove(dead, gone, woken)
    BY Zenon DEF Sched!Remove, Runnable
  <1> QED
    BY <1>1, Zenon DEF Allowed, Sched!Next

----------------------------------------------------------------------------
(* The parts of the ipc system call.                                       *)

\* An IPC that ends at once is none of the scheduler's business.
LEMMA ReturnIpcAllowed ==
    ASSUME NEW c, NEW par, NEW box, NEW wk, NEW pend, NEW mask,
           ReturnIpc(c, par, box, wk, pend, mask), UNCHANGED priority
    PROVE  Allowed
  BY Zenon DEF ReturnIpc, Allowed, Stuttering, Runnable, RunningIn, IsRunning

\* The caller blocks; the thread it has sent to, or idle, takes over.
LEMMA BlockAllowed ==
    ASSUME TypeOK, NEW c \in Threads, current = c, NEW next \in (Threads \cup {Idle}) \ {c},
           NEW st \in {"WAITING", "POLLING"}, state' = [state EXCEPT ![c] = st],
           current' = next, UNCHANGED <<ready, priority>>
    PROVE  Allowed
  <1>1. Runnable' = ((Runnable \cup {} \cup {next}) \ {current}) \ {Idle}
    BY IdsAssumption DEF TypeOK, Runnable, RunningIn, IsRunning
  <1> QED
    BY <1>1, IsHandover, IdsAssumption, Zenon

\* The caller goes on later; the thread it has sent to takes over.
LEMMA SwitchAllowed ==
    ASSUME TypeOK, NEW c \in Threads, current = c, NEW to \in Threads \ {c},
           state' = [state EXCEPT ![c] = "RUNNING"],
           ready' = ready \cup {c}, current' = to, UNCHANGED priority
    PROVE  Allowed
  <1>1. Runnable' = ((Runnable \cup {} \cup {to}) \ {}) \ {Idle}
    BY IdsAssumption DEF TypeOK, Runnable, RunningIn, IsRunning
  <1>2. ready' = ready \cup {} \cup ({current} \ {Idle}) /\ c # Idle /\ to # Idle
    BY IdsAssumption, Zenon
  <1> QED
    BY <1>1, <1>2, IsHandover, Zenon

\* The receive phase.
LEMMA ReceivePhaseAllowed ==
    ASSUME TypeOK, NEW c \in Threads, current = c, UNCHANGED priority,
           NEW to \in (Threads \cup {Null}) \ {c}, NEW dest \in Threads \cup Irqs \cup {Nil},
           NEW rcv \in {"from", "open"}, NEW rto, NEW par, NEW box, NEW wk,
           ~(state[c] = "POLLING" /\ par[c] = c),
           ReceivePhase(c, to, dest, rcv, rto, par, box, wk)
    PROVE  Allowed
  <1> DEFINE served == intrPending[c] # Null /\ intrPending[c].inService
             pend   == IF served THEN Null ELSE intrPending[c]
             mask   == IF served THEN [masked EXCEPT ![intrPending[c].irq] = FALSE]
                                 ELSE masked
             from   == IF rcv = "from" THEN dest ELSE sendq.head[c]
             polls  == from # Null /\ state[from] = "POLLING" /\ par[from] = c
  <1>1. \/ IpcHandleKernelId(c, dest, rto, par, box, wk, pend, mask)
        \/ ReturnIpc(c, par, box, wk, pend, mask)
        \/ ReceiveInterrupt(c, to, par, box, wk, pend, mask)
        \/ ReceiveBlock(c, to, dest, rcv, rto, par, box, wk)
        \/ /\ rcv = "from" => dest \in exists
           /\ polls
           /\ ReceivePolling(c, to, from, par, box, wk)
    BY Zenon DEF ReceivePhase
  <1>2. from # Null /\ (rcv = "from" => dest \in exists) => from \in Threads
    BY Zenon DEF TypeOK
  <1> HIDE DEF pend, mask, from, served
  <1>3. CASE IpcHandleKernelId(c, dest, rto, par, box, wk, pend, mask)
    <2>1. CASE \E p : ReturnIpc(c, par, box, wk, p, mask)
      BY <2>1, ReturnIpcAllowed, Zenon
    <2>2. CASE UNCHANGED <<state, ready, sendq, current>>
      BY <2>2, Zenon DEF Allowed, Stuttering, Runnable, RunningIn, IsRunning
    <2>3. CASE /\ state' = [state EXCEPT ![c] = "WAITING"]
               /\ current' = Idle
               /\ UNCHANGED <<ready, sendq, interruptOwner>>
      BY <2>3, BlockAllowed, IdsAssumption, Zenon
    <2> QED
      BY <1>3, <2>1, <2>2, <2>3, Zenon DEF IpcHandleKernelId
  <1>4. CASE ReturnIpc(c, par, box, wk, pend, mask)
    BY <1>4, ReturnIpcAllowed, Zenon
  <1>5. CASE ReceiveInterrupt(c, to, par, box, wk, pend, mask)
    <2>1. CASE to = Null
      BY <1>5, <2>1, ReturnIpcAllowed, Zenon DEF ReceiveInterrupt
    <2>2. CASE to # Null
      BY <1>5, <2>2, SwitchAllowed, Zenon DEF ReceiveInterrupt
    <2> QED
      BY <2>1, <2>2, Zenon
  <1>6. CASE ReceiveBlock(c, to, dest, rcv, rto, par, box, wk)
    <2> DEFINE next == IF to # Null THEN to ELSE Idle
    <2>1. next \in (Threads \cup {Idle}) \ {c}
      BY IdsAssumption, Zenon
    <2>2. current' = next /\ state' = [state EXCEPT ![c] = "WAITING"] /\ UNCHANGED ready
      BY <1>6, Zenon DEF ReceiveBlock
    <2> HIDE DEF next
    <2> QED
      BY <2>1, <2>2, BlockAllowed, Zenon
  <1>7. CASE /\ rcv = "from" => dest \in exists
             /\ polls
             /\ ReceivePolling(c, to, from, par, box, wk)
    <2> DEFINE next == IF to # Null THEN to ELSE from
    <2>1. from \in Threads /\ from # c
      BY <1>2, <1>7, Zenon
    <2>2. next \in (Threads \cup {Idle}) \ {c}
      BY <2>1, Zenon
    <2>3. /\ state' = [state EXCEPT ![from] = "LOCKED_RUNNING", ![c] = "LOCKED_WAITING"]
          /\ ready' = ready \cup {from} /\ current' = next
      BY <1>7, Zenon DEF ReceivePolling
    <2>4. next = from \/ next \in Threads
      BY <2>1, Zenon
    <2> HIDE DEF next
    <2>5. Runnable' = ((Runnable \cup {from} \cup {next}) \ {current}) \ {Idle}
      BY <2>1, <2>2, <2>3, <2>4, IdsAssumption DEF TypeOK, Runnable, RunningIn, IsRunning
    <2>6. /\ ready' = ready \cup {from} \cup {} /\ {from} \in SUBSET Threads
          /\ next # Idle /\ c # Idle /\ next # current
      BY <2>1, <2>2, <2>3, <2>4, IdsAssumption, Zenon
    <2> QED
      BY <2>2, <2>3, <2>5, <2>6, IsHandover, Zenon
  <1> QED
    BY <1>1, <1>3, <1>4, <1>5, <1>6, <1>7, Zenon

\* What follows the transfer of a message.
LEMMA AfterTransferAllowed ==
    ASSUME TypeOK, NEW c \in Threads, current = c, UNCHANGED priority,
           NEW to \in Threads \ {c}, NEW rcv \in {"none", "from", "open"}, NEW rto,
           NEW par \in [Threads -> Partners], NEW wk,
           ~(state[c] = "POLLING" /\ par[c] = c),
           AfterTransfer(c, to, rcv, rto, par, wk)
    PROVE  Allowed
  <1> DEFINE par2 == [par EXCEPT ![to] = c]
             box2 == [inbox EXCEPT ![to] = c]
  <1>1. CASE rcv = "none"
    BY <1>1, SwitchAllowed, Zenon DEF AfterTransfer
  <1>2. CASE rcv # "none"
    <2>1. ReceivePhase(c, to, to, rcv, rto, par2, box2, wk)
      BY <1>2, Zenon DEF AfterTransfer
    <2>2. ~(state[c] = "POLLING" /\ par2[c] = c)
      BY Zenon
    <2>3. rcv \in {"from", "open"} /\ to \in (Threads \cup {Null}) \ {c}
          /\ to \in Threads \cup Irqs \cup {Nil}
      BY <1>2, Zenon
    <2> HIDE DEF par2, box2
    <2> QED
      BY <2>1, <2>2, <2>3, ReceivePhaseAllowed, Zenon
  <1> QED
    BY <1>1, <1>2, Zenon

----------------------------------------------------------------------------
(* One lemma per action.                                                   *)

\* sys_ipc up to the point where the thread blocks, switches or returns.
LEMMA SysIpcAllowed ==
    ASSUME SchedPre, NEW c \in Threads, NEW dest \in Threads \cup Irqs \cup {Nil},
           NEW k \in Calls, SysIpc(c, dest, k)
    PROVE  Allowed
  <1> DEFINE par == [partner EXCEPT ![c] = dest]
  <1>1. /\ k.snd \in BOOLEAN /\ k.rcv \in {"none", "from", "open"}
        /\ ~k.snd => k.rcv \in {"from", "open"}
    BY ClientAssumption, Zenon DEF CallType
  <1>2. /\ TypeOK /\ current = c /\ IsRunning(state, c) /\ UNCHANGED priority
        /\ state[c] # "POLLING" /\ state[c] # "WAITING"
    BY Zenon DEF SchedPre, SysIpc, InUser, IsRunning
  <1>4. par \in [Threads -> Partners]
    BY <1>2, Zenon DEF TypeOK, Partners
  <1>5. \/ /\ ~k.snd
           /\ ReceivePhase(c, Null, dest, k.rcv, k.rto, partner, inbox, wakeup)
        \/ ReturnIpc(c, partner, inbox, wakeup, intrPending[c], masked)
        \/ /\ dest \in exists /\ state[dest] = "WAITING"
           /\ AfterTransfer(c, dest, k.rcv, k.rto, par, wakeup)
        \/ ReturnIpc(c, par, inbox, wakeup, intrPending[c], masked)
        \/ /\ state' = [state EXCEPT ![c] = "POLLING"]
           /\ current' = Idle
           /\ UNCHANGED <<ready, inbox, irqVars>>
    BY Zenon DEF SysIpc
  <1> HIDE DEF par
  <1>6. CASE /\ ~k.snd
             /\ ReceivePhase(c, Null, dest, k.rcv, k.rto, partner, inbox, wakeup)
    <2>1. Null \in (Threads \cup {Null}) \ {c}
      BY IdsAssumption, Zenon
    <2> QED
      BY <1>1, <1>2, <1>6, <2>1, ReceivePhaseAllowed, Zenon
  <1>7. CASE ReturnIpc(c, partner, inbox, wakeup, intrPending[c], masked)
    BY <1>2, <1>7, ReturnIpcAllowed, Zenon
  <1>8. CASE /\ dest \in exists /\ state[dest] = "WAITING"
             /\ AfterTransfer(c, dest, k.rcv, k.rto, par, wakeup)
    <2>1. dest \in Threads \ {c}
      BY <1>2, <1>8, Zenon DEF TypeOK
    <2> QED
      BY <1>1, <1>2, <1>4, <1>8, <2>1, AfterTransferAllowed, Zenon
  <1>9. CASE ReturnIpc(c, par, inbox, wakeup, intrPending[c], masked)
    BY <1>2, <1>9, ReturnIpcAllowed, Zenon
  <1>10. CASE /\ state' = [state EXCEPT ![c] = "POLLING"]
              /\ current' = Idle
              /\ UNCHANGED <<ready, inbox, irqVars>>
    BY <1>2, <1>10, BlockAllowed, IdsAssumption, Zenon
  <1> QED
    BY <1>5, <1>6, <1>7, <1>8, <1>9, <1>10, Zenon

\* A sender goes on after its receiver or its timeout has woken it up.
LEMMA ResumeSendAllowed ==
    ASSUME SchedPre, NEW c \in Threads, ResumeSend(c)
    PROVE  Allowed
  <1>1. /\ TypeOK /\ current = c /\ UNCHANGED priority
        /\ pc[c].at = "send" /\ pc[c].dest # c
        /\ ~(state[c] = "POLLING" /\ partner[c] = c)
    BY Zenon DEF SchedPre, ResumeSend
  <1>2. pc[c].dest \in Threads /\ pc[c].rcv \in {"none", "from", "open"}
    <2>1. pc[c] \in Pcs
      BY <1>1, Zenon DEF TypeOK
    <2> QED
      BY <1>1, <2>1 DEF Pcs, User
  <1>3. partner \in [Threads -> Partners]
    BY <1>1, Zenon DEF TypeOK, Partners
  <1>4. CASE ReturnIpc(c, partner, inbox, wakeup, intrPending[c], masked)
    BY <1>1, <1>4, ReturnIpcAllowed, Zenon
  <1>5. CASE AfterTransfer(c, pc[c].dest, pc[c].rcv, pc[c].rto, partner, wakeup \ {c})
    BY <1>1, <1>2, <1>3, <1>5, AfterTransferAllowed, Zenon
  <1> QED
    BY <1>4, <1>5, Zenon DEF ResumeSend

\* A receiver goes on after its sender or its timeout has woken it up.
LEMMA ResumeReceiveAllowed ==
    ASSUME SchedPre, NEW c \in Threads, ResumeReceive(c)
    PROVE  Allowed
  <1>1. current = c /\ c # Idle /\ UNCHANGED <<ready, current, priority>>
    BY IdsAssumption, Zenon DEF ResumeReceive
  <1>2. state' = state \/ state' = [state EXCEPT ![c] = "RUNNING"]
    BY Zenon DEF ResumeReceive
  <1>3. Runnable' = Runnable
    BY <1>1, <1>2 DEF SchedPre, TypeOK, Runnable, RunningIn, IsRunning
  <1> QED
    BY <1>1, <1>3, Zenon DEF Allowed, Stuttering

\* The idle loop switches to what find_next_thread returns.
LEMMA IdleLoopAllowed ==
    ASSUME SchedPre, IdleLoop
    PROVE  Allowed
  <1>1. RunningIn(state) \in SUBSET Threads /\ RunningIn(state)' = RunningIn(state)
    BY Zenon DEF RunningIn, IsRunning, IdleLoop
  <1>2. current = Idle /\ Runnable = RunningIn(state)
    BY Zenon DEF IdleLoop, Runnable
  <1>3. FindNextThread(RunningIn(state), ready, current', ready') /\ UNCHANGED priority
    BY Zenon DEF IdleLoop
  <1>4. current' = Idle \/ current' \in RunningIn(state)
    BY <1>1, <1>3, FindNextReturns, Zenon
  <1>5. Runnable' = Runnable
    BY <1>1, <1>2, <1>4, Zenon DEF Runnable
  <1>6. Sched!IdleLoop
    BY <1>2, <1>3, <1>5, SameSearch, Zenon DEF Sched!IdleLoop, Runnable
  <1> QED
    BY <1>6, Zenon DEF Allowed, Sched!Next

\* handle_timer_interrupt and sys_thread_switch search the queues alike.
LEMMA TimerAllowed ==
    ASSUME SchedPre, NEW expired \in SUBSET wakeup, HandleTimerInterrupt(expired)
    PROVE  Allowed
  <1> DEFINE st == [t \in Threads |-> IF t \in expired THEN "RUNNING" ELSE state[t]]
             rdy == ready \cup expired \cup ({current} \ {Idle})
             preempt == {t \in expired : priority[t] > PrioOf(current)}
             best == {t \in preempt : \A u \in preempt : priority[u] <= priority[t]}
  <1>1. /\ expired \in SUBSET Threads /\ current \notin expired
        /\ current # Idle => IsRunning(state, current)
    BY IdsAssumption DEF SchedPre, TypeOK, HandleTimerInterrupt, Interruptible, InUser
  <1>2. /\ RunningIn(st) = Runnable \cup expired
        /\ RunningIn(st) \in SUBSET Threads
    BY <1>1 DEF SchedPre, TypeOK, Runnable, RunningIn, IsRunning
  <1>3. /\ state' = st /\ UNCHANGED priority
        /\ IF preempt # {}
           THEN current' \in best /\ ready' = rdy
           ELSE \/ current' = current /\ ready' = rdy
                \/ FindNextThread(RunningIn(st), rdy, current', ready')
    BY Zenon DEF HandleTimerInterrupt
  <1>4. RunningIn(state)' = RunningIn(st)
    BY <1>3, Zenon DEF RunningIn, IsRunning
  <1>5. current' \in RunningIn(st) \cup {Idle}
    <2>1. current \in RunningIn(st) \cup {Idle} /\ best \subseteq RunningIn(st)
      BY <1>1, <1>2, Zenon DEF SchedPre, TypeOK, Runnable
    <2> HIDE DEF st, rdy, preempt, best
    <2> QED
      BY <1>2, <1>3, <2>1, FindNextReturns, Zenon
  <1>6. Runnable' = Runnable \cup expired
    BY <1>2, <1>4, <1>5, IdsAssumption, Zenon DEF Runnable
  <1>7. Sched!HandleTimerInterrupt(expired)
    <2>1. IF preempt # {}
          THEN current' \in best /\ ready' = rdy
          ELSE \/ current' = current /\ ready' = rdy
               \/ Sched!FindNextThread(Runnable \cup expired, rdy, current', ready')
      BY <1>2, <1>3, SameSearch, Zenon
    <2> QED
      BY <1>1, <1>3, <1>6, <2>1, Zenon DEF Sched!HandleTimerInterrupt, Runnable, PrioOf, Sched!PrioOf
  <1> QED
    BY <1>1, <1>7, Zenon DEF Allowed, Sched!Next

\* A hardware interrupt is handed to its handler thread.
LEMMA InterruptAllowed ==
    ASSUME SchedPre, NEW i \in Irqs, HandleInterrupt(i)
    PROVE  Allowed
  <1> DEFINE o == interruptOwner[i]
  <1>1. /\ o # Null => o \in Threads
        /\ current # Idle => current \in Threads /\ IsRunning(state, current)
        /\ UNCHANGED priority
    BY Zenon DEF SchedPre, TypeOK, HandleInterrupt, IrqHandler, Interruptible, InUser
  <1>2. CASE UNCHANGED <<state, ready, current>>
    BY <1>1, <1>2, Zenon DEF Allowed, Stuttering, Runnable, RunningIn, IsRunning
  <1>3. CASE /\ o # Null /\ state[o] = "WAITING"
             /\ state' = [state EXCEPT ![o] = "LOCKED_RUNNING"]
             /\ ready' = ready \cup {o}
             /\ UNCHANGED current
    <2>1. o \in Threads
      BY <1>1, <1>3, Zenon
    <2> HIDE DEF o
    <2>2. Runnable' = Runnable \cup {o} /\ {o} \in SUBSET Threads
      BY <1>3, <2>1 DEF SchedPre, TypeOK, Runnable, RunningIn, IsRunning
    <2> QED
      BY <1>1, <1>3, <2>2, IsActivate, Zenon
  <1>4. CASE /\ o # Null /\ state[o] = "WAITING"
             /\ ready' = ready \cup ({current} \ {Idle})
             /\ current' = o
             /\ UNCHANGED state
    <2>1. o \in Threads /\ o # current /\ o # Idle
      BY <1>1, <1>4, IdsAssumption, Zenon DEF IsRunning
    <2> HIDE DEF o
    <2>2. Runnable' = ((Runnable \cup {} \cup {o}) \ {}) \ {Idle}
      BY <1>1, <1>4, <2>1, IdsAssumption DEF SchedPre, TypeOK, Runnable, RunningIn, IsRunning
    <2>3. ready' = ready \cup {} \cup ({current} \ {Idle}) /\ o \in Threads \cup {Idle}
      BY <1>4, <2>1, Zenon
    <2> QED
      BY <1>1, <1>4, <2>1, <2>2, <2>3, IsHandover, Zenon
  <1> QED
    BY <1>2, <1>3, <1>4, Zenon DEF HandleInterrupt

\* sys_thread_switch.
LEMMA ThreadSwitchAllowed ==
    ASSUME SchedPre, NEW c \in Threads, NEW t \in Threads \cup {Nil}, SysThreadSwitch(c, t)
    PROVE  Allowed
  <1>1. /\ current = c /\ c # Idle /\ IsRunning(state, c)
        /\ UNCHANGED <<state, priority>> /\ exists \in SUBSET Threads
    BY IdsAssumption, Zenon DEF SchedPre, TypeOK, SysThreadSwitch, InUser
  <1>2. /\ Runnable = RunningIn(state) /\ RunningIn(state)' = RunningIn(state)
        /\ RunningIn(state) \in SUBSET Threads
    BY <1>1, Zenon DEF Runnable, RunningIn, IsRunning
  <1>3. CASE t \in exists /\ IsRunning(state, t) /\ current' = t /\ ready' = ready \cup {c}
    <2>1. t \in Threads /\ t \in Runnable
      BY <1>1, <1>3, Zenon DEF Runnable, RunningIn
    <2>2. Runnable' = Runnable
      BY <1>2, <1>3, <2>1, Zenon DEF Runnable
    <2>3. Sched!SysThreadSwitch(t)
      BY <1>1, <1>3, <2>1, <2>2, Zenon DEF Sched!SysThreadSwitch, Runnable
    <2> QED
      BY <2>1, <2>3, Zenon DEF Allowed, Sched!Next
  <1>4. CASE FindNextThread(RunningIn(state), ready \cup {c}, current', ready')
    <2>1. current' = Idle \/ current' \in RunningIn(state)
      BY <1>2, <1>4, FindNextReturns, Zenon
    <2>2. Runnable' = Runnable
      BY <1>2, <2>1, Zenon DEF Runnable
    <2>3. /\ Runnable \cup {} = RunningIn(state)
          /\ ready \cup {} \cup ({current} \ {Idle}) = ready \cup {c}
      BY <1>1, <1>2, Zenon
    <2>4. Sched!FindNextThread(Runnable \cup {}, ready \cup {} \cup ({current} \ {Idle}),
                               current', ready')
      BY <1>4, <2>3, SameSearch, Zenon
    <2>5. {x \in {} : priority[x] > Sched!PrioOf(current)} = {}
      BY Zenon
    <2>6. Runnable' = Runnable \cup {} /\ current \notin {}
      BY <2>2, Zenon
    <2>7. Sched!HandleTimerInterrupt({})
      BY <1>1, <2>4, <2>5, <2>6, Zenon DEF Sched!HandleTimerInterrupt, Runnable
    <2>8. {} \in SUBSET Threads
      BY Zenon
    <2> QED
      BY <2>7, <2>8, Zenon DEF Allowed, Sched!Next
  <1> QED
    BY <1>3, <1>4, Zenon DEF SysThreadSwitch

\* sys_schedule.
LEMMA ScheduleAllowed ==
    ASSUME SchedPre, NEW c \in Threads, NEW t \in Threads, NEW p \in NewPrios,
           SysSchedule(c, t, p)
    PROVE  Allowed
  <1>1. p \in Sched!Prios
    BY ClientAssumption, Zenon DEF Sched!Prios
  <1>2. Runnable' = Runnable /\ current # Idle
    BY IdsAssumption, Zenon DEF SysSchedule, InUser, Runnable, RunningIn, IsRunning
  <1>3. Sched!SysSchedule(t, p)
    BY <1>2, Zenon DEF SysSchedule, Sched!SysSchedule, Runnable
  <1> QED
    BY <1>1, <1>3, Zenon DEF Allowed, Sched!Next

\* sys_lthread_ex_regs unwinds an IPC.
LEMMA ExRegsAllowed ==
    ASSUME SchedPre, NEW c \in Threads, NEW t \in ExRegs, SysLthreadExRegs(c, t)
    PROVE  Allowed
  <1>1. t \in Threads /\ TypeOK /\ "RUNNING" \in States
    BY ClientAssumption, Zenon DEF SchedPre, States
  <1>2. /\ UnwindIpc(t, "RUNNING") /\ ready' = ready \cup UnwindChain(t)
        /\ UNCHANGED <<priority, current>>
    BY Zenon DEF SysLthreadExRegs
  <1>3. /\ UnwindChain(t) \in SUBSET Threads /\ t \in UnwindChain(t)
        /\ state' = [u \in Threads |-> IF u = t THEN "RUNNING"
                       ELSE IF u \in UnwindChain(t) THEN "RUNNING" ELSE state[u]]
    BY <1>1, <1>2, UnwindType, Zenon
  <1>4. Runnable' = Runnable \cup UnwindChain(t)
    BY <1>1, <1>2, <1>3, Zenon DEF Runnable, RunningIn, IsRunning
  <1> QED
    BY <1>2, <1>3, <1>4, IsActivate, Zenon

\* sys_lthread_ex_regs creates a thread.
LEMMA CreateAllowed ==
    ASSUME SchedPre, NEW c \in Threads, NEW t \in ExRegs, CreateThread(c, t)
    PROVE  Allowed
  <1>1. /\ t \in Threads /\ t \notin ready /\ ~IsRunning(state, t) /\ t # current
        /\ current = c /\ c # Idle
    BY ClientAssumption, IdsAssumption, Zenon DEF SchedPre, CreateThread, InUser
  <1>2. /\ state' = [state EXCEPT ![t] = "RUNNING"]
        /\ priority' = [priority EXCEPT ![t] = priority[c]]
        /\ ready' = ready \cup {t} /\ UNCHANGED current
    BY Zenon DEF CreateThread
  <1>3. Runnable' = Runnable \cup {t} /\ t \notin Runnable \cup ready
    BY <1>1, <1>2 DEF SchedPre, TypeOK, Runnable, RunningIn, IsRunning
  <1>4. Sched!Create(t)
    BY <1>1, <1>2, <1>3, Zenon DEF Sched!Create, Runnable
  <1> QED
    BY <1>1, <1>4, Zenon DEF Allowed, Sched!Next

\* What free_thread unwinds: the partners woken are enqueued, and a locked
\* thread that nobody wakes is taken away.
LEMMA UnwindAllowed ==
    ASSUME TypeOK, NEW t \in Threads, Locked(t) => t # current,
           UnwindIpc(t, UnwindState(t)), ready' = ready \cup UnwindWoken(t),
           UNCHANGED <<priority, current>>
    PROVE  Allowed
  <1> DEFINE woken == UnwindWoken(t)
  <1>1. /\ UnwindChain(t) \in SUBSET Threads /\ t \in UnwindChain(t)
        /\ woken \subseteq UnwindChain(t) /\ UnwindChain(t) \subseteq {t} \cup woken
    BY ChainClosed, Zenon
  <1>2. state' = [u \in Threads |-> IF u = t THEN UnwindState(t)
                    ELSE IF u \in UnwindChain(t) THEN "RUNNING" ELSE state[u]]
    BY Zenon DEF UnwindIpc
  <1> HIDE DEF woken
  <1>3. /\ woken \in SUBSET Threads
        /\ \A u \in Threads \ {t} : IsRunning(state', u) <=> u \in woken \/ IsRunning(state, u)
    BY <1>1, <1>2, Zenon DEF IsRunning
  <1>4. state'[t] = UnwindState(t)
    BY <1>2, Zenon
  <1>5. CASE t \in woken \/ ~Locked(t)
    <2>1. IsRunning(state', t) <=> t \in woken \/ IsRunning(state, t)
      BY <1>4, <1>5, Zenon DEF woken, UnwindState, IsRunning
    <2>2. Runnable' = Runnable \cup woken
      BY <1>3, <2>1, Zenon DEF Runnable, RunningIn, IsRunning
    <2> QED
      BY <1>3, <2>2, IsActivate, Zenon DEF woken
  <1>6. CASE t \notin woken /\ Locked(t)
    <2>1. ~IsRunning(state', t)
      BY <1>4, <1>6, Zenon DEF woken, UnwindState, IsRunning
    <2>2. Runnable' = (Runnable \cup woken) \ {t}
      BY <1>3, <1>6, <2>1, Zenon DEF Runnable, RunningIn, IsRunning
    <2>3. /\ {t} \in SUBSET Threads /\ {} \in SUBSET Threads /\ {} \subseteq {t}
          /\ current \notin {t} /\ {t} \cap woken = {}
          /\ ready' = (ready \cup woken) \ {}
      BY <1>6, Zenon DEF woken
    <2> QED
      BY <1>3, <2>2, <2>3, IsRemove, Zenon
  <1> QED
    BY <1>5, <1>6, Zenon

\* Task deletion takes a thread out of the queues.
LEMMA FreeThreadAllowed ==
    ASSUME SchedPre, NEW t \in Threads, FreeThread(t)
    PROVE  Allowed
  BY UnwindAllowed, Zenon DEF SchedPre, FreeThread

\* Task deletion unwinds a thread that was sending to a deleted one.
LEMMA FreeSenderAllowed ==
    ASSUME SchedPre, NEW t \in Threads, FreeSender(t)
    PROVE  Allowed
  <1> DEFINE h == sendq.head[t]
  <1>1. /\ h \in Threads /\ TypeOK /\ freeing.at # Null
        /\ UnwindIpc(h, UnwindState(h)) /\ ready' = ready \cup UnwindWoken(h)
        /\ UNCHANGED <<priority, current>>
    BY IdsAssumption, Zenon DEF SchedPre, TypeOK, FreeSender
  <1>2. Locked(h) => h # current
    BY <1>1, Zenon DEF SchedPre
  <1> HIDE DEF h
  <1> QED
    BY <1>1, <1>2, UnwindAllowed, Zenon

\* Task deletion removes the thread itself.
LEMMA FreeTcbAllowed ==
    ASSUME SchedPre, NEW t \in Threads, FreeTcb(t)
    PROVE  Allowed
  <1>1. /\ t # current /\ UNCHANGED <<priority, current>>
        /\ state' = [state EXCEPT ![t] = "ABORTED"] /\ ready' = (ready \cup {}) \ {t}
    BY Zenon DEF SchedPre, FreeTcb
  <1>2. Runnable' = (Runnable \cup {}) \ {t}
    BY <1>1, Zenon DEF SchedPre, TypeOK, Runnable, RunningIn, IsRunning
  <1>3. /\ {t} \in SUBSET Threads /\ {} \in SUBSET Threads /\ {t} \subseteq {t}
        /\ current \notin {t} /\ {t} \cap {} = {}
    BY <1>1, Zenon
  <1> QED
    BY <1>1, <1>2, <1>3, IsRemove, Zenon

\* Every step of Ipc is a step of Scheduler, or leaves its variables alone.
LEMMA StepAllowed == SchedPre /\ [Next]_vars => [Sched!Next]_(Sched!vars)
  <1> SUFFICES ASSUME SchedPre, [Next]_vars PROVE Allowed
    BY Zenon DEF Allowed, Stuttering, Sched!vars, Runnable
  <1>1. CASE \E c \in Threads, dest \in Threads \cup Irqs \cup {Nil}, k \in Calls : SysIpc(c, dest, k)
    BY <1>1, SysIpcAllowed, Zenon
  <1>2. CASE \E c \in Threads : ResumeSend(c) \/ ResumeReceive(c)
    BY <1>2, ResumeSendAllowed, ResumeReceiveAllowed, Zenon
  <1>3. CASE IdleLoop
    BY <1>3, IdleLoopAllowed, Zenon
  <1>4. CASE \E expired \in SUBSET wakeup : HandleTimerInterrupt(expired)
    BY <1>4, TimerAllowed, Zenon
  <1>5. CASE \E i \in Irqs : HandleInterrupt(i)
    BY <1>5, InterruptAllowed, Zenon
  <1>6. CASE \E c \in Threads, t \in Threads \cup {Nil} : SysThreadSwitch(c, t)
    BY <1>6, ThreadSwitchAllowed, Zenon
  <1>7. CASE \E c, t \in Threads, p \in NewPrios : SysSchedule(c, t, p)
    BY <1>7, ScheduleAllowed, Zenon
  <1>8. CASE \E c \in Threads, t \in ExRegs : SysLthreadExRegs(c, t) \/ CreateThread(c, t)
    BY <1>8, ExRegsAllowed, CreateAllowed, Zenon
  <1>9. CASE \E c \in Threads, task \in Dying : SysTaskDelete(c, task)
    BY <1>9, Zenon DEF SysTaskDelete, Allowed, Stuttering, Runnable, RunningIn, IsRunning
  <1>10. CASE \E t \in Threads : FreeThread(t) \/ FreeSender(t) \/ FreeTcb(t)
    BY <1>10, FreeThreadAllowed, FreeSenderAllowed, FreeTcbAllowed, Zenon
  <1>11. CASE UNCHANGED vars
    BY <1>11, Zenon DEF vars, Allowed, Stuttering, Runnable, RunningIn, IsRunning
  <1> QED
    BY <1>1, <1>2, <1>3, <1>4, <1>5, <1>6, <1>7, <1>8, <1>9, <1>10, <1>11, Zenon DEF Next

----------------------------------------------------------------------------
(* Without deletions.                                                      *)

\* Live is what a step of the scheduler needs to know.
LEMMA LiveSuffices == TypeOK /\ Live => SchedPre
  <1> SUFFICES ASSUME TypeOK, Live PROVE SchedPre
    BY Zenon
  <1>1. freeing.who = {} /\ freeing.at = Null
    BY Zenon DEF Live, NotFreeing
  <1>2. current \in Threads => current \in exists /\ LiveThread(current)
    BY IdsAssumption, Zenon DEF Live
  <1>3. current \in Threads /\ pc[current] = User =>
          IsRunning(state, current) /\ current \notin wakeup
    BY <1>2 DEF LiveThread, Live, User
  <1>4. \A t \in ExRegs \ exists : t \notin ready /\ ~IsRunning(state, t) /\ t # current
    BY <1>2, ClientAssumption, Zenon DEF Live, IsRunning
  <1>5. current \in Threads => freeing.at # current
    BY <1>1, IdsAssumption, Zenon
  <1> QED
    BY <1>1, <1>2, <1>3, <1>4, <1>5, Zenon DEF SchedPre, LiveThread

\* The initial state of the IPC system is one of the scheduler.
LEMMA InitSched == Init => Sched!Init
  <1> SUFFICES ASSUME Init PROVE Sched!Init
    BY Zenon
  <1>1. RunningIn(state) = Boot
    BY ClientAssumption, Zenon DEF Init, RunningIn, IsRunning
  <1> QED
    BY <1>1, Zenon DEF Init, Sched!Init, Sched!Prios

\* While no task is deleted, and as long as no client replies with a receive
\* timeout of zero, every IPC, interrupt, timeout and lthread_ex_regs is one of
\* the hand-overs and wake-ups Scheduler allows.
THEOREM SchedulerRefinedAlive ==
    ASSUME Dying = {}, NoZeroReply
    PROVE  Spec => SchedulerRefined
  <1>1. Init => Live
    BY InitLive, Zenon
  <1>2. TypeOK /\ Live /\ [Next]_vars => Live'
    BY NextLive, Zenon
  <1>3. TypeOK /\ Live /\ [Next]_vars => [Sched!Next]_(Sched!vars)
    BY LiveSuffices, StepAllowed, Zenon
  <1> QED
    BY <1>1, <1>2, <1>3, InitSched, TypeCorrect, PTL DEF Spec, SchedulerRefined, Sched!Spec

----------------------------------------------------------------------------
(* With deletions.                                                         *)

\* t is about to be freed, or is a sender free_thread has just unwound.
CutOff(t) == t \in freeing.who \/ (freeing.at # Null /\ sendq.head[freeing.at] = t)

\* The inductive invariant: a transfer between locked threads is over before
\* anyone else runs, so that no deletion comes between; and what a deletion
\* leaves behind in a blocked thread concerns dead threads only.
OrderlyThread(t) ==
    /\ pc[t].at = "send" => /\ pc[t].dest # t /\ pc[t].rcv # "open"
                            /\ pc[t].rcv = "from" => pc[t].rto # "zero"
                            /\ state[t] \in {"POLLING", "RUNNING", "LOCKED_RUNNING"}
    /\ state[t] = "WAITING" => pc[t].at = "recv" \/ CutOff(t)
    /\ state[t] = "POLLING" => \/ pc[t].at = "send" /\ partner[t] = pc[t].dest
                               \/ CutOff(t) \/ partner[t] \notin exists \ freeing.who
    /\ state[t] = "LOCKED_WAITING" =>
          /\ pc[t].at = "locked" /\ current \in Threads
          /\ \/ current = t
             \/ /\ state[current] = "LOCKED_RUNNING"
                /\ pc[current].at = "send" /\ pc[current].dest = t
    /\ state[t] = "LOCKED_RUNNING" =>
          \/ pc[t].at = "recv" /\ partner[t] \notin Threads
          \/ /\ current = t /\ pc[t].at = "send"
             /\ pc[t].dest \in exists /\ state[pc[t].dest] = "LOCKED_WAITING"

Orderly ==
    /\ current \in exists \cup {Idle}
    /\ \A t \in Threads \ exists : state[t] = "ABORTED" /\ t \notin ready \cup wakeup
    /\ current \in Threads => /\ pc[current] = User => state[current] = "RUNNING"
                              /\ pc[current].at = "send" => state[current] # "POLLING"
    /\ \A t \in exists : OrderlyThread(t)
    /\ \A t \in wakeup : state[t] # "RUNNING" /\ pc[t].at \in {"send", "recv"}
    /\ freeing # NotFreeing => current \in Threads /\ pc[current] = User
    /\ current \notin freeing.who /\ freeing.who \subseteq exists
    /\ freeing.at \in freeing.who \cup {Null} /\ freeing.at \notin wakeup

\* Between two system calls nobody is locked but for an interrupt.
LEMMA OrderlyQuiet ==
    ASSUME Orderly, current = Idle \/ (current \in Threads /\ pc[current] = User)
    PROVE  \A t \in exists : /\ state[t] # "LOCKED_WAITING"
                             /\ state[t] = "LOCKED_RUNNING" =>
                                  pc[t].at = "recv" /\ partner[t] \notin Threads
  BY IdsAssumption DEF Orderly, OrderlyThread, User

\* What the parts of an ipc system call are passed: c has sent to the thread
\* to, if to is not Null, and only the partners of the two have changed.
OrderlyPassed(c, to, par, wk) ==
    /\ TypeOK /\ Orderly /\ freeing = NotFreeing
    /\ c \in exists /\ current = c /\ state[c] # "POLLING"
    /\ to \in (exists \ {c}) \cup {Null}
    /\ to # Null => state[to] \in {"WAITING", "LOCKED_WAITING"}
    /\ par \in [Threads -> Partners]
    /\ \A t \in exists \ {c} :
          /\ state[t] \in {"POLLING", "LOCKED_RUNNING"} => par[t] = partner[t]
          /\ state[t] = "LOCKED_WAITING" => t = to
          /\ state[t] = "LOCKED_RUNNING" => pc[t].at = "recv" /\ par[t] \notin Threads
    /\ wk \subseteq wakeup \ {c}
    /\ UNCHANGED <<exists, freeing>>

\* Return to user mode.
LEMMA ReturnIpcOrderly ==
    ASSUME NEW c, NEW par, NEW box, NEW wk, NEW pend, NEW mask,
           OrderlyPassed(c, Null, par, wk), state[c] = "RUNNING",
           ReturnIpc(c, par, box, wk, pend, mask)
    PROVE  Orderly'
  <1>1. freeing.who = {} /\ freeing.at = Null /\ Null \notin Threads
    BY IdsAssumption, Zenon DEF OrderlyPassed, NotFreeing
  <1> USE DEF OrderlyPassed, ReturnIpc
  <1>2. \A t \in exists : OrderlyThread(t)'
    BY <1>1 DEF Orderly, OrderlyThread, CutOff, TypeOK, User
  <1> QED
    BY <1>1, <1>2, IdsAssumption DEF Orderly, TypeOK, User

\* Blocking, and switching to the thread just sent to or to idle.
LEMMA BlockOrderly ==
    ASSUME NEW c, NEW to, NEW par, NEW wk, OrderlyPassed(c, to, par, wk), NEW p,
           wakeup' \subseteq wk \cup {c}, partner' = [par EXCEPT ![c] = p],
           state' = [state EXCEPT ![c] = "WAITING"],
           pc' = [pc EXCEPT ![c] = [at |-> "recv"]],
           current' = IF to # Null THEN to ELSE Idle, UNCHANGED <<ready, sendq>>
    PROVE  Orderly'
  <1>1. freeing.who = {} /\ freeing.at = Null /\ Null \notin Threads
    BY IdsAssumption, Zenon DEF OrderlyPassed, NotFreeing
  <1> USE DEF OrderlyPassed
  <1>2. to # Null => to \in Threads /\ pc[to].at \in {"recv", "locked"} /\ pc[to] # User
    BY <1>1 DEF Orderly, OrderlyThread, CutOff, TypeOK, User
  <1>3. \A t \in exists : OrderlyThread(t)'
    BY <1>1, <1>2 DEF Orderly, OrderlyThread, CutOff, TypeOK, User
  <1> QED
    BY <1>1, <1>2, <1>3, IdsAssumption DEF Orderly, TypeOK, User

\* Switching to the thread just sent to, and going on later.
LEMMA SwitchOrderly ==
    ASSUME NEW c, NEW to, NEW par, NEW wk, OrderlyPassed(c, to, par, wk), to # Null,
           wakeup' = wk, partner' = par,
           state' = [state EXCEPT ![c] = "RUNNING"],
           pc' = [pc EXCEPT ![c] = User],
           current' = to, ready' = ready \cup {c}, UNCHANGED sendq
    PROVE  Orderly'
  <1>1. freeing.who = {} /\ freeing.at = Null /\ Null \notin Threads
    BY IdsAssumption, Zenon DEF OrderlyPassed, NotFreeing
  <1> USE DEF OrderlyPassed
  <1>2. to \in Threads /\ pc[to].at \in {"recv", "locked"} /\ pc[to] # User
    BY <1>1 DEF Orderly, OrderlyThread, CutOff, TypeOK, User
  <1>3. \A t \in exists : OrderlyThread(t)'
    BY <1>1, <1>2 DEF Orderly, OrderlyThread, CutOff, TypeOK, User
  <1> QED
    BY <1>1, <1>2, <1>3, IdsAssumption DEF Orderly, TypeOK, User

\* Locking a polling sender, and switching to it.
LEMMA PollingOrderly ==
    ASSUME NEW c, NEW par, NEW box, NEW wk, OrderlyPassed(c, Null, par, wk),
           NEW from \in Threads, state[from] = "POLLING", par[from] = c,
           ReceivePolling(c, Null, from, par, box, wk)
    PROVE  Orderly'
  <1>1. freeing.who = {} /\ freeing.at = Null /\ Null \notin Threads
    BY IdsAssumption, Zenon DEF OrderlyPassed, NotFreeing
  <1> USE DEF OrderlyPassed, ReceivePolling
  <1>2. from \in exists \ {c} /\ pc[from].at = "send" /\ pc[from].dest = c /\ pc[from] # User
    BY <1>1, SMTT(30) DEF Orderly, OrderlyThread, CutOff, TypeOK, User
  <1>3. \A t \in exists : OrderlyThread(t)'
    BY <1>1, <1>2 DEF Orderly, OrderlyThread, CutOff, TypeOK, User
  <1> QED
    BY <1>1, <1>2, <1>3, IdsAssumption DEF Orderly, TypeOK, User

\* The receive phase: of a call without a send, or from the thread sent to.
LEMMA ReceivePhaseOrderly ==
    ASSUME NEW c, NEW to, NEW par, NEW box, NEW wk, OrderlyPassed(c, to, par, wk),
           NEW dest \in Threads \cup Irqs \cup {Nil},
           NEW rcv \in {"from", "open"}, NEW rto,
           \/ to = Null /\ state[c] = "RUNNING"
           \/ to # Null /\ dest = to /\ rcv = "from" /\ rto # "zero",
           ReceivePhase(c, to, dest, rcv, rto, par, box, wk)
    PROVE  Orderly'
  <1> DEFINE served == intrPending[c] # Null /\ intrPending[c].inService
             pend   == IF served THEN Null ELSE intrPending[c]
             mask   == IF served THEN [masked EXCEPT ![intrPending[c].irq] = FALSE]
                                 ELSE masked
             from   == IF rcv = "from" THEN dest ELSE sendq.head[c]
             polls  == from # Null /\ state[from] = "POLLING" /\ par[from] = c
  <1>0. TypeOK /\ exists \in SUBSET Threads /\ Null \notin exists
    BY IdsAssumption, Zenon DEF OrderlyPassed, TypeOK
  <1>1. \/ /\ rcv = "from" /\ dest \notin Threads
           /\ IpcHandleKernelId(c, dest, rto, par, box, wk, pend, mask)
        \/ /\ (rcv = "from" /\ dest \notin exists) \/ rto = "zero"
           /\ ReturnIpc(c, par, box, wk, pend, mask)
        \/ rcv = "open" /\ ReceiveInterrupt(c, to, par, box, wk, pend, mask)
        \/ ReceiveBlock(c, to, dest, rcv, rto, par, box, wk)
        \/ /\ rcv = "from" => dest \in exists
           /\ polls
           /\ ReceivePolling(c, to, from, par, box, wk)
    BY Zenon DEF ReceivePhase
  <1>2. /\ from # Null /\ (rcv = "from" => dest \in exists) => from \in Threads
        /\ to # Null => from = to /\ state[to] # "POLLING" /\ to \in exists
    BY <1>0 DEF TypeOK, OrderlyPassed
  <1> HIDE DEF pend, mask, from, served
  <1>3. CASE /\ rcv = "from" /\ dest \notin Threads
             /\ IpcHandleKernelId(c, dest, rto, par, box, wk, pend, mask)
    <2>0. state[c] = "RUNNING" /\ to = Null
      BY <1>0, <1>2, <1>3, Zenon
    <2>1. CASE \E p : ReturnIpc(c, par, box, wk, p, mask)
      BY <2>0, <2>1, ReturnIpcOrderly, Zenon
    <2>2. CASE /\ pc' = [pc EXCEPT ![c] = User]
               /\ partner' = par /\ inbox' = box /\ wakeup' = wk
               /\ UNCHANGED <<state, ready, sendq, current>>
      <3>1. freeing.who = {} /\ freeing.at = Null /\ Null \notin Threads
        BY IdsAssumption, Zenon DEF OrderlyPassed, NotFreeing
      <3>2. \A t \in exists : OrderlyThread(t)'
        BY <2>0, <2>2, <3>1 DEF OrderlyPassed, Orderly, OrderlyThread, CutOff, TypeOK, User
      <3> QED
        BY <2>0, <2>2, <3>1, <3>2, IdsAssumption DEF OrderlyPassed, Orderly, TypeOK, User
    <2>3. CASE /\ wakeup' = IF rto = "finite" THEN wk \cup {c} ELSE wk
               /\ partner' = [par EXCEPT ![c] = IF dest = Nil THEN Invalid ELSE dest]
               /\ state' = [state EXCEPT ![c] = "WAITING"]
               /\ pc' = [pc EXCEPT ![c] = [at |-> "recv"]]
               /\ current' = Idle
               /\ UNCHANGED <<ready, sendq, interruptOwner>>
      <3> DEFINE p == IF dest = Nil THEN Invalid ELSE dest
      <3>1. /\ partner' = [par EXCEPT ![c] = p] /\ wakeup' \subseteq wk \cup {c}
            /\ state' = [state EXCEPT ![c] = "WAITING"]
            /\ pc' = [pc EXCEPT ![c] = [at |-> "recv"]]
            /\ current' = IF to # Null THEN to ELSE Idle
            /\ UNCHANGED <<ready, sendq>>
        BY <2>0, <2>3, Zenon
      <3> HIDE DEF p
      <3> QED
        BY <3>1, BlockOrderly, Zenon
    <2> QED
      BY <1>3, <2>1, <2>2, <2>3, Zenon DEF IpcHandleKernelId
  <1>4. CASE /\ (rcv = "from" /\ dest \notin exists) \/ rto = "zero"
             /\ ReturnIpc(c, par, box, wk, pend, mask)
    <2>1. state[c] = "RUNNING" /\ to = Null
      BY <1>2, <1>4, Zenon
    <2> QED
      BY <1>4, <2>1, ReturnIpcOrderly, Zenon
  <1>5. CASE rcv = "open" /\ ReceiveInterrupt(c, to, par, box, wk, pend, mask)
    BY <1>5, ReturnIpcOrderly, Zenon DEF ReceiveInterrupt
  <1>6. CASE ReceiveBlock(c, to, dest, rcv, rto, par, box, wk)
    <2> DEFINE p == IF rcv = "open" THEN Nil ELSE dest
    <2>1. /\ wakeup' \subseteq wk \cup {c} /\ partner' = [par EXCEPT ![c] = p]
          /\ state' = [state EXCEPT ![c] = "WAITING"]
          /\ pc' = [pc EXCEPT ![c] = [at |-> "recv"]]
          /\ current' = IF to # Null THEN to ELSE Idle
          /\ UNCHANGED <<ready, sendq>>
      BY <1>6, Zenon DEF ReceiveBlock
    <2> HIDE DEF p
    <2> QED
      BY <2>1, BlockOrderly, Zenon
  <1>7. CASE /\ rcv = "from" => dest \in exists
             /\ polls
             /\ ReceivePolling(c, to, from, par, box, wk)
    <2>1. to = Null
      BY <1>2, <1>7, Zenon
    <2> QED
      BY <1>2, <1>7, <2>1, PollingOrderly, Zenon
  <1> QED
    BY <1>1, <1>3, <1>4, <1>5, <1>6, <1>7, Zenon

\* What follows the transfer of a message.
LEMMA AfterTransferOrderly ==
    ASSUME NEW c, NEW to, NEW par, NEW wk, OrderlyPassed(c, to, par, wk), to # Null,
           NEW rcv \in {"none", "from"}, NEW rto, rcv = "from" => rto # "zero",
           AfterTransfer(c, to, rcv, rto, par, wk)
    PROVE  Orderly'
  <1> DEFINE par2 == [par EXCEPT ![to] = c]
             box2 == [inbox EXCEPT ![to] = c]
  <1>1. OrderlyPassed(c, to, par2, wk) /\ to \in Threads
    BY Zenon DEF OrderlyPassed, TypeOK, Partners
  <1>2. CASE rcv = "none"
    <2>1. /\ wakeup' = wk /\ partner' = par2
          /\ state' = [state EXCEPT ![c] = "RUNNING"]
          /\ pc' = [pc EXCEPT ![c] = User]
          /\ current' = to /\ ready' = ready \cup {c} /\ UNCHANGED sendq
      BY <1>2, Zenon DEF AfterTransfer
    <2> HIDE DEF par2
    <2> QED
      BY <1>1, <2>1, SwitchOrderly, Zenon
  <1>3. CASE rcv = "from"
    <2>1. ReceivePhase(c, to, to, rcv, rto, par2, box2, wk)
      BY <1>3, Zenon DEF AfterTransfer
    <2> HIDE DEF par2, box2
    <2> QED
      BY <1>1, <1>3, <2>1, ReceivePhaseOrderly, Zenon
  <1> QED
    BY <1>2, <1>3, Zenon

----------------------------------------------------------------------------
\* The ipc system call.
LEMMA SysIpcOrderly ==
    ASSUME TypeOK, Orderly, NoZeroReply, NoReplyWait, NEW c \in Threads,
           NEW dest \in Threads \cup Irqs \cup {Nil}, NEW k \in Calls, SysIpc(c, dest, k)
    PROVE  Orderly'
  <1> DEFINE par == [partner EXCEPT ![c] = dest]
  <1>1. /\ k.snd \in BOOLEAN /\ k.rcv \in {"none", "from", "open"}
        /\ ~k.snd => k.rcv \in {"from", "open"}
        /\ k.snd => k.rcv \in {"none", "from"}
        /\ k.snd /\ k.rcv = "from" => k.rto # "zero"
    BY ClientAssumption, Zenon DEF CallType, NoZeroReply, NoReplyWait
  <1>2. /\ c \in exists /\ current = c /\ pc[c] = User /\ state[c] = "RUNNING"
        /\ c \notin wakeup /\ freeing = NotFreeing
        /\ UNCHANGED <<exists, freeing>>
    BY IdsAssumption, Zenon DEF SysIpc, InUser, Orderly, User
  <1>3. OrderlyPassed(c, Null, partner, wakeup)
    BY <1>2, OrderlyQuiet, Zenon DEF OrderlyPassed, TypeOK, Partners
  <1>4. dest \in exists => OrderlyPassed(c, Null, par, wakeup)
    BY <1>3, Zenon DEF OrderlyPassed, Partners, TypeOK
  <1>5. dest \in exists /\ state[dest] = "WAITING" => OrderlyPassed(c, dest, par, wakeup)
    BY <1>2, <1>4, OrderlyQuiet, Zenon DEF OrderlyPassed
  <1>6. \/ /\ ~k.snd
           /\ ReceivePhase(c, Null, dest, k.rcv, k.rto, partner, inbox, wakeup)
        \/ ReturnIpc(c, partner, inbox, wakeup, intrPending[c], masked)
        \/ /\ k.snd /\ dest \in exists /\ state[dest] = "WAITING"
           /\ AfterTransfer(c, dest, k.rcv, k.rto, par, wakeup)
        \/ /\ dest \in exists
           /\ ReturnIpc(c, par, inbox, wakeup, intrPending[c], masked)
        \/ /\ k.snd /\ dest \in exists \ {c}
           /\ partner' = par
           /\ wakeup' = IF k.sto = "finite" THEN wakeup \cup {c} ELSE wakeup
           /\ state' = [state EXCEPT ![c] = "POLLING"]
           /\ pc' = [pc EXCEPT ![c] = [at |-> "send", dest |-> dest,
                                       rcv |-> k.rcv, rto |-> k.rto]]
           /\ current' = Idle
           /\ UNCHANGED <<ready, inbox, irqVars>>
    BY Zenon DEF SysIpc
  <1> HIDE DEF par
  <1>7. CASE /\ ~k.snd
             /\ ReceivePhase(c, Null, dest, k.rcv, k.rto, partner, inbox, wakeup)
    <2>1. k.rcv \in {"from", "open"} /\ (Null = Null /\ state[c] = "RUNNING")
      BY <1>1, <1>2, <1>7, Zenon
    <2> QED
      BY <1>3, <1>7, <2>1, ReceivePhaseOrderly, Zenon
  <1>8. CASE ReturnIpc(c, partner, inbox, wakeup, intrPending[c], masked)
    BY <1>2, <1>3, <1>8, ReturnIpcOrderly, Zenon
  <1>9. CASE /\ k.snd /\ dest \in exists /\ state[dest] = "WAITING"
             /\ AfterTransfer(c, dest, k.rcv, k.rto, par, wakeup)
    <2>1. dest # Null
      BY <1>9, IdsAssumption DEF TypeOK
    <2> QED
      BY <1>1, <1>5, <1>9, <2>1, AfterTransferOrderly, Zenon
  <1>10. CASE /\ dest \in exists
              /\ ReturnIpc(c, par, inbox, wakeup, intrPending[c], masked)
    BY <1>2, <1>4, <1>10, ReturnIpcOrderly, Zenon
  <1>11. CASE /\ k.snd /\ dest \in exists \ {c}
              /\ partner' = par
              /\ wakeup' = IF k.sto = "finite" THEN wakeup \cup {c} ELSE wakeup
              /\ state' = [state EXCEPT ![c] = "POLLING"]
              /\ pc' = [pc EXCEPT ![c] = [at |-> "send", dest |-> dest,
                                          rcv |-> k.rcv, rto |-> k.rto]]
              /\ current' = Idle
              /\ UNCHANGED <<ready, inbox, irqVars>>
    <2>1. pc'[c] # User /\ pc'[c].at = "send" /\ pc'[c].dest = dest
          /\ pc'[c].rcv = k.rcv /\ pc'[c].rto = k.rto
      BY <1>11, Zenon DEF User, TypeOK
    <2>2. OrderlyThread(c)'
      BY <1>1, <1>2, <1>11, <2>1, SMTT(30) DEF OrderlyThread, par, TypeOK
    <2>3. \A t \in exists \ {c} : OrderlyThread(t)'
      <3>1. freeing.who = {} /\ freeing.at = Null
        BY <1>2, Zenon DEF NotFreeing
      <3>2. \A t \in exists \ {c} : /\ state'[t] = state[t] /\ pc'[t] = pc[t]
                                    /\ partner'[t] = partner[t]
        BY <1>11, Zenon DEF par, TypeOK
      <3> QED
        BY <1>2, <3>1, <3>2, OrderlyQuiet DEF Orderly, OrderlyThread, CutOff
    <2> QED
      BY <1>2, <1>11, <2>1, <2>2, <2>3, IdsAssumption, SMTT(30) DEF Orderly, TypeOK, NotFreeing
  <1> QED
    BY <1>6, <1>7, <1>8, <1>9, <1>10, <1>11, Zenon

\* A polling sender goes on.
LEMMA ResumeSendOrderly ==
    ASSUME TypeOK, Orderly, NEW c \in Threads, ResumeSend(c)
    PROVE  Orderly'
  <1>1. /\ c \in exists /\ current = c /\ pc[c].at = "send" /\ pc[c] # User
        /\ UNCHANGED <<exists, freeing>>
    BY IdsAssumption DEF ResumeSend, Orderly, User
  <1>2. freeing = NotFreeing /\ OrderlyThread(c) /\ state[c] # "POLLING"
    BY <1>1, Zenon DEF Orderly
  <1>3. pc[c].rcv \in {"none", "from"} /\ (pc[c].rcv = "from" => pc[c].rto # "zero")
    <2>1. pc[c] \in Pcs
      BY Zenon DEF TypeOK
    <2>2. pc[c].rcv \in {"none", "from", "open"}
      BY <1>1, <2>1 DEF Pcs, User
    <2> QED
      BY <1>1, <1>2, <2>2, Zenon DEF OrderlyThread
  <1>4. CASE /\ state[c] = "RUNNING"
             /\ ReturnIpc(c, partner, inbox, wakeup, intrPending[c], masked)
    <2>1. OrderlyPassed(c, Null, partner, wakeup)
      BY <1>1, <1>2, <1>4 DEF OrderlyPassed, Orderly, OrderlyThread, TypeOK, Partners
    <2> QED
      BY <1>4, <2>1, ReturnIpcOrderly, Zenon
  <1>5. CASE /\ state[c] # "RUNNING"
             /\ AfterTransfer(c, pc[c].dest, pc[c].rcv, pc[c].rto, partner, wakeup \ {c})
    <2>1. /\ state[c] = "LOCKED_RUNNING" /\ pc[c].dest \in exists \ {c} /\ pc[c].dest # Null
          /\ state[pc[c].dest] = "LOCKED_WAITING"
      BY <1>1, <1>2, <1>5, IdsAssumption DEF OrderlyThread, TypeOK
    <2>2. \A t \in exists \ {c} :
             /\ state[t] = "LOCKED_WAITING" => t = pc[c].dest
             /\ state[t] = "LOCKED_RUNNING" => pc[t].at = "recv" /\ partner[t] \notin Threads
      BY <1>1, Zenon DEF Orderly, OrderlyThread
    <2>3. OrderlyPassed(c, pc[c].dest, partner, wakeup \ {c})
      BY <1>1, <1>2, <2>1, <2>2, Zenon DEF OrderlyPassed, TypeOK, Partners
    <2> QED
      BY <1>3, <1>5, <2>1, <2>3, AfterTransferOrderly, Zenon
  <1> QED
    BY <1>4, <1>5, Zenon DEF ResumeSend

\* A receiver goes on.
LEMMA ResumeReceiveOrderly ==
    ASSUME TypeOK, Orderly, NEW c \in Threads, ResumeReceive(c)
    PROVE  Orderly'
  <1>1. /\ c \in exists /\ current = c /\ pc[c].at \in {"recv", "locked"} /\ pc[c] # User
        /\ pc' = [pc EXCEPT ![c] = User]
        /\ UNCHANGED <<exists, partner, priority, ready, sendq, current, irqVars, freeing>>
    BY IdsAssumption DEF ResumeReceive, Orderly, User
  <1>2. /\ state' = state \/ state' = [state EXCEPT ![c] = "RUNNING"]
        /\ state'[c] = "RUNNING"
        /\ wakeup' \subseteq wakeup /\ c \notin wakeup'
    BY <1>1 DEF ResumeReceive, Orderly, TypeOK
  <1>3. freeing = NotFreeing /\ freeing.who = {} /\ freeing.at = Null
    BY <1>1 DEF Orderly, NotFreeing
  <1>4. \A t \in exists : OrderlyThread(t)'
    BY <1>1, <1>2, <1>3 DEF Orderly, OrderlyThread, CutOff, TypeOK, User
  <1> QED
    BY <1>1, <1>2, <1>3, <1>4, SMTT(30) DEF Orderly, TypeOK, User

\* Steps that switch to a runnable thread, from user mode or idle.
LEMMA SearchOrderly ==
    ASSUME TypeOK, Orderly, freeing = NotFreeing,
           current = Idle \/ (current \in Threads /\ pc[current] = User),
           NEW next \in RunningIn(state) \cup {Idle, current},
           current' = next, ready' \subseteq ready \cup exists,
           UNCHANGED <<exists, state, partner, wakeup, sendq, pc, freeing>>
    PROVE  Orderly'
  <1>1. \A t \in exists : /\ state[t] # "LOCKED_WAITING"
                          /\ state[t] = "LOCKED_RUNNING" =>
                                  pc[t].at = "recv" /\ partner[t] \notin Threads
    BY OrderlyQuiet, Zenon
  <1>2. next \in exists \cup {Idle}
    BY Zenon DEF Orderly, RunningIn, IsRunning
  <1>3. \A t \in exists : OrderlyThread(t)'
    BY <1>1 DEF Orderly, OrderlyThread, CutOff
  <1>4. next \in Threads => /\ pc[next] = User => state[next] = "RUNNING"
                            /\ pc[next].at = "send" => state[next] # "POLLING"
    BY <1>1, <1>2, IdsAssumption DEF Orderly, RunningIn, IsRunning, User
  <1> QED
    BY <1>2, <1>3, <1>4, Zenon DEF Orderly, NotFreeing, TypeOK

\* The idle loop.
LEMMA IdleLoopOrderly == TypeOK /\ Orderly /\ IdleLoop => Orderly'
  <1> SUFFICES ASSUME TypeOK, Orderly, IdleLoop PROVE Orderly'
    BY Zenon
  <1>1. RunningIn(state) \in SUBSET Threads /\ current = Idle /\ freeing = NotFreeing
    BY IdsAssumption, Zenon DEF RunningIn, IdleLoop, Orderly
  <1>2. current' \in RunningIn(state) \cup {Idle, current} /\ ready' \subseteq ready
    BY <1>1, FindNextReturns, Zenon DEF IdleLoop
  <1> QED
    BY <1>1, <1>2, SearchOrderly, Zenon DEF IdleLoop

\* sys_thread_switch.
LEMMA ThreadSwitchOrderly ==
    ASSUME TypeOK, Orderly, NEW c \in Threads, NEW t, SysThreadSwitch(c, t)
    PROVE  Orderly'
  <1>1. /\ RunningIn(state) \in SUBSET Threads /\ c \in exists
        /\ current \in Threads /\ pc[current] = User /\ freeing = NotFreeing
    BY IdsAssumption, Zenon DEF RunningIn, Orderly, SysThreadSwitch, InUser
  <1>2. current' \in RunningIn(state) \cup {Idle, current} /\ ready' \subseteq ready \cup {c}
    <2>1. CASE t \in exists /\ IsRunning(state, t)
      BY <2>1, Zenon DEF SysThreadSwitch, RunningIn, TypeOK
    <2>2. CASE ~(t \in exists /\ IsRunning(state, t))
      BY <1>1, <2>2, FindNextReturns, Zenon DEF SysThreadSwitch
    <2> QED
      BY <2>1, <2>2, Zenon
  <1> QED
    BY <1>1, <1>2, SearchOrderly, Zenon DEF SysThreadSwitch

\* The timer interrupt.
LEMMA TimerOrderly ==
    ASSUME TypeOK, Orderly, NEW expired \in SUBSET wakeup, HandleTimerInterrupt(expired)
    PROVE  Orderly'
  <1> DEFINE st == [t \in Threads |-> IF t \in expired THEN "RUNNING" ELSE state[t]]
             rdy == ready \cup expired \cup ({current} \ {Idle})
  <1>1. /\ expired \subseteq exists /\ expired \subseteq Threads
        /\ freeing = NotFreeing /\ freeing.who = {} /\ freeing.at = Null
        /\ current = Idle \/ (current \in Threads /\ pc[current] = User)
    BY IdsAssumption DEF Orderly, TypeOK, HandleTimerInterrupt, Interruptible, InUser, NotFreeing
  <1>2. \A t \in exists : /\ state[t] # "LOCKED_WAITING"
                          /\ state[t] = "LOCKED_RUNNING" =>
                                  pc[t].at = "recv" /\ partner[t] \notin Threads
    BY <1>1, OrderlyQuiet, Zenon
  <1>3. /\ RunningIn(st) \in SUBSET Threads /\ RunningIn(st) \subseteq exists
        /\ rdy \subseteq ready \cup exists
    BY <1>1, Zenon DEF RunningIn, IsRunning, Orderly
  <1>4. /\ state' = st /\ wakeup' = wakeup \ expired
        /\ UNCHANGED <<exists, partner, sendq, pc, freeing>>
    BY Zenon DEF HandleTimerInterrupt
  <1>5. current' \in RunningIn(st) \cup {Idle, current} /\ ready' \subseteq rdy
    <2>1. CASE current' \in expired /\ ready' = rdy
      BY <1>1, <2>1, Zenon DEF RunningIn, IsRunning
    <2>2. CASE current' = current /\ ready' = rdy
      BY <2>2, Zenon
    <2>3. CASE FindNextThread(RunningIn(st), rdy, current', ready')
      <3> HIDE DEF st, rdy
      <3> QED
        BY <1>3, <2>3, FindNextReturns, Zenon
    <2> QED
      BY <2>1, <2>2, <2>3, Zenon DEF HandleTimerInterrupt
  <1>6. \A t \in exists : OrderlyThread(t)'
    BY <1>1, <1>2, <1>4 DEF Orderly, OrderlyThread, CutOff, TypeOK
  <1>7. current' \in Threads => /\ pc[current'] = User => st[current'] = "RUNNING"
                                /\ pc[current'].at = "send" => st[current'] # "POLLING"
    <2>1. CASE current' \in RunningIn(st)
      BY <1>2, <1>3, <2>1 DEF RunningIn, IsRunning, User
    <2>2. CASE current' = current /\ current \in Threads
      BY <1>1, <2>2, IdsAssumption, Zenon DEF Orderly, User
    <2> QED
      BY <1>5, <2>1, <2>2, IdsAssumption, Zenon
  <1>8. current' \in exists \cup {Idle}
    BY <1>3, <1>5, Zenon DEF Orderly
  <1> HIDE DEF rdy
  <1> QED
    BY <1>1, <1>3, <1>4, <1>5, <1>6, <1>7, <1>8, SMTT(30) DEF Orderly, TypeOK

\* An interrupt: its owner may be dead, and is then not waiting.
LEMMA InterruptOrderly ==
    ASSUME TypeOK, Orderly, NEW i \in Irqs, HandleInterrupt(i)
    PROVE  Orderly'
  <1> DEFINE o == interruptOwner[i]
  <1>1. /\ freeing = NotFreeing /\ freeing.who = {} /\ freeing.at = Null
        /\ current = Idle \/ (current \in Threads /\ pc[current] = User)
        /\ UNCHANGED <<exists, partner, priority, wakeup, sendq, pc, interruptOwner, freeing>>
    BY IdsAssumption DEF Orderly, HandleInterrupt, IrqHandler, Interruptible, InUser, NotFreeing
  <1>2. \A t \in exists : /\ state[t] # "LOCKED_WAITING"
                          /\ state[t] = "LOCKED_RUNNING" =>
                                  pc[t].at = "recv" /\ partner[t] \notin Threads
    BY <1>1, OrderlyQuiet, Zenon
  <1>3. \/ UNCHANGED <<state, ready, current>>
        \/ /\ o # Null /\ state[o] = "WAITING" /\ partner[o] \in {i, Nil}
           /\ \/ /\ state' = [state EXCEPT ![o] = "LOCKED_RUNNING"]
                 /\ ready' = ready \cup {o} /\ UNCHANGED current
              \/ /\ ready' = ready \cup ({current} \ {Idle})
                 /\ current' = o /\ UNCHANGED state
    BY Zenon DEF HandleInterrupt
  <1>4. o # Null => o \in Threads
    BY Zenon DEF TypeOK
  <1> HIDE DEF o
  <1>5. CASE UNCHANGED <<state, ready, current>>
    <2>1. \A t \in exists : OrderlyThread(t)'
      BY <1>1, <1>5 DEF Orderly, OrderlyThread, CutOff
    <2> QED
      BY <1>1, <1>5, <2>1, Zenon DEF Orderly
  <1>6. CASE o # Null /\ state[o] = "WAITING" /\ partner[o] \in {i, Nil}
    <2>1. o \in exists /\ pc[o].at = "recv" /\ pc[o] # User /\ partner[o] \notin Threads
      BY <1>1, <1>4, <1>6, IdsAssumption DEF Orderly, OrderlyThread, CutOff, User
    <2>2. CASE /\ state' = [state EXCEPT ![o] = "LOCKED_RUNNING"]
               /\ ready' = ready \cup {o} /\ UNCHANGED current
      <3>1. \A t \in exists : OrderlyThread(t)'
        BY <1>1, <1>2, <1>6, <2>1, <2>2, SMTT(30) DEF Orderly, OrderlyThread, CutOff, TypeOK
      <3> QED
        BY <1>1, <1>6, <2>1, <2>2, <3>1, SMTT(30) DEF Orderly, TypeOK
    <2>3. CASE /\ ready' = ready \cup ({current} \ {Idle})
               /\ current' = o /\ UNCHANGED state
      <3>1. \A t \in exists : OrderlyThread(t)'
        BY <1>1, <1>2, <2>3, SMTT(30) DEF Orderly, OrderlyThread, CutOff
      <3> QED
        BY <1>1, <1>6, <2>1, <2>3, <3>1 DEF Orderly
    <2> QED
      BY <1>3, <1>5, <2>2, <2>3, Zenon
  <1> QED
    BY <1>3, <1>5, <1>6, Zenon

\* sys_schedule.
LEMMA ScheduleOrderly ==
    ASSUME Orderly, NEW c \in Threads, NEW t \in Threads, NEW p \in NewPrios, SysSchedule(c, t, p)
    PROVE  Orderly'
  <1>1. \A u \in exists : OrderlyThread(u)'
    BY DEF SysSchedule, Orderly, OrderlyThread, CutOff
  <1> QED
    BY <1>1, Zenon DEF SysSchedule, Orderly

\* The start of a deletion.
LEMMA TaskDeleteOrderly ==
    ASSUME TypeOK, Orderly, NEW c \in Threads, NEW task \in Dying, SysTaskDelete(c, task)
    PROVE  Orderly'
  <1>1. /\ current = c /\ current \in Threads /\ pc[current] = User
        /\ freeing.who = {} /\ freeing.at = Null
        /\ freeing'.who = {t \in exists : Task[t] = task} /\ freeing'.at = Null
        /\ Task[c] # task
    BY Zenon DEF SysTaskDelete, InUser, NotFreeing
  <1>2. UNCHANGED <<exists, state, partner, ready, wakeup, sendq, pc, current>>
    BY Zenon DEF SysTaskDelete
  <1>3. \A u \in exists : OrderlyThread(u)'
    BY <1>1, <1>2 DEF Orderly, OrderlyThread, CutOff
  <1> QED
    BY <1>1, <1>2, <1>3, IdsAssumption, Zenon DEF Orderly, TypeOK

\* While a task is being deleted, unwind_ipc goes no further than its thread.
LEMMA FreeingChain ==
    ASSUME TypeOK, Orderly, freeing # NotFreeing, NEW t \in Threads
    PROVE  UnwindChain(t) = {t} /\ UnwindWoken(t) = {}
  <1>1. Locked(t) => partner[t] \notin Threads
    BY OrderlyQuiet, Zenon DEF Locked, Orderly, User
  <1> DEFINE Closed(S) == \A v \in S : Locked(v) => partner[v] \notin Threads \ S
  <1>2. {t} \in SUBSET Threads /\ Closed({t})
    BY <1>1, Zenon
  <1>3. \A u \in UnwindChain(t) : \A S \in SUBSET Threads : t \in S /\ Closed(S) => u \in S
    BY Zenon DEF UnwindChain
  <1>4. UnwindChain(t) \subseteq {t}
    BY <1>2, <1>3, Zenon
  <1>5. UnwindChain(t) = {t}
    BY <1>4, ChainClosed, Zenon
  <1> QED
    BY <1>1, <1>5, Zenon DEF UnwindWoken

\* What unwinding a thread changes during a deletion.
LEMMA FreeingUnwind ==
    ASSUME TypeOK, Orderly, freeing # NotFreeing, NEW t \in Threads,
           UnwindIpc(t, UnwindState(t))
    PROVE  /\ wakeup' = wakeup \ {t}
           /\ state' = [state EXCEPT ![t] = IF Locked(t) THEN "ABORTED" ELSE state[t]]
           /\ pc' = [pc EXCEPT ![t] = IF state[t] \in {"RUNNING", "ABORTED"} THEN pc[t] ELSE User]
           /\ sendq' = IF state[t] = "POLLING" THEN ThreadDequeueSend(sendq, partner[t], t)
                       ELSE sendq
  <1>1. UnwindChain(t) = {t} /\ UnwindWoken(t) = {}
    BY FreeingChain, Zenon
  <1>2. UnwindState(t) = IF Locked(t) THEN "ABORTED" ELSE state[t]
    BY <1>1, Zenon DEF UnwindState
  <1>3. wakeup' = wakeup \ {t}
    BY <1>1, Zenon DEF UnwindIpc
  <1>4. state' = [state EXCEPT ![t] = IF Locked(t) THEN "ABORTED" ELSE state[t]]
    BY <1>1, <1>2, Zenon DEF UnwindIpc, TypeOK
  <1>5. pc' = [pc EXCEPT ![t] = IF state[t] \in {"RUNNING", "ABORTED"} THEN pc[t] ELSE User]
    BY <1>1, Zenon DEF UnwindIpc, TypeOK
  <1>6. sendq' = IF state[t] = "POLLING" THEN ThreadDequeueSend(sendq, partner[t], t)
                 ELSE sendq
    <2> DEFINE polling == {u \in UnwindChain(t) : state[u] = "POLLING"}
               h == CHOOSE u \in polling : TRUE
    <2>1. sendq' = IF polling = {} THEN sendq ELSE ThreadDequeueSend(sendq, partner[h], h)
      BY Zenon DEF UnwindIpc
    <2>2. state[t] = "POLLING" => polling = {t} /\ h = t
      BY <1>1, Zenon
    <2>3. state[t] # "POLLING" => polling = {}
      BY <1>1, Zenon
    <2> HIDE DEF polling, h
    <2> QED
      BY <2>1, <2>2, <2>3, Zenon
  <1> QED
    BY <1>3, <1>4, <1>5, <1>6, Zenon

\* free_thread, its first part.
LEMMA FreeThreadOrderly ==
    ASSUME TypeOK, Orderly, NEW t \in Threads, FreeThread(t)
    PROVE  Orderly'
  <1>1. /\ freeing # NotFreeing /\ freeing.at = Null /\ t \in freeing.who
        /\ current \in Threads /\ pc[current] = User /\ t # current /\ t \in exists
    BY DEF FreeThread, NotFreeing, Orderly
  <1>2. /\ ready' = ready /\ freeing'.who = freeing.who /\ freeing'.at = t
        /\ UNCHANGED <<exists, partner, current>>
    BY <1>1, FreeingChain, Zenon DEF FreeThread
  <1>3. /\ wakeup' = wakeup \ {t}
        /\ state' = [state EXCEPT ![t] = IF Locked(t) THEN "ABORTED" ELSE state[t]]
        /\ pc' = [pc EXCEPT ![t] = IF state[t] \in {"RUNNING", "ABORTED"} THEN pc[t] ELSE User]
    BY <1>1, FreeingUnwind, Zenon DEF FreeThread
  <1>4. \A u \in exists : /\ state[u] # "LOCKED_WAITING"
                          /\ state[u] = "LOCKED_RUNNING" =>
                                  pc[u].at = "recv" /\ partner[u] \notin Threads
    BY <1>1, OrderlyQuiet, Zenon
  <1>5. OrderlyThread(t)'
    BY <1>1, <1>2, <1>3, <1>4, SMTT(30) DEF Orderly, OrderlyThread, CutOff, TypeOK, User, Locked
  <1>6. \A u \in exists \ {t} : OrderlyThread(u)'
    BY <1>1, <1>2, <1>3, <1>4, SMTT(30) DEF Orderly, OrderlyThread, CutOff, TypeOK
  <1> QED
    BY <1>1, <1>2, <1>3, <1>5, <1>6, SMTT(30) DEF Orderly, TypeOK

\* free_thread, one turn of the loop over the send queue.
LEMMA FreeSenderOrderly ==
    ASSUME TypeOK, Orderly, NEW t \in Threads, FreeSender(t)
    PROVE  Orderly'
  <1>0. PICK h \in Threads : h = sendq.head[t]
    BY Zenon DEF FreeSender, TypeOK
  <1>1. /\ freeing # NotFreeing /\ freeing.at = t /\ t \in freeing.who
        /\ current \in Threads /\ pc[current] = User
    BY IdsAssumption DEF FreeSender, NotFreeing, Orderly, TypeOK
  <1>2. ready' = ready /\ UNCHANGED <<exists, partner, current, freeing>>
    BY <1>0, <1>1, FreeingChain, Zenon DEF FreeSender
  <1>3. /\ wakeup' = wakeup \ {h}
        /\ state' = [state EXCEPT ![h] = IF Locked(h) THEN "ABORTED" ELSE state[h]]
        /\ pc' = [pc EXCEPT ![h] = IF state[h] \in {"RUNNING", "ABORTED"} THEN pc[h] ELSE User]
        /\ sendq' = IF state[h] = "POLLING" THEN ThreadDequeueSend(sendq, partner[h], h)
                    ELSE sendq
    BY <1>0, <1>1, FreeingUnwind, Zenon DEF FreeSender
  <1>4. \A u \in exists : /\ state[u] # "LOCKED_WAITING"
                          /\ state[u] = "LOCKED_RUNNING" =>
                                  pc[u].at = "recv" /\ partner[u] \notin Threads
    BY <1>1, OrderlyQuiet, Zenon
  <1>5. state[h] = "POLLING" /\ partner[h] # t => sendq'.head[t] = h
    BY <1>0, <1>3, Zenon DEF ThreadDequeueSend, TypeOK
  <1>6. state[h] # "POLLING" => sendq'.head[t] = h
    BY <1>0, <1>3, Zenon
  <1>7. \A u \in exists \ {h} : CutOff(u) => u \in freeing.who
    BY <1>0, <1>1 DEF CutOff
  <1>8. h \in exists => OrderlyThread(h)'
    <2>1. h \in exists /\ state[h] = "POLLING" => CutOff(h)' \/ partner'[h] \in freeing'.who
      BY <1>1, <1>2, <1>5, IdsAssumption, Zenon DEF CutOff
    <2>2. h \in exists /\ state[h] = "WAITING" => CutOff(h)'
      BY <1>1, <1>2, <1>6, IdsAssumption, SMTT(30) DEF CutOff
    <2> QED
      BY <1>1, <1>2, <1>3, <1>4, <2>1, <2>2, SMTT(30) DEF Orderly, OrderlyThread, TypeOK, User, Locked
  <1>9. \A u \in exists \ {h} : OrderlyThread(u)'
    BY <1>1, <1>2, <1>3, <1>4, <1>7, SMTT(30) DEF Orderly, OrderlyThread, CutOff, TypeOK
  <1>10. \A u \in Threads \ exists : state'[u] = "ABORTED"
    BY <1>3 DEF Orderly, TypeOK, Locked
  <1>11. pc'[current] = User /\ state'[current] = "RUNNING"
    BY <1>1, <1>3 DEF Orderly, TypeOK, Locked
  <1>12. \A u \in wakeup' : state'[u] # "RUNNING" /\ pc'[u].at \in {"send", "recv"}
    BY <1>3, Zenon DEF Orderly, TypeOK
  <1>13. \A u \in exists' : OrderlyThread(u)'
    BY <1>2, <1>8, <1>9, Zenon
  <1> QED
    BY <1>1, <1>2, <1>3, <1>10, <1>11, <1>12, <1>13, SMTT(30) DEF Orderly, User

\* The end of free_thread.
LEMMA FreeTcbOrderly ==
    ASSUME TypeOK, Orderly, NEW t \in Threads, FreeTcb(t)
    PROVE  Orderly'
  <1>1. /\ freeing # NotFreeing /\ freeing.at = t /\ t \in freeing.who /\ sendq.head[t] = Null
        /\ current \in Threads /\ pc[current] = User /\ t # current /\ t \notin wakeup
        /\ state[current] = "RUNNING"
    BY IdsAssumption DEF FreeTcb, NotFreeing, Orderly, TypeOK
  <1>2. /\ ready' = ready \ {t} /\ exists' = exists \ {t}
        /\ state' = [state EXCEPT ![t] = "ABORTED"]
        /\ freeing'.who = freeing.who \ {t} /\ freeing'.at = Null
        /\ UNCHANGED <<partner, wakeup, sendq, pc, current>>
    BY Zenon DEF FreeTcb
  <1>3. \A u \in exists : /\ state[u] # "LOCKED_WAITING"
                          /\ state[u] = "LOCKED_RUNNING" =>
                                  pc[u].at = "recv" /\ partner[u] \notin Threads
    BY <1>1, OrderlyQuiet, Zenon
  <1>4. \A u \in exists : CutOff(u) => u \in freeing.who
    BY <1>1, IdsAssumption, SMTT(30) DEF CutOff, TypeOK
  <1>5. \A u \in exists \ {t} : OrderlyThread(u)'
    BY <1>1, <1>2, <1>3, <1>4, SMTT(30) DEF Orderly, OrderlyThread, CutOff, TypeOK
  <1> QED
    BY <1>1, <1>2, <1>5, IdsAssumption, SMTT(30) DEF Orderly, TypeOK

\* The initial states are orderly.
LEMMA InitOrderly == Init => Orderly
  <1> SUFFICES ASSUME Init PROVE Orderly
    BY Zenon
  <1>1. \A t \in exists : OrderlyThread(t)
    BY ClientAssumption, IdsAssumption, Zenon DEF Init, OrderlyThread, User
  <1> QED
    BY <1>1, ClientAssumption, IdsAssumption, Zenon DEF Init, Orderly, NotFreeing

\* Every step preserves Orderly, as long as nobody calls lthread_ex_regs.
LEMMA NextOrderly ==
    ASSUME ExRegs = {}, NoZeroReply, NoReplyWait, TypeOK, Orderly, [Next]_vars
    PROVE  Orderly'
  <1>1. CASE \E c \in Threads, dest \in Threads \cup Irqs \cup {Nil}, k \in Calls : SysIpc(c, dest, k)
    BY <1>1, SysIpcOrderly, Zenon
  <1>2. CASE \E c \in Threads : ResumeSend(c) \/ ResumeReceive(c)
    BY <1>2, ResumeSendOrderly, ResumeReceiveOrderly, Zenon
  <1>3. CASE IdleLoop
    BY <1>3, IdleLoopOrderly, Zenon
  <1>4. CASE \E expired \in SUBSET wakeup : HandleTimerInterrupt(expired)
    BY <1>4, TimerOrderly, Zenon
  <1>5. CASE \E i \in Irqs : HandleInterrupt(i)
    BY <1>5, InterruptOrderly, Zenon
  <1>6. CASE \E c \in Threads, t \in Threads \cup {Nil} : SysThreadSwitch(c, t)
    BY <1>6, ThreadSwitchOrderly, Zenon
  <1>7. CASE \E c, t \in Threads, p \in NewPrios : SysSchedule(c, t, p)
    BY <1>7, ScheduleOrderly, Zenon
  <1>8. CASE \E c \in Threads, task \in Dying : SysTaskDelete(c, task)
    BY <1>8, TaskDeleteOrderly, Zenon
  <1>9. CASE \E t \in Threads : FreeThread(t) \/ FreeSender(t) \/ FreeTcb(t)
    BY <1>9, FreeThreadOrderly, FreeSenderOrderly, FreeTcbOrderly, Zenon
  <1>10. CASE UNCHANGED vars
    <2>1. \A t \in exists : OrderlyThread(t)'
      BY <1>10 DEF vars, Orderly, OrderlyThread, CutOff
    <2> QED
      BY <1>10, <2>1, Zenon DEF vars, Orderly
  <1> QED
    BY <1>1, <1>2, <1>3, <1>4, <1>5, <1>6, <1>7, <1>8, <1>9, <1>10, Zenon DEF Next

\* Live is what a step of the scheduler needs to know.
LEMMA OrderlySuffices ==
    ASSUME ExRegs = {}, TypeOK, Orderly
    PROVE  SchedPre
  <1>1. current \in Threads => current \in exists /\ OrderlyThread(current)
    BY IdsAssumption, Zenon DEF Orderly
  <1>2. current \in Threads /\ pc[current] = User =>
          IsRunning(state, current) /\ current \notin wakeup
    BY Zenon DEF Orderly, IsRunning
  <1>3. freeing.at # Null /\ current \in Threads => ~Locked(current)
    BY DEF Orderly, NotFreeing, Locked
  <1>4. current \in Threads => current \notin freeing.who /\ freeing.at # current
    BY IdsAssumption, Zenon DEF Orderly
  <1>5. current \in Threads /\ pc[current].at = "send" =>
          pc[current].dest # current /\ state[current] # "POLLING"
    BY <1>1, Zenon DEF Orderly, OrderlyThread
  <1> QED
    BY <1>2, <1>3, <1>4, <1>5, Zenon DEF SchedPre

\* With deletions, too, every step is one Scheduler allows: the threads of a
\* task are taken away one by one, and their partners are woken up.  Without
\* lthread_ex_regs, that is, and for clients that receive only from the thread
\* they have sent to, and not with a zero timeout.
THEOREM SchedulerRefinedDeleting ==
    ASSUME ExRegs = {}, NoZeroReply, NoReplyWait
    PROVE  Spec => SchedulerRefined
  <1>1. Init => Orderly
    BY InitOrderly, Zenon
  <1>2. TypeOK /\ Orderly /\ [Next]_vars => Orderly'
    BY NextOrderly, Zenon
  <1>3. TypeOK /\ Orderly /\ [Next]_vars => [Sched!Next]_(Sched!vars)
    BY OrderlySuffices, StepAllowed, Zenon
  <1> QED
    BY <1>1, <1>2, <1>3, InitSched, TypeCorrect, PTL DEF Spec, SchedulerRefined, Sched!Spec

=============================================================================
