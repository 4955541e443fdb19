-------------------------------- MODULE Ipc --------------------------------
(***************************************************************************)
(* Synchronous IPC of the uniprocessor kernel (kernel/src/ipc.c) together  *)
(* with what it cannot be separated from: the timeout queue, interrupt     *)
(* delivery, the processor hand-over of schedule.c, and the operations of  *)
(* thread.c that tear an IPC apart (lthread_ex_regs, task_new).            *)
(*                                                                         *)
(* The kernel runs with interrupts disabled, so everything between the     *)
(* entry into the kernel and the next switch_to_thread is one step.  What  *)
(* a blocked thread does when it is switched to again is its continuation, *)
(* pc[t]; "user" stands for a thread that returns to user mode without     *)
(* another kernel action.  Messages carry no data here: inbox[t] records   *)
(* whose message was copied into t's buffer and not yet handed to t.       *)
(* Timeouts are classes ("zero", "finite", "never"): as clients may choose *)
(* any length, a tick may expire any set of the threads in the queue.      *)
(* Register messages only: a transfer does not fault, see README.          *)
(***************************************************************************)
EXTENDS FindNext

CONSTANTS
    Threads,        \* thread control blocks
    Null,           \* a NULL tcb pointer, no interrupt, no message
    Nil, Invalid,   \* L4_NIL_ID, L4_INVALID_ID
    Irqs,           \* interrupt ids
    MaxPrio,        \* MAX_PRIO
    Boot,           \* the threads that exist at the start
    Task,           \* the task of each thread
    Calls,          \* the kinds of ipc system calls clients make
    NewPrios,       \* priorities clients pass to sys_schedule
    ExRegs,         \* threads clients call lthread_ex_regs on
    Dying           \* tasks clients delete with task_new

Timeouts == {"zero", "finite", "never"}

\* An ipc system call but for its destination: is there a send phase, what is
\* received (nothing, from the destination only, from anyone), the timeouts.
CallType == [snd : BOOLEAN, rcv : {"none", "from", "open"},
             sto : Timeouts, rto : Timeouts]

ASSUME IdsAssumption ==
    /\ Idle \notin Threads /\ Null \notin Threads \cup Irqs
    /\ {Nil, Invalid} \cap (Threads \cup Irqs) = {}
    /\ Nil # Invalid /\ Threads \cap Irqs = {}
ASSUME ClientAssumption ==
    /\ Boot \subseteq Threads /\ ExRegs \subseteq Threads
    /\ Calls \subseteq {k \in CallType : k.snd \/ k.rcv # "none"}
    /\ MaxPrio \in Nat /\ NewPrios \subseteq 0 .. MaxPrio

VARIABLES
    exists,         \* tcb->myself is the id of the thread
    state,          \* tcb->thread_state
    partner,        \* tcb->partner
    ready,          \* threads with TS_QUEUE_READY
    wakeup,         \* threads with TS_QUEUE_WAKEUP
    sendq,          \* send_queue, send_next, send_prev of every tcb
    pc,             \* where a thread continues when it is switched to
    current,        \* get_current_tcb()
    intrPending,    \* tcb->intr_pending
    interruptOwner, \* interrupt_owner[]
    masked,         \* interrupts masked at the interrupt controller
    inbox,          \* history: whose message sits in tcb->ipc_buffer
    freeing         \* threads a running task_new still has to free, and which
                    \* one delete_all_threads is at

ipcVars == <<exists, partner, sendq, pc, inbox>>
irqVars == <<intrPending, interruptOwner, masked>>
vars == <<exists, state, partner, priority, ready, wakeup, sendq, pc,
          current, intrPending, interruptOwner, masked, inbox, freeing>>

States == {"RUNNING", "POLLING", "WAITING", "LOCKED_RUNNING",
           "LOCKED_WAITING", "ABORTED"}

NotFreeing == [who |-> {}, at |-> Null]

User == [at |-> "user"]
Pcs == {User, [at |-> "recv"], [at |-> "locked"]}
          \cup [at : {"send"}, dest : Threads,
                rcv : {"none", "from", "open"}, rto : Timeouts]

Pending(i)   == [irq |-> i, inService |-> FALSE]
InService(i) == [irq |-> i, inService |-> TRUE]

\* IS_RUNNING
IsRunning(st, t) == st[t] \in {"RUNNING", "LOCKED_RUNNING"}
RunningIn(st) == {t \in Threads : IsRunning(st, t)}

\* A call or an interrupt can come in: a thread is in user mode, or idle
\* sleeps because nothing is queued, and no task is being deleted.
InUser(c) == current = c /\ c \in Threads /\ pc[c] = User /\ freeing = NotFreeing
Interruptible == InUser(current) \/ (current = Idle /\ ready = {})

----------------------------------------------------------------------------
(* The send queues: one ring per receiver (schedule.h).                    *)

\* Mutant: the last sender of the ring is not linked to the new one.
EnqueueUnlinked(q, dest, from) ==
    IF q.head[dest] = Null
    THEN [q EXCEPT !.head[dest] = from, !.next[from] = from, !.prev[from] = from]
    ELSE [q EXCEPT !.prev[from] = q.prev[q.head[dest]],
                   !.prev[q.head[dest]] = from,
                   !.next[from] = q.head[dest]]

ThreadEnqueueSend(q, dest, from) ==
    LET first == q.head[dest] IN
    IF first = Null
    THEN [head |-> [q.head EXCEPT ![dest] = from],
          next |-> [q.next EXCEPT ![from] = from],
          prev |-> [q.prev EXCEPT ![from] = from]]
    ELSE LET p1 == [q.prev EXCEPT ![from] = q.prev[first]]
             n1 == [q.next EXCEPT ![from] = first]
             p2 == [p1 EXCEPT ![first] = from]
         IN  [head |-> q.head, next |-> [n1 EXCEPT ![p2[from]] = from], prev |-> p2]

\* Mutant: a ring keeps a dequeued sender as its head.
DequeueKeepsHead(q, dest, tcb) ==
    IF q.next[tcb] = tcb
    THEN [q EXCEPT !.head[dest] = Null]
    ELSE [q EXCEPT !.next[q.prev[tcb]] = q.next[tcb],
                   !.prev[q.next[tcb]] = q.prev[tcb]]

\* Mutant: the sender behind a dequeued one keeps pointing back to it.
DequeueForward(q, dest, tcb) ==
    IF q.next[tcb] = tcb
    THEN [q EXCEPT !.head[dest] = Null]
    ELSE [q EXCEPT !.head[dest] = IF @ = tcb THEN q.next[tcb] ELSE @,
                   !.next[q.prev[tcb]] = q.next[tcb]]

ThreadDequeueSend(q, dest, tcb) ==
    IF q.next[tcb] = tcb
    THEN [head |-> [q.head EXCEPT ![dest] = Null], next |-> q.next, prev |-> q.prev]
    ELSE LET n1 == [q.next EXCEPT ![q.prev[tcb]] = q.next[tcb]]
         IN  [head |-> [q.head EXCEPT ![dest] = IF @ = tcb THEN q.next[tcb] ELSE @],
              next |-> n1,
              prev |-> [q.prev EXCEPT ![n1[tcb]] = q.prev[tcb]]]

----------------------------------------------------------------------------
(* The ipc system call.                                                    *)

\* return_ipc, return_ipc_args: back to user mode without a switch.
ReturnIpc(c, par, box, wk, pend, mask) ==
    /\ pc' = [pc EXCEPT ![c] = User]
    /\ partner' = par
    /\ inbox' = box
    /\ wakeup' = wk
    /\ intrPending' = [intrPending EXCEPT ![c] = pend]
    /\ masked' = mask
    /\ UNCHANGED <<state, ready, sendq, current, interruptOwner>>

\* Mutant: attaching to an interrupt keeps the others.
DetachNothing(c) == interruptOwner

\* The interrupts but for those of c (ipc_handle_kernel_id).
Detached(c) == [i \in Irqs |-> IF interruptOwner[i] = c THEN Null ELSE interruptOwner[i]]

\* ipc_handle_kernel_id: receive from an interrupt, or sleep (dest = Nil).
IpcHandleKernelId(c, dest, rto, par, box, wk, pend, mask) ==
    \/ \* the interrupt is pending already
       /\ dest \in Irqs /\ pend = Pending(dest)
       /\ ReturnIpc(c, par, box, wk, InService(dest), mask)
    \/ \* zero timeout: detach from all interrupts, attach to dest if it is free
       /\ ~(dest \in Irqs /\ pend = Pending(dest)) /\ rto = "zero"
       /\ LET attach == dest \in Irqs /\ Detached(c)[dest] = Null
          IN  /\ interruptOwner' = IF attach THEN [Detached(c) EXCEPT ![dest] = c]
                                             ELSE Detached(c)
              /\ masked' = IF attach THEN [mask EXCEPT ![dest] = TRUE] ELSE mask
       /\ pc' = [pc EXCEPT ![c] = User]
       /\ intrPending' = [intrPending EXCEPT ![c] = pend]
       /\ partner' = par /\ inbox' = box /\ wakeup' = wk
       /\ UNCHANGED <<state, ready, sendq, current>>
    \/ \* wait for it
       /\ ~(dest \in Irqs /\ pend = Pending(dest)) /\ rto # "zero"
       /\ wakeup' = IF rto = "finite" THEN wk \cup {c} ELSE wk
       /\ masked' = IF dest \in Irqs THEN [mask EXCEPT ![dest] = FALSE] ELSE mask
       /\ partner' = [par EXCEPT ![c] = IF dest = Nil THEN Invalid ELSE dest]
       /\ state' = [state EXCEPT ![c] = "WAITING"]
       /\ pc' = [pc EXCEPT ![c] = [at |-> "recv"]]
       /\ intrPending' = [intrPending EXCEPT ![c] = pend]
       /\ inbox' = box
       /\ current' = Idle
       /\ UNCHANGED <<ready, sendq, interruptOwner>>

\* Mutant: an interrupt picked up by an open wait is not recorded as in service.
InterruptForgotten(c, to, par, box, wk, pend, mask) ==
    ReturnIpc(c, par, box, wk, Null, mask)

\* An open wait picks up a pending interrupt.  If there was a send phase the
\* receiver to is switched to, and c goes on later.
ReceiveInterrupt(c, to, par, box, wk, pend, mask) ==
    IF to = Null
    THEN ReturnIpc(c, par, box, wk, InService(pend.irq), mask)
    ELSE /\ intrPending' = [intrPending EXCEPT ![c] = InService(pend.irq)]
         /\ state' = [state EXCEPT ![c] = "RUNNING"]
         /\ ready' = ready \cup {c}
         /\ current' = to
         /\ pc' = [pc EXCEPT ![c] = User]
         /\ partner' = par /\ inbox' = box /\ wakeup' = wk /\ masked' = mask
         /\ UNCHANGED <<sendq, interruptOwner>>

\* Mutant: the receiver just sent to is not switched to.
BlockSwitchesToIdle(c, to, dest, rcv, rto, par, box, wk) ==
    /\ wakeup' = IF rto = "finite" THEN wk \cup {c} ELSE wk
    /\ partner' = [par EXCEPT ![c] = IF rcv = "open" THEN Nil ELSE dest]
    /\ state' = [state EXCEPT ![c] = "WAITING"]
    /\ pc' = [pc EXCEPT ![c] = [at |-> "recv"]]
    /\ inbox' = box
    /\ current' = Idle
    /\ UNCHANGED <<ready, sendq, interruptOwner>>

\* Nobody to receive from yet: block, switching to the thread just sent to.
ReceiveBlock(c, to, dest, rcv, rto, par, box, wk) ==
    /\ wakeup' = IF rto = "finite" THEN wk \cup {c} ELSE wk
    /\ partner' = [par EXCEPT ![c] = IF rcv = "open" THEN Nil ELSE dest]
    /\ state' = [state EXCEPT ![c] = "WAITING"]
    /\ pc' = [pc EXCEPT ![c] = [at |-> "recv"]]
    /\ inbox' = box
    /\ current' = IF to # Null THEN to ELSE Idle
    /\ UNCHANGED <<ready, sendq, interruptOwner>>

\* Mutant: the receiver is left WAITING, open to other senders.
PollingLeavesWaiting(c, to, from, par, box, wk) ==
    /\ state' = [state EXCEPT ![from] = "LOCKED_RUNNING", ![c] = "WAITING"]
    /\ ready' = ready \cup {from}
    /\ sendq' = ThreadDequeueSend(sendq, c, from)
    /\ wakeup' = wk \ {from}
    /\ partner' = [par EXCEPT ![c] = Nil] /\ inbox' = box
    /\ pc' = [pc EXCEPT ![c] = [at |-> "locked"]]
    /\ current' = IF to # Null THEN to ELSE from
    /\ UNCHANGED interruptOwner

\* A sender polls: lock it together with c and let it transfer its message.
ReceivePolling(c, to, from, par, box, wk) ==
    /\ state' = [state EXCEPT ![from] = "LOCKED_RUNNING", ![c] = "LOCKED_WAITING"]
    /\ ready' = ready \cup {from}
    /\ sendq' = ThreadDequeueSend(sendq, c, from)
    /\ wakeup' = wk \ {from}
    /\ partner' = par /\ inbox' = box
    /\ pc' = [pc EXCEPT ![c] = [at |-> "locked"]]
    /\ current' = IF to # Null THEN to ELSE from
    /\ UNCHANGED interruptOwner

\* The receive phase, after a send phase to the thread to (or Null) that has
\* left the partners, the buffers and the wakeup queue as par, box and wk.
ReceivePhase(c, to, dest, rcv, rto, par, box, wk) ==
    LET served == intrPending[c] # Null /\ intrPending[c].inService
        pend   == IF served THEN Null ELSE intrPending[c]
        mask   == IF served THEN [masked EXCEPT ![intrPending[c].irq] = FALSE]
                            ELSE masked
        from   == IF rcv = "from" THEN dest ELSE sendq.head[c]
        polls  == from # Null /\ state[from] = "POLLING" /\ par[from] = c
    IN
    \/ /\ rcv = "from" /\ dest \notin Threads
       /\ IpcHandleKernelId(c, dest, rto, par, box, wk, pend, mask)
    \/ /\ rcv = "from" /\ dest \in Threads \ exists
       /\ ReturnIpc(c, par, box, wk, pend, mask)
    \/ /\ rcv = "open" /\ pend # Null
       /\ ReceiveInterrupt(c, to, par, box, wk, pend, mask)
    \/ /\ IF rcv = "from" THEN dest \in exists ELSE pend = Null
       /\ intrPending' = [intrPending EXCEPT ![c] = pend]
       /\ masked' = mask
       /\ \/ ~polls /\ rto = "zero" /\ ReturnIpc(c, par, box, wk, pend, mask)
          \/ ~polls /\ rto # "zero"
                /\ ReceiveBlock(c, to, dest, rcv, rto, par, box, wk)
          \/ polls /\ ReceivePolling(c, to, from, par, box, wk)

\* Mutant: a sender without a receive phase is not enqueued.
TransferForgetsSender(c, to, rcv, rto, par, wk) ==
    LET par2 == [par EXCEPT ![to] = c]
        box2 == [inbox EXCEPT ![to] = c]
    IN  IF rcv = "none"
        THEN /\ state' = [state EXCEPT ![c] = "RUNNING"]
             /\ current' = to
             /\ pc' = [pc EXCEPT ![c] = User]
             /\ partner' = par2 /\ inbox' = box2 /\ wakeup' = wk
             /\ UNCHANGED <<ready, sendq, irqVars>>
        ELSE ReceivePhase(c, to, to, rcv, rto, par2, box2, wk)

\* The message is in the buffer of to (transfer_message), who learns the
\* sender.  What follows is a switch to to, or the receive phase.
AfterTransfer(c, to, rcv, rto, par, wk) ==
    LET par2 == [par EXCEPT ![to] = c]
        box2 == [inbox EXCEPT ![to] = c]
    IN  IF rcv = "none"
        THEN /\ state' = [state EXCEPT ![c] = "RUNNING"]
             /\ ready' = ready \cup {c}
             /\ current' = to
             /\ pc' = [pc EXCEPT ![c] = User]
             /\ partner' = par2 /\ inbox' = box2 /\ wakeup' = wk
             /\ UNCHANGED <<sendq, irqVars>>
        ELSE ReceivePhase(c, to, to, rcv, rto, par2, box2, wk)

\* sys_ipc, up to the first switch away from the caller.
SysIpc(c, dest, k) ==
    LET par == [partner EXCEPT ![c] = dest] IN
    /\ InUser(c)
    /\ UNCHANGED <<exists, priority, freeing>>
    /\ \/ \* receive only
          /\ ~k.snd
          /\ ReceivePhase(c, Null, dest, k.rcv, k.rto, partner, inbox, wakeup)
       \/ \* no such thread
          /\ k.snd /\ dest \notin exists
          /\ ReturnIpc(c, partner, inbox, wakeup, intrPending[c], masked)
       \/ \* the receiver waits for us
          /\ k.snd /\ dest \in exists
          /\ state[dest] = "WAITING" /\ partner[dest] \in {c, Nil}
          /\ AfterTransfer(c, dest, k.rcv, k.rto, par, wakeup)
       \/ \* it does not, and we do not want to or must not wait
          /\ k.snd /\ dest \in exists
          /\ ~(state[dest] = "WAITING" /\ partner[dest] \in {c, Nil})
          /\ dest = c \/ k.sto = "zero"
          /\ ReturnIpc(c, par, inbox, wakeup, intrPending[c], masked)
       \/ \* it does not: poll
          /\ k.snd /\ dest \in exists \ {c}
          /\ ~(state[dest] = "WAITING" /\ partner[dest] \in {c, Nil})
          /\ k.sto # "zero"
          /\ partner' = par
          /\ wakeup' = IF k.sto = "finite" THEN wakeup \cup {c} ELSE wakeup
          /\ sendq' = ThreadEnqueueSend(sendq, dest, c)
          /\ state' = [state EXCEPT ![c] = "POLLING"]
          /\ pc' = [pc EXCEPT ![c] = [at |-> "send", dest |-> dest,
                                      rcv |-> k.rcv, rto |-> k.rto]]
          /\ current' = Idle
          /\ UNCHANGED <<ready, inbox, irqVars>>

\* The polling sender goes on: it timed out, or its receiver has locked it.
ResumeSend(c) ==
    /\ current = c /\ c \in Threads /\ pc[c].at = "send"
    /\ UNCHANGED <<exists, priority, freeing>>
    /\ IF state[c] = "RUNNING"
       THEN ReturnIpc(c, partner, inbox, wakeup, intrPending[c], masked)
       ELSE AfterTransfer(c, pc[c].dest, pc[c].rcv, pc[c].rto, partner, wakeup \ {c})

\* Mutant: a receiver whose message came in time stays in the wakeup queue.
ReceiveKeepsTimeout(c) ==
    /\ current = c /\ c \in Threads /\ pc[c].at \in {"recv", "locked"}
    /\ pc' = [pc EXCEPT ![c] = User]
    /\ inbox' = [inbox EXCEPT ![c] = Null]
    /\ state' = [state EXCEPT ![c] = "RUNNING"]
    /\ UNCHANGED <<exists, partner, priority, ready, wakeup, sendq, current, irqVars,
                   freeing>>

\* The receiver goes on: it timed out, or there is a message or an interrupt
\* for it.  Also the end of ipc_handle_kernel_id.
ResumeReceive(c) ==
    /\ current = c /\ c \in Threads /\ pc[c].at \in {"recv", "locked"}
    /\ pc' = [pc EXCEPT ![c] = User]
    /\ inbox' = [inbox EXCEPT ![c] = Null]
    /\ UNCHANGED <<exists, partner, priority, ready, sendq, current, irqVars, freeing>>
    /\ IF pc[c].at = "recv" /\ state[c] = "RUNNING"
       THEN UNCHANGED <<state, wakeup>>
       ELSE /\ state' = [state EXCEPT ![c] = "RUNNING"]
            /\ wakeup' = IF pc[c].at = "recv" THEN wakeup \ {c} ELSE wakeup

----------------------------------------------------------------------------
(* Interrupts and scheduling.                                              *)

\* The idle loop; it sleeps when find_next_thread returns idle.
IdleLoop ==
    /\ current = Idle /\ ready # {}
    /\ FindNextThread(RunningIn(state), ready, current', ready')
    /\ UNCHANGED <<exists, state, partner, priority, wakeup, sendq, pc, irqVars,
                   inbox, freeing>>

\* Mutant: only the threads that preempt the running one are woken up.
TimerWakesHighest(expired) ==
    LET preempt == {t \in expired : priority[t] > PrioOf(current)}
    IN  /\ Interruptible /\ expired # {}
        /\ wakeup' = wakeup \ preempt
        /\ state' = [t \in Threads |-> IF t \in preempt THEN "RUNNING" ELSE state[t]]
        /\ ready' = ready \cup preempt
        /\ UNCHANGED <<exists, partner, priority, sendq, pc, current, irqVars, inbox,
                       freeing>>

\* handle_timer_interrupt with parse_wakeup_queue; expired have timed out.
HandleTimerInterrupt(expired) ==
    LET st == [t \in Threads |-> IF t \in expired THEN "RUNNING" ELSE state[t]]
        rdy == ready \cup expired \cup ({current} \ {Idle})
        preempt == {t \in expired : priority[t] > PrioOf(current)}
    IN  /\ Interruptible
        /\ wakeup' = wakeup \ expired
        /\ state' = st
        /\ UNCHANGED <<exists, partner, priority, sendq, pc, irqVars, inbox, freeing>>
        /\ IF preempt # {}
           THEN /\ current' \in {t \in preempt :
                                    \A u \in preempt : priority[u] <= priority[t]}
                /\ ready' = rdy
           ELSE \/ current' = current /\ ready' = rdy
                \/ FindNextThread(RunningIn(st), rdy, current', ready')

\* irq_handler masks and acknowledges the interrupt first.
IrqHandler(i) ==
    /\ Interruptible /\ ~masked[i]
    /\ masked' = [masked EXCEPT ![i] = TRUE]

\* Then handle_interrupt hands it to its owner: at once, when it runs next, or
\* when it asks.
HandleInterrupt(i) ==
    LET o == interruptOwner[i] IN
    /\ IrqHandler(i)
    /\ UNCHANGED <<exists, partner, priority, wakeup, sendq, pc, interruptOwner, freeing>>
    /\ \/ /\ o = Null
          /\ UNCHANGED <<state, ready, current, intrPending, inbox>>
       \/ /\ o # Null /\ ~(state[o] = "WAITING" /\ partner[o] \in {i, Nil})
          /\ intrPending' = [intrPending EXCEPT ![o] = Pending(i)]
          /\ UNCHANGED <<state, ready, current, inbox>>
       \/ /\ o # Null /\ state[o] = "WAITING" /\ partner[o] \in {i, Nil}
          /\ intrPending' = [intrPending EXCEPT ![o] = InService(i)]
          /\ inbox' = [inbox EXCEPT ![o] = i]
          /\ IF PrioOf(current) >= priority[o]
             THEN /\ state' = [state EXCEPT ![o] = "LOCKED_RUNNING"]
                  /\ ready' = ready \cup {o}
                  /\ UNCHANGED current
             ELSE /\ ready' = ready \cup ({current} \ {Idle})
                  /\ current' = o
                  /\ UNCHANGED state

\* Mutant: the caller is not enqueued first.
SwitchForgetsCaller(c, t) ==
    /\ InUser(c)
    /\ UNCHANGED <<exists, state, partner, priority, wakeup, sendq, pc, irqVars,
                   inbox, freeing>>
    /\ t \in exists \ {c} /\ IsRunning(state, t)
    /\ current' = t /\ ready' = ready \ {c}

\* sys_thread_switch and sys_schedule, with what they call.
SysThreadSwitch(c, t) ==
    /\ InUser(c)
    /\ UNCHANGED <<exists, state, partner, priority, wakeup, sendq, pc, irqVars,
                   inbox, freeing>>
    /\ IF t \in exists /\ IsRunning(state, t)
       THEN current' = t /\ ready' = ready \cup {c}
       ELSE FindNextThread(RunningIn(state), ready \cup {c}, current', ready')

SysSchedule(c, t, p) ==
    /\ InUser(c) /\ t \in exists
    /\ priority' = [priority EXCEPT ![t] = p]
    /\ UNCHANGED <<exists, state, partner, ready, wakeup, sendq, pc, current, irqVars,
                   inbox, freeing>>

----------------------------------------------------------------------------
(* Tearing an IPC apart (thread.c).                                        *)

Locked(t) == state[t] \in {"LOCKED_RUNNING", "LOCKED_WAITING"}

\* The tcbs one call of unwind_ipc(t) reaches: t and, with a locked thread,
\* its partner.  It marks the threads on its way ABORTED, to stop there.
UnwindChain(t) ==
    {u \in Threads :
        \A S \in SUBSET Threads :
            t \in S /\ (\A v \in S : Locked(v) => partner[v] \notin Threads \ S) => u \in S}

\* The partners it makes RUNNING and enqueues, t among them in a cycle.
UnwindWoken(t) == Threads \cap {partner[u] : u \in {v \in UnwindChain(t) : Locked(v)}}

\* The state in which it leaves t.
UnwindState(t) == IF t \in UnwindWoken(t) THEN "RUNNING"
                  ELSE IF Locked(t) THEN "ABORTED" ELSE state[t]

\* Mutant: unwind_ipc leaves a waiting or polling thread to its timeout.
UnwindKeepsTimeout(t, stT) ==
    LET unwound == {u \in {t} : state[u] \notin {"RUNNING", "ABORTED"}}
    IN  /\ state' = [state EXCEPT ![t] = stT]
        /\ pc' = [u \in Threads |-> IF u \in unwound THEN User ELSE pc[u]]
        /\ inbox' = [u \in Threads |-> IF u \in unwound THEN Null ELSE inbox[u]]
        /\ sendq' = IF state[t] # "POLLING" THEN sendq
                    ELSE ThreadDequeueSend(sendq, partner[t], t)
        /\ UNCHANGED wakeup

\* Mutant: a polling thread is not dequeued from the send queue.
UnwindKeepsPolling(t, stT) ==
    LET unwound == {u \in {t} : state[u] \notin {"RUNNING", "ABORTED"}}
    IN  /\ state' = [state EXCEPT ![t] = stT]
        /\ pc' = [u \in Threads |-> IF u \in unwound THEN User ELSE pc[u]]
        /\ inbox' = [u \in Threads |-> IF u \in unwound THEN Null ELSE inbox[u]]
        /\ wakeup' = wakeup \ {t}
        /\ UNCHANGED sendq

\* unwind_ipc(t): every thread it reaches leaves the wakeup queue, and its IPC
\* ends with an error (CANCELED or ABORTED); a polling thread leaves its send
\* queue; the partners it reaches run again.  The caller may go on to change
\* the state of t itself, to stT.
UnwindIpc(t, stT) ==
    LET chain   == UnwindChain(t)
        unwound == {u \in chain : state[u] \notin {"RUNNING", "ABORTED"}}
        polling == {u \in chain : state[u] = "POLLING"}
    IN  /\ wakeup' = wakeup \ chain
        /\ state' = [u \in Threads |-> IF u = t THEN stT
                                       ELSE IF u \in chain THEN "RUNNING" ELSE state[u]]
        /\ pc' = [u \in Threads |-> IF u \in unwound THEN User ELSE pc[u]]
        /\ inbox' = [u \in Threads |-> IF u \in unwound THEN Null ELSE inbox[u]]
        /\ sendq' = IF polling = {} THEN sendq
                    ELSE LET u == CHOOSE u \in polling : TRUE
                         IN  ThreadDequeueSend(sendq, partner[u], u)

\* sys_lthread_ex_regs on a live thread of the caller's task.
SysLthreadExRegs(c, t) ==
    /\ InUser(c) /\ t \in exists \ {c} /\ Task[t] = Task[c]
    /\ UnwindIpc(t, "RUNNING")
    /\ ready' = ready \cup UnwindChain(t)
    /\ UNCHANGED <<exists, partner, priority, current, irqVars, freeing>>

\* create_tcb, for sys_lthread_ex_regs on a dead thread of the caller's task
\* or sys_task_new for a dead task.
CreateThread(c, t) ==
    /\ InUser(c) /\ t \notin exists
    /\ Task[t] = Task[c] \/ \A u \in exists : Task[u] # Task[t]
    /\ exists' = exists \cup {t}
    /\ state' = [state EXCEPT ![t] = "RUNNING"]
    /\ priority' = [priority EXCEPT ![t] = priority[c]]
    /\ ready' = ready \cup {t}
    /\ wakeup' = wakeup \ {t}
    /\ sendq' = [head |-> [sendq.head EXCEPT ![t] = Null],
                 next |-> sendq.next, prev |-> sendq.prev]
    /\ intrPending' = [intrPending EXCEPT ![t] = Null]
    /\ pc' = [pc EXCEPT ![t] = User]
    /\ UNCHANGED <<partner, current, interruptOwner, masked, inbox, freeing>>

\* sys_task_new deletes a task other than the caller's: delete_all_threads
\* frees its threads one after the other, the three steps below for each.
SysTaskDelete(c, task) ==
    /\ InUser(c) /\ Task[c] # task
    /\ \E t \in exists : Task[t] = task
    /\ freeing' = [who |-> {t \in exists : Task[t] = task}, at |-> Null]
    /\ UNCHANGED <<exists, state, partner, priority, ready, wakeup, sendq, pc, current,
                   irqVars, inbox>>

\* free_thread(t): unwind its own IPC ...
FreeThread(t) ==
    /\ freeing.at = Null /\ t \in freeing.who
    /\ UnwindIpc(t, UnwindState(t))
    /\ ready' = ready \cup UnwindWoken(t)
    /\ freeing' = [who |-> freeing.who, at |-> t]
    /\ UNCHANGED <<exists, partner, priority, current, irqVars>>

\* ... then those of the senders in its send queue, while there are any ...
FreeSender(t) ==
    LET h == sendq.head[t] IN
    /\ freeing.at = t /\ h # Null
    /\ UnwindIpc(h, UnwindState(h))
    /\ ready' = ready \cup UnwindWoken(h)
    /\ UNCHANGED <<exists, partner, priority, current, irqVars, freeing>>

\* Mutant: a freed thread keeps its state.
FreeTcbRunning(t) ==
    /\ freeing.at = t /\ sendq.head[t] = Null
    /\ ready' = ready \ {t}
    /\ exists' = exists \ {t}
    /\ freeing' = [who |-> freeing.who \ {t}, at |-> Null]
    /\ UNCHANGED <<state, partner, priority, wakeup, sendq, pc, current, irqVars, inbox>>

\* ... leave the ready queue, and free_tcb.
FreeTcb(t) ==
    /\ freeing.at = t /\ sendq.head[t] = Null
    /\ ready' = ready \ {t}
    /\ exists' = exists \ {t}
    /\ state' = [state EXCEPT ![t] = "ABORTED"]
    /\ freeing' = [who |-> freeing.who \ {t}, at |-> Null]
    /\ UNCHANGED <<partner, priority, wakeup, sendq, pc, current, irqVars, inbox>>

----------------------------------------------------------------------------
\* The first threads exist and are queued (final_init); idle runs.
Init ==
    /\ exists = Boot
    /\ state = [t \in Threads |-> IF t \in Boot THEN "RUNNING" ELSE "ABORTED"]
    /\ partner = [t \in Threads |-> Nil]
    /\ priority \in [Threads -> 0 .. MaxPrio]
    /\ ready = Boot
    /\ wakeup = {}
    /\ LET none == [t \in Threads |-> Null]
       IN  sendq = [head |-> none, next |-> none, prev |-> none]
    /\ pc = [t \in Threads |-> User]
    /\ current = Idle
    /\ intrPending = [t \in Threads |-> Null]
    /\ interruptOwner = [i \in Irqs |-> Null]
    /\ masked = [i \in Irqs |-> TRUE]
    /\ inbox = [t \in Threads |-> Null]
    /\ freeing = NotFreeing

Next ==
    \/ \E c \in Threads, dest \in Threads \cup Irqs \cup {Nil}, k \in Calls : SysIpc(c, dest, k)
    \/ \E c \in Threads : ResumeSend(c) \/ ResumeReceive(c)
    \/ IdleLoop
    \/ \E expired \in SUBSET wakeup : HandleTimerInterrupt(expired)
    \/ \E i \in Irqs : HandleInterrupt(i)
    \/ \E c \in Threads, t \in Threads \cup {Nil} : SysThreadSwitch(c, t)
    \/ \E c, t \in Threads, p \in NewPrios : SysSchedule(c, t, p)
    \/ \E c \in Threads, t \in ExRegs : SysLthreadExRegs(c, t) \/ CreateThread(c, t)
    \/ \E c \in Threads, task \in Dying : SysTaskDelete(c, task)
    \/ \E t \in Threads : FreeThread(t) \/ FreeSender(t) \/ FreeTcb(t)

Spec == Init /\ [][Next]_vars

\* What the kernel does by itself: with interrupts disabled it always gets to
\* the end of a deletion, and to the next switch.
DeletionStep == \E t \in Threads : FreeThread(t) \/ FreeSender(t) \/ FreeTcb(t)
KernelStep ==
    \/ \E c \in Threads : ResumeSend(c) \/ ResumeReceive(c)
    \/ IdleLoop
    \/ DeletionStep

DeletionSpec == Spec /\ WF_vars(DeletionStep)

\* Ticks keep coming, and each one brings the clock closer to the timeout of
\* every thread in the wakeup queue.
Expire(t) == \E expired \in SUBSET wakeup : t \in expired /\ HandleTimerInterrupt(expired)

FairSpec == Spec /\ WF_vars(KernelStep) /\ \A t \in Threads : SF_vars(Expire(t))

----------------------------------------------------------------------------
TypeOK ==
    /\ exists \in SUBSET Threads
    /\ state \in [Threads -> States]
    /\ partner \in [Threads -> Threads \cup Irqs \cup {Nil, Invalid}]
    /\ priority \in [Threads -> 0 .. MaxPrio]
    /\ ready \in SUBSET Threads
    /\ wakeup \in SUBSET Threads
    /\ sendq \in [head : [Threads -> Threads \cup {Null}],
                  next : [Threads -> Threads \cup {Null}],
                  prev : [Threads -> Threads \cup {Null}]]
    /\ pc \in [Threads -> Pcs]
    /\ current \in Threads \cup {Idle}
    /\ intrPending \in [Threads -> {Null} \cup [irq : Irqs, inService : BOOLEAN]]
    /\ interruptOwner \in [Irqs -> Threads \cup {Null}]
    /\ masked \in [Irqs -> BOOLEAN]
    /\ inbox \in [Threads -> Threads \cup Irqs \cup {Null}]
    /\ freeing \in [who : SUBSET Threads, at : Threads \cup {Null}]

(***************************************************************************)
(* No runnable thread is lost by IPC: whenever ipc.c or thread.c makes a   *)
(* thread RUNNING or LOCKED_RUNNING, or switches away from one, it is in a *)
(* ready queue or owns the processor.                                      *)
(***************************************************************************)
NoLostThread == RunningIn(state) \subseteq ready \cup ({current} \ {Idle})

(***************************************************************************)
(* Only blocked threads are in the wakeup queue: when an IPC ends before   *)
(* its timeout, the thread is taken out, so that a later IPC without a     *)
(* timeout cannot time out.  The one exception is a thread an interrupt    *)
(* was delivered to and that has not run since.                            *)
(***************************************************************************)
WakeupBlocked ==
    \A t \in wakeup : /\ t \in exists
                      /\ \/ state[t] \in {"POLLING", "WAITING"}
                         \/ state[t] = "LOCKED_RUNNING" /\ inbox[t] \in Irqs

Pollers(d) == {t \in exists : state[t] = "POLLING" /\ partner[t] = d}

(***************************************************************************)
(* The send queue of every thread is one doubly linked ring of exactly the *)
(* threads that poll for it (thread_enqueue_send, thread_dequeue_send).    *)
(***************************************************************************)
SendRings ==
    \A d \in exists :
        LET P == Pollers(d) IN
        IF P = {} THEN sendq.head[d] = Null
        ELSE /\ sendq.head[d] \in P
             /\ \A t \in P : /\ sendq.next[t] \in P /\ sendq.prev[sendq.next[t]] = t
                             /\ sendq.prev[t] \in P /\ sendq.next[sendq.prev[t]] = t
             /\ \A S \in (SUBSET P) \ {{}, P} : \E t \in S : sendq.next[t] \notin S

(***************************************************************************)
(* No missed rendezvous: no thread polls for a receiver that waits for it, *)
(* or for anyone.  Both sides check the other before they block (the send  *)
(* and the receive branch of sys_ipc), and neither may miss it.            *)
(***************************************************************************)
NoMissedRendezvous ==
    \A s, d \in exists : ~ ( /\ state[s] = "POLLING" /\ partner[s] = d
                            /\ state[d] = "WAITING" /\ partner[d] \in {s, Nil} )

(***************************************************************************)
(* A receiver whose message has been copied into its buffer runs: it owns  *)
(* the processor, or is queued in a state in which it will not mistake its *)
(* wake-up for a timeout ("Since the other guy activates itself - we       *)
(* *must* switch" in sys_ipc; handle_interrupt for interrupts).            *)
(***************************************************************************)
DeliveredRuns ==
    \A t \in exists : inbox[t] # Null =>
        current = t \/ (state[t] = "LOCKED_RUNNING" /\ t \in ready)

\* The polling senders a receiver has locked and that have not transferred.
LockedSenders(r) ==
    {s \in exists : state[s] = "LOCKED_RUNNING" /\ pc[s].at = "send" /\ pc[s].dest = r}

(***************************************************************************)
(* Locked threads come in pairs: the receiver of a locked sender is        *)
(* LOCKED_WAITING until the sender transfers, and has one such sender.     *)
(***************************************************************************)
LockedPairs ==
    \A r \in exists : IF state[r] = "LOCKED_WAITING" /\ inbox[r] = Null
                      THEN \E s \in exists : LockedSenders(r) = {s}
                      ELSE LockedSenders(r) = {}

(***************************************************************************)
(* transfer_message writes into the buffer of a thread only when it is     *)
(* blocked in a receive that accepts the sender, and never over a message  *)
(* that has not been handed to the receiver yet.                           *)
(***************************************************************************)
TransferToReceiver ==
    [][\A t \in Threads : inbox'[t] \notin {Null, inbox[t]} =>
          /\ inbox[t] = Null
          /\ \/ state[t] = "LOCKED_WAITING"
             \/ state[t] = "WAITING" /\ partner[t] \in {Nil, inbox'[t]}]_vars

\* A thread is attached to at most one interrupt (ipc_handle_kernel_id
\* detaches it from the others first).
OneInterruptEach ==
    \A i, j \in Irqs : interruptOwner[i] = interruptOwner[j] /\ i # j => interruptOwner[i] = Null

(***************************************************************************)
(* A pending interrupt is not forgotten: whatever its owner does, short of *)
(* detaching, it stays pending until a receive takes it into service.      *)
(***************************************************************************)
PendingKept ==
    [][\A t \in exists, i \in Irqs : intrPending[t] = Pending(i) /\ interruptOwner[i] = t =>
          intrPending'[t] \in {intrPending[t], InService(i)}]_vars

(***************************************************************************)
(* A deleted thread is in no queue: it is not ready, not in the wakeup     *)
(* list, and the links of the send queue of a living thread, followed from *)
(* its head in either direction, stay among the living (free_thread,       *)
(* unwind_ipc).                                                            *)
(***************************************************************************)
DeadUnlinked ==
    /\ ready \cup wakeup \subseteq exists
    /\ \A d \in exists : sendq.head[d] # Null =>
          \E R \in SUBSET exists :
             /\ sendq.head[d] \in R
             /\ \A t \in R : sendq.next[t] \in R /\ sendq.prev[t] \in R

(***************************************************************************)
(* sys_task_new returns: the loop of free_thread over the send queue of    *)
(* every deleted thread ends.                                              *)
(***************************************************************************)
DeletionTerminates == freeing # NotFreeing ~> freeing = NotFreeing

(***************************************************************************)
(* An IPC with a finite timeout does not block forever: the thread is      *)
(* queued to run, by its partner or by the timer (parse_wakeup_queue).     *)
(***************************************************************************)
TimeoutWakes == \A t \in Threads : t \in wakeup ~> (IsRunning(state, t) \/ current = t)

=============================================================================
