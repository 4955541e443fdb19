----------------------------- MODULE IpcProofs -----------------------------
(***************************************************************************)
(* Proofs about Ipc, for any number of threads, interrupts and priorities  *)
(* and for every kind of call: also those that the instances leave out.    *)
(***************************************************************************)
EXTENDS Ipc, TLAPS

\* The conjuncts of TypeOK about what an ipc system call changes.
Partners   == Threads \cup Irqs \cup {Nil, Invalid}
Links      == [Threads -> Threads \cup {Null}]
Interrupts == {Null} \cup [irq : Irqs, inService : BOOLEAN]
Boxes      == [Threads -> Threads \cup Irqs \cup {Null}]
IpcTypeOK ==
    /\ state \in [Threads -> States]
    /\ partner \in [Threads -> Partners]
    /\ ready \in SUBSET Threads
    /\ wakeup \in SUBSET Threads
    /\ sendq \in [head : Links, next : Links, prev : Links]
    /\ pc \in [Threads -> Pcs]
    /\ current \in Threads \cup {Idle}
    /\ intrPending \in [Threads -> Interrupts]
    /\ interruptOwner \in [Irqs -> Threads \cup {Null}]
    /\ masked \in [Irqs -> BOOLEAN]
    /\ inbox \in Boxes

\* NoLostThread, thread by thread.
AllQueued == \A t \in Threads : IsRunning(state, t) => t \in ready \/ current = t

\* The inductive invariant.  A running thread gives up the processor only
\* after it was enqueued or blocked, so AllQueued needs no more than types;
\* that no pending interrupt is overwritten needs OneInterruptEach.
IInv == TypeOK /\ AllQueued /\ OneInterruptEach

\* What the parts of an ipc system call establish.
IpcInv == IpcTypeOK /\ AllQueued /\ OneInterruptEach

\* What every step does with pending interrupts (PendingKept).
KeepsPending ==
    \A t \in exists, i \in Irqs : intrPending[t] = Pending(i) /\ interruptOwner[i] = t =>
        intrPending'[t] \in {intrPending[t], InService(i)}

\* A step that leaves the interrupts alone.
LEMMA IrqsUnchanged ==
    ASSUME IInv, UNCHANGED irqVars
    PROVE  OneInterruptEach' /\ KeepsPending
  BY Zenon DEF IInv, OneInterruptEach, KeepsPending, irqVars

\* The types of what an ipc system call changes, and of the rest.
LEMMA TypesSplit ==
    TypeOK <=> /\ IpcTypeOK
               /\ exists \in SUBSET Threads
               /\ priority \in [Threads -> 0 .. MaxPrio]
               /\ freeing \in [who : SUBSET Threads, at : Threads \cup {Null}]
  BY Zenon DEF TypeOK, IpcTypeOK, Partners, Links, Interrupts, Boxes

\* AllQueued says what the scheduler calls NoLostThread.
LEMMA NotLost == AllQueued <=> NoLostThread
  BY IdsAssumption, Zenon DEF AllQueued, NoLostThread, RunningIn

\* find_next_thread unlinks no runnable thread.
LEMMA FindNextKeepsRunning ==
    ASSUME NEW run \in SUBSET Threads, NEW rdy \in SUBSET Threads,
           priority \in [Threads -> 0 .. MaxPrio],
           NEW next, NEW left, FindNextThread(run, rdy, next, left)
    PROVE  /\ left \in SUBSET Threads
           /\ next \in Threads \cup {Idle}
           /\ run \cap rdy \subseteq left
  <1>1. CASE rdy \cap run = {}
    BY <1>1, Zenon DEF FindNextThread
  <1>2. CASE rdy \cap run # {}
    <2>1. next \in Candidates(run, rdy)
      BY <1>2, Zenon DEF FindNextThread
    <2>2. /\ next \in rdy \cap run
          /\ \A u \in rdy \cap run : priority[u] <= priority[next]
      BY <2>1, Zenon DEF Candidates
    <2>3. PICK passed \in SUBSET {u \in rdy \ run : priority[u] = priority[next]} :
             left = {u \in rdy : priority[u] <= priority[next]} \ passed
      BY <1>2, Zenon DEF FindNextThread
    <2> QED
      BY <2>2, <2>3, Zenon
  <1> QED
    BY <1>1, <1>2, Zenon

----------------------------------------------------------------------------
(* The send queues keep their types, whatever their links are.             *)

\* thread_enqueue_send yields send queues.
LEMMA EnqueueSendType ==
    ASSUME NEW q \in [head : Links, next : Links, prev : Links],
           NEW dest \in Threads, NEW from \in Threads
    PROVE  ThreadEnqueueSend(q, dest, from) \in [head : Links, next : Links, prev : Links]
  <1> DEFINE first == q.head[dest]
             p1 == [q.prev EXCEPT ![from] = q.prev[first]]
             n1 == [q.next EXCEPT ![from] = first]
             p2 == [p1 EXCEPT ![first] = from]
             n2 == [n1 EXCEPT ![p2[from]] = from]
  <1>1. q.head \in Links /\ q.next \in Links /\ q.prev \in Links
    BY Zenon
  <1>2. CASE first = Null
    BY <1>1, <1>2, Zenon DEF ThreadEnqueueSend, Links
  <1>3. CASE first # Null
    <2>1. first \in Threads
      BY <1>1, <1>3, Zenon DEF Links
    <2>2. p1 \in Links /\ n1 \in Links
      BY <1>1, <2>1, Zenon DEF Links
    <2>3. p2 \in Links
      BY <2>2, Zenon DEF Links
    <2>4. n2 \in Links
      BY <2>2, Zenon DEF Links
    <2>5. ThreadEnqueueSend(q, dest, from) = [head |-> q.head, next |-> n2, prev |-> p2]
      BY <1>3, Zenon DEF ThreadEnqueueSend
    <2> QED
      BY <1>1, <2>3, <2>4, <2>5
  <1> QED
    BY <1>2, <1>3, Zenon

\* thread_dequeue_send yields send queues.
LEMMA DequeueSendType ==
    ASSUME NEW q \in [head : Links, next : Links, prev : Links],
           NEW dest, NEW tcb \in Threads
    PROVE  ThreadDequeueSend(q, dest, tcb) \in [head : Links, next : Links, prev : Links]
  <1> DEFINE n1 == [q.next EXCEPT ![q.prev[tcb]] = q.next[tcb]]
             h1 == [q.head EXCEPT ![dest] = IF @ = tcb THEN q.next[tcb] ELSE @]
             p1 == [q.prev EXCEPT ![n1[tcb]] = q.prev[tcb]]
  <1>1. q.head \in Links /\ q.next \in Links /\ q.prev \in Links
    BY Zenon
  <1>2. CASE q.next[tcb] = tcb
    BY <1>1, <1>2, Zenon DEF ThreadDequeueSend, Links
  <1>3. CASE q.next[tcb] # tcb
    <2>1. n1 \in Links
      BY <1>1, Zenon DEF Links
    <2>2. h1 \in Links
      BY <1>1, Zenon DEF Links
    <2>3. p1 \in Links
      BY <1>1, Zenon DEF Links
    <2>4. ThreadDequeueSend(q, dest, tcb) = [head |-> h1, next |-> n1, prev |-> p1]
      BY <1>3, Zenon DEF ThreadDequeueSend
    <2> QED
      BY <2>1, <2>2, <2>3, <2>4
  <1> QED
    BY <1>2, <1>3, Zenon

----------------------------------------------------------------------------
(* The parts of the ipc system call, run by c.  The operators pass on what *)
(* the parts before them have done to the partners, the buffers, the       *)
(* wakeup queue, the interrupt of c and the mask.                          *)

Passed(c, par, box, wk) ==
    /\ c \in Threads /\ current = c
    /\ par \in [Threads -> Partners]
    /\ box \in Boxes
    /\ wk \in SUBSET Threads

PassedIrq(c, pend, mask) ==
    /\ pend \in Interrupts
    /\ \A i \in Irqs : intrPending[c] = Pending(i) => pend = Pending(i)
    /\ mask \in [Irqs -> BOOLEAN]

\* An interrupt that was pending for c may stay so or be taken into service.
LEMMA PendingOfCaller ==
    ASSUME IpcTypeOK, exists \in SUBSET Threads, NEW c \in Threads,
           NEW now,
           \A i \in Irqs : intrPending[c] = Pending(i) => now \in {Pending(i), InService(i)},
           intrPending' = [intrPending EXCEPT ![c] = now]
    PROVE  KeepsPending
  BY Zenon DEF KeepsPending, IpcTypeOK

\* return_ipc: an IPC that ends at once keeps the invariant.
LEMMA ReturnIpcInv ==
    ASSUME IpcInv, exists \in SUBSET Threads,
           NEW c, NEW par, NEW box, NEW wk, NEW pend, NEW mask,
           Passed(c, par, box, wk),
           pend \in Interrupts, mask \in [Irqs -> BOOLEAN],
           \A i \in Irqs : intrPending[c] = Pending(i) => pend \in {Pending(i), InService(i)},
           ReturnIpc(c, par, box, wk, pend, mask)
    PROVE  IpcInv' /\ KeepsPending
  <1> USE DEF Passed, IpcInv
  <1>1. IpcTypeOK'
    BY Zenon DEF IpcTypeOK, ReturnIpc, Pcs
  <1>2. AllQueued'
    BY Zenon DEF AllQueued, IsRunning, ReturnIpc
  <1>3. OneInterruptEach'
    BY Zenon DEF OneInterruptEach, ReturnIpc
  <1>4. KeepsPending
    BY PendingOfCaller, Zenon DEF ReturnIpc
  <1> QED
    BY <1>1, <1>2, <1>3, <1>4, Zenon

\* Detaching leaves c no interrupt, so attaching gives it one.
LEMMA AttachInv ==
    ASSUME IpcTypeOK, OneInterruptEach, NEW c \in Threads, NEW dest \in Irqs,
           Detached(c)[dest] = Null
    PROVE  LET owner == [Detached(c) EXCEPT ![dest] = c]
           IN  /\ owner \in [Irqs -> Threads \cup {Null}]
               /\ \A i, j \in Irqs : owner[i] = owner[j] /\ i # j => owner[i] = Null
  BY Zenon DEF IpcTypeOK, OneInterruptEach, Detached

\* Detaching alone.
LEMMA DetachInv ==
    ASSUME IpcTypeOK, OneInterruptEach, NEW c \in Threads
    PROVE  LET owner == Detached(c)
           IN  /\ owner \in [Irqs -> Threads \cup {Null}]
               /\ \A i, j \in Irqs : owner[i] = owner[j] /\ i # j => owner[i] = Null
  BY Zenon DEF IpcTypeOK, OneInterruptEach, Detached

\* ipc_handle_kernel_id keeps the invariant.
LEMMA KernelIdInv ==
    ASSUME IpcInv, exists \in SUBSET Threads,
           NEW c, NEW par, NEW box, NEW wk, NEW pend, NEW mask,
           Passed(c, par, box, wk), PassedIrq(c, pend, mask),
           NEW dest \in Irqs \cup {Nil}, NEW rto \in Timeouts,
           IpcHandleKernelId(c, dest, rto, par, box, wk, pend, mask)
    PROVE  IpcInv' /\ KeepsPending
  <1> USE DEF Passed, PassedIrq, IpcInv
  <1>1. CASE /\ dest \in Irqs /\ pend = Pending(dest)
             /\ ReturnIpc(c, par, box, wk, InService(dest), mask)
    <2>1. InService(dest) \in Interrupts
      BY <1>1, Zenon DEF InService, Interrupts
    <2>2. \A i \in Irqs : intrPending[c] = Pending(i) => InService(dest) = InService(i)
      BY <1>1, Zenon DEF Pending, InService
    <2> QED
      BY <1>1, <2>1, <2>2, ReturnIpcInv
  <1>2. CASE /\ rto = "zero"
             /\ LET attach == dest \in Irqs /\ Detached(c)[dest] = Null
                IN  /\ interruptOwner' = IF attach THEN [Detached(c) EXCEPT ![dest] = c]
                                                   ELSE Detached(c)
                    /\ masked' = IF attach THEN [mask EXCEPT ![dest] = TRUE] ELSE mask
             /\ pc' = [pc EXCEPT ![c] = User]
             /\ intrPending' = [intrPending EXCEPT ![c] = pend]
             /\ partner' = par /\ inbox' = box /\ wakeup' = wk
             /\ UNCHANGED <<state, ready, sendq, current>>
    <2>1. /\ interruptOwner' \in [Irqs -> Threads \cup {Null}]
          /\ OneInterruptEach'
      <3>1. CASE dest \in Irqs /\ Detached(c)[dest] = Null
        BY <1>2, <3>1, AttachInv DEF OneInterruptEach
      <3>2. CASE ~(dest \in Irqs /\ Detached(c)[dest] = Null)
        BY <1>2, <3>2, DetachInv, Zenon DEF OneInterruptEach
      <3> QED
        BY <3>1, <3>2, Zenon
    <2>2. masked' \in [Irqs -> BOOLEAN]
      BY <1>2, Zenon
    <2>3. IpcTypeOK'
      BY <1>2, <2>1, <2>2, Zenon DEF IpcTypeOK, Pcs
    <2>4. AllQueued'
      BY <1>2, Zenon DEF AllQueued, IsRunning
    <2>5. KeepsPending
      BY <1>2, PendingOfCaller, Zenon
    <2> QED
      BY <2>1, <2>3, <2>4, <2>5, Zenon
  <1>3. CASE /\ wakeup' = IF rto = "finite" THEN wk \cup {c} ELSE wk
             /\ masked' = IF dest \in Irqs THEN [mask EXCEPT ![dest] = FALSE] ELSE mask
             /\ partner' = [par EXCEPT ![c] = IF dest = Nil THEN Invalid ELSE dest]
             /\ state' = [state EXCEPT ![c] = "WAITING"]
             /\ pc' = [pc EXCEPT ![c] = [at |-> "recv"]]
             /\ intrPending' = [intrPending EXCEPT ![c] = pend]
             /\ inbox' = box
             /\ current' = Idle
             /\ UNCHANGED <<ready, sendq, interruptOwner>>
    <2>1. masked' \in [Irqs -> BOOLEAN]
      BY <1>3, Zenon
    <2>2. IpcTypeOK'
      BY <1>3, <2>1, Zenon DEF IpcTypeOK, Pcs, Partners, States
    <2>3. AllQueued'
      BY <1>3, Zenon DEF AllQueued, IsRunning, IpcTypeOK
    <2>4. OneInterruptEach'
      BY <1>3, Zenon DEF OneInterruptEach
    <2>5. KeepsPending
      BY <1>3, PendingOfCaller, ZenonT(30)
    <2> QED
      BY <2>2, <2>3, <2>4, <2>5, Zenon
  <1> QED
    BY <1>1, <1>2, <1>3, Zenon DEF IpcHandleKernelId

\* Receiving a pending interrupt in an open wait.
LEMMA ReceiveInterruptInv ==
    ASSUME IpcInv, exists \in SUBSET Threads,
           NEW c, NEW par, NEW box, NEW wk, NEW pend, NEW mask,
           Passed(c, par, box, wk), PassedIrq(c, pend, mask),
           NEW to \in Threads \cup {Null}, pend # Null,
           ReceiveInterrupt(c, to, par, box, wk, pend, mask)
    PROVE  IpcInv' /\ KeepsPending
  <1> USE DEF Passed, PassedIrq, IpcInv
  <1> DEFINE now == InService(pend.irq)
  <1>1. now \in Interrupts
    BY Zenon DEF InService, Interrupts
  <1>2. \A i \in Irqs : Pending(i).irq = i
    BY Zenon DEF Pending
  <1>3. \A i \in Irqs : intrPending[c] = Pending(i) => now \in {Pending(i), InService(i)}
    BY <1>2, Zenon
  <1>4. CASE to = Null
    <2>1. ReturnIpc(c, par, box, wk, now, mask)
      BY <1>4, Zenon DEF ReceiveInterrupt
    <2> HIDE DEF now
    <2> QED
      BY <1>1, <1>3, <2>1, ReturnIpcInv, Zenon
  <1>5. CASE to # Null
    <2>1. intrPending' = [intrPending EXCEPT ![c] = now]
      BY <1>5, Zenon DEF ReceiveInterrupt
    <2> HIDE DEF now
    <2>2. IpcTypeOK'
      BY <1>1, <1>5, <2>1 DEF ReceiveInterrupt, IpcTypeOK, Pcs, States
    <2>3. AllQueued'
      BY <1>5, Zenon DEF ReceiveInterrupt, AllQueued, IsRunning, IpcTypeOK
    <2>4. OneInterruptEach'
      BY <1>5, Zenon DEF ReceiveInterrupt, OneInterruptEach
    <2>5. KeepsPending
      BY <1>3, <2>1, PendingOfCaller, ZenonT(30)
    <2> QED
      BY <2>2, <2>3, <2>4, <2>5, Zenon
  <1> QED
    BY <1>4, <1>5, Zenon

\* Blocking in a receive.
LEMMA ReceiveBlockInv ==
    ASSUME IpcInv, exists \in SUBSET Threads,
           NEW c, NEW par, NEW box, NEW wk, NEW pend, NEW mask,
           Passed(c, par, box, wk), PassedIrq(c, pend, mask),
           NEW to \in Threads \cup {Null}, NEW rcv, NEW rto,
           NEW dest, rcv # "open" => dest \in Threads,
           intrPending' = [intrPending EXCEPT ![c] = pend], masked' = mask,
           ReceiveBlock(c, to, dest, rcv, rto, par, box, wk)
    PROVE  IpcInv' /\ KeepsPending
  <1> USE DEF Passed, PassedIrq, IpcInv
  <1>1. IpcTypeOK'
    BY Zenon DEF ReceiveBlock, IpcTypeOK, Pcs, States, Partners
  <1>2. AllQueued'
    BY Zenon DEF ReceiveBlock, AllQueued, IsRunning, IpcTypeOK
  <1>3. OneInterruptEach'
    BY Zenon DEF ReceiveBlock, OneInterruptEach
  <1>4. KeepsPending
    BY PendingOfCaller, ZenonT(30)
  <1> QED
    BY <1>1, <1>2, <1>3, <1>4, Zenon

\* Locking a polling sender.
LEMMA ReceivePollingInv ==
    ASSUME IpcInv, exists \in SUBSET Threads,
           NEW c, NEW par, NEW box, NEW wk, NEW pend, NEW mask,
           Passed(c, par, box, wk), PassedIrq(c, pend, mask),
           NEW to \in Threads \cup {Null}, NEW from \in Threads,
           intrPending' = [intrPending EXCEPT ![c] = pend], masked' = mask,
           ReceivePolling(c, to, from, par, box, wk)
    PROVE  IpcInv' /\ KeepsPending
  <1> USE DEF Passed, PassedIrq, IpcInv
  <1>1. sendq' \in [head : Links, next : Links, prev : Links]
    BY DequeueSendType, Zenon DEF ReceivePolling, IpcTypeOK
  <1>2. IpcTypeOK'
    BY <1>1, Zenon DEF ReceivePolling, IpcTypeOK, Pcs, States
  <1>3. AllQueued'
    BY Zenon DEF ReceivePolling, AllQueued, IsRunning, IpcTypeOK
  <1>4. OneInterruptEach'
    BY Zenon DEF ReceivePolling, OneInterruptEach
  <1>5. KeepsPending
    BY PendingOfCaller, ZenonT(30)
  <1> QED
    BY <1>2, <1>3, <1>4, <1>5, Zenon

\* The receive phase as a whole.
LEMMA ReceivePhaseInv ==
    ASSUME IpcInv, exists \in SUBSET Threads,
           NEW c, NEW par, NEW box, NEW wk, Passed(c, par, box, wk),
           NEW to \in Threads \cup {Null}, NEW dest \in Threads \cup Irqs \cup {Nil},
           NEW rcv \in {"from", "open"}, NEW rto \in Timeouts,
           ReceivePhase(c, to, dest, rcv, rto, par, box, wk)
    PROVE  IpcInv' /\ KeepsPending
  <1> DEFINE served == intrPending[c] # Null /\ intrPending[c].inService
             pend   == IF served THEN Null ELSE intrPending[c]
             mask   == IF served THEN [masked EXCEPT ![intrPending[c].irq] = FALSE]
                                 ELSE masked
             from   == IF rcv = "from" THEN dest ELSE sendq.head[c]
             polls  == from # Null /\ state[from] = "POLLING" /\ par[from] = c
  <1>1. c \in Threads
    BY Zenon DEF Passed
  <1>2. intrPending[c] \in Interrupts
    BY <1>1, Zenon DEF IpcInv, IpcTypeOK
  <1>3. PassedIrq(c, pend, mask)
    <2>1. pend \in Interrupts
      BY <1>2, Zenon DEF Interrupts
    <2>2. \A i \in Irqs : intrPending[c] = Pending(i) => pend = Pending(i)
      BY DEF Pending
    <2>3. mask \in [Irqs -> BOOLEAN]
      BY Zenon DEF IpcInv, IpcTypeOK
    <2> QED
      BY <2>1, <2>2, <2>3, Zenon DEF PassedIrq
  <1>4. from # Null /\ (rcv = "from" => dest \in Threads) => from \in Threads
    BY <1>1, Zenon DEF IpcInv, IpcTypeOK, Links
  <1>5. \/ /\ rcv = "from" /\ dest \notin Threads
           /\ IpcHandleKernelId(c, dest, rto, par, box, wk, pend, mask)
        \/ ReturnIpc(c, par, box, wk, pend, mask)
        \/ /\ pend # Null
           /\ ReceiveInterrupt(c, to, par, box, wk, pend, mask)
        \/ /\ IF rcv = "from" THEN dest \in exists ELSE pend = Null
           /\ intrPending' = [intrPending EXCEPT ![c] = pend]
           /\ masked' = mask
           /\ \/ ReceiveBlock(c, to, dest, rcv, rto, par, box, wk)
              \/ polls /\ ReceivePolling(c, to, from, par, box, wk)
    BY Zenon DEF ReceivePhase
  <1> HIDE DEF pend, mask, from, served
  <1>6. CASE /\ rcv = "from" /\ dest \notin Threads
             /\ IpcHandleKernelId(c, dest, rto, par, box, wk, pend, mask)
    BY <1>3, <1>6, KernelIdInv, Zenon
  <1>7. CASE ReturnIpc(c, par, box, wk, pend, mask)
    BY <1>3, <1>7, ReturnIpcInv, Zenon DEF PassedIrq
  <1>8. CASE /\ pend # Null
             /\ ReceiveInterrupt(c, to, par, box, wk, pend, mask)
    BY <1>3, <1>8, ReceiveInterruptInv, Zenon
  <1>9. CASE /\ IF rcv = "from" THEN dest \in exists ELSE pend = Null
             /\ intrPending' = [intrPending EXCEPT ![c] = pend]
             /\ masked' = mask
             /\ \/ ReceiveBlock(c, to, dest, rcv, rto, par, box, wk)
                \/ polls /\ ReceivePolling(c, to, from, par, box, wk)
    <2>1. rcv = "from" => dest \in Threads
      BY <1>9, Zenon
    <2>2. CASE ReceiveBlock(c, to, dest, rcv, rto, par, box, wk)
      BY <1>3, <1>9, <2>1, <2>2, ReceiveBlockInv, Zenon
    <2>3. CASE polls /\ ReceivePolling(c, to, from, par, box, wk)
      BY <1>3, <1>4, <1>9, <2>1, <2>3, ReceivePollingInv, ZenonT(30)
    <2> QED
      BY <1>9, <2>2, <2>3, Zenon
  <1> QED
    BY <1>5, <1>6, <1>7, <1>8, <1>9, Zenon

\* What follows the transfer of a message.
LEMMA AfterTransferInv ==
    ASSUME IpcInv, exists \in SUBSET Threads,
           NEW c, NEW par, NEW wk, Passed(c, par, inbox, wk),
           NEW to \in Threads, NEW rcv \in {"none", "from", "open"},
           NEW rto \in Timeouts,
           AfterTransfer(c, to, rcv, rto, par, wk)
    PROVE  IpcInv' /\ KeepsPending
  <1> DEFINE par2 == [par EXCEPT ![to] = c]
             box2 == [inbox EXCEPT ![to] = c]
  <1>1. Passed(c, par2, box2, wk)
    BY Zenon DEF Passed, Partners, Boxes
  <1>2. CASE rcv = "none"
    <2> USE DEF Passed, IpcInv
    <2>1. par2 \in [Threads -> Partners] /\ box2 \in Boxes
      BY <1>1, Zenon
    <2>2. partner' = par2 /\ inbox' = box2
      BY <1>2, Zenon DEF AfterTransfer
    <2> HIDE DEF par2, box2
    <2>3. IpcTypeOK'
      BY <1>2, <2>1, <2>2 DEF AfterTransfer, IpcTypeOK, Pcs, States, irqVars
    <2>4. AllQueued'
      BY <1>2, Zenon DEF AfterTransfer, AllQueued, IsRunning, IpcTypeOK
    <2>5. OneInterruptEach' /\ KeepsPending
      BY <1>2, Zenon DEF AfterTransfer, OneInterruptEach, KeepsPending, irqVars
    <2> QED
      BY <2>3, <2>4, <2>5, Zenon
  <1>3. CASE rcv # "none"
    <2>1. ReceivePhase(c, to, to, rcv, rto, par2, box2, wk)
      BY <1>3, Zenon DEF AfterTransfer
    <2> HIDE DEF par2, box2
    <2> QED
      BY <1>1, <1>3, <2>1, ReceivePhaseInv, Zenon
  <1> QED
    BY <1>2, <1>3, Zenon

----------------------------------------------------------------------------
(* One lemma per action.                                                   *)

\* sys_ipc up to the first switch.
LEMMA SysIpcInv ==
    ASSUME IInv, NEW c \in Threads, NEW dest \in Threads \cup Irqs \cup {Nil},
           NEW k \in Calls, SysIpc(c, dest, k)
    PROVE  IInv' /\ KeepsPending
  <1> DEFINE par == [partner EXCEPT ![c] = dest]
  <1>1. /\ k.snd \in BOOLEAN
        /\ k.rcv \in {"none", "from", "open"} /\ k.rto \in Timeouts
        /\ ~k.snd => k.rcv \in {"from", "open"}
    BY ClientAssumption, Zenon DEF CallType
  <1>2. IpcInv /\ exists \in SUBSET Threads
    BY TypesSplit, Zenon DEF IInv, IpcInv
  <1>3. /\ Passed(c, partner, inbox, wakeup)
        /\ Passed(c, par, inbox, wakeup)
    BY <1>2, Zenon DEF Passed, IpcInv, IpcTypeOK, Partners, SysIpc, InUser
  <1>4. /\ intrPending[c] \in Interrupts /\ masked \in [Irqs -> BOOLEAN]
        /\ UNCHANGED <<exists, priority, freeing>>
    BY <1>2, Zenon DEF IpcInv, IpcTypeOK, SysIpc
  <1>5. IpcInv' /\ KeepsPending
    <2>1. \/ /\ ~k.snd
             /\ ReceivePhase(c, Null, dest, k.rcv, k.rto, partner, inbox, wakeup)
          \/ ReturnIpc(c, partner, inbox, wakeup, intrPending[c], masked)
          \/ /\ dest \in exists
             /\ AfterTransfer(c, dest, k.rcv, k.rto, par, wakeup)
          \/ ReturnIpc(c, par, inbox, wakeup, intrPending[c], masked)
          \/ /\ dest \in exists
             /\ partner' = par
             /\ wakeup' = IF k.sto = "finite" THEN wakeup \cup {c} ELSE wakeup
             /\ sendq' = ThreadEnqueueSend(sendq, dest, c)
             /\ state' = [state EXCEPT ![c] = "POLLING"]
             /\ pc' = [pc EXCEPT ![c] = [at |-> "send", dest |-> dest,
                                         rcv |-> k.rcv, rto |-> k.rto]]
             /\ current' = Idle
             /\ UNCHANGED <<ready, inbox, irqVars>>
      BY Zenon DEF SysIpc
    <2> HIDE DEF par
    <2>2. CASE /\ ~k.snd
               /\ ReceivePhase(c, Null, dest, k.rcv, k.rto, partner, inbox, wakeup)
      BY <1>1, <1>2, <1>3, <2>2, ReceivePhaseInv, Zenon
    <2>3. CASE ReturnIpc(c, partner, inbox, wakeup, intrPending[c], masked)
      BY <1>2, <1>3, <1>4, <2>3, ReturnIpcInv, Zenon
    <2>4. CASE /\ dest \in exists
               /\ AfterTransfer(c, dest, k.rcv, k.rto, par, wakeup)
      BY <1>1, <1>2, <1>3, <2>4, AfterTransferInv, Zenon
    <2>5. CASE ReturnIpc(c, par, inbox, wakeup, intrPending[c], masked)
      BY <1>2, <1>3, <1>4, <2>5, ReturnIpcInv, Zenon
    <2>6. CASE /\ dest \in exists
               /\ partner' = par
               /\ wakeup' = IF k.sto = "finite" THEN wakeup \cup {c} ELSE wakeup
               /\ sendq' = ThreadEnqueueSend(sendq, dest, c)
               /\ state' = [state EXCEPT ![c] = "POLLING"]
               /\ pc' = [pc EXCEPT ![c] = [at |-> "send", dest |-> dest,
                                           rcv |-> k.rcv, rto |-> k.rto]]
               /\ current' = Idle
               /\ UNCHANGED <<ready, inbox, irqVars>>
      <3>1. sendq' \in [head : Links, next : Links, prev : Links]
        BY <1>2, <2>6, EnqueueSendType, Zenon DEF IpcInv, IpcTypeOK
      <3>2. [at |-> "send", dest |-> dest, rcv |-> k.rcv, rto |-> k.rto] \in Pcs
        BY <1>1, <1>2, <2>6, Zenon DEF Pcs
      <3>3. IpcTypeOK'
        BY <1>2, <1>3, <2>6, <3>1, <3>2, Zenon DEF IpcInv, IpcTypeOK, Passed, States, irqVars
      <3>4. AllQueued'
        BY <1>2, <1>3, <2>6, Zenon DEF IpcInv, IpcTypeOK, Passed, AllQueued, IsRunning
      <3>5. OneInterruptEach' /\ KeepsPending
        BY <1>2, <2>6, Zenon DEF IpcInv, OneInterruptEach, KeepsPending, irqVars
      <3> QED
        BY <3>3, <3>4, <3>5, Zenon DEF IpcInv
    <2> QED
      BY <2>1, <2>2, <2>3, <2>4, <2>5, <2>6, Zenon
  <1> QED
    BY <1>4, <1>5, TypesSplit, Zenon DEF IInv, IpcInv, TypeOK, IpcTypeOK, Partners, Links,
                                  Interrupts, Boxes

\* sys_ipc after the switch of a polling sender.
LEMMA ResumeSendInv ==
    ASSUME IInv, NEW c \in Threads, ResumeSend(c)
    PROVE  IInv' /\ KeepsPending
  <1>1. IpcInv /\ exists \in SUBSET Threads
    BY TypesSplit, Zenon DEF IInv, IpcInv
  <1>2. /\ Passed(c, partner, inbox, wakeup)
        /\ Passed(c, partner, inbox, wakeup \ {c})
    BY <1>1, Zenon DEF Passed, IpcInv, IpcTypeOK, ResumeSend
  <1>3. /\ intrPending[c] \in Interrupts /\ masked \in [Irqs -> BOOLEAN]
        /\ UNCHANGED <<exists, priority, freeing>>
    BY <1>1, Zenon DEF IpcInv, IpcTypeOK, ResumeSend
  <1>4. /\ pc[c].dest \in Threads /\ pc[c].rcv \in {"none", "from", "open"}
        /\ pc[c].rto \in Timeouts
    <2>1. pc[c] \in Pcs /\ pc[c].at = "send"
      BY <1>1, Zenon DEF IpcInv, IpcTypeOK, ResumeSend
    <2> QED
      BY <2>1 DEF Pcs, User
  <1>5. IpcInv' /\ KeepsPending
    <2>1. CASE ReturnIpc(c, partner, inbox, wakeup, intrPending[c], masked)
      BY <1>1, <1>2, <1>3, <2>1, ReturnIpcInv, Zenon
    <2>2. CASE AfterTransfer(c, pc[c].dest, pc[c].rcv, pc[c].rto, partner, wakeup \ {c})
      BY <1>1, <1>2, <1>4, <2>2, AfterTransferInv, Zenon
    <2> QED
      BY <2>1, <2>2, Zenon DEF ResumeSend
  <1> QED
    BY <1>3, <1>5, TypesSplit, Zenon DEF IInv, IpcInv, TypeOK, IpcTypeOK, Partners, Links,
                                  Interrupts, Boxes

\* sys_ipc after the switch of a receiver.
LEMMA ResumeReceiveInv ==
    ASSUME IInv, NEW c \in Threads, ResumeReceive(c)
    PROVE  IInv' /\ KeepsPending
  <1>1. /\ state' \in [Threads -> States] /\ wakeup' \in SUBSET Threads
        /\ pc' \in [Threads -> Pcs]
    BY DEF IInv, TypeOK, States, Pcs, ResumeReceive
  <1>2. inbox' \in [Threads -> Threads \cup Irqs \cup {Null}]
    BY Zenon DEF IInv, TypeOK, ResumeReceive
  <1>3. TypeOK'
    BY <1>1, <1>2, Zenon DEF IInv, TypeOK, ResumeReceive, irqVars
  <1>4. AllQueued'
    BY Zenon DEF IInv, TypeOK, AllQueued, IsRunning, ResumeReceive
  <1>5. OneInterruptEach' /\ KeepsPending
    BY IrqsUnchanged, Zenon DEF ResumeReceive
  <1> QED
    BY <1>3, <1>4, <1>5, Zenon DEF IInv

\* The idle loop.
LEMMA IdleLoopInv == IInv /\ IdleLoop => IInv' /\ KeepsPending
  <1> SUFFICES ASSUME IInv, IdleLoop PROVE IInv' /\ KeepsPending
    BY Zenon
  <1>1. RunningIn(state) \in SUBSET Threads
    BY Zenon DEF RunningIn
  <1>2. /\ ready' \in SUBSET Threads
        /\ current' \in Threads \cup {Idle}
        /\ RunningIn(state) \cap ready \subseteq ready'
    BY <1>1, FindNextKeepsRunning, Zenon DEF IInv, TypeOK, IdleLoop
  <1>3. TypeOK'
    BY <1>2, Zenon DEF IInv, TypeOK, IdleLoop, irqVars
  <1>4. AllQueued'
    BY <1>2, IdsAssumption, Zenon DEF IInv, AllQueued, IdleLoop, RunningIn, IsRunning
  <1>5. OneInterruptEach' /\ KeepsPending
    BY IrqsUnchanged, Zenon DEF IdleLoop
  <1> QED
    BY <1>3, <1>4, <1>5, Zenon DEF IInv

\* handle_timer_interrupt.
LEMMA TimerInv ==
    ASSUME IInv, NEW expired \in SUBSET wakeup, HandleTimerInterrupt(expired)
    PROVE  IInv' /\ KeepsPending
  <1> DEFINE st == [t \in Threads |-> IF t \in expired THEN "RUNNING" ELSE state[t]]
             rdy == ready \cup expired \cup ({current} \ {Idle})
  <1>1. /\ st \in [Threads -> States] /\ rdy \in SUBSET Threads
        /\ RunningIn(st) \in SUBSET Threads
        /\ RunningIn(st) \subseteq rdy
    <2>1. st \in [Threads -> States] /\ rdy \in SUBSET Threads
      BY Zenon DEF IInv, TypeOK, States
    <2>2. \A t \in Threads : IsRunning(st, t) => t \in rdy
      BY IdsAssumption, Zenon DEF IInv, AllQueued, IsRunning
    <2> QED
      BY <2>1, <2>2, Zenon DEF RunningIn
  <1>2. state' = st /\ wakeup' = wakeup \ expired
    BY Zenon DEF HandleTimerInterrupt
  <1>3. /\ ready' \in SUBSET Threads
        /\ current' \in Threads \cup {Idle}
        /\ RunningIn(st) \subseteq ready'
    <2>1. CASE current' \in expired /\ ready' = rdy
      BY <1>1, <2>1, Zenon DEF IInv, TypeOK
    <2>2. CASE current' = current /\ ready' = rdy
      BY <1>1, <2>2, Zenon DEF IInv, TypeOK
    <2>3. CASE FindNextThread(RunningIn(st), rdy, current', ready')
      <3> HIDE DEF st, rdy
      <3> QED
        BY <1>1, <2>3, FindNextKeepsRunning, SMTT(30) DEF IInv, TypeOK
    <2> QED
      BY <2>1, <2>2, <2>3, Zenon DEF HandleTimerInterrupt
  <1> HIDE DEF st, rdy
  <1>4. TypeOK'
    BY <1>1, <1>2, <1>3, Zenon DEF IInv, TypeOK, HandleTimerInterrupt, irqVars
  <1>5. AllQueued'
    BY <1>2, <1>3, Zenon DEF AllQueued, RunningIn
  <1>6. OneInterruptEach' /\ KeepsPending
    BY IrqsUnchanged, Zenon DEF HandleTimerInterrupt
  <1> QED
    BY <1>4, <1>5, <1>6, Zenon DEF IInv

\* handle_interrupt: the owner has no other interrupt that could be pending.
LEMMA InterruptInv ==
    ASSUME IInv, NEW i \in Irqs, HandleInterrupt(i)
    PROVE  IInv' /\ KeepsPending
  <1> DEFINE o == interruptOwner[i]
  <1>1. o # Null => o \in Threads
    BY Zenon DEF IInv, TypeOK
  <1>2. /\ Pending(i) \in Interrupts /\ InService(i) \in Interrupts
        /\ masked' \in [Irqs -> BOOLEAN]
        /\ UNCHANGED <<exists, partner, priority, wakeup, sendq, pc, interruptOwner, freeing>>
    BY Zenon DEF Pending, InService, Interrupts, HandleInterrupt, IrqHandler, IInv, TypeOK
  <1>3. OneInterruptEach'
    BY <1>2, Zenon DEF IInv, OneInterruptEach
  <1>4. /\ state' \in [Threads -> States] /\ ready' \in SUBSET Threads
        /\ current' \in Threads \cup {Idle}
        /\ inbox' \in Boxes
        /\ intrPending' \in [Threads -> Interrupts]
        /\ AllQueued'
    <2>1. CASE UNCHANGED <<state, ready, current, intrPending, inbox>>
      BY <2>1, Zenon DEF IInv, TypeOK, AllQueued, IsRunning, Interrupts, Boxes
    <2>2. CASE /\ o # Null
               /\ intrPending' = [intrPending EXCEPT ![o] = Pending(i)]
               /\ UNCHANGED <<state, ready, current, inbox>>
      BY <1>1, <1>2, <2>2, Zenon DEF IInv, TypeOK, AllQueued, IsRunning, Interrupts, Boxes
    <2>3. CASE /\ o # Null
               /\ intrPending' = [intrPending EXCEPT ![o] = InService(i)]
               /\ inbox' = [inbox EXCEPT ![o] = i]
               /\ \/ /\ state' = [state EXCEPT ![o] = "LOCKED_RUNNING"]
                     /\ ready' = ready \cup {o}
                     /\ UNCHANGED current
                  \/ /\ ready' = ready \cup ({current} \ {Idle})
                     /\ current' = o
                     /\ UNCHANGED state
      <3> HIDE DEF o
      <3>1. inbox' \in Boxes /\ intrPending' \in [Threads -> Interrupts]
        BY <1>1, <1>2, <2>3, Zenon DEF IInv, TypeOK, Interrupts, Boxes
      <3>2. /\ state' \in [Threads -> States] /\ ready' \in SUBSET Threads
            /\ current' \in Threads \cup {Idle}
        <4>1. o \in Threads
          BY <1>1, <2>3, Zenon
        <4>2. state' \in [Threads -> States]
          BY <2>3, <4>1, Zenon DEF IInv, TypeOK, States
        <4>3. current \in Threads \cup {Idle} /\ ready \in SUBSET Threads
          BY Zenon DEF IInv, TypeOK
        <4>4. current' \in Threads \cup {Idle}
          BY <2>3, <4>1, <4>3, Zenon
        <4>5. ready' = ready \cup {o} \/ ready' = ready \cup ({current} \ {Idle})
          BY <2>3, Zenon
        <4>6. ready' \in SUBSET Threads
          BY <4>1, <4>3, <4>5, Zenon
        <4> QED
          BY <4>2, <4>4, <4>6, Zenon
      <3>3. AllQueued'
        BY <1>1, <2>3, IdsAssumption, SMTT(30) DEF IInv, TypeOK, AllQueued, IsRunning
      <3> QED
        BY <3>1, <3>2, <3>3, Zenon
    <2> QED
      BY <2>1, <2>2, <2>3, ZenonT(30) DEF HandleInterrupt
  <1>5. TypeOK'
    BY <1>2, <1>4, Zenon DEF IInv, TypeOK, Interrupts, Boxes
  <1>6. KeepsPending
    <2> SUFFICES ASSUME NEW t \in exists, NEW j \in Irqs,
                        intrPending[t] = Pending(j), interruptOwner[j] = t
                 PROVE  intrPending'[t] \in {intrPending[t], InService(j)}
      BY ZenonT(30) DEF KeepsPending
    <2>1. t \in Threads /\ t # Null /\ (o = t => i = j)
      BY IdsAssumption, SMTT(30) DEF IInv, TypeOK, OneInterruptEach
    <2>2. \/ intrPending' = intrPending
          \/ intrPending' = [intrPending EXCEPT ![o] = Pending(i)]
          \/ intrPending' = [intrPending EXCEPT ![o] = InService(i)]
      BY Zenon DEF HandleInterrupt
    <2> HIDE DEF o
    <2> QED
      BY <2>1, <2>2, SMTT(30) DEF IInv, TypeOK
  <1> QED
    BY <1>3, <1>4, <1>5, <1>6, Zenon DEF IInv

\* sys_thread_switch.
LEMMA ThreadSwitchInv ==
    ASSUME IInv, NEW c \in Threads, NEW t \in Threads \cup {Nil}, SysThreadSwitch(c, t)
    PROVE  IInv' /\ KeepsPending
  <1> DEFINE rdy == ready \cup {c}
  <1>1. /\ RunningIn(state) \in SUBSET Threads /\ rdy \in SUBSET Threads
        /\ RunningIn(state) \subseteq rdy
    BY Zenon DEF IInv, TypeOK, AllQueued, RunningIn, SysThreadSwitch, InUser
  <1>2. /\ ready' \in SUBSET Threads
        /\ current' \in Threads \cup {Idle}
        /\ RunningIn(state) \subseteq ready'
    <2>1. CASE t \in exists /\ current' = t /\ ready' = rdy
      BY <1>1, <2>1, Zenon DEF IInv, TypeOK
    <2>2. CASE FindNextThread(RunningIn(state), rdy, current', ready')
      <3> HIDE DEF rdy
      <3> QED
        BY <1>1, <2>2, FindNextKeepsRunning, SMTT(30) DEF IInv, TypeOK
    <2> QED
      BY <2>1, <2>2, Zenon DEF SysThreadSwitch
  <1>3. TypeOK'
    BY <1>2, Zenon DEF IInv, TypeOK, SysThreadSwitch, irqVars
  <1>4. AllQueued'
    BY <1>2, Zenon DEF AllQueued, RunningIn, IsRunning, SysThreadSwitch
  <1>5. OneInterruptEach' /\ KeepsPending
    BY IrqsUnchanged, Zenon DEF SysThreadSwitch
  <1> QED
    BY <1>3, <1>4, <1>5, Zenon DEF IInv

\* sys_schedule.
LEMMA ScheduleInv ==
    ASSUME IInv, NEW c \in Threads, NEW t \in Threads, NEW p \in NewPrios,
           SysSchedule(c, t, p)
    PROVE  IInv' /\ KeepsPending
  <1>1. p \in 0 .. MaxPrio
    BY ClientAssumption, Zenon
  <1>2. TypeOK'
    BY <1>1, Zenon DEF IInv, TypeOK, SysSchedule, irqVars
  <1>3. AllQueued'
    BY Zenon DEF IInv, AllQueued, IsRunning, SysSchedule
  <1>4. OneInterruptEach' /\ KeepsPending
    BY IrqsUnchanged, Zenon DEF SysSchedule
  <1> QED
    BY <1>2, <1>3, <1>4, Zenon DEF IInv

\* The chain of unwind_ipc holds t and, with a locked thread, its partner; the
\* threads it reaches behind t are those it wakes.
LEMMA ChainClosed ==
    ASSUME NEW t \in Threads
    PROVE  /\ UnwindChain(t) \in SUBSET Threads /\ t \in UnwindChain(t)
           /\ \A v \in UnwindChain(t) : Locked(v) /\ partner[v] \in Threads
                => partner[v] \in UnwindChain(t)
           /\ UnwindWoken(t) \subseteq UnwindChain(t)
           /\ UnwindChain(t) \subseteq {t} \cup UnwindWoken(t)
  <1> DEFINE Closed(S) == \A v \in S : Locked(v) => partner[v] \notin Threads \ S
             chain == UnwindChain(t)
  <1>1. /\ chain \in SUBSET Threads
        /\ \A u \in Threads : u \in chain <=> \A S \in SUBSET Threads : t \in S /\ Closed(S) => u \in S
    BY Zenon DEF UnwindChain
  <1> HIDE DEF chain, Closed
  <1>2. t \in chain
    BY <1>1, Zenon
  <1>3. \A v \in chain : Locked(v) /\ partner[v] \in Threads => partner[v] \in chain
    <2> SUFFICES ASSUME NEW v \in chain, Locked(v), partner[v] \in Threads,
                        NEW S \in SUBSET Threads, t \in S, Closed(S)
                 PROVE  partner[v] \in S
      BY <1>1, Zenon
    <2>1. v \in S
      BY <1>1, Zenon
    <2> QED
      BY <2>1, Zenon DEF Closed
  <1>4. UnwindWoken(t) \subseteq chain
    BY <1>3, Zenon DEF UnwindWoken, chain
  <1>5. chain \subseteq {t} \cup UnwindWoken(t)
    <2> DEFINE S == {t} \cup UnwindWoken(t)
    <2>1. S \in SUBSET Threads
      BY Zenon DEF UnwindWoken
    <2>2. Closed(S)
      BY <1>2, <1>4, Zenon DEF Closed, UnwindWoken, chain
    <2>3. t \in S
      BY Zenon
    <2> HIDE DEF S
    <2>4. chain \subseteq S
      BY <1>1, <2>1, <2>2, <2>3, Zenon
    <2> QED
      BY <2>4, Zenon DEF S
  <1> QED
    BY <1>1, <1>2, <1>3, <1>4, <1>5, Zenon DEF chain

\* unwind_ipc changes threads of its chain only, and leaves none of them but
\* t itself in a state the caller does not know.
LEMMA UnwindType ==
    ASSUME TypeOK, NEW t \in Threads, NEW stT \in States, UnwindIpc(t, stT)
    PROVE  /\ UnwindChain(t) \in SUBSET Threads /\ t \in UnwindChain(t)
           /\ wakeup' \in SUBSET Threads
           /\ state' = [u \in Threads |-> IF u = t THEN stT
                          ELSE IF u \in UnwindChain(t) THEN "RUNNING" ELSE state[u]]
           /\ state' \in [Threads -> States]
           /\ pc' \in [Threads -> Pcs]
           /\ inbox' \in [Threads -> Threads \cup Irqs \cup {Null}]
           /\ sendq' \in [head : Links, next : Links, prev : Links]
  <1>1. UnwindChain(t) \in SUBSET Threads /\ t \in UnwindChain(t)
    BY ChainClosed, Zenon
  <1>2. state' = [u \in Threads |-> IF u = t THEN stT
                    ELSE IF u \in UnwindChain(t) THEN "RUNNING" ELSE state[u]]
    BY Zenon DEF UnwindIpc
  <1>3. state' \in [Threads -> States]
    BY <1>2, Zenon DEF TypeOK, States
  <1>4. wakeup' \in SUBSET Threads
    BY Zenon DEF UnwindIpc, TypeOK
  <1>5. pc' \in [Threads -> Pcs]
    BY Zenon DEF UnwindIpc, TypeOK, Pcs
  <1>6. inbox' \in [Threads -> Threads \cup Irqs \cup {Null}]
    BY Zenon DEF UnwindIpc, TypeOK
  <1>7. sendq' \in [head : Links, next : Links, prev : Links]
    <2> DEFINE polling == {u \in UnwindChain(t) : state[u] = "POLLING"}
    <2>1. sendq \in [head : Links, next : Links, prev : Links]
      BY Zenon DEF TypeOK, Links
    <2>2. CASE polling = {}
      BY <2>1, <2>2, ZenonT(30) DEF UnwindIpc
    <2>3. CASE polling # {}
      <3> DEFINE u == CHOOSE u \in polling : TRUE
      <3>1. u \in polling
        BY <2>3, Zenon
      <3>2. u \in Threads
        BY <1>1, <3>1, Zenon
      <3>3. sendq' = ThreadDequeueSend(sendq, partner[u], u)
        BY <2>3, Zenon DEF UnwindIpc
      <3> HIDE DEF u
      <3> QED
        BY <2>1, <3>2, <3>3, DequeueSendType, Zenon
    <2> QED
      BY <2>2, <2>3, Zenon
  <1> QED
    BY <1>1, <1>2, <1>3, <1>4, <1>5, <1>6, <1>7, Zenon

\* sys_lthread_ex_regs on a live thread.
LEMMA ExRegsInv ==
    ASSUME IInv, NEW c \in Threads, NEW t \in ExRegs, SysLthreadExRegs(c, t)
    PROVE  IInv' /\ KeepsPending
  <1>1. t \in Threads /\ "RUNNING" \in States /\ TypeOK
    BY ClientAssumption, Zenon DEF States, IInv
  <1>2. /\ UnwindIpc(t, "RUNNING") /\ ready' = ready \cup UnwindChain(t)
        /\ UNCHANGED <<exists, partner, priority, current, irqVars, freeing>>
    BY Zenon DEF SysLthreadExRegs
  <1>3. /\ UnwindChain(t) \in SUBSET Threads /\ t \in UnwindChain(t)
        /\ wakeup' \in SUBSET Threads
        /\ state' = [u \in Threads |-> IF u = t THEN "RUNNING"
                       ELSE IF u \in UnwindChain(t) THEN "RUNNING" ELSE state[u]]
        /\ state' \in [Threads -> States]
        /\ pc' \in [Threads -> Pcs]
        /\ inbox' \in [Threads -> Threads \cup Irqs \cup {Null}]
        /\ sendq' \in [head : Links, next : Links, prev : Links]
    BY <1>1, <1>2, UnwindType, Zenon
  <1>4. TypeOK'
    BY <1>1, <1>2, <1>3, Zenon DEF TypeOK, Links, irqVars
  <1>5. AllQueued'
    BY <1>2, <1>3, Zenon DEF IInv, AllQueued, IsRunning
  <1>6. OneInterruptEach' /\ KeepsPending
    BY <1>2, IrqsUnchanged, Zenon
  <1> QED
    BY <1>4, <1>5, <1>6, Zenon DEF IInv

\* create_tcb.
LEMMA CreateInv ==
    ASSUME IInv, NEW c \in Threads, NEW t \in ExRegs, CreateThread(c, t)
    PROVE  IInv' /\ KeepsPending
  <1>1. t \in Threads
    BY ClientAssumption, Zenon
  <1>2. sendq' \in [head : Links, next : Links, prev : Links]
    BY <1>1, Zenon DEF IInv, TypeOK, Links, CreateThread
  <1>3. /\ exists' \in SUBSET Threads /\ ready' \in SUBSET Threads
        /\ wakeup' \in SUBSET Threads
        /\ state' \in [Threads -> States] /\ pc' \in [Threads -> Pcs]
        /\ priority' \in [Threads -> 0 .. MaxPrio]
    BY <1>1, Zenon DEF IInv, TypeOK, States, Pcs, CreateThread
  <1>4. TypeOK'
    BY <1>1, <1>2, <1>3, Zenon DEF IInv, TypeOK, Links, CreateThread
  <1>5. AllQueued'
    BY <1>1, Zenon DEF IInv, TypeOK, AllQueued, IsRunning, CreateThread
  <1>6. OneInterruptEach'
    BY Zenon DEF IInv, OneInterruptEach, CreateThread
  <1>7. KeepsPending
    BY <1>1, Zenon DEF IInv, TypeOK, KeepsPending, CreateThread
  <1> QED
    BY <1>4, <1>5, <1>6, <1>7, Zenon DEF IInv

\* sys_task_new starts a deletion.
LEMMA TaskDeleteInv ==
    ASSUME IInv, NEW c \in Threads, NEW task \in Dying, SysTaskDelete(c, task)
    PROVE  IInv' /\ KeepsPending
  <1>1. TypeOK'
    BY Zenon DEF IInv, TypeOK, SysTaskDelete, irqVars
  <1>2. AllQueued'
    BY Zenon DEF IInv, AllQueued, IsRunning, SysTaskDelete
  <1>3. OneInterruptEach' /\ KeepsPending
    BY IrqsUnchanged, Zenon DEF SysTaskDelete
  <1> QED
    BY <1>1, <1>2, <1>3, Zenon DEF IInv

\* free_thread unwinds the thread it frees, and every sender in its send queue.
LEMMA UnwindForFree ==
    ASSUME IInv, NEW t \in Threads,
           UnwindIpc(t, UnwindState(t)),
           ready' = ready \cup UnwindWoken(t),
           UNCHANGED <<exists, partner, priority, current, irqVars>>,
           freeing' \in [who : SUBSET Threads, at : Threads \cup {Null}]
    PROVE  IInv' /\ KeepsPending
  <1> DEFINE stT == UnwindState(t)
  <1>1. /\ stT \in States /\ TypeOK
        /\ stT \in {"RUNNING", "LOCKED_RUNNING"} => IsRunning(state, t) \/ t \in UnwindWoken(t)
    BY Zenon DEF IInv, TypeOK, States, IsRunning, UnwindState
  <1>0. /\ UnwindWoken(t) \in SUBSET Threads
        /\ UnwindChain(t) \subseteq {t} \cup UnwindWoken(t)
    BY ChainClosed, Zenon
  <1>2. UnwindIpc(t, stT)
    BY Zenon
  <1> HIDE DEF stT
  <1>3. /\ UnwindChain(t) \in SUBSET Threads /\ t \in UnwindChain(t)
        /\ wakeup' \in SUBSET Threads
        /\ state' = [u \in Threads |-> IF u = t THEN stT
                       ELSE IF u \in UnwindChain(t) THEN "RUNNING" ELSE state[u]]
        /\ state' \in [Threads -> States]
        /\ pc' \in [Threads -> Pcs]
        /\ inbox' \in [Threads -> Threads \cup Irqs \cup {Null}]
        /\ sendq' \in [head : Links, next : Links, prev : Links]
    BY <1>1, <1>2, UnwindType, Zenon
  <1>4. TypeOK'
    BY <1>0, <1>1, <1>3, Zenon DEF TypeOK, Links, irqVars
  <1>5. AllQueued'
    BY <1>0, <1>1, <1>3, Zenon DEF IInv, AllQueued, IsRunning
  <1>6. OneInterruptEach' /\ KeepsPending
    BY IrqsUnchanged, Zenon
  <1> QED
    BY <1>4, <1>5, <1>6, Zenon DEF IInv

\* free_thread, the thread itself.
LEMMA FreeThreadInv ==
    ASSUME IInv, NEW t \in Threads, FreeThread(t)
    PROVE  IInv' /\ KeepsPending
  <1>1. freeing' \in [who : SUBSET Threads, at : Threads \cup {Null}]
    BY Zenon DEF FreeThread, IInv, TypeOK
  <1> QED
    BY <1>1, UnwindForFree, Zenon DEF FreeThread

\* free_thread, a sender in its queue.
LEMMA FreeSenderInv ==
    ASSUME IInv, NEW t \in Threads, FreeSender(t)
    PROVE  IInv' /\ KeepsPending
  <1> DEFINE h == sendq.head[t]
  <1>1. h \in Threads
    BY Zenon DEF FreeSender, IInv, TypeOK
  <1>2. /\ UnwindIpc(h, UnwindState(h))
        /\ ready' = ready \cup UnwindWoken(h)
        /\ UNCHANGED <<exists, partner, priority, current, irqVars>>
        /\ freeing' \in [who : SUBSET Threads, at : Threads \cup {Null}]
    BY Zenon DEF FreeSender, IInv, TypeOK
  <1> HIDE DEF h
  <1> QED
    BY <1>1, <1>2, UnwindForFree, Zenon

\* free_tcb.
LEMMA FreeTcbInv ==
    ASSUME IInv, NEW t \in Threads, FreeTcb(t)
    PROVE  IInv' /\ KeepsPending
  <1>1. state' \in [Threads -> States]
    BY Zenon DEF IInv, TypeOK, States, FreeTcb
  <1>2. TypeOK'
    BY <1>1, Zenon DEF IInv, TypeOK, FreeTcb, irqVars
  <1>3. AllQueued'
    BY Zenon DEF IInv, TypeOK, AllQueued, IsRunning, FreeTcb
  <1>4. OneInterruptEach' /\ KeepsPending
    BY IrqsUnchanged, Zenon DEF FreeTcb
  <1> QED
    BY <1>2, <1>3, <1>4, Zenon DEF IInv

----------------------------------------------------------------------------
\* The invariant holds when the kernel starts.
LEMMA InitIInv == Init => IInv
  <1> SUFFICES ASSUME Init PROVE IInv
    BY Zenon
  <1> USE ClientAssumption, IdsAssumption DEF Init
  <1>1. TypeOK
    BY Zenon DEF TypeOK, States, Pcs, NotFreeing
  <1>2. AllQueued /\ OneInterruptEach
    BY Zenon DEF AllQueued, IsRunning, OneInterruptEach
  <1> QED
    BY <1>1, <1>2, Zenon DEF IInv

\* Every step keeps the invariant, and the pending interrupts.
LEMMA NextIInv == IInv /\ [Next]_vars => IInv' /\ (KeepsPending \/ UNCHANGED vars)
  <1> SUFFICES ASSUME IInv, [Next]_vars
               PROVE  IInv' /\ (KeepsPending \/ UNCHANGED vars)
    BY Zenon
  <1>1. CASE \E c \in Threads, dest \in Threads \cup Irqs \cup {Nil}, k \in Calls : SysIpc(c, dest, k)
    BY <1>1, SysIpcInv, Zenon
  <1>2. CASE \E c \in Threads : ResumeSend(c) \/ ResumeReceive(c)
    BY <1>2, ResumeSendInv, ResumeReceiveInv, Zenon
  <1>3. CASE IdleLoop
    BY <1>3, IdleLoopInv, Zenon
  <1>4. CASE \E expired \in SUBSET wakeup : HandleTimerInterrupt(expired)
    BY <1>4, TimerInv, Zenon
  <1>5. CASE \E i \in Irqs : HandleInterrupt(i)
    BY <1>5, InterruptInv, Zenon
  <1>6. CASE \E c \in Threads, t \in Threads \cup {Nil} : SysThreadSwitch(c, t)
    BY <1>6, ThreadSwitchInv, Zenon
  <1>7. CASE \E c, t \in Threads, p \in NewPrios : SysSchedule(c, t, p)
    BY <1>7, ScheduleInv, Zenon
  <1>8. CASE \E c \in Threads, t \in ExRegs : SysLthreadExRegs(c, t) \/ CreateThread(c, t)
    BY <1>8, ExRegsInv, CreateInv, Zenon
  <1>9. CASE \E c \in Threads, task \in Dying : SysTaskDelete(c, task)
    BY <1>9, TaskDeleteInv, Zenon
  <1>10. CASE \E t \in Threads : FreeThread(t) \/ FreeSender(t) \/ FreeTcb(t)
    BY <1>10, FreeThreadInv, FreeSenderInv, FreeTcbInv, Zenon
  <1>11. CASE UNCHANGED vars
    BY <1>11, Zenon DEF vars, IInv, TypeOK, AllQueued, IsRunning, OneInterruptEach
  <1> QED
    BY <1>1, <1>2, <1>3, <1>4, <1>5, <1>6, <1>7, <1>8, <1>9, <1>10, <1>11, Zenon DEF Next

\* The invariant always holds.
LEMMA Invariance == Spec => []IInv
  BY InitIInv, NextIInv, PTL DEF Spec

\* Type correctness: in particular no step leaves a message, a partner or an
\* interrupt with a thread that is none, whatever the send queues look like.
THEOREM TypeCorrect == Spec => []TypeOK
  BY Invariance, PTL DEF IInv

\* No system call, interrupt, timeout, unwinding or deletion loses a runnable
\* thread: it is in a ready queue or owns the processor.
THEOREM NoThreadLost == Spec => []NoLostThread
  BY Invariance, NotLost, PTL DEF IInv

\* ipc_handle_kernel_id attaches no thread to two interrupts.
THEOREM OneInterruptPerThread == Spec => []OneInterruptEach
  BY Invariance, PTL DEF IInv

\* A pending interrupt stays pending until a receive takes it into service:
\* no other interrupt can overwrite intr_pending, as its owner has no other.
THEOREM PendingInterruptsKept == Spec => PendingKept
  <1>1. IInv /\ [Next]_vars => [KeepsPending]_vars
    BY NextIInv, Zenon
  <1> QED
    BY <1>1, Invariance, PTL DEF Spec, PendingKept, KeepsPending

----------------------------------------------------------------------------
(* Who exists and who runs, while no task is deleted: what the proofs      *)
(* about the rendezvous and about the scheduler build on.                  *)

\* No client waits for anyone after a send.
NoReplyWait == \A k \in Calls : k.snd => k.rcv # "open"

\* No client asks to receive with a zero timeout after a send.
NoZeroReply == \A k \in Calls : k.snd /\ k.rcv # "none" => k.rto # "zero"

\* The inductive invariant: whoever is queued, owns the processor or can be
\* followed to as a partner exists, and a thread in user mode runs.
LiveThread(t) ==
    /\ pc[t] = User => IsRunning(state, t)
    /\ pc[t].at = "send" => /\ pc[t].dest \in exists \ {t}
                            /\ pc[t].rcv # "none" => pc[t].rto # "zero"
    /\ state[t] = "POLLING" => partner[t] # t

Live ==
    /\ freeing = NotFreeing
    /\ current \in exists \cup {Idle}
    /\ \A t \in Threads \ exists : state[t] = "ABORTED" /\ t \notin ready \cup wakeup
    /\ \A t \in exists : LiveThread(t)
    /\ \A t \in Threads : partner[t] \in Threads => partner[t] \in exists
    /\ \A t \in wakeup : state[t] # "RUNNING" /\ pc[t].at \in {"send", "recv"}
    /\ \A i \in Irqs : interruptOwner[i] \in exists \cup {Null}

\* What the parts of an ipc system call are passed.
LivePassed(c, par, wk) ==
    /\ TypeOK /\ Live /\ c \in exists /\ current = c
    /\ par \in [Threads -> Partners]
    /\ \A t \in Threads : par[t] \in Threads => par[t] \in exists
    /\ \A t \in exists : state[t] = "POLLING" => par[t] # t
    /\ wk \subseteq wakeup \ {c}
    /\ UNCHANGED <<exists, freeing>>

\* find_next_thread returns a runnable thread or idle, and enqueues nobody.
LEMMA FindNextReturns ==
    ASSUME NEW run \in SUBSET Threads, NEW rdy,
           NEW next, NEW left, FindNextThread(run, rdy, next, left)
    PROVE  (next = Idle \/ next \in run) /\ left \subseteq rdy
  BY Zenon DEF FindNextThread, Candidates

\* Return to user mode.
LEMMA ReturnIpcLive ==
    ASSUME NEW c, NEW par, NEW box, NEW wk, NEW pend, NEW mask,
           LivePassed(c, par, wk), IsRunning(state, c),
           ReturnIpc(c, par, box, wk, pend, mask)
    PROVE  Live'
  <1> USE DEF LivePassed, ReturnIpc
  <1>1. \A t \in exists : LiveThread(t)'
    BY Zenon DEF Live, LiveThread, TypeOK, IsRunning, User
  <1> QED
    BY <1>1, Zenon DEF Live, TypeOK, User

\* Blocking, and switching to the thread just sent to or to idle.
LEMMA BlockLive ==
    ASSUME NEW c, NEW par, NEW wk, LivePassed(c, par, wk),
           NEW next \in exists \cup {Idle}, NEW p \in Partners,
           p \in Threads => p \in exists,
           wakeup' \subseteq wk \cup {c}, partner' = [par EXCEPT ![c] = p],
           state' = [state EXCEPT ![c] = "WAITING"],
           pc' = [pc EXCEPT ![c] = [at |-> "recv"]],
           current' = next, UNCHANGED <<ready, interruptOwner>>
    PROVE  Live'
  <1> USE DEF LivePassed
  <1>1. \A t \in exists : LiveThread(t)'
    BY Zenon DEF Live, LiveThread, TypeOK, IsRunning, User
  <1> QED
    BY <1>1 DEF Live, TypeOK

\* Switching to the thread just sent to, and going on later.
LEMMA SwitchLive ==
    ASSUME NEW c, NEW par, NEW wk, LivePassed(c, par, wk), NEW to \in exists,
           wakeup' = wk, partner' = par,
           state' = [state EXCEPT ![c] = "RUNNING"],
           pc' = [pc EXCEPT ![c] = User],
           current' = to, ready' = ready \cup {c}, UNCHANGED interruptOwner
    PROVE  Live'
  <1> USE DEF LivePassed
  <1>1. \A t \in exists : LiveThread(t)'
    BY Zenon DEF Live, LiveThread, TypeOK, IsRunning, User
  <1> QED
    BY <1>1 DEF Live, TypeOK

\* Locking a polling sender.
LEMMA PollingLive ==
    ASSUME NEW c, NEW par, NEW box, NEW wk, LivePassed(c, par, wk),
           NEW to \in exists \cup {Null}, NEW from \in Threads, state[from] = "POLLING",
           ReceivePolling(c, to, from, par, box, wk)
    PROVE  Live'
  <1> USE DEF LivePassed, ReceivePolling
  <1>1. from \in exists
    BY Zenon DEF Live
  <1>2. \A t \in exists : LiveThread(t)'
    BY <1>1 DEF Live, LiveThread, TypeOK, IsRunning, User
  <1> QED
    BY <1>1, <1>2, IdsAssumption DEF Live, TypeOK

\* The receive phase.  A caller that is not running, because it was polling,
\* has sent to the thread to and comes with a receive that does not return.
LEMMA ReceivePhaseLive ==
    ASSUME NEW c, NEW par, NEW box, NEW wk, LivePassed(c, par, wk),
           NEW to \in exists \cup {Null}, NEW dest \in Threads \cup Irqs \cup {Nil},
           NEW rcv \in {"from", "open"}, NEW rto,
           \/ IsRunning(state, c)
           \/ to # Null /\ dest = to /\ rto # "zero",
           ReceivePhase(c, to, dest, rcv, rto, par, box, wk)
    PROVE  Live'
  <1> DEFINE served == intrPending[c] # Null /\ intrPending[c].inService
             pend   == IF served THEN Null ELSE intrPending[c]
             mask   == IF served THEN [masked EXCEPT ![intrPending[c].irq] = FALSE]
                                 ELSE masked
             from   == IF rcv = "from" THEN dest ELSE sendq.head[c]
             polls  == from # Null /\ state[from] = "POLLING" /\ par[from] = c
  <1>0. TypeOK /\ exists \in SUBSET Threads /\ Null \notin exists
    BY IdsAssumption, Zenon DEF LivePassed, TypeOK
  <1>1. \/ /\ rcv = "from" /\ dest \notin Threads
           /\ IpcHandleKernelId(c, dest, rto, par, box, wk, pend, mask)
        \/ /\ (rcv = "from" /\ dest \notin exists) \/ rto = "zero"
           /\ ReturnIpc(c, par, box, wk, pend, mask)
        \/ ReceiveInterrupt(c, to, par, box, wk, pend, mask)
        \/ /\ rcv = "from" => dest \in exists
           /\ ReceiveBlock(c, to, dest, rcv, rto, par, box, wk)
        \/ /\ rcv = "from" => dest \in exists
           /\ polls
           /\ ReceivePolling(c, to, from, par, box, wk)
    BY Zenon DEF ReceivePhase
  <1>2. from # Null /\ (rcv = "from" => dest \in exists) => from \in Threads
    BY <1>0, Zenon DEF TypeOK, LivePassed
  <1> HIDE DEF pend, mask, from, served
  <1>3. CASE /\ rcv = "from" /\ dest \notin Threads
             /\ IpcHandleKernelId(c, dest, rto, par, box, wk, pend, mask)
    <2>0. IsRunning(state, c)
      BY <1>0, <1>3, Zenon
    <2>1. CASE \E p : ReturnIpc(c, par, box, wk, p, mask)
      BY <2>0, <2>1, ReturnIpcLive, Zenon
    <2>2. CASE /\ interruptOwner' = IF dest \in Irqs /\ Detached(c)[dest] = Null
                                    THEN [Detached(c) EXCEPT ![dest] = c]
                                    ELSE Detached(c)
               /\ pc' = [pc EXCEPT ![c] = User]
               /\ partner' = par /\ inbox' = box /\ wakeup' = wk
               /\ UNCHANGED <<state, ready, sendq, current>>
      <3>1. \A i \in Irqs : interruptOwner'[i] \in exists \cup {Null}
        BY <2>2, Zenon DEF LivePassed, Live, Detached
      <3>2. \A t \in exists : LiveThread(t)'
        BY <2>0, <2>2, Zenon DEF LivePassed, Live, LiveThread, TypeOK, IsRunning, User
      <3> QED
        BY <2>2, <3>1, <3>2, Zenon DEF LivePassed, Live, TypeOK
    <2>3. CASE /\ wakeup' = IF rto = "finite" THEN wk \cup {c} ELSE wk
               /\ partner' = [par EXCEPT ![c] = IF dest = Nil THEN Invalid ELSE dest]
               /\ state' = [state EXCEPT ![c] = "WAITING"]
               /\ pc' = [pc EXCEPT ![c] = [at |-> "recv"]]
               /\ current' = Idle
               /\ UNCHANGED <<ready, sendq, interruptOwner>>
      <3> DEFINE p == IF dest = Nil THEN Invalid ELSE dest
      <3>1. p \in Partners /\ p \notin Threads
        BY <1>3, IdsAssumption, Zenon DEF Partners
      <3>2. partner' = [par EXCEPT ![c] = p] /\ wakeup' \subseteq wk \cup {c}
        BY <2>3, Zenon
      <3> HIDE DEF p
      <3> QED
        BY <2>3, <3>1, <3>2, BlockLive, Zenon
    <2> QED
      BY <1>3, <2>1, <2>2, <2>3, Zenon DEF IpcHandleKernelId
  <1>4. CASE /\ (rcv = "from" /\ dest \notin exists) \/ rto = "zero"
             /\ ReturnIpc(c, par, box, wk, pend, mask)
    BY <1>0, <1>4, ReturnIpcLive, Zenon
  <1>5. CASE ReceiveInterrupt(c, to, par, box, wk, pend, mask)
    <2>1. CASE to = Null
      BY <1>0, <1>5, <2>1, ReturnIpcLive, Zenon DEF ReceiveInterrupt
    <2>2. CASE to # Null
      BY <1>0, <1>5, <2>2, SwitchLive, Zenon DEF ReceiveInterrupt
    <2> QED
      BY <2>1, <2>2, Zenon
  <1>6. CASE /\ rcv = "from" => dest \in exists
             /\ ReceiveBlock(c, to, dest, rcv, rto, par, box, wk)
    <2> DEFINE next == IF to # Null THEN to ELSE Idle
               p    == IF rcv = "open" THEN Nil ELSE dest
    <2>1. next \in exists \cup {Idle} /\ p \in Partners /\ (p \in Threads => p \in exists)
      BY <1>0, <1>6, IdsAssumption, Zenon DEF Partners
    <2>2. /\ wakeup' \subseteq wk \cup {c} /\ partner' = [par EXCEPT ![c] = p]
          /\ state' = [state EXCEPT ![c] = "WAITING"]
          /\ pc' = [pc EXCEPT ![c] = [at |-> "recv"]]
          /\ current' = next /\ UNCHANGED <<ready, interruptOwner>>
      BY <1>6, Zenon DEF ReceiveBlock
    <2> HIDE DEF next, p
    <2> QED
      BY <2>1, <2>2, BlockLive, Zenon
  <1>7. CASE /\ rcv = "from" => dest \in exists
             /\ polls
             /\ ReceivePolling(c, to, from, par, box, wk)
    BY <1>0, <1>2, <1>7, PollingLive, Zenon
  <1> QED
    BY <1>1, <1>3, <1>4, <1>5, <1>6, <1>7, Zenon

\* What follows the transfer of a message.
LEMMA AfterTransferLive ==
    ASSUME NEW c, NEW par, NEW wk, LivePassed(c, par, wk), NEW to \in exists \ {c},
           NEW rcv \in {"none", "from", "open"}, NEW rto,
           rcv # "none" => rto # "zero",
           AfterTransfer(c, to, rcv, rto, par, wk)
    PROVE  Live'
  <1> DEFINE par2 == [par EXCEPT ![to] = c]
             box2 == [inbox EXCEPT ![to] = c]
  <1>1. LivePassed(c, par2, wk) /\ to \in Threads
    BY Zenon DEF LivePassed, TypeOK, Partners
  <1>2. CASE rcv = "none"
    <2>1. /\ wakeup' = wk /\ partner' = par2
          /\ state' = [state EXCEPT ![c] = "RUNNING"]
          /\ pc' = [pc EXCEPT ![c] = User]
          /\ current' = to /\ ready' = ready \cup {c} /\ UNCHANGED interruptOwner
      BY <1>2, Zenon DEF AfterTransfer, irqVars
    <2> HIDE DEF par2
    <2> QED
      BY <1>1, <2>1, SwitchLive, Zenon
  <1>3. CASE rcv # "none"
    <2>1. ReceivePhase(c, to, to, rcv, rto, par2, box2, wk)
      BY <1>3, Zenon DEF AfterTransfer
    <2>2. /\ to # Null /\ to \in exists \cup {Null} /\ to \in Threads \cup Irqs \cup {Nil}
          /\ rcv \in {"from", "open"} /\ rto # "zero"
      BY <1>1, <1>3, IdsAssumption, Zenon
    <2> HIDE DEF par2, box2
    <2> QED
      BY <1>1, <2>1, <2>2, ReceivePhaseLive
  <1> QED
    BY <1>2, <1>3, Zenon

----------------------------------------------------------------------------
\* sys_ipc up to the point where the thread blocks, switches or returns.
LEMMA SysIpcLive ==
    ASSUME TypeOK, Live, NoZeroReply, NEW c \in Threads,
           NEW dest \in Threads \cup Irqs \cup {Nil}, NEW k \in Calls, SysIpc(c, dest, k)
    PROVE  Live'
  <1> DEFINE par == [partner EXCEPT ![c] = dest]
  <1>1. /\ k.snd \in BOOLEAN /\ k.rcv \in {"none", "from", "open"}
        /\ ~k.snd => k.rcv \in {"from", "open"}
        /\ k.snd /\ k.rcv # "none" => k.rto # "zero"
    BY ClientAssumption, Zenon DEF CallType, NoZeroReply
  <1>2. /\ c \in exists /\ current = c /\ pc[c] = User /\ c \notin wakeup
        /\ UNCHANGED <<exists, freeing>>
    BY IdsAssumption DEF SysIpc, InUser, Live, User
  <1>3. /\ IsRunning(state, c) /\ state[c] # "POLLING" /\ state[c] # "WAITING"
    BY <1>2, Zenon DEF Live, LiveThread, IsRunning
  <1>4. LivePassed(c, partner, wakeup)
    BY <1>2, Zenon DEF LivePassed, Live, LiveThread, TypeOK, Partners
  <1>5. dest \in exists => LivePassed(c, par, wakeup)
    BY <1>3, <1>4 DEF LivePassed, Partners
  <1>6. \/ /\ ~k.snd
           /\ ReceivePhase(c, Null, dest, k.rcv, k.rto, partner, inbox, wakeup)
        \/ ReturnIpc(c, partner, inbox, wakeup, intrPending[c], masked)
        \/ /\ k.snd /\ dest \in exists /\ state[dest] = "WAITING"
           /\ AfterTransfer(c, dest, k.rcv, k.rto, par, wakeup)
        \/ /\ dest \in exists
           /\ ReturnIpc(c, par, inbox, wakeup, intrPending[c], masked)
        \/ /\ k.snd /\ dest \in exists \ {c}
           /\ partner' = par
           /\ wakeup' = IF k.sto = "finite" THEN wakeup \cup {c} ELSE wakeup
           /\ state' = [state EXCEPT ![c] = "POLLING"]
           /\ pc' = [pc EXCEPT ![c] = [at |-> "send", dest |-> dest,
                                       rcv |-> k.rcv, rto |-> k.rto]]
           /\ current' = Idle
           /\ UNCHANGED <<ready, inbox, irqVars>>
    BY Zenon DEF SysIpc
  <1> HIDE DEF par
  <1>7. CASE /\ ~k.snd
             /\ ReceivePhase(c, Null, dest, k.rcv, k.rto, partner, inbox, wakeup)
    BY <1>1, <1>3, <1>4, <1>7, ReceivePhaseLive, Zenon
  <1>8. CASE ReturnIpc(c, partner, inbox, wakeup, intrPending[c], masked)
    BY <1>3, <1>4, <1>8, ReturnIpcLive, Zenon
  <1>9. CASE /\ k.snd /\ dest \in exists /\ state[dest] = "WAITING"
             /\ AfterTransfer(c, dest, k.rcv, k.rto, par, wakeup)
    BY <1>1, <1>3, <1>5, <1>9, AfterTransferLive, Zenon
  <1>10. CASE /\ dest \in exists
              /\ ReturnIpc(c, par, inbox, wakeup, intrPending[c], masked)
    BY <1>3, <1>5, <1>10, ReturnIpcLive, Zenon
  <1>11. CASE /\ k.snd /\ dest \in exists \ {c}
              /\ partner' = par
              /\ wakeup' = IF k.sto = "finite" THEN wakeup \cup {c} ELSE wakeup
              /\ state' = [state EXCEPT ![c] = "POLLING"]
              /\ pc' = [pc EXCEPT ![c] = [at |-> "send", dest |-> dest,
                                          rcv |-> k.rcv, rto |-> k.rto]]
              /\ current' = Idle
              /\ UNCHANGED <<ready, inbox, irqVars>>
    <2>1. pc'[c] # User /\ pc'[c].at = "send" /\ pc'[c].dest = dest
          /\ pc'[c].rcv = k.rcv /\ pc'[c].rto = k.rto
      BY <1>11, Zenon DEF User, TypeOK
    <2>2. LiveThread(c)'
      BY <1>1, <1>2, <1>11, <2>1 DEF LiveThread, par, TypeOK
    <2>3. \A t \in exists \ {c} : LiveThread(t)'
      BY <1>2, <1>11 DEF Live, LiveThread, IsRunning, TypeOK, par
    <2>4. \A t \in Threads : partner'[t] \in Threads => partner'[t] \in exists
      BY <1>11 DEF Live, par, TypeOK
    <2> QED
      BY <1>2, <1>11, <2>1, <2>2, <2>3, <2>4 DEF Live, TypeOK, irqVars
  <1> QED
    BY <1>6, <1>7, <1>8, <1>9, <1>10, <1>11, Zenon

\* A sender goes on.
LEMMA ResumeSendLive ==
    ASSUME TypeOK, Live, NEW c \in Threads, ResumeSend(c)
    PROVE  Live'
  <1>1. /\ c \in exists /\ current = c /\ pc[c].at = "send" /\ UNCHANGED <<exists, freeing>>
    BY IdsAssumption, Zenon DEF ResumeSend, Live
  <1>2. /\ pc[c].dest \in exists \ {c} /\ pc[c].rcv \in {"none", "from", "open"}
        /\ pc[c].rcv # "none" => pc[c].rto # "zero"
    <2>1. pc[c] \in Pcs
      BY Zenon DEF TypeOK
    <2> QED
      BY <1>1, <2>1 DEF Live, LiveThread, Pcs, User
  <1>3. LivePassed(c, partner, wakeup \ {c})
    BY <1>1, Zenon DEF LivePassed, Live, LiveThread, TypeOK, Partners
  <1>4. CASE /\ state[c] = "RUNNING"
             /\ ReturnIpc(c, partner, inbox, wakeup, intrPending[c], masked)
    <2>1. c \notin wakeup
      BY <1>4, Zenon DEF Live
    <2>2. LivePassed(c, partner, wakeup) /\ IsRunning(state, c)
      BY <1>3, <1>4, <2>1, Zenon DEF LivePassed, IsRunning
    <2> QED
      BY <1>4, <2>2, ReturnIpcLive, Zenon
  <1>5. CASE AfterTransfer(c, pc[c].dest, pc[c].rcv, pc[c].rto, partner, wakeup \ {c})
    BY <1>2, <1>3, <1>5, AfterTransferLive, Zenon
  <1> QED
    BY <1>4, <1>5, Zenon DEF ResumeSend

\* A receiver goes on.
LEMMA ResumeReceiveLive ==
    ASSUME TypeOK, Live, NEW c \in Threads, ResumeReceive(c)
    PROVE  Live'
  <1>1. /\ c \in exists /\ current = c /\ pc[c].at \in {"recv", "locked"}
        /\ pc' = [pc EXCEPT ![c] = User]
        /\ UNCHANGED <<exists, partner, priority, ready, sendq, current, irqVars, freeing>>
    BY IdsAssumption, Zenon DEF ResumeReceive, Live
  <1>2. /\ state' = state \/ state' = [state EXCEPT ![c] = "RUNNING"]
        /\ state'[c] = "RUNNING"
        /\ wakeup' \subseteq wakeup /\ c \notin wakeup'
    BY <1>1 DEF ResumeReceive, Live, TypeOK
  <1>3. \A t \in exists : LiveThread(t)'
    BY <1>1, <1>2 DEF Live, LiveThread, TypeOK, IsRunning, User
  <1> QED
    BY <1>1, <1>2, <1>3 DEF Live, TypeOK, irqVars

\* Steps that only search the ready queues.
LEMMA SearchLive ==
    ASSUME TypeOK, Live, NEW next \in exists \cup {Idle},
           current' = next, ready' \subseteq ready \cup exists,
           UNCHANGED <<exists, state, partner, wakeup, pc, interruptOwner, freeing>>
    PROVE  Live'
  <1>1. \A t \in exists : LiveThread(t)'
    BY Zenon DEF Live, LiveThread, IsRunning
  <1> QED
    BY <1>1, Zenon DEF Live

\* The idle loop.
LEMMA IdleLoopLive == TypeOK /\ Live /\ IdleLoop => Live'
  <1> SUFFICES ASSUME TypeOK, Live, IdleLoop PROVE Live'
    BY Zenon
  <1>1. RunningIn(state) \in SUBSET Threads /\ RunningIn(state) \subseteq exists
    BY Zenon DEF RunningIn, IsRunning, Live
  <1>2. current' \in exists \cup {Idle} /\ ready' \subseteq ready
    BY <1>1, FindNextReturns, Zenon DEF IdleLoop
  <1> QED
    BY <1>2, SearchLive, Zenon DEF IdleLoop, irqVars

\* sys_thread_switch.
LEMMA ThreadSwitchLive ==
    ASSUME TypeOK, Live, NEW c \in Threads, NEW t, SysThreadSwitch(c, t)
    PROVE  Live'
  <1>1. RunningIn(state) \in SUBSET Threads /\ RunningIn(state) \subseteq exists /\ c \in exists
    BY IdsAssumption, Zenon DEF RunningIn, IsRunning, Live, SysThreadSwitch, InUser
  <1>2. current' \in exists \cup {Idle} /\ ready' \subseteq ready \cup {c}
    BY <1>1, FindNextReturns, Zenon DEF SysThreadSwitch
  <1> QED
    BY <1>1, <1>2, SearchLive, Zenon DEF SysThreadSwitch, irqVars

\* The timer interrupt wakes up the threads that have timed out.
LEMMA TimerLive ==
    ASSUME TypeOK, Live, NEW expired \in SUBSET wakeup, HandleTimerInterrupt(expired)
    PROVE  Live'
  <1> DEFINE st == [t \in Threads |-> IF t \in expired THEN "RUNNING" ELSE state[t]]
             rdy == ready \cup expired \cup ({current} \ {Idle})
  <1>1. expired \subseteq exists /\ expired \subseteq Threads
    BY Zenon DEF Live, TypeOK
  <1>2. /\ RunningIn(st) \in SUBSET Threads /\ RunningIn(st) \subseteq exists
        /\ rdy \subseteq ready \cup exists
    BY <1>1, Zenon DEF RunningIn, IsRunning, Live
  <1>3. /\ state' = st /\ wakeup' = wakeup \ expired
        /\ UNCHANGED <<exists, partner, pc, interruptOwner, freeing>>
    BY Zenon DEF HandleTimerInterrupt, irqVars
  <1>4. current' \in exists \cup {Idle} /\ ready' \subseteq rdy
    <2>1. CASE current' \in expired /\ ready' = rdy
      BY <1>1, <2>1, Zenon
    <2>2. CASE current' = current /\ ready' = rdy
      BY <2>2, Zenon DEF Live
    <2>3. CASE FindNextThread(RunningIn(st), rdy, current', ready')
      <3> HIDE DEF st, rdy
      <3> QED
        BY <1>2, <2>3, FindNextReturns, Zenon
    <2> QED
      BY <2>1, <2>2, <2>3, Zenon DEF HandleTimerInterrupt
  <1>5. \A t \in exists : LiveThread(t)'
    BY <1>1, <1>3, Zenon DEF Live, LiveThread, IsRunning, TypeOK
  <1> HIDE DEF rdy
  <1> QED
    BY <1>1, <1>2, <1>3, <1>4, <1>5, Zenon DEF Live, TypeOK

\* A hardware interrupt.
LEMMA InterruptLive ==
    ASSUME TypeOK, Live, NEW i \in Irqs, HandleInterrupt(i)
    PROVE  Live'
  <1> DEFINE o == interruptOwner[i]
  <1>1. /\ o # Null => o \in exists
        /\ UNCHANGED <<exists, partner, priority, wakeup, sendq, pc, interruptOwner, freeing>>
    BY Zenon DEF Live, HandleInterrupt
  <1>2. /\ state' = state \/ (o # Null /\ state' = [state EXCEPT ![o] = "LOCKED_RUNNING"])
        /\ ready' \subseteq ready \cup ({o} \ {Null}) \cup ({current} \ {Idle})
        /\ current' = current \/ (o # Null /\ current' = o)
    BY DEF HandleInterrupt
  <1> HIDE DEF o
  <1>3. \A t \in exists : LiveThread(t)'
    BY <1>1, <1>2 DEF Live, LiveThread, IsRunning, TypeOK
  <1> QED
    BY <1>1, <1>2, <1>3 DEF Live, TypeOK

\* sys_schedule.
LEMMA ScheduleLive ==
    ASSUME Live, NEW c \in Threads, NEW t \in Threads, NEW p \in NewPrios, SysSchedule(c, t, p)
    PROVE  Live'
  <1>1. \A u \in exists : LiveThread(u)'
    BY Zenon DEF SysSchedule, Live, LiveThread, IsRunning
  <1> QED
    BY <1>1, Zenon DEF SysSchedule, Live, irqVars

\* An unwinding that starts at a live thread reaches live threads only.
LEMMA ChainLive ==
    ASSUME TypeOK, Live, NEW t \in exists
    PROVE  UnwindChain(t) \subseteq exists
  <1> DEFINE Closed(S) == \A v \in S : Locked(v) => partner[v] \notin Threads \ S
  <1>1. exists \in SUBSET Threads /\ Closed(exists)
    BY Zenon DEF TypeOK, Live
  <1>2. \A u \in UnwindChain(t) : \A S \in SUBSET Threads : t \in S /\ Closed(S) => u \in S
    BY Zenon DEF UnwindChain
  <1> QED
    BY <1>1, <1>2, Zenon

\* sys_lthread_ex_regs on an existing thread.
LEMMA ExRegsLive ==
    ASSUME TypeOK, Live, NEW c \in Threads, NEW t \in ExRegs, SysLthreadExRegs(c, t)
    PROVE  Live'
  <1> DEFINE chain == UnwindChain(t)
  <1>1. t \in exists /\ t \in Threads /\ UnwindIpc(t, "RUNNING") /\ ready' = ready \cup chain
        /\ UNCHANGED <<exists, partner, current, interruptOwner, freeing>>
    BY ClientAssumption, Zenon DEF SysLthreadExRegs, irqVars
  <1>2. /\ chain \subseteq exists /\ t \in chain
        /\ state' = [u \in Threads |-> IF u = t THEN "RUNNING"
                                       ELSE IF u \in chain THEN "RUNNING" ELSE state[u]]
    BY <1>1, ChainLive, UnwindType, Zenon DEF States
  <1>3. wakeup' = wakeup \ chain /\ \A u \in Threads : pc'[u] = pc[u] \/ (u \in chain /\ pc'[u] = User)
    BY <1>1, Zenon DEF UnwindIpc
  <1> HIDE DEF chain
  <1>4. \A u \in exists : LiveThread(u)'
    BY <1>1, <1>2, <1>3 DEF Live, LiveThread, IsRunning, TypeOK, User
  <1> QED
    BY <1>1, <1>2, <1>3, <1>4, Zenon DEF Live, TypeOK

\* sys_lthread_ex_regs on a new thread.
LEMMA CreateLive ==
    ASSUME TypeOK, Live, NEW c \in Threads, NEW t \in ExRegs, CreateThread(c, t)
    PROVE  Live'
  <1>1. t \in Threads /\ t \notin exists
    BY ClientAssumption, Zenon DEF CreateThread
  <1>2. \A u \in exists \cup {t} : LiveThread(u)'
    BY <1>1 DEF CreateThread, Live, LiveThread, IsRunning, TypeOK, User
  <1> QED
    BY <1>1, <1>2 DEF CreateThread, Live, TypeOK

\* Nobody has died at the start.
LEMMA InitLive == Init => Live
  <1> SUFFICES ASSUME Init PROVE Live
    BY Zenon
  <1>1. \A t \in exists : LiveThread(t)
    BY ClientAssumption, IdsAssumption, Zenon DEF Init, LiveThread, IsRunning, User
  <1> QED
    BY <1>1, ClientAssumption, IdsAssumption, Zenon DEF Init, Live

\* Every step but a deletion preserves Live.
LEMMA NextLive ==
    ASSUME Dying = {}, NoZeroReply, TypeOK, Live, [Next]_vars
    PROVE  Live'
  <1>1. CASE \E c \in Threads, dest \in Threads \cup Irqs \cup {Nil}, k \in Calls : SysIpc(c, dest, k)
    BY <1>1, SysIpcLive, Zenon
  <1>2. CASE \E c \in Threads : ResumeSend(c) \/ ResumeReceive(c)
    BY <1>2, ResumeSendLive, ResumeReceiveLive, Zenon
  <1>3. CASE IdleLoop
    BY <1>3, IdleLoopLive, Zenon
  <1>4. CASE \E expired \in SUBSET wakeup : HandleTimerInterrupt(expired)
    BY <1>4, TimerLive, Zenon
  <1>5. CASE \E i \in Irqs : HandleInterrupt(i)
    BY <1>5, InterruptLive, Zenon
  <1>6. CASE \E c \in Threads, t \in Threads \cup {Nil} : SysThreadSwitch(c, t)
    BY <1>6, ThreadSwitchLive, Zenon
  <1>7. CASE \E c, t \in Threads, p \in NewPrios : SysSchedule(c, t, p)
    BY <1>7, ScheduleLive, Zenon
  <1>8. CASE \E c \in Threads, t \in ExRegs : SysLthreadExRegs(c, t) \/ CreateThread(c, t)
    BY <1>8, ExRegsLive, CreateLive, Zenon
  <1>9. CASE \E t \in Threads : FreeThread(t) \/ FreeSender(t) \/ FreeTcb(t)
    BY <1>9, IdsAssumption, Zenon DEF Live, NotFreeing, FreeThread, FreeSender, FreeTcb
  <1>10. CASE UNCHANGED vars
    <2>1. \A t \in exists : LiveThread(t)'
      BY <1>10, Zenon DEF vars, Live, LiveThread, IsRunning
    <2> QED
      BY <1>10, <2>1, Zenon DEF vars, Live
  <1> QED
    BY <1>1, <1>2, <1>3, <1>4, <1>5, <1>6, <1>7, <1>8, <1>9, <1>10, Zenon DEF Next

=============================================================================
