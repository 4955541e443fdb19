# Hazelnut in TLA+

Hazelnut (`src/kernel`) is an L4 microkernel in C++.  Its core is synchronous
IPC: a system call sends a message, receives one, or does both at once, and the
processor moves with the message.  This project models the core as state
machines, model-checks them with TLC and proves with TLAPS what can be proved for
any number of threads, priorities or pages.

The kernel modelled is the uniprocessor x86 one (in-kernel interrupt
controller, no SMP, no small address spaces).  It runs with interrupts
disabled: from the entry into the kernel to the next thread switch nothing else
happens.  The concurrency is that of threads blocked in the middle of a system
call: each keeps its kernel stack, and what it finds when it is switched to
again may have been changed by any number of others.

## Inventory

| part | state | operations | interacts with |
|---|---|---|---|
| scheduler (`schedule.c`, `schedule.h`) | ready rings per priority, `current_max_prio`, wakeup list, timeslices | timer tick, `sys_thread_switch`, `sys_schedule`, idle loop, `find_next_thread`, enqueue and dequeue | everything that blocks or wakes a thread |
| IPC (`ipc.c`) | thread state, partner, send rings, message buffers, timeouts | `sys_ipc`, `ipc_handle_kernel_id`, `handle_interrupt`, `extended_transfer` | scheduler, interrupts, page faults, mapping |
| threads and tasks (`thread.c`) | tcbs, present list | `sys_lthread_ex_regs`, `sys_task_new`, `create_tcb`, `unwind_ipc`, `free_thread`, `free_tcb` | takes IPCs apart, starts and removes threads |
| interrupt entry (`x86/interrupt.c`) | controller mask | `irq_handler`, mask and unmask | `handle_interrupt` |
| memory (`memory.c`, `mapping.c`, `mapping_alloc.c`, `kmemory.c`) | page tables, tree of mappings, buffer lists, free chunks | `map_fpage`, `fpage_unmap`, `mdb_map`, `mdb_flush`, allocation | map items of an IPC, page fault IPC |
| x86 memory, resources, IO flexpages | copy areas, FPU owner, IO bitmaps | lazy switching, page fault handling | `extended_transfer`, thread switch |
| SMP (`x86/smp.c`, `x86/smpipc.c`) | mailboxes, spin locks | cross-processor IPC and unwinding | not configured |
| kernel debugger, boot, ARM and MIPS ports | | | |
| sigma0, rmgr, libraries | | | clients |

What makes it hard: two threads decide independently whether to block on each
other; blocked threads are in up to three queues at once, each with its own
rule for leaving it (the ready rings are cleaned lazily, the wakeup list must
be left explicitly, a send ring is left by whoever ends the poll); a timer tick
or an interrupt comes between a delivery and the moment its receiver runs;
`lthread_ex_regs` and `task_new` take an IPC apart at any point;
a send ring, a partner field or an interrupt owner may name a thread that has
gone on to something else.  `PROJECT.json` lists these hazards by line.

## Modules

| module | models |
|---|---|
| `FindNext` | the promise of `find_next_thread`, for `Scheduler` and `Ipc` |
| `Scheduler` | what the scheduler promises: sets of runnable and queued threads, no rings |
| `SchedulerProofs` | theorems about `Scheduler` |
| `ReadyQueue`, `ReadyQueueProofs` | the rings, `current_max_prio`, timeslices; implements `Scheduler`; theorems about it |
| `Ipc` | IPC, interrupts, timeouts, `lthread_ex_regs`, task deletion |
| `IpcScheduler` | `Ipc` as an implementation of `Scheduler` (`SchedulerRefined`) |
| `IpcProofs` | theorems about `Ipc` for all clients; who exists and runs |
| `IpcRefinementProofs` | `Ipc` uses the scheduler as `Scheduler` allows |
| `IpcRendezvousProofs` | send rings, locked pairs and deliveries of `Ipc` |
| `RingProofs` | lemmas about doubly linked rings, for the ready and the send queues |
| `KMemory` | the kernel memory allocator |
| `MappingAlloc` | the buffer pools of the mapping database; uses `KMemory` |
| `KMemoryProofs` | theorems about both allocators |
| `Derivation`, `DerivationProofs` | what mapping, granting and unmapping promise, page by page; theorems about it |
| `MappingDb` | the mapping database: nodes, dual nodes, root arrays, `mdb_map`, `mdb_flush` (operators on a memory record) |
| `Memory` | page tables, `map_fpage`, `fpage_unmap`, spaces, TLB; uses `MappingDb` |
| `MemoryRefines` | `Memory` next to `Derivation` |
| `Strings` | the scatter-gather loop of `extended_transfer` and its reference definition |
| `LongIpc` | `extended_transfer` with copy areas and page faults; uses `Strings` |
| `MC...` | instances for TLC |

### Scheduler

`runnable` is the set of threads whose state is `IS_RUNNING`, `ready` those with
`TS_QUEUE_READY`, `current` the owner of the processor.  `ready` may hold
blocked threads: the kernel dequeues them only when `find_next_thread` meets
them, so `FindNextThread` (in `FindNext`) chooses a runnable thread of highest
priority and removes some of the blocked ones.  `Handover`, `Create`, `Activate` and
`Remove` are what other parts of the kernel do to these sets.

### ReadyQueue

The same operations on `prio_queue`, `ready_next`, `ready_prev` and
`current_max_prio` as `schedule.h` writes them, and the timeslices.  A link of
a thread outside the rings is `Null`: the code leaves it dangling and never
reads it.  Threads that wake up in one tick are a sequence, because the order
of the wakeup list decides the order in the ring and which of them is
dispatched.  The loops of `find_next_thread` are a function of the number of rounds
made (`SearchRound` is one); `Search` takes as many as there can be.
`ImplementsScheduler` maps `ready` to the threads with
`TS_QUEUE_READY`.  `Scheduler!Handover` lets other parts of the kernel switch to
any thread, so the refinement alone does not say whom the search chooses:
`HighestFirst` does, for every step that asks `find_next_thread` (`Searching`).

### Ipc

One variable per tcb field.  `pc[t]` is where thread `t` continues inside
`sys_ipc` when it is switched to: `send` (after `ipc_switch_to_idle` in the send
branch; it keeps the locals that are used later), `recv` and `locked` (after
the two switches of the receive branch), or `user` when nothing is left to do.
`SysIpc` runs from the system call to the first switch; `ResumeSend` and
`ResumeReceive` go on from there.  `freeing` is the progress of
`delete_all_threads`, which is split so that the loop in `free_thread` is
visible.  Deletion is atomic in the code too, and so no other action is enabled
while `freeing` is set.

Abstractions:

- Messages have no contents.  `inbox[t]` is a history variable: whose message
  was copied into the buffer of `t` and not yet returned to it.
- A timeout is `zero`, `finite` or `never`.  A client may choose any length, so
  a tick may expire any subset of the wakeup list.
- The ready rings and the wakeup list are sets (`ReadyQueue` has the rings).
  The send rings keep their pointers: stale ones are read by the code.
- Thread ids carry no version.  Register messages only: `LongIpc` has the page
  faults, strings and map items of a transfer.
- Calls of `lthread_ex_regs` that only read, or on the caller itself, do not
  change the modelled state and are left out.  `task_new` on an active task is
  a deletion followed by a creation.

### KMemory and MappingAlloc

`kmem_free_list` is the list as a sequence of chunk numbers.  Chunk 0 is NULL and
no chunk of the arena.  As in the code, nothing keeps a caller of `KmemFree` from
freeing what it does not hold, too little, or the same twice; that the callers in
`mapping_alloc.c` do not is part of `Conservation`.
`Fits` is the inner loop of `kmem_alloc`, which takes the NULL behind the last
free chunk for a mismatch.  `mng` is the management structure in the first slot
of each pool, with the links as the code writes them; the freelist inside a pool
is a sequence of slots.  `mdb_alloc_buffer` is disabled when kmem has no page
left: the kernel stops in the debugger ("out of kernel memory").  `others` is a
history variable with the chunks that the rest of the kernel holds; it gets them
by `OtherAlloc` and gives them back by `OtherFree`, also in parts: `delete_space`
frees in two calls what `create_space` got in one (`x86/memory.c:75`, `137`,
`140`).  That the others free only what they hold is assumed.

### MappingDb, Memory and MemoryRefines

The memory `mem` is a record of the heaps of nodes, dual nodes and root arrays,
the page tables, and the TLB.  Words of the code that hold two pointers xor-ed
are modelled with both, and `bad` is set when one is decoded with a key other
than the one it was coded with.  `map_fpage`, `fpage_unmap` and `mdb_flush` are
loops over a record of their local variables, with one operator per round; their
`goto`s are calls.  Each runs with interrupts disabled and is one step.

The TLB is assumed to have loaded everything it may.  `Renumbered` gives nodes
canonical numbers between the calls, so that states that differ only in addresses
are one.

`Derivation` has no sizes, tables or lists: a mapping is at a place, shows a
frame, and was derived from a place.  `MemoryRefines` takes the same steps in both
and `PageTablesRefine` compares them in every state.  The derivation of a node is
read off the tree: the nearest node before it of smaller depth.

Inputs: fpages have the two hardware page sizes (and the whole space for unmap);
a superframe is used in one size (`OneSize`); sigma0 maps writable pages and
grants none; nothing is unmapped from sigma0.

### Strings and LongIpc

`Strings` is the loop of `extended_transfer` as a function of the two lists of
dopes, which gives the pieces copied and the dopes and flags written, and a
definition of what a transfer of strings is to do: string by string, bytes in
order, cut at the first string that does not fit.

`LongIpc` splits a transfer where the code can fault: each step of
`extended_transfer` accesses windows (a copy area's worth of memory) of the
sender (`Own`) and of the receiver (`Foreign`), and can be taken when they are
present.  `frame[t]` is the kernel stack of `t`: a transfer, a page fault handler
on top of it, the tunnelled fault on the stack of the receiver.  `pgdir` are the
copy area entries of the page directories; `cpu` has the loaded directory and the
TLB entries of the areas; `page` is what the windows of a space are backed by.
`SwitchTo` is `switch_to_thread` with `save_resources`.  `got` and `last` are
history variables: the bytes written, as <<where, what>>, and the last transfer.
The pager and the scheduler are external to `LongIpc`: the pager answers each
fault, may take pages back `MaxUnmaps` times, and runs when it has work.

Inputs: clients that send or receive, not both in one call, so that the receive
phase after a long send, and its return at `ipc.c:839` with a zero timeout, are
left to `Ipc`; infinite timeouts; closed receives; receive buffers with at least
`IPC_DWORD_GAP` dwords; no long message to a receive of only an fpage; a long
message with a map item only to a mapped buffer.  User memory with dopes does
not change during a transfer.  Small spaces are not configured.

## Runs

| run | checks | instance |
|---|---|---|
| `scheduler` | promise of the scheduler | 3 threads |
| `ready_queue` | the rings are rings, nothing queued is above `current_max_prio`, the rings implement `Scheduler`, the search finds the highest priority | 3 threads, 2 priorities |
| `round_robin` | threads of one priority take turns | 3 threads |
| `ipc_core` | rendezvous, send rings, pairs of locked threads, delivery | 3 threads, one priority, send, wait, receive and call with timeouts |
| `ipc_interrupts` | attachment, pending interrupts, use of the scheduler | 2 threads, 2 interrupts, 2 priorities |
| `ipc_exregs` | send rings and wakeup list after a thread is torn out of its IPC | 3 threads, one created at run time |
| `ipc_delete` | nothing of a deleted thread is left in a queue; deletion ends | 3 threads in 2 tasks |
| `ipc_timeouts` | a finite timeout ends the IPC | 2 threads, 2 priorities |
| `allocator` | no chunk or buffer lost or given twice, requests fail only when they must, unused pools go back, with other clients that free in parts | 8 chunks, pools of 2 chunks, 2 buffer sizes |
| `memory` | page tables, mapping database, TLB and `Derivation` agree | 2 tasks, tables and frame table of 2 entries, 2 scenarios |
| `long_ipc` | messages arrive as sent, copy areas never show other memory, transfers end | 2 senders in one task, 2 receivers, 3 windows, 1 page taken back |

Three threads are the smallest number for which a send ring has an inner
element, a receiver is chosen among two senders, and a third thread runs
between two that are locked to each other.  Two priorities tell preemption from
queueing.  No bound cuts off behaviours inside an instance: all runs exhaust
their state space.  Each run restricts the calls clients make (`Calls`,
`ExRegs`, `Dying`, `NewPrios`), which is what keeps the questions apart.
Every run checks for deadlock, but that says little: the kernel
runs on to its next switch, and outside it a timer tick is always possible, also
when all threads block for ever and idle sleeps.
`TwoAlike` and `AllAlike` are permutations of threads that the instance does
not tell apart and are used with safety properties only.

### Where code and documents disagree

The run `zero_reply_timeout` is expected to end with a violation, and so are the
other configurations below, which are not part of the list of runs and are started
by hand (`tlc -config <file>.cfg <module>`).

- `zero_reply_timeout` (`MCIpcZeroReply`): with receive timeout zero and nobody
  polling, a call copies its message and returns without switching to the receiver
  (`ipc.c:839`), which stays blocked with the message in its buffer, against the
  comment at `ipc.c:720`.
- `MCIpcSendTimeout` (`MCIpc`): a sender that timed out stays in the send ring
  (`ipc.c:702`).  An open wait looks at the head only, and misses the senders
  behind it.
- `MCIpcReplyWait` (`MCIpc`): a receiver that has replied and locks a polling
  sender keeps the thread replied to as its partner (`ipc.c:896`);
  `lthread_ex_regs` then unwinds that thread and not the sender.
- `MCIpcInterruptTimeout` (`MCIpc`): an interrupt delivered to a thread that does
  not preempt leaves it in the wakeup list (`ipc.c:103`); a tick turns the
  delivery into a timeout, as `ipc.c:796` warns of in another place.
- `MCMemoryMixed` (`MCMemory`): when parts of a superpage have been handed on as
  pages, `mdb_flush` leaves a root array at its first used entry
  (`mapping.c:428`) and frees it as if it had reached the last one.
- `MCLongIpcOpenWait` (`MCLongIpc`): a receiver in an open wait stays WAITING for
  anyone while a sender that copies to it waits for its pager, and a second sender
  starts a transfer into the same buffer; `design.tex:103` has it locked.
- `MCLongIpcMapItem` (`MCLongIpc`): reading the receive fpage from a buffer that
  is not mapped makes the receiver ask its pager; the reply overwrites its
  `msg_desc`, which `copy_pagefault` does not save (`ipc.c:928`), and the rest of
  the message is cut.

`PROJECT.json` lists what these show as hazards that no passing run covers.
The passing runs of the properties these break leave out the calls behind them
(finite send timeouts, zero receive timeouts after a send, receive phases after
a send under `lthread_ex_regs`).  `ipc_timeouts` has finite send timeouts.  The
delivery of `MCIpcInterruptTimeout` is possible in `ipc_interrupts` too:
`WakeupBlocked` names it as its one exception.
`ipc_delete` checks what holds under deletion only: a sender polling for a
deleted thread is unwound but stays `POLLING` and never runs again
(`thread.c:157`), so `SendRings` does not hold there.

## Fairness

`Ipc!DeletionSpec`: `WF(DeletionStep)`: the loops of `delete_all_threads` run with
interrupts disabled until they end.

`Ipc!FairSpec`: `WF(KernelStep)`, since inside the kernel with interrupts
disabled the processor always gets to the next switch; and `SF(Expire(t))` for
every thread, since the timer ticks periodically, is deferred but not lost while
interrupts are disabled, and compares the clock with a fixed
`absolute_timeout`.  Strong fairness is needed because the tick is disabled
whenever the kernel runs.

`LongIpc!Fairness`: weak fairness of the running thread inside the kernel, as
above; strong fairness of switching to the pager when it has work, which the turns
of `ReadyQueue` justify for a pager of sufficient priority; and a pager that
answers what it is asked.  A transfer may meet unmapped pages again and again, but
`MaxUnmaps` bounds it.

`ReadyQueue!FairSpec`: `WF(IdleLoop)`, and infinitely many ticks that consume a
timeslice.  Nothing is assumed of the clients.

## Proofs

All theorems are about the specifications the runs check, for every value of the
constants that satisfies the named assumptions (`IdleAssumption`,
`QueueAssumption`, `IdsAssumption`, ...): distinct names for special values, boot
threads among the threads, priorities up to `MaxPrio`; `ReadyQueue` needs finitely
many threads, because `find_next_thread` has to come to an end.

### Scheduler and ready queues

`SchedulerProofs`: `TypeCorrect`, `NoThreadLost`, `OwnerIsRunnable` and
`IdleNeverDispatched`.  The inductive invariant joins `NoLostThread` with
`OwnerRunnable`: a switch enqueues the thread that gives up the processor, and that
covers what was missing from the queues only if the owner was runnable.
`IdleNeverDispatched` says that the debugger trap in `dispatch_thread` is
unreachable: `find_next_thread` is called with the running thread enqueued, so it
finds at least that one.

`ReadyQueueProofs`: `ReadyQueuesLinked`, `MaxPrioBounds`, `SchedulerImplemented` and
`HighestChosen`.
The inductive invariant `RInv` is both invariants together, and that the owner of
the processor runs.  The heart is `SearchInv`, the invariant of the loops of
`find_next_thread`: what has been dequeued does not run and is not below the current
priority, what is left is not above it, and each round has left a priority or
dequeued a thread, so the rounds `Search` makes are enough (`FindNextRefines`).
`SchedulerImplemented` then takes the steps one by one.  `HighestChosen` adds the
invariant `Kept` (every runnable thread is queued or has the processor), by which
the best of the queued threads is the best of all.  Since the installed provers
do no induction over data, recursive functions are handled by `Least` (a set of
numbers has a least element, so there is no least counterexample) and by `Loop` (a
function defined by recursion on a number exists and takes one round after the
other).

`RingProofs` has the rings themselves: `next` and `prev` are inverse to each other
on the members, and no proper part of the ring is closed under `next`; inserting
before the head and unlinking keep that, and leave rings of other members alone.

### IPC

`IpcProofs`, for every kind of call, also the calls the passing runs leave out:

- `TypeCorrect`.  The send queues are the hard part: links go stale, so the
  lemmas `EnqueueSendType` and `DequeueSendType` assume nothing about rings.
- `NoThreadLost`: whatever the misfortunes of an IPC, a thread that is RUNNING or
  LOCKED_RUNNING is queued or owns the processor.  `AllQueued` is the same,
  thread by thread, and inductive with the types.
- `OneInterruptPerThread`, and from it the action property
  `PendingInterruptsKept`: `handle_interrupt` overwrites `intr_pending` without
  looking at it, which loses nothing because the owner has no second interrupt.

The parts of `sys_ipc` take what the parts before them have done as arguments
(partners, buffers, wakeup queue), and have one lemma each, stated for any such
arguments (`Passed`, `PassedIrq`); the action lemmas put them together and
`NextIInv` has one step per action.  The last section proves `Live`, on which the
other two modules build: as long as no task is deleted, whoever is queued, owns the
processor or is named as a partner exists, and a thread in user mode runs.

`IpcRefinementProofs` shows that `Ipc` implements `Scheduler`.  `StepAllowed` says
that a step from a state with `SchedPre` is a step of `Scheduler` or leaves its
variables alone; two invariants imply `SchedPre`.  `Live` gives
`SchedulerRefinedAlive`: no deletion, no zero receive timeout after a send.
`Orderly` gives `SchedulerRefinedDeleting`: with deletion, for clients that use
neither `lthread_ex_regs` nor an open wait after a send; a transfer between locked
threads is then over before anyone else runs, and no deletion comes between.  The
hypotheses are needed: a thread that has replied with a zero timeout leaves a
receiver with a message blocked, and an open wait after a send lets a deletion meet
a locked pair and switch to a thread that is not runnable.

`IpcRendezvousProofs` has the invariants that `Coherent` makes inductive (with
`TypeOK` and `Live`): `SendQueuesLinked`, `RendezvousNotMissed`, `LockedInPairs`,
`WakeupQueueBlocked`, `DeliveredReceiversRun` and the action property
`TransfersToReceivers`.  `Coherent` ties the continuation of each thread to its
state and its buffer (`Phase`, `Delivered`) and each locked sender to its receiver
(`Pairs`): a rendezvous is not missed because the send ring of a receiver holds
exactly its pollers, and the ring stays one because a sender leaves it only
through its receiver or `unwind_ipc`.  Hypotheses (`Clients`): no finite send
timeout, no zero receive timeout after a send, no deletion, and
`lthread_ex_regs` only if no client waits for anyone after a send.  Each excludes
one of the configurations of the section before (`MCIpcSendTimeout`,
`zero_reply_timeout`, `MCIpcReplyWait`), which violate these properties, or the
deletion discussed there; the instances of `ipc_core`, `ipc_interrupts` and
`ipc_exregs` satisfy all of them.  `DeliveredReceiversRun` also excludes interrupts
together with finite receive timeouts (`MCIpcInterruptTimeout`).

### Allocators

`KMemoryProofs`, for any arena, sizes, page size, buffer lists, pool sizes and
other clients.  About kmem: `KmemConserves`, `KmemKeepsLast` and
`KmemAllocComplete`.  Their part of the inductive invariant, `KInv`, says that the
free list is sorted, that free chunks, pool pages and the chunks of the others
partition the arena, and that its last chunk is free; sortedness is needed for the
test of contiguity in `Fits` to mean a run of neighbours in the list, which is what
`AllocComplete` says.  Since `KmemFree` has no guard, sortedness itself rests on the
callers: a page that `mdb_free_buffer` returns has to be outside the free list.

About the pools: `PoolsLinked`, `BuffersConserved` and `NoPoolIdle`.  The inductive
invariant `PoolInv` needs all of these at once, and `KInv`: a pool is unlinked when
it has given its last buffer and linked again when it gets one back, so its place in
a list hangs on its count of free buffers, the count on the freelist, the freelist
on the buffers handed out, and that its page is returned once on all of them.

### Memory

`DerivationProofs`, for any places and frames (`RootOutside`): `DerivationSafe`
(every mapping goes back to sigma0 through mappings that are there and show the
same frame, without cycles) and `FrameTakenBack` (unmapping the pages that have all
of sigma0's mappings of a frame reaches every other mapping of it, whoever holds
it).  The second needs the first: a mapping is reached because its chain of origins
ends at sigma0 and shows one frame all along.  They are about the promise:
`PageTablesRefine` connects the page tables with it.

## Only model-checked

- Liveness (`RoundRobin`, `DeletionTerminates`, `TimeoutWakes`, `TransferEnds`):
  outside the prover.
- `DeadUnlinked`: under deletion a sender that has been unwound stays POLLING with
  stale links, and the rings of the living have to be kept apart from those.
- `SchedulerRefined`, `SendRings` and the others for clients outside the
  hypotheses of their theorems, where some hold in the instances and some do not.
- `LinksDecoded`, `TablesAgree`, `PreOrder`, `TlbCoherent` and `PageTablesRefine`:
  `MappingDb` and `Memory` are written with recursive operators, about which the
  provers can say nothing.
- The properties of `LongIpc`: they hold of whole transfers, whose result is that of
  the loop in `Strings`, and need an invariant of both kernel stacks.

The type invariants of `Scheduler` and `Ipc` and `FreeListSorted` need no run: they
are proved.

## Not modelled

- Unwinding inside a page fault IPC (`unwind_ipc_sp`) and page fault timeouts:
  they need `Ipc` and `LongIpc` in one model, whose instances TLC does not
  finish.  `IS_INFINITE_RECV_PFAULT` (`ipc.h:126`) is the complement of a 4-bit
  field and true for every timeout.
- Fpages between the two hardware sizes or larger than a superpage, a mapping of
  one size over one of the other, IO fpages, granting from sigma0.
- Bit-precise timeouts (`TIMEOUT` in `ipc.h`), the wakeup list as a list.
- Interrupts together with deletion; `interrupt_owner` after `free_tcb`.
- Lazy FPU state, debug registers, faults in the tcb area.
- SMP (`smp.c`, `smpipc.c`): not configured.
- Boot, the kernel debugger, the ARM and MIPS ports, sigma0, rmgr and the
  libraries, and the older assembler kernels under `src/l4-x86`: hardware access,
  I/O, or clients whose calls are inputs here.
