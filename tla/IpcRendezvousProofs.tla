------------------------ MODULE IpcRendezvousProofs ------------------------
(***************************************************************************)
(* The rendezvous of Ipc, for any number of threads and interrupts: send   *)
(* queues, locked pairs and buffers stay coherent, and no sender and       *)
(* receiver miss each other.  Not for all clients: no finite send timeout  *)
(* (a sender that times out leaves its send queue behind), no zero receive *)
(* timeout after a send, no task deletion, and lthread_ex_regs only        *)
(* where no receiver waits for anyone after a send.  The runs              *)
(* show what happens otherwise.                                            *)
(***************************************************************************)
EXTENDS IpcProofs, RingProofs

\* What the theorems of this module assume of the clients.
Clients ==
    /\ Dying = {} /\ NoZeroReply
    /\ \A k \in Calls : k.snd => k.sto # "finite"
    /\ ExRegs = {} \/ NoReplyWait

\* No client uses a finite receive timeout.
NoReceiveTimeout == \A k \in Calls : k.rto # "finite"

\* A sender its receiver has locked, and that has not transferred yet.
LockedSender(s) == pc[s].at = "send" /\ state[s] = "LOCKED_RUNNING"

\* What the continuation of a thread says about its state and its buffer.
Phase(t) ==
    /\ pc[t] = User => state[t] = "RUNNING" /\ inbox[t] = Null
    /\ pc[t].at = "send" => /\ state[t] \in {"POLLING", "LOCKED_RUNNING"}
                            /\ partner[t] = pc[t].dest /\ inbox[t] = Null
                            /\ \E k \in Calls : k.snd /\ k.rcv = pc[t].rcv /\ k.rto = pc[t].rto
    /\ pc[t].at = "recv" => /\ state[t] \in {"WAITING", "LOCKED_RUNNING", "RUNNING"}
                            /\ state[t] = "LOCKED_RUNNING" =>
                                  inbox[t] \in Irqs /\ partner[t] \notin Threads
    /\ pc[t].at = "locked" => state[t] = "LOCKED_WAITING"
    /\ current = t => state[t] # "POLLING" /\ (state[t] = "LOCKED_WAITING" => inbox[t] # Null)

\* A message that its receiver has not seen yet.
Delivered(t) ==
    inbox[t] # Null =>
       \/ current = t
       \/ /\ pc[t].at = "recv" /\ inbox[t] \in Irqs
          /\ state[t] = "LOCKED_RUNNING" \/ (state[t] = "RUNNING" /\ ~NoReceiveTimeout)

\* Locked threads come in pairs; if clients do not wait for anyone after a
\* send, the sender goes on at once.
Pairs ==
    /\ \A s \in exists : LockedSender(s) =>
          /\ state[pc[s].dest] = "LOCKED_WAITING" /\ inbox[pc[s].dest] = Null
          /\ NoReplyWait => current = s
    /\ \A s, u \in exists :
          LockedSender(s) /\ LockedSender(u) /\ pc[s].dest = pc[u].dest => s = u
    /\ \A r \in exists : state[r] = "LOCKED_WAITING" /\ inbox[r] = Null =>
          \E s \in exists : LockedSender(s) /\ pc[s].dest = r

\* The inductive invariant, together with TypeOK and Live.
Coherent ==
    /\ \A t \in Threads \ exists : inbox[t] = Null
    /\ \A t \in exists : Phase(t) /\ Delivered(t)
    /\ Pairs
    /\ \A t \in wakeup : pc[t].at = "recv"
    /\ NoReceiveTimeout => wakeup = {}
    /\ SendRings
    /\ NoMissedRendezvous

----------------------------------------------------------------------------
(* The rings.                                                              *)

Queues == [head : [Threads -> Threads \cup {Null}],
           next : [Threads -> Threads \cup {Null}],
           prev : [Threads -> Threads \cup {Null}]]

\* The send queue of d is a ring of the threads in P, all of them.
SendRing(q, d, P) == Ring(q.head[d], q.next, q.prev, P, Null)

\* SendRings, in these terms.
LEMMA RingsOf == SendRings <=> \A d \in exists : SendRing(sendq, d, Pollers(d))
  BY Zenon DEF SendRings, SendRing, Ring, Linked, Connected

\* The same of the next state.
LEMMA RingsOfNext == SendRings' <=> \A d \in exists' : SendRing(sendq', d, Pollers(d)')
  BY Zenon DEF SendRings, SendRing, Ring, Linked, Connected

\* What thread_enqueue_send and thread_dequeue_send write.
Enqueued(q, d, c, r) ==
    /\ r.head = q.head
    /\ r.prev = [q.prev EXCEPT ![c] = q.prev[q.head[d]], ![q.head[d]] = c]
    /\ r.next = [q.next EXCEPT ![c] = q.head[d], ![q.prev[q.head[d]]] = c]
Emptied(q, d, r) ==
    r.head = [q.head EXCEPT ![d] = Null] /\ r.next = q.next /\ r.prev = q.prev
Dequeued(q, d, c, r) ==
    /\ r.head = [q.head EXCEPT ![d] = IF q.head[d] = c THEN q.next[c] ELSE q.head[d]]
    /\ r.next = [q.next EXCEPT ![q.prev[c]] = q.next[c]]
    /\ r.prev = [q.prev EXCEPT ![q.next[c]] = q.prev[c]]

\* thread_enqueue_send, when the queue is not empty.
LEMMA EnqueueWrites ==
    ASSUME NEW q \in Queues, NEW d \in Threads, NEW c \in Threads, NEW P \in SUBSET Threads,
           P # {}, SendRing(q, d, P), c \notin P
    PROVE  Enqueued(q, d, c, ThreadEnqueueSend(q, d, c))
  <1>0. PICK r : r = ThreadEnqueueSend(q, d, c)
    BY Zenon
  <1> DEFINE first == q.head[d]
             p1 == [q.prev EXCEPT ![c] = q.prev[first]]
             n1 == [q.next EXCEPT ![c] = first]
             p2 == [p1 EXCEPT ![first] = c]
  <1>1. first # Null /\ first \in P /\ first # c /\ first \in Threads
    BY IdsAssumption, Zenon DEF SendRing, Ring
  <1>2. r = [head |-> q.head, next |-> [n1 EXCEPT ![p2[c]] = c], prev |-> p2]
    BY <1>0, <1>1, Zenon DEF ThreadEnqueueSend
  <1>3. p2[c] = q.prev[first]
    BY <1>1, Zenon DEF Queues
  <1>4. r.head = q.head /\ r.next = [n1 EXCEPT ![p2[c]] = c] /\ r.prev = p2
    BY <1>2, Zenon
  <1> QED
    BY <1>0, <1>3, <1>4, Zenon DEF Enqueued

\* thread_enqueue_send adds a thread to the ring.
LEMMA RingEnqueue ==
    ASSUME NEW q \in Queues, NEW d \in Threads, NEW c \in Threads, NEW P \in SUBSET Threads,
           SendRing(q, d, P), c \notin P
    PROVE  SendRing(ThreadEnqueueSend(q, d, c), d, P \cup {c})
  <1>1. PICK r : r = ThreadEnqueueSend(q, d, c)
    BY Zenon
  <1>2. CASE P = {}
    <2>1. /\ q.head[d] = Null
          /\ r.head = [q.head EXCEPT ![d] = c] /\ r.next = [q.next EXCEPT ![c] = c]
          /\ r.prev = [q.prev EXCEPT ![c] = c]
      BY <1>1, <1>2, Zenon DEF SendRing, Ring, ThreadEnqueueSend
    <2>2. r.head[d] = c /\ r.next[c] = c /\ r.prev[c] = c /\ P \cup {c} = {c}
      BY <1>2, <2>1, Zenon DEF Queues
    <2>3. Ring(c, r.next, r.prev, {c}, Null)
      BY <2>2, RingOfOne, Zenon
    <2> QED
      BY <1>1, <2>2, <2>3, Zenon DEF SendRing
  <1>3. CASE P # {}
    <2>1. PICK first, last : first = q.head[d] /\ last = q.prev[first]
      BY Zenon
    <2>2. first \in P /\ last \in P
      BY <1>3, <2>1, Zenon DEF SendRing, Ring, Linked
    <2>3. r.head = q.head /\ r.prev = [q.prev EXCEPT ![c] = last, ![first] = c]
          /\ r.next = [q.next EXCEPT ![c] = first, ![last] = c]
      <3>1. Enqueued(q, d, c, r)
        BY <1>1, <1>3, EnqueueWrites, Zenon
      <3> QED
        BY <2>1, <3>1, Zenon DEF Enqueued
    <2>4. Inserted(q.next, q.prev, P, last, first, c, r.next, r.prev)
      BY <2>2, <2>3, Zenon DEF Inserted, Queues
    <2>5. Ring(first, r.next, r.prev, P \cup {c}, Null)
      BY <1>3, <2>1, <2>2, <2>4, RingInsert, Zenon DEF SendRing
    <2> QED
      BY <1>1, <2>1, <2>3, <2>5, Zenon DEF SendRing
  <1> QED
    BY <1>2, <1>3, Zenon

\* thread_dequeue_send.
LEMMA DequeueWrites ==
    ASSUME NEW q \in Queues, NEW d \in Threads, NEW P \in SUBSET Threads, NEW c \in P,
           SendRing(q, d, P)
    PROVE  /\ q.next[c] \in P /\ q.prev[c] \in P
           /\ \/ /\ q.next[c] = c /\ P = {c}
                 /\ Emptied(q, d, ThreadDequeueSend(q, d, c))
              \/ /\ q.next[c] # c /\ q.prev[c] # c
                 /\ Dequeued(q, d, c, ThreadDequeueSend(q, d, c))
  <1>0. PICK r : r = ThreadDequeueSend(q, d, c)
    BY Zenon
  <1>1. /\ c \in Threads /\ q.next[c] \in P /\ q.prev[c] \in P
        /\ q.next[q.prev[c]] = c /\ q.prev[q.next[c]] = c
    BY Zenon DEF SendRing, Ring, Linked
  <1>2. CASE q.next[c] = c
    <2>1. P = {c}
      <3>1. PICK head, next, prev : Ring(head, next, prev, P, Null) /\ next[c] = c
        BY <1>2, Zenon DEF SendRing
      <3> QED
        BY <3>1, RingAlone, Zenon
    <2> QED
      BY <1>1, <1>2, <2>1, Zenon DEF ThreadDequeueSend, Emptied
  <1>3. CASE q.next[c] # c
    <2> DEFINE n1 == [q.next EXCEPT ![q.prev[c]] = q.next[c]]
    <2>1. r = [head |-> [q.head EXCEPT ![d] = IF @ = c THEN q.next[c] ELSE @],
               next |-> n1,
               prev |-> [q.prev EXCEPT ![n1[c]] = q.prev[c]]]
      BY <1>0, <1>3, Zenon DEF ThreadDequeueSend
    <2>2. q.prev[c] # c /\ n1[c] = q.next[c]
      BY <1>1, <1>3, Zenon DEF Queues
    <2>3. /\ r.head = [q.head EXCEPT ![d] = IF q.head[d] = c THEN q.next[c] ELSE q.head[d]]
          /\ r.next = n1 /\ r.prev = [q.prev EXCEPT ![n1[c]] = q.prev[c]]
      BY <2>1, Zenon DEF Queues
    <2>4. Dequeued(q, d, c, r)
      BY <2>2, <2>3, Zenon DEF Dequeued
    <2> QED
      BY <1>0, <1>1, <1>3, <2>2, <2>4, Zenon
  <1> QED
    BY <1>2, <1>3, Zenon

\* thread_dequeue_send takes a thread out of the ring.
LEMMA RingDequeue ==
    ASSUME NEW q \in Queues, NEW d \in Threads, NEW P \in SUBSET Threads, NEW c \in P,
           SendRing(q, d, P)
    PROVE  SendRing(ThreadDequeueSend(q, d, c), d, P \ {c})
  <1>1. PICK r : r = ThreadDequeueSend(q, d, c)
    BY Zenon
  <1>2. /\ q.next[c] \in P /\ q.prev[c] \in P
        /\ \/ q.next[c] = c /\ P = {c} /\ Emptied(q, d, r)
           \/ q.next[c] # c /\ q.prev[c] # c /\ Dequeued(q, d, c, r)
    BY <1>1, DequeueWrites, Zenon
  <1>3. CASE q.next[c] = c
    <2>1. P \ {c} = {} /\ r.head[d] = Null
      BY <1>2, <1>3, Zenon DEF Emptied, Queues
    <2> QED
      BY <1>1, <2>1, Zenon DEF SendRing, Ring
  <1>4. CASE q.next[c] # c
    <2>1. q.prev[c] # c /\ Dequeued(q, d, c, r) /\ q.head[d] \in P
      BY <1>2, <1>4, Zenon DEF SendRing, Ring
    <2>2. r.head[d] \in P \ {c}
      BY <1>2, <1>4, <2>1, Zenon DEF Dequeued, Queues
    <2>3. Removed(q.next, q.prev, P, c, r.next, r.prev)
      BY <1>2, <1>4, <2>1, Zenon DEF Removed, Dequeued, Queues
    <2>4. Ring(r.head[d], r.next, r.prev, P \ {c}, Null)
      BY <1>4, <2>2, <2>3, RingRemove, Zenon DEF SendRing
    <2> QED
      BY <1>1, <2>4, Zenon DEF SendRing
  <1> QED
    BY <1>3, <1>4, Zenon

\* Enqueueing leaves the other rings alone.
LEMMA EnqueueFrame ==
    ASSUME NEW q \in Queues, NEW d \in Threads, NEW c \in Threads, NEW P \in SUBSET Threads,
           SendRing(q, d, P), c \notin P,
           NEW e \in Threads, e # d, NEW Q \in SUBSET Threads, Q \cap (P \cup {c}) = {},
           SendRing(q, e, Q)
    PROVE  SendRing(ThreadEnqueueSend(q, d, c), e, Q)
  <1>0. PICK r : r = ThreadEnqueueSend(q, d, c)
    BY Zenon
  <1>1. r.head[e] = q.head[e] /\ \A t \in Q : r.next[t] = q.next[t] /\ r.prev[t] = q.prev[t]
    <2>1. CASE P = {}
      BY <1>0, <2>1, Zenon DEF SendRing, Ring, ThreadEnqueueSend, Queues
    <2>2. CASE P # {}
      <3>1. Enqueued(q, d, c, r)
        BY <1>0, <2>2, EnqueueWrites, Zenon
      <3>2. q.head[d] \in P /\ q.prev[q.head[d]] \in P
        BY <2>2, Zenon DEF SendRing, Ring, Linked
      <3> QED
        BY <3>1, <3>2 DEF Enqueued, Queues
    <2> QED
      BY <2>1, <2>2, Zenon
  <1>2. SendRing(r, e, Q)
    BY <1>1, RingFrame DEF SendRing
  <1> QED
    BY <1>0, <1>2, Zenon

\* Taking a thread out of one ring, too.
LEMMA DequeueFrame ==
    ASSUME NEW q \in Queues, NEW d \in Threads, NEW P \in SUBSET Threads, NEW c \in P,
           SendRing(q, d, P),
           NEW e \in Threads, e # d, NEW Q \in SUBSET Threads, Q \cap P = {},
           SendRing(q, e, Q)
    PROVE  SendRing(ThreadDequeueSend(q, d, c), e, Q)
  <1>0. PICK r : r = ThreadDequeueSend(q, d, c)
    BY Zenon
  <1>1. /\ q.next[c] \in P /\ q.prev[c] \in P
        /\ Emptied(q, d, r) \/ Dequeued(q, d, c, r)
    BY <1>0, DequeueWrites, Zenon
  <1>2. r.head[e] = q.head[e] /\ \A t \in Q : r.next[t] = q.next[t] /\ r.prev[t] = q.prev[t]
    <2>1. CASE Emptied(q, d, r)
      BY <2>1, Zenon DEF Emptied, Queues
    <2>2. CASE Dequeued(q, d, c, r)
      BY <1>1, <2>2 DEF Dequeued, Queues
    <2> QED
      BY <1>1, <2>1, <2>2, Zenon
  <1>3. SendRing(r, e, Q)
    BY <1>2, RingFrame DEF SendRing
  <1> QED
    BY <1>0, <1>3, Zenon

\* A step that leaves the queues and the polling threads alone.
LEMMA RingsKept ==
    ASSUME TypeOK, SendRings, UNCHANGED <<exists, sendq>>,
           \A t \in exists : /\ state'[t] = "POLLING" <=> state[t] = "POLLING"
                             /\ state[t] = "POLLING" => partner'[t] = partner[t]
    PROVE  SendRings'
  <1>1. \A d \in exists : Pollers(d)' = Pollers(d)
    BY Zenon DEF Pollers
  <1>2. \A d \in exists : SendRing(sendq, d, Pollers(d))
    BY RingsOf, Zenon
  <1>3. \A d \in exists' : SendRing(sendq', d, Pollers(d)')
    BY <1>1, <1>2, Zenon
  <1> QED
    BY <1>3, RingsOfNext, Zenon

\* A step that enqueues c to poll for d.
LEMMA RingsEnqueue ==
    ASSUME TypeOK, SendRings, NEW c \in exists, NEW d \in exists, state[c] # "POLLING",
           state' = [state EXCEPT ![c] = "POLLING"], partner' = [partner EXCEPT ![c] = d],
           sendq' = ThreadEnqueueSend(sendq, d, c), UNCHANGED exists
    PROVE  SendRings'
  <1>1. /\ sendq \in Queues /\ c \in Threads /\ d \in Threads
        /\ \A e \in Threads : Pollers(e) \in SUBSET Threads /\ c \notin Pollers(e)
        /\ \A e \in Threads : e # d => Pollers(e) \cap (Pollers(d) \cup {c}) = {}
    BY Zenon DEF TypeOK, Queues, Pollers
  <1>2. \A e \in exists : Pollers(e)' = IF e = d THEN Pollers(d) \cup {c} ELSE Pollers(e)
    BY <1>1 DEF Pollers, TypeOK
  <1>3. \A e \in exists : e \in Threads /\ SendRing(sendq, e, Pollers(e))
    BY RingsOf, Zenon DEF TypeOK
  <1>4. SendRing(sendq', d, Pollers(d) \cup {c})
    BY <1>1, <1>3, RingEnqueue, Zenon
  <1>5. \A e \in exists \ {d} : SendRing(sendq', e, Pollers(e))
    BY <1>1, <1>3, EnqueueFrame, Zenon
  <1>6. \A e \in exists' : SendRing(sendq', e, Pollers(e)')
    BY <1>2, <1>4, <1>5, Zenon
  <1> QED
    BY <1>6, RingsOfNext, Zenon

\* A step after which c, who polled for d, does no longer.
LEMMA RingsDequeue ==
    ASSUME TypeOK, SendRings, NEW c \in exists, NEW d \in exists,
           state[c] = "POLLING", partner[c] = d, state'[c] # "POLLING",
           \A t \in exists \ {c} : /\ state'[t] = "POLLING" <=> state[t] = "POLLING"
                                   /\ state[t] = "POLLING" => partner'[t] = partner[t],
           sendq' = ThreadDequeueSend(sendq, d, c), UNCHANGED exists
    PROVE  SendRings'
  <1>1. /\ sendq \in Queues /\ c \in Threads /\ d \in Threads /\ c \in Pollers(d)
        /\ \A e \in Threads : Pollers(e) \in SUBSET Threads
        /\ \A e \in Threads : e # d => Pollers(e) \cap Pollers(d) = {}
    BY DEF TypeOK, Queues, Pollers
  <1>2. \A e \in exists : Pollers(e)' = IF e = d THEN Pollers(d) \ {c} ELSE Pollers(e)
    BY <1>1, Zenon DEF Pollers
  <1>3. \A e \in exists : e \in Threads /\ SendRing(sendq, e, Pollers(e))
    BY RingsOf, Zenon DEF TypeOK
  <1>4. SendRing(sendq', d, Pollers(d) \ {c})
    BY <1>1, <1>3, RingDequeue, Zenon
  <1>5. \A e \in exists \ {d} : SendRing(sendq', e, Pollers(e))
    BY <1>1, <1>3, DequeueFrame, Zenon
  <1>6. \A e \in exists' : SendRing(sendq', e, Pollers(e)')
    BY <1>2, <1>4, <1>5, Zenon
  <1> QED
    BY <1>6, RingsOfNext, Zenon

----------------------------------------------------------------------------
(* The parts of an ipc system call.                                        *)

\* The state of a thread tells its continuation.
LEMMA StateTellsPc ==
    ASSUME TypeOK, Coherent, NEW t \in exists
    PROVE  /\ pc[t] = User \/ pc[t].at \in {"send", "recv", "locked"}
           /\ pc[t].at # "user" <=> pc[t] # User
           /\ state[t] = "POLLING" => pc[t].at = "send"
           /\ state[t] = "WAITING" => pc[t].at = "recv"
           /\ state[t] = "LOCKED_WAITING" => pc[t].at = "locked"
           /\ state[t] = "LOCKED_RUNNING" => pc[t].at \in {"send", "recv"}
           /\ state[t] = "RUNNING" => pc[t].at \in {"user", "recv"}
  <1>1. pc[t] \in Pcs /\ Phase(t)
    BY Zenon DEF TypeOK, Coherent
  <1>2. /\ pc[t] = User \/ pc[t].at \in {"send", "recv", "locked"}
        /\ pc[t].at # "user" <=> pc[t] # User
    BY <1>1 DEF Pcs, User
  <1> QED
    BY <1>1, <1>2, Zenon DEF Phase, User

\* User mode is neither of the continuations.
LEMMA UserAt == User.at = "user"
  BY DEF User

\* A thread that a step does not touch.
LEMMA PhaseKept ==
    ASSUME NEW t, Phase(t), Delivered(t),
           state'[t] = state[t], pc'[t] = pc[t], partner'[t] = partner[t], inbox'[t] = inbox[t],
           current' = t => current = t \/ state[t] \in {"RUNNING", "LOCKED_RUNNING"},
           current = t => current' = t \/ inbox[t] = Null
    PROVE  Phase(t)' /\ Delivered(t)'
  BY Zenon DEF Phase, Delivered

\* A thread that returns to user mode.
LEMMA PhaseOfUser ==
    ASSUME NEW t, state'[t] = "RUNNING", pc'[t] = User, inbox'[t] = Null
    PROVE  Phase(t)' /\ Delivered(t)'
  BY DEF Phase, Delivered, User

\* Nobody is locked or unlocked.
LEMMA PairsKept ==
    ASSUME Live, Coherent, exists \subseteq exists',
           \A s \in exists' : LockedSender(s)' <=> s \in exists /\ LockedSender(s),
           \A s \in exists : LockedSender(s) => pc'[s].dest = pc[s].dest,
           NoReplyWait => \A s \in exists : LockedSender(s) => current' = s,
           \A r \in exists' : state'[r] = "LOCKED_WAITING" /\ inbox'[r] = Null <=>
               r \in exists /\ state[r] = "LOCKED_WAITING" /\ inbox[r] = Null
    PROVE  Pairs'
  <1>1. \A s \in exists : LockedSender(s) => pc[s].dest \in exists
    BY Zenon DEF LockedSender, Live, LiveThread
  <1>2. \A s \in exists' : LockedSender(s)' =>
           /\ state'[pc'[s].dest] = "LOCKED_WAITING" /\ inbox'[pc'[s].dest] = Null
           /\ NoReplyWait => current' = s
    BY <1>1 DEF Coherent, Pairs
  <1>3. \A s, u \in exists' :
           LockedSender(s)' /\ LockedSender(u)' /\ pc'[s].dest = pc'[u].dest => s = u
    <2>1. \A s, u \in exists :
             LockedSender(s) /\ LockedSender(u) /\ pc[s].dest = pc[u].dest => s = u
      BY Zenon DEF Coherent, Pairs
    <2> QED
      BY <2>1
  <1>4. \A r \in exists' : state'[r] = "LOCKED_WAITING" /\ inbox'[r] = Null =>
           \E s \in exists' : LockedSender(s)' /\ pc'[s].dest = r
    <2>1. \A r \in exists : state[r] = "LOCKED_WAITING" /\ inbox[r] = Null =>
             \E s \in exists : LockedSender(s) /\ pc[s].dest = r
      BY Zenon DEF Coherent, Pairs
    <2> QED
      BY <2>1
  <1> QED
    BY <1>2, <1>3, <1>4, Zenon DEF Pairs

\* Nobody polls or waits who did not, or for another one.
LEMMA MissedKept ==
    ASSUME NoMissedRendezvous, exists' = exists, partner' = partner,
           \A t \in exists : /\ state'[t] = "POLLING" => state[t] = "POLLING"
                             /\ state'[t] = "WAITING" => state[t] = "WAITING"
    PROVE  NoMissedRendezvous'
  BY Zenon DEF NoMissedRendezvous

\* Between two system calls: a thread is in user mode, or idle runs.
Quiet == current = Idle \/ (current \in exists /\ pc[current] = User)

\* Then no sender is locked, if clients do not wait for anyone after a send.
LEMMA QuietUnlocked ==
    ASSUME TypeOK, Coherent, Quiet, NoReplyWait, NEW s \in exists
    PROVE  ~LockedSender(s)
  <1>1. LockedSender(s) => current = s
    BY Zenon DEF Coherent, Pairs
  <1>2. current = s => pc[s] = User
    <2>1. Idle \notin exists
      BY IdsAssumption, Zenon DEF TypeOK
    <2> QED
      BY <2>1, Zenon DEF Quiet
  <1> QED
    BY <1>1, <1>2, UserAt, Zenon DEF LockedSender

\* What the parts of an ipc system call are passed: c has sent to the thread
\* to, if to is not Null, who waited for it or had locked it.
Handed(c, to, par, box, wk) ==
    /\ TypeOK /\ Live /\ Coherent /\ c \in exists /\ current = c
    /\ par \in [Threads -> Partners]
    /\ \A t \in Threads \ {c, to} : par[t] = partner[t]
    /\ wk \subseteq wakeup \ {c}
    /\ UNCHANGED exists
    /\ \/ to = Null /\ pc[c] = User /\ box = inbox
       \/ /\ to \in exists \ {c} /\ inbox[to] = Null /\ par[to] = c
          /\ box = [inbox EXCEPT ![to] = c]
          /\ \/ pc[c] = User /\ state[to] = "WAITING"
             \/ LockedSender(c) /\ pc[c].dest = to

\* Facts about the two threads.
LEMMA HandedFacts ==
    ASSUME NEW c, NEW to, NEW par, NEW box, NEW wk, Handed(c, to, par, box, wk)
    PROVE  /\ c \in Threads /\ c # Null /\ inbox[c] = Null
           /\ state[c] \in {"RUNNING", "LOCKED_RUNNING"} /\ pc[c].at \in {"user", "send"}
           /\ pc[c] = User => state[c] = "RUNNING"
           /\ \A s \in exists : LockedSender(s) => pc[s].dest # c
           /\ \A s \in exists \ {c} : LockedSender(s) => pc[s].dest # to
           /\ to # Null => /\ to \in Threads /\ to \in exists \ {c} /\ pc[to] # User
                           /\ \/ state[to] = "WAITING" /\ pc[to].at = "recv"
                              \/ state[to] = "LOCKED_WAITING" /\ pc[to].at = "locked"
                           /\ box[to] = c /\ par[to] = c
           /\ box[c] = Null
           /\ \A t \in Threads \ exists : box[t] = inbox[t]
           /\ \A t \in exists \ {c, to} : box[t] = inbox[t] /\ par[t] = partner[t]
  <1>1. c \in Threads /\ c # Null /\ to \in exists \cup {Null} /\ Null \notin exists
        /\ exists \in SUBSET Threads
    BY IdsAssumption DEF Handed, TypeOK
  <1>2. inbox[c] = Null /\ pc[c].at \in {"user", "send"} /\ Phase(c)
        /\ state[c] \in {"RUNNING", "LOCKED_RUNNING"}
        /\ (pc[c] = User => state[c] = "RUNNING")
    BY DEF Handed, Coherent, Phase, LockedSender, User
  <1>3. /\ \A s \in exists : LockedSender(s) => pc[s].dest # c
        /\ \A s \in exists \ {c} : LockedSender(s) => pc[s].dest # to
    <2>1. \A s \in exists : LockedSender(s) =>
             state[pc[s].dest] = "LOCKED_WAITING" /\ pc[s].dest \in exists
      BY Zenon DEF Handed, Coherent, Pairs, Live, LiveThread, LockedSender
    <2>2. \A s, u \in exists :
             LockedSender(s) /\ LockedSender(u) /\ pc[s].dest = pc[u].dest => s = u
      BY Zenon DEF Handed, Coherent, Pairs
    <2> QED
      BY <1>1, <1>2, <2>1, <2>2, Zenon DEF Handed
  <1>4. to # Null => /\ to \in Threads /\ to \in exists /\ pc[to] # User
                     /\ \/ state[to] = "WAITING" /\ pc[to].at = "recv"
                        \/ state[to] = "LOCKED_WAITING" /\ pc[to].at = "locked"
    <2>1. to # Null => to \in exists /\ state[to] \in {"WAITING", "LOCKED_WAITING"}
      BY DEF Handed, Coherent, Pairs
    <2> QED
      BY <1>1, <2>1, StateTellsPc, Zenon DEF Handed, User
  <1>5. \A t \in Threads \ {to} : box[t] = inbox[t]
    BY DEF Handed, TypeOK
  <1>6. \A t \in exists \ {c, to} : box[t] = inbox[t] /\ par[t] = partner[t]
    BY <1>1, <1>5, Zenon DEF Handed
  <1>7. c # to /\ \A t \in Threads \ exists : t # to
    BY <1>1, IdsAssumption, Zenon DEF Handed
  <1>8. to # Null => to \in exists \ {c} /\ box[to] = c /\ par[to] = c
    <2>1. to # Null => to \in exists \ {c} /\ box = [inbox EXCEPT ![to] = c] /\ par[to] = c
      BY Zenon DEF Handed
    <2> QED
      BY <1>1, <2>1, Zenon DEF Handed, TypeOK
  <1> QED
    BY <1>1, <1>2, <1>3, <1>4, <1>5, <1>6, <1>7, <1>8, Zenon

\* The pairs the two threads do not belong to.
LEMMA HandedPairs ==
    ASSUME NEW c, NEW to, NEW par, NEW box, NEW wk, Handed(c, to, par, box, wk)
    PROVE  /\ \A s \in exists \ {c} : LockedSender(s) =>
                 /\ pc[s].dest \in exists \ {c, to} /\ state[pc[s].dest] = "LOCKED_WAITING"
                 /\ inbox[pc[s].dest] = Null /\ ~NoReplyWait
           /\ \A s, u \in exists \ {c} :
                 LockedSender(s) /\ LockedSender(u) /\ pc[s].dest = pc[u].dest => s = u
           /\ \A r \in exists \ {c, to} : state[r] = "LOCKED_WAITING" /\ inbox[r] = Null =>
                 \E s \in exists \ {c} : LockedSender(s) /\ pc[s].dest = r
  <1>1. Live /\ Coherent /\ current = c
    BY Zenon DEF Handed
  <1>2. /\ \A s \in exists : LockedSender(s) => pc[s].dest # c
        /\ \A s \in exists \ {c} : LockedSender(s) => pc[s].dest # to
    BY HandedFacts
  <1>3. \A s \in exists \ {c} : LockedSender(s) => pc[s].dest \in exists \ {c, to}
    BY <1>1, <1>2, Zenon DEF Live, LiveThread, LockedSender
  <1>4. \A s \in exists : LockedSender(s) =>
           /\ state[pc[s].dest] = "LOCKED_WAITING" /\ inbox[pc[s].dest] = Null
           /\ NoReplyWait => c = s
    BY <1>1, Zenon DEF Coherent, Pairs
  <1>5. \A s, u \in exists :
           LockedSender(s) /\ LockedSender(u) /\ pc[s].dest = pc[u].dest => s = u
    BY <1>1, Zenon DEF Coherent, Pairs
  <1>6. \A r \in exists : state[r] = "LOCKED_WAITING" /\ inbox[r] = Null =>
           \E s \in exists : LockedSender(s) /\ pc[s].dest = r
    BY <1>1, Zenon DEF Coherent, Pairs
  <1>7. LockedSender(c) => pc[c].dest = to
    BY UserAt, Zenon DEF Handed, LockedSender
  <1>8. \A r \in exists \ {c, to} : state[r] = "LOCKED_WAITING" /\ inbox[r] = Null =>
           \E s \in exists \ {c} : LockedSender(s) /\ pc[s].dest = r
    BY <1>6, <1>7
  <1> QED
    BY <1>3, <1>4, <1>5, <1>8, Zenon

\* A third thread.
LEMMA HandedOthers ==
    ASSUME NEW c, NEW to, NEW par, NEW box, NEW wk, Handed(c, to, par, box, wk),
           NEW t \in exists \ {c, to}, state'[t] = state[t], pc'[t] = pc[t],
           partner'[t] = par[t], inbox' = box, current' # t
    PROVE  Phase(t)' /\ Delivered(t)'
  <1>1. Phase(t) /\ Delivered(t) /\ current # t
    BY Zenon DEF Handed, Coherent
  <1>2. partner'[t] = partner[t] /\ inbox'[t] = inbox[t]
    BY HandedFacts
  <1> QED
    BY <1>1, <1>2, PhaseKept, Zenon

\* No third thread polls for a receiver that waits for it.
LEMMA HandedMeets ==
    ASSUME NEW c, NEW to, NEW par, NEW box, NEW wk, Handed(c, to, par, box, wk),
           NEW s \in exists \ {c, to}, NEW d \in exists \ {c},
           state[s] = "POLLING", par[s] = d, state[d] = "WAITING", par[d] \in {s, Nil}
    PROVE  FALSE
  <1>1. NoMissedRendezvous /\ c \in Threads
    BY Zenon DEF Handed, Coherent, TypeOK
  <1>2. d # to
    <2>1. d = to => par[d] = c
      BY IdsAssumption DEF Handed, TypeOK
    <2> QED
      BY <1>1, <2>1, IdsAssumption, Zenon
  <1>3. par[s] = partner[s] /\ par[d] = partner[d]
    BY <1>2, HandedFacts
  <1> QED
    BY <1>1, <1>3, Zenon DEF NoMissedRendezvous

\* The caller returns to user mode, at once or after the thread sent to.
LEMMA CallerRuns ==
    ASSUME NEW c, NEW to, NEW par, NEW box, NEW wk, Handed(c, to, par, box, wk),
           state' = [state EXCEPT ![c] = "RUNNING"], pc' = [pc EXCEPT ![c] = User],
           partner' = par, inbox' = box, wakeup' = wk, sendq' = sendq,
           current' = IF to = Null THEN c ELSE to
    PROVE  Coherent'
  <1>1. /\ TypeOK /\ Live /\ Coherent /\ exists' = exists /\ exists \in SUBSET Threads
        /\ c \in exists /\ current = c /\ wk \subseteq wakeup \ {c} /\ Null \notin exists
    BY IdsAssumption, Zenon DEF Handed, TypeOK
  <1>2. /\ c \in Threads /\ c # Null /\ inbox[c] = Null /\ box[c] = Null
        /\ state[c] \in {"RUNNING", "LOCKED_RUNNING"} /\ pc[c].at \in {"user", "send"}
        /\ \A t \in Threads \ exists : box[t] = inbox[t]
        /\ \A t \in exists \ {c, to} : box[t] = inbox[t] /\ par[t] = partner[t]
    BY HandedFacts
  <1>3. to # Null => /\ to \in Threads /\ to \in exists \ {c} /\ pc[to] # User
                     /\ \/ state[to] = "WAITING" /\ pc[to].at = "recv"
                        \/ state[to] = "LOCKED_WAITING" /\ pc[to].at = "locked"
                     /\ box[to] = c /\ par[to] = c
    BY HandedFacts, Zenon
  <1>4. /\ state'[c] = "RUNNING" /\ pc'[c] = User
        /\ \A t \in exists \ {c} : state'[t] = state[t] /\ pc'[t] = pc[t]
    BY <1>1, Zenon DEF TypeOK
  <1>5. \A t \in exists : Phase(t)' /\ Delivered(t)'
    <2>1. Phase(c)' /\ Delivered(c)'
      BY <1>2, <1>4, PhaseOfUser, Zenon
    <2>2. to # Null => Phase(to)' /\ Delivered(to)'
      BY <1>2, <1>3, <1>4, Zenon DEF Phase, Delivered
    <2>3. \A t \in exists \ {c, to} : Phase(t)' /\ Delivered(t)'
      BY <1>4, HandedOthers, Zenon
    <2> QED
      BY <1>1, <2>1, <2>2, <2>3, Zenon
  <1>6. Pairs'
    <2>1. \A s \in exists : LockedSender(s)' <=> s # c /\ LockedSender(s)
      BY <1>4, UserAt, Zenon DEF LockedSender
    <2>2. \A r \in exists : state'[r] = "LOCKED_WAITING" /\ inbox'[r] = Null =>
             r \notin {c, to} /\ state[r] = "LOCKED_WAITING" /\ inbox[r] = Null
      BY <1>1, <1>2, <1>3, <1>4, Zenon
    <2>3. \A s \in exists : LockedSender(s)' =>
             /\ pc'[s].dest = pc[s].dest /\ state'[pc'[s].dest] = "LOCKED_WAITING"
             /\ inbox'[pc'[s].dest] = Null /\ ~NoReplyWait
      BY <1>2, <1>4, <2>1, HandedPairs
    <2>4. \A s, u \in exists :
             LockedSender(s)' /\ LockedSender(u)' /\ pc'[s].dest = pc'[u].dest => s = u
      BY <2>1, <2>3, HandedPairs
    <2>5. \A r \in exists : state'[r] = "LOCKED_WAITING" /\ inbox'[r] = Null =>
             \E s \in exists : LockedSender(s)' /\ pc'[s].dest = r
      <3>1. \A r \in exists \ {c, to} : state[r] = "LOCKED_WAITING" /\ inbox[r] = Null =>
                 \E s \in exists \ {c} : LockedSender(s) /\ pc[s].dest = r
        BY HandedPairs
      <3> QED
        BY <2>1, <2>2, <2>3, <3>1
    <2> QED
      BY <1>1, <2>3, <2>4, <2>5, Zenon DEF Pairs
  <1>7. SendRings'
    <2>1. \A t \in exists : /\ state'[t] = "POLLING" <=> state[t] = "POLLING"
                            /\ state[t] = "POLLING" => partner'[t] = partner[t]
      <3>1. \A t \in exists \ {c, to} : partner'[t] = partner[t] /\ state'[t] = state[t]
        BY <1>2, <1>4, Zenon
      <3>2. to \in exists => state[to] # "POLLING" /\ state'[to] # "POLLING"
        BY <1>1, <1>3, <1>4, Zenon
      <3> QED
        BY <1>2, <1>4, <3>1, <3>2, Zenon
    <2> QED
      BY <1>1, <2>1, RingsKept, Zenon DEF Coherent
  <1>8. NoMissedRendezvous'
    <2> SUFFICES ASSUME NEW s \in exists, NEW d \in exists,
                        state'[s] = "POLLING", partner'[s] = d, state'[d] = "WAITING",
                        partner'[d] \in {s, Nil}
                 PROVE  FALSE
      BY <1>1, Zenon DEF NoMissedRendezvous
    <2>1. s # c /\ d # c /\ s # to
      BY <1>1, <1>3, <1>4, Zenon
    <2> QED
      BY <1>4, <2>1, HandedMeets
  <1>9. /\ \A t \in Threads \ exists : inbox'[t] = Null
        /\ NoReceiveTimeout => wakeup' = {}
    BY <1>1, <1>2, Zenon DEF Coherent
  <1>10. \A t \in wakeup' : pc'[t].at = "recv"
    BY <1>1, Zenon DEF Coherent, TypeOK
  <1> QED
    BY <1>1, <1>5, <1>6, <1>7, <1>8, <1>9, <1>10, Zenon DEF Coherent

\* Blocking in a receive from p that none of the pollers of c can satisfy.
Unmet(c, p) == \A s \in exists : state[s] = "POLLING" /\ partner[s] = c => p \notin {s, Nil}
Blocks(c, to, p, par, box, wk) ==
    /\ state' = [state EXCEPT ![c] = "WAITING"] /\ pc' = [pc EXCEPT ![c] = [at |-> "recv"]]
    /\ partner' = [par EXCEPT ![c] = p] /\ inbox' = box /\ sendq' = sendq
    /\ wakeup' = wk \/ (wakeup' = wk \cup {c} /\ ~NoReceiveTimeout)
    /\ current' = IF to = Null THEN Idle ELSE to

\* The caller blocks.
LEMMA CallerBlocks ==
    ASSUME NEW c, NEW to, NEW par, NEW box, NEW wk, Handed(c, to, par, box, wk), NEW p,
           Unmet(c, p), Blocks(c, to, p, par, box, wk)
    PROVE  Coherent'
  <1>1. /\ TypeOK /\ Live /\ Coherent /\ exists' = exists /\ exists \in SUBSET Threads
        /\ c \in exists /\ current = c /\ wk \subseteq wakeup \ {c} /\ Null \notin exists
    BY IdsAssumption, Zenon DEF Handed, TypeOK
  <1>2. /\ c \in Threads /\ c # Null /\ inbox[c] = Null /\ box[c] = Null
        /\ state[c] \in {"RUNNING", "LOCKED_RUNNING"} /\ pc[c].at \in {"user", "send"}
        /\ \A t \in Threads \ exists : box[t] = inbox[t]
        /\ \A t \in exists \ {c, to} : box[t] = inbox[t] /\ par[t] = partner[t]
    BY HandedFacts
  <1>3. to # Null => /\ to \in Threads /\ to \in exists \ {c} /\ pc[to] # User
                     /\ \/ state[to] = "WAITING" /\ pc[to].at = "recv"
                        \/ state[to] = "LOCKED_WAITING" /\ pc[to].at = "locked"
                     /\ box[to] = c /\ par[to] = c
    BY HandedFacts, Zenon
  <1>4. /\ state'[c] = "WAITING" /\ pc'[c] = [at |-> "recv"] /\ partner'[c] = p
        /\ \A t \in exists \ {c} : state'[t] = state[t] /\ pc'[t] = pc[t] /\ partner'[t] = par[t]
        /\ inbox' = box /\ sendq' = sendq /\ (current' = IF to = Null THEN Idle ELSE to)
        /\ Idle \notin exists
    BY <1>1, IdsAssumption, Zenon DEF Blocks, Handed, TypeOK
  <1>5. \A t \in exists : Phase(t)' /\ Delivered(t)'
    <2>1. Phase(c)' /\ Delivered(c)'
      <3>1. pc'[c].at = "recv" /\ pc'[c] # User /\ inbox'[c] = Null /\ current' # c
        BY <1>1, <1>2, <1>3, <1>4 DEF User
      <3> QED
        BY <1>4, <3>1, Zenon DEF Phase, Delivered
    <2>2. to # Null => Phase(to)' /\ Delivered(to)'
      BY <1>2, <1>3, <1>4, Zenon DEF Phase, Delivered
    <2>3. \A t \in exists \ {c, to} : Phase(t)' /\ Delivered(t)'
      BY <1>4, HandedOthers, Zenon
    <2> QED
      BY <1>1, <2>1, <2>2, <2>3, Zenon
  <1>6. Pairs'
    <2>1. \A s \in exists : LockedSender(s)' <=> s # c /\ LockedSender(s)
      BY <1>4, Zenon DEF LockedSender
    <2>2. \A r \in exists : state'[r] = "LOCKED_WAITING" /\ inbox'[r] = Null =>
             r \notin {c, to} /\ state[r] = "LOCKED_WAITING" /\ inbox[r] = Null
      BY <1>1, <1>2, <1>3, <1>4, Zenon
    <2>3. \A s \in exists : LockedSender(s)' =>
             /\ pc'[s].dest = pc[s].dest /\ state'[pc'[s].dest] = "LOCKED_WAITING"
             /\ inbox'[pc'[s].dest] = Null /\ ~NoReplyWait
      BY <1>2, <1>4, <2>1, HandedPairs
    <2>4. \A s, u \in exists :
             LockedSender(s)' /\ LockedSender(u)' /\ pc'[s].dest = pc'[u].dest => s = u
      BY <2>1, <2>3, HandedPairs
    <2>5. \A r \in exists : state'[r] = "LOCKED_WAITING" /\ inbox'[r] = Null =>
             \E s \in exists : LockedSender(s)' /\ pc'[s].dest = r
      <3>1. \A r \in exists \ {c, to} : state[r] = "LOCKED_WAITING" /\ inbox[r] = Null =>
                 \E s \in exists \ {c} : LockedSender(s) /\ pc[s].dest = r
        BY HandedPairs
      <3> QED
        BY <2>1, <2>2, <2>3, <3>1
    <2> QED
      BY <1>1, <2>3, <2>4, <2>5, Zenon DEF Pairs
  <1>7. SendRings'
    <2>1. \A t \in exists : /\ state'[t] = "POLLING" <=> state[t] = "POLLING"
                            /\ state[t] = "POLLING" => partner'[t] = partner[t]
      <3>1. \A t \in exists \ {c, to} : partner'[t] = partner[t] /\ state'[t] = state[t]
        BY <1>2, <1>4, Zenon
      <3>2. to \in exists => state[to] # "POLLING" /\ state'[to] # "POLLING"
        BY <1>1, <1>3, <1>4, Zenon
      <3> QED
        BY <1>2, <1>4, <3>1, <3>2, Zenon
    <2> QED
      BY <1>1, <1>4, <2>1, RingsKept, Zenon DEF Coherent
  <1>8. NoMissedRendezvous'
    <2> SUFFICES ASSUME NEW s \in exists, NEW d \in exists,
                        state'[s] = "POLLING", partner'[s] = d, state'[d] = "WAITING",
                        partner'[d] \in {s, Nil}
                 PROVE  FALSE
      BY <1>1, Zenon DEF NoMissedRendezvous
    <2>1. s # c /\ s # to
      BY <1>1, <1>3, <1>4, Zenon
    <2>2. d # c
      <3>1. state[s] = "POLLING" /\ partner[s] = d /\ (d = c => p \in {s, Nil})
        BY <1>2, <1>4, <2>1, Zenon
      <3> QED
        BY <3>1, Zenon DEF Unmet
    <2> QED
      BY <1>4, <2>1, <2>2, HandedMeets
  <1>9. /\ \A t \in Threads \ exists : inbox'[t] = Null
        /\ NoReceiveTimeout => wakeup' = {}
    BY <1>1, <1>2, Zenon DEF Coherent, Blocks
  <1>10. \A t \in wakeup' : pc'[t].at = "recv"
    <2>1. \A t \in wk : pc'[t].at = "recv"
      BY <1>1, Zenon DEF Coherent, TypeOK, Blocks
    <2> QED
      BY <1>4, <2>1 DEF Blocks
  <1> QED
    BY <1>1, <1>5, <1>6, <1>7, <1>8, <1>9, <1>10, Zenon DEF Coherent

\* The caller locks a polling sender.
LEMMA CallerLocks ==
    ASSUME NEW c, NEW to, NEW par, NEW box, NEW wk, Handed(c, to, par, box, wk),
           NoReplyWait => to = Null,
           NEW from \in exists, state[from] = "POLLING", par[from] = c,
           ReceivePolling(c, to, from, par, box, wk)
    PROVE  Coherent'
  <1>1. /\ TypeOK /\ Live /\ Coherent /\ exists' = exists /\ exists \in SUBSET Threads
        /\ c \in exists /\ current = c /\ wk \subseteq wakeup \ {c} /\ Null \notin exists
    BY IdsAssumption, Zenon DEF Handed, TypeOK
  <1>2. /\ c \in Threads /\ c # Null /\ inbox[c] = Null /\ box[c] = Null
        /\ state[c] \in {"RUNNING", "LOCKED_RUNNING"} /\ pc[c].at \in {"user", "send"}
        /\ \A t \in Threads \ exists : box[t] = inbox[t]
        /\ \A t \in exists \ {c, to} : box[t] = inbox[t] /\ par[t] = partner[t]
    BY HandedFacts
  <1>3. to # Null => /\ to \in Threads /\ to \in exists \ {c} /\ pc[to] # User
                     /\ \/ state[to] = "WAITING" /\ pc[to].at = "recv"
                        \/ state[to] = "LOCKED_WAITING" /\ pc[to].at = "locked"
                     /\ box[to] = c /\ par[to] = c
    BY HandedFacts
  <1>4. /\ state'[c] = "LOCKED_WAITING" /\ state'[from] = "LOCKED_RUNNING"
        /\ pc'[c] = [at |-> "locked"] /\ partner' = par /\ inbox' = box
        /\ \A t \in exists \ {c} : pc'[t] = pc[t]
        /\ \A t \in exists \ {c, from} : state'[t] = state[t]
        /\ current' = IF to # Null THEN to ELSE from
        /\ wakeup' = wk \ {from} /\ sendq' = ThreadDequeueSend(sendq, c, from)
    BY <1>1, <1>2 DEF ReceivePolling, TypeOK
  <1>5. /\ from # c /\ from # to /\ partner[from] = c /\ pc[from].at = "send"
        /\ pc[from].dest = c /\ Phase(from) /\ inbox[from] = Null /\ from # Null
        /\ box[from] = Null /\ pc[from] # User
    <2>1. from # c /\ from # to /\ from # Null
      BY <1>1, <1>2, <1>3, Zenon
    <2>2. pc[from].at = "send" /\ Phase(from)
      BY <1>1, StateTellsPc, Zenon DEF Coherent
    <2>3. partner[from] = c /\ box[from] = inbox[from]
      BY <1>2, <2>1, Zenon
    <2>4. pc[from].dest = c /\ inbox[from] = Null
      BY <2>2, <2>3, Zenon DEF Phase
    <2> QED
      BY <2>1, <2>2, <2>3, <2>4, UserAt, Zenon
  <1>6. \A t \in exists : Phase(t)' /\ Delivered(t)'
    <2>1. Phase(c)' /\ Delivered(c)'
      <3>1. pc'[c].at = "locked" /\ pc'[c] # User /\ inbox'[c] = Null /\ current' # c
        BY <1>1, <1>2, <1>3, <1>4, <1>5 DEF User
      <3> QED
        BY <1>4, <3>1, Zenon DEF Phase, Delivered
    <2>2. to # Null => Phase(to)' /\ Delivered(to)'
      <3>1. to # Null => /\ state'[to] = state[to] /\ pc'[to] = pc[to] /\ inbox'[to] = c
                         /\ current' = to
        BY <1>3, <1>4, <1>5, Zenon
      <3> QED
        BY <1>2, <1>3, <3>1, Zenon DEF Phase, Delivered
    <2>3. Phase(from)' /\ Delivered(from)'
      <3>1. /\ pc'[from] = pc[from] /\ inbox'[from] = Null /\ partner'[from] = c
            /\ state'[from] = "LOCKED_RUNNING"
        BY <1>4, <1>5, Zenon
      <3> QED
        BY <1>5, <3>1, Zenon DEF Phase, Delivered
    <2>4. \A t \in exists \ {c, to, from} : Phase(t)' /\ Delivered(t)'
      BY <1>4, HandedOthers
    <2> QED
      BY <1>1, <2>1, <2>2, <2>3, <2>4, Zenon
  <1>8. Pairs'
    <2>1. \A s \in exists : LockedSender(s)' <=> (s = from \/ (s # c /\ LockedSender(s)))
      BY <1>4, <1>5, Zenon DEF LockedSender
    <2>2. \A r \in exists \ {c} : state'[r] = "LOCKED_WAITING" /\ inbox'[r] = Null =>
             r # to /\ state[r] = "LOCKED_WAITING" /\ inbox[r] = Null
      <3>1. \A r \in exists \ {c} : state'[r] = "LOCKED_WAITING" => state[r] = "LOCKED_WAITING"
        BY <1>4, Zenon
      <3>2. to # Null => inbox'[to] # Null
        BY <1>2, <1>3, <1>4, Zenon
      <3> QED
        BY <1>1, <1>2, <1>4, <3>1, <3>2, ZenonT(30)
    <2>3. \A s \in exists \ {from} : LockedSender(s)' =>
             /\ s # c /\ LockedSender(s) /\ pc'[s].dest = pc[s].dest /\ pc[s].dest # c
             /\ state'[pc'[s].dest] = "LOCKED_WAITING" /\ inbox'[pc'[s].dest] = Null
             /\ ~NoReplyWait
      <3> SUFFICES ASSUME NEW s \in exists \ {from}, LockedSender(s)'
                   PROVE  /\ s # c /\ LockedSender(s) /\ pc'[s].dest = pc[s].dest
                          /\ pc[s].dest # c /\ state'[pc'[s].dest] = "LOCKED_WAITING"
                          /\ inbox'[pc'[s].dest] = Null /\ ~NoReplyWait
        BY Zenon
      <3>1. s # c /\ LockedSender(s)
        BY <2>1, Zenon
      <3>2. PICK r : r = pc[s].dest
        BY Zenon
      <3>3. /\ r \in exists \ {c, to} /\ state[r] = "LOCKED_WAITING" /\ inbox[r] = Null
            /\ ~NoReplyWait
        BY <3>1, <3>2, HandedPairs
      <3>4. state'[r] = "LOCKED_WAITING" /\ inbox'[r] = Null /\ pc'[s] = pc[s]
        BY <1>2, <1>4, <3>1, <3>3, Zenon
      <3> QED
        BY <3>1, <3>2, <3>3, <3>4, Zenon
    <2>4. /\ state'[pc'[from].dest] = "LOCKED_WAITING" /\ inbox'[pc'[from].dest] = Null
          /\ pc'[from].dest = c /\ (NoReplyWait => current' = from)
      <3>1. pc'[from].dest = c /\ (NoReplyWait => current' = from)
        BY <1>4, <1>5, Zenon
      <3> QED
        BY <1>2, <1>4, <3>1, Zenon
    <2>5. \A s \in exists : LockedSender(s)' =>
             /\ state'[pc'[s].dest] = "LOCKED_WAITING" /\ inbox'[pc'[s].dest] = Null
             /\ NoReplyWait => current' = s
      BY <2>3, <2>4, Zenon
    <2>6. \A s, u \in exists :
             LockedSender(s)' /\ LockedSender(u)' /\ pc'[s].dest = pc'[u].dest => s = u
      <3>1. \A s, u \in exists \ {c} :
               LockedSender(s) /\ LockedSender(u) /\ pc[s].dest = pc[u].dest => s = u
        BY HandedPairs, ZenonT(30)
      <3> QED
        BY <2>3, <2>4, <3>1
    <2>7. \A r \in exists : state'[r] = "LOCKED_WAITING" /\ inbox'[r] = Null =>
             \E s \in exists : LockedSender(s)' /\ pc'[s].dest = r
      <3>1. \A r \in exists \ {c, to} : state[r] = "LOCKED_WAITING" /\ inbox[r] = Null =>
                 \E s \in exists \ {c} : LockedSender(s) /\ pc[s].dest = r
        BY HandedPairs
      <3>2. \A s \in exists \ {c} : LockedSender(s) => LockedSender(s)' /\ pc'[s].dest = pc[s].dest
        BY <1>4, <2>1, Zenon
      <3>3. LockedSender(from)'
        BY <2>1, Zenon
      <3> QED
        BY <2>2, <2>4, <3>1, <3>2, <3>3
    <2> QED
      BY <1>1, <2>5, <2>6, <2>7, Zenon DEF Pairs
  <1>9. SendRings'
    <2>1. \A t \in exists \ {from} : /\ state'[t] = "POLLING" <=> state[t] = "POLLING"
                                     /\ state[t] = "POLLING" => partner'[t] = partner[t]
      <3>1. \A t \in exists \ {c, to, from} : partner'[t] = partner[t] /\ state'[t] = state[t]
        BY <1>2, <1>4, Zenon
      <3>2. to \in exists => state[to] # "POLLING" /\ state'[to] # "POLLING"
        BY <1>1, <1>3, <1>4, <1>5, Zenon
      <3> QED
        BY <1>2, <1>4, <3>1, <3>2, Zenon
    <2>2. state'[from] # "POLLING"
      BY <1>4, Zenon
    <2> QED
      BY <1>1, <1>4, <1>5, <2>1, <2>2, RingsDequeue, Zenon DEF Coherent
  <1>10. NoMissedRendezvous'
    <2> SUFFICES ASSUME NEW s \in exists, NEW d \in exists,
                        state'[s] = "POLLING", partner'[s] = d, state'[d] = "WAITING",
                        partner'[d] \in {s, Nil}
                 PROVE  FALSE
      BY <1>1, Zenon DEF NoMissedRendezvous
    <2>1. s \notin {c, from} /\ d \notin {c, from}
      BY <1>4, <1>5, Zenon
    <2>2. s # to
      BY <1>1, <1>3, <1>4, <2>1, Zenon
    <2> QED
      BY <1>4, <2>1, <2>2, HandedMeets
  <1>11. /\ \A t \in Threads \ exists : inbox'[t] = Null
         /\ NoReceiveTimeout => wakeup' = {}
    BY <1>1, <1>2, <1>4, Zenon DEF Coherent
  <1>12. \A t \in wakeup' : pc'[t].at = "recv"
    <2>1. \A t \in wakeup : t \in exists
      BY Zenon DEF Handed, Live, TypeOK
    <2> QED
      BY <1>1, <1>4, <2>1 DEF Coherent
  <1> QED
    BY <1>1, <1>6, <1>8, <1>9, <1>10, <1>11, <1>12, Zenon DEF Coherent

\* The receive phase.
LEMMA ReceivePhaseCoherent ==
    ASSUME NEW c, NEW to, NEW par, NEW box, NEW wk, Handed(c, to, par, box, wk),
           NEW dest \in Threads \cup Irqs \cup {Nil}, NEW rcv \in {"from", "open"}, NEW rto,
           NoReceiveTimeout => rto # "finite",
           to # Null => dest = to /\ rto # "zero" /\ (NoReplyWait => rcv = "from"),
           ReceivePhase(c, to, dest, rcv, rto, par, box, wk)
    PROVE  Coherent' /\ inbox' = box
  <1> DEFINE served == intrPending[c] # Null /\ intrPending[c].inService
             pend   == IF served THEN Null ELSE intrPending[c]
             mask   == IF served THEN [masked EXCEPT ![intrPending[c].irq] = FALSE]
                                 ELSE masked
             from   == IF rcv = "from" THEN dest ELSE sendq.head[c]
             polls  == from # Null /\ state[from] = "POLLING" /\ par[from] = c
  <1>0. /\ TypeOK /\ Live /\ Coherent /\ exists \in SUBSET Threads /\ Null \notin exists
        /\ c \in exists
    BY IdsAssumption, Zenon DEF Handed, TypeOK
  <1>1. \/ /\ rcv = "from" /\ dest \notin Threads
           /\ IpcHandleKernelId(c, dest, rto, par, box, wk, pend, mask)
        \/ /\ (rcv = "from" /\ dest \notin exists) \/ rto = "zero"
           /\ ReturnIpc(c, par, box, wk, pend, mask)
        \/ ReceiveInterrupt(c, to, par, box, wk, pend, mask)
        \/ /\ rcv = "from" => dest \in exists
           /\ ~polls
           /\ ReceiveBlock(c, to, dest, rcv, rto, par, box, wk)
        \/ /\ rcv = "from" => dest \in exists
           /\ polls
           /\ ReceivePolling(c, to, from, par, box, wk)
    BY Zenon DEF ReceivePhase
  <1>2. /\ \A s \in exists : state[s] = "POLLING" /\ partner[s] = c => par[s] = c
        /\ to # Null => state[to] # "POLLING" /\ to \in exists
    <2>1. state[c] # "POLLING" /\ (to # Null => state[to] # "POLLING" /\ to \in exists)
      BY HandedFacts
    <2>2. \A s \in exists \ {c, to} : par[s] = partner[s]
      BY HandedFacts
    <2> QED
      BY <1>0, <2>1, <2>2, Zenon
  <1>3. pc[c] = User /\ to = Null =>
           state = [state EXCEPT ![c] = "RUNNING"] /\ state[c] = "RUNNING"
    <2>1. pc[c] = User => state[c] = "RUNNING"
      BY HandedFacts, Zenon
    <2> QED
      BY <1>0, <2>1, Zenon DEF TypeOK
  <1>4. to = Null => pc[c] = User
    BY <1>0, Zenon DEF Handed
  <1>5. \A pe, m : to = Null /\ ReturnIpc(c, par, box, wk, pe, m) => Coherent' /\ inbox' = box
    <2> SUFFICES ASSUME NEW pe, NEW m, to = Null, ReturnIpc(c, par, box, wk, pe, m)
                 PROVE  Coherent' /\ inbox' = box
      BY Zenon
    <2>1. /\ state' = [state EXCEPT ![c] = "RUNNING"] /\ pc' = [pc EXCEPT ![c] = User]
          /\ partner' = par /\ inbox' = box /\ wakeup' = wk /\ sendq' = sendq
          /\ current' = IF to = Null THEN c ELSE to
      BY <1>3, <1>4, Zenon DEF ReturnIpc, Handed
    <2> QED
      BY <2>1, CallerRuns, Zenon
  <1> HIDE DEF pend, mask, served
  <1>6. CASE /\ rcv = "from" /\ dest \notin Threads
             /\ IpcHandleKernelId(c, dest, rto, par, box, wk, pend, mask)
    <2>0. to = Null
      BY <1>0, <1>2, <1>6, Zenon
    <2>1. CASE \E pe : ReturnIpc(c, par, box, wk, pe, mask)
      BY <1>5, <2>0, <2>1, Zenon
    <2>2. CASE /\ pc' = [pc EXCEPT ![c] = User]
               /\ partner' = par /\ inbox' = box /\ wakeup' = wk
               /\ UNCHANGED <<state, ready, sendq, current>>
      <3>1. /\ state' = [state EXCEPT ![c] = "RUNNING"] /\ pc' = [pc EXCEPT ![c] = User]
            /\ partner' = par /\ inbox' = box /\ wakeup' = wk /\ sendq' = sendq
            /\ current' = IF to = Null THEN c ELSE to
        BY <1>3, <1>4, <2>0, <2>2, Zenon DEF Handed
      <3> QED
        BY <3>1, CallerRuns, Zenon
    <2>3. CASE /\ wakeup' = IF rto = "finite" THEN wk \cup {c} ELSE wk
               /\ partner' = [par EXCEPT ![c] = IF dest = Nil THEN Invalid ELSE dest]
               /\ state' = [state EXCEPT ![c] = "WAITING"]
               /\ pc' = [pc EXCEPT ![c] = [at |-> "recv"]]
               /\ inbox' = box
               /\ current' = Idle
               /\ UNCHANGED <<ready, sendq, interruptOwner>>
      <3> DEFINE p == IF dest = Nil THEN Invalid ELSE dest
      <3>1. Unmet(c, p)
        BY <1>0, <1>6, IdsAssumption, Zenon DEF Unmet
      <3>2. Blocks(c, to, p, par, box, wk) /\ inbox' = box
        BY <2>0, <2>3, Zenon DEF Blocks
      <3> HIDE DEF p
      <3> QED
        BY <3>1, <3>2, CallerBlocks, Zenon
    <2> QED
      BY <1>6, <2>1, <2>2, <2>3, Zenon DEF IpcHandleKernelId
  <1>7. CASE /\ (rcv = "from" /\ dest \notin exists) \/ rto = "zero"
             /\ ReturnIpc(c, par, box, wk, pend, mask)
    <2>1. to = Null
      BY <1>2, <1>7, Zenon
    <2> QED
      BY <1>5, <1>7, <2>1, Zenon
  <1>8. CASE ReceiveInterrupt(c, to, par, box, wk, pend, mask)
    <2>1. CASE to = Null
      BY <1>5, <1>8, <2>1, Zenon DEF ReceiveInterrupt
    <2>2. CASE to # Null
      <3>1. /\ state' = [state EXCEPT ![c] = "RUNNING"] /\ pc' = [pc EXCEPT ![c] = User]
            /\ partner' = par /\ inbox' = box /\ wakeup' = wk /\ sendq' = sendq
            /\ current' = IF to = Null THEN c ELSE to
        BY <1>8, <2>2, Zenon DEF ReceiveInterrupt
      <3> QED
        BY <3>1, CallerRuns, Zenon
    <2> QED
      BY <2>1, <2>2, Zenon
  <1>9. CASE /\ rcv = "from" => dest \in exists
             /\ ~polls
             /\ ReceiveBlock(c, to, dest, rcv, rto, par, box, wk)
    <2> DEFINE p == IF rcv = "open" THEN Nil ELSE dest
    <2>1. Unmet(c, p)
      <3> SUFFICES ASSUME NEW s \in exists, state[s] = "POLLING", partner[s] = c
                   PROVE  p \notin {s, Nil}
        BY Zenon DEF Unmet
      <3>1. CASE rcv = "from"
        BY <1>0, <1>2, <1>9, <3>1, IdsAssumption, SMTT(30)
      <3>2. CASE rcv = "open"
        <4>1. s \in Pollers(c)
          BY Zenon DEF Pollers
        <4>2. sendq.head[c] \in Pollers(c)
          BY <1>0, <4>1, Zenon DEF Coherent, SendRings
        <4>3. /\ sendq.head[c] \in exists /\ state[sendq.head[c]] = "POLLING"
              /\ partner[sendq.head[c]] = c
          BY <4>2, Zenon DEF Pollers
        <4> QED
          BY <1>0, <1>2, <1>9, <3>2, <4>3, Zenon
      <3> QED
        BY <3>1, <3>2, Zenon
    <2>2. Blocks(c, to, p, par, box, wk) /\ inbox' = box
      BY <1>9, Zenon DEF ReceiveBlock, Blocks
    <2> HIDE DEF p
    <2> QED
      BY <2>1, <2>2, CallerBlocks, Zenon
  <1>10. CASE /\ rcv = "from" => dest \in exists
              /\ polls
              /\ ReceivePolling(c, to, from, par, box, wk)
    <2>1. from \in exists /\ state[from] = "POLLING" /\ par[from] = c
      <3>1. from \in Threads
        BY <1>0, <1>10, Zenon DEF TypeOK
      <3> QED
        BY <1>0, <1>10, <3>1, Zenon DEF Live
    <2>2. NoReplyWait => to = Null
      BY <1>2, <1>10, Zenon
    <2>3. inbox' = box
      BY <1>10, Zenon DEF ReceivePolling
    <2> HIDE DEF from
    <2> QED
      BY <1>10, <2>1, <2>2, <2>3, CallerLocks, Zenon
  <1> QED
    BY <1>1, <1>6, <1>7, <1>8, <1>9, <1>10, Zenon

\* What follows the transfer of a message: c was asked to send to to.
LEMMA AfterTransferCoherent ==
    ASSUME NEW c, NEW to, NEW par, NEW wk,
           Handed(c, to, [par EXCEPT ![to] = c], [inbox EXCEPT ![to] = c], wk), to # Null,
           NEW rcv, NEW rto, \E k \in Calls : k.snd /\ k.rcv = rcv /\ k.rto = rto, NoZeroReply,
           AfterTransfer(c, to, rcv, rto, par, wk)
    PROVE  Coherent' /\ inbox' = [inbox EXCEPT ![to] = c]
  <1> DEFINE par2 == [par EXCEPT ![to] = c]
             box2 == [inbox EXCEPT ![to] = c]
  <1>1. /\ rcv \in {"none", "from", "open"} /\ (rcv # "none" => rto # "zero")
        /\ NoReceiveTimeout => rto # "finite"
        /\ NoReplyWait => rcv # "open"
    BY ClientAssumption, Zenon DEF CallType, NoZeroReply, NoReceiveTimeout, NoReplyWait
  <1>2. Handed(c, to, par2, box2, wk) /\ to \in Threads
    BY Zenon DEF Handed, TypeOK
  <1>3. CASE rcv = "none"
    <2>1. /\ state' = [state EXCEPT ![c] = "RUNNING"] /\ pc' = [pc EXCEPT ![c] = User]
          /\ partner' = par2 /\ inbox' = box2 /\ wakeup' = wk /\ sendq' = sendq
          /\ current' = IF to = Null THEN c ELSE to
      BY <1>3, Zenon DEF AfterTransfer
    <2> HIDE DEF par2
    <2>2. Coherent'
      <3> HIDE DEF box2
      <3> QED
        BY <1>2, <2>1, CallerRuns, Zenon
    <2> QED
      BY <2>1, <2>2, Zenon
  <1>4. CASE rcv # "none"
    <2>1. ReceivePhase(c, to, to, rcv, rto, par2, box2, wk)
      BY <1>4, Zenon DEF AfterTransfer
    <2>2. /\ to \in Threads \cup Irqs \cup {Nil} /\ rcv \in {"from", "open"}
          /\ to # Null => to = to /\ rto # "zero" /\ (NoReplyWait => rcv = "from")
      BY <1>1, <1>2, <1>4, Zenon
    <2>3. Coherent' /\ inbox' = box2
      <3> HIDE DEF par2, box2
      <3> QED
        BY <1>1, <1>2, <2>1, <2>2, ReceivePhaseCoherent, Zenon
    <2> QED
      BY <2>3, Zenon
  <1> QED
    BY <1>3, <1>4, Zenon

----------------------------------------------------------------------------
(* Every action.                                                           *)

\* A step of TransferToReceiver.
Transfers ==
    \A t \in Threads : inbox'[t] \notin {Null, inbox[t]} =>
       /\ inbox[t] = Null
       /\ \/ state[t] = "LOCKED_WAITING"
          \/ state[t] = "WAITING" /\ partner[t] \in {Nil, inbox'[t]}

\* The ipc system call.
LEMMA SysIpcCoherent ==
    ASSUME Clients, TypeOK, Live, Coherent, NEW c \in Threads,
           NEW dest \in Threads \cup Irqs \cup {Nil}, NEW k \in Calls, SysIpc(c, dest, k)
    PROVE  Coherent' /\ Transfers
  <1> DEFINE par == [partner EXCEPT ![c] = dest]
  <1>1. /\ k.snd \in BOOLEAN /\ (~k.snd => k.rcv \in {"from", "open"})
        /\ k.snd => k.sto # "finite"
        /\ NoReceiveTimeout => k.rto # "finite"
        /\ NoZeroReply
    BY ClientAssumption, Zenon DEF CallType, Clients, NoReceiveTimeout
  <1>2. /\ c \in exists /\ current = c /\ pc[c] = User /\ state[c] = "RUNNING"
        /\ inbox[c] = Null /\ c \notin wakeup /\ UNCHANGED exists
        /\ exists \in SUBSET Threads /\ Null \notin exists
    BY IdsAssumption DEF SysIpc, InUser, Live, Coherent, Phase, User, TypeOK
  <1>3. Handed(c, Null, partner, inbox, wakeup)
    BY <1>2, Zenon DEF Handed, TypeOK, Partners
  <1>4. Handed(c, Null, par, inbox, wakeup)
    BY <1>2, <1>3, Zenon DEF Handed, Partners
  <1>5. \/ /\ ~k.snd
           /\ ReceivePhase(c, Null, dest, k.rcv, k.rto, partner, inbox, wakeup)
        \/ ReturnIpc(c, partner, inbox, wakeup, intrPending[c], masked)
        \/ /\ k.snd /\ dest \in exists /\ state[dest] = "WAITING" /\ partner[dest] \in {c, Nil}
           /\ AfterTransfer(c, dest, k.rcv, k.rto, par, wakeup)
        \/ ReturnIpc(c, par, inbox, wakeup, intrPending[c], masked)
        \/ /\ k.snd /\ dest \in exists \ {c}
           /\ ~(state[dest] = "WAITING" /\ partner[dest] \in {c, Nil})
           /\ partner' = par
           /\ wakeup' = IF k.sto = "finite" THEN wakeup \cup {c} ELSE wakeup
           /\ sendq' = ThreadEnqueueSend(sendq, dest, c)
           /\ state' = [state EXCEPT ![c] = "POLLING"]
           /\ pc' = [pc EXCEPT ![c] = [at |-> "send", dest |-> dest,
                                       rcv |-> k.rcv, rto |-> k.rto]]
           /\ current' = Idle
           /\ UNCHANGED <<ready, inbox, irqVars>>
    BY Zenon DEF SysIpc
  <1>6. \A pa : Handed(c, Null, pa, inbox, wakeup)
                  /\ ReturnIpc(c, pa, inbox, wakeup, intrPending[c], masked)
                => Coherent' /\ Transfers
    <2> SUFFICES ASSUME NEW pa, Handed(c, Null, pa, inbox, wakeup),
                        ReturnIpc(c, pa, inbox, wakeup, intrPending[c], masked)
                 PROVE  Coherent' /\ Transfers
      BY Zenon
    <2>1. /\ state' = [state EXCEPT ![c] = "RUNNING"] /\ pc' = [pc EXCEPT ![c] = User]
          /\ partner' = pa /\ inbox' = inbox /\ wakeup' = wakeup /\ sendq' = sendq
          /\ current' = IF Null = Null THEN c ELSE Null
      BY <1>2 DEF ReturnIpc, TypeOK
    <2>2. Coherent'
      BY <2>1, CallerRuns, Zenon
    <2> QED
      BY <2>1, <2>2, Zenon DEF Transfers
  <1> HIDE DEF par
  <1>7. CASE /\ ~k.snd
             /\ ReceivePhase(c, Null, dest, k.rcv, k.rto, partner, inbox, wakeup)
    <2>1. k.rcv \in {"from", "open"}
      BY <1>1, <1>7, Zenon
    <2>2. Coherent' /\ inbox' = inbox
      BY <1>1, <1>3, <1>7, <2>1, ReceivePhaseCoherent, Zenon
    <2> QED
      BY <2>2, Zenon DEF Transfers
  <1>8. CASE \/ ReturnIpc(c, partner, inbox, wakeup, intrPending[c], masked)
             \/ ReturnIpc(c, par, inbox, wakeup, intrPending[c], masked)
    BY <1>3, <1>4, <1>6, <1>8, Zenon
  <1>9. CASE /\ k.snd /\ dest \in exists /\ state[dest] = "WAITING" /\ partner[dest] \in {c, Nil}
             /\ AfterTransfer(c, dest, k.rcv, k.rto, par, wakeup)
    <2>1. /\ dest # Null /\ dest # c /\ dest \in Threads /\ inbox[dest] = Null
      BY <1>2, <1>9, Zenon DEF Coherent, Delivered
    <2>2. Handed(c, dest, [par EXCEPT ![dest] = c], [inbox EXCEPT ![dest] = c], wakeup)
      <3>1. par \in [Threads -> Partners] /\ \A t \in Threads \ {c} : par[t] = partner[t]
        BY <1>4, <2>1, IdsAssumption DEF Handed, par, TypeOK
      <3>2. PICK pa : pa = [par EXCEPT ![dest] = c]
        BY Zenon
      <3>3. /\ pa \in [Threads -> Partners] /\ pa[dest] = c
            /\ \A t \in Threads \ {c, dest} : pa[t] = partner[t]
        BY <2>1, <3>1, <3>2, Zenon DEF Partners
      <3>4. Handed(c, dest, pa, [inbox EXCEPT ![dest] = c], wakeup)
        BY <1>2, <1>9, <2>1, <3>3, Zenon DEF Handed
      <3> QED
        BY <3>2, <3>4, Zenon
    <2>3. \E kk \in Calls : kk.snd /\ kk.rcv = k.rcv /\ kk.rto = k.rto
      BY <1>9, Zenon
    <2>4. Coherent' /\ inbox' = [inbox EXCEPT ![dest] = c]
      BY <1>1, <1>9, <2>1, <2>2, <2>3, AfterTransferCoherent
    <2> QED
      BY <1>9, <2>1, <2>4, Zenon DEF Transfers, TypeOK
  <1>10. CASE /\ k.snd /\ dest \in exists \ {c}
              /\ ~(state[dest] = "WAITING" /\ partner[dest] \in {c, Nil})
              /\ partner' = par
              /\ wakeup' = IF k.sto = "finite" THEN wakeup \cup {c} ELSE wakeup
              /\ sendq' = ThreadEnqueueSend(sendq, dest, c)
              /\ state' = [state EXCEPT ![c] = "POLLING"]
              /\ pc' = [pc EXCEPT ![c] = [at |-> "send", dest |-> dest,
                                          rcv |-> k.rcv, rto |-> k.rto]]
              /\ current' = Idle
              /\ UNCHANGED <<ready, inbox, irqVars>>
    <2>1. /\ state'[c] = "POLLING" /\ partner'[c] = dest /\ pc'[c] # User
          /\ pc'[c].at = "send" /\ pc'[c].dest = dest /\ pc'[c].rcv = k.rcv /\ pc'[c].rto = k.rto
          /\ wakeup' = wakeup /\ inbox' = inbox /\ current' = Idle
          /\ \A t \in exists \ {c} : /\ state'[t] = state[t] /\ pc'[t] = pc[t]
                                     /\ partner'[t] = partner[t]
      BY <1>1, <1>2, <1>10, SMTT(30) DEF TypeOK, par, User
    <2>2. /\ \A t \in exists : Phase(t)'
          /\ \A t \in exists \ {c} : Delivered(t)'
      <3>1. Phase(c)'
        <4>1. inbox'[c] = Null /\ current' # c
          BY <1>2, <2>1, IdsAssumption, Zenon
        <4>2. \E kk \in Calls : kk.snd /\ kk.rcv = pc'[c].rcv /\ kk.rto = pc'[c].rto
          BY <1>10, <2>1, Zenon
        <4> QED
          BY <2>1, <4>1, <4>2, Zenon DEF Phase
      <3>2. \A t \in exists \ {c} : (Phase(t) /\ Delivered(t))'
        BY <1>2, <2>1, IdsAssumption, PhaseKept, Zenon DEF Coherent
      <3> QED
        BY <3>1, <3>2, Zenon
    <2>3. \A t \in exists : Delivered(t)'
      <3>1. inbox'[c] = Null
        BY <1>2, <2>1, Zenon
      <3>2. \A t \in exists \ {c} : Delivered(t)'
        BY <2>2, Zenon
      <3> QED
        BY <3>1, <3>2, Zenon DEF Delivered
    <2>4. Pairs'
      <3>1. \A s \in exists : LockedSender(s)' <=> LockedSender(s)
        BY <1>2, <2>1, Zenon DEF LockedSender, User
      <3>2. ~LockedSender(c)
        BY <1>2, Zenon DEF LockedSender, User
      <3>3. \A s \in exists : LockedSender(s) => pc'[s].dest = pc[s].dest
        BY <2>1, <3>2, Zenon
      <3>4. NoReplyWait => \A s \in exists : ~LockedSender(s)
        BY <1>2, <3>2, Zenon DEF Coherent, Pairs
      <3>5. \A r \in exists : state'[r] = "LOCKED_WAITING" /\ inbox'[r] = Null <=>
               state[r] = "LOCKED_WAITING" /\ inbox[r] = Null
        BY <1>2, <2>1, Zenon
      <3> QED
        BY <1>2, <3>1, <3>3, <3>4, <3>5, PairsKept, Zenon
    <2>5. SendRings'
      <3>1. dest \in exists /\ state[c] # "POLLING" /\ partner' = [partner EXCEPT ![c] = dest]
        BY <1>2, <1>10, Zenon DEF par
      <3> QED
        BY <1>2, <1>10, <3>1, RingsEnqueue, ZenonT(30) DEF Coherent
    <2>6. NoMissedRendezvous'
      <3> SUFFICES ASSUME NEW s \in exists, NEW d \in exists,
                          state'[s] = "POLLING", partner'[s] = d, state'[d] = "WAITING",
                          partner'[d] \in {s, Nil}
                   PROVE  FALSE
        BY <1>2, Zenon DEF NoMissedRendezvous
      <3>1. d # c /\ state[d] = "WAITING" /\ partner[d] \in {s, Nil}
        BY <2>1, Zenon
      <3>2. NoMissedRendezvous
        BY Zenon DEF Coherent
      <3> QED
        BY <1>10, <2>1, <3>1, <3>2 DEF NoMissedRendezvous
    <2>7. Coherent'
      <3>1. \A t \in wakeup' : pc'[t].at = "recv"
        <4>1. \A t \in wakeup : t \in exists \ {c}
          BY <1>2, Zenon DEF TypeOK, Live
        <4> QED
          BY <2>1, <4>1, Zenon DEF Coherent
      <3>2. /\ (NoReceiveTimeout => wakeup' = {})
            /\ \A t \in Threads \ exists' : inbox'[t] = Null
        BY <1>2, <2>1, Zenon DEF Coherent
      <3> QED
        BY <1>2, <2>2, <2>3, <2>4, <2>5, <2>6, <3>1, <3>2, Zenon DEF Coherent
    <2> QED
      BY <2>1, <2>7, Zenon DEF Transfers
  <1> QED
    BY <1>5, <1>7, <1>8, <1>9, <1>10, Zenon

\* A polling sender goes on: its receiver has locked it.
LEMMA ResumeSendCoherent ==
    ASSUME Clients, TypeOK, Live, Coherent, NEW c \in Threads, ResumeSend(c)
    PROVE  Coherent' /\ Transfers
  <1>1. /\ c \in exists /\ current = c /\ pc[c].at = "send" /\ UNCHANGED exists
        /\ exists \in SUBSET Threads /\ Null \notin exists
    BY IdsAssumption, Zenon DEF ResumeSend, Live, TypeOK
  <1>2. /\ LockedSender(c) /\ state[c] # "RUNNING"
        /\ \E k \in Calls : k.snd /\ k.rcv = pc[c].rcv /\ k.rto = pc[c].rto
    BY <1>1, Zenon DEF Coherent, Phase, LockedSender
  <1>3. PICK to : to = pc[c].dest
    BY Zenon
  <1>4. /\ to \in exists \ {c} /\ to # Null /\ inbox[to] = Null /\ state[to] = "LOCKED_WAITING"
    BY <1>1, <1>2, <1>3 DEF Coherent, Pairs, Live, LiveThread
  <1>5. AfterTransfer(c, to, pc[c].rcv, pc[c].rto, partner, wakeup \ {c})
    BY <1>2, <1>3, Zenon DEF ResumeSend
  <1>6. Handed(c, to, [partner EXCEPT ![to] = c], [inbox EXCEPT ![to] = c], wakeup \ {c})
    BY <1>1, <1>2, <1>3, <1>4, SMTT(30) DEF Handed, TypeOK, Partners
  <1>7. Coherent' /\ inbox' = [inbox EXCEPT ![to] = c]
    BY <1>2, <1>4, <1>5, <1>6, AfterTransferCoherent DEF Clients
  <1> QED
    BY <1>1, <1>4, <1>7, SMTT(30) DEF Transfers, TypeOK

\* A receiver goes on.
LEMMA ResumeReceiveCoherent ==
    ASSUME Clients, TypeOK, Live, Coherent, NEW c \in Threads, ResumeReceive(c)
    PROVE  Coherent' /\ Transfers
  <1>1. /\ c \in exists /\ current = c /\ pc[c].at \in {"recv", "locked"}
        /\ UNCHANGED <<exists, partner, sendq, current>>
        /\ pc' = [pc EXCEPT ![c] = User] /\ inbox' = [inbox EXCEPT ![c] = Null]
        /\ exists \in SUBSET Threads
    BY IdsAssumption, Zenon DEF ResumeReceive, Live, TypeOK
  <1>2. /\ state'[c] = "RUNNING" /\ \A t \in exists \ {c} : state'[t] = state[t]
        /\ c \notin wakeup' /\ wakeup' \subseteq wakeup
    BY <1>1 DEF ResumeReceive, TypeOK, Live, Coherent
  <1>3. /\ state[c] = "LOCKED_WAITING" => inbox[c] # Null
        /\ state[c] # "POLLING"
    BY <1>1, Zenon DEF Coherent, Phase
  <1>4. /\ pc'[c] = User /\ inbox'[c] = Null
        /\ \A t \in Threads \ {c} : pc'[t] = pc[t] /\ inbox'[t] = inbox[t]
    BY <1>1, Zenon DEF TypeOK
  <1>5. \A s \in exists : LockedSender(s) => s # c
    BY <1>1, Zenon DEF LockedSender
  <1>6. \A s \in exists : LockedSender(s)' <=> LockedSender(s)
    BY <1>1, <1>2, <1>4, <1>5, Zenon DEF LockedSender, User
  <1>7. \A t \in exists : Phase(t)' /\ Delivered(t)'
    <2>1. Phase(c)' /\ Delivered(c)'
      BY <1>2, <1>4, PhaseOfUser, Zenon
    <2>2. \A t \in exists \ {c} : Phase(t)' /\ Delivered(t)'
      BY <1>1, <1>2, <1>4, PhaseKept, Zenon DEF Coherent, Phase
    <2> QED
      BY <2>1, <2>2, Zenon
  <1>8. Pairs'
    <2>1. \A r \in exists : state'[r] = "LOCKED_WAITING" /\ inbox'[r] = Null <=>
             state[r] = "LOCKED_WAITING" /\ inbox[r] = Null
      BY <1>1, <1>2, <1>3, <1>4, Zenon
    <2>2. /\ \A s \in exists : LockedSender(s) => pc'[s].dest = pc[s].dest
          /\ NoReplyWait => \A s \in exists : LockedSender(s) => current' = s
      BY <1>1, <1>4, <1>5, Zenon DEF Coherent, Pairs
    <2> QED
      BY <1>1, <1>6, <2>1, <2>2, PairsKept, Zenon
  <1>9. SendRings'
    <2>1. \A t \in exists : /\ state'[t] = "POLLING" <=> state[t] = "POLLING"
                            /\ state[t] = "POLLING" => partner'[t] = partner[t]
      BY <1>1, <1>2, <1>3, Zenon
    <2> QED
      BY <1>1, <2>1, RingsKept, Zenon DEF Coherent
  <1>10. NoMissedRendezvous'
    BY <1>1, <1>2, MissedKept, Zenon DEF Coherent
  <1>11. \A t \in wakeup' : pc'[t].at = "recv"
    BY <1>2, <1>4, Zenon DEF Coherent, TypeOK
  <1>12. /\ (NoReceiveTimeout => wakeup' = {})
         /\ \A t \in Threads \ exists' : inbox'[t] = Null
    BY <1>1, <1>2, <1>4, Zenon DEF Coherent
  <1>13. Coherent'
    BY <1>1, <1>7, <1>8, <1>9, <1>10, <1>11, <1>12, Zenon DEF Coherent
  <1> QED
    BY <1>1, <1>4, <1>13, Zenon DEF Transfers

\* The threads in woken time out, and a running thread is switched to.
Woken(woken) ==
    /\ woken \subseteq wakeup
    /\ state' = [t \in Threads |-> IF t \in woken THEN "RUNNING" ELSE state[t]]
    /\ wakeup' = wakeup \ woken
    /\ \/ current' \in {current, Idle}
       \/ current' \in exists /\ state'[current'] \in {"RUNNING", "LOCKED_RUNNING"}
    /\ UNCHANGED <<exists, partner, sendq, pc, inbox>>

\* With timeouts, or a switch to a running thread, nobody is locked or unlocked.
LEMMA WokenCoherent ==
    ASSUME TypeOK, Live, Coherent, Quiet, NEW woken, Woken(woken)
    PROVE  Coherent' /\ Transfers
  <1>1. /\ exists \in SUBSET Threads /\ Idle \notin exists
        /\ UNCHANGED <<exists, partner, sendq, pc, inbox>>
        /\ wakeup' \subseteq wakeup
        /\ NoReceiveTimeout => woken = {}
    BY IdsAssumption, Zenon DEF TypeOK, Woken, Coherent
  <1>2. \A t \in woken : /\ pc[t].at = "recv" /\ state'[t] = "RUNNING" /\ t # current
                         /\ t \in exists /\ state[t] \in {"WAITING", "LOCKED_RUNNING"}
    BY <1>1, IdsAssumption DEF Woken, Coherent, Phase, Live, Quiet, TypeOK, User
  <1>3. \A t \in exists \ woken : state'[t] = state[t]
    BY <1>1, Zenon DEF Woken
  <1>4. \A s \in exists : LockedSender(s)' <=> LockedSender(s)
    BY <1>1, <1>2, <1>3, Zenon DEF LockedSender
  <1>6. NoReplyWait => \A s \in exists : ~LockedSender(s)
    BY QuietUnlocked, Zenon
  <1>7. \A t \in exists : Phase(t)'
    <2>1. \A t \in woken : Phase(t)'
      <3>1. \A t \in woken : pc'[t].at = "recv" /\ pc'[t] # User
        BY <1>1, <1>2, UserAt, Zenon
      <3> QED
        BY <1>2, <3>1, Zenon DEF Phase
    <2>2. ASSUME NEW t \in exists \ woken PROVE Phase(t)'
      <3>1. /\ Phase(t) /\ state'[t] = state[t] /\ pc'[t] = pc[t]
            /\ partner'[t] = partner[t] /\ inbox'[t] = inbox[t]
        BY <1>1, <1>3, Zenon DEF Coherent
      <3>2. current' = t => current = t \/ state[t] \in {"RUNNING", "LOCKED_RUNNING"}
        BY <1>1, <3>1, Zenon DEF Woken
      <3> QED
        BY <3>1, <3>2, Zenon DEF Phase
    <2> QED
      BY <2>1, <2>2, Zenon
  <1>8. \A t \in exists : Delivered(t)'
    <2>1. \A t \in exists : inbox[t] # Null => t # current
      BY <1>1, Zenon DEF Coherent, Phase, Quiet
    <2>2. \A t \in woken : Delivered(t)'
      BY <1>1, <1>2, <2>1, Zenon DEF Coherent, Delivered
    <2>3. \A t \in exists \ woken : Delivered(t)'
      BY <1>1, <1>3, <2>1, Zenon DEF Coherent, Delivered
    <2> QED
      BY <2>2, <2>3, Zenon
  <1>9. Pairs'
    <2>1. \A r \in exists : state'[r] = "LOCKED_WAITING" <=> state[r] = "LOCKED_WAITING"
      BY <1>2, <1>3, Zenon
    <2> QED
      BY <1>1, <1>4, <1>6, <2>1, PairsKept, Zenon
  <1>10. SendRings'
    <2>1. \A t \in exists : /\ state'[t] = "POLLING" <=> state[t] = "POLLING"
                            /\ state[t] = "POLLING" => partner'[t] = partner[t]
      BY <1>1, <1>2, <1>3, Zenon
    <2> QED
      BY <1>1, <2>1, RingsKept, Zenon DEF Coherent
  <1>11. NoMissedRendezvous'
    BY <1>1, <1>2, <1>3, MissedKept, Zenon DEF Coherent
  <1>12. /\ \A t \in wakeup' : pc'[t].at = "recv"
         /\ (NoReceiveTimeout => wakeup' = {})
         /\ \A t \in Threads \ exists' : inbox'[t] = Null
    BY <1>1, Zenon DEF Coherent
  <1>13. Coherent'
    BY <1>1, <1>7, <1>8, <1>9, <1>10, <1>11, <1>12, Zenon DEF Coherent
  <1> QED
    BY <1>1, <1>13, Zenon DEF Transfers

\* The idle loop finds a thread.
LEMMA IdleLoopCoherent ==
    ASSUME TypeOK, Live, Coherent, IdleLoop
    PROVE  Coherent' /\ Transfers
  <1>1. RunningIn(state) \in SUBSET Threads /\ RunningIn(state) \subseteq exists
    BY Zenon DEF RunningIn, IsRunning, Live
  <1>2. current' = Idle \/ current' \in RunningIn(state)
    BY <1>1, FindNextReturns, Zenon DEF IdleLoop
  <1>3. Woken({}) /\ Quiet
    BY <1>1, <1>2, Zenon DEF Woken, Quiet, IdleLoop, RunningIn, IsRunning, TypeOK
  <1> QED
    BY <1>3, WokenCoherent, Zenon

\* thread_switch, to a thread or to any.
LEMMA ThreadSwitchCoherent ==
    ASSUME TypeOK, Live, Coherent, NEW c \in Threads, NEW t, SysThreadSwitch(c, t)
    PROVE  Coherent' /\ Transfers
  <1>1. /\ RunningIn(state) \in SUBSET Threads /\ RunningIn(state) \subseteq exists
        /\ current = c /\ c \in exists /\ pc[c] = User
    BY IdsAssumption, Zenon DEF RunningIn, IsRunning, Live, SysThreadSwitch, InUser
  <1>2. current' = Idle \/ (current' \in exists /\ IsRunning(state, current'))
    <2>1. CASE t \in exists /\ IsRunning(state, t)
      BY <2>1, Zenon DEF SysThreadSwitch
    <2>2. CASE ~(t \in exists /\ IsRunning(state, t))
      <3>1. FindNextThread(RunningIn(state), ready \cup {c}, current', ready')
        BY <2>2, Zenon DEF SysThreadSwitch
      <3>2. current' = Idle \/ current' \in RunningIn(state)
        BY <1>1, <3>1, FindNextReturns, Zenon
      <3> QED
        BY <1>1, <3>2, Zenon DEF RunningIn
    <2> QED
      BY <2>1, <2>2, Zenon
  <1>3. Woken({}) /\ Quiet
    BY <1>1, <1>2, Zenon DEF Woken, Quiet, SysThreadSwitch, IsRunning, TypeOK
  <1> QED
    BY <1>3, WokenCoherent, Zenon

\* schedule changes a priority.
LEMMA ScheduleCoherent ==
    ASSUME TypeOK, Live, Coherent, NEW c \in Threads, NEW t, NEW p, SysSchedule(c, t, p)
    PROVE  Coherent' /\ Transfers
  <1>1. current = c /\ c \in exists /\ pc[c] = User
    BY IdsAssumption, Zenon DEF Live, SysSchedule, InUser
  <1>2. Woken({}) /\ Quiet
    BY <1>1, Zenon DEF Woken, Quiet, SysSchedule, TypeOK
  <1> QED
    BY <1>2, WokenCoherent, Zenon

\* Timeouts expire.
LEMMA TimerCoherent ==
    ASSUME TypeOK, Live, Coherent, NEW expired \in SUBSET wakeup, HandleTimerInterrupt(expired)
    PROVE  Coherent' /\ Transfers
  <1> DEFINE st == [t \in Threads |-> IF t \in expired THEN "RUNNING" ELSE state[t]]
             rdy == ready \cup expired \cup ({current} \ {Idle})
  <1>1. expired \subseteq exists /\ expired \subseteq Threads
    BY Zenon DEF Live, TypeOK
  <1>2. RunningIn(st) \in SUBSET Threads /\ RunningIn(st) \subseteq exists
    BY <1>1, Zenon DEF RunningIn, IsRunning, Live
  <1>3. /\ state' = st /\ wakeup' = wakeup \ expired
        /\ UNCHANGED <<exists, partner, sendq, pc, inbox>>
        /\ Interruptible
    BY Zenon DEF HandleTimerInterrupt
  <1>4. Quiet
    BY <1>3, IdsAssumption, Zenon DEF Quiet, Interruptible, InUser, Live
  <1>5. current' \in {current, Idle} \/ (current' \in exists /\ IsRunning(st, current'))
    <2>1. CASE current' \in expired
      BY <1>1, <2>1, Zenon DEF IsRunning
    <2>2. CASE current' = current
      BY <2>2, Zenon
    <2>3. CASE FindNextThread(RunningIn(st), rdy, current', ready')
      <3> HIDE DEF st, rdy
      <3>1. current' = Idle \/ current' \in RunningIn(st)
        BY <1>2, <2>3, FindNextReturns, Zenon
      <3> QED
        BY <1>2, <3>1, Zenon DEF RunningIn
    <2> QED
      BY <2>1, <2>2, <2>3, Zenon DEF HandleTimerInterrupt
  <1>6. Woken(expired)
    <2> HIDE DEF st
    <2>1. current' \in {current, Idle} \/ (current' \in exists /\ state'[current'] \in {"RUNNING", "LOCKED_RUNNING"})
      BY <1>3, <1>5, Zenon DEF IsRunning
    <2> QED
      BY <1>3, <2>1, Zenon DEF Woken, st
  <1> QED
    BY <1>4, <1>6, WokenCoherent, Zenon

\* An interrupt arrives; its owner is handed it, if it waits for it.
LEMMA InterruptCoherent ==
    ASSUME TypeOK, Live, Coherent, NEW i \in Irqs, HandleInterrupt(i)
    PROVE  Coherent' /\ Transfers
  <1>1. PICK o : o = interruptOwner[i]
    BY Zenon
  <1>2. /\ UNCHANGED <<exists, partner, wakeup, sendq, pc>> /\ Interruptible
        /\ o \in exists \cup {Null} /\ Idle \notin exists /\ exists \in SUBSET Threads
    BY <1>1, IdsAssumption, Zenon DEF HandleInterrupt, IrqHandler, Live, TypeOK
  <1>3. Quiet
    BY <1>2, IdsAssumption, Zenon DEF Quiet, Interruptible, InUser, Live
  <1>4. \/ UNCHANGED <<state, current, inbox>>
        \/ /\ o # Null /\ state[o] = "WAITING" /\ partner[o] \in {i, Nil}
           /\ inbox' = [inbox EXCEPT ![o] = i]
           /\ \/ state' = [state EXCEPT ![o] = "LOCKED_RUNNING"] /\ current' = current
              \/ state' = state /\ current' = o
    BY <1>1, Zenon DEF HandleInterrupt
  <1>5. CASE UNCHANGED <<state, current, inbox>>
    <2>1. Woken({})
      BY <1>2, <1>5, Zenon DEF Woken, TypeOK
    <2> QED
      BY <1>3, <2>1, WokenCoherent, Zenon
  <1>6. CASE /\ o # Null /\ state[o] = "WAITING" /\ partner[o] \in {i, Nil}
             /\ inbox' = [inbox EXCEPT ![o] = i]
             /\ \/ state' = [state EXCEPT ![o] = "LOCKED_RUNNING"] /\ current' = current
                \/ state' = state /\ current' = o
    <2>1. o \in exists /\ o \in Threads /\ pc[o].at = "recv"
      BY <1>2, <1>6, StateTellsPc, ZenonT(30)
    <2>2. o # current /\ inbox[o] = Null /\ partner[o] \notin Threads /\ i # Null
      <3>1. Phase(o) /\ Delivered(o)
        BY <2>1, Zenon DEF Coherent
      <3>2. o # current
        BY <1>2, <1>3, <1>6, <2>1, <3>1, UserAt, Zenon DEF Quiet
      <3>3. inbox[o] = Null
        BY <1>6, <3>1, <3>2, Zenon DEF Delivered
      <3>4. partner[o] \notin Threads /\ i # Null
        BY <1>6, IdsAssumption, Zenon
      <3> QED
        BY <3>2, <3>3, <3>4, Zenon
    <2>3. /\ inbox'[o] = i /\ \A t \in Threads \ {o} : inbox'[t] = inbox[t] /\ state'[t] = state[t]
          /\ \/ state'[o] = "LOCKED_RUNNING" /\ current' = current
             \/ state'[o] = "WAITING" /\ current' = o
      BY <1>6, <2>1 DEF TypeOK
    <2>4. \A s \in exists : LockedSender(s)' <=> LockedSender(s)
      BY <1>2, <2>1, <2>3, Zenon DEF LockedSender
    <2>6. NoReplyWait => \A s \in exists : ~LockedSender(s)
      BY <1>3, QuietUnlocked, Zenon
    <2>7. \A t \in exists : Phase(t)' /\ Delivered(t)'
      <3>1. Phase(o)' /\ Delivered(o)'
        <4>1. pc'[o].at = "recv" /\ pc'[o] # User /\ partner'[o] \notin Threads /\ inbox'[o] \in Irqs
          BY <1>2, <2>1, <2>2, <2>3, UserAt, Zenon
        <4> QED
          BY <2>3, <4>1, Zenon DEF Phase, Delivered
      <3>2. \A t \in exists \ {o} : inbox[t] # Null => t # current
        BY <1>2, <1>3, Zenon DEF Coherent, Phase, Quiet
      <3>3. \A t \in exists \ {o} : current' = t => current = t
        BY <2>3, Zenon
      <3>4. \A t \in exists \ {o} : Phase(t)' /\ Delivered(t)'
        BY <1>2, <2>3, <3>2, <3>3, PhaseKept, Zenon DEF Coherent, Phase
      <3> QED
        BY <3>1, <3>4, Zenon
    <2>8. Pairs'
      <3>1. \A r \in exists : state'[r] = "LOCKED_WAITING" /\ inbox'[r] = Null <=>
               state[r] = "LOCKED_WAITING" /\ inbox[r] = Null
        BY <1>2, <1>6, <2>2, <2>3, Zenon
      <3> QED
        BY <1>2, <2>4, <2>6, <3>1, PairsKept, Zenon
    <2>9. SendRings'
      <3>1. \A t \in exists : /\ state'[t] = "POLLING" <=> state[t] = "POLLING"
                              /\ state[t] = "POLLING" => partner'[t] = partner[t]
        BY <1>2, <1>6, <2>3, Zenon
      <3> QED
        BY <1>2, <3>1, RingsKept, Zenon DEF Coherent
    <2>10. NoMissedRendezvous'
      <3>1. \A t \in exists : /\ state'[t] = "POLLING" => state[t] = "POLLING"
                              /\ state'[t] = "WAITING" => state[t] = "WAITING"
        BY <1>2, <1>6, <2>3, Zenon
      <3> QED
        BY <1>2, <3>1, Zenon DEF Coherent, NoMissedRendezvous
    <2>11. /\ \A t \in wakeup' : pc'[t].at = "recv"
           /\ (NoReceiveTimeout => wakeup' = {})
           /\ \A t \in Threads \ exists' : inbox'[t] = Null
      BY <1>2, <2>1, <2>3, Zenon DEF Coherent
    <2>12. Coherent'
      BY <1>2, <2>7, <2>8, <2>9, <2>10, <2>11, Zenon DEF Coherent
    <2> QED
      BY <1>6, <2>2, <2>3, <2>12, Zenon DEF Transfers
  <1> QED
    BY <1>4, <1>5, <1>6, Zenon

\* If no client waits for anyone after a send, an unwinding between two system
\* calls stops at the thread it starts with.
LEMMA QuietChain ==
    ASSUME NoReplyWait, TypeOK, Live, Coherent, Quiet, NEW t \in exists
    PROVE  /\ UnwindChain(t) = {t} /\ t \in Threads
           /\ \A u \in exists : ~LockedSender(u) /\ state[u] # "LOCKED_WAITING"
  <1>1. exists \in SUBSET Threads /\ Idle \notin exists
    BY IdsAssumption, Zenon DEF TypeOK
  <1>2. \A u \in exists : ~LockedSender(u)
    BY <1>1 DEF Coherent, Pairs, Quiet, LockedSender, User
  <1>3. \A u \in exists : state[u] # "LOCKED_WAITING"
    <2> SUFFICES ASSUME NEW u \in exists, state[u] = "LOCKED_WAITING" PROVE FALSE
      BY Zenon
    <2>1. pc[u].at = "locked" /\ u # current
      BY <1>1, StateTellsPc, Zenon DEF Quiet, User
    <2>2. inbox[u] = Null
      BY <2>1, Zenon DEF Coherent, Delivered
    <2> QED
      BY <1>2, <2>2, Zenon DEF Coherent, Pairs
  <1>4. Locked(t) => partner[t] \notin Threads
    <2>1. Locked(t) => pc[t].at = "recv" /\ state[t] = "LOCKED_RUNNING"
      BY <1>2, <1>3, StateTellsPc, Zenon DEF Locked, LockedSender
    <2> QED
      BY <2>1, Zenon DEF Coherent, Phase
  <1>5. t \in Threads
    BY <1>1, Zenon
  <1>6. UnwindChain(t) \subseteq {t}
    <2>1. {t} \in SUBSET Threads /\ \A v \in {t} : Locked(v) => partner[v] \notin Threads \ {t}
      BY <1>4, <1>5, Zenon
    <2> QED
      BY <2>1, Zenon DEF UnwindChain
  <1>7. t \in UnwindChain(t)
    BY <1>5, Zenon DEF UnwindChain
  <1> QED
    BY <1>2, <1>3, <1>5, <1>6, <1>7, Zenon

\* lthread_ex_regs takes a thread out of its IPC.
LEMMA ExRegsCoherent ==
    ASSUME Clients, TypeOK, Live, Coherent,
           NEW c \in Threads, NEW t \in ExRegs, SysLthreadExRegs(c, t)
    PROVE  Coherent' /\ Transfers
  <1>1. /\ NoReplyWait /\ t \in exists \ {c} /\ current = c /\ c \in exists /\ pc[c] = User
        /\ UnwindIpc(t, "RUNNING") /\ UNCHANGED <<exists, partner, current>>
        /\ exists \in SUBSET Threads /\ Idle \notin exists
    BY IdsAssumption, Zenon DEF Clients, SysLthreadExRegs, InUser, Live, TypeOK
  <1>2. Quiet
    BY <1>1, Zenon DEF Quiet
  <1>3. /\ UnwindChain(t) = {t} /\ t \in Threads
        /\ \A u \in exists : ~LockedSender(u) /\ state[u] # "LOCKED_WAITING"
    BY <1>1, <1>2, QuietChain, Zenon
  <1>4. /\ wakeup' = wakeup \ {t}
        /\ state' = [state EXCEPT ![t] = "RUNNING"]
        /\ \A u \in Threads \ {t} : pc'[u] = pc[u] /\ inbox'[u] = inbox[u]
        /\ state[t] \in {"RUNNING", "ABORTED"} => pc'[t] = pc[t] /\ inbox'[t] = inbox[t]
        /\ state[t] \notin {"RUNNING", "ABORTED"} => pc'[t] = User /\ inbox'[t] = Null
    BY <1>1, <1>3, Zenon DEF UnwindIpc, TypeOK
  <1>5. state[t] # "ABORTED"
    BY <1>1, StateTellsPc, Zenon DEF Coherent, Phase
  <1>6. /\ state'[t] = "RUNNING" /\ \A u \in Threads \ {t} : state'[u] = state[u]
    BY <1>3, <1>4, Zenon DEF TypeOK
  <1>7. \A u \in exists : Phase(u)' /\ Delivered(u)'
    <2>1. Phase(t)' /\ Delivered(t)'
      <3>1. CASE state[t] = "RUNNING"
        BY <1>1, <1>3, <1>4, <1>6, <3>1, PhaseKept, Zenon DEF Coherent, Phase
      <3>2. CASE state[t] # "RUNNING"
        BY <1>4, <1>5, <1>6, <3>2, PhaseOfUser, Zenon
      <3> QED
        BY <3>1, <3>2, Zenon
    <2>2. \A u \in exists \ {t} : Phase(u)' /\ Delivered(u)'
      BY <1>1, <1>4, <1>6, PhaseKept, Zenon DEF Coherent, Phase
    <2> QED
      BY <2>1, <2>2, Zenon
  <1>8. Pairs'
    <2>1. \A u \in exists : ~LockedSender(u)' /\ state'[u] # "LOCKED_WAITING"
      <3>1. ~LockedSender(t)' /\ state'[t] # "LOCKED_WAITING"
        BY <1>6, Zenon DEF LockedSender
      <3>2. \A u \in exists \ {t} : ~LockedSender(u)' /\ state'[u] # "LOCKED_WAITING"
        BY <1>1, <1>3, <1>4, <1>6, Zenon DEF LockedSender
      <3> QED
        BY <3>1, <3>2, Zenon
    <2> QED
      BY <1>1, <2>1, Zenon DEF Pairs
  <1>9. SendRings'
    <2>1. CASE state[t] # "POLLING"
      <3>1. sendq' = sendq
        BY <1>1, <1>3, <2>1, Zenon DEF UnwindIpc
      <3>2. \A u \in exists : /\ state'[u] = "POLLING" <=> state[u] = "POLLING"
                              /\ state[u] = "POLLING" => partner'[u] = partner[u]
        BY <1>1, <1>6, <2>1, Zenon
      <3> QED
        BY <1>1, <3>1, <3>2, RingsKept, Zenon DEF Coherent
    <2>2. CASE state[t] = "POLLING"
      <3>1. {u \in UnwindChain(t) : state[u] = "POLLING"} = {t} /\ (CHOOSE u \in {t} : TRUE) = t
        BY <1>3, <2>2, Zenon
      <3>2. sendq' = ThreadDequeueSend(sendq, partner[t], t)
        BY <1>1, <3>1, Zenon DEF UnwindIpc
      <3>3. partner[t] = pc[t].dest /\ pc[t].dest \in exists
        BY <1>1, <2>2, StateTellsPc, Zenon DEF Coherent, Phase, Live, LiveThread
      <3>4. \A u \in exists \ {t} : /\ state'[u] = "POLLING" <=> state[u] = "POLLING"
                                    /\ state[u] = "POLLING" => partner'[u] = partner[u]
        BY <1>1, <1>6, Zenon
      <3> QED
        BY <1>1, <1>6, <2>2, <3>2, <3>3, <3>4, RingsDequeue, Zenon DEF Coherent
    <2> QED
      BY <2>1, <2>2, Zenon
  <1>10. NoMissedRendezvous'
    <2>1. \A u \in exists : /\ state'[u] = "POLLING" => state[u] = "POLLING"
                            /\ state'[u] = "WAITING" => state[u] = "WAITING"
      BY <1>1, <1>6, Zenon
    <2> QED
      BY <1>1, <2>1, Zenon DEF Coherent, NoMissedRendezvous
  <1>11. /\ \A u \in wakeup' : pc'[u].at = "recv"
         /\ (NoReceiveTimeout => wakeup' = {})
         /\ \A u \in Threads \ exists' : inbox'[u] = Null
    BY <1>1, <1>4 DEF Coherent, TypeOK
  <1>12. Coherent'
    BY <1>1, <1>7, <1>8, <1>9, <1>10, <1>11, Zenon DEF Coherent
  <1> QED
    BY <1>4, <1>12, Zenon DEF Transfers

\* A new thread: nobody polls for it, and it has no message.
LEMMA CreateCoherent ==
    ASSUME TypeOK, Live, Coherent, NEW c \in Threads, NEW t \in ExRegs, CreateThread(c, t)
    PROVE  Coherent' /\ Transfers
  <1>1. /\ t \in Threads /\ t \notin exists /\ exists' = exists \cup {t}
        /\ wakeup' = wakeup \ {t} /\ UNCHANGED <<partner, current, inbox>>
        /\ current # t /\ inbox[t] = Null
        /\ exists \in SUBSET Threads
    BY ClientAssumption, IdsAssumption DEF CreateThread, Live, Coherent, TypeOK
  <1>2. /\ state'[t] = "RUNNING" /\ pc'[t] = User
        /\ \A u \in Threads \ {t} : state'[u] = state[u] /\ pc'[u] = pc[u]
    BY <1>1, Zenon DEF CreateThread, TypeOK
  <1>3. \A u \in exists \cup {t} : Phase(u)' /\ Delivered(u)'
    <2>1. Phase(t)' /\ Delivered(t)'
      BY <1>1, <1>2, PhaseOfUser, Zenon
    <2>2. \A u \in exists : Phase(u)' /\ Delivered(u)'
      BY <1>1, <1>2, PhaseKept, Zenon DEF Coherent, Phase
    <2> QED
      BY <2>1, <2>2, Zenon
  <1>4. Pairs'
    <2>1. /\ ~LockedSender(t)' /\ \A s \in exists : LockedSender(s)' <=> LockedSender(s)
      BY <1>1, <1>2 DEF LockedSender
    <2>2. \A s \in exists : LockedSender(s) => pc'[s].dest = pc[s].dest
      BY <1>1, <1>2, Zenon
    <2>3. NoReplyWait => \A s \in exists : LockedSender(s) => current' = s
      BY <1>1, Zenon DEF Coherent, Pairs
    <2>4. \A r \in exists' : state'[r] = "LOCKED_WAITING" /\ inbox'[r] = Null <=>
             r \in exists /\ state[r] = "LOCKED_WAITING" /\ inbox[r] = Null
      BY <1>1, <1>2, Zenon
    <2> QED
      BY <1>1, <2>1, <2>2, <2>3, <2>4, PairsKept, Zenon
  <1>5. SendRings'
    <2>1. /\ sendq'.next = sendq.next /\ sendq'.prev = sendq.prev
          /\ sendq'.head[t] = Null /\ \A d \in exists : sendq'.head[d] = sendq.head[d]
      BY <1>1, Zenon DEF CreateThread, TypeOK
    <2>2. Pollers(t)' = {} /\ \A d \in exists : Pollers(d)' = Pollers(d)
      <3>1. \A u \in exists' : state'[u] = "POLLING" <=> u \in exists /\ state[u] = "POLLING"
        BY <1>1, <1>2, Zenon
      <3>2. \A u \in exists : partner[u] # t
        BY <1>1 DEF Live
      <3> QED
        BY <1>1, <3>1, <3>2, Zenon DEF Pollers
    <2>3. SendRing(sendq', t, Pollers(t)')
      BY <2>1, <2>2, Zenon DEF SendRing, Ring
    <2>4. \A d \in exists : SendRing(sendq, d, Pollers(d))
      BY RingsOf, Zenon DEF Coherent
    <2>5. \A d \in exists : SendRing(sendq', d, Pollers(d)')
      BY <2>1, <2>2, <2>4 DEF SendRing, Ring, Linked, Connected
    <2> QED
      BY <1>1, <2>3, <2>5, RingsOfNext, Zenon
  <1>6. NoMissedRendezvous'
    BY <1>1, <1>2 DEF Coherent, NoMissedRendezvous
  <1>7. /\ \A u \in wakeup' : pc'[u].at = "recv"
        /\ (NoReceiveTimeout => wakeup' = {})
        /\ \A u \in Threads \ exists' : inbox'[u] = Null
    BY <1>1, <1>2, Zenon DEF Coherent, TypeOK
  <1>8. Coherent'
    BY <1>1, <1>3, <1>4, <1>5, <1>6, <1>7, Zenon DEF Coherent
  <1> QED
    BY <1>1, <1>8, Zenon DEF Transfers

\* The first threads run in user mode, and every queue is empty.
LEMMA InitCoherent == Init => Coherent
  <1> SUFFICES ASSUME Init PROVE Coherent
    BY Zenon
  <1>1. /\ exists = Boot /\ Boot \subseteq Threads /\ current = Idle /\ Idle \notin Threads
        /\ wakeup = {}
        /\ \A t \in Threads : /\ pc[t] = User /\ inbox[t] = Null /\ sendq.head[t] = Null
                              /\ state[t] \in {"RUNNING", "ABORTED"}
                              /\ t \in Boot => state[t] = "RUNNING"
    BY ClientAssumption, IdsAssumption, Zenon DEF Init
  <1>2. \A t \in exists : Phase(t) /\ Delivered(t)
    BY <1>1 DEF Phase, Delivered, User
  <1>3. Pairs
    BY <1>1, Zenon DEF Pairs, LockedSender, User
  <1>4. SendRings
    <2>1. \A d \in exists : Pollers(d) = {} /\ sendq.head[d] = Null
      BY <1>1, Zenon DEF Pollers
    <2> QED
      BY <2>1, Zenon DEF SendRings
  <1>5. NoMissedRendezvous
    BY <1>1, Zenon DEF NoMissedRendezvous
  <1> QED
    BY <1>1, <1>2, <1>3, <1>4, <1>5, Zenon DEF Coherent

\* Every step of the kernel keeps it coherent, and transfers to receivers only.
LEMMA NextCoherent ==
    ASSUME Clients, TypeOK, Live, Coherent, Next
    PROVE  Coherent' /\ Transfers
  <1>1. CASE \E c \in Threads, dest \in Threads \cup Irqs \cup {Nil}, k \in Calls : SysIpc(c, dest, k)
    BY <1>1, SysIpcCoherent, Zenon
  <1>2. CASE \E c \in Threads : ResumeSend(c) \/ ResumeReceive(c)
    BY <1>2, ResumeSendCoherent, ResumeReceiveCoherent, Zenon
  <1>3. CASE IdleLoop
    BY <1>3, IdleLoopCoherent, Zenon
  <1>4. CASE \E expired \in SUBSET wakeup : HandleTimerInterrupt(expired)
    BY <1>4, TimerCoherent, Zenon
  <1>5. CASE \E i \in Irqs : HandleInterrupt(i)
    BY <1>5, InterruptCoherent, Zenon
  <1>6. CASE \E c \in Threads, t \in Threads \cup {Nil} : SysThreadSwitch(c, t)
    BY <1>6, ThreadSwitchCoherent, Zenon
  <1>7. CASE \E c, t \in Threads, p \in NewPrios : SysSchedule(c, t, p)
    BY <1>7, ScheduleCoherent, Zenon
  <1>8. CASE \E c \in Threads, t \in ExRegs : SysLthreadExRegs(c, t) \/ CreateThread(c, t)
    BY <1>8, ExRegsCoherent, CreateCoherent, Zenon
  <1>9. CASE \E c \in Threads, task \in Dying : SysTaskDelete(c, task)
    BY <1>9, Zenon DEF Clients
  <1>10. CASE \E t \in Threads : FreeThread(t) \/ FreeSender(t) \/ FreeTcb(t)
    BY <1>10, IdsAssumption, Zenon DEF Live, NotFreeing, FreeThread, FreeSender, FreeTcb
  <1> QED
    BY <1>1, <1>2, <1>3, <1>4, <1>5, <1>6, <1>7, <1>8, <1>9, <1>10, Zenon DEF Next

\* Nothing changes in a stuttering step.
LEMMA StutterCoherent ==
    ASSUME Live, Coherent, UNCHANGED vars
    PROVE  Coherent'
  <1>1. /\ exists' = exists /\ state' = state /\ partner' = partner /\ wakeup' = wakeup
        /\ sendq' = sendq /\ pc' = pc /\ current' = current /\ inbox' = inbox
    BY Zenon DEF vars
  <1>2. (\A t \in exists : Phase(t) /\ Delivered(t))'
    BY <1>1, PhaseKept, Zenon DEF Coherent, Phase, Delivered
  <1>3. Pairs'
    <2>1. \A s \in exists : LockedSender(s)' <=> LockedSender(s)
      BY <1>1, Zenon DEF LockedSender
    <2>2. NoReplyWait => \A s \in exists : LockedSender(s) => current' = s
      BY <1>1, Zenon DEF Coherent, Pairs
    <2> QED
      BY <1>1, <2>1, <2>2, PairsKept, Zenon
  <1>4. SendRings'
    <2>1. \A d \in exists : Pollers(d)' = Pollers(d)
      BY <1>1, Zenon DEF Pollers
    <2>2. \A d \in exists : SendRing(sendq, d, Pollers(d))
      BY RingsOf, Zenon DEF Coherent
    <2> QED
      BY <1>1, <2>1, <2>2, RingsOfNext, Zenon
  <1>5. NoMissedRendezvous'
    BY <1>1, Zenon DEF Coherent, NoMissedRendezvous
  <1> QED
    BY <1>1, <1>2, <1>3, <1>4, <1>5, Zenon DEF Coherent

----------------------------------------------------------------------------
(* The theorems.                                                           *)

\* The three parts of the inductive invariant, together.
LEMMA CoherentAlways ==
    ASSUME Clients
    PROVE  Spec => [](TypeOK /\ Live /\ Coherent)
  <1>1. Dying = {} /\ NoZeroReply
    BY Zenon DEF Clients
  <1>2. Init => Live /\ Coherent
    BY InitLive, InitCoherent, Zenon
  <1>3. TypeOK /\ Live /\ Coherent /\ [Next]_vars => Live' /\ Coherent'
    BY <1>1, NextLive, NextCoherent, StutterCoherent, Zenon
  <1> QED
    BY <1>2, <1>3, TypeCorrect, PTL DEF Spec

\* Every send queue is one ring of exactly the threads that poll for its owner:
\* no system call, timeout or interrupt corrupts one or leaves a thread behind.
THEOREM SendQueuesLinked ==
    ASSUME Clients
    PROVE  Spec => []SendRings
  <1>1. Coherent => SendRings
    BY Zenon DEF Coherent
  <1> QED
    BY <1>1, CoherentAlways, PTL

\* A sender and a receiver that wait for each other find each other: no
\* interleaving of the send and the receive branch of sys_ipc misses one.
THEOREM RendezvousNotMissed ==
    ASSUME Clients
    PROVE  Spec => []NoMissedRendezvous
  <1>1. Coherent => NoMissedRendezvous
    BY Zenon DEF Coherent
  <1> QED
    BY <1>1, CoherentAlways, PTL

\* A LOCKED_WAITING receiver without a message has exactly one sender that is
\* about to transfer, and no other thread has one.
THEOREM LockedInPairs ==
    ASSUME Clients
    PROVE  Spec => []LockedPairs
  <1>1. TypeOK /\ Live /\ Coherent => LockedPairs
    <2> SUFFICES ASSUME TypeOK, Live, Coherent, NEW r \in exists
                 PROVE  IF state[r] = "LOCKED_WAITING" /\ inbox[r] = Null
                        THEN \E s \in exists : LockedSenders(r) = {s}
                        ELSE LockedSenders(r) = {}
      BY Zenon DEF LockedPairs
    <2>1. LockedSenders(r) = {s \in exists : LockedSender(s) /\ pc[s].dest = r}
      BY Zenon DEF LockedSenders, LockedSender
    <2>2. CASE state[r] = "LOCKED_WAITING" /\ inbox[r] = Null
      <3>1. PICK s \in exists : LockedSender(s) /\ pc[s].dest = r
        BY <2>2, Zenon DEF Coherent, Pairs
      <3>2. LockedSenders(r) = {s}
        BY <2>1, <3>1 DEF Coherent, Pairs
      <3> QED
        BY <2>2, <3>2, Zenon
    <2>3. CASE ~(state[r] = "LOCKED_WAITING" /\ inbox[r] = Null)
      <3>1. LockedSenders(r) = {}
        BY <2>1, <2>3 DEF Coherent, Pairs
      <3> QED
        BY <2>3, <3>1, Zenon
    <2> QED
      BY <2>2, <2>3, Zenon
  <1> QED
    BY <1>1, CoherentAlways, PTL

\* Only blocked threads can time out.
THEOREM WakeupQueueBlocked ==
    ASSUME Clients
    PROVE  Spec => []WakeupBlocked
  <1>1. TypeOK /\ Live /\ Coherent => WakeupBlocked
    <2> SUFFICES ASSUME TypeOK, Live, Coherent, NEW t \in wakeup
                 PROVE  /\ t \in exists
                        /\ \/ state[t] \in {"POLLING", "WAITING"}
                           \/ state[t] = "LOCKED_RUNNING" /\ inbox[t] \in Irqs
      BY Zenon DEF WakeupBlocked
    <2>1. t \in exists /\ pc[t].at = "recv" /\ state[t] # "RUNNING"
      BY Zenon DEF Live, Coherent, TypeOK
    <2> QED
      BY <2>1, Zenon DEF Coherent, Phase
  <1> QED
    BY <1>1, CoherentAlways, PTL

\* A receiver that has a message owns the processor or is queued as
\* LOCKED_RUNNING.  With both interrupts and finite receive timeouts it may
\* also be RUNNING: its timeout can expire after an interrupt was delivered.
THEOREM DeliveredReceiversRun ==
    ASSUME Clients, Irqs = {} \/ NoReceiveTimeout
    PROVE  Spec => []DeliveredRuns
  <1>1. TypeOK /\ Live /\ Coherent /\ AllQueued => DeliveredRuns
    <2> SUFFICES ASSUME TypeOK, Live, Coherent, AllQueued, NEW t \in exists, inbox[t] # Null
                 PROVE  current = t \/ (state[t] = "LOCKED_RUNNING" /\ t \in ready)
      BY Zenon DEF DeliveredRuns
    <2>1. current = t \/ state[t] = "LOCKED_RUNNING"
      BY Zenon DEF Coherent, Delivered
    <2> QED
      BY <2>1, Zenon DEF AllQueued, IsRunning, TypeOK
  <1>2. IInv => AllQueued
    BY Zenon DEF IInv
  <1> QED
    BY <1>1, <1>2, CoherentAlways, Invariance, PTL

\* transfer_message writes into the buffer of a thread only while that is
\* blocked in a receive that accepts the sender, and over no other message.
THEOREM TransfersToReceivers ==
    ASSUME Clients
    PROVE  Spec => TransferToReceiver
  <1>1. TypeOK /\ Live /\ Coherent /\ [Next]_vars => [Transfers]_vars
    BY NextCoherent, Zenon
  <1> QED
    BY <1>1, CoherentAlways, PTL DEF Spec, TransferToReceiver, Transfers

=============================================================================
