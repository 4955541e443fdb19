-------------------------- MODULE ReadyQueueProofs --------------------------
(***************************************************************************)
(* The ready queues are rings and implement the scheduler, for any number  *)
(* of threads and priorities.                                              *)
(***************************************************************************)
EXTENDS ReadyQueue, RingProofs, FiniteSetTheorems, NaturalsInduction, WellFoundedInduction

\* A non-empty set of numbers has a least element.  What the proofs show by
\* induction they show with it: there is no least counterexample.
LEMMA Least ==
    ASSUME NEW T \in SUBSET Nat, T # {}
    PROVE  \E x \in T : \A y \in T : x <= y
  <1>1. PICK x \in T : \A y \in T : ~ (<<y, x>> \in OpToRel(<, Nat))
    BY NatLessThanWellFounded, WFMin, Zenon
  <1>2. \A y \in T : ~ (y < x)
    BY <1>1, Zenon DEF OpToRel
  <1> QED
    BY <1>2

----------------------------------------------------------------------------
(* Loops.                                                                  *)

\* h holds the values a, f[0][a], f[1][f[0][a]], ... up to round n.
Rounds(S, a, f, n, h) ==
    /\ h \in [0 .. n -> S] /\ h[0] = a
    /\ \A m \in 0 .. n : m # n => h[m + 1] = f[m][h[m]]

\* Any number of rounds can be made,
LEMMA RoundsExist ==
    ASSUME NEW S, NEW a \in S, NEW f \in [Nat -> [S -> S]], NEW n \in Nat
    PROVE  \E h : Rounds(S, a, f, n, h)
  <1> DEFINE T == {m \in Nat : ~ \E h : Rounds(S, a, f, m, h)}
  <1> SUFFICES ASSUME T # {} PROVE FALSE
    BY Zenon
  <1>1. PICK x \in T : \A y \in T : x <= y
    <2>1. T \in SUBSET Nat
      BY Zenon
    <2> HIDE DEF T
    <2> QED
      BY <2>1, Least, Zenon
  <1>2. CASE x = 0
    <2>1. Rounds(S, a, f, 0, [m \in 0 .. 0 |-> a])
      BY DEF Rounds
    <2> QED
      BY <1>1, <1>2, <2>1, Zenon
  <1>3. CASE x # 0
    <2>1. PICK y \in Nat : x = y + 1
      BY <1>1, <1>3
    <2>2. y \notin T
      BY <1>1, <2>1
    <2>3. PICK h : Rounds(S, a, f, y, h)
      BY <2>2, Zenon
    <2> DEFINE k == [m \in 0 .. x |-> IF m = x THEN f[y][h[y]] ELSE h[m]]
    <2>4. \A m \in 0 .. x : m = x \/ m \in 0 .. y
      BY <2>1
    <2>5. k \in [0 .. x -> S]
      BY <2>1, <2>3, <2>4 DEF Rounds
    <2>6. /\ \A m \in 0 .. y : k[m] = h[m]
          /\ k[x] = f[y][h[y]] /\ 0 \in 0 .. y
      BY <2>1
    <2>7. \A m \in 0 .. x : m # x => k[m + 1] = f[m][k[m]]
      <3> SUFFICES ASSUME NEW m \in 0 .. x, m # x PROVE k[m + 1] = f[m][k[m]]
        BY Zenon
      <3>1. m \in 0 .. y /\ k[m] = h[m]
        BY <2>4, <2>6, Zenon
      <3>2. CASE m = y
        BY <2>1, <2>6, <3>1, <3>2, Zenon
      <3>3. CASE m # y
        <4>1. m + 1 \in 0 .. y
          BY <3>1, <3>3
        <4>2. h[m + 1] = f[m][h[m]]
          BY <2>3, <3>1, <3>3, Zenon DEF Rounds
        <4> QED
          BY <2>6, <3>1, <4>1, <4>2, Zenon
      <3> QED
        BY <3>2, <3>3, Zenon
    <2> HIDE DEF k
    <2>8. Rounds(S, a, f, x, k)
      BY <2>3, <2>5, <2>6, <2>7, Zenon DEF Rounds
    <2> QED
      BY <1>1, <2>8, Zenon
  <1> QED
    BY <1>2, <1>3, Zenon

\* and the values they produce are determined.
LEMMA RoundsUnique ==
    ASSUME NEW S, NEW a, NEW f, NEW n \in Nat, NEW m \in Nat, NEW h, NEW k,
           Rounds(S, a, f, n, h), Rounds(S, a, f, m, k)
    PROVE  \A i \in Nat : i <= n /\ i <= m => h[i] = k[i]
  <1> DEFINE T == {i \in Nat : i <= n /\ i <= m /\ h[i] # k[i]}
  <1> SUFFICES ASSUME T # {} PROVE FALSE
    BY Zenon
  <1>1. PICK x \in T : \A y \in T : x <= y
    <2>1. T \in SUBSET Nat
      BY Zenon
    <2> HIDE DEF T
    <2> QED
      BY <2>1, Least, Zenon
  <1>2. x # 0
    BY <1>1, Zenon DEF Rounds
  <1>3. PICK y \in Nat : x = y + 1
    BY <1>1, <1>2
  <1>4. h[y] = k[y] /\ y \in 0 .. n /\ y # n /\ y \in 0 .. m /\ y # m
    BY <1>1, <1>3
  <1>5. h[x] = f[y][h[y]] /\ k[x] = f[y][k[y]]
    BY <1>3, <1>4, Zenon DEF Rounds
  <1> QED
    BY <1>1, <1>4, <1>5, Zenon

\* What a function defined by recursion on its argument computes: the state
\* of a loop after each round.
Iterates(S, a, f) ==
    \E g \in [Nat -> S] : g[0] = a /\ \A n \in Nat : g[n + 1] = f[n][g[n]]

\* Such a loop exists.
LEMMA Loop ==
    ASSUME NEW S, NEW a \in S, NEW f \in [Nat -> [S -> S]]
    PROVE  Iterates(S, a, f)
  <1> DEFINE H(n) == CHOOSE h : Rounds(S, a, f, n, h)
             g == [n \in Nat |-> H(n)[n]]
  <1>1. \A n \in Nat : Rounds(S, a, f, n, H(n))
    BY RoundsExist, Zenon
  <1> HIDE DEF H
  <1>2. g \in [Nat -> S] /\ g[0] = a
    BY <1>1 DEF Rounds
  <1>3. ASSUME NEW n \in Nat PROVE g[n + 1] = f[n][g[n]]
    <2>1. PICK h, k : h = H(n) /\ k = H(n + 1)
      BY Zenon
    <2>2. Rounds(S, a, f, n, h) /\ Rounds(S, a, f, n + 1, k) /\ n + 1 \in Nat
      BY <1>1, <2>1
    <2>3. h[n] = k[n]
      BY <2>2, RoundsUnique
    <2>4. k[n + 1] = f[n][k[n]]
      BY <2>2 DEF Rounds
    <2>5. g[n] = h[n] /\ g[n + 1] = k[n + 1]
      BY <2>1
    <2> QED
      BY <2>3, <2>4, <2>5, Zenon
  <1> QED
    BY <1>2, <1>3, Zenon DEF Iterates

----------------------------------------------------------------------------
(* Rings of threads.                                                       *)

Prios == 0 .. MaxPrio
Level(rq, prio, p) == {t \in rq.queued : prio[t] = p}

\* The queue of one priority, and all of them, for the priorities prio.
RingAt(rq, prio, p) == Ring(rq.head[p], rq.next, rq.prev, Level(rq, prio, p), Null)
Rings(rq, prio) == rq \in Queues /\ \A p \in Prios : RingAt(rq, prio, p)
Bounded(rq, prio) == \A t \in rq.queued : prio[t] <= rq.maxPrio
Sound(rq, prio) == Rings(rq, prio) /\ Bounded(rq, prio)

\* ReadyRings, in these terms.
LEMMA ReadyRingsOf == ReadyRings <=> \A p \in Prios : RingAt(q, priority, p)
  BY Zenon DEF ReadyRings, RingAt, Ring, Linked, Connected, Level, Prios

\* The neighbours of a queued thread are queued in its ring.
LEMMA Neighbours ==
    ASSUME NEW prio \in [Threads -> Prios], NEW rq, Rings(rq, prio), NEW t \in rq.queued
    PROVE  /\ t \in Threads /\ prio[t] \in Prios /\ rq.head[prio[t]] \in Level(rq, prio, prio[t])
           /\ rq.next[t] \in Level(rq, prio, prio[t])
           /\ rq.prev[t] \in Level(rq, prio, prio[t])
           /\ rq.next[rq.prev[t]] = t /\ rq.prev[rq.next[t]] = t
  <1>1. t \in Threads /\ prio[t] \in Prios /\ t \in Level(rq, prio, prio[t])
    BY Zenon DEF Rings, Queues, Level
  <1>2. RingAt(rq, prio, prio[t])
    BY <1>1, Zenon DEF Rings
  <1> QED
    BY <1>1, <1>2, Zenon DEF RingAt, Ring, Linked

----------------------------------------------------------------------------
(* thread_enqueue_ready.                                                   *)

\* A record with the fields of a queue.
Fields(r) == r = [head |-> r.head, next |-> r.next, prev |-> r.prev, queued |-> r.queued,
                  maxPrio |-> r.maxPrio]

\* What it writes.
Enqueued(rq, t, p, r) ==
    /\ Fields(r)
    /\ r.queued = rq.queued \cup {t}
    /\ r.maxPrio = IF rq.maxPrio < p THEN p ELSE rq.maxPrio
    /\ IF rq.head[p] = Null
       THEN /\ r.head = [rq.head EXCEPT ![p] = t]
            /\ r.next = [rq.next EXCEPT ![t] = t] /\ r.prev = [rq.prev EXCEPT ![t] = t]
       ELSE /\ r.head = rq.head
            /\ r.next = [rq.next EXCEPT ![t] = rq.head[p], ![rq.prev[rq.head[p]]] = t]
            /\ r.prev = [rq.prev EXCEPT ![t] = rq.prev[rq.head[p]], ![rq.head[p]] = t]

\* What thread_enqueue_ready writes.
LEMMA EnqueueWrites ==
    ASSUME NEW rq \in Queues, NEW t \in Threads, t \notin rq.queued, NEW p
    PROVE  Enqueued(rq, t, p, EnqueueAt(rq, t, p))
  <1>1. PICK h : h = rq.head[p]
    BY Zenon
  <1>2. CASE h = Null
    <2>1. EnqueueAt(rq, t, p) =
            [[rq EXCEPT !.head[p] = t, !.next[t] = t, !.prev[t] = t]
                EXCEPT !.queued = @ \cup {t}, !.maxPrio = IF @ < p THEN p ELSE @]
      BY <1>1, <1>2, Zenon DEF EnqueueAt
    <2> QED
      BY <1>1, <1>2, <2>1, Zenon DEF Enqueued, Queues, Fields
  <1>3. CASE h # Null
    <2>1. EnqueueAt(rq, t, p) =
            [[rq EXCEPT !.next[t] = h, !.prev[t] = rq.prev[h],
                        !.next[rq.prev[h]] = t, !.prev[h] = t]
                EXCEPT !.queued = @ \cup {t}, !.maxPrio = IF @ < p THEN p ELSE @]
      BY <1>1, <1>3 DEF EnqueueAt
    <2> QED
      BY <1>1, <1>3, <2>1, Zenon DEF Enqueued, Queues, Fields
  <1> QED
    BY <1>2, <1>3, Zenon

\* A thread joins the ring of its priority; the others stay.
LEMMA EnqueueSound ==
    ASSUME NEW prio \in [Threads -> Prios], NEW rq, Sound(rq, prio), NEW t \in Threads
    PROVE  /\ Sound(EnqueueAt(rq, t, prio[t]), prio)
           /\ EnqueueAt(rq, t, prio[t]).queued = rq.queued \cup {t}
  <1>1. CASE t \in rq.queued
    <2>1. EnqueueAt(rq, t, prio[t]) = rq /\ rq.queued \cup {t} = rq.queued
      BY <1>1, Zenon DEF EnqueueAt
    <2> QED
      BY <2>1, Zenon
  <1>2. CASE t \notin rq.queued
    <2>1. PICK p, r : p = prio[t] /\ r = EnqueueAt(rq, t, prio[t])
      BY Zenon
    <2>2. /\ p \in Prios /\ p \in Int /\ rq \in Queues /\ Enqueued(rq, t, p, r)
          /\ rq.maxPrio \in -1 .. MaxPrio /\ MaxPrio \in Nat
      BY <1>2, <2>1, EnqueueWrites, QueueAssumption DEF Sound, Rings, Prios, Queues
    <2>3. RingAt(rq, prio, p) /\ t \notin Level(rq, prio, p)
      BY <1>2, <2>2, Zenon DEF Sound, Rings, Level
    <2>4. Level(r, prio, p) = Level(rq, prio, p) \cup {t}
          /\ \A x \in Prios \ {p} : Level(r, prio, x) = Level(rq, prio, x)
      BY <2>1, <2>2, Zenon DEF Level, Enqueued
    <2>5. rq.head[p] # Null => /\ rq.head[p] \in Level(rq, prio, p)
                               /\ rq.prev[rq.head[p]] \in Level(rq, prio, p)
      BY <2>3, Zenon DEF RingAt, Ring, Linked
    <2>6. r \in Queues
      <3>1. Fields(r)
        BY <2>2, Zenon DEF Enqueued
      <3>2. r.head \in [Prios -> Threads \cup {Null}] /\ r.next \in Links /\ r.prev \in Links
        <4>1. /\ rq.head \in [Prios -> Threads \cup {Null}] /\ rq.next \in Links /\ rq.prev \in Links
              /\ rq.queued \subseteq Threads
          BY <2>2, Zenon DEF Queues, Prios
        <4>2. rq.head[p] # Null => rq.head[p] \in Threads /\ rq.prev[rq.head[p]] \in Threads
          BY <2>5, <4>1, Zenon DEF Level
        <4>3. CASE rq.head[p] = Null
          BY <2>2, <4>1, <4>3 DEF Links, Enqueued
        <4>4. CASE rq.head[p] # Null
          BY <2>2, <4>1, <4>2, <4>4 DEF Links, Enqueued
        <4> QED
          BY <4>3, <4>4, Zenon
      <3>3. r.queued \in SUBSET Threads /\ r.maxPrio \in -1 .. MaxPrio
        BY <2>2 DEF Queues, Enqueued, Prios
      <3> QED
        BY <3>1, <3>2, <3>3, Zenon DEF Queues, Fields, Prios
    <2>7. RingAt(r, prio, p)
      <3>1. CASE rq.head[p] = Null
        <4>1. Level(rq, prio, p) = {}
          BY <2>3, <3>1, QueueAssumption, Zenon DEF RingAt, Ring, Level, Queues, Sound, Rings
        <4>2. r.head[p] = t /\ r.next[t] = t /\ r.prev[t] = t
          BY <2>2, <3>1 DEF Enqueued, Queues, Links, Prios
        <4>3. Ring(t, r.next, r.prev, {t}, Null)
          BY <4>2, RingOfOne, Zenon
        <4> QED
          BY <2>4, <4>1, <4>2, <4>3, Zenon DEF RingAt
      <3>2. CASE rq.head[p] # Null
        <4>1. PICK P, first : P = Level(rq, prio, p) /\ first = rq.head[p]
          BY Zenon
        <4>2. /\ P # {} /\ Ring(first, rq.next, rq.prev, P, Null) /\ t \notin P /\ P \subseteq Threads
              /\ first \in P /\ rq.prev[first] \in P /\ r.head[p] = first
          BY <2>2, <2>3, <2>5, <3>2, <4>1, Zenon DEF RingAt, Enqueued, Level, Queues
        <4>3. Inserted(rq.next, rq.prev, P, rq.prev[first], first, t, r.next, r.prev)
          BY <2>2, <3>2, <4>1, <4>2 DEF Inserted, Enqueued, Queues, Links
        <4>4. Ring(first, r.next, r.prev, P \cup {t}, Null)
          BY <4>2, <4>3, RingInsert, Zenon
        <4> QED
          BY <2>4, <4>1, <4>2, <4>4, Zenon DEF RingAt
      <3> QED
        BY <3>1, <3>2, Zenon
    <2>8. \A x \in Prios \ {p} : RingAt(r, prio, x)
      <3> SUFFICES ASSUME NEW x \in Prios \ {p} PROVE RingAt(r, prio, x)
        BY Zenon
      <3>1. Ring(rq.head[x], rq.next, rq.prev, Level(rq, prio, x), Null)
        BY Zenon DEF Sound, Rings, RingAt
      <3>2. r.head[x] = rq.head[x]
            /\ \A u \in Level(rq, prio, x) : r.next[u] = rq.next[u] /\ r.prev[u] = rq.prev[u]
        BY <1>2, <2>2, <2>5, Zenon DEF Enqueued, Queues, Links, Level, Prios
      <3>3. Ring(rq.head[x], r.next, r.prev, Level(rq, prio, x), Null)
        BY <3>1, <3>2, RingFrame
      <3> QED
        BY <2>4, <3>2, <3>3, Zenon DEF RingAt
    <2>9. Bounded(r, prio)
      BY <2>1, <2>2 DEF Sound, Bounded, Enqueued, Queues, Prios
    <2> QED
      BY <2>1, <2>2, <2>6, <2>7, <2>8, <2>9, Zenon DEF Sound, Rings, Enqueued
  <1> QED
    BY <1>1, <1>2, Zenon

----------------------------------------------------------------------------
(* thread_dequeue_ready.                                                   *)

\* What it writes.
Dequeued(rq, t, p, r) ==
    /\ Fields(r) /\ r.queued = rq.queued \ {t} /\ r.maxPrio = rq.maxPrio
    /\ IF rq.next[t] = t
       THEN /\ r.head = [rq.head EXCEPT ![p] = Null]
            /\ r.next = [rq.next EXCEPT ![t] = Null] /\ r.prev = [rq.prev EXCEPT ![t] = Null]
       ELSE /\ r.head = [rq.head EXCEPT ![p] = IF rq.head[p] = t THEN rq.next[t] ELSE rq.head[p]]
            /\ r.next = [rq.next EXCEPT ![rq.prev[t]] = rq.next[t], ![t] = Null]
            /\ r.prev = [rq.prev EXCEPT ![rq.next[t]] = rq.prev[t], ![t] = Null]

\* What thread_dequeue_ready writes.
LEMMA DequeueWrites ==
    ASSUME NEW rq \in Queues, NEW t \in rq.queued, priority[t] \in Prios
    PROVE  Dequeued(rq, t, priority[t], ThreadDequeueReady(rq, t))
  <1>1. PICK p : p = priority[t]
    BY Zenon
  <1>2. CASE rq.next[t] = t
    <2>1. ThreadDequeueReady(rq, t) =
            [[rq EXCEPT !.head[p] = Null] EXCEPT !.queued = @ \ {t}, !.next[t] = Null, !.prev[t] = Null]
      BY <1>1, <1>2, Zenon DEF ThreadDequeueReady
    <2> QED
      BY <1>1, <1>2, <2>1, Zenon DEF Dequeued, Queues, Fields
  <1>3. CASE rq.next[t] # t
    <2>1. ThreadDequeueReady(rq, t) =
            [[rq EXCEPT !.head[p] = IF @ = t THEN rq.next[t] ELSE @,
                        !.next[rq.prev[t]] = rq.next[t],
                        !.prev[rq.next[t]] = rq.prev[t]]
                EXCEPT !.queued = @ \ {t}, !.next[t] = Null, !.prev[t] = Null]
      BY <1>1, <1>3, Zenon DEF ThreadDequeueReady
    <2> QED
      BY <1>1, <1>3, <2>1, ZenonT(30) DEF Dequeued, Queues, Fields, Prios
  <1> QED
    BY <1>2, <1>3, Zenon

\* Its type, in whatever state the links are.
LEMMA DequeueType ==
    ASSUME priority \in [Threads -> Prios], NEW rq \in Queues, NEW t
    PROVE  ThreadDequeueReady(rq, t) \in Queues
  <1>1. CASE t \notin rq.queued
    BY <1>1, Zenon DEF ThreadDequeueReady
  <1>2. CASE t \in rq.queued
    <2>1. PICK p, r : p = priority[t] /\ r = ThreadDequeueReady(rq, t)
      BY Zenon
    <2>2. /\ rq.head \in [Prios -> Threads \cup {Null}] /\ rq.next \in Links /\ rq.prev \in Links
          /\ rq.queued \in SUBSET Threads /\ rq.maxPrio \in -1 .. MaxPrio /\ t \in Threads
      BY <1>2, Zenon DEF Queues, Prios
    <2>3. Dequeued(rq, t, p, r) /\ p \in Prios
      BY <1>2, <2>1, <2>2, DequeueWrites, Zenon
    <2>4. r.head \in [Prios -> Threads \cup {Null}]
      BY <2>2, <2>3 DEF Dequeued, Links
    <2>5. r.next \in Links /\ r.prev \in Links
      BY <2>2, <2>3 DEF Dequeued, Links
    <2>6. Fields(r) /\ r.queued \in SUBSET Threads /\ r.maxPrio \in -1 .. MaxPrio
      BY <2>2, <2>3, Zenon DEF Dequeued
    <2> QED
      BY <2>1, <2>4, <2>5, <2>6, Zenon DEF Queues, Fields, Prios
  <1> QED
    BY <1>1, <1>2, Zenon

\* A thread leaves the ring of its priority; the others stay.
LEMMA DequeueRings ==
    ASSUME priority \in [Threads -> Prios], NEW rq, Rings(rq, priority), NEW t \in rq.queued
    PROVE  /\ Rings(ThreadDequeueReady(rq, t), priority)
           /\ ThreadDequeueReady(rq, t).queued = rq.queued \ {t}
           /\ ThreadDequeueReady(rq, t).maxPrio = rq.maxPrio
  <1>1. PICK p, r, P : p = priority[t] /\ r = ThreadDequeueReady(rq, t) /\ P = Level(rq, priority, p)
    BY Zenon
  <1>2. /\ rq \in Queues /\ t \in Threads /\ p \in Prios /\ P \subseteq Threads
        /\ rq.head[p] \in P /\ rq.next[t] \in P /\ rq.prev[t] \in P /\ t \in P
        /\ rq.next[rq.prev[t]] = t /\ rq.prev[rq.next[t]] = t
    BY <1>1, Neighbours DEF Rings, Level, Queues
  <1>3. Dequeued(rq, t, p, r)
    BY <1>1, <1>2, DequeueWrites, Zenon
  <1>4. Level(r, priority, p) = P \ {t}
        /\ \A x \in Prios \ {p} : Level(r, priority, x) = Level(rq, priority, x)
    BY <1>1, <1>3, Zenon DEF Level, Dequeued
  <1>5. Ring(rq.head[p], rq.next, rq.prev, P, Null)
    BY <1>1, <1>2, Zenon DEF Rings, RingAt
  <1>6. RingAt(r, priority, p)
    <2>1. CASE rq.next[t] = t
      <3>1. P = {t}
        BY <1>2, <1>5, <2>1, RingAlone, ZenonT(30)
      <3>2. r.head[p] = Null
        BY <1>2, <1>3, <2>1, Zenon DEF Dequeued, Queues, Prios
      <3> QED
        BY <1>4, <3>1, <3>2, Zenon DEF RingAt, Ring
    <2>2. CASE rq.next[t] # t
      <3>1. rq.prev[t] # t
        BY <1>2, <2>2, Zenon
      <3>2. r.head[p] = IF rq.head[p] = t THEN rq.next[t] ELSE rq.head[p]
        BY <1>2, <1>3, <2>2, Zenon DEF Dequeued, Queues, Prios
      <3>3. r.head[p] \in P \ {t}
        BY <1>2, <2>2, <3>2, Zenon
      <3>4. Removed(rq.next, rq.prev, P, t, r.next, r.prev)
        BY <1>2, <1>3, <2>2, <3>1, Zenon DEF Dequeued, Removed, Queues, Links
      <3>5. Ring(r.head[p], r.next, r.prev, P \ {t}, Null)
        BY <1>2, <1>5, <2>2, <3>3, <3>4, RingRemove, Zenon
      <3> QED
        BY <1>4, <3>5, Zenon DEF RingAt
    <2> QED
      BY <2>1, <2>2, Zenon
  <1>7. \A x \in Prios \ {p} : RingAt(r, priority, x)
    <2> SUFFICES ASSUME NEW x \in Prios \ {p} PROVE RingAt(r, priority, x)
      BY Zenon
    <2>1. Ring(rq.head[x], rq.next, rq.prev, Level(rq, priority, x), Null)
      BY Zenon DEF Rings, RingAt
    <2>2. Level(rq, priority, x) \cap P = {} /\ Level(rq, priority, x) \subseteq Threads
      BY <1>1, <1>2, Zenon DEF Level, Queues
    <2>3. r.head[x] = rq.head[x]
          /\ \A u \in Level(rq, priority, x) : r.next[u] = rq.next[u] /\ r.prev[u] = rq.prev[u]
      <3>1. rq.head \in [Prios -> Threads \cup {Null}] /\ rq.next \in Links /\ rq.prev \in Links
        BY <1>2, Zenon DEF Queues, Prios
      <3>2. r.head[x] = rq.head[x]
        BY <1>2, <1>3, <3>1, Zenon DEF Dequeued
      <3>3. ASSUME NEW u \in Level(rq, priority, x)
            PROVE  r.next[u] = rq.next[u] /\ r.prev[u] = rq.prev[u]
        <4>1. u \in Threads /\ u # t /\ u # rq.next[t] /\ u # rq.prev[t]
          BY <1>2, <2>2, <3>3, Zenon
        <4> QED
          BY <1>3, <3>1, <4>1, Zenon DEF Dequeued, Links
      <3> QED
        BY <3>2, <3>3, Zenon
    <2>4. Ring(rq.head[x], r.next, r.prev, Level(rq, priority, x), Null)
      BY <2>1, <2>3, RingFrame
    <2> QED
      BY <1>4, <2>3, <2>4, Zenon DEF RingAt
  <1>8. r \in Queues
    BY <1>1, <1>2, DequeueType, Zenon
  <1> QED
    BY <1>1, <1>3, <1>6, <1>7, <1>8, Zenon DEF Rings, Dequeued

----------------------------------------------------------------------------
(* find_next_thread.                                                       *)

\* One round, field by field.
Rounded(run, s, r) ==
    LET t == s.q.next[s.q.head[s.i]] IN
    \/ s.next # Null /\ r = s
    \/ /\ s.next = Null /\ s.i < 0
       /\ r = [i |-> s.i, next |-> Idle, q |-> [s.q EXCEPT !.maxPrio = -1]]
    \/ /\ s.next = Null /\ s.i >= 0 /\ s.q.head[s.i] = Null
       /\ r = [i |-> s.i - 1, next |-> Null, q |-> s.q]
    \/ /\ s.next = Null /\ s.i >= 0 /\ s.q.head[s.i] # Null /\ t \in run
       /\ r = [i |-> s.i, next |-> t, q |-> [s.q EXCEPT !.head[s.i] = t, !.maxPrio = s.i]]
    \/ /\ s.next = Null /\ s.i >= 0 /\ s.q.head[s.i] # Null /\ t \notin run
       /\ r = [i |-> s.i, next |-> Null, q |-> ThreadDequeueReady(s.q, t)]

\* What one round of the loop of find_next_thread does.
LEMMA RoundWrites ==
    ASSUME NEW run, NEW s \in Searches
    PROVE  Rounded(run, s, SearchRound(run)[s])
  <1>1. s = [i |-> s.i, next |-> s.next, q |-> s.q] /\ s.i \in -1 .. MaxPrio
    BY Zenon DEF Searches
  <1>2. s.i < 0 \/ s.i >= 0
    BY <1>1, QueueAssumption
  <1>3. SearchRound(run)[s] =
            LET h == s.q.head[s.i]
                t == s.q.next[h]
            IN  IF s.next # Null THEN s
                ELSE IF s.i < 0 THEN [s EXCEPT !.next = Idle, !.q.maxPrio = -1]
                ELSE IF h = Null THEN [s EXCEPT !.i = @ - 1]
                ELSE IF t \in run
                     THEN [s EXCEPT !.next = t, !.q.head[s.i] = t, !.q.maxPrio = s.i]
                     ELSE [s EXCEPT !.q = ThreadDequeueReady(s.q, t)]
    BY Zenon DEF SearchRound
  <1>4. CASE s.next # Null
    BY <1>3, <1>4, Zenon DEF Rounded
  <1>5. CASE s.next = Null /\ s.i < 0
    BY <1>1, <1>3, <1>5, Zenon DEF Rounded
  <1>6. CASE s.next = Null /\ ~ (s.i < 0) /\ s.q.head[s.i] = Null
    BY <1>1, <1>2, <1>3, <1>6, Zenon DEF Rounded
  <1>7. CASE s.next = Null /\ ~ (s.i < 0) /\ s.q.head[s.i] # Null /\ s.q.next[s.q.head[s.i]] \in run
    BY <1>1, <1>2, <1>3, <1>7, Zenon DEF Rounded
  <1>8. CASE s.next = Null /\ ~ (s.i < 0) /\ s.q.head[s.i] # Null /\ s.q.next[s.q.head[s.i]] \notin run
    BY <1>1, <1>2, <1>3, <1>8, Zenon DEF Rounded
  <1> QED
    BY <1>4, <1>5, <1>6, <1>7, <1>8, Zenon

\* A round leads from a search to a search.
LEMMA RoundType ==
    ASSUME priority \in [Threads -> Prios], NEW run \in SUBSET Threads
    PROVE  SearchRound(run) \in [Searches -> Searches]
  <1> SUFFICES ASSUME NEW s \in Searches PROVE SearchRound(run)[s] \in Searches
    BY Zenon DEF SearchRound
  <1>1. PICK r : r = SearchRound(run)[s]
    BY Zenon
  <1>2. Rounded(run, s, r)
    BY <1>1, RoundWrites, Zenon
  <1>3. s.i \in -1 .. MaxPrio /\ s.next \in Threads \cup {Idle, Null} /\ s.q \in Queues
    BY Zenon DEF Searches
  <1>4. r.i \in -1 .. MaxPrio /\ r.next \in Threads \cup {Idle, Null}
    BY <1>2, <1>3, QueueAssumption, SMTT(30) DEF Rounded
  <1>5. r.q \in Queues
    <2>1. [s.q EXCEPT !.maxPrio = -1] \in Queues
      BY <1>3, QueueAssumption DEF Queues
    <2>2. ASSUME NEW t \in Threads, s.i >= 0
          PROVE  [s.q EXCEPT !.head[s.i] = t, !.maxPrio = s.i] \in Queues
      BY <1>3, <2>2, QueueAssumption, ZenonT(30) DEF Queues
    <2>3. \A t : ThreadDequeueReady(s.q, t) \in Queues
      BY <1>3, DequeueType, Zenon
    <2>4. PICK t : t = s.q.next[s.q.head[s.i]]
      BY Zenon
    <2>5. \/ r.q = s.q
          \/ r.q = [s.q EXCEPT !.maxPrio = -1]
          \/ t \in Threads /\ s.i >= 0 /\ r.q = [s.q EXCEPT !.head[s.i] = t, !.maxPrio = s.i]
          \/ r.q = ThreadDequeueReady(s.q, t)
      BY <1>2, <2>4, SMTT(30) DEF Rounded
    <2> QED
      BY <1>3, <2>1, <2>2, <2>3, <2>5, Zenon
  <1>6. r = s \/ r = [i |-> r.i, next |-> r.next, q |-> r.q]
    BY <1>2 DEF Rounded
  <1> QED
    BY <1>1, <1>4, <1>5, <1>6, SMTT(30) DEF Searches

\* The loop is the sequence of its rounds.
LEMMA SearchUnfold ==
    ASSUME priority \in [Threads -> Prios], NEW rq \in Queues, NEW run \in SUBSET Threads,
           NEW i \in -1 .. MaxPrio
    PROVE  \E g \in [Nat -> Searches] :
              /\ g[0] = [i |-> i, next |-> Null, q |-> rq]
              /\ \A n \in Nat : g[n + 1] = SearchRound(run)[g[n]]
              /\ Search(rq, run, i) = g[i + 2 + Cardinality(rq.queued)]
  <1> DEFINE a == [i |-> i, next |-> Null, q |-> rq]
             f == [n \in Nat |-> SearchRound(run)]
             Body(g) == [n \in Nat |-> IF n = 0 THEN a ELSE SearchRound(run)[g[n - 1]]]
             h == CHOOSE g : g = Body(g)
  <1>1. a \in Searches /\ f \in [Nat -> [Searches -> Searches]]
    BY RoundType, Zenon DEF Searches
  <1>2. PICK g \in [Nat -> Searches] : g[0] = a /\ \A n \in Nat : g[n + 1] = f[n][g[n]]
    <2> HIDE DEF a, f
    <2>1. Iterates(Searches, a, f)
      BY <1>1, Loop, Zenon
    <2> QED
      BY <2>1, Zenon DEF Iterates
  <1>3. \A n \in Nat : g[n + 1] = SearchRound(run)[g[n]]
    BY <1>2, Zenon
  <1>4. g = Body(g)
    <2> SUFFICES ASSUME NEW n \in Nat
                 PROVE  g[n] = IF n = 0 THEN a ELSE SearchRound(run)[g[n - 1]]
      BY <1>2, Zenon
    <2>1. CASE n = 0
      BY <1>2, <2>1, Zenon
    <2>2. CASE n # 0
      <3>1. n - 1 \in Nat /\ (n - 1) + 1 = n
        BY <2>2
      <3> QED
        BY <1>3, <2>2, <3>1, Zenon
    <2> QED
      BY <2>1, <2>2, Zenon
  <1>5. h = Body(h)
    BY <1>4, Zenon
  <1>6. h \in [Nat -> Searches] /\ h[0] = a /\ \A n \in Nat : h[n + 1] = SearchRound(run)[h[n]]
    <2>1. h[0] = a
      BY <1>5, Zenon
    <2>2. ASSUME NEW n \in Nat PROVE h[n + 1] = SearchRound(run)[h[n]]
      <3>1. n + 1 \in Nat /\ n + 1 # 0 /\ (n + 1) - 1 = n
        OBVIOUS
      <3> HIDE DEF h
      <3> QED
        BY <1>5, <3>1, Zenon
    <2>3. ASSUME NEW n \in Nat, h[n] # g[n] PROVE FALSE
      <3> DEFINE T == {m \in Nat : h[m] # g[m]}
      <3>1. PICK x \in T : \A y \in T : x <= y
        BY <2>3, Least, Zenon
      <3>2. x # 0
        BY <1>2, <2>1, <3>1, Zenon
      <3>3. x - 1 \in Nat /\ (x - 1) + 1 = x /\ x - 1 \notin T
        BY <3>1, <3>2
      <3> QED
        BY <1>3, <2>2, <3>1, <3>3
    <2>4. DOMAIN h = Nat /\ h = [n \in Nat |-> h[n]]
      BY <1>5, ZenonT(30)
    <2>5. \A n \in Nat : h[n] \in Searches
      BY <1>2, <2>3, Zenon
    <2> HIDE DEF h
    <2> QED
      BY <2>1, <2>2, <2>4, <2>5, SMTT(30)
  <1>7. Search(rq, run, i) = h[i + 2 + Cardinality(rq.queued)]
    BY Zenon DEF Search
  <1> HIDE DEF h
  <1> QED
    BY <1>6, <1>7, Zenon

\* The head of a queue may be any of its threads.
LEMMA RingsTurn ==
    ASSUME NEW prio, NEW rq, Rings(rq, prio), NEW r \in Queues,
           r.next = rq.next, r.prev = rq.prev, r.queued = rq.queued,
           \A p \in Prios : r.head[p] = rq.head[p] \/ r.head[p] \in Level(rq, prio, p)
    PROVE  Rings(r, prio)
  <1> SUFFICES ASSUME NEW p \in Prios PROVE RingAt(r, prio, p)
    BY Zenon DEF Rings
  <1>1. Level(r, prio, p) = Level(rq, prio, p)
    BY Zenon DEF Level
  <1>2. Ring(rq.head[p], rq.next, rq.prev, Level(rq, prio, p), Null)
    BY Zenon DEF Rings, RingAt
  <1>3. Ring(r.head[p], rq.next, rq.prev, Level(rq, prio, p), Null)
    BY <1>2, RingTurn, Zenon
  <1> QED
    BY <1>1, <1>3, Zenon DEF RingAt

\* Where the head leads.
LEMMA Heads ==
    ASSUME NEW prio, NEW rq, Rings(rq, prio), NEW p \in Prios
    PROVE  /\ rq.head[p] = Null => Level(rq, prio, p) = {}
           /\ rq.head[p] # Null => /\ rq.head[p] \in Level(rq, prio, p)
                                   /\ rq.next[rq.head[p]] \in Level(rq, prio, p)
  <1>1. Ring(rq.head[p], rq.next, rq.prev, Level(rq, prio, p), Null)
    BY Zenon DEF Rings, RingAt
  <1>2. Null \notin Level(rq, prio, p)
    BY QueueAssumption, Zenon DEF Rings, Queues, Level
  <1> QED
    BY <1>1, <1>2, Zenon DEF Ring, Linked

\* The state of the search of the queues rq, after n rounds: what has been
\* dequeued does not run and is not below priority i, what is left is not
\* above it; every round so far has left a priority or dequeued a thread.
SearchInv(rq, run, n, s) ==
    /\ s \in Searches
    /\ Rings(s.q, priority)
    /\ s.q.queued \subseteq rq.queued
    /\ \A u \in rq.queued \ s.q.queued : u \notin run /\ priority[u] >= s.i
    /\ \A u \in s.q.queued : priority[u] <= s.i
    /\ s.next = Null => n + s.i + 1 + Cardinality(s.q.queued)
                            <= rq.maxPrio + 1 + Cardinality(rq.queued)
    /\ s.next = Idle => s.i = -1 /\ s.q.maxPrio = -1
    /\ s.next \in Threads => /\ s.next \in s.q.queued /\ s.next \in run
                             /\ priority[s.next] = s.i /\ s.q.maxPrio = s.i

\* The queues are finite.
LEMMA QueuedFinite ==
    ASSUME NEW rq \in Queues
    PROVE  IsFiniteSet(rq.queued) /\ Cardinality(rq.queued) \in Nat
  <1>1. rq.queued \subseteq Threads
    BY Zenon DEF Queues
  <1>2. IsFiniteSet(rq.queued)
    BY <1>1, QueueAssumption, FS_Subset, SMTT(30)
  <1> QED
    BY <1>2, FS_CardinalityType, Zenon

\* Every round keeps it.
LEMMA RoundKeeps ==
    ASSUME priority \in [Threads -> Prios], NEW run \in SUBSET Threads, NEW rq \in Queues,
           NEW n \in Nat, NEW s, SearchInv(rq, run, n, s)
    PROVE  SearchInv(rq, run, n + 1, SearchRound(run)[s])
  <1>1. PICK r, t, P : /\ r = SearchRound(run)[s] /\ t = s.q.next[s.q.head[s.i]]
                       /\ P = Level(s.q, priority, s.i)
    BY Zenon
  <1>2. s \in Searches /\ Rings(s.q, priority)
    BY Zenon DEF SearchInv
  <1>3. Rounded(run, s, r) /\ r \in Searches
    BY <1>1, <1>2, RoundWrites, RoundType, Zenon
  <1>4. s.i \in -1 .. MaxPrio /\ s.q \in Queues /\ r.q \in Queues
    BY <1>2, <1>3, Zenon DEF Searches
  <1>5. MaxPrio \in Nat /\ rq.maxPrio \in Int
    BY QueueAssumption DEF Queues
  <1>6. IsFiniteSet(s.q.queued) /\ Cardinality(s.q.queued) \in Nat /\ Cardinality(rq.queued) \in Nat
    BY <1>4, QueuedFinite, Zenon
  <1>7. \A u \in rq.queued : priority[u] \in Prios /\ u \in Threads
    BY Zenon DEF Queues
  <1>8. CASE s.next # Null /\ r = s
    BY <1>1, <1>8, Zenon DEF SearchInv
  <1>9. CASE /\ s.next = Null /\ s.i < 0
             /\ r = [i |-> s.i, next |-> Idle, q |-> [s.q EXCEPT !.maxPrio = -1]]
    <2>1. /\ r.q.next = s.q.next /\ r.q.prev = s.q.prev /\ r.q.queued = s.q.queued
          /\ r.q.head = s.q.head /\ r.q.maxPrio = -1 /\ r.i = -1 /\ r.next = Idle
      BY <1>4, <1>5, <1>9 DEF Queues
    <2>2. Rings(r.q, priority)
      BY <1>2, <1>4, <2>1, RingsTurn, SMTT(30)
    <2> QED
      BY <1>1, <1>3, <1>4, <1>5, <1>9, <2>1, <2>2, QueueAssumption, SMTT(30) DEF SearchInv
  <1>10. CASE /\ s.next = Null /\ s.i >= 0 /\ s.q.head[s.i] = Null
              /\ r = [i |-> s.i - 1, next |-> Null, q |-> s.q]
    <2>1. s.i \in Prios
      BY <1>4, <1>5, <1>10 DEF Prios
    <2>2. P = {}
      BY <1>1, <1>2, <1>10, <2>1, Heads, Zenon
    <2>3. \A u \in s.q.queued : priority[u] <= s.i - 1
      <3> SUFFICES ASSUME NEW u \in s.q.queued PROVE priority[u] <= s.i - 1
        BY Zenon
      <3>1. priority[u] # s.i /\ priority[u] <= s.i /\ priority[u] \in Prios
        BY <1>1, <1>7, <2>2, Zenon DEF Level, SearchInv
      <3> QED
        BY <1>4, <1>5, <3>1 DEF Prios
    <2>4. \A u \in rq.queued \ s.q.queued : u \notin run /\ priority[u] >= s.i - 1
      <3> SUFFICES ASSUME NEW u \in rq.queued \ s.q.queued
                   PROVE  u \notin run /\ priority[u] >= s.i - 1
        BY Zenon
      <3>1. u \notin run /\ priority[u] >= s.i /\ priority[u] \in Prios
        BY <1>7, Zenon DEF SearchInv
      <3> QED
        BY <1>4, <1>5, <3>1 DEF Prios
    <2>5. n + s.i + 1 + Cardinality(s.q.queued) <= rq.maxPrio + 1 + Cardinality(rq.queued)
      BY <1>10, Zenon DEF SearchInv
    <2>6. (n + 1) + (s.i - 1) + 1 + Cardinality(s.q.queued) <= rq.maxPrio + 1 + Cardinality(rq.queued)
      BY <1>4, <1>5, <1>6, <2>5
    <2>7. r.i = s.i - 1 /\ r.next = Null /\ r.q = s.q
      BY <1>10, SMTT(30)
    <2> QED
      BY <1>1, <1>2, <1>3, <2>3, <2>4, <2>6, <2>7, QueueAssumption DEF SearchInv
  <1>11. CASE /\ s.next = Null /\ s.i >= 0 /\ s.q.head[s.i] # Null /\ t \in run
              /\ r = [i |-> s.i, next |-> t, q |-> [s.q EXCEPT !.head[s.i] = t, !.maxPrio = s.i]]
    <2>1. s.i \in Prios
      BY <1>4, <1>5, <1>11, SMTT(30) DEF Prios
    <2>2. t \in P
      BY <1>1, <1>2, <1>11, <2>1, Heads, SMTT(30)
    <2>3. t \in s.q.queued /\ priority[t] = s.i /\ t \in Threads
      BY <1>1, <1>4, <2>2, Zenon DEF Level, Queues
    <2>4. /\ r.q.next = s.q.next /\ r.q.prev = s.q.prev /\ r.q.queued = s.q.queued
          /\ r.q.head = [s.q.head EXCEPT ![s.i] = t] /\ r.q.maxPrio = s.i /\ r.i = s.i /\ r.next = t
      BY <1>4, <1>11, Zenon DEF Queues
    <2>5. \A p \in Prios : r.q.head[p] = s.q.head[p] \/ r.q.head[p] \in Level(s.q, priority, p)
      BY <1>1, <1>4, <2>1, <2>2, <2>4, Zenon DEF Queues, Prios
    <2>6. Rings(r.q, priority)
      BY <1>2, <1>4, <2>4, <2>5, RingsTurn, Zenon
    <2> QED
      BY <1>1, <1>3, <1>11, <2>3, <2>4, <2>6, QueueAssumption, Zenon DEF SearchInv
  <1>12. CASE /\ s.next = Null /\ s.i >= 0 /\ s.q.head[s.i] # Null /\ t \notin run
              /\ r = [i |-> s.i, next |-> Null, q |-> ThreadDequeueReady(s.q, t)]
    <2>1. s.i \in Prios
      BY <1>4, <1>5, <1>12, SMTT(30) DEF Prios
    <2>2. t \in P
      BY <1>1, <1>2, <1>12, <2>1, Heads, Zenon
    <2>3. t \in s.q.queued /\ priority[t] = s.i
      BY <1>1, <2>2, Zenon DEF Level
    <2>4. Rings(r.q, priority) /\ r.q.queued = s.q.queued \ {t} /\ r.i = s.i /\ r.next = Null
      BY <1>2, <1>12, <2>3, DequeueRings, Zenon
    <2>5. Cardinality(r.q.queued) = Cardinality(s.q.queued) - 1
      <3>1. Cardinality(s.q.queued \ {t}) = IF t \in s.q.queued THEN Cardinality(s.q.queued) - 1
                                                           ELSE Cardinality(s.q.queued)
        BY <1>6, FS_RemoveElement, Zenon
      <3> QED
        BY <2>3, <2>4, <3>1, Zenon
    <2>6. n + s.i + 1 + Cardinality(s.q.queued) <= rq.maxPrio + 1 + Cardinality(rq.queued)
      BY <1>12, Zenon DEF SearchInv
    <2>7. (n + 1) + s.i + 1 + Cardinality(r.q.queued) <= rq.maxPrio + 1 + Cardinality(rq.queued)
      BY <1>4, <1>5, <1>6, <2>5, <2>6
    <2>8. \A u \in rq.queued \ r.q.queued : u \notin run /\ priority[u] >= r.i
      BY <1>4, <1>5, <1>12, <2>3, <2>4, SMTT(30) DEF SearchInv
    <2>9. r.q.queued \subseteq rq.queued /\ \A u \in r.q.queued : priority[u] <= r.i
      BY <2>4, Zenon DEF SearchInv
    <2> QED
      BY <1>1, <1>3, <2>4, <2>7, <2>8, <2>9, QueueAssumption, Zenon DEF SearchInv
  <1> QED
    BY <1>1, <1>3, <1>8, <1>9, <1>10, <1>11, <1>12, Zenon DEF Rounded

\* So the search finds what find_next_thread promises.
LEMMA FindNextRefines ==
    ASSUME priority \in [Threads -> Prios], NEW run \in SUBSET Threads, NEW rq, Sound(rq, priority),
           NEW found, found = FindNextThread(rq, run)
    PROVE  /\ ThisScheduler!FindNextThread(run, rq.queued, found.next, found.q.queued)
           /\ Sound(found.q, priority)
           /\ found.next \in Threads \cup {Idle}
           /\ found.next # Idle => found.next \in run
  <1>1. rq \in Queues /\ rq.maxPrio \in -1 .. MaxPrio
    BY Zenon DEF Sound, Rings, Queues
  <1>2. PICK g \in [Nat -> Searches] :
              /\ g[0] = [i |-> rq.maxPrio, next |-> Null, q |-> rq]
              /\ \A n \in Nat : g[n + 1] = SearchRound(run)[g[n]]
              /\ Search(rq, run, rq.maxPrio) = g[rq.maxPrio + 2 + Cardinality(rq.queued)]
    BY <1>1, SearchUnfold
  <1>3. Cardinality(rq.queued) \in Nat
    BY <1>1, QueuedFinite, Zenon
  <1>4. PICK N : N = rq.maxPrio + 2 + Cardinality(rq.queued)
    BY Zenon
  <1>5. N \in Nat /\ found = g[N]
    BY <1>1, <1>2, <1>3, <1>4, QueueAssumption DEF FindNextThread
  <1>6. SearchInv(rq, run, 0, g[0])
    <2>1. g[0] \in Searches /\ g[0].i = rq.maxPrio /\ g[0].next = Null /\ g[0].q = rq
      BY <1>2
    <2>2. 0 + rq.maxPrio + 1 + Cardinality(rq.queued) <= rq.maxPrio + 1 + Cardinality(rq.queued)
      BY <1>1, <1>3, QueueAssumption
    <2> QED
      BY <2>1, <2>2, QueueAssumption, Zenon DEF SearchInv, Sound, Bounded
  <1>7. SearchInv(rq, run, N, g[N])
    <2> DEFINE T == {m \in Nat : ~ SearchInv(rq, run, m, g[m])}
    <2> SUFFICES ASSUME T # {} PROVE FALSE
      BY <1>5, Zenon
    <2>1. PICK x \in T : \A y \in T : x <= y
      BY Least, Zenon
    <2>2. x # 0
      BY <1>6, <2>1, Zenon
    <2>3. x - 1 \in Nat /\ (x - 1) + 1 = x /\ x - 1 \notin T
      BY <2>1, <2>2
    <2>4. PICK y \in Nat : y = x - 1 /\ y + 1 = x
      BY <2>3, Zenon
    <2>5. SearchInv(rq, run, y, g[y])
      BY <2>3, <2>4, Zenon
    <2>6. SearchInv(rq, run, y + 1, SearchRound(run)[g[y]])
      BY <1>1, <2>5, RoundKeeps, Zenon
    <2> QED
      BY <1>2, <2>1, <2>4, <2>6, Zenon
  <1>8. SearchInv(rq, run, N, found)
    BY <1>5, <1>7, Zenon
  <1>9. /\ found.i \in -1 .. MaxPrio /\ found.next \in Threads \cup {Idle, Null}
        /\ found.q \in Queues /\ Cardinality(found.q.queued) \in Nat
    BY <1>8, QueuedFinite, Zenon DEF SearchInv, Searches
  <1>10. found.next # Null
    <2> SUFFICES ASSUME found.next = Null PROVE FALSE
      BY Zenon
    <2>1. N + found.i + 1 + Cardinality(found.q.queued) <= rq.maxPrio + 1 + Cardinality(rq.queued)
      BY <1>8, Zenon DEF SearchInv
    <2> QED
      BY <1>1, <1>3, <1>4, <1>9, <2>1, QueueAssumption
  <1>11. \A u \in rq.queued : u \in Threads /\ priority[u] \in Prios
    BY <1>1, Zenon DEF Queues
  <1>12. /\ Rings(found.q, priority) /\ found.q.queued \subseteq rq.queued
         /\ \A u \in rq.queued \ found.q.queued : u \notin run /\ priority[u] >= found.i
         /\ \A u \in found.q.queued : priority[u] <= found.i
    BY <1>8, Zenon DEF SearchInv
  <1>13. CASE found.next = Idle
    <2>1. found.i = -1
      BY <1>8, <1>13, Zenon DEF SearchInv
    <2>2. found.q.queued = {}
      BY <1>11, <1>12, <2>1, QueueAssumption DEF Prios
    <2>3. rq.queued \cap run = {}
      BY <1>12, <2>2, Zenon
    <2>4. ThisScheduler!FindNextThread(run, rq.queued, found.next, found.q.queued)
      BY <1>13, <2>2, <2>3, Zenon DEF ThisScheduler!FindNextThread
    <2> QED
      BY <1>9, <1>12, <1>13, <2>2, <2>4, Zenon DEF Sound, Bounded
  <1>14. CASE found.next # Idle
    <2>1. /\ found.next \in Threads /\ found.next \in found.q.queued /\ found.next \in run
          /\ priority[found.next] = found.i /\ found.q.maxPrio = found.i
      BY <1>8, <1>9, <1>10, <1>14, Zenon DEF SearchInv
    <2>2. found.next \in rq.queued \cap run
      BY <1>12, <2>1, Zenon
    <2>3. \A u \in rq.queued \cap run : priority[u] <= priority[found.next]
      BY <1>12, <2>1, Zenon
    <2>4. found.next \in ThisScheduler!Candidates(run, rq.queued)
      BY <2>2, <2>3, Zenon DEF ThisScheduler!Candidates
    <2>5. PICK passed : passed = {u \in rq.queued \ found.q.queued : priority[u] = priority[found.next]}
      BY Zenon
    <2>6. passed \in SUBSET {u \in rq.queued \ run : priority[u] = priority[found.next]}
      BY <1>12, <2>5, Zenon
    <2>7. found.q.queued = {u \in rq.queued : priority[u] <= priority[found.next]} \ passed
      <3>1. ASSUME NEW u \in found.q.queued
            PROVE  u \in {v \in rq.queued : priority[v] <= priority[found.next]} \ passed
        BY <1>12, <2>1, <2>5, Zenon
      <3>2. ASSUME NEW u \in {v \in rq.queued : priority[v] <= priority[found.next]} \ passed
            PROVE  u \in found.q.queued
        <4>1. CASE u \notin found.q.queued
          <5>1. priority[u] >= found.i /\ priority[u] <= found.i /\ priority[u] \in Prios
            BY <1>11, <1>12, <2>1, <4>1, Zenon
          <5>2. priority[u] = priority[found.next]
            BY <1>9, <2>1, <5>1, QueueAssumption DEF Prios
          <5> QED
            BY <2>5, <4>1, <5>2, Zenon
        <4> QED
          BY <4>1, Zenon
      <3> QED
        BY <3>1, <3>2, Zenon
    <2>8. ThisScheduler!FindNextThread(run, rq.queued, found.next, found.q.queued)
      BY <2>2, <2>4, <2>6, <2>7, Zenon DEF ThisScheduler!FindNextThread
    <2> QED
      BY <1>12, <2>1, <2>8, Zenon DEF Sound, Bounded
  <1> QED
    BY <1>13, <1>14, Zenon

----------------------------------------------------------------------------
(* parse_wakeup_queue and final_init enqueue several threads.              *)

\* Enqueueing a list of threads, one by one, keeps the rings, and queues just these.
LEMMA EnqueueAllSound ==
    ASSUME priority \in [Threads -> Prios], NEW rq, Sound(rq, priority), NEW s \in Seq(Threads)
    PROVE  /\ Sound(EnqueueAll(rq, s), priority)
           /\ EnqueueAll(rq, s).queued = rq.queued \cup {s[j] : j \in DOMAIN s}
  <1> DEFINE S == {x \in Queues : Sound(x, priority)}
             f == [n \in Nat |-> [x \in S |->
                     IF n < Len(s) THEN ThreadEnqueueReady(x, s[n + 1]) ELSE x]]
             Body(g) == [n \in 0 .. Len(s) |->
                            IF n = 0 THEN rq ELSE ThreadEnqueueReady(g[n - 1], s[n])]
             h == CHOOSE g : g = Body(g)
  <1>1. Len(s) \in Nat /\ DOMAIN s = 1 .. Len(s) /\ \A n \in 1 .. Len(s) : s[n] \in Threads
    OBVIOUS
  <1>2. ASSUME NEW x \in S, NEW t \in Threads
        PROVE  ThreadEnqueueReady(x, t) \in S /\ ThreadEnqueueReady(x, t).queued = x.queued \cup {t}
    BY EnqueueSound DEF ThreadEnqueueReady, Sound, Rings
  <1>3. rq \in S
    BY Zenon DEF Sound, Rings
  <1>4. f \in [Nat -> [S -> S]]
    <2> SUFFICES ASSUME NEW n \in Nat, NEW x \in S
                 PROVE  (IF n < Len(s) THEN ThreadEnqueueReady(x, s[n + 1]) ELSE x) \in S
      BY Zenon
    <2>1. CASE n < Len(s)
      <3>1. s[n + 1] \in Threads
        BY <1>1, <2>1
      <3> HIDE DEF S
      <3> QED
        BY <1>2, <2>1, <3>1, Zenon
    <2> QED
      BY <2>1, Zenon
  <1>5. PICK g \in [Nat -> S] : g[0] = rq /\ \A n \in Nat : g[n + 1] = f[n][g[n]]
    <2> HIDE DEF S, f
    <2>1. Iterates(S, rq, f)
      BY <1>3, <1>4, Loop, Zenon
    <2> QED
      BY <2>1, Zenon DEF Iterates
  <1>6. ASSUME NEW n \in 1 .. Len(s)
        PROVE  n - 1 \in Nat /\ n - 1 \in 0 .. Len(s) /\ g[n] = ThreadEnqueueReady(g[n - 1], s[n])
    <2>1. PICK m \in Nat : m = n - 1 /\ m + 1 = n /\ m < Len(s)
      BY <1>1
    <2>2. g[n] = f[m][g[m]] /\ g[m] \in S
      BY <1>5, <2>1, Zenon
    <2>3. f[m][g[m]] = ThreadEnqueueReady(g[m], s[n])
      <3> HIDE DEF S
      <3> QED
        BY <2>1, <2>2, Zenon
    <2> QED
      BY <1>1, <2>1, <2>2, <2>3
  <1> DEFINE k == [n \in 0 .. Len(s) |-> g[n]]
  <1>7. k = Body(k)
    <2> SUFFICES ASSUME NEW n \in 0 .. Len(s)
                 PROVE  g[n] = IF n = 0 THEN rq ELSE ThreadEnqueueReady(k[n - 1], s[n])
      BY Zenon
    <2>1. CASE n = 0
      BY <1>5, <2>1, Zenon
    <2>2. CASE n # 0
      <3>1. n \in 1 .. Len(s)
        BY <1>1, <2>2
      <3>2. k[n - 1] = g[n - 1]
        BY <1>6, <3>1, Zenon
      <3> QED
        BY <1>6, <2>2, <3>1, <3>2, Zenon
    <2> QED
      BY <2>1, <2>2, Zenon
  <1>8. h = Body(h)
    <2> HIDE DEF k
    <2> QED
      BY <1>7, Zenon
  <1>9. EnqueueAll(rq, s) = h[Len(s)]
    BY Zenon DEF EnqueueAll
  <1> HIDE DEF h, S, k, f
  <1>10. ASSUME NEW n \in 0 .. Len(s)
         PROVE  h[n] = g[n] /\ g[n] \in S /\ g[n].queued = rq.queued \cup {s[j] : j \in 1 .. n}
    <2> DEFINE Good(m) == h[m] = g[m] /\ g[m].queued = rq.queued \cup {s[j] : j \in 1 .. m}
               T == {m \in Nat : m <= Len(s) /\ ~ Good(m)}
    <2>1. g[n] \in S
      BY <1>1, <1>5
    <2> SUFFICES ASSUME T # {} PROVE FALSE
      BY <1>1, <2>1
    <2>2. PICK x \in T : \A y \in T : x <= y
      BY Least, Zenon
    <2>3. x # 0
      <3>1. h[0] = rq
        BY <1>1, <1>8
      <3>2. 1 .. 0 = {}
        OBVIOUS
      <3>3. Good(0)
        BY <1>5, <3>1, <3>2, Zenon
      <3> QED
        BY <2>2, <3>3, Zenon
    <2>4. PICK y \in Nat : y = x - 1 /\ y + 1 = x /\ y \in 0 .. Len(s) /\ x \in 1 .. Len(s)
      BY <1>1, <2>2, <2>3
    <2>5. Good(y)
      BY <1>1, <2>2, <2>4
    <2>6. g[x] = ThreadEnqueueReady(g[y], s[x]) /\ h[x] = ThreadEnqueueReady(h[y], s[x])
      <3>1. g[x] = ThreadEnqueueReady(g[y], s[x])
        BY <1>6, <2>4, Zenon
      <3>2. x \in 0 .. Len(s) /\ x - 1 = y
        BY <1>1, <2>4
      <3> QED
        BY <1>8, <2>3, <3>1, <3>2, Zenon
    <2>7. g[x].queued = g[y].queued \cup {s[x]}
      <3>1. g[y] \in S /\ s[x] \in Threads
        BY <1>1, <1>5, <2>4, Zenon
      <3> QED
        BY <1>2, <2>6, <3>1, Zenon
    <2>8. {s[j] : j \in 1 .. x} = {s[j] : j \in 1 .. y} \cup {s[x]}
      <3>1. 1 .. x = (1 .. y) \cup {x}
        BY <2>4
      <3> QED
        BY <3>1, Zenon
    <2>9. Good(x)
      BY <2>5, <2>6, <2>7, <2>8, Zenon
    <2> QED
      BY <2>2, <2>9, Zenon
  <1>11. Len(s) \in 0 .. Len(s)
    BY <1>1
  <1> QED
    BY <1>1, <1>9, <1>10, <1>11, SMTT(30) DEF S

----------------------------------------------------------------------------
(* The steps.                                                              *)

\* dispatch_thread turns a ring.
LEMMA DispatchSound ==
    ASSUME priority \in [Threads -> Prios], NEW rq, Sound(rq, priority), NEW t, Dispatch(rq, t)
    PROVE  Sound(q', priority) /\ q'.queued = rq.queued /\ current' = t
  <1>1. CASE t # current /\ t \in rq.queued
    <2>1. PICK r, p : r = q' /\ p = priority[t]
      BY Zenon
    <2>2. r = [rq EXCEPT !.head[p] = t]
      BY <1>1, <2>1, Zenon DEF Dispatch
    <2>3. rq \in Queues /\ t \in Threads /\ p \in Prios /\ t \in Level(rq, priority, p)
      BY <1>1, <2>1, Zenon DEF Sound, Rings, Queues, Level
    <2>4. /\ r \in Queues /\ r.next = rq.next /\ r.prev = rq.prev /\ r.queued = rq.queued
          /\ r.maxPrio = rq.maxPrio /\ r.head = [rq.head EXCEPT ![p] = t]
      BY <2>2, <2>3, Zenon DEF Queues, Prios
    <2>5. \A x \in Prios : r.head[x] = rq.head[x] \/ r.head[x] \in Level(rq, priority, x)
      BY <2>3, <2>4, Zenon DEF Queues, Prios
    <2>6. Rings(r, priority)
      BY <2>4, <2>5, RingsTurn, Zenon DEF Sound
    <2> QED
      BY <2>1, <2>4, <2>6, Zenon DEF Sound, Bounded, Dispatch
  <1>2. CASE ~ (t # current /\ t \in rq.queued)
    BY <1>2, Zenon DEF Dispatch
  <1> QED
    BY <1>1, <1>2, Zenon

\* The inductive invariant: the rings, the bound, and the owner of the
\* processor runs.
RInv ==
    /\ runnable \in SUBSET Threads /\ current \in Threads \cup {Idle}
    /\ priority \in [Threads -> Prios]
    /\ Sound(q, priority)
    /\ current # Idle => current \in runnable

\* thread_enqueue_ready of a thread.
LEMMA EnqueueReady ==
    ASSUME priority \in [Threads -> Prios], NEW rq, Sound(rq, priority), NEW t \in Threads
    PROVE  /\ Sound(ThreadEnqueueReady(rq, t), priority)
           /\ ThreadEnqueueReady(rq, t).queued = rq.queued \cup {t}
  BY EnqueueSound, ZenonT(30) DEF ThreadEnqueueReady

\* thread_dequeue_ready of a thread, queued or not.
LEMMA DequeueReady ==
    ASSUME priority \in [Threads -> Prios], NEW rq, Sound(rq, priority), NEW t \in Threads
    PROVE  /\ Sound(ThreadDequeueReady(rq, t), priority)
           /\ ThreadDequeueReady(rq, t).queued = rq.queued \ {t}
  <1>1. CASE t \notin rq.queued
    BY <1>1, Zenon DEF ThreadDequeueReady
  <1>2. CASE t \in rq.queued
    BY <1>2, DequeueRings DEF Sound, Bounded
  <1> QED
    BY <1>1, <1>2, Zenon

\* The priority of a thread that is not queued does not matter.
LEMMA SoundFrame ==
    ASSUME NEW prio \in [Threads -> Prios], NEW rq, Sound(rq, prio), NEW t, t \notin rq.queued, NEW p
    PROVE  Sound(rq, [prio EXCEPT ![t] = p])
  <1>1. \A u \in rq.queued : [prio EXCEPT ![t] = p][u] = prio[u]
    BY Zenon DEF Sound, Rings, Queues
  <1>2. \A x : Level(rq, [prio EXCEPT ![t] = p], x) = Level(rq, prio, x)
    BY <1>1, Zenon DEF Level
  <1> QED
    BY <1>1, <1>2, Zenon DEF Sound, Rings, RingAt, Bounded

\* The idle loop.
LEMMA IdleLoopStep ==
    ASSUME RInv, IdleLoop
    PROVE  RInv' /\ ThisScheduler!Next
  <1>1. PICK found : found = FindNextThread(q, runnable) /\ Dispatch(found.q, found.next)
    BY Zenon DEF IdleLoop
  <1>2. /\ ThisScheduler!FindNextThread(runnable, q.queued, found.next, found.q.queued)
        /\ Sound(found.q, priority) /\ found.next \in Threads \cup {Idle}
        /\ found.next # Idle => found.next \in runnable
    BY <1>1, FindNextRefines, Zenon DEF RInv
  <1>3. Sound(q', priority) /\ q'.queued = found.q.queued /\ current' = found.next
    BY <1>1, <1>2, DispatchSound, Zenon DEF RInv
  <1>4. UNCHANGED <<runnable, priority>> /\ current = Idle
    BY Zenon DEF IdleLoop
  <1>5. RInv'
    BY <1>2, <1>3, <1>4, Zenon DEF RInv
  <1>6. ThisScheduler!IdleLoop
    BY <1>2, <1>3, <1>4, Zenon DEF ThisScheduler!IdleLoop
  <1> QED
    BY <1>5, <1>6, Zenon DEF ThisScheduler!Next

\* sys_thread_switch.
LEMMA SysThreadSwitchStep ==
    ASSUME RInv, NEW t \in Named \cup {Null}, SysThreadSwitch(t)
    PROVE  RInv' /\ ThisScheduler!Next
  <1>1. PICK q1 : q1 = ThreadEnqueueReady(q, current)
    BY Zenon
  <1>2. PICK found : found = FindNextThread(q1, runnable)
    BY Zenon
  <1>3. /\ current # Idle /\ UNCHANGED <<runnable, priority>>
        /\ IF t \in runnable THEN Dispatch(q1, t) ELSE Dispatch(found.q, found.next)
    BY <1>1, <1>2, Zenon DEF SysThreadSwitch
  <1>4. current \in Threads /\ Sound(q1, priority) /\ q1.queued = q.queued \cup {current}
    BY <1>1, <1>3, EnqueueReady, Zenon DEF RInv
  <1>5. CASE t \in runnable
    <2>1. Sound(q', priority) /\ q'.queued = q1.queued /\ current' = t
      BY <1>3, <1>4, <1>5, DispatchSound, Zenon DEF RInv
    <2>2. RInv' /\ t \in Threads
      BY <1>3, <1>5, <2>1, Zenon DEF RInv
    <2>3. ThisScheduler!SysThreadSwitch(t)
      BY <1>3, <1>4, <1>5, <2>1, Zenon DEF ThisScheduler!SysThreadSwitch
    <2> QED
      BY <2>2, <2>3, Zenon DEF ThisScheduler!Next
  <1>6. CASE t \notin runnable
    <2>1. /\ ThisScheduler!FindNextThread(runnable, q1.queued, found.next, found.q.queued)
          /\ Sound(found.q, priority) /\ found.next \in Threads \cup {Idle}
          /\ found.next # Idle => found.next \in runnable
      BY <1>2, <1>4, FindNextRefines, Zenon DEF RInv
    <2>2. Sound(q', priority) /\ q'.queued = found.q.queued /\ current' = found.next
      BY <1>3, <1>6, <2>1, DispatchSound, Zenon DEF RInv
    <2>3. RInv'
      BY <1>3, <2>1, <2>2, Zenon DEF RInv
    <2>4. ThisScheduler!FindNextThread(runnable, q.queued \cup {current}, current', q'.queued)
      BY <1>4, <2>1, <2>2, Zenon
    <2>5. CASE t \in Threads
      <3>1. ThisScheduler!SysThreadSwitch(t)
        BY <1>3, <1>6, <2>4, Zenon DEF ThisScheduler!SysThreadSwitch
      <3> QED
        BY <2>3, <2>5, <3>1, Zenon DEF ThisScheduler!Next
    <2>6. CASE t = Null
      <3>1. q.queued \cup {} \cup ({current} \ {Idle}) = q.queued \cup {current}
            /\ runnable \cup {} = runnable
        BY <1>3, Zenon
      <3>2. ThisScheduler!HandleTimerInterrupt({})
        BY <1>3, <2>4, <3>1, Zenon DEF ThisScheduler!HandleTimerInterrupt
      <3> QED
        BY <2>3, <3>2, Zenon DEF ThisScheduler!Next
    <2> QED
      BY <2>5, <2>6, QueueAssumption, Zenon
  <1> QED
    BY <1>5, <1>6, Zenon

\* sys_schedule.
LEMMA SysScheduleStep ==
    ASSUME RInv, NEW t \in Threads, NEW p \in Priorities, SysSchedule(t, p)
    PROVE  RInv' /\ ThisScheduler!Next
  <1>1. PICK prio, r : prio = priority' /\ r = q'
    BY Zenon
  <1>2. /\ current # Idle /\ prio = [priority EXCEPT ![t] = p]
        /\ r = IF t \in q.queued /\ p # priority[t]
               THEN EnqueueAt(ThreadDequeueReady(q, t), t, p) ELSE q
        /\ UNCHANGED <<runnable, current>>
    BY <1>1, Zenon DEF SysSchedule
  <1>3. p \in Prios /\ prio \in [Threads -> Prios] /\ prio[t] = p
    BY <1>2, QueueAssumption, Zenon DEF RInv, Prios
  <1>4. Sound(r, prio) /\ r.queued = q.queued
    <2>1. CASE t \in q.queued /\ p # priority[t]
      <3>1. PICK x : x = ThreadDequeueReady(q, t)
        BY Zenon
      <3>2. Sound(x, priority) /\ x.queued = q.queued \ {t}
        BY <3>1, DequeueReady, Zenon DEF RInv
      <3>3. Sound(x, prio)
        BY <1>2, <3>2, SoundFrame, Zenon DEF RInv
      <3>4. r = EnqueueAt(x, t, prio[t])
        BY <1>2, <1>3, <2>1, <3>1, Zenon
      <3>5. Sound(r, prio) /\ r.queued = x.queued \cup {t}
        BY <1>3, <3>3, <3>4, EnqueueSound
      <3> QED
        BY <2>1, <3>2, <3>5, Zenon
    <2>2. CASE t \in q.queued /\ p = priority[t]
      <3>1. prio = priority /\ r = q
        BY <1>2, <2>2, Zenon DEF RInv
      <3> QED
        BY <3>1, Zenon DEF RInv
    <2>3. CASE t \notin q.queued
      <3>1. Sound(q, prio)
        BY <1>2, <2>3, SoundFrame, Zenon DEF RInv
      <3> QED
        BY <1>2, <2>3, <3>1, Zenon
    <2> QED
      BY <2>1, <2>2, <2>3, Zenon
  <1>5. RInv'
    BY <1>1, <1>2, <1>3, <1>4, Zenon DEF RInv
  <1>6. ThisScheduler!SysSchedule(t, p)
    BY <1>1, <1>2, <1>4, Zenon DEF ThisScheduler!SysSchedule
  <1>7. p \in ThisScheduler!Prios
    BY <1>3, Zenon DEF Prios, ThisScheduler!Prios
  <1> QED
    BY <1>5, <1>6, <1>7, Zenon DEF ThisScheduler!Next

\* A system call hands the processor over.
LEMMA HandoverStep ==
    ASSUME RInv, NEW next \in Named \cup {Idle}, NEW woken \in Threads \cup {Null},
           NEW blocks \in BOOLEAN, Handover(next, woken, blocks)
    PROVE  RInv' /\ ThisScheduler!Next
  <1>1. PICK q1 : q1 = IF woken = Null THEN q ELSE ThreadEnqueueReady(q, woken)
    BY Zenon
  <1>2. PICK r, W : r = q' /\ W = {woken} \ {Null}
    BY Zenon
  <1>3. /\ next # current /\ IF blocks THEN current # Idle ELSE next # Idle
        /\ r = IF blocks \/ current = Idle THEN q1 ELSE ThreadEnqueueReady(q1, current)
        /\ runnable' = ((runnable \cup {next, woken}) \ (IF blocks THEN {current} ELSE {}))
                          \ {Idle, Null}
        /\ current' = next /\ UNCHANGED priority
    BY <1>1, <1>2, Zenon DEF Handover
  <1>4. next \in Threads \cup {Idle} /\ W \in SUBSET Threads
    BY <1>2, QueueAssumption, Zenon
  <1>5. Sound(q1, priority) /\ q1.queued = q.queued \cup W
    <2>1. CASE woken = Null
      BY <1>1, <1>2, <2>1, Zenon DEF RInv
    <2>2. CASE woken # Null
      <3>1. woken \in Threads /\ q1 = ThreadEnqueueReady(q, woken) /\ W = {woken}
        BY <1>1, <1>2, <2>2, Zenon
      <3> QED
        BY <3>1, EnqueueReady, Zenon DEF RInv
    <2> QED
      BY <2>1, <2>2, Zenon
  <1>6. /\ Sound(r, priority)
        /\ r.queued = q.queued \cup W \cup (IF blocks THEN {} ELSE {current} \ {Idle})
    <2>1. CASE blocks \/ current = Idle
      BY <1>3, <1>5, <2>1, Zenon
    <2>2. CASE ~ (blocks \/ current = Idle)
      <3>1. current \in Threads /\ r = ThreadEnqueueReady(q1, current)
        BY <1>3, <2>2, Zenon DEF RInv
      <3>2. Sound(r, priority) /\ r.queued = q1.queued \cup {current}
        BY <1>5, <3>1, EnqueueReady, Zenon DEF RInv
      <3> QED
        BY <1>5, <2>2, <3>2, Zenon
    <2> QED
      BY <2>1, <2>2, Zenon
  <1>7. runnable' = ((runnable \cup W \cup {next}) \ (IF blocks THEN {current} ELSE {})) \ {Idle}
    BY <1>2, <1>3, <1>4, QueueAssumption, Zenon DEF RInv
  <1>8. RInv'
    <2>1. runnable' \in SUBSET Threads /\ (next # Idle => next \in runnable')
      BY <1>3, <1>4, <1>7, Zenon DEF RInv
    <2> QED
      BY <1>2, <1>3, <1>4, <1>6, <2>1, Zenon DEF RInv
  <1>9. ThisScheduler!Handover(next, W, blocks)
    BY <1>2, <1>3, <1>6, <1>7, Zenon DEF ThisScheduler!Handover
  <1> QED
    BY <1>4, <1>8, <1>9, Zenon DEF ThisScheduler!Next

\* A thread is made to run.
LEMMA ActivateStep ==
    ASSUME RInv, NEW t \in Threads, Activate(t)
    PROVE  RInv' /\ ThisScheduler!Next
  <1>1. Sound(q', priority) /\ q'.queued = q.queued \cup {t}
    BY EnqueueReady, Zenon DEF RInv, Activate
  <1>2. RInv'
    BY <1>1, Zenon DEF RInv, Activate
  <1>3. ThisScheduler!Activate({t})
    BY <1>1, Zenon DEF Activate, ThisScheduler!Activate
  <1> QED
    BY <1>2, <1>3, Zenon DEF ThisScheduler!Next

\* free_thread.
LEMMA FreeThreadStep ==
    ASSUME RInv, NEW t \in Threads, FreeThread(t)
    PROVE  RInv' /\ ThisScheduler!Next
  <1>1. Sound(q', priority) /\ q'.queued = q.queued \ {t}
    BY DequeueReady, Zenon DEF RInv, FreeThread
  <1>2. RInv'
    BY <1>1, Zenon DEF RInv, FreeThread
  <1>3. ThisScheduler!Remove({t}, {t}, {})
    BY <1>1, Zenon DEF FreeThread, ThisScheduler!Remove
  <1> QED
    BY <1>2, <1>3, Zenon DEF ThisScheduler!Next

\* A sequence that holds each thread of a set once.
LEMMA OrderOf ==
    ASSUME NEW S \in SUBSET Threads, NEW s \in Orders(S)
    PROVE  s \in Seq(Threads) /\ {s[j] : j \in DOMAIN s} = S
  <1>1. PICK n : n = Cardinality(S)
    BY Zenon
  <1>2. n \in Nat
    BY <1>1, QueueAssumption, FS_Subset, FS_CardinalityType, Zenon
  <1>3. s \in [1 .. n -> S] /\ \A x \in S : \E j \in 1 .. n : s[j] = x
    BY <1>1, Zenon DEF Orders, Bijection, Injection, Surjection
  <1> QED
    BY <1>2, <1>3

\* Of several threads, one comes first among those of the highest priority.
LEMMA FirstOfHighest ==
    ASSUME priority \in [Threads -> Prios], NEW s \in Seq(Threads), DOMAIN s # {}
    PROVE  \E j \in DOMAIN s : \A k \in DOMAIN s :
              \/ priority[s[k]] < priority[s[j]]
              \/ priority[s[k]] = priority[s[j]] /\ k >= j
  <1>1. /\ Len(s) \in Nat /\ DOMAIN s = 1 .. Len(s) /\ DOMAIN s # {} /\ MaxPrio \in Nat
        /\ \A k \in DOMAIN s : k \in Nat /\ s[k] \in Threads /\ priority[s[k]] \in 0 .. MaxPrio
    BY QueueAssumption DEF Prios
  <1> DEFINE T == {x \in Nat : \E k \in DOMAIN s : x = MaxPrio - priority[s[k]]}
  <1>2. T # {}
    <2>1. PICK k \in DOMAIN s : TRUE
      BY <1>1, Zenon
    <2>2. MaxPrio - priority[s[k]] \in Nat
      BY <1>1, <2>1
    <2> QED
      BY <2>2, Zenon
  <1>3. PICK x \in T : \A y \in T : x <= y
    BY <1>2, Least, Zenon
  <1> DEFINE U == {k \in Nat : k \in DOMAIN s /\ x = MaxPrio - priority[s[k]]}
  <1>4. U # {}
    BY <1>1, <1>3, Zenon
  <1>5. PICK j \in U : \A k \in U : j <= k
    BY <1>4, Least, Zenon
  <1>6. ASSUME NEW k \in DOMAIN s
        PROVE  \/ priority[s[k]] < priority[s[j]]
               \/ priority[s[k]] = priority[s[j]] /\ k >= j
    <2>1. PICK y : y = MaxPrio - priority[s[k]]
      BY Zenon
    <2>2. y \in Nat /\ x <= y /\ x \in Nat
      BY <1>1, <1>3, <2>1, SMTT(30)
    <2>3. CASE y = x
      <3>1. k \in U
        BY <1>1, <2>1, <2>3, Zenon
      <3>2. x = MaxPrio - priority[s[j]] /\ priority[s[j]] \in 0 .. MaxPrio /\ j \in Nat
        BY <1>1, <1>5, Zenon
      <3>3. priority[s[k]] \in 0 .. MaxPrio /\ k \in Nat /\ j <= k
        BY <1>1, <1>5, <3>1, Zenon
      <3> QED
        BY <1>1, <2>1, <2>3, <3>2, <3>3, SMTT(30)
    <2>4. CASE y # x
      <3>1. x = MaxPrio - priority[s[j]] /\ priority[s[j]] \in 0 .. MaxPrio
        BY <1>1, <1>5, Zenon
      <3>2. priority[s[k]] \in 0 .. MaxPrio
        BY <1>1, Zenon
      <3> QED
        BY <1>1, <2>1, <2>2, <2>4, <3>1, <3>2, SMTT(30)
    <2> QED
      BY <2>3, <2>4, Zenon
  <1> QED
    BY <1>5, <1>6, Zenon

\* The timer interrupt.
LEMMA TickStep ==
    ASSUME RInv, Tick
    PROVE  RInv' /\ ThisScheduler!Next
  <1>1. PICK who \in SUBSET (Threads \ runnable) :
            \E woken \in Orders(who) : HandleTimerInterrupt(woken)
    BY Zenon DEF Tick
  <1>2. PICK woken : /\ woken \in Seq(Threads) /\ {woken[j] : j \in DOMAIN woken} = who
                     /\ HandleTimerInterrupt(woken)
    BY <1>1, OrderOf, Zenon
  <1>3. PICK q1, run, prio : /\ q1 = EnqueueAll(q, woken) /\ run = runnable \cup who
                             /\ prio = IF current = Idle THEN 0 ELSE priority[current]
    BY Zenon
  <1>4. PICK q2 : q2 = IF current = Idle THEN q1 ELSE ThreadEnqueueReady(q1, current)
    BY Zenon
  <1>5. PICK found : found = FindNextThread(q2, run)
    BY Zenon
  <1>6. PICK preempt : preempt = {j \in DOMAIN woken :
                      /\ priority[woken[j]] > prio
                      /\ \A k \in DOMAIN woken :
                            \/ priority[woken[k]] < priority[woken[j]]
                            \/ priority[woken[k]] = priority[woken[j]] /\ k >= j}
    BY Zenon
  <1>7. /\ runnable' = run /\ UNCHANGED priority
        /\ \/ \E j \in preempt : Dispatch(q2, woken[j])
           \/ preempt = {} /\ q' = q2 /\ UNCHANGED current
           \/ preempt = {} /\ Dispatch(found.q, found.next)
    BY <1>2, <1>3, <1>4, <1>5, <1>6, Zenon DEF HandleTimerInterrupt
  <1>8. Sound(q1, priority) /\ q1.queued = q.queued \cup who
    BY <1>2, <1>3, EnqueueAllSound, Zenon DEF RInv
  <1>9. PICK rdy : rdy = q.queued \cup who \cup ({current} \ {Idle})
    BY Zenon
  <1>10. Sound(q2, priority) /\ q2.queued = rdy
    <2>1. CASE current = Idle
      BY <1>4, <1>8, <1>9, <2>1, Zenon
    <2>2. CASE current # Idle
      <3>1. current \in Threads /\ q2 = ThreadEnqueueReady(q1, current)
        BY <1>4, <2>2, Zenon DEF RInv
      <3>2. Sound(q2, priority) /\ q2.queued = q1.queued \cup {current}
        BY <1>8, <3>1, EnqueueReady, Zenon DEF RInv
      <3> QED
        BY <1>8, <1>9, <2>2, <3>2, Zenon
    <2> QED
      BY <2>1, <2>2, Zenon
  <1>11. /\ run \in SUBSET Threads /\ current \notin who /\ who \in SUBSET Threads
         /\ (current # Idle => current \in run) /\ prio \in Int
         /\ prio = ThisScheduler!PrioOf(current)
    BY <1>1, <1>3, QueueAssumption DEF RInv, ThisScheduler!PrioOf, Prios
  <1>12. PICK high : high = {t \in who : priority[t] > prio}
    BY Zenon
  <1>13. \A t \in who : \E j \in DOMAIN woken : t = woken[j]
    BY <1>2, Zenon
  <1>14. ASSUME NEW j \in preempt
         PROVE  woken[j] \in high /\ \A u \in high : priority[u] <= priority[woken[j]]
    <2>1. woken[j] \in who /\ priority[woken[j]] > prio
      BY <1>2, <1>6, Zenon
    <2>2. ASSUME NEW u \in high PROVE priority[u] <= priority[woken[j]]
      <3>1. PICK k \in DOMAIN woken : u = woken[k]
        BY <1>12, <1>13, Zenon
      <3>2. priority[u] < priority[woken[j]] \/ priority[u] = priority[woken[j]]
        BY <1>6, <3>1, SMTT(30)
      <3>3. priority[u] \in Int /\ priority[woken[j]] \in Int
        BY <1>11, <1>12, <2>1, QueueAssumption DEF RInv, Prios
      <3> QED
        BY <3>2, <3>3
    <2> QED
      BY <1>12, <2>1, <2>2, Zenon
  <1>15. ASSUME high # {} PROVE preempt # {}
    <2>1. DOMAIN woken # {}
      BY <1>12, <1>13, <1>15, SMTT(30)
    <2>2. PICK j \in DOMAIN woken : \A k \in DOMAIN woken :
              \/ priority[woken[k]] < priority[woken[j]]
              \/ priority[woken[k]] = priority[woken[j]] /\ k >= j
      BY <1>2, <2>1, FirstOfHighest, SMTT(30) DEF RInv
    <2>3. PICK k \in DOMAIN woken : priority[woken[k]] > prio
      BY <1>12, <1>13, <1>15, Zenon
    <2>4. priority[woken[k]] \in Int /\ priority[woken[j]] \in Int
      BY <1>2, <2>2, <2>3, QueueAssumption DEF RInv, Prios
    <2>5. priority[woken[j]] > prio
      BY <1>11, <2>2, <2>3, <2>4
    <2> QED
      BY <1>6, <2>2, <2>5, Zenon
  <1>16. ASSUME NEW c, current' = c, c \in Threads \cup {Idle}, c # Idle => c \in run,
                Sound(q', priority),
                IF high # {}
                THEN /\ c \in {t \in high : \A u \in high : priority[u] <= priority[t]}
                     /\ q'.queued = rdy
                ELSE \/ c = current /\ q'.queued = rdy
                     \/ ThisScheduler!FindNextThread(run, rdy, c, q'.queued)
         PROVE  RInv' /\ ThisScheduler!Next
    <2>1. RInv'
      BY <1>7, <1>11, <1>16, SMTT(30) DEF RInv
    <2>2. ThisScheduler!HandleTimerInterrupt(who)
      BY <1>3, <1>7, <1>9, <1>11, <1>12, <1>16, Zenon DEF ThisScheduler!HandleTimerInterrupt
    <2> QED
      BY <1>11, <2>1, <2>2, SMTT(30) DEF ThisScheduler!Next
  <1>17. CASE \E j \in preempt : Dispatch(q2, woken[j])
    <2>1. PICK j \in preempt : Dispatch(q2, woken[j])
      BY <1>17, Zenon
    <2>2. Sound(q', priority) /\ q'.queued = rdy /\ current' = woken[j]
      BY <1>10, <2>1, DispatchSound, SMTT(30) DEF RInv
    <2>3. woken[j] \in high /\ \A u \in high : priority[u] <= priority[woken[j]]
      BY <1>14, <2>1, Zenon
    <2>4. woken[j] \in Threads /\ woken[j] \in run
      BY <1>3, <1>11, <1>12, <2>3, SMTT(30)
    <2> QED
      BY <1>16, <2>2, <2>3, <2>4, Zenon
  <1>18. CASE preempt = {} /\ q' = q2 /\ UNCHANGED current
    <2>1. high = {}
      BY <1>15, <1>18, SMTT(30)
    <2> QED
      BY <1>10, <1>11, <1>16, <1>18, <2>1 DEF RInv
  <1>19. CASE preempt = {} /\ Dispatch(found.q, found.next)
    <2>1. high = {}
      BY <1>15, <1>19, SMTT(30)
    <2>2. /\ ThisScheduler!FindNextThread(run, q2.queued, found.next, found.q.queued)
          /\ Sound(found.q, priority) /\ found.next \in Threads \cup {Idle}
          /\ found.next # Idle => found.next \in run
      BY <1>5, <1>10, <1>11, FindNextRefines, SMTT(30) DEF RInv
    <2>3. Sound(q', priority) /\ q'.queued = found.q.queued /\ current' = found.next
      BY <1>19, <2>2, DispatchSound, Zenon DEF RInv
    <2> QED
      BY <1>10, <1>16, <2>1, <2>2, <2>3
  <1> QED
    BY <1>7, <1>17, <1>18, <1>19, Zenon

\* At the start the boot threads have been enqueued.
LEMMA InitStep ==
    ASSUME Init
    PROVE  RInv /\ ThisScheduler!Init
  <1>1. PICK empty : empty = [head |-> [p \in 0 .. MaxPrio |-> Null], next |-> [t \in Threads |-> Null],
                              prev |-> [t \in Threads |-> Null], queued |-> {}, maxPrio |-> -1]
    BY Zenon
  <1>2. PICK order \in Orders(Boot) : q = EnqueueAll(empty, order)
    BY <1>1, Zenon DEF Init
  <1>3. priority \in [Threads -> Prios] /\ runnable = Boot /\ current = Idle
    BY Zenon DEF Init, Prios
  <1>4. Sound(empty, priority)
    <2>1. empty \in Queues
      BY <1>1, QueueAssumption DEF Queues, Links
    <2>2. \A p \in Prios : Level(empty, priority, p) = {} /\ empty.head[p] = Null
      BY <1>1, Zenon DEF Level, Prios
    <2> QED
      BY <1>1, <2>1, <2>2, Zenon DEF Sound, Rings, RingAt, Ring, Bounded
  <1>5. Boot \in SUBSET Threads
    BY QueueAssumption, Zenon
  <1>6. order \in Seq(Threads) /\ {order[j] : j \in DOMAIN order} = Boot
    BY <1>5, OrderOf, Zenon
  <1>7. Sound(q, priority) /\ q.queued = empty.queued \cup {order[j] : j \in DOMAIN order}
    BY <1>2, <1>3, <1>4, <1>6, EnqueueAllSound, Zenon
  <1>8. q.queued = Boot
    BY <1>1, <1>6, <1>7, Zenon
  <1> QED
    BY <1>3, <1>5, <1>7, <1>8, Zenon DEF RInv, ThisScheduler!Init, Prios, ThisScheduler!Prios

\* Every step keeps the invariant and is a step of the scheduler.
LEMMA NextStep ==
    ASSUME RInv, [Next]_vars
    PROVE  RInv' /\ [ThisScheduler!Next]_(ThisScheduler!vars)
  <1>1. CASE UNCHANGED vars
    BY <1>1, Zenon DEF vars, RInv, ThisScheduler!vars
  <1>2. CASE Next
    <2>1. CASE IdleLoop
      BY <2>1, IdleLoopStep, Zenon
    <2>2. CASE Tick
      BY <2>2, TickStep, Zenon
    <2>3. CASE \E t \in Named \cup {Null} : SysThreadSwitch(t)
      BY <2>3, SysThreadSwitchStep, Zenon
    <2>4. CASE \E t \in Threads, p \in Priorities : SysSchedule(t, p)
      BY <2>4, SysScheduleStep, Zenon
    <2>5. CASE \E next \in Named \cup {Idle}, woken \in Threads \cup {Null}, blocks \in BOOLEAN :
                  Handover(next, woken, blocks)
      BY <2>5, HandoverStep, Zenon
    <2>6. CASE \E t \in Threads : Activate(t) \/ FreeThread(t)
      BY <2>6, ActivateStep, FreeThreadStep, Zenon
    <2> QED
      BY <1>2, <2>1, <2>2, <2>3, <2>4, <2>5, <2>6, Zenon DEF Next
  <1> QED
    BY <1>1, <1>2, Zenon

\* The invariant holds in every reachable state.
LEMMA RInvAlways == Spec => []RInv
  <1>1. Init => RInv
    BY InitStep, Zenon
  <1>2. RInv /\ [Next]_vars => RInv'
    BY NextStep, Zenon
  <1> QED
    BY <1>1, <1>2, PTL DEF Spec

(***************************************************************************)
(* Each queue is one ring of exactly the threads of its priority, whatever *)
(* the number of threads and priorities (schedule.h, find_next_thread).    *)
(***************************************************************************)
THEOREM ReadyQueuesLinked == Spec => []ReadyRings
  <1>1. RInv => ReadyRings
    BY ReadyRingsOf, Zenon DEF RInv, Sound, Rings
  <1> QED
    BY <1>1, RInvAlways, PTL

(***************************************************************************)
(* current_max_prio bounds the priorities of the threads queued.           *)
(***************************************************************************)
THEOREM MaxPrioBounds == Spec => []NoneAboveMaxPrio
  <1>1. RInv => NoneAboveMaxPrio
    BY Zenon DEF RInv, Sound, Bounded, NoneAboveMaxPrio
  <1> QED
    BY <1>1, RInvAlways, PTL

(***************************************************************************)
(* The rings, the lazy dequeueing and the search of find_next_thread       *)
(* implement the scheduler of Scheduler.tla.                               *)
(***************************************************************************)
THEOREM SchedulerImplemented == Spec => ImplementsScheduler
  <1>1. Init => ThisScheduler!Init
    BY InitStep, Zenon
  <1>2. RInv /\ [Next]_vars => [ThisScheduler!Next]_(ThisScheduler!vars)
    BY NextStep, Zenon
  <1> QED
    BY <1>1, <1>2, RInvAlways, PTL DEF Spec, ImplementsScheduler, ThisScheduler!Spec

----------------------------------------------------------------------------
(* Whom the search finds.                                                  *)

\* What the search rests on besides the rings: every thread that runs is queued
\* or has the processor, and timeslices are numbers.
Kept ==
    /\ runnable \subseteq q.queued \cup ({current} \ {Idle})
    /\ slice \in [Threads \cup {Idle} -> Nat]

\* A step of the scheduler leaves every runnable thread where it is found.
LEMMA NoneLost ==
    ASSUME RInv, Kept, ThisScheduler!Next
    PROVE  runnable' \subseteq q'.queued \cup ({current'} \ {Idle})
  <1>1. ASSUME NEW rdy, NEW run \in SUBSET Threads, run \subseteq rdy,
               ThisScheduler!FindNextThread(run, rdy, current', q'.queued)
        PROVE  run \subseteq q'.queued
    <2>1. CASE rdy \cap run = {}
      BY <1>1, <2>1, Zenon
    <2>2. CASE rdy \cap run # {}
      BY <1>1, <2>2, Zenon DEF ThisScheduler!FindNextThread, ThisScheduler!Candidates
    <2> QED
      BY <2>1, <2>2, Zenon
  <1>2. CASE ThisScheduler!IdleLoop
    <2>1. runnable \subseteq q.queued
      BY <1>2, Zenon DEF Kept, ThisScheduler!IdleLoop
    <2>2. runnable \subseteq q'.queued
      BY <1>1, <1>2, <2>1, Zenon DEF RInv, ThisScheduler!IdleLoop
    <2> QED
      BY <1>2, <2>2, Zenon DEF ThisScheduler!IdleLoop
  <1>3. ASSUME NEW woken \in SUBSET Threads, ThisScheduler!HandleTimerInterrupt(woken)
        PROVE  runnable' \subseteq q'.queued \cup ({current'} \ {Idle})
    <2>1. PICK run, rdy : /\ run = runnable \cup woken
                          /\ rdy = q.queued \cup woken \cup ({current} \ {Idle})
      BY Zenon
    <2>2. /\ runnable' = run
          /\ q'.queued = rdy \/ ThisScheduler!FindNextThread(run, rdy, current', q'.queued)
      BY <1>3, <2>1, Zenon DEF ThisScheduler!HandleTimerInterrupt
    <2>3. run \in SUBSET Threads /\ run \subseteq rdy
      BY <2>1, Zenon DEF RInv, Kept
    <2>4. run \subseteq q'.queued
      BY <1>1, <2>2, <2>3, Zenon
    <2> QED
      BY <2>2, <2>4, Zenon
  <1>4. ASSUME NEW t \in Threads, ThisScheduler!SysThreadSwitch(t)
        PROVE  runnable' \subseteq q'.queued \cup ({current'} \ {Idle})
    <2>1. PICK rdy : rdy = q.queued \cup {current}
      BY Zenon
    <2>2. /\ runnable' = runnable
          /\ q'.queued = rdy \/ ThisScheduler!FindNextThread(runnable, rdy, current', q'.queued)
      BY <1>4, <2>1, Zenon DEF ThisScheduler!SysThreadSwitch
    <2>3. runnable \in SUBSET Threads /\ runnable \subseteq rdy
      BY <2>1, Zenon DEF RInv, Kept
    <2>4. runnable \subseteq q'.queued
      BY <1>1, <2>2, <2>3, Zenon
    <2> QED
      BY <2>2, <2>4, Zenon
  <1>5. ASSUME NEW t \in Threads, NEW p \in ThisScheduler!Prios, ThisScheduler!SysSchedule(t, p)
        PROVE  runnable' \subseteq q'.queued \cup ({current'} \ {Idle})
    BY <1>5, Zenon DEF Kept, ThisScheduler!SysSchedule
  <1>6. ASSUME NEW next \in Threads \cup {Idle}, NEW woken \in SUBSET Threads,
               NEW blocks \in BOOLEAN, ThisScheduler!Handover(next, woken, blocks)
        PROVE  runnable' \subseteq q'.queued \cup ({current'} \ {Idle})
    <2>1. CASE blocks
      BY <1>6, <2>1, Zenon DEF Kept, ThisScheduler!Handover
    <2>2. CASE ~ blocks
      BY <1>6, <2>2, Zenon DEF Kept, ThisScheduler!Handover
    <2> QED
      BY <2>1, <2>2, Zenon
  <1>7. ASSUME NEW t \in Threads, ThisScheduler!Create(t)
        PROVE  runnable' \subseteq q'.queued \cup ({current'} \ {Idle})
    BY <1>7, Zenon DEF Kept, ThisScheduler!Create
  <1>8. ASSUME NEW woken \in SUBSET Threads, ThisScheduler!Activate(woken)
        PROVE  runnable' \subseteq q'.queued \cup ({current'} \ {Idle})
    BY <1>8, Zenon DEF Kept, ThisScheduler!Activate
  <1>9. ASSUME NEW dead, NEW gone, NEW woken, ThisScheduler!Remove(dead, gone, woken)
        PROVE  runnable' \subseteq q'.queued \cup ({current'} \ {Idle})
    BY <1>9, Zenon DEF Kept, ThisScheduler!Remove
  <1> QED
    BY <1>2, <1>3, <1>4, <1>5, <1>6, <1>7, <1>8, <1>9, ZenonT(30) DEF ThisScheduler!Next

\* Timeslices stay numbers: a tick takes one off only if there is one.
LEMMA SliceStep ==
    ASSUME RInv, Kept, Next
    PROVE  slice' \in [Threads \cup {Idle} -> Nat]
  <1>1. CASE Tick
    <2>1. PICK woken : HandleTimerInterrupt(woken)
      BY <1>1, Zenon DEF Tick
    <2>2. PICK n : n = slice[current] /\ n \in Nat
      BY Zenon DEF Kept, RInv
    <2>3. \/ slice' = [slice EXCEPT ![current] = IF @ > 0 THEN @ - 1 ELSE 0]
          \/ n > 1 /\ slice' = [slice EXCEPT ![current] = @ - 1]
          \/ slice' = [slice EXCEPT ![current] = Slice]
      BY <2>1, <2>2, Zenon DEF HandleTimerInterrupt
    <2>4. \/ slice' = [slice EXCEPT ![current] = IF n > 0 THEN n - 1 ELSE 0]
          \/ n > 1 /\ slice' = [slice EXCEPT ![current] = n - 1]
          \/ slice' = [slice EXCEPT ![current] = Slice]
      BY <2>2, <2>3, Zenon DEF Kept, RInv
    <2>5. (IF n > 0 THEN n - 1 ELSE 0) \in Nat /\ (n > 1 => n - 1 \in Nat) /\ Slice \in Nat
      BY <2>2, QueueAssumption
    <2> QED
      BY <2>4, <2>5, Zenon DEF Kept
  <1>2. CASE ~ Tick
    <2>1. UNCHANGED slice
      BY <1>2, Zenon DEF Next, IdleLoop, SysThreadSwitch, SysSchedule, Handover, Activate, FreeThread
    <2> QED
      BY <2>1, Zenon DEF Kept
  <1> QED
    BY <1>1, <1>2, Zenon

\* No runnable thread is lost in a reachable state.
LEMMA KeptAlways == Spec => []Kept
  <1>1. Init => Kept
    <2> SUFFICES ASSUME Init PROVE Kept
      BY Zenon
    <2>1. runnable \subseteq q.queued
      BY InitStep, Zenon DEF ThisScheduler!Init
    <2>2. slice \in [Threads \cup {Idle} -> Nat]
      BY DEF Init
    <2> QED
      BY <2>1, <2>2, Zenon DEF Kept
  <1>2. RInv /\ Kept /\ [Next]_vars => Kept'
    <2> SUFFICES ASSUME RInv, Kept, [Next]_vars PROVE Kept'
      BY Zenon
    <2>1. CASE UNCHANGED vars
      BY <2>1, Zenon DEF vars, Kept
    <2>2. CASE Next
      <3>1. [ThisScheduler!Next]_(ThisScheduler!vars)
        BY NextStep, Zenon
      <3>2. runnable' \subseteq q'.queued \cup ({current'} \ {Idle})
        <4>1. CASE ThisScheduler!Next
          BY <4>1, NoneLost, Zenon
        <4>2. CASE UNCHANGED ThisScheduler!vars
          BY <4>2, Zenon DEF ThisScheduler!vars, Kept
        <4> QED
          BY <3>1, <4>1, <4>2, Zenon
      <3> QED
        BY <2>2, <3>2, SliceStep, Zenon DEF Kept
    <2> QED
      BY <2>1, <2>2, Zenon
  <1> QED
    BY <1>1, <1>2, RInvAlways, PTL DEF Spec

\* c is a runnable thread of the highest priority, or idle if there is none.
Highest(run, c) ==
    IF c = Idle THEN run = {} ELSE c \in run /\ \A t \in run : priority[t] <= priority[c]

\* A search of queues that hold every runnable thread finds the highest.
LEMMA FoundHighest ==
    ASSUME NEW run \in SUBSET Threads, NEW rdy, run \subseteq rdy, NEW c, NEW left,
           ThisScheduler!FindNextThread(run, rdy, c, left)
    PROVE  Highest(run, c)
  <1>1. rdy \cap run = run
    BY Zenon
  <1>2. CASE run = {}
    BY <1>1, <1>2, Zenon DEF ThisScheduler!FindNextThread, Highest
  <1>3. CASE run # {}
    <2>1. c \in ThisScheduler!Candidates(run, rdy)
      BY <1>1, <1>3, Zenon DEF ThisScheduler!FindNextThread
    <2>2. c \in run /\ \A t \in run : priority[t] <= priority[c]
      BY <1>1, <2>1, Zenon DEF ThisScheduler!Candidates
    <2> QED
      BY <2>2, QueueAssumption, Zenon DEF Highest
  <1> QED
    BY <1>2, <1>3, Zenon

\* The tick that ends a timeslice and begins a new one searches.
LEMMA TickFinds ==
    ASSUME RInv, Kept, slice[current] <= 1, slice'[current] = Slice,
           NEW woken \in Orders(runnable' \ runnable),
           runnable' \in SUBSET Threads, HandleTimerInterrupt(woken)
    PROVE  Highest(runnable', current')
  <1>1. PICK who : who = runnable' \ runnable /\ who \in SUBSET Threads
    BY Zenon
  <1>2. woken \in Seq(Threads) /\ {woken[j] : j \in DOMAIN woken} = who
    BY <1>1, OrderOf, Zenon
  <1>3. PICK q1, run : q1 = EnqueueAll(q, woken) /\ run = runnable \cup who
    BY Zenon
  <1>4. PICK q2 : q2 = IF current = Idle THEN q1 ELSE ThreadEnqueueReady(q1, current)
    BY Zenon
  <1>5. PICK found : found = FindNextThread(q2, run)
    BY Zenon
  <1>6. PICK n : n = slice[current] /\ n \in Nat
    BY Zenon DEF Kept, RInv
  <1>7. runnable' = run /\ \/ slice' = [slice EXCEPT ![current] = IF @ > 0 THEN @ - 1 ELSE 0]
                           \/ slice[current] > 1
                           \/ Dispatch(found.q, found.next)
    BY <1>2, <1>3, <1>4, <1>5, Zenon DEF HandleTimerInterrupt
  <1>8. slice' # [slice EXCEPT ![current] = IF @ > 0 THEN @ - 1 ELSE 0]
    <2> SUFFICES ASSUME slice' = [slice EXCEPT ![current] = IF @ > 0 THEN @ - 1 ELSE 0]
                 PROVE  FALSE
      BY Zenon
    <2>1. slice'[current] = IF n > 0 THEN n - 1 ELSE 0
      BY <1>6, Zenon DEF Kept, RInv
    <2> QED
      BY <1>6, <2>1, QueueAssumption
  <1>9. ~ (slice[current] > 1)
    BY <1>6
  <1>10. Sound(q1, priority) /\ q1.queued = q.queued \cup who
    BY <1>2, <1>3, EnqueueAllSound, Zenon DEF RInv
  <1>11. Sound(q2, priority) /\ q2.queued = q.queued \cup who \cup ({current} \ {Idle})
    <2>1. CASE current = Idle
      BY <1>4, <1>10, <2>1, Zenon
    <2>2. CASE current # Idle
      <3>1. current \in Threads /\ q2 = ThreadEnqueueReady(q1, current)
        BY <1>4, <2>2, Zenon DEF RInv
      <3>2. Sound(q2, priority) /\ q2.queued = q1.queued \cup {current}
        BY <1>10, <3>1, EnqueueReady, Zenon DEF RInv
      <3> QED
        BY <1>10, <2>2, <3>2, Zenon
    <2> QED
      BY <2>1, <2>2, Zenon
  <1>12. run \in SUBSET Threads /\ run \subseteq q2.queued
    BY <1>1, <1>3, <1>11, Zenon DEF RInv, Kept
  <1>13. ThisScheduler!FindNextThread(run, q2.queued, found.next, found.q.queued)
    BY <1>5, <1>11, <1>12, FindNextRefines, Zenon DEF RInv
  <1>14. Highest(run, found.next)
    BY <1>12, <1>13, FoundHighest, Zenon
  <1> QED
    BY <1>7, <1>8, <1>9, <1>14, Zenon DEF Dispatch

\* The idle loop and thread_switch search as well.
LEMMA OthersFind ==
    ASSUME RInv, Kept,
           IdleLoop \/ SysThreadSwitch(Null)
    PROVE  Highest(runnable', current')
  <1>1. CASE IdleLoop
    <2>1. PICK found : found = FindNextThread(q, runnable) /\ Dispatch(found.q, found.next)
      BY <1>1, Zenon DEF IdleLoop
    <2>2. ThisScheduler!FindNextThread(runnable, q.queued, found.next, found.q.queued)
      BY <2>1, FindNextRefines, Zenon DEF RInv
    <2>3. runnable \subseteq q.queued /\ runnable' = runnable
      BY <1>1, Zenon DEF Kept, IdleLoop
    <2>4. Highest(runnable, found.next)
      BY <2>2, <2>3, FoundHighest, Zenon DEF RInv
    <2> QED
      BY <2>1, <2>3, <2>4, Zenon DEF Dispatch
  <1>2. CASE SysThreadSwitch(Null)
    <2>1. PICK q1 : q1 = ThreadEnqueueReady(q, current)
      BY Zenon
    <2>2. PICK found : found = FindNextThread(q1, runnable)
      BY Zenon
    <2>3. current # Idle /\ runnable' = runnable /\ Dispatch(found.q, found.next)
      BY <1>2, <2>1, <2>2, QueueAssumption, Zenon DEF SysThreadSwitch, RInv
    <2>4. current \in Threads /\ Sound(q1, priority) /\ q1.queued = q.queued \cup {current}
      BY <2>1, <2>3, EnqueueReady, Zenon DEF RInv
    <2>5. ThisScheduler!FindNextThread(runnable, q1.queued, found.next, found.q.queued)
      BY <2>2, <2>4, FindNextRefines, Zenon DEF RInv
    <2>6. runnable \subseteq q1.queued
      BY <2>4, Zenon DEF Kept
    <2>7. Highest(runnable, found.next)
      BY <2>5, <2>6, FoundHighest, Zenon DEF RInv
    <2> QED
      BY <2>3, <2>7, Zenon DEF Dispatch
  <1> QED
    BY <1>1, <1>2, Zenon

(***************************************************************************)
(* Whatever the number of threads and priorities, find_next_thread leaves  *)
(* no runnable thread of a higher priority behind: it starts at a bound on *)
(* the priorities queued, and no runnable thread is missing in the queues  *)
(* when it is asked (schedule.c:52-90).                                    *)
(***************************************************************************)
THEOREM HighestChosen == Spec => HighestFirst
  <1>1. ASSUME RInv, RInv', Kept, Searching
        PROVE  Highest(runnable', current')
    <2>1. CASE IdleLoop \/ SysThreadSwitch(Null)
      BY <1>1, <2>1, OthersFind, Zenon
    <2>2. CASE /\ slice[current] <= 1 /\ slice'[current] = Slice
               /\ \E woken \in Orders(runnable' \ runnable) : HandleTimerInterrupt(woken)
      <3>1. runnable' \in SUBSET Threads
        BY <1>1, Zenon DEF RInv
      <3> QED
        BY <1>1, <2>2, <3>1, TickFinds, Zenon
    <2> QED
      BY <1>1, <2>1, <2>2, Zenon DEF Searching
  <1>2. RInv /\ RInv' /\ Kept /\ [Next]_vars
        => [Searching => IF current' = Idle THEN runnable' = {}
                         ELSE /\ current' \in runnable'
                              /\ \A t \in runnable' : priority[t] <= priority[current']]_vars
    BY <1>1, Zenon DEF Highest
  <1> QED
    BY <1>2, RInvAlways, KeptAlways, PTL DEF Spec, HighestFirst

=============================================================================
