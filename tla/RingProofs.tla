----------------------------- MODULE RingProofs -----------------------------
(***************************************************************************)
(* Doubly linked rings, as the ready queues (schedule.h) and the send      *)
(* queues (ipc.h) of the kernel use them: the facts about inserting and    *)
(* unlinking an element that the proofs about both need.                   *)
(*                                                                         *)
(* P holds the elements, next and prev the links, null is no element.      *)
(***************************************************************************)
EXTENDS TLAPS

Linked(next, prev, P) ==
    \A t \in P : /\ next[t] \in P /\ prev[next[t]] = t
                 /\ prev[t] \in P /\ next[prev[t]] = t
Connected(next, P) == \A S \in (SUBSET P) \ {{}, P} : \E t \in S : next[t] \notin S

\* A queue with the given head is a ring of exactly the elements of P.
Ring(head, next, prev, P, null) ==
    IF P = {} THEN head = null
    ELSE head \in P /\ Linked(next, prev, P) /\ Connected(next, P)

\* The links next2, prev2 differ from next, prev in that c comes between last
\* and first, or is gone from there.
Inserted(next, prev, P, last, first, c, next2, prev2) ==
    /\ next2[c] = first /\ next2[last] = c
    /\ \A t \in P \ {last} : next2[t] = next[t]
    /\ prev2[c] = last /\ prev2[first] = c
    /\ \A t \in P \ {first} : prev2[t] = prev[t]
Removed(next, prev, P, c, next2, prev2) ==
    /\ next2[prev[c]] = next[c] /\ \A t \in P \ {c, prev[c]} : next2[t] = next[t]
    /\ prev2[next[c]] = prev[c] /\ \A t \in P \ {c, next[c]} : prev2[t] = prev[t]

\* The first element of a ring.
LEMMA RingOfOne ==
    ASSUME NEW c, NEW next, NEW prev, NEW null, next[c] = c, prev[c] = c
    PROVE  Ring(c, next, prev, {c}, null)
  BY DEF Ring, Linked, Connected

\* Another element is inserted before the head.
LEMMA RingInsert ==
    ASSUME NEW P, NEW null, NEW head, NEW next, NEW prev, NEW c, NEW next2, NEW prev2, NEW head2,
           P # {}, Ring(head, next, prev, P, null), c \notin P,
           Inserted(next, prev, P, prev[head], head, c, next2, prev2), head2 \in P \cup {c}
    PROVE  Ring(head2, next2, prev2, P \cup {c}, null)
  <1>1. PICK first, last : first = head /\ last = prev[head]
    OBVIOUS
  <1>2. /\ first \in P /\ last \in P /\ first # c /\ last # c /\ next[last] = first
        /\ Linked(next, prev, P) /\ Connected(next, P)
    BY <1>1 DEF Ring, Linked
  <1>3. /\ next2[c] = first /\ next2[last] = c
        /\ \A t \in P \ {last} : next2[t] = next[t]
        /\ prev2[c] = last /\ prev2[first] = c
        /\ \A t \in P \ {first} : prev2[t] = prev[t]
    BY <1>1 DEF Inserted
  <1>4. Linked(next2, prev2, P \cup {c})
    BY <1>2, <1>3 DEF Linked
  <1>5. Connected(next2, P \cup {c})
    <2> SUFFICES ASSUME NEW S \in SUBSET (P \cup {c}), S # {}, S # P \cup {c}
                 PROVE  \E t \in S : next2[t] \notin S
      BY DEF Connected
    <2>1. CASE c \in S /\ S \ {c} = {}
      BY <1>2, <1>3, <2>1
    <2>2. CASE c \in S /\ S \ {c} # {}
      <3>1. S \ {c} \in (SUBSET P) \ {{}, P}
        BY <2>2
      <3>2. PICK t \in S \ {c} : next[t] \notin S \ {c}
        BY <1>2, <3>1, Zenon DEF Connected
      <3>3. t \in P /\ next[t] \in P
        BY <1>2, <3>1, <3>2 DEF Linked
      <3> QED
        BY <1>2, <1>3, <2>2, <3>2, <3>3
    <2>3. CASE c \notin S /\ S = P
      BY <1>2, <1>3, <2>3
    <2>4. CASE c \notin S /\ S # P
      <3>1. S \in (SUBSET P) \ {{}, P}
        BY <2>4
      <3>2. PICK t \in S : next[t] \notin S
        BY <1>2, <3>1 DEF Connected
      <3> QED
        BY <1>3, <2>4, <3>1, <3>2
    <2> QED
      BY <2>1, <2>2, <2>3, <2>4
  <1> QED
    BY <1>4, <1>5 DEF Ring

\* An element that is its own neighbour is alone.
LEMMA RingAlone ==
    ASSUME NEW P, NEW null, NEW head, NEW next, NEW prev, NEW c \in P,
           Ring(head, next, prev, P, null), next[c] = c
    PROVE  P = {c}
  <1>1. {c} \in (SUBSET P) \ {{}, P} => \E t \in {c} : next[t] \notin {c}
    BY Zenon DEF Ring, Connected
  <1> QED
    BY <1>1

\* An element that is not alone is taken out.
LEMMA RingRemove ==
    ASSUME NEW P, NEW null, NEW head, NEW next, NEW prev, NEW c \in P, NEW next2, NEW prev2,
           NEW head2, Ring(head, next, prev, P, null), next[c] # c,
           Removed(next, prev, P, c, next2, prev2), head2 \in P \ {c}
    PROVE  Ring(head2, next2, prev2, P \ {c}, null)
  <1>1. PICK nx, pv : nx = next[c] /\ pv = prev[c]
    OBVIOUS
  <1>2. /\ nx \in P \ {c} /\ pv \in P \ {c} /\ next[pv] = c /\ prev[nx] = c
        /\ Linked(next, prev, P) /\ Connected(next, P)
    BY <1>1 DEF Ring, Linked
  <1>3. /\ next2[pv] = nx /\ \A t \in P \ {c, pv} : next2[t] = next[t]
        /\ prev2[nx] = pv /\ \A t \in P \ {c, nx} : prev2[t] = prev[t]
    BY <1>1 DEF Removed
  <1>4. Linked(next2, prev2, P \ {c})
    <2> SUFFICES ASSUME NEW t \in P \ {c}
                 PROVE  /\ next2[t] \in P \ {c} /\ prev2[next2[t]] = t
                        /\ prev2[t] \in P \ {c} /\ next2[prev2[t]] = t
      BY DEF Linked
    <2>1. /\ next[t] \in P /\ prev[next[t]] = t
          /\ prev[t] \in P /\ next[prev[t]] = t
      BY <1>2 DEF Linked
    <2>2. next2[t] \in P \ {c} /\ prev2[next2[t]] = t
      <3>1. CASE t = pv
        BY <1>2, <1>3, <3>1
      <3>2. CASE t # pv
        BY <1>1, <1>2, <1>3, <2>1, <3>2
      <3> QED
        BY <3>1, <3>2
    <2>3. prev2[t] \in P \ {c} /\ next2[prev2[t]] = t
      <3>1. CASE t = nx
        BY <1>2, <1>3, <3>1
      <3>2. CASE t # nx
        BY <1>1, <1>2, <1>3, <2>1, <3>2
      <3> QED
        BY <3>1, <3>2
    <2> QED
      BY <2>2, <2>3
  <1>5. Connected(next2, P \ {c})
    <2> SUFFICES ASSUME NEW S \in SUBSET (P \ {c}), S # {}, S # P \ {c}
                 PROVE  \E t \in S : next2[t] \notin S
      BY DEF Connected
    <2>1. CASE pv \notin S
      <3>1. S \in (SUBSET P) \ {{}, P}
        BY <1>2, <2>1
      <3>2. PICK t \in S : next[t] \notin S
        BY <1>2, <3>1 DEF Connected
      <3> QED
        BY <1>3, <2>1, <3>1, <3>2
    <2>2. CASE pv \in S
      <3>1. S \cup {c} \in (SUBSET P) \ {{}, P}
        BY <2>2
      <3>2. PICK t \in S \cup {c} : next[t] \notin S \cup {c}
        BY <1>2, <3>1, Zenon DEF Connected
      <3>3. CASE t = c
        BY <1>1, <1>3, <2>2, <3>2, <3>3
      <3>4. CASE t \in S
        BY <1>2, <1>3, <3>1, <3>2, <3>4
      <3> QED
        BY <3>2, <3>3, <3>4
    <2> QED
      BY <2>1, <2>2
  <1> QED
    BY <1>1, <1>2, <1>4, <1>5 DEF Ring

\* Links of other elements do not matter.
LEMMA RingFrame ==
    ASSUME NEW P, NEW null, NEW head, NEW next, NEW prev, NEW next2, NEW prev2,
           Ring(head, next, prev, P, null),
           \A t \in P : next2[t] = next[t] /\ prev2[t] = prev[t]
    PROVE  Ring(head, next2, prev2, P, null)
  <1>1. CASE P = {}
    BY <1>1 DEF Ring
  <1>2. CASE P # {}
    <2>1. head \in P /\ Linked(next, prev, P) /\ Connected(next, P)
      BY <1>2 DEF Ring
    <2>2. Linked(next2, prev2, P)
      BY <2>1 DEF Linked
    <2>3. Connected(next2, P)
      BY <2>1 DEF Connected
    <2> QED
      BY <1>2, <2>1, <2>2, <2>3 DEF Ring
  <1> QED
    BY <1>1, <1>2

\* Any element can be the head.
LEMMA RingTurn ==
    ASSUME NEW P, NEW null, NEW head, NEW next, NEW prev, NEW t \in P,
           Ring(head, next, prev, P, null)
    PROVE  Ring(t, next, prev, P, null)
  BY DEF Ring

=============================================================================
