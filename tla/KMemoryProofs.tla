--------------------------- MODULE KMemoryProofs ---------------------------
(***************************************************************************)
(* Proofs about the kernel memory allocator, for every arena and every set *)
(* of sizes, and about the buffer pools that the mapping database keeps in *)
(* its chunks, for every page size, set of buffer lists and number of      *)
(* buffers in a pool.                                                      *)
(***************************************************************************)
EXTENDS MappingAlloc, TLAPS

KTypeOK ==
  /\ kmem_free_list \in Seq(Nat)
  /\ FreeSet \subseteq Chunks
  /\ free_chunks \in Int
  /\ others \in SUBSET Chunks

Sorted(list) == \A i, j \in 1 .. Len(list) : i < j => list[i] < list[j]

Elems(list) == {list[i] : i \in 1 .. Len(list)}

(* The invariant of the free list: Conservation is what keeps kmem_free    *)
(* from inserting a chunk that is on the list already.                     *)
KInv == KTypeOK /\ FreeListSorted /\ Conservation /\ LastChunkFree

Distinct(list) == \A i, j \in 1 .. Len(list) : list[i] = list[j] => i = j

(* A doubly linked list of the members of P that starts at head.  Both     *)
(* links can be followed to the end: no set of members is closed under     *)
(* next, and none under prev.  The second makes a list without a head an   *)
(* empty one, whether P is finite or not.                                  *)
List(P, head, next, prev) ==
  /\ head \in P \cup {NULL}
  /\ \A p \in P : /\ next[p] # NULL => next[p] \in P /\ prev[next[p]] = p
                  /\ prev[p] # NULL => prev[p] \in P /\ next[prev[p]] = p
                  /\ prev[p] = NULL <=> head = p
  /\ \A S \in (SUBSET P) \ {{}} : \E p \in S : next[p] \notin S
  /\ \A S \in (SUBSET P) \ {{}} : \E p \in S : prev[p] \notin S

Managers == [freelist : Seq(Nat), num_free : Nat, next_freelist : Nat,
             prev_freelist : Nat, bl : Buflists]

Typed(m) == DOMAIN m \subseteq Chunks /\ \A p \in DOMAIN m : m[p] \in Managers

NextOf(m) == [p \in DOMAIN m |-> m[p].next_freelist]

PrevOf(m) == [p \in DOMAIN m |-> m[p].prev_freelist]

AvailableIn(m, bl) == {p \in DOMAIN m : m[p].bl = bl /\ m[p].num_free > 0}

(* The freelist of pool p of m, when bufs are handed out.                  *)
FreelistOK(m, p, bufs) ==
  /\ m[p].num_free = Len(m[p].freelist)
  /\ Distinct(m[p].freelist)
  /\ Elems(m[p].freelist) = {s \in Slots(m[p].bl) : [pool |-> p, slot |-> s] \notin bufs}

(* The buffers bufs are buffers of the pools m.                            *)
BuffersOf(m, bufs) ==
  \A b \in bufs : /\ b = [pool |-> b.pool, slot |-> b.slot]
                  /\ b.pool \in DOMAIN m
                  /\ b.slot \in Slots(m[b.pool].bl)

(* A pool has a buffer in use; one with a free buffer is on its list.      *)
PoolInv ==
  /\ KInv
  /\ list_of_lists \in [Buflists -> Nat]
  /\ Typed(mng)
  /\ BuffersOf(mng, buffers)
  /\ \A p \in DOMAIN mng : FreelistOK(mng, p, buffers)
  /\ \A p \in DOMAIN mng : mng[p].num_free < max_free[mng[p].bl]
  /\ \A bl \in Buflists :
       List(Available(bl), list_of_lists[bl], NextOf(mng), PrevOf(mng))

-----------------------------------------------------------------------------
(* The free list of kmem: sequences, and what kmem_free and kmem_alloc do. *)

(* Parts of a sequence, and two in a row.                                  *)
LEMMA LenNat == ASSUME NEW S, NEW list \in Seq(S) PROVE Len(list) \in Nat
  OBVIOUS

\* The part of a list up to position b,
LEMMA Prefix ==
    ASSUME NEW S, NEW list \in Seq(S), NEW b \in 0 .. Len(list)
    PROVE  /\ SubSeq(list, 1, b) \in Seq(S) /\ Len(SubSeq(list, 1, b)) = b
           /\ \A k \in 1 .. b : SubSeq(list, 1, b)[k] = list[k]
  OBVIOUS

\* the part behind it,
LEMMA Suffix ==
    ASSUME NEW S, NEW list \in Seq(S), NEW b \in 0 .. Len(list)
    PROVE  /\ SubSeq(list, b + 1, Len(list)) \in Seq(S)
           /\ Len(SubSeq(list, b + 1, Len(list))) = Len(list) - b
           /\ \A k \in 1 .. Len(list) - b :
                SubSeq(list, b + 1, Len(list))[k] = list[b + k]
  OBVIOUS

\* and a list put together from two.
LEMMA Joined ==
    ASSUME NEW S, NEW s \in Seq(S), NEW t \in Seq(S)
    PROVE  /\ s \o t \in Seq(S) /\ Len(s \o t) = Len(s) + Len(t)
           /\ \A k \in 1 .. Len(s) : (s \o t)[k] = s[k]
           /\ \A k \in Len(s) + 1 .. Len(s) + Len(t) : (s \o t)[k] = t[k - Len(s)]
  OBVIOUS

\* A run of neighbouring chunks as a sequence.
LEMMA RunSeq ==
    ASSUME NEW addr \in Nat, NEW n \in Nat
    PROVE  /\ Run(addr, n) \in Seq(Nat) /\ Len(Run(addr, n)) = n
           /\ \A k \in 1 .. n : Run(addr, n)[k] = addr + k - 1
  BY DEF Run

(* Positions in the list with n chunks inserted behind position b.         *)
LEMMA Positions ==
    ASSUME NEW L \in Nat, NEW b \in 0 .. L, NEW n \in Nat
    PROVE  /\ (b + n) + (L - b) = L + n
           /\ \A k \in b + n + 1 .. L + n :
                k - (b + n) \in 1 .. L - b /\ b + (k - (b + n)) = k - n
           /\ \A k \in b + 1 .. b + n : k - b \in 1 .. n
           /\ \A k \in 1 .. b : k \in 1 .. b + n
           /\ \A k \in b + 1 .. b + n : k \in 1 .. b + n
  OBVIOUS

(* A run at addr belongs behind the first i chunks of list.                *)
PlaceOf(list, addr, i) ==
  /\ i \in 0 .. Len(list)
  /\ \A j \in 1 .. i : list[j] < addr
  /\ i < Len(list) => ~ (list[i + 1] < addr)

(* The list after kmem_free, element by element.                           *)
LEMMA FreeIntoElems ==
    ASSUME NEW list \in Seq(Nat), NEW addr \in Nat, NEW n \in Nat,
           PlaceOf(list, addr, Before(list, addr))
    PROVE  LET b   == Before(list, addr)
               new == FreeInto(list, addr, n)
           IN  /\ new \in Seq(Nat) /\ Len(new) = Len(list) + n
               /\ \A k \in 1 .. b : new[k] = list[k]
               /\ \A k \in b + 1 .. b + n : new[k] = addr + (k - b) - 1
               /\ \A k \in b + n + 1 .. Len(list) + n : new[k] = list[k - n]
  <1> DEFINE b == Before(list, addr)
             s == SubSeq(list, 1, b)
             r == Run(addr, n)
             t == SubSeq(list, b + 1, Len(list))
             u == s \o r
             w == u \o t
  <1>4. FreeInto(list, addr, n) = w
    BY Zenon DEF FreeInto
  <1>0. b \in 0 .. Len(list)
    BY Zenon DEF PlaceOf
  <1> HIDE DEF b
  <1>1. s \in Seq(Nat) /\ Len(s) = b /\ \A k \in 1 .. b : s[k] = list[k]
    BY <1>0, Prefix, Zenon
  <1>2. /\ t \in Seq(Nat) /\ Len(t) = Len(list) - b
        /\ \A k \in 1 .. Len(list) - b : t[k] = list[b + k]
    BY <1>0, Suffix, Zenon
  <1>3. r \in Seq(Nat) /\ Len(r) = n /\ \A k \in 1 .. n : r[k] = addr + k - 1
    BY RunSeq, Zenon
  <1>5. Len(list) \in Nat
    BY LenNat, Zenon
  <1>6. /\ (b + n) + (Len(list) - b) = Len(list) + n
        /\ \A k \in b + n + 1 .. Len(list) + n :
             k - (b + n) \in 1 .. Len(list) - b /\ b + (k - (b + n)) = k - n
        /\ \A k \in b + 1 .. b + n : k - b \in 1 .. n
        /\ \A k \in 1 .. b : k \in 1 .. b + n
        /\ \A k \in b + 1 .. b + n : k \in 1 .. b + n
    BY <1>0, <1>5, Positions, Zenon
  <1> HIDE DEF s, r, t
  <1>7. /\ u \in Seq(Nat) /\ Len(u) = b + n
        /\ \A k \in 1 .. b : u[k] = s[k]
        /\ \A k \in b + 1 .. b + n : u[k] = r[k - b]
    <2>1. s \in Seq(Nat) /\ r \in Seq(Nat) /\ Len(s) = b /\ Len(r) = n
      BY <1>1, <1>3, Zenon
    <2>2. /\ u \in Seq(Nat) /\ Len(u) = Len(s) + Len(r)
          /\ \A k \in 1 .. Len(s) : u[k] = s[k]
          /\ \A k \in Len(s) + 1 .. Len(s) + Len(r) : u[k] = r[k - Len(s)]
      BY <2>1, Joined, Zenon
    <2> HIDE DEF u
    <2> QED
      BY <2>1, <2>2, Zenon
  <1> HIDE DEF u
  <1>8. /\ w \in Seq(Nat) /\ Len(w) = Len(list) + n
        /\ \A k \in 1 .. b + n : w[k] = u[k]
        /\ \A k \in b + n + 1 .. Len(list) + n : w[k] = t[k - (b + n)]
    <2>1. u \in Seq(Nat) /\ t \in Seq(Nat) /\ Len(u) = b + n /\ Len(t) = Len(list) - b
      BY <1>2, <1>7, Zenon
    <2>2. /\ w \in Seq(Nat) /\ Len(w) = Len(u) + Len(t)
          /\ \A k \in 1 .. Len(u) : w[k] = u[k]
          /\ \A k \in Len(u) + 1 .. Len(u) + Len(t) : w[k] = t[k - Len(u)]
      BY <2>1, Joined, Zenon
    <2> HIDE DEF w
    <2> QED
      BY <2>1, <2>2, <1>6, Zenon
  <1> HIDE DEF w
  <1>9. \A k \in 1 .. b : w[k] = list[k]
    BY <1>1, <1>6, <1>7, <1>8, ZenonT(30)
  <1>10. \A k \in b + 1 .. b + n : w[k] = addr + (k - b) - 1
    BY <1>3, <1>6, <1>7, <1>8, ZenonT(30)
  <1>11. \A k \in b + n + 1 .. Len(list) + n : w[k] = list[k - n]
    <2> TAKE k \in b + n + 1 .. Len(list) + n
    <2>1. w[k] = t[k - (b + n)]
      BY <1>8, Zenon
    <2>2. k - (b + n) \in 1 .. Len(list) - b /\ b + (k - (b + n)) = k - n
      BY <1>6, Zenon
    <2> QED
      BY <2>1, <2>2, <1>2, Zenon
  <1> QED
    BY <1>4, <1>8, <1>9, <1>10, <1>11, Zenon DEF b

(* Positions in the list with n chunks taken out at position i.            *)
LEMMA PositionsWithout ==
    ASSUME NEW L \in Nat, NEW i \in 1 .. L, NEW n \in Nat, i + n <= L
    PROVE  /\ i - 1 \in 0 .. L /\ i + n - 1 \in 0 .. L
           /\ (i + n - 1) + 1 = i + n
           /\ (i - 1) + (L - (i + n - 1)) = L - n
           /\ \A k \in (i - 1) + 1 .. L - n :
                /\ k - (i - 1) \in 1 .. L - (i + n - 1)
                /\ (i + n - 1) + (k - (i - 1)) = k + n
  OBVIOUS

(* The list after kmem_alloc, element by element.                          *)
LEMMA WithoutElems ==
    ASSUME NEW list \in Seq(Nat), NEW i \in 1 .. Len(list), NEW n \in Nat,
           i + n <= Len(list)
    PROVE  /\ Without(list, i, n) \in Seq(Nat)
           /\ Len(Without(list, i, n)) = Len(list) - n
           /\ \A k \in 1 .. i - 1 : Without(list, i, n)[k] = list[k]
           /\ \A k \in (i - 1) + 1 .. Len(list) - n : Without(list, i, n)[k] = list[k + n]
  <1> DEFINE b == i - 1
             c == i + n - 1
             s == SubSeq(list, 1, b)
             t == SubSeq(list, c + 1, Len(list))
             w == s \o t
  <1>1. Len(list) \in Nat
    BY LenNat, Zenon
  <1>2. /\ b \in 0 .. Len(list) /\ c \in 0 .. Len(list) /\ c + 1 = i + n
        /\ b + (Len(list) - c) = Len(list) - n
        /\ \A k \in b + 1 .. Len(list) - n :
             k - b \in 1 .. Len(list) - c /\ c + (k - b) = k + n
    BY <1>1, PositionsWithout, ZenonT(30)
  <1>3. Without(list, i, n) = w
    BY <1>2, Zenon DEF Without
  <1> HIDE DEF b, c
  <1>4. s \in Seq(Nat) /\ Len(s) = b /\ \A k \in 1 .. b : s[k] = list[k]
    BY <1>2, Prefix, Zenon
  <1>5. /\ t \in Seq(Nat) /\ Len(t) = Len(list) - c
        /\ \A k \in 1 .. Len(list) - c : t[k] = list[c + k]
    BY <1>2, Suffix, Zenon
  <1> HIDE DEF s, t
  <1>6. /\ w \in Seq(Nat) /\ Len(w) = Len(list) - n
        /\ \A k \in 1 .. b : w[k] = s[k]
        /\ \A k \in b + 1 .. Len(list) - n : w[k] = t[k - b]
    <2>1. s \in Seq(Nat) /\ t \in Seq(Nat) /\ Len(s) = b /\ Len(t) = Len(list) - c
      BY <1>4, <1>5, Zenon
    <2>2. /\ w \in Seq(Nat) /\ Len(w) = Len(s) + Len(t)
          /\ \A k \in 1 .. Len(s) : w[k] = s[k]
          /\ \A k \in Len(s) + 1 .. Len(s) + Len(t) : w[k] = t[k - Len(s)]
      BY <2>1, Joined, Zenon
    <2> HIDE DEF w
    <2> QED
      BY <2>1, <2>2, <1>2, Zenon
  <1> HIDE DEF w
  <1>7. \A k \in 1 .. b : w[k] = list[k]
    BY <1>4, <1>6, Zenon
  <1>8. \A k \in b + 1 .. Len(list) - n : w[k] = list[k + n]
    <2> TAKE k \in b + 1 .. Len(list) - n
    <2>1. w[k] = t[k - b]
      BY <1>6, Zenon
    <2>2. k - b \in 1 .. Len(list) - c /\ c + (k - b) = k + n
      BY <1>2, Zenon
    <2> QED
      BY <2>1, <2>2, <1>5, Zenon
  <1> QED
    BY <1>3, <1>6, <1>7, <1>8, Zenon DEF b

(* kmem_free inserts a run that is not on the list where it belongs.       *)
LEMMA FreeSorted ==
    ASSUME NEW list \in Seq(Nat), Sorted(list), NEW addr \in Nat, NEW n \in Nat,
           PlaceOf(list, addr, Before(list, addr)),
           \A j \in 1 .. Len(list) : list[j] \notin addr .. addr + n - 1
    PROVE  /\ Sorted(FreeInto(list, addr, n))
           /\ Elems(FreeInto(list, addr, n)) = Elems(list) \cup (addr .. addr + n - 1)
  <1> DEFINE b   == Before(list, addr)
             new == FreeInto(list, addr, n)
             L   == Len(list)
  <1>1. b \in 0 .. L /\ (\A j \in 1 .. b : list[j] < addr) /\ (b < L => ~ (list[b + 1] < addr))
    BY Zenon DEF PlaceOf
  <1>2. /\ new \in Seq(Nat) /\ Len(new) = L + n
        /\ \A k \in 1 .. b : new[k] = list[k]
        /\ \A k \in b + 1 .. b + n : new[k] = addr + (k - b) - 1
        /\ \A k \in b + n + 1 .. L + n : new[k] = list[k - n]
    BY FreeIntoElems, ZenonT(30)
  <1>3. L \in Nat /\ \A j \in 1 .. L : list[j] \in Nat
    OBVIOUS
  <1> HIDE DEF b, new, L
  <1>4. \A j \in b + 1 .. L : list[j] >= addr + n
    <2> TAKE j \in b + 1 .. L
    <2>1. j \in 1 .. L /\ b + 1 \in 1 .. L /\ b < L
      BY <1>1, <1>3
    <2>2. list[b + 1] <= list[j]
      <3>1. CASE j = b + 1
        BY <3>1, <2>1, <1>3
      <3>2. CASE j # b + 1
        <4>1. b + 1 < j
          BY <3>2, <1>1, <1>3
        <4>2. list[b + 1] < list[j]
          BY <4>1, <2>1, Zenon DEF Sorted, L
        <4> QED
          BY <4>2, <2>1, <1>3
      <3> QED
        BY <3>1, <3>2, Zenon
    <2>3. list[j] >= addr
      BY <2>1, <2>2, <1>1, <1>3
    <2>4. list[j] \notin addr .. addr + n - 1
      BY <2>1, Zenon DEF L
    <2> QED
      BY <2>1, <2>3, <2>4, <1>3
  <1>5. ASSUME NEW i \in 1 .. L + n, NEW j \in 1 .. L + n, i < j
        PROVE  new[i] < new[j]
    <2>1. CASE j <= b
      <3>1. i \in 1 .. L /\ j \in 1 .. L /\ new[i] = list[i] /\ new[j] = list[j]
        BY <2>1, <1>1, <1>2, <1>3, <1>5
      <3> QED
        BY <3>1, <1>5, Zenon DEF Sorted, L
    <2>2. CASE i <= b /\ b < j /\ j <= b + n
      <3>1. new[i] = list[i] /\ list[i] < addr /\ list[i] \in Nat /\ new[j] = addr + (j - b) - 1
        BY <2>2, <1>1, <1>2, <1>3
      <3> QED
        BY <3>1, <2>2, <1>1, <1>3
    <2>3. CASE i <= b /\ b + n < j
      <3>1. /\ new[i] = list[i] /\ list[i] < addr /\ list[i] \in Nat
            /\ new[j] = list[j - n] /\ j - n \in b + 1 .. L
        <4>1. j \in b + n + 1 .. L + n /\ j - n \in b + 1 .. L /\ i \in 1 .. L /\ i \in 1 .. b
          BY <2>3, <1>1, <1>3
        <4>2. new[j] = list[j - n]
          BY <4>1, <1>2, Zenon
        <4>3. new[i] = list[i] /\ list[i] < addr
          BY <4>1, <1>1, <1>2, Zenon
        <4> QED
          BY <4>1, <4>2, <4>3, <1>3, Zenon
      <3>2. list[j - n] >= addr + n /\ list[j - n] \in Nat
        BY <3>1, <1>4, <1>1, <1>3
      <3> QED
        BY <3>1, <3>2, SMTT(30)
    <2>4. CASE b < i /\ j <= b + n
      <3>1. new[i] = addr + (i - b) - 1 /\ new[j] = addr + (j - b) - 1
        BY <2>4, <1>1, <1>2, <1>3, <1>5, SMTT(30)
      <3> QED
        BY <3>1, <1>5, <1>1, <1>3
    <2>5. CASE b < i /\ i <= b + n /\ b + n < j
      <3>1. /\ new[i] = addr + (i - b) - 1 /\ i - b <= n
            /\ new[j] = list[j - n] /\ j - n \in b + 1 .. L
        BY <2>5, <1>1, <1>2, <1>3
      <3>2. list[j - n] >= addr + n /\ list[j - n] \in Nat
        BY <3>1, <1>4, <1>1, <1>3
      <3> QED
        BY <3>1, <3>2, <1>1, <1>3
    <2>6. CASE b + n < i
      <3>1. /\ new[i] = list[i - n] /\ new[j] = list[j - n]
            /\ i - n \in 1 .. L /\ j - n \in 1 .. L /\ i - n < j - n
        <4>1. i \in b + n + 1 .. L + n /\ j \in b + n + 1 .. L + n
          BY <2>6, <1>1, <1>3, <1>5
        <4>2. i - n \in 1 .. L /\ j - n \in 1 .. L /\ i - n < j - n
          BY <4>1, <1>1, <1>3, <1>5
        <4> QED
          BY <4>1, <4>2, <1>2, Zenon
      <3> QED
        BY <3>1, Zenon DEF Sorted, L
    <2> QED
      BY <2>1, <2>2, <2>3, <2>4, <2>5, <2>6, <1>1, <1>3, <1>5
  <1>6. Elems(new) = Elems(list) \cup (addr .. addr + n - 1)
    <2>1. ASSUME NEW k \in 1 .. L + n PROVE new[k] \in Elems(list) \cup (addr .. addr + n - 1)
      <3>1. CASE k <= b
        <4>1. k \in 1 .. b /\ k \in 1 .. L
          BY <3>1, <1>1, <1>3
        <4>2. new[k] = list[k]
          BY <4>1, <1>2, Zenon
        <4> QED
          BY <4>1, <4>2, Zenon DEF Elems, L
      <3>2. CASE b < k /\ k <= b + n
        BY <3>2, <1>1, <1>2, <1>3
      <3>3. CASE b + n < k
        <4>1. k \in b + n + 1 .. L + n /\ k - n \in 1 .. L
          BY <3>3, <1>1, <1>3
        <4>2. new[k] = list[k - n]
          BY <4>1, <1>2, Zenon
        <4> QED
          BY <4>1, <4>2, Zenon DEF Elems, L
      <3> QED
        BY <3>1, <3>2, <3>3, <1>1, <1>3
    <2>2. ASSUME NEW k \in 1 .. L PROVE list[k] \in Elems(new)
      <3>1. CASE k <= b
        <4>1. k \in 1 .. L + n /\ new[k] = list[k]
          BY <3>1, <1>1, <1>2, <1>3
        <4> QED
          BY <4>1, <1>2, Zenon DEF Elems
      <3>2. CASE b < k
        <4>1. k + n \in b + n + 1 .. L + n /\ k + n \in 1 .. L + n /\ (k + n) - n = k
          BY <3>2, <1>1, <1>3
        <4>2. new[k + n] = list[k]
          BY <4>1, <1>2, Zenon
        <4> QED
          BY <4>1, <4>2, <1>2, Zenon DEF Elems
      <3> QED
        BY <3>1, <3>2, <1>1, <1>3
    <2>3. ASSUME NEW c \in addr .. addr + n - 1 PROVE c \in Elems(new)
      <3> DEFINE k == c - addr + 1 + b
      <3>1. k \in b + 1 .. b + n /\ k \in 1 .. L + n /\ addr + (k - b) - 1 = c
        BY <1>1, <1>3
      <3>2. new[k] = c
        BY <3>1, <1>2, Zenon
      <3> QED
        BY <3>1, <3>2, <1>2, Zenon DEF Elems
    <2>4. Elems(new) = {new[k] : k \in 1 .. L + n} /\ Elems(list) = {list[k] : k \in 1 .. L}
      BY <1>2, Zenon DEF Elems, L
    <2>5. Elems(new) \subseteq Elems(list) \cup (addr .. addr + n - 1)
      BY <2>1, <2>4, Zenon
    <2>6. Elems(list) \cup (addr .. addr + n - 1) \subseteq Elems(new)
      BY <2>2, <2>3, <2>4, Zenon
    <2> QED
      BY <2>5, <2>6, Zenon
  <1> QED
    BY <1>5, <1>6, <1>2, Zenon DEF Sorted, new

(* kmem_alloc takes exactly the chunks it returns off the list.            *)
LEMMA AllocSorted ==
    ASSUME NEW list \in Seq(Nat), Sorted(list), NEW n \in Nat, 1 <= n,
           NEW i \in 1 .. Len(list), Fits(list, i, n)
    PROVE  /\ Sorted(Without(list, i, n))
           /\ Elems(Without(list, i, n)) = Elems(list) \ (list[i] .. list[i] + n - 1)
           /\ list[i] .. list[i] + n - 1 \subseteq Elems(list)
  <1> DEFINE new == Without(list, i, n)
             L   == Len(list)
             a   == list[i]
  <1>1. i + n <= L /\ \A k \in 1 .. n - 1 : list[i + k] = a + k
    BY Zenon DEF Fits
  <1>2. /\ new \in Seq(Nat) /\ Len(new) = L - n
        /\ \A k \in 1 .. i - 1 : new[k] = list[k]
        /\ \A k \in (i - 1) + 1 .. L - n : new[k] = list[k + n]
    BY <1>1, WithoutElems, Zenon
  <1>3. L \in Nat /\ \A j \in 1 .. L : list[j] \in Nat
    OBVIOUS
  <1>4. a \in Nat
    BY <1>3, Zenon
  <1>5. \A j, k \in 1 .. L : j < k => list[j] < list[k]
    BY Zenon DEF Sorted
  <1> HIDE DEF new, L, a
  <1>6. \A k \in 0 .. n - 1 : list[i + k] = a + k
    <2> TAKE k \in 0 .. n - 1
    <2>1. CASE k = 0
      BY <2>1, <1>4 DEF a
    <2>2. CASE k # 0
      BY <2>2, <1>1
    <2> QED
      BY <2>1, <2>2, Zenon
  <1>7. i \in 1 .. L
    BY Zenon DEF L
  <1> DEFINE at == [k \in 1 .. L - n |-> IF k < i THEN k ELSE k + n]
  <1>8. \A k \in 1 .. L - n : at[k] \in 1 .. L /\ new[k] = list[at[k]]
    <2> TAKE k \in 1 .. L - n
    <2>1. CASE k < i
      <3>1. k \in 1 .. i - 1 /\ k \in 1 .. L /\ at[k] = k
        BY <2>1, <1>1, <1>3, <1>7
      <3> QED
        BY <3>1, <1>2, Zenon
    <2>2. CASE ~ (k < i)
      <3>1. k \in (i - 1) + 1 .. L - n /\ k + n \in 1 .. L /\ at[k] = k + n
        BY <2>2, <1>1, <1>3, <1>7
      <3> QED
        BY <3>1, <1>2, Zenon
    <2> QED
      BY <2>1, <2>2, Zenon
  <1>9. \A j, k \in 1 .. L - n : j < k => at[j] < at[k]
    BY <1>1, <1>3, <1>7
  <1>10. \A k \in 1 .. L - n : at[k] < i \/ at[k] >= i + n
    BY <1>1, <1>3, <1>7
  <1>11. \A m \in 1 .. L : m < i \/ m >= i + n => \E k \in 1 .. L - n : at[k] = m
    <2> TAKE m \in 1 .. L
    <2>1. CASE m < i
      <3>1. m \in 1 .. L - n /\ at[m] = m
        BY <2>1, <1>1, <1>3, <1>7
      <3> QED
        BY <3>1, Zenon
    <2>2. CASE m >= i + n
      <3>1. m - n \in 1 .. L - n /\ at[m - n] = m
        BY <2>2, <1>1, <1>3, <1>7
      <3> QED
        BY <3>1, Zenon
    <2> QED
      BY <2>1, <2>2, Zenon
  <1> HIDE DEF at
  <1>12. Sorted(new)
    <2> SUFFICES ASSUME NEW j \in 1 .. L - n, NEW k \in 1 .. L - n, j < k
                 PROVE  new[j] < new[k]
      BY <1>2, Zenon DEF Sorted
    <2>1. at[j] < at[k] /\ at[j] \in 1 .. L /\ at[k] \in 1 .. L
      BY <1>8, <1>9, Zenon
    <2> QED
      BY <2>1, <1>5, <1>8, Zenon
  <1>13. \A m \in 1 .. L : list[m] \in a .. a + n - 1 <=> ~ (m < i \/ m >= i + n)
    <2> TAKE m \in 1 .. L
    <2>1. CASE m < i
      <3>1. list[m] < a /\ list[m] \in Nat
        BY <2>1, <1>3, <1>5, <1>7, Zenon DEF a
      <3> QED
        BY <3>1, <2>1, <1>4
    <2>2. CASE m >= i + n
      <3>1. i + (n - 1) \in 1 .. L /\ i + (n - 1) < m /\ n - 1 \in 0 .. n - 1
        BY <2>2, <1>1, <1>3, <1>7
      <3>2. list[i + (n - 1)] < list[m]
        BY <3>1, <1>5, Zenon
      <3>3. list[i + (n - 1)] = a + (n - 1)
        BY <3>1, <1>6, Zenon
      <3> QED
        BY <3>2, <3>3, <2>2, <1>3, <1>4, SMTT(30)
    <2>3. CASE ~ (m < i \/ m >= i + n)
      <3>1. m - i \in 0 .. n - 1 /\ i + (m - i) = m
        BY <2>3, <1>3, <1>7
      <3>2. list[m] = a + (m - i)
        BY <3>1, <1>6, Zenon
      <3> QED
        BY <3>1, <3>2, <2>3, <1>4
    <2> QED
      BY <2>1, <2>2, <2>3, Zenon
  <1>14. Elems(new) = {new[k] : k \in 1 .. L - n} /\ Elems(list) = {list[k] : k \in 1 .. L}
    BY <1>2, Zenon DEF Elems, L
  <1>15. Elems(new) \subseteq Elems(list) \ (a .. a + n - 1)
    <2> SUFFICES ASSUME NEW k \in 1 .. L - n
                 PROVE  new[k] \in Elems(list) /\ new[k] \notin a .. a + n - 1
      BY <1>14, Zenon
    <2>1. at[k] \in 1 .. L /\ new[k] = list[at[k]] /\ (at[k] < i \/ at[k] >= i + n)
      BY <1>8, <1>10, Zenon
    <2> QED
      BY <2>1, <1>13, <1>14, Zenon
  <1>16. Elems(list) \ (a .. a + n - 1) \subseteq Elems(new)
    <2> SUFFICES ASSUME NEW m \in 1 .. L, list[m] \notin a .. a + n - 1
                 PROVE  list[m] \in Elems(new)
      BY <1>14, Zenon
    <2>1. PICK k \in 1 .. L - n : at[k] = m
      BY <1>11, <1>13, Zenon
    <2> QED
      BY <2>1, <1>8, <1>14, Zenon
  <1>17. a .. a + n - 1 \subseteq Elems(list)
    <2> SUFFICES ASSUME NEW c \in a .. a + n - 1 PROVE c \in Elems(list)
      BY Zenon
    <2>1. c - a \in 0 .. n - 1 /\ i + (c - a) \in 1 .. L /\ a + (c - a) = c
      BY <1>1, <1>3, <1>4, <1>7
    <2>2. list[i + (c - a)] = c
      BY <2>1, <1>6, Zenon
    <2> QED
      BY <2>1, <2>2, <1>14, Zenon
  <1> QED
    BY <1>12, <1>15, <1>16, <1>17, Zenon DEF new, a

\* The chunks of the arena are numbers.
LEMMA ChunksNat == Chunks \subseteq Nat /\ kmem_end - 1 \in Chunks
  BY ArenaAssumption DEF Chunks

\* FreeSet in terms of Elems.
LEMMA FreeSetElems == FreeSet = Elems(kmem_free_list)
  BY Zenon DEF FreeSet, Elems

(* In a sorted list the position grows with the address.                   *)
LEMMA Position ==
    ASSUME NEW list \in Seq(Nat), Sorted(list),
           NEW j \in 1 .. Len(list), NEW m \in 1 .. Len(list)
    PROVE  /\ list[j] < list[m] => j < m
           /\ j <= m => list[j] <= list[m]
           /\ list[j] \in Nat /\ list[m] \in Nat /\ Len(list) \in Nat
  <1>1. list[j] \in Nat /\ list[m] \in Nat /\ Len(list) \in Nat
    OBVIOUS
  <1>2. j < m => list[j] < list[m]
    BY Zenon DEF Sorted
  <1>3. m < j => list[m] < list[j]
    BY Zenon DEF Sorted
  <1>4. j < m \/ m < j \/ j = m
    BY <1>1
  <1> QED
    BY <1>1, <1>2, <1>3, <1>4

-----------------------------------------------------------------------------
(* Freelists of the pools.                                                 *)

(* mdb_alloc_buffer takes the first buffer of a freelist.                  *)
LEMMA TakeFirst ==
    ASSUME NEW list \in Seq(Nat), Distinct(list), Len(list) # 0
    PROVE  /\ Head(list) \in Elems(list)
           /\ Tail(list) \in Seq(Nat) /\ Len(Tail(list)) = Len(list) - 1
           /\ Distinct(Tail(list))
           /\ Elems(Tail(list)) = Elems(list) \ {Head(list)}
  <1> DEFINE L == Len(list)
             t == Tail(list)
  <1>1. L \in Nat /\ L >= 1 /\ Head(list) = list[1]
    OBVIOUS
  <1>2. t \in Seq(Nat) /\ Len(t) = L - 1 /\ \A i \in 1 .. L - 1 : t[i] = list[i + 1]
    OBVIOUS
  <1>3. \A i, j \in 1 .. L : list[i] = list[j] => i = j
    BY Zenon DEF Distinct
  <1>4. Elems(list) = {list[i] : i \in 1 .. L} /\ Elems(t) = {t[i] : i \in 1 .. L - 1}
    BY <1>2, Zenon DEF Elems
  <1> HIDE DEF L, t
  <1>5. list[1] \in Elems(list)
    BY <1>1, <1>4
  <1>6. ASSUME NEW i \in 1 .. L - 1, NEW j \in 1 .. L - 1, t[i] = t[j] PROVE i = j
    <2>1. i + 1 \in 1 .. L /\ j + 1 \in 1 .. L /\ list[i + 1] = list[j + 1]
      BY <1>1, <1>2, <1>6
    <2>2. i + 1 = j + 1
      BY <2>1, <1>3, Zenon
    <2> QED
      BY <2>2, <1>1
  <1>7. ASSUME NEW i \in 1 .. L - 1 PROVE t[i] \in Elems(list) \ {list[1]}
    <2>1. i + 1 \in 1 .. L /\ i + 1 # 1 /\ 1 \in 1 .. L
      BY <1>1
    <2>2. list[i + 1] # list[1]
      BY <2>1, <1>3, Zenon
    <2> QED
      BY <2>1, <2>2, <1>2, <1>4, Zenon
  <1>8. ASSUME NEW i \in 1 .. L, list[i] # list[1] PROVE list[i] \in Elems(t)
    <2>1. i - 1 \in 1 .. L - 1 /\ (i - 1) + 1 = i
      BY <1>1, <1>8
    <2> QED
      BY <2>1, <1>2, <1>4, Zenon
  <1>9. Elems(t) = Elems(list) \ {list[1]}
    BY <1>4, <1>7, <1>8, ZenonT(30)
  <1> QED
    BY <1>1, <1>2, <1>5, <1>6, <1>9, Zenon DEF Distinct, t, L

(* mdb_free_buffer puts a buffer in front of a freelist.                   *)
LEMMA PutFirst ==
    ASSUME NEW list \in Seq(Nat), Distinct(list), NEW s \in Nat, s \notin Elems(list)
    PROVE  /\ <<s>> \o list \in Seq(Nat) /\ Len(<<s>> \o list) = Len(list) + 1
           /\ Distinct(<<s>> \o list)
           /\ Elems(<<s>> \o list) = Elems(list) \cup {s}
  <1> DEFINE L == Len(list)
             n == <<s>> \o list
  <1>1. L \in Nat
    OBVIOUS
  <1>2. n \in Seq(Nat) /\ Len(n) = L + 1 /\ n[1] = s /\ \A i \in 2 .. L + 1 : n[i] = list[i - 1]
    OBVIOUS
  <1>3. \A i, j \in 1 .. L : list[i] = list[j] => i = j
    BY Zenon DEF Distinct
  <1>4. Elems(list) = {list[i] : i \in 1 .. L} /\ Elems(n) = {n[i] : i \in 1 .. L + 1}
    BY <1>2, Zenon DEF Elems
  <1> HIDE DEF L, n
  <1>5. \A i \in 2 .. L + 1 : i - 1 \in 1 .. L /\ n[i] = list[i - 1] /\ n[i] \in Elems(list)
    BY <1>1, <1>2, <1>4
  <1>6. \A i \in 1 .. L + 1 : i = 1 \/ i \in 2 .. L + 1
    BY <1>1
  <1>7. ASSUME NEW i \in 1 .. L + 1, NEW j \in 1 .. L + 1, n[i] = n[j] PROVE i = j
    <2>1. CASE i = 1 \/ j = 1
      BY <2>1, <1>2, <1>5, <1>6, <1>7, Zenon
    <2>2. CASE i \in 2 .. L + 1 /\ j \in 2 .. L + 1
      <3>1. i - 1 = j - 1
        BY <2>2, <1>3, <1>5, <1>7, Zenon
      <3> QED
        BY <3>1, <2>2, <1>1
    <2> QED
      BY <2>1, <2>2, <1>6, Zenon
  <1>8. Elems(n) \subseteq Elems(list) \cup {s}
    BY <1>2, <1>4, <1>5, <1>6, ZenonT(30)
  <1>9. ASSUME NEW i \in 1 .. L PROVE list[i] \in Elems(n)
    <2>1. i + 1 \in 2 .. L + 1 /\ i + 1 \in 1 .. L + 1 /\ (i + 1) - 1 = i
      BY <1>1
    <2> QED
      BY <2>1, <1>4, <1>5, Zenon
  <1>10. s \in Elems(n)
    <2>1. 1 \in 1 .. L + 1
      BY <1>1
    <2> QED
      BY <2>1, <1>2, <1>4, Zenon
  <1>11. Elems(n) = Elems(list) \cup {s}
    BY <1>4, <1>8, <1>9, <1>10, Zenon
  <1> QED
    BY <1>2, <1>7, <1>11, Zenon DEF Distinct, n, L

-----------------------------------------------------------------------------
(* Doubly linked lists.                                                    *)

(* Only the links of the members matter.                                   *)
LEMMA ListFrame ==
    ASSUME NEW P, NEW head, NEW next, NEW prev, List(P, head, next, prev),
           NEW next2, NEW prev2,
           \A p \in P : next2[p] = next[p] /\ prev2[p] = prev[p]
    PROVE  List(P, head, next2, prev2)
  <1>1. \A p \in P : next2[p] = next[p] /\ prev2[p] = prev[p]
    BY Zenon
  <1>2. head \in P \cup {NULL}
    BY Zenon DEF List
  <1>3. \A p \in P : /\ next2[p] # NULL => next2[p] \in P /\ prev2[next2[p]] = p
                     /\ prev2[p] # NULL => prev2[p] \in P /\ next2[prev2[p]] = p
                     /\ prev2[p] = NULL <=> head = p
    BY <1>1 DEF List
  <1>4. ASSUME NEW S \in (SUBSET P) \ {{}} PROVE \E p \in S : next2[p] \notin S
    BY <1>1, Zenon DEF List
  <1>5. ASSUME NEW S \in (SUBSET P) \ {{}} PROVE \E p \in S : prev2[p] \notin S
    BY <1>1, Zenon DEF List
  <1> QED
    BY <1>2, <1>3, <1>4, <1>5, Zenon DEF List

(* A list without a first member has no member.                            *)
LEMMA NoHead ==
    ASSUME NEW P, NEW next, NEW prev, NULL \notin P, List(P, NULL, next, prev)
    PROVE  P = {}
  <1> SUFFICES ASSUME P # {} PROVE FALSE
    BY Zenon
  <1>1. PICK p \in P : prev[p] \notin P
    BY Zenon DEF List
  <1>2. prev[p] = NULL
    BY <1>1, Zenon DEF List
  <1> QED
    BY <1>2, Zenon DEF List

(* A list of one member.                                                   *)
LEMMA OneMember ==
    ASSUME NEW p, p # NULL, NEW next, NEW prev, next[p] = NULL, prev[p] = NULL
    PROVE  List({p}, p, next, prev)
  <1>1. \A S \in (SUBSET {p}) \ {{}} : S = {p}
    BY Zenon
  <1> QED
    BY <1>1, Zenon DEF List

(* A new member in front of a list.                                        *)
LEMMA Prepend ==
    ASSUME NEW P, NULL \notin P, NEW head, NEW next, NEW prev, List(P, head, next, prev),
           NEW p, p \notin P \cup {NULL}, NEW next2, NEW prev2,
           next2[p] = head, prev2[p] = NULL,
           \A q \in P : next2[q] = next[q],
           \A q \in P : prev2[q] = IF q = head THEN p ELSE prev[q]
    PROVE  List(P \cup {p}, p, next2, prev2)
  <1> DEFINE Q == P \cup {p}
  <1>1. head \in P \cup {NULL}
    BY Zenon DEF List
  <1>2. \A q \in P : /\ next[q] # NULL => next[q] \in P /\ prev[next[q]] = q
                     /\ prev[q] # NULL => prev[q] \in P /\ next[prev[q]] = q
                     /\ prev[q] = NULL <=> head = q
    BY Zenon DEF List
  <1>3. \A q \in P : next[q] # head \/ next[q] = NULL
    BY <1>1, <1>2
  <1>4. ASSUME NEW q \in Q
        PROVE  /\ next2[q] # NULL => next2[q] \in Q /\ prev2[next2[q]] = q
               /\ prev2[q] # NULL => prev2[q] \in Q /\ next2[prev2[q]] = q
               /\ prev2[q] = NULL <=> p = q
    BY <1>1, <1>2, <1>3
  <1>5. ASSUME NEW S \in (SUBSET Q) \ {{}} PROVE \E q \in S : next2[q] \notin S
    <2>1. CASE S = {p}
      BY <2>1, <1>1, Zenon
    <2>2. CASE S # {p}
      <3>1. S \ {p} \in (SUBSET P) \ {{}}
        BY <2>2
      <3>2. PICK q \in S \ {p} : next[q] \notin S \ {p}
        BY <3>1, Zenon DEF List
      <3>3. q \in P /\ next2[q] = next[q] /\ next[q] # p
        BY <3>1, <3>2, <1>2
      <3> QED
        BY <3>2, <3>3, Zenon
    <2> QED
      BY <2>1, <2>2, Zenon
  <1>6. ASSUME NEW S \in (SUBSET Q) \ {{}} PROVE \E q \in S : prev2[q] \notin S
    <2>1. CASE p \in S
      BY <2>1, Zenon
    <2>2. CASE p \notin S
      <3>1. PICK q \in S : prev[q] \notin S
        BY <2>2 DEF List
      <3> QED
        BY <3>1, <2>2, Zenon
    <2> QED
      BY <2>1, <2>2, Zenon
  <1> QED
    BY <1>4, <1>5, <1>6, Zenon DEF List

(* The neighbours of p in P now point past it.                             *)
Bypassed(P, p, next, prev, next2, prev2) ==
    /\ \A q \in P \ {p} : next2[q] = IF q = prev[p] THEN next[p] ELSE next[q]
    /\ \A q \in P \ {p} : prev2[q] = IF q = next[p] THEN prev[p] ELSE prev[q]

(* A member taken out of a list, wherever it is.                           *)
LEMMA TakeOut ==
    ASSUME NEW P, NULL \notin P, NEW head, NEW next, NEW prev, List(P, head, next, prev),
           NEW p \in P, NEW next2, NEW prev2, Bypassed(P, p, next, prev, next2, prev2)
    PROVE  List(P \ {p}, IF head = p THEN next[p] ELSE head, next2, prev2)
  <1> DEFINE Q == P \ {p}
  <1>0. PICK h : h = IF head = p THEN next[p] ELSE head
    BY Zenon
  <1> USE DEF Bypassed
  <1>1. head \in P \cup {NULL}
    BY Zenon DEF List
  <1>2. \A q \in P : /\ next[q] # NULL => next[q] \in P /\ prev[next[q]] = q
                     /\ prev[q] # NULL => prev[q] \in P /\ next[prev[q]] = q
                     /\ prev[q] = NULL <=> head = q
    BY Zenon DEF List
  <1>3. next[p] # p /\ prev[p] # p
    <2>1. {p} \in (SUBSET P) \ {{}}
      BY Zenon
    <2>2. (\E q \in {p} : next[q] \notin {p}) /\ (\E q \in {p} : prev[q] \notin {p})
      BY <2>1, Zenon DEF List
    <2> QED
      BY <2>2, Zenon
  <1>4. h \in Q \cup {NULL}
    BY <1>0, <1>1, <1>2, <1>3, Zenon
  <1>5. \A q \in Q : /\ next[q] = p <=> q = prev[p]
                     /\ prev[q] = p <=> q = next[p]
    BY <1>2
  <1>6. ASSUME NEW q \in Q
        PROVE  /\ next2[q] # NULL => next2[q] \in Q /\ prev2[next2[q]] = q
               /\ prev2[q] # NULL => prev2[q] \in Q /\ next2[prev2[q]] = q
               /\ prev2[q] = NULL <=> h = q
    <2>1. next2[q] # NULL => next2[q] \in Q /\ prev2[next2[q]] = q
      BY <1>2, <1>3, <1>5
    <2>2. prev2[q] # NULL => prev2[q] \in Q /\ next2[prev2[q]] = q
      BY <1>2, <1>3, <1>5
    <2>3. prev2[q] = NULL <=> h = q
      BY <1>0, <1>1, <1>2, <1>3, <1>5
    <2> QED
      BY <2>1, <2>2, <2>3, Zenon
  <1>7. ASSUME NEW S \in (SUBSET Q) \ {{}} PROVE \E q \in S : next2[q] \notin S
    <2>1. CASE prev[p] \in S
      <3>1. S \cup {p} \in (SUBSET P) \ {{}}
        BY Zenon
      <3>2. PICK q \in S \cup {p} : next[q] \notin S \cup {p}
        BY <3>1, Zenon DEF List
      <3>3. prev[p] \in P /\ next[prev[p]] = p
        BY <2>1, <1>2
      <3>4. CASE q = p
        <4>1. next2[prev[p]] = next[p]
          BY <2>1, Zenon
        <4> QED
          BY <3>2, <3>4, <4>1, <2>1, Zenon
      <3>5. CASE q # p
        <4>1. q \in S /\ q # prev[p]
          BY <3>2, <3>3, <3>5, Zenon
        <4> QED
          BY <3>2, <4>1, Zenon
      <3> QED
        BY <3>4, <3>5, Zenon
    <2>2. CASE prev[p] \notin S
      <3>1. PICK q \in S : next[q] \notin S
        BY Zenon DEF List
      <3> QED
        BY <3>1, <2>2, Zenon
    <2> QED
      BY <2>1, <2>2, Zenon
  <1>8. ASSUME NEW S \in (SUBSET Q) \ {{}} PROVE \E q \in S : prev2[q] \notin S
    <2>1. CASE next[p] \in S
      <3>1. S \cup {p} \in (SUBSET P) \ {{}}
        BY Zenon
      <3>2. PICK q \in S \cup {p} : prev[q] \notin S \cup {p}
        BY <3>1, Zenon DEF List
      <3>3. next[p] \in P /\ prev[next[p]] = p
        BY <2>1, <1>2
      <3>4. CASE q = p
        <4>1. prev2[next[p]] = prev[p]
          BY <2>1, Zenon
        <4> QED
          BY <3>2, <3>4, <4>1, <2>1, Zenon
      <3>5. CASE q # p
        <4>1. q \in S /\ q # next[p]
          BY <3>2, <3>3, <3>5, Zenon
        <4> QED
          BY <3>2, <4>1, Zenon
      <3> QED
        BY <3>4, <3>5, Zenon
    <2>2. CASE next[p] \notin S
      <3>1. PICK q \in S : prev[q] \notin S
        BY Zenon DEF List
      <3> QED
        BY <3>1, <2>2, Zenon
    <2> QED
      BY <2>1, <2>2, Zenon
  <1>9. List(Q, h, next2, prev2)
    BY <1>4, <1>6, <1>7, <1>8, Zenon DEF List
  <1> QED
    BY <1>0, <1>9, Zenon

-----------------------------------------------------------------------------
(* Pools.  What kmem keeps in a step is a hypothesis here.                 *)

(* Setting a link changes that link only.                                  *)
LEMMA SetPrevFields ==
    ASSUME NEW m, Typed(m), NEW p, NEW to \in Nat
    PROVE  LET n == SetPrev(m, p, to)
           IN  /\ Typed(n) /\ DOMAIN n = DOMAIN m
               /\ \A q \in DOMAIN m :
                    /\ n[q].freelist = m[q].freelist /\ n[q].num_free = m[q].num_free
                    /\ n[q].bl = m[q].bl /\ n[q].next_freelist = m[q].next_freelist
                    /\ n[q].prev_freelist = IF q = p THEN to ELSE m[q].prev_freelist
  BY Zenon DEF SetPrev, Typed, Managers

\* What writing the other link leaves alone.
LEMMA SetNextFields ==
    ASSUME NEW m, Typed(m), NEW p, NEW to \in Nat
    PROVE  LET n == SetNext(m, p, to)
           IN  /\ Typed(n) /\ DOMAIN n = DOMAIN m
               /\ \A q \in DOMAIN m :
                    /\ n[q].freelist = m[q].freelist /\ n[q].num_free = m[q].num_free
                    /\ n[q].bl = m[q].bl /\ n[q].prev_freelist = m[q].prev_freelist
                    /\ n[q].next_freelist = IF q = p THEN to ELSE m[q].next_freelist
  BY Zenon DEF SetNext, Typed, Managers

(* The number of buffers in a pool.                                        *)
LEMMA Capacity ==
    ASSUME NEW bl \in Buflists
    PROVE  max_free[bl] \in Nat /\ max_free[bl] >= 2 /\ Slots(bl) = 1 .. max_free[bl]
  BY PoolAssumption DEF Slots

(* A freelist and its length replaced.                                     *)
LEMMA Refill ==
    ASSUME NEW r \in Managers, NEW list \in Seq(Nat), NEW k \in Nat
    PROVE  LET n == [r EXCEPT !.freelist = list, !.num_free = k]
           IN  /\ n.freelist = list /\ n.num_free = k /\ n.bl = r.bl
               /\ n.next_freelist = r.next_freelist /\ n.prev_freelist = r.prev_freelist
               /\ n \in Managers
  BY Zenon DEF Managers

(* A buffer of a pool that was in use joins its freelist.                  *)
LEMMA FreelistGrows ==
    ASSUME NEW m, Typed(m), NEW bufs, BuffersOf(m, bufs),
           \A p \in DOMAIN m : FreelistOK(m, p, bufs), NEW b \in bufs
    PROVE  LET n == [m EXCEPT ![b.pool].freelist = <<b.slot>> \o @,
                              ![b.pool].num_free = @ + 1]
           IN  /\ Typed(n) /\ DOMAIN n = DOMAIN m
               /\ \A q \in DOMAIN m :
                    /\ n[q].num_free = IF q = b.pool THEN m[q].num_free + 1 ELSE m[q].num_free
                    /\ n[q].bl = m[q].bl
                    /\ n[q].next_freelist = m[q].next_freelist
                    /\ n[q].prev_freelist = m[q].prev_freelist
                    /\ FreelistOK(n, q, bufs \ {b})
  <1> DEFINE p    == b.pool
             s    == b.slot
             list == m[p].freelist
             n    == [m EXCEPT ![p].freelist = <<s>> \o @, ![p].num_free = @ + 1]
  <1>1. p \in DOMAIN m /\ b = [pool |-> p, slot |-> s] /\ s \in Slots(m[p].bl)
    BY Zenon DEF BuffersOf
  <1>2. list \in Seq(Nat) /\ m[p].bl \in Buflists /\ m[p].num_free \in Nat
    BY <1>1, Zenon DEF Typed, Managers
  <1>3. s \in Nat
    BY <1>1, <1>2, Capacity
  <1>4. /\ m[p].num_free = Len(list) /\ Distinct(list)
        /\ Elems(list) = {x \in Slots(m[p].bl) : [pool |-> p, slot |-> x] \notin bufs}
    BY <1>1, Zenon DEF FreelistOK
  <1>5. s \notin Elems(list)
    BY <1>1, <1>4, Zenon
  <1>6. /\ <<s>> \o list \in Seq(Nat) /\ Len(<<s>> \o list) = Len(list) + 1
        /\ Distinct(<<s>> \o list)
        /\ Elems(<<s>> \o list) = Elems(list) \cup {s}
    BY <1>2, <1>3, <1>4, <1>5, PutFirst, Zenon
  <1>7. /\ DOMAIN n = DOMAIN m
        /\ \A q \in DOMAIN m \ {p} : n[q] = m[q]
        /\ n[p] = [m[p] EXCEPT !.freelist = <<s>> \o list, !.num_free = m[p].num_free + 1]
    BY <1>1, Zenon
  <1> HIDE DEF n
  <1>8. /\ n[p].freelist = <<s>> \o list /\ n[p].num_free = m[p].num_free + 1
        /\ n[p].bl = m[p].bl /\ n[p].next_freelist = m[p].next_freelist
        /\ n[p].prev_freelist = m[p].prev_freelist /\ n[p] \in Managers
    <2>1. m[p] \in Managers
      BY <1>1, Zenon DEF Typed
    <2>2. m[p].num_free + 1 \in Nat
      BY <1>2, SMTT(30)
    <2> DEFINE l == <<s>> \o list
               r == [m[p] EXCEPT !.freelist = l, !.num_free = m[p].num_free + 1]
    <2>3. /\ r.freelist = l /\ r.num_free = m[p].num_free + 1 /\ r.bl = m[p].bl
          /\ r.next_freelist = m[p].next_freelist /\ r.prev_freelist = m[p].prev_freelist
          /\ r \in Managers
      BY <2>1, <2>2, <1>6, Refill, Zenon
    <2>4. n[p] = r
      BY <1>7, Zenon
    <2> HIDE DEF r
    <2> QED
      BY <2>3, <2>4, Zenon
  <1>9. Typed(n)
    BY <1>7, <1>8, Zenon DEF Typed
  <1>10. FreelistOK(n, p, bufs \ {b})
    <2>1. n[p].num_free = Len(n[p].freelist) /\ Distinct(n[p].freelist)
      BY <1>4, <1>6, <1>8, Zenon
    <2>2. \A x : [pool |-> p, slot |-> x] \in bufs \ {b} <=>
                    [pool |-> p, slot |-> x] \in bufs /\ x # s
      BY <1>1
    <2>3. Elems(n[p].freelist)
            = {x \in Slots(n[p].bl) : [pool |-> p, slot |-> x] \notin bufs \ {b}}
      BY <2>2, <1>1, <1>4, <1>6, <1>8
    <2> QED
      BY <2>1, <2>3, Zenon DEF FreelistOK
  <1>11. ASSUME NEW q \in DOMAIN m \ {p} PROVE FreelistOK(n, q, bufs \ {b})
    <2>1. \A x : [pool |-> q, slot |-> x] # b
      BY <1>1
    <2>2. {x \in Slots(m[q].bl) : [pool |-> q, slot |-> x] \notin bufs \ {b}}
            = {x \in Slots(m[q].bl) : [pool |-> q, slot |-> x] \notin bufs}
      BY <2>1, Zenon
    <2> QED
      BY <2>2, <1>7, Zenon DEF FreelistOK
  <1> QED
    BY <1>1, <1>7, <1>8, <1>9, <1>10, <1>11, Zenon DEF n

(* The first buffer of the freelist of pool p is handed out.               *)
LEMMA FreelistShrinks ==
    ASSUME NEW m, Typed(m), NEW bufs, BuffersOf(m, bufs),
           \A q \in DOMAIN m : FreelistOK(m, q, bufs),
           NEW p \in DOMAIN m, m[p].num_free # 0
    PROVE  LET n == [m EXCEPT ![p].freelist = Tail(@), ![p].num_free = @ - 1]
               b == [pool |-> p, slot |-> Head(m[p].freelist)]
           IN  /\ Typed(n) /\ DOMAIN n = DOMAIN m
               /\ BuffersOf(m, bufs \cup {b})
               /\ \A q \in DOMAIN m :
                    /\ n[q].num_free = IF q = p THEN m[q].num_free - 1 ELSE m[q].num_free
                    /\ n[q].bl = m[q].bl
                    /\ n[q].next_freelist = m[q].next_freelist
                    /\ n[q].prev_freelist = m[q].prev_freelist
                    /\ FreelistOK(n, q, bufs \cup {b})
  <1> DEFINE list == m[p].freelist
             s    == Head(list)
             n    == [m EXCEPT ![p].freelist = Tail(@), ![p].num_free = @ - 1]
             b    == [pool |-> p, slot |-> s]
  <1>2. list \in Seq(Nat) /\ m[p].bl \in Buflists /\ m[p].num_free \in Nat
    BY Zenon DEF Typed, Managers
  <1>4. /\ m[p].num_free = Len(list) /\ Distinct(list)
        /\ Elems(list) = {x \in Slots(m[p].bl) : [pool |-> p, slot |-> x] \notin bufs}
    BY Zenon DEF FreelistOK
  <1>6. /\ s \in Elems(list)
        /\ Tail(list) \in Seq(Nat) /\ Len(Tail(list)) = Len(list) - 1
        /\ Distinct(Tail(list))
        /\ Elems(Tail(list)) = Elems(list) \ {s}
    BY <1>2, <1>4, TakeFirst, Zenon
  <1>7. /\ DOMAIN n = DOMAIN m
        /\ \A q \in DOMAIN m \ {p} : n[q] = m[q]
        /\ n[p] = [m[p] EXCEPT !.freelist = Tail(list), !.num_free = m[p].num_free - 1]
    BY Zenon
  <1> HIDE DEF n
  <1>8. /\ n[p].freelist = Tail(list) /\ n[p].num_free = m[p].num_free - 1
        /\ n[p].bl = m[p].bl /\ n[p].next_freelist = m[p].next_freelist
        /\ n[p].prev_freelist = m[p].prev_freelist /\ n[p] \in Managers
    <2>1. m[p] \in Managers
      BY Zenon DEF Typed
    <2>2. m[p].num_free - 1 \in Nat
      BY <1>2, SMTT(30)
    <2> DEFINE l == Tail(list)
               r == [m[p] EXCEPT !.freelist = l, !.num_free = m[p].num_free - 1]
    <2>3. /\ r.freelist = l /\ r.num_free = m[p].num_free - 1 /\ r.bl = m[p].bl
          /\ r.next_freelist = m[p].next_freelist /\ r.prev_freelist = m[p].prev_freelist
          /\ r \in Managers
      BY <2>1, <2>2, <1>6, Refill, Zenon
    <2>4. n[p] = r
      BY <1>7, Zenon
    <2> HIDE DEF r
    <2> QED
      BY <2>3, <2>4, Zenon
  <1>9. Typed(n)
    BY <1>7, <1>8, Zenon DEF Typed
  <1>10. FreelistOK(n, p, bufs \cup {b})
    <2>1. n[p].num_free = Len(n[p].freelist) /\ Distinct(n[p].freelist)
      BY <1>4, <1>6, <1>8, Zenon
    <2>2. \A x : [pool |-> p, slot |-> x] \in bufs \cup {b} <=>
                    [pool |-> p, slot |-> x] \in bufs \/ x = s
      BY Zenon
    <2>3. Elems(n[p].freelist)
            = {x \in Slots(n[p].bl) : [pool |-> p, slot |-> x] \notin bufs \cup {b}}
      <3> HIDE DEF list, s, b
      <3> QED
        BY <2>2, <1>4, <1>6, <1>8, Zenon
    <2> QED
      BY <2>1, <2>3, Zenon DEF FreelistOK
  <1>11. ASSUME NEW q \in DOMAIN m \ {p} PROVE FreelistOK(n, q, bufs \cup {b})
    <2>1. \A x : [pool |-> q, slot |-> x] # b
      BY Zenon
    <2>2. {x \in Slots(m[q].bl) : [pool |-> q, slot |-> x] \notin bufs \cup {b}}
            = {x \in Slots(m[q].bl) : [pool |-> q, slot |-> x] \notin bufs}
      BY <2>1, Zenon
    <2> QED
      BY <2>2, <1>7, Zenon DEF FreelistOK
  <1>12. BuffersOf(m, bufs \cup {b})
    <2>1. b = [pool |-> b.pool, slot |-> b.slot] /\ b.pool = p /\ b.slot \in Slots(m[p].bl)
      BY <1>4, <1>6, Zenon
    <2> QED
      BY <2>1, Zenon DEF BuffersOf
  <1> QED
    BY <1>7, <1>8, <1>9, <1>10, <1>11, <1>12, Zenon DEF n

(* Pools that differ in their links only.                                  *)
LEMMA SameFreelists ==
    ASSUME NEW m, NEW n, NEW bufs, DOMAIN n = DOMAIN m, BuffersOf(m, bufs),
           \A q \in DOMAIN m : FreelistOK(m, q, bufs),
           \A q \in DOMAIN m : /\ n[q].freelist = m[q].freelist
                               /\ n[q].num_free = m[q].num_free /\ n[q].bl = m[q].bl
    PROVE  BuffersOf(n, bufs) /\ \A q \in DOMAIN n : FreelistOK(n, q, bufs)
  BY Zenon DEF BuffersOf, FreelistOK

(* What holds of a member of a list of pools.                              *)
LEMMA OnList ==
    ASSUME PoolInv, NEW bl \in Buflists
    PROVE  /\ NULL \notin Available(bl)
           /\ Available(bl) = AvailableIn(mng, bl)
           /\ Available(bl) \subseteq DOMAIN mng
           /\ list_of_lists[bl] \in Available(bl) \cup {NULL}
           /\ \A p \in Available(bl) :
                /\ mng[p].next_freelist \in Available(bl) \cup {NULL}
                /\ mng[p].prev_freelist \in Available(bl) \cup {NULL}
                /\ mng[p].prev_freelist = NULL <=> list_of_lists[bl] = p
                /\ mng[p].next_freelist # mng[p].prev_freelist \/ mng[p].next_freelist = NULL
  <1>1. NULL \notin Chunks
    BY ArenaAssumption DEF Chunks, NULL
  <1>2. NULL \notin Available(bl) /\ Available(bl) \subseteq DOMAIN mng
    BY <1>1, Zenon DEF PoolInv, Typed, Available
  <1>3. List(Available(bl), list_of_lists[bl], NextOf(mng), PrevOf(mng))
    BY Zenon DEF PoolInv
  <1>4. \A p \in Available(bl) : /\ NextOf(mng)[p] = mng[p].next_freelist
                                 /\ PrevOf(mng)[p] = mng[p].prev_freelist
    BY <1>2, Zenon DEF NextOf, PrevOf
  <1>5. ASSUME NEW p \in Available(bl)
        PROVE  mng[p].next_freelist # mng[p].prev_freelist \/ mng[p].next_freelist = NULL
    <2> DEFINE x == mng[p].next_freelist
    <2> SUFFICES ASSUME x = mng[p].prev_freelist, x # NULL PROVE FALSE
      BY Zenon
    <2>1. x \in Available(bl) /\ mng[x].next_freelist = p
      BY <1>3, <1>4 DEF List
    <2>2. {p, x} \in (SUBSET Available(bl)) \ {{}}
      BY <2>1, Zenon
    <2>3. PICK q \in {p, x} : NextOf(mng)[q] \notin {p, x}
      BY <1>3, <2>2, Zenon DEF List
    <2> QED
      BY <2>1, <2>3, <1>4, Zenon
  <1> QED
    BY <1>2, <1>3, <1>4, <1>5 DEF List, Available, AvailableIn

(* Taking a buffer from a pool on its list: the pool stays the first, or   *)
(* leaves the list when it has no free buffer left.                        *)
LEMMA TakeFromList ==
    ASSUME PoolInv, NEW bl \in Buflists, list_of_lists[bl] # NULL,
           TakeBuffer(mng, bl, list_of_lists[bl]), UNCHANGED kvars, KInv'
    PROVE  PoolInv'
  <1> DEFINE p    == list_of_lists[bl]
             next == mng[p].next_freelist
             b    == [pool |-> p, slot |-> Head(mng[p].freelist)]
             n    == [mng EXCEPT ![p].freelist = Tail(@), ![p].num_free = @ - 1]
  <1>1. p \in Available(bl) /\ p \in DOMAIN mng /\ mng[p].bl = bl /\ mng[p].num_free > 0
    BY OnList, Zenon DEF Available
  <1>2. mng[p].num_free \in Nat /\ mng[p].num_free # 0 /\ next \in Nat
    BY <1>1 DEF PoolInv, Typed, Managers
  <1>3. /\ Typed(n) /\ DOMAIN n = DOMAIN mng
        /\ BuffersOf(mng, buffers \cup {b})
        /\ \A q \in DOMAIN mng :
             /\ n[q].num_free = IF q = p THEN mng[q].num_free - 1 ELSE mng[q].num_free
             /\ n[q].bl = mng[q].bl
             /\ n[q].next_freelist = mng[q].next_freelist
             /\ n[q].prev_freelist = mng[q].prev_freelist
             /\ FreelistOK(n, q, buffers \cup {b})
    BY <1>1, <1>2, FreelistShrinks, ZenonT(30) DEF PoolInv
  <1>4. /\ buffers' = buffers \cup {b}
        /\ list_of_lists' = [list_of_lists EXCEPT ![bl] = IF n[p].num_free = 0 THEN next ELSE p]
        /\ mng' = IF n[p].num_free = 0 THEN SetPrev(n, next, NULL) ELSE n
    BY Zenon DEF TakeBuffer
  <1> HIDE DEF n, b
  <1>5. /\ Typed(mng') /\ DOMAIN mng' = DOMAIN mng
        /\ \A q \in DOMAIN mng :
             /\ mng'[q].freelist = n[q].freelist /\ mng'[q].num_free = n[q].num_free
             /\ mng'[q].bl = n[q].bl /\ mng'[q].next_freelist = n[q].next_freelist
             /\ mng'[q].prev_freelist = IF q = next /\ n[p].num_free = 0
                                        THEN NULL ELSE n[q].prev_freelist
    <2>1. CASE n[p].num_free = 0
      <3>1. mng' = SetPrev(n, next, NULL) /\ NULL \in Nat
        BY <2>1, <1>4, Zenon DEF NULL
      <3> HIDE DEF next
      <3> QED
        BY <2>1, <3>1, <1>3, SetPrevFields
    <2>2. CASE n[p].num_free # 0
      BY <2>2, <1>3, <1>4, Zenon
    <2> QED
      BY <2>1, <2>2, Zenon
  <1>7. list_of_lists' \in [Buflists -> Nat]
    BY <1>2, <1>4, Zenon DEF PoolInv
  <1>8. BuffersOf(mng', buffers') /\ \A q \in DOMAIN mng' : FreelistOK(mng', q, buffers')
    <2>1. BuffersOf(n, buffers') /\ \A q \in DOMAIN n : FreelistOK(n, q, buffers')
      BY <1>3, <1>4, Zenon DEF BuffersOf
    <2> QED
      BY <2>1, <1>3, <1>5, SameFreelists, Zenon
  <1>10. \A q \in DOMAIN mng' : mng'[q].num_free < max_free[mng'[q].bl]
    <2> SUFFICES ASSUME NEW q \in DOMAIN mng
                 PROVE  mng'[q].num_free < max_free[mng'[q].bl]
      BY <1>5, Zenon
    <2>1. mng[q].num_free < max_free[mng[q].bl] /\ max_free[mng[q].bl] \in Nat
      BY Capacity, Zenon DEF PoolInv, Typed, Managers
    <2> QED
      BY <2>1, <1>2, <1>3, <1>5
  <1>11. ASSUME NEW c \in Buflists
         PROVE  List(AvailableIn(mng', c), list_of_lists'[c], NextOf(mng'), PrevOf(mng'))
    <2> DEFINE A == Available(c)
    <2>1. /\ List(A, list_of_lists[c], NextOf(mng), PrevOf(mng)) /\ A = AvailableIn(mng, c)
          /\ NULL \notin A /\ A \subseteq DOMAIN mng
      BY OnList, Zenon DEF PoolInv
    <2>2. \A q \in DOMAIN mng : /\ NextOf(mng)[q] = mng[q].next_freelist
                                /\ PrevOf(mng)[q] = mng[q].prev_freelist
                                /\ NextOf(mng')[q] = mng'[q].next_freelist
                                /\ PrevOf(mng')[q] = mng'[q].prev_freelist
      BY <1>5, Zenon DEF NextOf, PrevOf
    <2>3. CASE c = bl /\ n[p].num_free = 0
      <3>1. AvailableIn(mng', c) = A \ {p}
        BY <2>1, <2>3, <1>1, <1>3, <1>5 DEF AvailableIn
      <3>2. list_of_lists'[c] = next
        BY <2>3, <1>4, Zenon DEF PoolInv
      <3>3. /\ \A q \in A \ {p} : NextOf(mng')[q] = IF q = PrevOf(mng)[p]
                                                  THEN NextOf(mng)[p] ELSE NextOf(mng)[q]
            /\ \A q \in A \ {p} : PrevOf(mng')[q] = IF q = NextOf(mng)[p]
                                                  THEN PrevOf(mng)[p] ELSE PrevOf(mng)[q]
        <4>1. mng[p].prev_freelist = NULL
          BY <1>1, OnList, Zenon
        <4> QED
          BY <4>1, <2>1, <2>2, <2>3, <1>1, <1>3, <1>5
      <3>4. next = IF list_of_lists[c] = p THEN NextOf(mng)[p] ELSE list_of_lists[c]
        BY <2>2, <2>3, <1>1, Zenon
      <3>5. p \in A
        BY <2>3, <1>1, Zenon
      <3> HIDE DEF A, p, next
      <3>6. PICK n1, p1, n2, p2 : /\ n1 = NextOf(mng) /\ p1 = PrevOf(mng)
                                  /\ n2 = NextOf(mng') /\ p2 = PrevOf(mng')
        BY Zenon
      <3>7. List(A \ {p}, next, n2, p2)
        <4>1. NULL \notin A /\ List(A, list_of_lists[c], n1, p1)
          BY <2>1, <3>6, Zenon
        <4>2. next = IF list_of_lists[c] = p THEN n1[p] ELSE list_of_lists[c]
          BY <3>4, <3>6, Zenon
        <4>3. Bypassed(A, p, n1, p1, n2, p2)
          BY <3>3, <3>6, Zenon DEF Bypassed
        <4>4. List(A \ {p}, IF list_of_lists[c] = p THEN n1[p] ELSE list_of_lists[c], n2, p2)
          BY <3>5, <4>1, <4>3, TakeOut, Zenon
        <4> QED
          BY <4>2, <4>4, Zenon
      <3> QED
        BY <3>1, <3>2, <3>6, <3>7, Zenon
    <2>4. CASE c # bl \/ n[p].num_free # 0
      <3>1. AvailableIn(mng', c) = A
        BY <2>1, <2>4, <1>1, <1>2, <1>3, <1>5 DEF AvailableIn
      <3>2. list_of_lists'[c] = list_of_lists[c]
        BY <2>4, <1>4, Zenon DEF PoolInv
      <3>3. \A q \in A : NextOf(mng')[q] = NextOf(mng)[q] /\ PrevOf(mng')[q] = PrevOf(mng)[q]
        <4>1. ASSUME NEW q \in A PROVE ~ (q = next /\ n[p].num_free = 0)
          <5>1. next \in Available(bl) \cup {NULL}
            BY <1>1, OnList, Zenon
          <5> QED
            BY <5>1, <2>1, <2>4, Zenon DEF Available
        <4> QED
          BY <4>1, <2>1, <2>2, <1>3, <1>5
      <3> QED
        BY <2>1, <3>1, <3>2, <3>3, ListFrame
    <2> QED
      BY <2>3, <2>4, Zenon
  <1> QED
    BY <1>5, <1>7, <1>8, <1>10, <1>11, Zenon DEF PoolInv, Available, AvailableIn

(* A new pool: every buffer is on its freelist.                            *)
LEMMA NewFreelist ==
    ASSUME NEW bl \in Buflists
    PROVE  /\ NewPool(bl) \in Managers /\ NewPool(bl).bl = bl
           /\ NewPool(bl).num_free = max_free[bl]
           /\ NewPool(bl).next_freelist = NULL /\ NewPool(bl).prev_freelist = NULL
           /\ Len(NewPool(bl).freelist) = max_free[bl]
           /\ Distinct(NewPool(bl).freelist)
           /\ Elems(NewPool(bl).freelist) = Slots(bl)
  <1> DEFINE k    == max_free[bl]
             list == [i \in 1 .. k |-> i]
  <1>1. k \in Nat /\ Slots(bl) = 1 .. k
    BY Capacity, Zenon
  <1>2. NewPool(bl).freelist = list
    BY <1>1, Zenon DEF NewPool
  <1> HIDE DEF k
  <1>3. list \in Seq(Nat) /\ Len(list) = k /\ \A i \in 1 .. k : list[i] = i
    BY <1>1
  <1>4. Distinct(list) /\ Elems(list) = 1 .. k
    BY <1>1, <1>3, Zenon DEF Distinct, Elems
  <1>5. /\ NewPool(bl).bl = bl /\ NewPool(bl).num_free = k
        /\ NewPool(bl).next_freelist = NULL /\ NewPool(bl).prev_freelist = NULL
    BY Zenon DEF NewPool, k
  <1>6. NewPool(bl) \in Managers
    BY <1>1, <1>3, Zenon DEF NewPool, Managers, NULL, k
  <1> QED
    BY <1>1, <1>2, <1>3, <1>4, <1>5, <1>6, Zenon DEF k

(* With no pool on the list a new page becomes one.                        *)
LEMMA TakeFromNew ==
    ASSUME PoolInv, NEW bl \in Buflists, list_of_lists[bl] = NULL,
           NEW p \in FreeSet, p \in Chunks, KmemAlloc(MDB_ALLOC_CHUNKSZ, p), KInv',
           TakeBuffer([q \in DOMAIN mng \cup {p} |->
                         IF q = p THEN NewPool(bl) ELSE mng[q]], bl, p)
    PROVE  PoolInv'
  <1> DEFINE m == [q \in DOMAIN mng \cup {p} |-> IF q = p THEN NewPool(bl) ELSE mng[q]]
             b == [pool |-> p, slot |-> Head(m[p].freelist)]
             n == [m EXCEPT ![p].freelist = Tail(@), ![p].num_free = @ - 1]
  <1>2. p \notin DOMAIN mng
    <2> SUFFICES ASSUME p \in DOMAIN mng PROVE FALSE
      BY Zenon
    <2>1. p \in Page(p)
      <3>1. MDB_ALLOC_CHUNKSZ \in Nat /\ 1 <= MDB_ALLOC_CHUNKSZ
        BY ArenaAssumption, PoolAssumption
      <3> QED
        BY <3>1, ChunksNat DEF Page, RunSet
    <2> QED
      BY <2>1, Zenon DEF PoolInv, KInv, Conservation
  <1>3. /\ DOMAIN m = DOMAIN mng \cup {p} /\ m[p] = NewPool(bl)
        /\ \A q \in DOMAIN mng : m[q] = mng[q]
    BY <1>2, Zenon
  <1>4. Typed(m)
    BY <1>3, NewFreelist, Zenon DEF PoolInv, Typed
  <1>5. BuffersOf(m, buffers)
    BY <1>3, Zenon DEF PoolInv, BuffersOf
  <1>6. \A q \in DOMAIN m : FreelistOK(m, q, buffers)
    <2>1. FreelistOK(m, p, buffers)
      <3>1. \A s : [pool |-> p, slot |-> s] \notin buffers
        BY <1>2, Zenon DEF PoolInv, BuffersOf
      <3> QED
        BY <3>1, <1>3, NewFreelist, Zenon DEF FreelistOK
    <2>2. ASSUME NEW q \in DOMAIN mng PROVE FreelistOK(m, q, buffers)
      BY <1>3, Zenon DEF PoolInv, FreelistOK
    <2> QED
      BY <2>1, <2>2, <1>3, Zenon
  <1>7. m[p].num_free = max_free[bl] /\ max_free[bl] \in Nat /\ max_free[bl] >= 2
    BY <1>3, NewFreelist, Capacity, Zenon
  <1> HIDE DEF m
  <1>8. /\ Typed(n) /\ DOMAIN n = DOMAIN m
        /\ BuffersOf(m, buffers \cup {b})
        /\ \A q \in DOMAIN m :
             /\ n[q].num_free = IF q = p THEN m[q].num_free - 1 ELSE m[q].num_free
             /\ n[q].bl = m[q].bl
             /\ n[q].next_freelist = m[q].next_freelist
             /\ n[q].prev_freelist = m[q].prev_freelist
             /\ FreelistOK(n, q, buffers \cup {b})
    <2>1. p \in DOMAIN m /\ m[p].num_free # 0
      BY <1>3, <1>7
    <2> QED
      BY <2>1, <1>4, <1>5, <1>6, FreelistShrinks, Zenon
  <1>9. n[p].num_free # 0
    BY <1>3, <1>7, <1>8
  <1>10. /\ buffers' = buffers \cup {b}
         /\ list_of_lists' = [list_of_lists EXCEPT ![bl] = p]
         /\ mng' = n
    BY <1>9, Zenon DEF TakeBuffer, m
  <1> HIDE DEF n, b
  <1>11. list_of_lists' \in [Buflists -> Nat]
    BY <1>10, ChunksNat, Zenon DEF PoolInv
  <1>12. BuffersOf(mng', buffers') /\ \A q \in DOMAIN mng' : FreelistOK(mng', q, buffers')
    BY <1>8, <1>10, Zenon DEF BuffersOf
  <1>14. \A q \in DOMAIN mng' : mng'[q].num_free < max_free[mng'[q].bl]
    <2>1. mng'[p].num_free < max_free[mng'[p].bl]
      BY <1>3, <1>7, <1>8, <1>10, NewFreelist
    <2>2. ASSUME NEW q \in DOMAIN mng PROVE mng'[q].num_free < max_free[mng'[q].bl]
      BY <1>2, <1>3, <1>8, <1>10, Zenon DEF PoolInv
    <2> QED
      BY <2>1, <2>2, <1>3, <1>8, <1>10
  <1>15. ASSUME NEW c \in Buflists
         PROVE  List(AvailableIn(mng', c), list_of_lists'[c], NextOf(mng'), PrevOf(mng'))
    <2> DEFINE A == Available(c)
    <2>1. /\ List(A, list_of_lists[c], NextOf(mng), PrevOf(mng)) /\ A = AvailableIn(mng, c)
          /\ NULL \notin A /\ A \subseteq DOMAIN mng
      BY OnList, Zenon DEF PoolInv
    <2>2. /\ \A q \in DOMAIN mng : /\ NextOf(mng)[q] = mng[q].next_freelist
                                   /\ PrevOf(mng)[q] = mng[q].prev_freelist
          /\ \A q \in DOMAIN mng' : /\ NextOf(mng')[q] = mng'[q].next_freelist
                                    /\ PrevOf(mng')[q] = mng'[q].prev_freelist
      BY Zenon DEF NextOf, PrevOf
    <2>3. mng'[p].bl = bl /\ mng'[p].num_free > 0 /\ p \in DOMAIN mng'
      BY <1>3, <1>7, <1>8, <1>10, NewFreelist
    <2>4. CASE c = bl
      <3>1. A = {}
        BY <2>1, <2>4, NoHead, Zenon
      <3>2. AvailableIn(mng', c) = {p}
        BY <2>1, <2>3, <2>4, <3>1, <1>3, <1>8, <1>10 DEF AvailableIn
      <3>3. NextOf(mng')[p] = NULL /\ PrevOf(mng')[p] = NULL /\ p # NULL
        BY <2>2, <1>3, <1>8, <1>10, NewFreelist, ArenaAssumption DEF Chunks, NULL
      <3>4. list_of_lists'[c] = p
        BY <2>4, <1>10, Zenon DEF PoolInv
      <3> QED
        BY <3>2, <3>3, <3>4, OneMember, Zenon
    <2>5. CASE c # bl
      <3>1. AvailableIn(mng', c) = A
        BY <2>1, <2>3, <2>5, <1>2, <1>3, <1>8, <1>10 DEF AvailableIn
      <3>2. list_of_lists'[c] = list_of_lists[c]
        BY <2>5, <1>10, Zenon DEF PoolInv
      <3>3. \A q \in A : NextOf(mng')[q] = NextOf(mng)[q] /\ PrevOf(mng')[q] = PrevOf(mng)[q]
        BY <2>1, <2>2, <1>3, <1>8, <1>10
      <3> QED
        BY <2>1, <3>1, <3>2, <3>3, ListFrame
    <2> QED
      BY <2>4, <2>5, Zenon
  <1> QED
    BY <1>8, <1>10, <1>11, <1>12, <1>14, <1>15, Zenon
    DEF PoolInv, Available, AvailableIn

(* The pools with buffer b back on its freelist.                           *)
Returned(b) == [mng EXCEPT ![b.pool].freelist = <<b.slot>> \o @, ![b.pool].num_free = @ + 1]

(* What mdb_free_buffer starts from.                                       *)
LEMMA Returning ==
    ASSUME PoolInv, NEW b \in buffers
    PROVE  LET m == Returned(b)
               p == b.pool
           IN  /\ p \in DOMAIN mng /\ mng[p].bl \in Buflists /\ mng[p].num_free \in Nat
               /\ Typed(m) /\ DOMAIN m = DOMAIN mng
               /\ \A q \in DOMAIN mng :
                    /\ m[q].num_free = IF q = p THEN mng[q].num_free + 1 ELSE mng[q].num_free
                    /\ m[q].bl = mng[q].bl
                    /\ m[q].next_freelist = mng[q].next_freelist
                    /\ m[q].prev_freelist = mng[q].prev_freelist
                    /\ FreelistOK(m, q, buffers \ {b})
               /\ BuffersOf(m, buffers \ {b})
  <1> DEFINE m == Returned(b)
             p == b.pool
  <1>1. p \in DOMAIN mng /\ mng[p].bl \in Buflists /\ mng[p].num_free \in Nat
    BY Zenon DEF PoolInv, BuffersOf, Typed, Managers
  <1>2. /\ Typed(m) /\ DOMAIN m = DOMAIN mng
        /\ \A q \in DOMAIN mng :
             /\ m[q].num_free = IF q = p THEN mng[q].num_free + 1 ELSE mng[q].num_free
             /\ m[q].bl = mng[q].bl
             /\ m[q].next_freelist = mng[q].next_freelist
             /\ m[q].prev_freelist = mng[q].prev_freelist
             /\ FreelistOK(m, q, buffers \ {b})
    BY FreelistGrows, Zenon DEF PoolInv, Returned
  <1> HIDE DEF m
  <1>3. BuffersOf(m, buffers \ {b})
    BY <1>2, Zenon DEF PoolInv, BuffersOf
  <1> QED
    BY <1>1, <1>2, <1>3, Zenon DEF m

(* The first buffer back in a pool without a free one: the pool becomes    *)
(* the first of its list.                                                  *)
LEMMA ReturnFirst ==
    ASSUME PoolInv, NEW b \in buffers, mdb_free_buffer(b),
           Returned(b)[b.pool].num_free = 1, KInv'
    PROVE  PoolInv'
  <1> DEFINE m    == Returned(b)
             p    == b.pool
             bl   == mng[p].bl
             head == list_of_lists[bl]
             n    == [m EXCEPT ![p].next_freelist = head, ![p].prev_freelist = NULL]
  <1>0. /\ buffers' = buffers \ {b} /\ mng' = SetPrev(n, head, p)
        /\ list_of_lists' = [list_of_lists EXCEPT ![bl] = p] /\ UNCHANGED kvars
    BY Zenon DEF mdb_free_buffer, Returned, ReturnPool
  <1>1. /\ p \in DOMAIN mng /\ bl \in Buflists /\ mng[p].num_free \in Nat
        /\ Typed(m) /\ DOMAIN m = DOMAIN mng
        /\ \A q \in DOMAIN mng :
             /\ m[q].num_free = IF q = p THEN mng[q].num_free + 1 ELSE mng[q].num_free
             /\ m[q].bl = mng[q].bl
             /\ m[q].next_freelist = mng[q].next_freelist
             /\ m[q].prev_freelist = mng[q].prev_freelist
             /\ FreelistOK(m, q, buffers \ {b})
        /\ BuffersOf(m, buffers \ {b}) /\ m[p].num_free = 1 /\ mng[p].bl = bl
    BY Returning, Zenon
  <1> HIDE DEF m
  <1>2. head \in Nat /\ NULL \in Nat /\ p \in Nat
    BY <1>1, ChunksNat, Zenon DEF PoolInv, Typed, NULL
  <1>3. mng[p].num_free = 0 /\ p \notin Available(bl)
    BY <1>1 DEF Available, bl
  <1>4. head \in Available(bl) \cup {NULL}
    BY <1>1, OnList, Zenon DEF head
  <1>5. /\ Typed(n) /\ DOMAIN n = DOMAIN m
        /\ \A q \in DOMAIN m :
             /\ n[q].freelist = m[q].freelist /\ n[q].num_free = m[q].num_free
             /\ n[q].bl = m[q].bl
             /\ n[q].next_freelist = IF q = p THEN head ELSE m[q].next_freelist
             /\ n[q].prev_freelist = IF q = p THEN NULL ELSE m[q].prev_freelist
    <2>1. p \in DOMAIN m
      BY <1>1, Zenon
    <2> HIDE DEF p, head
    <2> QED
      BY <2>1, <1>1, <1>2, ZenonT(30) DEF Typed, Managers
  <1> HIDE DEF n, p, bl, head
  <1>7. /\ Typed(mng') /\ DOMAIN mng' = DOMAIN n
        /\ \A q \in DOMAIN n :
             /\ mng'[q].freelist = n[q].freelist /\ mng'[q].num_free = n[q].num_free
             /\ mng'[q].bl = n[q].bl /\ mng'[q].next_freelist = n[q].next_freelist
             /\ mng'[q].prev_freelist = IF q = head THEN p ELSE n[q].prev_freelist
    BY <1>0, <1>2, <1>5, SetPrevFields
  <1>9. list_of_lists' \in [Buflists -> Nat]
    BY <1>0, <1>2, Zenon DEF PoolInv
  <1>10. BuffersOf(mng', buffers') /\ \A q \in DOMAIN mng' : FreelistOK(mng', q, buffers')
    <2>1. /\ DOMAIN mng' = DOMAIN m
          /\ \A q \in DOMAIN m : /\ mng'[q].freelist = m[q].freelist
                                 /\ mng'[q].num_free = m[q].num_free
                                 /\ mng'[q].bl = m[q].bl
      BY <1>5, <1>7
    <2>2. BuffersOf(m, buffers') /\ \A q \in DOMAIN m : FreelistOK(m, q, buffers')
      BY <1>0, <1>1, Zenon
    <2> QED
      BY <2>1, <2>2, SameFreelists, Zenon
  <1>12. \A q \in DOMAIN mng' : mng'[q].num_free < max_free[mng'[q].bl]
    <2> SUFFICES ASSUME NEW q \in DOMAIN mng
                 PROVE  mng'[q].num_free < max_free[mng'[q].bl]
      BY <1>1, <1>5, <1>7, Zenon
    <2>1. max_free[bl] \in Nat /\ max_free[bl] >= 2
      BY <1>1, Capacity, Zenon
    <2>2. mng[q].num_free < max_free[mng[q].bl]
      BY Zenon DEF PoolInv
    <2> QED
      BY <2>1, <2>2, <1>1, <1>3, <1>5, <1>7, SMTT(30)
  <1>13. ASSUME NEW c \in Buflists
         PROVE  List(AvailableIn(mng', c), list_of_lists'[c], NextOf(mng'), PrevOf(mng'))
    <2> DEFINE A == Available(c)
    <2>1. /\ List(A, list_of_lists[c], NextOf(mng), PrevOf(mng)) /\ A = AvailableIn(mng, c)
          /\ NULL \notin A /\ A \subseteq DOMAIN mng
      BY OnList, Zenon DEF PoolInv
    <2>2. \A q \in DOMAIN mng : /\ NextOf(mng)[q] = mng[q].next_freelist
                                /\ PrevOf(mng)[q] = mng[q].prev_freelist
                                /\ NextOf(mng')[q] = mng'[q].next_freelist
                                /\ PrevOf(mng')[q] = mng'[q].prev_freelist
      BY <1>1, <1>5, <1>7, Zenon DEF NextOf, PrevOf
    <2>3. CASE c = bl
      <3>1. AvailableIn(mng', c) = A \cup {p}
        BY <2>1, <2>3, <1>1, <1>3, <1>5, <1>7 DEF AvailableIn
      <3>2. list_of_lists'[c] = p /\ list_of_lists[c] = head
        BY <2>3, <1>0, <1>1, Zenon DEF PoolInv, head
      <3>3. NextOf(mng')[p] = head /\ PrevOf(mng')[p] = NULL
        <4>1. p # head
          BY <1>3, <1>4, <1>1, ArenaAssumption DEF PoolInv, Typed, Chunks, NULL
        <4> QED
          BY <4>1, <2>2, <1>1, <1>5, <1>7
      <3>4. /\ \A q \in A : NextOf(mng')[q] = NextOf(mng)[q]
            /\ \A q \in A : PrevOf(mng')[q] = IF q = head THEN p ELSE PrevOf(mng)[q]
        BY <2>1, <2>2, <2>3, <1>1, <1>3, <1>5, <1>7, SMTT(30)
      <3>5. p \notin A \cup {NULL}
        BY <2>3, <1>1, <1>3, ArenaAssumption DEF PoolInv, Typed, Chunks, NULL
      <3> HIDE DEF A
      <3> QED
        BY <2>1, <3>1, <3>2, <3>3, <3>4, <3>5, Prepend, SMTT(30)
    <2>4. CASE c # bl
      <3>1. AvailableIn(mng', c) = A
        BY <2>1, <2>4, <1>1, <1>5, <1>7, SMTT(30) DEF AvailableIn
      <3>2. list_of_lists'[c] = list_of_lists[c]
        BY <2>4, <1>0, Zenon DEF PoolInv
      <3>3. \A q \in A : NextOf(mng')[q] = NextOf(mng)[q] /\ PrevOf(mng')[q] = PrevOf(mng)[q]
        <4>1. ASSUME NEW q \in A PROVE q # head /\ q # p
          BY <1>1, <1>4, <2>1, <2>4, Zenon DEF Available
        <4> QED
          BY <4>1, <2>1, <2>2, <1>1, <1>5, <1>7, SMTT(30)
      <3> QED
        BY <2>1, <3>1, <3>2, <3>3, ListFrame, SMTT(30)
    <2> QED
      BY <2>3, <2>4, Zenon
  <1> QED
    BY <1>7, <1>9, <1>10, <1>12, <1>13, Zenon DEF PoolInv, Available, AvailableIn

(* A buffer back in a pool that has other free ones, and others in use.    *)
LEMMA ReturnMiddle ==
    ASSUME PoolInv, NEW b \in buffers, buffers' = buffers \ {b},
           mng' = Returned(b), mng'[b.pool].num_free \notin {1, max_free[mng[b.pool].bl]},
           mng'[b.pool].num_free <= max_free[mng[b.pool].bl],
           UNCHANGED <<kvars, list_of_lists>>, KInv'
    PROVE  PoolInv'
  <1> DEFINE p == b.pool
  <1>1. /\ p \in DOMAIN mng /\ mng[p].bl \in Buflists /\ mng[p].num_free \in Nat
        /\ Typed(mng') /\ DOMAIN mng' = DOMAIN mng
        /\ \A q \in DOMAIN mng :
             /\ mng'[q].num_free = IF q = p THEN mng[q].num_free + 1 ELSE mng[q].num_free
             /\ mng'[q].bl = mng[q].bl
             /\ mng'[q].next_freelist = mng[q].next_freelist
             /\ mng'[q].prev_freelist = mng[q].prev_freelist
             /\ FreelistOK(mng', q, buffers \ {b})
        /\ BuffersOf(mng', buffers \ {b})
        /\ mng'[p].num_free <= max_free[mng[p].bl]
    BY Returning, Zenon
  <1>4. \A q \in DOMAIN mng' : mng'[q].num_free < max_free[mng'[q].bl]
    <2> SUFFICES ASSUME NEW q \in DOMAIN mng
                 PROVE  mng'[q].num_free < max_free[mng'[q].bl]
      BY <1>1, Zenon
    <2>1. max_free[mng[p].bl] \in Nat
      BY <1>1, Capacity, Zenon
    <2>2. mng[q].num_free < max_free[mng[q].bl]
      BY Zenon DEF PoolInv
    <2> QED
      BY <2>1, <2>2, <1>1, SMTT(30)
  <1>5. ASSUME NEW c \in Buflists
        PROVE  List(AvailableIn(mng', c), list_of_lists'[c], NextOf(mng'), PrevOf(mng'))
    <2> DEFINE A == Available(c)
    <2>1. /\ List(A, list_of_lists[c], NextOf(mng), PrevOf(mng)) /\ A = AvailableIn(mng, c)
          /\ A \subseteq DOMAIN mng
      BY OnList, Zenon DEF PoolInv
    <2>2. mng[p].num_free > 0
      BY <1>1
    <2>3. AvailableIn(mng', c) = A
      BY <2>1, <2>2, <1>1, SMTT(30) DEF AvailableIn
    <2>4. \A q \in A : NextOf(mng')[q] = NextOf(mng)[q] /\ PrevOf(mng')[q] = PrevOf(mng)[q]
      BY <2>1, <1>1, Zenon DEF NextOf, PrevOf
    <2> QED
      BY <2>1, <2>3, <2>4, ListFrame, SMTT(30)
  <1> QED
    BY <1>1, <1>4, <1>5, Zenon DEF PoolInv, Available, AvailableIn

(* The last buffer back in a pool: the pool leaves its list, and its page  *)
(* goes back to kmem.                                                      *)
LEMMA ReturnLast ==
    ASSUME PoolInv, NEW b \in buffers, buffers' = buffers \ {b},
           Returned(b)[b.pool].num_free = max_free[mng[b.pool].bl],
           \A c \in buffers \ {b} : c.pool # b.pool,
           ReturnPool(Returned(b), b.pool), KInv'
    PROVE  PoolInv'
  <1> DEFINE m    == Returned(b)
             p    == b.pool
             bl   == mng[p].bl
             next == mng[p].next_freelist
             prev == mng[p].prev_freelist
             m1   == SetPrev(m, next, prev)
             m2   == IF list_of_lists[bl] = p THEN m1 ELSE SetNext(m1, prev, next)
  <1>1. /\ p \in DOMAIN mng /\ bl \in Buflists /\ mng[p].num_free \in Nat
        /\ Typed(m) /\ DOMAIN m = DOMAIN mng
        /\ \A q \in DOMAIN mng :
             /\ m[q].num_free = IF q = p THEN mng[q].num_free + 1 ELSE mng[q].num_free
             /\ m[q].bl = mng[q].bl
             /\ m[q].next_freelist = mng[q].next_freelist
             /\ m[q].prev_freelist = mng[q].prev_freelist
             /\ FreelistOK(m, q, buffers \ {b})
        /\ BuffersOf(m, buffers \ {b})
        /\ \A c \in buffers \ {b} : c.pool # p
    BY Returning, Zenon
  <1>2. max_free[bl] \in Nat /\ max_free[bl] >= 2 /\ m[p].num_free = max_free[bl]
    BY <1>1, Capacity, Zenon
  <1>3. mng[p].num_free > 0 /\ p \in Available(bl)
    BY <1>1, <1>2 DEF Available
  <1>4. /\ mng' = Drop(m2, p) /\ KmemFree(p, MDB_ALLOC_CHUNKSZ)
        /\ list_of_lists' = IF list_of_lists[bl] = p
                            THEN [list_of_lists EXCEPT ![bl] = next] ELSE list_of_lists
    <2>1. m[p].bl = bl /\ m[p].next_freelist = next /\ m[p].prev_freelist = prev
      BY <1>1, Zenon
    <2> QED
      BY <2>1, Zenon DEF ReturnPool
  <1> HIDE DEF m
  <1>5. /\ next \in Available(bl) \cup {NULL} /\ prev \in Available(bl) \cup {NULL}
        /\ prev = NULL <=> list_of_lists[bl] = p
        /\ next \in Nat /\ prev \in Nat
    BY <1>1, <1>3, OnList, Zenon DEF PoolInv, Typed, Managers
  <1>6. NULL \notin DOMAIN mng
    BY ArenaAssumption DEF PoolInv, Typed, Chunks, NULL
  <1> HIDE DEF p, bl, next, prev
  <1>7. /\ Typed(m1) /\ DOMAIN m1 = DOMAIN m
        /\ \A q \in DOMAIN m :
             /\ m1[q].freelist = m[q].freelist /\ m1[q].num_free = m[q].num_free
             /\ m1[q].bl = m[q].bl /\ m1[q].next_freelist = m[q].next_freelist
             /\ m1[q].prev_freelist = IF q = next THEN prev ELSE m[q].prev_freelist
    BY <1>1, <1>5, SetPrevFields
  <1> HIDE DEF m1
  <1>8. /\ Typed(m2) /\ DOMAIN m2 = DOMAIN m
        /\ \A q \in DOMAIN m :
             /\ m2[q].freelist = m[q].freelist /\ m2[q].num_free = m[q].num_free
             /\ m2[q].bl = m[q].bl
             /\ m2[q].prev_freelist = IF q = next THEN prev ELSE m[q].prev_freelist
             /\ m2[q].next_freelist = IF q = prev THEN next ELSE m[q].next_freelist
    <2>1. CASE list_of_lists[bl] = p
      <3>1. m2 = m1 /\ prev \notin DOMAIN m
        BY <2>1, <1>1, <1>5, <1>6, Zenon
      <3> QED
        BY <3>1, <1>7
    <2>2. CASE list_of_lists[bl] # p
      <3>1. m2 = SetNext(m1, prev, next)
        BY <2>2, Zenon
      <3> HIDE DEF m2
      <3>2. /\ Typed(m2) /\ DOMAIN m2 = DOMAIN m1
            /\ \A q \in DOMAIN m1 :
                 /\ m2[q].freelist = m1[q].freelist /\ m2[q].num_free = m1[q].num_free
                 /\ m2[q].bl = m1[q].bl /\ m2[q].prev_freelist = m1[q].prev_freelist
                 /\ m2[q].next_freelist = IF q = prev THEN next ELSE m1[q].next_freelist
        BY <3>1, <1>5, <1>7, SetNextFields
      <3> QED
        BY <3>2, <1>7
    <2> QED
      BY <2>1, <2>2, Zenon
  <1> HIDE DEF m2
  <1>9. DOMAIN mng' = DOMAIN mng \ {p} /\ \A q \in DOMAIN mng' : mng'[q] = m2[q]
    BY <1>1, <1>4, <1>8, Zenon DEF Drop
  <1>10. Typed(mng')
    BY <1>1, <1>8, <1>9, Zenon DEF Typed
  <1>12. list_of_lists' \in [Buflists -> Nat]
    BY <1>4, <1>5, Zenon DEF PoolInv
  <1>13. BuffersOf(mng', buffers')
    BY <1>1, <1>8, <1>9 DEF BuffersOf
  <1>14. \A q \in DOMAIN mng' : FreelistOK(mng', q, buffers')
    BY <1>1, <1>8, <1>9 DEF FreelistOK
  <1>16. \A q \in DOMAIN mng' : mng'[q].num_free < max_free[mng'[q].bl]
    BY <1>1, <1>8, <1>9 DEF PoolInv
  <1>17. \A q \in DOMAIN mng :
           q # p => /\ q \in DOMAIN mng'
                    /\ mng'[q].next_freelist = IF q = prev THEN next ELSE mng[q].next_freelist
                    /\ mng'[q].prev_freelist = IF q = next THEN prev ELSE mng[q].prev_freelist
    <2> SUFFICES ASSUME NEW q \in DOMAIN mng, q # p
                 PROVE  /\ q \in DOMAIN mng'
                        /\ mng'[q].next_freelist = IF q = prev THEN next ELSE mng[q].next_freelist
                        /\ mng'[q].prev_freelist = IF q = next THEN prev ELSE mng[q].prev_freelist
      BY Zenon
    <2>1. q \in DOMAIN mng' /\ mng'[q] = m2[q] /\ q \in DOMAIN m
      BY <1>1, <1>9, Zenon
    <2>2. /\ m2[q].next_freelist = IF q = prev THEN next ELSE m[q].next_freelist
          /\ m2[q].prev_freelist = IF q = next THEN prev ELSE m[q].prev_freelist
      BY <2>1, <1>8, Zenon
    <2>3. /\ m[q].next_freelist = mng[q].next_freelist
          /\ m[q].prev_freelist = mng[q].prev_freelist
      BY <1>1, Zenon
    <2> QED
      BY <2>1, <2>2, <2>3, Zenon
  <1>18. ASSUME NEW c \in Buflists
         PROVE  List(AvailableIn(mng', c), list_of_lists'[c], NextOf(mng'), PrevOf(mng'))
    <2> DEFINE A == Available(c)
    <2>1. /\ List(A, list_of_lists[c], NextOf(mng), PrevOf(mng)) /\ A = AvailableIn(mng, c)
          /\ NULL \notin A /\ A \subseteq DOMAIN mng
      BY OnList, Zenon DEF PoolInv
    <2>2. /\ \A q \in DOMAIN mng : /\ NextOf(mng)[q] = mng[q].next_freelist
                                   /\ PrevOf(mng)[q] = mng[q].prev_freelist
          /\ \A q \in DOMAIN mng' : /\ NextOf(mng')[q] = mng'[q].next_freelist
                                    /\ PrevOf(mng')[q] = mng'[q].prev_freelist
      BY Zenon DEF NextOf, PrevOf
    <2>3. CASE c = bl
      <3>1. AvailableIn(mng', c) = A \ {p}
        BY <2>1, <1>1, <1>8, <1>9 DEF AvailableIn
      <3>2. NextOf(mng)[p] = next /\ PrevOf(mng)[p] = prev
        BY <2>2, <1>1, Zenon DEF next, prev
      <3>3. list_of_lists'[c] = IF list_of_lists[c] = p THEN NextOf(mng)[p] ELSE list_of_lists[c]
        BY <2>3, <3>2, <1>4, Zenon DEF PoolInv
      <3>4. /\ \A q \in A \ {p} : NextOf(mng')[q] = IF q = PrevOf(mng)[p]
                                                  THEN NextOf(mng)[p] ELSE NextOf(mng)[q]
            /\ \A q \in A \ {p} : PrevOf(mng')[q] = IF q = NextOf(mng)[p]
                                                  THEN PrevOf(mng)[p] ELSE PrevOf(mng)[q]
        <4>1. ASSUME NEW q \in A \ {p}
              PROVE  /\ NextOf(mng')[q] = IF q = PrevOf(mng)[p]
                                          THEN NextOf(mng)[p] ELSE NextOf(mng)[q]
                     /\ PrevOf(mng')[q] = IF q = NextOf(mng)[p]
                                          THEN PrevOf(mng)[p] ELSE PrevOf(mng)[q]
          <5>1. q \in DOMAIN mng /\ q # p
            BY <2>1, Zenon
          <5>2. /\ q \in DOMAIN mng'
                /\ mng'[q].next_freelist = IF q = prev THEN next ELSE mng[q].next_freelist
                /\ mng'[q].prev_freelist = IF q = next THEN prev ELSE mng[q].prev_freelist
            BY <5>1, <1>17, Zenon
          <5>3. /\ NextOf(mng)[q] = mng[q].next_freelist /\ PrevOf(mng)[q] = mng[q].prev_freelist
                /\ NextOf(mng')[q] = mng'[q].next_freelist
                /\ PrevOf(mng')[q] = mng'[q].prev_freelist
            BY <5>1, <5>2, <2>2, Zenon
          <5> QED
            BY <5>2, <5>3, <3>2, Zenon
        <4> QED
          BY <4>1, Zenon
      <3>5. p \in A
        BY <2>3, <1>3, Zenon
      <3> HIDE DEF A
      <3>6. PICK n1, p1, n2, p2, h : /\ n1 = NextOf(mng) /\ p1 = PrevOf(mng)
                                     /\ n2 = NextOf(mng') /\ p2 = PrevOf(mng')
                                     /\ h = list_of_lists'[c]
        BY Zenon
      <3>7. List(A \ {p}, h, n2, p2)
        <4>1. NULL \notin A /\ List(A, list_of_lists[c], n1, p1)
          BY <2>1, <3>6, Zenon
        <4>2. h = IF list_of_lists[c] = p THEN n1[p] ELSE list_of_lists[c]
          BY <3>3, <3>6, Zenon
        <4>3. Bypassed(A, p, n1, p1, n2, p2)
          BY <3>4, <3>6, Zenon DEF Bypassed
        <4>4. List(A \ {p}, IF list_of_lists[c] = p THEN n1[p] ELSE list_of_lists[c], n2, p2)
          BY <3>5, <4>1, <4>3, TakeOut, Zenon
        <4> QED
          BY <4>2, <4>4, Zenon
      <3> QED
        BY <3>1, <3>6, <3>7, Zenon
    <2>4. CASE c # bl
      <3>1. AvailableIn(mng', c) = A
        BY <2>1, <2>4, <1>1, <1>3, <1>8, <1>9 DEF AvailableIn, Available
      <3>2. list_of_lists'[c] = list_of_lists[c]
        BY <2>4, <1>4, Zenon DEF PoolInv
      <3>3. \A q \in A : NextOf(mng')[q] = NextOf(mng)[q] /\ PrevOf(mng')[q] = PrevOf(mng)[q]
        <4>1. ASSUME NEW q \in A PROVE q # next /\ q # prev /\ q # p
          BY <1>3, <1>5, <2>1, <2>4, Zenon DEF Available
        <4>2. ASSUME NEW q \in A
              PROVE  NextOf(mng')[q] = NextOf(mng)[q] /\ PrevOf(mng')[q] = PrevOf(mng)[q]
          <5>1. q \in DOMAIN mng /\ q # next /\ q # prev /\ q # p
            BY <4>1, <2>1, Zenon
          <5>2. /\ q \in DOMAIN mng' /\ mng'[q].next_freelist = mng[q].next_freelist
                /\ mng'[q].prev_freelist = mng[q].prev_freelist
            BY <5>1, <1>17, Zenon
          <5> QED
            BY <5>1, <5>2, <2>2, Zenon
        <4> QED
          BY <4>2, Zenon
      <3> QED
        BY <2>1, <3>1, <3>2, <3>3, ListFrame, SMTT(30)
    <2> QED
      BY <2>3, <2>4, Zenon
  <1> QED
    BY <1>10, <1>12, <1>13, <1>14, <1>16, <1>18, Zenon
    DEF PoolInv, Available, AvailableIn

(* The other clients of kmem leave the pools alone.                        *)
LEMMA OthersInv ==
    ASSUME PoolInv, UNCHANGED <<list_of_lists, mng, buffers>>, KInv'
    PROVE  PoolInv'
  BY Zenon DEF PoolInv, Available

-----------------------------------------------------------------------------
(* Numbers and finite sets.                                                *)
INSTANCE FiniteSetTheorems
INSTANCE WellFoundedInduction

(* A nonempty set of numbers has a least element.                          *)
LEMMA Least ==
    ASSUME NEW T \in SUBSET Nat, T # {}
    PROVE  \E x \in T : \A y \in T : x <= y
  <1>1. PICK x \in T : \A y \in T : ~ (<<y, x>> \in OpToRel(<, Nat))
    BY NatLessThanWellFounded, WFMin, Zenon
  <1>2. \A y \in T : ~ (y < x)
    BY <1>1, Zenon DEF OpToRel
  <1> QED
    BY <1>2

(* Distinct numbers from 1 .. n are at most n, and n of them are all.      *)
LEMMA Count ==
    ASSUME NEW list \in Seq(Nat), Distinct(list), NEW n \in Nat,
           Elems(list) \subseteq 1 .. n
    PROVE  /\ Len(list) <= n
           /\ Len(list) = n <=> Elems(list) = 1 .. n
  <1> DEFINE L == Len(list)
  <1>1. L \in Nat /\ list \in [1 .. L -> 1 .. n]
    BY DEF Elems
  <1>2. list \in Injection(1 .. L, 1 .. n)
    BY <1>1, Zenon DEF Injection, IsInjective, Distinct
  <1>3. IsFiniteSet(1 .. n) /\ Cardinality(1 .. n) = n
    <2>1. 1 \in Int /\ n \in Int
      OBVIOUS
    <2>2. IsFiniteSet(1 .. n) /\ Cardinality(1 .. n) = IF 1 > n THEN 0 ELSE n - 1 + 1
      BY <2>1, FS_Interval, Zenon
    <2> QED
      BY <2>2
  <1>4. Cardinality(1 .. L) = L
    <2>1. 1 \in Int /\ L \in Int
      BY <1>1
    <2>2. Cardinality(1 .. L) = IF 1 > L THEN 0 ELSE L - 1 + 1
      BY <2>1, FS_Interval, Zenon
    <2> QED
      BY <2>2, <1>1
  <1>5. /\ Cardinality(1 .. L) <= Cardinality(1 .. n)
        /\ Cardinality(1 .. L) = Cardinality(1 .. n) <=> list \in Surjection(1 .. L, 1 .. n)
    BY <1>2, <1>3, FS_Injection, Zenon
  <1>6. list \in Surjection(1 .. L, 1 .. n) <=> \A s \in 1 .. n : \E i \in 1 .. L : list[i] = s
    BY <1>1, Zenon DEF Surjection
  <1>7. (\A s \in 1 .. n : \E i \in 1 .. L : list[i] = s) <=> Elems(list) = 1 .. n
    BY <1>1, Zenon DEF Elems
  <1> QED
    BY <1>3, <1>4, <1>5, <1>6, <1>7

-----------------------------------------------------------------------------
(* The invariant of kmem.                                                  *)

(* kmem_free finds a place to insert.                                      *)
LEMMA BeforeFound ==
    ASSUME NEW list \in Seq(Nat), NEW addr \in Nat
    PROVE  PlaceOf(list, addr, Before(list, addr))
  <1> DEFINE T == {i \in 0 .. Len(list) : i < Len(list) => ~ (list[i + 1] < addr)}
  <1>1. T \in SUBSET Nat /\ Len(list) \in T
    OBVIOUS
  <1>2. PICK x \in T : \A y \in T : x <= y
    BY <1>1, Least, Zenon
  <1>3. \A j \in 1 .. x : list[j] < addr
    <2> SUFFICES ASSUME NEW j \in 1 .. x, ~ (list[j] < addr) PROVE FALSE
      BY Zenon
    <2>1. j - 1 \in T
      OBVIOUS
    <2>2. x \in Nat /\ x <= j - 1
      BY <2>1, <1>1, <1>2, Zenon
    <2> QED
      BY <2>2
  <1> HIDE DEF T
  <1>4. \E i \in 0 .. Len(list) :
           /\ \A j \in 1 .. i : list[j] < addr
           /\ i < Len(list) => ~ (list[i + 1] < addr)
    BY <1>3, Zenon DEF T
  <1> QED
    BY <1>4, Zenon DEF Before, PlaceOf

\* A sorted list has no chunk twice.
LEMMA SortedDistinct ==
    ASSUME NEW list \in Seq(Nat), Sorted(list)
    PROVE  Distinct(list)
  BY DEF Sorted, Distinct

\* The free list kmem_init builds.
LEMMA InitInv == Init => KInv
  <1> SUFFICES ASSUME Init PROVE KInv
    BY Zenon
  <1> DEFINE n == kmem_end - kmem_start
             e == <<>>
  <1>1. e \in Seq(Nat) /\ Len(e) = 0 /\ Sorted(e) /\ Elems(e) = {}
    BY DEF Sorted, Elems
  <1>2. /\ kmem_start \in Nat /\ n \in Nat /\ free_chunks = n /\ others = {} /\ DOMAIN mng = {}
        /\ kmem_start .. kmem_start + n - 1 = Chunks
    BY ArenaAssumption DEF Init, KmemInit, Chunks
  <1>3. kmem_free_list = FreeInto(e, kmem_start, n)
    BY Zenon DEF Init, KmemInit
  <1> HIDE DEF e, n
  <1>4. \A j \in 1 .. Len(e) : e[j] \notin kmem_start .. kmem_start + n - 1
    BY <1>1
  <1>5. Sorted(kmem_free_list) /\ Elems(kmem_free_list) = Elems(e) \cup Chunks
    BY <1>1, <1>2, <1>3, <1>4, BeforeFound, FreeSorted, ZenonT(30)
  <1>6. kmem_free_list \in Seq(Nat) /\ Len(kmem_free_list) = n
    <2>1. kmem_free_list \in Seq(Nat) /\ Len(kmem_free_list) = Len(e) + n
      BY <1>1, <1>2, <1>3, BeforeFound, FreeIntoElems, ZenonT(30)
    <2> QED
      BY <2>1, <1>1, <1>2
  <1>7. FreeSet = Chunks
    BY <1>1, <1>5, FreeSetElems, Zenon
  <1>8. Distinct(kmem_free_list)
    BY <1>5, <1>6, SortedDistinct, Zenon
  <1>9. Conservation
    BY <1>2, <1>7, <1>8, Zenon DEF Conservation, Distinct
  <1> QED
    BY <1>2, <1>5, <1>6, <1>7, <1>9, ChunksNat
    DEF KInv, KTypeOK, FreeListSorted, Sorted, LastChunkFree

(* What kmem_alloc does to the free list and to the free chunks.           *)
LEMMA AllocStep ==
    ASSUME KInv, NEW n \in Sizes, NEW a \in Chunks, KmemAlloc(n, a)
    PROVE  /\ n \in Nat /\ 1 <= n
           /\ kmem_free_list' \in Seq(Nat) /\ Sorted(kmem_free_list')
           /\ Len(kmem_free_list') = Len(kmem_free_list) - n
           /\ a .. a + n - 1 \subseteq FreeSet
           /\ FreeSet' = FreeSet \ (a .. a + n - 1)
           /\ kmem_end - 1 \notin a .. a + n - 1
  <1> DEFINE list == kmem_free_list
             i    == FirstFit(list, n)
  <1>1. n \in Nat /\ 1 <= n
    BY ArenaAssumption
  <1>2. \E j \in 1 .. Len(list) : Fits(list, j, n)
    BY Zenon DEF KmemAlloc, FitsSomewhere
  <1>3. list \in Seq(Nat) /\ Sorted(list)
    BY Zenon DEF KInv, KTypeOK, FreeListSorted, Sorted
  <1>4. i \in 1 .. Len(list) /\ Fits(list, i, n)
    <2> DEFINE T == {j \in 1 .. Len(list) : Fits(list, j, n)}
    <2>1. T \in SUBSET Nat /\ T # {}
      BY <1>2
    <2>2. PICK x \in T : \A y \in T : x <= y
      BY <2>1, Least, Zenon
    <2>3. \A j \in 1 .. x - 1 : ~ Fits(list, j, n)
      <3> SUFFICES ASSUME NEW j \in 1 .. x - 1, Fits(list, j, n) PROVE FALSE
        BY Zenon
      <3>0. x \in 1 .. Len(list) /\ Len(list) \in Nat
        BY <2>2, <1>3
      <3>1. j \in T
        BY <3>0
      <3>2. x <= j
        BY <2>2, <3>1, Zenon
      <3> QED
        BY <3>0, <3>2
    <2>4. x \in 1 .. Len(list) /\ Fits(list, x, n)
      BY <2>2, Zenon
    <2> QED
      BY <2>3, <2>4, Zenon DEF FirstFit
  <1>5. a = list[i] /\ list' = Without(list, i, n)
    BY Zenon DEF KmemAlloc
  <1> HIDE DEF i
  <1>6. /\ Sorted(Without(list, i, n))
        /\ Elems(Without(list, i, n)) = Elems(list) \ (a .. a + n - 1)
        /\ a .. a + n - 1 \subseteq Elems(list)
    BY <1>1, <1>3, <1>4, <1>5, AllocSorted
  <1>7. i + n <= Len(list)
    BY <1>4, Zenon DEF Fits
  <1>8. Without(list, i, n) \in Seq(Nat) /\ Len(Without(list, i, n)) = Len(list) - n
    BY <1>1, <1>3, <1>4, <1>7, WithoutElems, Zenon
  <1>9. FreeSet' = Elems(list') /\ FreeSet = Elems(list)
    BY Zenon DEF FreeSet, Elems
  <1>10. kmem_end - 1 \notin a .. a + n - 1
    <2>1. /\ i + n \in 1 .. Len(list) /\ i + (n - 1) \in 1 .. Len(list)
          /\ i + (n - 1) < i + n
      BY <1>1, <1>3, <1>4, <1>7
    <2>2. list[i + (n - 1)] < list[i + n]
      BY <2>1, <1>3, Zenon DEF Sorted
    <2>3. list[i + (n - 1)] = a + (n - 1)
      <3>1. CASE n = 1
        BY <3>1, <1>3, <1>4, <1>5
      <3>2. CASE n # 1
        <4>1. n - 1 \in 1 .. n - 1
          BY <3>2, <1>1
        <4> QED
          BY <4>1, <1>4, <1>5, Zenon DEF Fits
      <3> QED
        BY <3>1, <3>2, Zenon
    <2>4. list[i + n] \in Chunks
      BY <2>1, <1>9, Zenon DEF KInv, KTypeOK, Elems
    <2> QED
      BY <2>2, <2>3, <2>4, <1>1, ArenaAssumption DEF Chunks
  <1> QED
    BY <1>1, <1>5, <1>6, <1>8, <1>9, <1>10

(* Who holds the chunks: the free list has free, the other clients have    *)
(* oth, the pools are at D.                                                *)
Partition(list, free, oth, D) ==
  /\ Distinct(list)
  /\ \A p \in D : Page(p) \subseteq Chunks \ (free \cup oth)
  /\ \A p, r \in D : p # r => Page(p) \cap Page(r) = {}
  /\ free \cap oth = {}
  /\ \A c \in Chunks : c \in free \cup oth \/ \E p \in D : c \in Page(p)

(* Chunks go from the free list to another client, and back.               *)
LEMMA OtherTransfers ==
    ASSUME NEW list, NEW free \in SUBSET Chunks, NEW oth \in SUBSET Chunks, NEW D,
           Partition(list, free, oth, D), NEW new, Distinct(new), NEW R
    PROVE  /\ R \subseteq free => Partition(new, free \ R, oth \cup R, D)
           /\ R \subseteq oth => Partition(new, free \cup R, oth \ R, D)
  <1>1. ASSUME R \subseteq free PROVE Partition(new, free \ R, oth \cup R, D)
    BY <1>1, Zenon DEF Partition
  <1>2. ASSUME R \subseteq oth PROVE Partition(new, free \cup R, oth \ R, D)
    BY <1>2, Zenon DEF Partition
  <1> QED
    BY <1>1, <1>2, Zenon

(* A page goes from the free list to a new pool at a, and back.            *)
LEMMA PoolTransfers ==
    ASSUME NEW list, NEW free \in SUBSET Chunks, NEW oth \in SUBSET Chunks, NEW D,
           Partition(list, free, oth, D), NEW new, Distinct(new), NEW a
    PROVE  /\ Page(a) \subseteq free => Partition(new, free \ Page(a), oth, D \cup {a})
           /\ a \in D => Partition(new, free \cup Page(a), oth, D \ {a})
  <1>1. ASSUME Page(a) \subseteq free PROVE Partition(new, free \ Page(a), oth, D \cup {a})
    BY <1>1, Zenon DEF Partition
  <1>2. ASSUME a \in D PROVE Partition(new, free \cup Page(a), oth, D \ {a})
    BY <1>2, Zenon DEF Partition
  <1> QED
    BY <1>1, <1>2, Zenon

\* kmem_alloc unlinks what it hands out, to another client or as the page of a
\* new pool, and never the last chunk.
LEMMA AllocInv ==
    ASSUME KInv, NEW n \in Sizes, NEW a \in Chunks, KmemAlloc(n, a),
           \/ others' = others \cup RunSet(a, n) /\ DOMAIN mng' = DOMAIN mng
           \/ /\ n = MDB_ALLOC_CHUNKSZ /\ UNCHANGED others
              /\ DOMAIN mng' = DOMAIN mng \cup {a}
    PROVE  KInv'
  <1>1. PICK R : R = RunSet(a, n)
    BY Zenon
  <1>2. /\ n \in Nat /\ 1 <= n
        /\ kmem_free_list' \in Seq(Nat) /\ Sorted(kmem_free_list')
        /\ Len(kmem_free_list') = Len(kmem_free_list) - n
        /\ R \subseteq FreeSet /\ FreeSet' = FreeSet \ R
        /\ kmem_end - 1 \notin R
    BY <1>1, AllocStep, Zenon DEF RunSet
  <1>3. /\ Partition(kmem_free_list, FreeSet, others, DOMAIN mng)
        /\ FreeSet \in SUBSET Chunks /\ others \in SUBSET Chunks
    BY Zenon DEF KInv, KTypeOK, Conservation, Partition, Distinct
  <1>4. Distinct(kmem_free_list')
    BY <1>2, SortedDistinct, Zenon
  <1>5. /\ Partition(kmem_free_list', FreeSet', others', DOMAIN mng')
        /\ others' \in SUBSET Chunks
    <2>1. CASE others' = others \cup RunSet(a, n) /\ DOMAIN mng' = DOMAIN mng
      BY <2>1, <1>1, <1>2, <1>3, <1>4, OtherTransfers, Zenon
    <2>2. CASE n = MDB_ALLOC_CHUNKSZ /\ UNCHANGED others /\ DOMAIN mng' = DOMAIN mng \cup {a}
      <3>1. Page(a) = R
        BY <2>2, <1>1, Zenon DEF Page
      <3>2. Partition(kmem_free_list', FreeSet \ Page(a), others, DOMAIN mng \cup {a})
        BY <3>1, <1>2, <1>3, <1>4, PoolTransfers, Zenon
      <3> QED
        BY <2>2, <3>1, <3>2, <1>2, <1>3, Zenon
    <2> QED
      BY <2>1, <2>2, Zenon
  <1>6. Conservation'
    BY <1>5, Zenon DEF Conservation, Partition, Distinct, Page, RunSet, Chunks
  <1>7. KTypeOK'
    BY <1>2, <1>3, <1>5 DEF KInv, KTypeOK, KmemAlloc, Chunks
  <1>8. FreeListSorted'
    <2>1. free_chunks' = Len(kmem_free_list) - n
      BY Zenon DEF KInv, FreeListSorted, KmemAlloc
    <2> QED
      BY <2>1, <1>2, Zenon DEF FreeListSorted, Sorted
  <1>9. LastChunkFree'
    BY <1>2, Zenon DEF KInv, LastChunkFree
  <1> QED
    BY <1>6, <1>7, <1>8, <1>9, Zenon DEF KInv

\* kmem_free inserts the run, of another client or the page of a pool that is
\* given up, in its place.
LEMMA FreeInv ==
    ASSUME KInv, NEW a \in Nat, NEW n \in Nat, KmemFree(a, n),
           \/ /\ RunSet(a, n) \subseteq others /\ others' = others \ RunSet(a, n)
              /\ DOMAIN mng' = DOMAIN mng
           \/ /\ n = MDB_ALLOC_CHUNKSZ /\ UNCHANGED others
              /\ a \in DOMAIN mng /\ DOMAIN mng' = DOMAIN mng \ {a}
    PROVE  KInv'
  <1> DEFINE list == kmem_free_list
  <1>1. PICK R : R = a .. a + n - 1
    BY Zenon
  <1>2. list \in Seq(Nat) /\ Sorted(list) /\ RunSet(a, n) = R
    BY <1>1, Zenon DEF KInv, KTypeOK, FreeListSorted, Sorted, RunSet
  <1>3. FreeSet = Elems(list) /\ FreeSet' = Elems(list')
    BY Zenon DEF FreeSet, Elems
  <1>4. /\ Partition(list, FreeSet, others, DOMAIN mng)
        /\ FreeSet \in SUBSET Chunks /\ others \in SUBSET Chunks
    BY Zenon DEF KInv, KTypeOK, Conservation, Partition, Distinct
  <1>5. R \subseteq Chunks \ FreeSet
    <2>1. CASE RunSet(a, n) \subseteq others
      BY <2>1, <1>2, <1>4, Zenon DEF Partition
    <2>2. CASE n = MDB_ALLOC_CHUNKSZ /\ a \in DOMAIN mng
      BY <2>2, <1>2, <1>4, Zenon DEF Partition, Page
    <2> QED
      BY <2>1, <2>2, Zenon
  <1>6. \A j \in 1 .. Len(list) : list[j] \notin a .. a + n - 1
    BY <1>1, <1>3, <1>5, Zenon DEF Elems
  <1>7. list' = FreeInto(list, a, n) /\ free_chunks' = free_chunks + n
    BY Zenon DEF KmemFree
  <1>8. /\ Sorted(FreeInto(list, a, n))
        /\ Elems(FreeInto(list, a, n)) = Elems(list) \cup a .. a + n - 1
    BY <1>2, <1>6, BeforeFound, FreeSorted, Zenon
  <1>9. /\ FreeInto(list, a, n) \in Seq(Nat)
        /\ Len(FreeInto(list, a, n)) = Len(list) + n
    BY <1>2, BeforeFound, FreeIntoElems, ZenonT(30)
  <1>10. FreeSet' = FreeSet \cup R /\ list' \in Seq(Nat) /\ Distinct(list')
    BY <1>1, <1>3, <1>7, <1>8, <1>9, SortedDistinct, Zenon
  <1>11. /\ Partition(list', FreeSet', others', DOMAIN mng')
         /\ others' \in SUBSET Chunks
    <2>1. CASE /\ RunSet(a, n) \subseteq others /\ others' = others \ RunSet(a, n)
               /\ DOMAIN mng' = DOMAIN mng
      BY <2>1, <1>2, <1>4, <1>10, OtherTransfers, Zenon
    <2>2. CASE /\ n = MDB_ALLOC_CHUNKSZ /\ UNCHANGED others
               /\ a \in DOMAIN mng /\ DOMAIN mng' = DOMAIN mng \ {a}
      <3>1. Page(a) = R
        BY <2>2, <1>2, Zenon DEF Page
      <3>2. Partition(list', FreeSet \cup Page(a), others, DOMAIN mng \ {a})
        BY <2>2, <1>4, <1>10, PoolTransfers, Zenon
      <3> QED
        BY <2>2, <3>1, <3>2, <1>4, <1>10, Zenon
    <2> QED
      BY <2>1, <2>2, Zenon
  <1>12. Conservation'
    BY <1>11, Zenon DEF Conservation, Partition, Distinct, Page, RunSet, Chunks
  <1>13. KTypeOK'
    BY <1>4, <1>5, <1>7, <1>10, <1>11 DEF KInv, KTypeOK, Chunks
  <1>14. FreeListSorted'
    <2>1. free_chunks' = Len(list) + n
      BY <1>7, Zenon DEF KInv, FreeListSorted
    <2> QED
      BY <2>1, <1>7, <1>8, <1>9, Zenon DEF FreeListSorted, Sorted
  <1>15. LastChunkFree'
    BY <1>10, Zenon DEF KInv, LastChunkFree
  <1> QED
    BY <1>12, <1>13, <1>14, <1>15, Zenon DEF KInv

\* Calls that leave kmem alone, and keep the pools they find.
LEMMA KeepInv ==
    ASSUME KInv, UNCHANGED <<kvars, others>>, DOMAIN mng' = DOMAIN mng
    PROVE  KInv'
  BY DEF kvars, KInv, KTypeOK, FreeListSorted, Conservation, LastChunkFree,
         FreeSet, RunSet, Page, Chunks

(* Consecutive free chunks are consecutive on a sorted list.               *)
LEMMA Consecutive ==
    ASSUME NEW list \in Seq(Nat), Sorted(list), NEW i \in 1 .. Len(list),
           NEW n \in Nat, list[i] .. list[i] + n - 1 \subseteq Elems(list)
    PROVE  \A k \in 0 .. n - 1 : i + k \in 1 .. Len(list) /\ list[i + k] = list[i] + k
  <1> DEFINE L    == Len(list)
             a    == list[i]
             Good(k) == i + k \in 1 .. L /\ list[i + k] = a + k
             T    == {k \in 0 .. n - 1 : ~ Good(k)}
  <1>0. L \in Nat /\ a \in Nat
    OBVIOUS
  <1> SUFFICES ASSUME T # {} PROVE FALSE
    BY Zenon
  <1>1. T \in SUBSET Nat
    OBVIOUS
  <1>2. PICK k \in T : \A y \in T : k <= y
    BY <1>1, Least, Zenon
  <1>3. k \in 0 .. n - 1 /\ ~ Good(k)
    BY <1>2, Zenon
  <1> HIDE DEF T
  <1>4. k # 0
    <2>1. i + 0 = i /\ a + 0 = a
      BY <1>0
    <2> QED
      BY <1>3, <2>1, Zenon
  <1>5. k - 1 \in 0 .. n - 1 /\ k - 1 < k
    BY <1>3, <1>4
  <1>6. Good(k - 1)
    <2>1. ~ (k <= k - 1)
      BY <1>3, <1>5
    <2>2. k - 1 \notin T
      BY <1>2, <2>1, Zenon
    <2> QED
      BY <1>5, <2>2, Zenon DEF T
  <1>7. a + k \in Elems(list)
    <2>0. a \in Nat /\ k \in Nat /\ k <= n - 1
      BY <1>0, <1>3
    <2> HIDE DEF a
    <2>1. a + k \in a .. a + n - 1
      BY <2>0
    <2> QED
      BY <2>1, Zenon DEF a
  <1>8. PICK m \in 1 .. L : list[m] = a + k
    BY <1>7, Zenon DEF Elems
  <1> HIDE DEF L, a
  <1>9. i + (k - 1) \in 1 .. L /\ list[i + (k - 1)] = a + (k - 1)
    BY <1>6, Zenon
  <1>10. i + (k - 1) < m
    <2>1. list[i + (k - 1)] < list[m]
      BY <1>0, <1>3, <1>8, <1>9, SMTT(30)
    <2> QED
      BY <2>1, <1>8, <1>9, Position, Zenon DEF L
  <1>11. i + k \in 1 .. L /\ i + k <= m /\ i + (k - 1) < i + k
    BY <1>0, <1>3, <1>8, <1>9, <1>10 DEF L
  <1>12. list[i + k] <= list[m] /\ list[i + k] \in Nat
    BY <1>8, <1>11, Position, Zenon DEF L
  <1>13. list[i + (k - 1)] < list[i + k]
    BY <1>9, <1>11, Zenon DEF Sorted, L
  <1>14. list[i + k] = a + k
    <2>1. a + (k - 1) < list[i + k] /\ list[i + k] <= a + k
      BY <1>8, <1>9, <1>12, <1>13, SMTT(30)
    <2>2. a \in Nat /\ k \in Nat /\ list[i + k] \in Nat
      BY <1>0, <1>3, <1>12
    <2> DEFINE x == list[i + k]
    <2> HIDE DEF x
    <2>3. a + (k - 1) < x /\ x <= a + k /\ x \in Nat
      BY <2>1, <2>2, Zenon DEF x
    <2>4. x = a + k
      BY <2>2, <2>3
    <2> QED
      BY <2>4, Zenon DEF x
  <1> QED
    BY <1>3, <1>11, <1>14, Zenon

\* The search of kmem_alloc finds a run just when there is one with a free chunk behind it.
LEMMA Complete ==
    ASSUME KInv, NEW n \in Sizes
    PROVE  FitsSomewhere(kmem_free_list, n) <=>
             \E a \in FreeSet :
               /\ a % n = 0
               /\ a .. a + n - 1 \subseteq FreeSet
               /\ \E c \in FreeSet : c > a + n - 1
  <1> DEFINE list == kmem_free_list
  <1>1. n \in Nat /\ 1 <= n
    BY ArenaAssumption
  <1>2. list \in Seq(Nat) /\ Sorted(list) /\ FreeSet = Elems(list)
    BY FreeSetElems, Zenon DEF KInv, KTypeOK, FreeListSorted, Sorted
  <1>3. ASSUME NEW i \in 1 .. Len(list), Fits(list, i, n)
        PROVE  \E a \in FreeSet :
                 /\ a % n = 0
                 /\ a .. a + n - 1 \subseteq FreeSet
                 /\ \E c \in FreeSet : c > a + n - 1
    <2>1. list[i] .. list[i] + n - 1 \subseteq FreeSet
      BY <1>1, <1>2, <1>3, AllocSorted, Zenon
    <2>2. /\ i + n \in 1 .. Len(list) /\ i + (n - 1) \in 1 .. Len(list)
          /\ i + (n - 1) < i + n /\ n - 1 \in 0 .. n - 1 /\ list[i] \in Nat
      BY <1>1, <1>2, <1>3 DEF Fits
    <2>3. list[i + (n - 1)] < list[i + n] /\ list[i + n] \in Nat
      <3>1. list[i + (n - 1)] < list[i + n]
        BY <1>2, <2>2, Zenon DEF Sorted
      <3>2. list[i + n] \in Nat
        BY <1>2, <2>2, Position, Zenon
      <3> QED
        BY <3>1, <3>2, Zenon
    <2>4. list[i + (n - 1)] = list[i] + (n - 1)
      BY <1>1, <1>2, <2>1, <2>2, Consecutive, Zenon
    <2>5. list[i + n] > list[i] + n - 1
      BY <2>2, <2>3, <2>4, <1>1, Zenon
    <2>6. list[i] \in FreeSet /\ list[i + n] \in FreeSet
      BY <1>2, <2>2, Zenon DEF Elems
    <2> QED
      BY <1>3, <2>1, <2>5, <2>6, Zenon DEF Fits
  <1>4. ASSUME NEW a \in FreeSet, a % n = 0, a .. a + n - 1 \subseteq FreeSet,
               NEW c \in FreeSet, c > a + n - 1
        PROVE  FitsSomewhere(list, n)
    <2>1. PICK i \in 1 .. Len(list) : list[i] = a
      BY <1>2, Zenon DEF Elems
    <2>2. \A k \in 0 .. n - 1 : i + k \in 1 .. Len(list) /\ list[i + k] = a + k
      <3>1. list[i] .. list[i] + n - 1 \subseteq Elems(list)
        BY <1>2, <1>4, <2>1, Zenon
      <3>2. \A k \in 0 .. n - 1 : i + k \in 1 .. Len(list) /\ list[i + k] = list[i] + k
        BY <3>1, <1>1, <1>2, Consecutive, Zenon
      <3> QED
        BY <3>2, <2>1, Zenon
    <2>3. PICK m \in 1 .. Len(list) : list[m] = c
      BY <1>2, Zenon DEF Elems
    <2>4. n - 1 \in 0 .. n - 1
      BY <1>1
    <2>5. i + (n - 1) \in 1 .. Len(list) /\ list[i + (n - 1)] = a + (n - 1)
      BY <2>2, <2>4, Zenon
    <2>6. a \in Nat /\ c \in Nat /\ Len(list) \in Nat
      BY <1>2, <2>1, <2>3
    <2>7. list[i + (n - 1)] < list[m]
      BY <1>1, <1>4, <2>3, <2>5, <2>6, Zenon
    <2>8. i + (n - 1) < m
      BY <1>2, <2>5, <2>7, Position, Zenon
    <2>9. i + n <= Len(list)
      BY <1>1, <2>6, <2>8
    <2>10. \A k \in 1 .. n - 1 : list[i + k] = list[i] + k
      BY <1>1, <2>1, <2>2
    <2> QED
      BY <1>4, <2>1, <2>9, <2>10, Zenon DEF Fits, FitsSomewhere
  <1> QED
    BY <1>3, <1>4, Zenon DEF FitsSomewhere

-----------------------------------------------------------------------------
(* The invariant of the pools.                                             *)

(* A freelist is no longer than the pool has buffers, and as long only if  *)
(* none of them is in use.                                                 *)
LEMMA FreelistCount ==
    ASSUME NEW m, Typed(m), NEW bufs, BuffersOf(m, bufs),
           NEW p \in DOMAIN m, FreelistOK(m, p, bufs)
    PROVE  /\ m[p].num_free <= max_free[m[p].bl]
           /\ m[p].num_free = max_free[m[p].bl] <=> \A b \in bufs : b.pool # p
  <1> DEFINE list == m[p].freelist
             n    == max_free[m[p].bl]
  <1>1. list \in Seq(Nat) /\ m[p].bl \in Buflists
    BY Zenon DEF Typed, Managers
  <1>2. n \in Nat /\ Slots(m[p].bl) = 1 .. n
    BY <1>1, Capacity, Zenon
  <1>3. /\ m[p].num_free = Len(list) /\ Distinct(list)
        /\ Elems(list) = {s \in 1 .. n : [pool |-> p, slot |-> s] \notin bufs}
    BY <1>2, Zenon DEF FreelistOK
  <1> HIDE DEF list, n
  <1>4. Len(list) <= n /\ (Len(list) = n <=> Elems(list) = 1 .. n)
    BY <1>1, <1>2, <1>3, Count, Zenon
  <1>5. ASSUME NEW b \in bufs, b.pool = p PROVE Elems(list) # 1 .. n
    <2>1. b = [pool |-> p, slot |-> b.slot] /\ b.slot \in Slots(m[p].bl)
      BY <1>5, Zenon DEF BuffersOf
    <2> QED
      BY <2>1, <1>2, <1>3, Zenon
  <1>6. ASSUME \A b \in bufs : b.pool # p PROVE Elems(list) = 1 .. n
    <2>1. \A s \in 1 .. n : [pool |-> p, slot |-> s] \notin bufs
      BY <1>6, Zenon
    <2> QED
      BY <2>1, <1>3, Zenon
  <1> QED
    BY <1>3, <1>4, <1>5, <1>6, Zenon DEF n

(* mdb_free_buffer fills the freelist of a pool with its last buffer, and  *)
(* with that one only.                                                     *)
LEMMA ReturnedCount ==
    ASSUME PoolInv, NEW b \in buffers
    PROVE  LET k == Returned(b)[b.pool].num_free
               n == max_free[mng[b.pool].bl]
           IN  k <= n /\ (k = n => \A c \in buffers \ {b} : c.pool # b.pool)
  <1> DEFINE m == Returned(b)
             p == b.pool
  <1>1. /\ p \in DOMAIN mng /\ Typed(m) /\ DOMAIN m = DOMAIN mng /\ m[p].bl = mng[p].bl
        /\ FreelistOK(m, p, buffers \ {b}) /\ BuffersOf(m, buffers \ {b})
    BY Returning, Zenon
  <1> HIDE DEF m, p
  <1>2. PICK B : B = buffers \ {b}
    BY Zenon
  <1>3. /\ m[p].num_free <= max_free[m[p].bl]
        /\ m[p].num_free = max_free[m[p].bl] <=> \A c \in B : c.pool # p
    BY <1>1, <1>2, FreelistCount
  <1> QED
    BY <1>1, <1>2, <1>3, Zenon DEF m, p

\* There are no pools at the start.
LEMMA PoolInvInit == Init => PoolInv
  <1> SUFFICES ASSUME Init PROVE PoolInv
    BY Zenon
  <1>1. KInv
    BY InitInv, Zenon
  <1>2. DOMAIN mng = {} /\ buffers = {} /\ list_of_lists = [bl \in Buflists |-> NULL]
    BY DEF Init
  <1>3. \A bl \in Buflists : List(Available(bl), list_of_lists[bl], NextOf(mng), PrevOf(mng))
    <2> TAKE bl \in Buflists
    <2>1. Available(bl) = {} /\ list_of_lists[bl] = NULL
      BY <1>2, Zenon DEF Available
    <2>2. \A S \in (SUBSET {}) \ {{}} : FALSE
      BY Zenon
    <2> QED
      BY <2>1, <2>2, Zenon DEF List
  <1> QED
    BY <1>1, <1>2, <1>3, Zenon DEF PoolInv, Typed, BuffersOf, NULL

\* Taking a buffer makes no other pool, giving one back loses no other one.
LEMMA TakeDomain ==
    ASSUME NEW m, NEW bl, NEW p, TakeBuffer(m, bl, p)
    PROVE  DOMAIN mng' = DOMAIN m
  BY Zenon DEF TakeBuffer, SetPrev

LEMMA ReturnDomain ==
    ASSUME NEW m, NEW p, ReturnPool(m, p)
    PROVE  DOMAIN mng' = DOMAIN m \ {p}
  BY Zenon DEF ReturnPool, Drop, SetPrev, SetNext

\* Every step of the buffer allocator keeps the invariant.
LEMMA PoolInvNext == PoolInv /\ [Next]_vars => PoolInv'
  <1> SUFFICES ASSUME PoolInv, [Next]_vars PROVE PoolInv'
    BY Zenon
  <1>0. KInv
    BY Zenon DEF PoolInv
  <1>1. ASSUME NEW bl \in Buflists, mdb_alloc_buffer(bl) PROVE PoolInv'
    <2>1. CASE list_of_lists[bl] # NULL /\ TakeBuffer(mng, bl, list_of_lists[bl])
                 /\ UNCHANGED kvars
      <3>1. KInv'
        BY <1>0, <1>1, <2>1, TakeDomain, KeepInv, Zenon DEF mdb_alloc_buffer
      <3> QED
        BY <2>1, <3>1, TakeFromList, Zenon
    <2>2. ASSUME list_of_lists[bl] = NULL, NEW p \in Chunks, KmemAlloc(MDB_ALLOC_CHUNKSZ, p),
                 TakeBuffer([q \in DOMAIN mng \cup {p} |->
                               IF q = p THEN NewPool(bl) ELSE mng[q]], bl, p)
          PROVE  PoolInv'
      <3>1. MDB_ALLOC_CHUNKSZ \in Sizes
        BY PoolAssumption, Zenon
      <3>2. DOMAIN mng' = DOMAIN mng \cup {p} /\ UNCHANGED others
        <4>1. PICK m : m = [q \in DOMAIN mng \cup {p} |-> IF q = p THEN NewPool(bl) ELSE mng[q]]
          BY Zenon
        <4>2. DOMAIN mng' = DOMAIN m /\ DOMAIN m = DOMAIN mng \cup {p}
          BY <2>2, <4>1, TakeDomain, Zenon
        <4> QED
          BY <1>1, <4>2, Zenon DEF mdb_alloc_buffer
      <3>3. KInv'
        BY <1>0, <2>2, <3>1, <3>2, AllocInv, Zenon
      <3>4. /\ MDB_ALLOC_CHUNKSZ \in Nat /\ 1 <= MDB_ALLOC_CHUNKSZ
            /\ p .. p + MDB_ALLOC_CHUNKSZ - 1 \subseteq FreeSet
        BY <1>0, <2>2, <3>1, AllocStep, Zenon
      <3>5. p \in FreeSet
        BY <3>4, ChunksNat
      <3> QED
        BY <2>2, <3>3, <3>5, TakeFromNew
    <2> QED
      BY <1>1, <2>1, <2>2, Zenon DEF mdb_alloc_buffer
  <1>2. ASSUME NEW b \in buffers, mdb_free_buffer(b) PROVE PoolInv'
    <2> DEFINE k == Returned(b)[b.pool].num_free
    <2>1. buffers' = buffers \ {b} /\ UNCHANGED others
      BY <1>2, Zenon DEF mdb_free_buffer
    <2>2. k <= max_free[mng[b.pool].bl]
      BY ReturnedCount, Zenon
    <2>3. CASE k = 1
      <3>1. UNCHANGED kvars /\ DOMAIN mng' = DOMAIN mng
        BY <1>2, <2>3, Zenon DEF mdb_free_buffer, Returned, SetPrev
      <3>2. KInv'
        BY <1>0, <2>1, <3>1, KeepInv, Zenon
      <3> QED
        BY <1>2, <2>3, <3>2, ReturnFirst, Zenon
    <2>4. CASE k # 1 /\ k = max_free[mng[b.pool].bl]
      <3>1. ReturnPool(Returned(b), b.pool)
        BY <1>2, <2>4, Zenon DEF mdb_free_buffer, Returned
      <3>2. b.pool \in DOMAIN mng /\ DOMAIN mng' = DOMAIN mng \ {b.pool}
        <4>1. b.pool \in DOMAIN mng /\ DOMAIN Returned(b) = DOMAIN mng
          BY Returning, Zenon
        <4>2. DOMAIN mng' = DOMAIN Returned(b) \ {b.pool}
          BY <3>1, ReturnDomain, Zenon
        <4> QED
          BY <4>1, <4>2, Zenon
      <3>3. KInv'
        <4>1. b.pool \in Nat /\ MDB_ALLOC_CHUNKSZ \in Nat
          BY <3>2, ChunksNat, ArenaAssumption, PoolAssumption, Zenon DEF PoolInv, Typed
        <4>2. KmemFree(b.pool, MDB_ALLOC_CHUNKSZ)
          BY <3>1, Zenon DEF ReturnPool
        <4> QED
          BY <1>0, <2>1, <3>2, <4>1, <4>2, FreeInv, Zenon
      <3>4. \A c \in buffers \ {b} : c.pool # b.pool
        BY <2>4, ReturnedCount, Zenon
      <3> QED
        BY <2>1, <2>4, <3>1, <3>3, <3>4, ReturnLast, Zenon
    <2>5. CASE k \notin {1, max_free[mng[b.pool].bl]}
      <3>1. mng' = Returned(b) /\ UNCHANGED kvars /\ UNCHANGED list_of_lists
        BY <1>2, <2>5, Zenon DEF mdb_free_buffer, Returned
      <3>2. DOMAIN mng' = DOMAIN mng
        BY <3>1, Zenon DEF Returned
      <3>3. KInv'
        BY <1>0, <2>1, <3>1, <3>2, KeepInv, Zenon
      <3> QED
        BY <2>1, <2>2, <2>5, <3>1, <3>3, ReturnMiddle
    <2> QED
      BY <2>3, <2>4, <2>5, Zenon
  <1>3. ASSUME NEW n \in Sizes, OtherAlloc(n) PROVE PoolInv'
    <2>1. UNCHANGED <<list_of_lists, mng, buffers>> /\ DOMAIN mng' = DOMAIN mng
      BY <1>3, Zenon DEF OtherAlloc
    <2>2. ASSUME NEW a \in Chunks, KmemAlloc(n, a), others' = others \cup RunSet(a, n)
          PROVE  KInv'
      BY <1>0, <2>1, <2>2, AllocInv, Zenon
    <2>3. ASSUME KmemAllocFails(n), UNCHANGED others PROVE KInv'
      BY <1>0, <2>1, <2>3, KeepInv, Zenon DEF KmemAllocFails
    <2> QED
      BY <1>3, <2>1, <2>2, <2>3, OthersInv, Zenon DEF OtherAlloc
  <1>4. ASSUME NEW n \in Sizes, NEW a \in others, OtherFree(a, n) PROVE PoolInv'
    <2>1. a \in Nat /\ n \in Nat
      BY <1>0, ChunksNat, ArenaAssumption, Zenon DEF KInv, KTypeOK
    <2>2. UNCHANGED <<list_of_lists, mng, buffers>> /\ DOMAIN mng' = DOMAIN mng
      BY <1>4, Zenon DEF OtherFree
    <2>3. KInv'
      BY <1>0, <1>4, <2>1, <2>2, FreeInv, Zenon DEF OtherFree
    <2> QED
      BY <2>2, <2>3, OthersInv, Zenon
  <1>5. CASE UNCHANGED vars
    BY <1>0, <1>5, KeepInv, OthersInv DEF vars
  <1> QED
    BY <1>1, <1>2, <1>3, <1>4, <1>5 DEF Next

(***************************************************************************)
(* Whatever the arena, the sizes and the order of calls, kmem_alloc and    *)
(* kmem_free keep the free list sorted and its length in free_chunks, and  *)
(* every chunk is on the list, in exactly one pool or with another client. *)
(***************************************************************************)
THEOREM KmemConserves == Spec => [](FreeListSorted /\ Conservation)
  <1>1. PoolInv => FreeListSorted /\ Conservation
    BY Zenon DEF PoolInv, KInv
  <1> QED
    BY <1>1, PoolInvInit, PoolInvNext, PTL DEF Spec

(***************************************************************************)
(* kmem_alloc never hands out the last chunk of the arena.                 *)
(***************************************************************************)
THEOREM KmemKeepsLast == Spec => []LastChunkFree
  <1>1. PoolInv => LastChunkFree
    BY Zenon DEF PoolInv, KInv
  <1> QED
    BY <1>1, PoolInvInit, PoolInvNext, PTL DEF Spec

(***************************************************************************)
(* kmem_alloc fails exactly when no aligned run of free chunks is left     *)
(* other than one that ends at the last free chunk, for every arena and    *)
(* after every history of calls.                                           *)
(***************************************************************************)
THEOREM KmemAllocComplete == Spec => []AllocComplete
  <1>1. PoolInv => AllocComplete
    BY Complete, Zenon DEF AllocComplete, PoolInv, RunSet
  <1> QED
    BY <1>1, PoolInvInit, PoolInvNext, PTL DEF Spec

(***************************************************************************)
(* After every history of mdb_alloc_buffer and mdb_free_buffer, with any   *)
(* other clients of kmem, each buffer list links exactly the pools of its  *)
(* size that have a free buffer, in both directions and without a cycle.   *)
(***************************************************************************)
THEOREM PoolsLinked == Spec => []PoolLists
  <1>1. PoolInv => PoolLists
    <2> SUFFICES ASSUME PoolInv, NEW bl \in Buflists
                 PROVE  /\ list_of_lists[bl] \in Available(bl) \cup {NULL}
                        /\ \A p \in Available(bl) :
                             LET next == mng[p].next_freelist
                                 prev == mng[p].prev_freelist
                             IN  /\ next # NULL => /\ next \in Available(bl)
                                                   /\ mng[next].prev_freelist = p
                                 /\ prev # NULL => /\ prev \in Available(bl)
                                                   /\ mng[prev].next_freelist = p
                                 /\ prev = NULL <=> list_of_lists[bl] = p
                        /\ \A S \in (SUBSET Available(bl)) \ {{}} :
                             \E p \in S : mng[p].next_freelist \notin S
      BY Zenon DEF PoolLists
    <2>1. List(Available(bl), list_of_lists[bl], NextOf(mng), PrevOf(mng))
      BY Zenon DEF PoolInv
    <2>2. \A p \in Available(bl) : /\ NextOf(mng)[p] = mng[p].next_freelist
                                   /\ PrevOf(mng)[p] = mng[p].prev_freelist
      BY Zenon DEF Available, NextOf, PrevOf
    <2> QED
      BY <2>1, <2>2 DEF List
  <1> QED
    BY <1>1, PoolInvInit, PoolInvNext, PTL DEF Spec

(***************************************************************************)
(* mdb_alloc_buffer never returns a buffer in use, and mdb_free_buffer     *)
(* loses none: a buffer is in use or once on the freelist of its pool.     *)
(***************************************************************************)
THEOREM BuffersConserved == Spec => []BuffersOnce
  <1>1. PoolInv => BuffersOnce
    <2> SUFFICES ASSUME PoolInv, NEW p \in DOMAIN mng
                 PROVE  /\ mng[p].num_free = Len(mng[p].freelist)
                        /\ \A s \in Slots(mng[p].bl) :
                             Cardinality({i \in DOMAIN mng[p].freelist : mng[p].freelist[i] = s})
                               = IF [pool |-> p, slot |-> s] \in buffers THEN 0 ELSE 1
      BY Zenon DEF BuffersOnce
    <2> DEFINE list == mng[p].freelist
    <2>1. /\ list \in Seq(Nat) /\ mng[p].num_free = Len(list) /\ Distinct(list)
          /\ Elems(list) = {s \in Slots(mng[p].bl) : [pool |-> p, slot |-> s] \notin buffers}
      BY Zenon DEF PoolInv, Typed, Managers, FreelistOK
    <2>2. ASSUME NEW s \in Slots(mng[p].bl)
          PROVE  Cardinality({i \in DOMAIN list : list[i] = s})
                   = IF [pool |-> p, slot |-> s] \in buffers THEN 0 ELSE 1
      <3>1. CASE [pool |-> p, slot |-> s] \in buffers
        <4>1. {i \in DOMAIN list : list[i] = s} = {}
          BY <2>1, <3>1 DEF Elems
        <4> QED
          BY <3>1, <4>1, FS_EmptySet, Zenon
      <3>2. CASE [pool |-> p, slot |-> s] \notin buffers
        <4>1. PICK i \in 1 .. Len(list) : list[i] = s
          BY <2>1, <3>2, Zenon DEF Elems
        <4>2. {j \in DOMAIN list : list[j] = s} = {i}
          BY <2>1, <4>1 DEF Distinct
        <4>3. Cardinality({i}) = 1
          BY FS_Singleton, Zenon
        <4> QED
          BY <3>2, <4>2, <4>3, Zenon
      <3> QED
        BY <3>1, <3>2, Zenon
    <2> QED
      BY <2>1, <2>2, Zenon
  <1> QED
    BY <1>1, PoolInvInit, PoolInvNext, PTL DEF Spec

(***************************************************************************)
(* No page is kept by a pool that nobody uses: mdb_free_buffer returns it  *)
(* to kmem with its last buffer, whatever the order of the frees.          *)
(***************************************************************************)
THEOREM NoPoolIdle == Spec => []NoIdlePool
  <1>1. PoolInv => NoIdlePool
    <2> SUFFICES ASSUME PoolInv, NEW p \in DOMAIN mng
                 PROVE  \E b \in buffers : b.pool = p
      BY Zenon DEF NoIdlePool
    <2>1. mng[p].num_free = max_free[mng[p].bl] <=> \A b \in buffers : b.pool # p
      BY FreelistCount DEF PoolInv
    <2>2. /\ mng[p].num_free \in Nat /\ max_free[mng[p].bl] \in Nat
          /\ mng[p].num_free < max_free[mng[p].bl]
      BY Capacity, Zenon DEF PoolInv, Typed, Managers
    <2>3. mng[p].num_free # max_free[mng[p].bl]
      BY <2>2, SMTT(30)
    <2> QED
      BY <2>1, <2>3, Zenon
  <1> QED
    BY <1>1, PoolInvInit, PoolInvNext, PTL DEF Spec
=============================================================================
