---------------------------- MODULE MappingAlloc ----------------------------
(***************************************************************************)
(* The buffer pools of the mapping database (src/kernel/src/               *)
(* mapping_alloc.c) on top of the kernel memory allocator.  Each buffer    *)
(* size has a doubly linked list of the pools, one page each, that still   *)
(* have a free buffer.  A page that has all its buffers back is returned   *)
(* to kmem.  The kernel runs with interrupts disabled (enable_interrupts   *)
(* and disable_interrupts are empty in this file): a call is one step.     *)
(* The other clients of kmem (page tables, address spaces, arrays of the   *)
(* mapping database, TCBs, FPU state) are here as what they hold.          *)
(***************************************************************************)
EXTENDS KMemory

CONSTANTS
  MDB_ALLOC_CHUNKSZ,  \* the size of a pool page, in chunks
  Buflists,           \* the entries of mdb_buflists[] smaller than a page
  max_free            \* the number of buffers that mdb_buflist_init counts

(***************************************************************************)
(* Every buffer size of mdb_buflists[] below the page size leaves room for *)
(* more than one buffer in a page, and a page is a size kmem knows.        *)
(***************************************************************************)
ASSUME PoolAssumption ==
  /\ MDB_ALLOC_CHUNKSZ \in Sizes
  /\ max_free \in [Buflists -> Nat \ {0, 1}]

VARIABLES
  list_of_lists,  \* for each buffer list the first pool, or NULL
  mng,            \* the management structure in the first slot of each pool
  buffers,        \* the buffers [pool, slot] handed out and not yet freed
  others          \* the chunks that other clients of kmem hold

vars == <<kvars, list_of_lists, mng, buffers, others>>

Page(p) == RunSet(p, MDB_ALLOC_CHUNKSZ)

Slots(bl) == 1 .. max_free[bl]

-----------------------------------------------------------------------------
(* m with the prev_freelist (next_freelist) of pool p set; p may be NULL.  *)
SetPrev(m, p, to) ==
  IF p \in DOMAIN m THEN [m EXCEPT ![p].prev_freelist = to] ELSE m

SetNext(m, p, to) ==
  IF p \in DOMAIN m THEN [m EXCEPT ![p].next_freelist = to] ELSE m

Drop(m, p) == [q \in DOMAIN m \ {p} |-> m[q]]

(* A pool fresh from kmem, with all its buffers on the freelist in order.  *)
NewPool(bl) ==
  [freelist |-> [i \in Slots(bl) |-> i], num_free |-> max_free[bl],
   next_freelist |-> NULL, prev_freelist |-> NULL, bl |-> bl]

(* Mutant: the buffer stays on the freelist.                               *)
TakeAndKeep(m, bl, p) ==
  /\ buffers' = buffers \cup {[pool |-> p, slot |-> Head(m[p].freelist)]}
  /\ list_of_lists' = [list_of_lists EXCEPT ![bl] = p]
  /\ mng' = m

(* Takes the first buffer of the first pool p of list bl, where m holds    *)
(* the pools; a pool that is empty then leaves the list.                   *)
TakeBuffer(m, bl, p) ==
  LET left == [m EXCEPT ![p].freelist = Tail(@), ![p].num_free = @ - 1]
      next == m[p].next_freelist
  IN  /\ buffers' = buffers \cup {[pool |-> p, slot |-> Head(m[p].freelist)]}
      /\ IF left[p].num_free = 0
         THEN /\ list_of_lists' = [list_of_lists EXCEPT ![bl] = next]
              /\ mng' = SetPrev(left, next, NULL)
         ELSE /\ list_of_lists' = [list_of_lists EXCEPT ![bl] = p]
              /\ mng' = left

-----------------------------------------------------------------------------
mdb_alloc_buffer(bl) ==
  /\ UNCHANGED others
  /\ \/ /\ list_of_lists[bl] # NULL
        /\ TakeBuffer(mng, bl, list_of_lists[bl])
        /\ UNCHANGED kvars
     \/ /\ list_of_lists[bl] = NULL
        /\ \E p \in Chunks :
             /\ KmemAlloc(MDB_ALLOC_CHUNKSZ, p)
             /\ TakeBuffer([q \in DOMAIN mng \cup {p} |->
                              IF q = p THEN NewPool(bl) ELSE mng[q]], bl, p)

(* Mutants: the page of an unused pool is not given back; the first half   *)
(* of it is; its successor keeps its link.                                 *)
KeepPool(m, p) == mng' = m /\ UNCHANGED <<kvars, list_of_lists>>

ReturnHalf(m, p) ==
  /\ list_of_lists' = [list_of_lists EXCEPT ![m[p].bl] = m[p].next_freelist]
  /\ mng' = Drop(m, p)
  /\ KmemFree(p, MDB_ALLOC_CHUNKSZ \div 2)

ReturnUnlinked(m, p) ==
  /\ list_of_lists' = [list_of_lists EXCEPT ![m[p].bl] = m[p].next_freelist]
  /\ mng' = Drop(m, p)
  /\ KmemFree(p, MDB_ALLOC_CHUNKSZ)

(* mdb_free_buffer: the pool is back on the list with its first buffer,    *)
(* and leaves it, and the page goes back to kmem, with the last one.       *)
ReturnPool(m, p) ==
  LET bl   == m[p].bl
      next == m[p].next_freelist
      prev == m[p].prev_freelist
      m1   == SetPrev(m, next, prev)
  IN  /\ IF list_of_lists[bl] = p
         THEN /\ list_of_lists' = [list_of_lists EXCEPT ![bl] = next]
              /\ mng' = Drop(m1, p)
         ELSE /\ UNCHANGED list_of_lists
              /\ mng' = Drop(SetNext(m1, prev, next), p)
      /\ KmemFree(p, MDB_ALLOC_CHUNKSZ)

mdb_free_buffer(b) ==
  LET p  == b.pool
      bl == mng[p].bl
      m  == [mng EXCEPT ![p].freelist = <<b.slot>> \o @, ![p].num_free = @ + 1]
      head == list_of_lists[bl]
  IN  /\ b \in buffers
      /\ buffers' = buffers \ {b}
      /\ UNCHANGED others
      /\ \/ /\ m[p].num_free = 1
            /\ mng' = SetPrev([m EXCEPT ![p].next_freelist = head,
                                        ![p].prev_freelist = NULL], head, p)
            /\ list_of_lists' = [list_of_lists EXCEPT ![bl] = p]
            /\ UNCHANGED kvars
         \/ /\ m[p].num_free # 1 /\ m[p].num_free = max_free[bl]
            /\ ReturnPool(m, p)
         \/ /\ m[p].num_free \notin {1, max_free[bl]}
            /\ mng' = m
            /\ UNCHANGED <<kvars, list_of_lists>>

(* Another client allocates a run.  A failing call changes nothing.        *)
OtherAlloc(n) ==
  /\ \/ \E a \in Chunks : KmemAlloc(n, a) /\ others' = others \cup RunSet(a, n)
     \/ KmemAllocFails(n) /\ UNCHANGED others
  /\ UNCHANGED <<list_of_lists, mng, buffers>>

(* Another client frees an aligned run of its chunks: one it has allocated *)
(* as such, or a part of one.  delete_space frees the two pages that       *)
(* create_space has allocated together one by one.                         *)
OtherFree(a, n) ==
  /\ a % n = 0 /\ RunSet(a, n) \subseteq others
  /\ KmemFree(a, n)
  /\ others' = others \ RunSet(a, n)
  /\ UNCHANGED <<list_of_lists, mng, buffers>>

-----------------------------------------------------------------------------
Init ==
  /\ KmemInit
  /\ list_of_lists = [bl \in Buflists |-> NULL]
  /\ mng = <<>>
  /\ buffers = {}
  /\ others = {}

Next ==
  \/ \E bl \in Buflists : mdb_alloc_buffer(bl)
  \/ \E b \in buffers : mdb_free_buffer(b)
  \/ \E n \in Sizes : OtherAlloc(n)
  \/ \E n \in Sizes, a \in others : OtherFree(a, n)

Spec == Init /\ [][Next]_vars

-----------------------------------------------------------------------------
(* The pools of a buffer size that have a free buffer.                     *)
Available(bl) == {p \in DOMAIN mng : mng[p].bl = bl /\ mng[p].num_free > 0}

(***************************************************************************)
(* Every chunk of the arena is on the free list, once, or in the page of   *)
(* exactly one pool, or with another client, and never in two of these:    *)
(* kmem_alloc hands out no chunk that is in use, and mdb_free_buffer gives *)
(* back its pages whole and once, although kmem_free takes what it gets.   *)
(***************************************************************************)
Conservation ==
  /\ \A i, j \in 1 .. Len(kmem_free_list) :
       kmem_free_list[i] = kmem_free_list[j] => i = j
  /\ \A p \in DOMAIN mng : Page(p) \subseteq Chunks \ (FreeSet \cup others)
  /\ \A p, r \in DOMAIN mng : p # r => Page(p) \cap Page(r) = {}
  /\ FreeSet \cap others = {}
  /\ \A c \in Chunks : c \in FreeSet \cup others \/ \E p \in DOMAIN mng : c \in Page(p)

(***************************************************************************)
(* The invariants of ASSERT_BL, which mdb_alloc_buffer and mdb_free_buffer *)
(* evaluate on entry and exit in a debug build, and more: the links of a   *)
(* buffer list join, in both directions and without a cycle, exactly the   *)
(* pools of that size that have a free buffer.                             *)
(***************************************************************************)
PoolLists ==
  \A bl \in Buflists :
    /\ list_of_lists[bl] \in Available(bl) \cup {NULL}
    /\ \A p \in Available(bl) :
         LET next == mng[p].next_freelist
             prev == mng[p].prev_freelist
         IN  /\ next # NULL => next \in Available(bl) /\ mng[next].prev_freelist = p
             /\ prev # NULL => prev \in Available(bl) /\ mng[prev].next_freelist = p
             /\ prev = NULL <=> list_of_lists[bl] = p
    /\ \A S \in (SUBSET Available(bl)) \ {{}} : \E p \in S : mng[p].next_freelist \notin S

(***************************************************************************)
(* Every buffer of a pool is either once on its freelist or held by the    *)
(* mapping database, so mdb_alloc_buffer never returns a buffer in use,    *)
(* and num_free is the length of the freelist.                             *)
(***************************************************************************)
BuffersOnce ==
  \A p \in DOMAIN mng :
    /\ mng[p].num_free = Len(mng[p].freelist)
    /\ \A s \in Slots(mng[p].bl) :
         Cardinality({i \in DOMAIN mng[p].freelist : mng[p].freelist[i] = s})
           = IF [pool |-> p, slot |-> s] \in buffers THEN 0 ELSE 1

(***************************************************************************)
(* A pool exists only while the mapping database uses one of its buffers:  *)
(* mdb_free_buffer gives the page back with the last buffer, whatever the  *)
(* order in which buffers come back and pools move on and off their list.  *)
(***************************************************************************)
NoIdlePool == \A p \in DOMAIN mng : \E b \in buffers : b.pool = p
=============================================================================
