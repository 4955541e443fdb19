------------------------------ MODULE KMemory ------------------------------
(***************************************************************************)
(* The kernel memory allocator (src/kernel/src/kmemory.c).  Memory is      *)
(* counted in chunks of KMEM_CHUNKSIZE bytes; the free chunks are linked   *)
(* through their first word into a list that kmem_free keeps sorted by     *)
(* address.  kmem_spinlock makes each call one step.  kmem does not know   *)
(* who holds what, and kmem_free checks nothing: MappingAlloc.tla has the  *)
(* callers, and says that they use it well.                                *)
(***************************************************************************)
EXTENDS Integers, Sequences, FiniteSets

CONSTANTS
  kmem_start, kmem_end,  \* the arena: chunks kmem_start .. kmem_end - 1
  Sizes                  \* the sizes the kernel asks for, in chunks

(***************************************************************************)
(* Address 0 is NULL, the arena holds at least one chunk, and a size is a  *)
(* positive number of chunks.                                              *)
(***************************************************************************)
ASSUME ArenaAssumption ==
  /\ kmem_start \in Nat \ {0} /\ kmem_end \in Nat /\ kmem_start < kmem_end
  /\ Sizes \subseteq Nat \ {0}

VARIABLES
  kmem_free_list,  \* the addresses of the free chunks, in list order
  free_chunks

kvars == <<kmem_free_list, free_chunks>>

Chunks == kmem_start .. kmem_end - 1

NULL == 0

Run(addr, n) == [i \in 1 .. n |-> addr + i - 1]

RunSet(addr, n) == addr .. addr + n - 1

-----------------------------------------------------------------------------
(* The number of leading chunks that kmem_free walks over: up to the first *)
(* one whose address is not below the freed one.                           *)
Before(list, addr) ==
  CHOOSE i \in 0 .. Len(list) :
    /\ \A j \in 1 .. i : list[j] < addr
    /\ i < Len(list) => ~ (list[i + 1] < addr)

FreeInto(list, addr, n) ==
  LET i == Before(list, addr)
  IN  SubSeq(list, 1, i) \o Run(addr, n) \o SubSeq(list, i + 1, Len(list))

(* Mutant: a run is aligned within the arena.                              *)
FitsInArena(list, i, n) ==
  /\ (list[i] - kmem_start) % n = 0
  /\ i + n <= Len(list)
  /\ \A k \in 1 .. n - 1 : list[i + k] = list[i] + k

(* Mutant: the NULL link behind the run is no obstacle.                    *)
FitsAtEnd(list, i, n) ==
  /\ list[i] % n = 0
  /\ i + n - 1 <= Len(list)
  /\ \A k \in 1 .. n - 1 : list[i + k] = list[i] + k

(* A run of n chunks starts at position i of the list: it is aligned, its  *)
(* chunks are consecutive, and the link `tmp' behind it is not NULL.       *)
Fits(list, i, n) ==
  /\ list[i] % n = 0
  /\ i + n <= Len(list)
  /\ \A k \in 1 .. n - 1 : list[i + k] = list[i] + k

FitsSomewhere(list, n) == \E i \in 1 .. Len(list) : Fits(list, i, n)

FirstFit(list, n) ==
  CHOOSE i \in 1 .. Len(list) :
    /\ Fits(list, i, n)
    /\ \A j \in 1 .. i - 1 : ~ Fits(list, j, n)

Without(list, i, n) == SubSeq(list, 1, i - 1) \o SubSeq(list, i + n, Len(list))

-----------------------------------------------------------------------------
(* kmem_alloc finds a run: a is the address it returns.                    *)
KmemAlloc(n, a) ==
  LET i == FirstFit(kmem_free_list, n)
  IN  /\ FitsSomewhere(kmem_free_list, n)
      /\ a = kmem_free_list[i]
      /\ kmem_free_list' = Without(kmem_free_list, i, n)
      /\ free_chunks' = free_chunks - n

(* kmem_alloc has walked the list in vain; it returns NULL.                *)
KmemAllocFails(n) ==
  /\ ~ FitsSomewhere(kmem_free_list, n)
  /\ UNCHANGED kvars

KmemFree(addr, n) ==
  /\ kmem_free_list' = FreeInto(kmem_free_list, addr, n)
  /\ free_chunks' = free_chunks + n

(* kmem_init frees the whole arena into the empty list.                    *)
KmemInit ==
  /\ kmem_free_list = FreeInto(<<>>, kmem_start, kmem_end - kmem_start)
  /\ free_chunks = kmem_end - kmem_start

-----------------------------------------------------------------------------
(* The addresses on the free list.                                         *)
FreeSet == {kmem_free_list[i] : i \in 1 .. Len(kmem_free_list)}

(***************************************************************************)
(* kmem_free keeps the list sorted, so no chunk is on it twice, and the    *)
(* counter free_chunks is the length of the list.                          *)
(***************************************************************************)
FreeListSorted ==
  /\ \A i, j \in 1 .. Len(kmem_free_list) :
       i < j => kmem_free_list[i] < kmem_free_list[j]
  /\ free_chunks = Len(kmem_free_list)

(***************************************************************************)
(* kmem_alloc enters the debugger with "out of kernel memory" exactly when *)
(* no aligned run of free chunks is left other than one that ends at the   *)
(* last free chunk.  The walk over the list, which stops at the first gap  *)
(* of each candidate, misses no other run.                                 *)
(***************************************************************************)
AllocComplete ==
  \A n \in Sizes :
    FitsSomewhere(kmem_free_list, n) <=>
      \E a \in FreeSet :
        /\ a % n = 0
        /\ RunSet(a, n) \subseteq FreeSet
        /\ \E c \in FreeSet : c > a + n - 1

(***************************************************************************)
(* The last chunk of the arena never leaves the free list, because the     *)
(* loop of kmem_alloc takes the NULL link behind it for a failed search.   *)
(***************************************************************************)
LastChunkFree == kmem_end - 1 \in FreeSet
=============================================================================
