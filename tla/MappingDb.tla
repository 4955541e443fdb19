----------------------------- MODULE MappingDb -----------------------------
(***************************************************************************)
(* The mapping database (src/kernel/src/mapping.c) for the two page sizes  *)
(* of x86: size 0 is a page (4K), size 1 a superpage (4M) of `Table'       *)
(* pages, size 2 the whole of physical memory.  Addresses are counted in   *)
(* pages.  The memory state m is a record of                               *)
(*   mnode, dual, roots  the allocated mapping nodes, dual nodes and root  *)
(*                       arrays, as functions from their addresses;        *)
(*   pt                  the page tables, as a function from pgent_t       *)
(*                       pointers <<space, directory index, table index>>, *)
(*                       the table index being Dir for an entry of the     *)
(*                       page directory itself;                            *)
(*   current, tlb        the space of the current page directory, and the  *)
(*                       translations <<vaddr, frame, write>> of it that   *)
(*                       the processor may hold;                           *)
(*   bad                 a word that holds two pointers xor-ed was decoded *)
(*                       with the wrong key, or a buffer was freed that is *)
(*                       not allocated.                                    *)
(* The kernel runs with interrupts disabled, so each call is one step;     *)
(* mdb_spinlock and the locks in the nodes are empty without SMP.          *)
(***************************************************************************)
EXTENDS Integers, Sequences, FiniteSets

CONSTANTS
  Table,        \* entries of a page table and of a root array: 1024 in the code
  Superframes,  \* entries of the frame table: 1024 in the code
  Depths        \* values of the depth field: 256 in the code

Dir == -1

NULL == 0
sigma0_mapnode == 1
Sigma0 == 0

(* A pointer: NULL, a mapping node, a dual node, or an entry of a root array. *)
Nil == <<"nil", 0, 0>>
ToMap(n) == IF n = NULL THEN Nil ELSE <<"map", n, 0>>
ToDual(d) == <<"dual", d, 0>>
ToRoot(a, i) == <<"root", a, i>>
IsDual(ptr) == ptr[1] = "dual"
NodeOf(ptr) == IF ptr[1] = "map" THEN ptr[2] ELSE NULL

Invalid == [kind |-> "invalid", frame |-> 0, write |-> FALSE, map |-> NULL, vaddr |-> 0]
Subtree == [Invalid EXCEPT !.kind = "subtree"]
PageEntry(frame, write, map, vaddr) ==
  [kind |-> "page", frame |-> frame, write |-> write, map |-> map, vaddr |-> vaddr]

(* Mutant: the TLB keeps the entry.                                        *)
FlushNothing(m, vaddr) == m

flush_tlbent(m, vaddr) == [m EXCEPT !.tlb = {e \in @ : e[1] # vaddr}]

FreshAddr(heap) ==
  CHOOSE a \in 1 .. Cardinality(DOMAIN heap) + 1 : a \notin DOMAIN heap

Alloc(heap, a, x) == [b \in DOMAIN heap \cup {a} |-> IF b = a THEN x ELSE heap[b]]

Free(heap, a) == [b \in DOMAIN heap \ {a} |-> heap[b]]

mdb_arraysize(size) == IF size = 1 THEN Superframes ELSE Table

mdb_get_index(size, addr) == IF size = 1 THEN (addr \div Table) % Superframes
                                         ELSE addr % Table

-----------------------------------------------------------------------------
(* What a next pointer or a root entry leads to: the dual node, if there is *)
(* one, and the first mapping node of the page's own size.                  *)
DualOf(ptr) == IF IsDual(ptr) THEN ptr[2] ELSE NULL

NextMap(m, ptr) == IF IsDual(ptr) THEN m.dual[ptr[2]].map ELSE NodeOf(ptr)

RootEntry(m, root) == m.roots[root[2]][root[3]]

SetRoot(m, root, ptr) == [m EXCEPT !.roots[root[2]][root[3]] = ptr]

(* nmap->set_backlink(newm, nmap->get_pgent(old)): the entry is decoded    *)
(* with the previous link, which has to be the one it was coded with.      *)
Relink(m, nmap, new, old) ==
  IF nmap = NULL THEN m
  ELSE [m EXCEPT !.mnode[nmap].prev = new, !.bad = @ \/ m.mnode[nmap].prev # old]

mdb_create_roots(m, size, map) ==
  LET a == FreshAddr(m.roots)
      d == FreshAddr(m.dual)
  IN  [m EXCEPT !.roots = Alloc(@, a, [i \in 0 .. mdb_arraysize(size) - 1 |-> Nil]),
                !.dual = Alloc(@, d, [map |-> map, root |-> a])]

NewDual(m) == FreshAddr(m.dual)

-----------------------------------------------------------------------------
(* Mutant: a granted node stays with the sender's entry.                   *)
GrantKeepsEntry(m, f_map, f_pg, t_pg, t_space) ==
  [m |-> [m EXCEPT !.mnode[f_map].space = t_space], node |-> f_map]

(* mdb_map returns the memory and the node of the new mapping, as node.    *)
MdbGrant(m, f_map, f_pg, t_pg, t_space) ==
  [m |-> [m EXCEPT !.mnode[f_map].pg = t_pg, !.mnode[f_map].space = t_space,
                   !.bad = @ \/ m.mnode[f_map].pg # f_pg],
   node |-> f_map]

(* Mutant: the new node is not linked to the rest of the list.             *)
MapDropsRest(m, f_map, t_pg, t_space) ==
  LET n    == m.mnode[f_map]
      nmap == NextMap(m, n.next)
      newm == FreshAddr(m.mnode)
      m1   == [m EXCEPT !.mnode = Alloc(@, newm,
                 [prev |-> ToMap(f_map), pg |-> t_pg, space |-> t_space,
                  depth |-> (n.depth + 1) % Depths, next |-> Nil])]
  IN  [m |-> Relink([m1 EXCEPT !.mnode[f_map].next = ToMap(newm)], nmap, ToMap(newm), ToMap(f_map)),
       node |-> newm]

(* Both pages have the same size: the new node follows f_map.              *)
MdbMapSame(m, f_map, t_pg, t_space) ==
  LET n    == m.mnode[f_map]
      nmap == NextMap(m, n.next)
      newm == FreshAddr(m.mnode)
      m1   == [m EXCEPT !.mnode = Alloc(@, newm,
                 [prev |-> ToMap(f_map), pg |-> t_pg, space |-> t_space,
                  depth |-> (n.depth + 1) % Depths, next |-> ToMap(nmap)])]
      m2   == IF IsDual(n.next) THEN [m1 EXCEPT !.dual[DualOf(n.next)].map = newm]
              ELSE [m1 EXCEPT !.mnode[f_map].next = ToMap(newm)]
  IN  [m |-> Relink(m2, nmap, ToMap(newm), ToMap(f_map)), node |-> newm]

(* The root entry for f_addr in the array below f_map, of the size below   *)
(* f_pgsize; the array is created when there is none.                      *)
RootBelowMap(m, f_map, f_pgsize, f_addr) ==
  LET next == m.mnode[f_map].next
      d    == IF IsDual(next) THEN DualOf(next) ELSE NewDual(m)
      m1   == IF IsDual(next) THEN m
              ELSE [mdb_create_roots(m, f_pgsize - 1, NodeOf(next))
                      EXCEPT !.mnode[f_map].next = ToDual(d)]
  IN  [m |-> m1, root |-> ToRoot(m1.dual[d].root, mdb_get_index(f_pgsize - 1, f_addr))]

(* The same below the root entry at.root of the memory at.m.               *)
RootBelowRoot(at, f_pgsize, f_addr) ==
  LET ptr == RootEntry(at.m, at.root)
      d   == IF IsDual(ptr) THEN DualOf(ptr) ELSE NewDual(at.m)
      m1  == IF IsDual(ptr) THEN at.m
             ELSE SetRoot(mdb_create_roots(at.m, f_pgsize - 1, NodeOf(ptr)), at.root, ToDual(d))
  IN  [m |-> m1, root |-> ToRoot(m1.dual[d].root, mdb_get_index(f_pgsize - 1, f_addr))]

(* The new node is the first one of the root entry at.root.                *)
FirstOfRoot(at, depth, t_pg, t_space) ==
  LET ptr  == RootEntry(at.m, at.root)
      nmap == NextMap(at.m, ptr)
      newm == FreshAddr(at.m.mnode)
      m1   == [at.m EXCEPT !.mnode = Alloc(@, newm,
                 [prev |-> at.root, pg |-> t_pg, space |-> t_space, depth |-> depth,
                  next |-> ToMap(nmap)])]
      m2   == IF IsDual(ptr) THEN [m1 EXCEPT !.dual[DualOf(ptr)].map = newm]
              ELSE SetRoot(m1, at.root, ToMap(newm))
  IN  [m |-> Relink(m2, nmap, ToMap(newm), at.root), node |-> newm]

(* The new page is smaller, by one size or by two.                         *)
MdbMapBelow(m, f_map, f_pgsize, f_addr, t_pg, t_pgsize, t_space) ==
  LET one == RootBelowMap(m, f_map, f_pgsize, f_addr)
  IN  FirstOfRoot(IF f_pgsize - 1 = t_pgsize THEN one
                  ELSE RootBelowRoot(one, f_pgsize - 1, f_addr),
                  (m.mnode[f_map].depth + 1) % Depths, t_pg, t_space)

mdb_map(m, f_map, f_pg, f_pgsize, f_addr, grant, t_pg, t_pgsize, t_space) ==
  IF grant THEN MdbGrant(m, f_map, f_pg, t_pg, t_space)
  ELSE IF f_pgsize = t_pgsize THEN MdbMapSame(m, f_map, t_pg, t_space)
  ELSE MdbMapBelow(m, f_map, f_pgsize, f_addr, t_pg, t_pgsize, t_space)

-----------------------------------------------------------------------------
(* mdb_flush walks the subtree of f_map with the local variables of a      *)
(* record c: the current node f_map and its entry f_pg, the link prev that *)
(* leads to it (pmap or proot), the next node nmap and the dual node, the  *)
(* position root in a root array with rcnt entries to go, and the slot r   *)
(* of the arrays r_prev, r_nmap, r_root and r_rcnt for the size below.     *)

(* The node itself: removed, made read-only, or passed over.               *)
Visit(c) ==
  LET n    == c.m.mnode[c.f_map]
      nmap == NextMap(c.m, n.next)
      m0   == [c.m EXCEPT !.bad = @ \/ n.pg # c.f_pg]
      m1   == IF n.prev[1] = "map" THEN [m0 EXCEPT !.mnode[n.prev[2]].next = ToMap(nmap)]
              ELSE SetRoot(m0, n.prev, ToMap(nmap))
      m2   == Relink(m1, nmap, n.prev, ToMap(c.f_map))
      removes == c.all /\ c.flush
      pg   == c.m.pt[c.f_pg]
      m3   == IF removes THEN [m2 EXCEPT !.mnode = Free(@, c.f_map), !.pt[c.f_pg] = Invalid]
              ELSE [m0 EXCEPT !.pt[c.f_pg].write = FALSE]
      m4   == IF n.space = m3.current THEN flush_tlbent(m3, pg.vaddr) ELSE m3
  IN  [c EXCEPT !.nmap = nmap, !.dual = DualOf(n.next),
         !.prev = IF removes THEN n.prev ELSE ToMap(c.f_map),
         !.m = IF c.all THEN [m4 EXCEPT !.bad = @ \/ pg.map # c.f_map] ELSE m0]

(* Make map the current node, reached through prev.                        *)
GoTo(c, map, prev) ==
  [c EXCEPT !.f_map = map, !.prev = prev,
            !.f_pg = IF map = NULL THEN @ ELSE c.m.mnode[map].pg,
            !.m.bad = @ \/ (map # NULL /\ c.m.mnode[map].prev # prev)]

(* Into the array below the node, on to the next node of the list, or back *)
(* from an array that is done, which is freed as if root were its last     *)
(* entry.                                                                  *)
Descend(c) ==
  LET size == c.f_pgsize - 1
      a    == c.m.dual[c.dual].root
      last == c.root[3] = mdb_arraysize(c.f_pgsize) - 1
      m1   == IF ~ c.flush THEN c.m
              ELSE IF last THEN [c.m EXCEPT !.roots = Free(@, c.root[2])]
              ELSE [c.m EXCEPT !.bad = TRUE]
  IN  IF c.dual # NULL /\ size < c.t_pgsize THEN
        [c EXCEPT !.f_map = NULL, !.f_pgsize = size,
                  !.r = [prev |-> c.prev, nmap |-> c.nmap, root |-> c.root, rcnt |-> c.rcnt],
                  !.root = ToRoot(a, -1), !.rcnt = mdb_arraysize(size)]
      ELSE IF c.dual # NULL THEN
        [c EXCEPT !.f_map = NULL, !.f_pgsize = size,
                  !.root = ToRoot(a, mdb_get_index(size, c.f_addr) - 1), !.rcnt = 1]
      ELSE IF c.nmap # NULL THEN GoTo(c, c.nmap, c.prev)
      ELSE IF c.f_pgsize < c.t_pgsize /\ c.root # Nil THEN
        GoTo([c EXCEPT !.m = m1, !.root = c.r.root, !.rcnt = c.r.rcnt, !.f_pgsize = @ + 1],
             c.r.nmap, c.r.prev)
      ELSE [c EXCEPT !.f_map = NULL]

(* On through the root array to the next entry that has a mapping.         *)
RECURSIVE ScanRoots(_)
ScanRoots(c) ==
  LET root == ToRoot(c.root[2], c.root[3] + 1)
      ptr  == RootEntry(c.m, root)
      map  == NextMap(c.m, ptr)
      d    == DualOf(ptr)
      c1   == [c EXCEPT !.root = root, !.rcnt = @ - 1]
  IN  IF c.f_map # NULL \/ c.rcnt = 0 THEN c
      ELSE IF d = NULL THEN ScanRoots(GoTo(c1, map, IF map = NULL THEN c.prev ELSE root))
      ELSE ScanRoots([c1 EXCEPT !.f_pgsize = @ - 1,
             !.r = [prev |-> root, nmap |-> map, root |-> root, rcnt |-> c1.rcnt],
             !.root = ToRoot(c.m.dual[d].root, -1), !.rcnt = mdb_arraysize(c.f_pgsize - 1),
             !.m = IF c.flush THEN [SetRoot(c.m, root, ToMap(map)) EXCEPT !.dual = Free(@, d)]
                   ELSE c.m])

RECURSIVE FlushLoop(_)
FlushLoop(c) ==
  LET visited == Visit(c)
      next    == ScanRoots(Descend(visited))
      all     == c.all \/ next.f_pgsize <= c.t_pgsize
  IN  IF c.all /\ c.f_pgsize > c.t_pgsize /\ visited.nmap # NULL THEN c.m
      ELSE IF next.f_map = NULL \/ next.m.mnode[next.f_map].depth <= c.startdepth THEN next.m
      ELSE FlushLoop([next EXCEPT !.all = all])

(* Mutant: the walk ends at the first mapping of a mapping.                *)
FlushOneLevel(m, f_map, f_pg, f_pgsize, f_addr, t_pgsize, mode) ==
  FlushLoop([m |-> m, f_map |-> f_map, f_pg |-> f_pg, f_pgsize |-> f_pgsize,
             f_addr |-> f_addr, t_pgsize |-> t_pgsize, all |-> mode.all, flush |-> mode.flush,
             startdepth |-> m.mnode[f_map].depth + 1, prev |-> Nil, nmap |-> NULL, dual |-> NULL,
             root |-> Nil, rcnt |-> 0,
             r |-> [prev |-> Nil, nmap |-> NULL, root |-> Nil, rcnt |-> 0]])

mdb_flush(m, f_map, f_pg, f_pgsize, f_addr, t_pgsize, mode) ==
  FlushLoop([m |-> m, f_map |-> f_map, f_pg |-> f_pg, f_pgsize |-> f_pgsize,
             f_addr |-> f_addr, t_pgsize |-> t_pgsize, all |-> mode.all, flush |-> mode.flush,
             startdepth |-> m.mnode[f_map].depth, prev |-> Nil, nmap |-> NULL, dual |-> NULL,
             root |-> Nil, rcnt |-> 0,
             r |-> [prev |-> Nil, nmap |-> NULL, root |-> Nil, rcnt |-> 0]])

(* mdb_init: sigma0 owns all memory, and the frame table is empty.         *)
mdb_init(pt) ==
  LET m  == [mnode |-> << >>, dual |-> << >>, roots |-> << >>, pt |-> pt,
             current |-> Sigma0, tlb |-> {}, bad |-> FALSE]
      m1 == mdb_create_roots(m, 1, NULL)
  IN  [m1 EXCEPT !.mnode = Alloc(@, sigma0_mapnode,
         [prev |-> Nil, pg |-> <<Sigma0, 0, 0>>, space |-> Sigma0, depth |-> 0,
          next |-> ToDual(NewDual(m))])]
=============================================================================
