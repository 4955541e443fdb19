------------------------------- MODULE Memory -------------------------------
(***************************************************************************)
(* Flexpages: map_fpage and fpage_unmap (src/kernel/src/memory.c) walk the *)
(* page tables of the tasks and keep the mapping database with them;       *)
(* create_space and delete_space (src/kernel/src/x86/memory.c) make and    *)
(* remove a task's page directory.  sigma0 has all physical memory and is  *)
(* never looked up.  Each call runs with interrupts disabled: one step.    *)
(* An fpage [addr, num] is num pages at page address addr.                 *)
(***************************************************************************)
EXTENDS MappingDb

CONSTANTS
  Spaces,      \* the address spaces of the tasks, positive numbers
  Directory,   \* user entries of a page directory: 960 in the code
  Small,       \* the superframes that sigma0 hands out page by page
  Sigma0Fpages,  \* what sigma0 sends, all of it writable
  Scenarios,     \* what the tasks ask for: each scenario has the fpages of a
                 \* send (snd), a receive (rcv) and an unmap, the pairs of write
                 \* and grant bits of a send, and the modes of an unmap
  OneSize      \* callers keep the two page sizes apart

ASSUME MemoryAssumption ==
  /\ Table \in Nat \ {0, 1} /\ Superframes \in Nat \ {0} /\ Directory \in Nat \ {0}
  /\ Depths \in Nat \ {0, 1}
  /\ Small \subseteq 0 .. Superframes - 1 /\ OneSize \in BOOLEAN
  /\ Spaces \subseteq Nat \ {Sigma0}

VARIABLES
  mem,   \* the page tables and the mapping database
  alive, \* the spaces that exist
  tasks  \* the scenario of this run of the system

vars == <<mem, alive, tasks>>

USER_LIMIT == Directory * Table

PgEnts == Spaces \X (0 .. Directory - 1) \X (Dir .. Table - 1)

page_size(size) == IF size = 1 THEN Table ELSE 1

table_index(addr, size) == IF size = 1 THEN addr \div Table ELSE addr % Table

PgdirEnt(space, addr) == <<space, table_index(addr, 1), Dir>>

(* pg->subtree()->next(i), and pg->next(1).                                *)
SubtreeEnt(pg, i) == <<pg[1], pg[2], i>>

NextEnt(pg) == IF pg[3] = Dir THEN <<pg[1], pg[2] + 1, Dir>> ELSE <<pg[1], pg[2], pg[3] + 1>>

(* pg->mapnode() decodes the node with the address of the page.            *)
MapnodeKey(m, pg, addr, size) ==
  [m EXCEPT !.bad = @ \/ pg.vaddr # addr - (addr % page_size(size))]

(* The page size to use and the number of pages of that size.              *)
PgSize(num) == IF num >= Table THEN 1 ELSE 0

-----------------------------------------------------------------------------
(* map_fpage.  Its local variables are the fields of a record c: the       *)
(* addresses, the number of entries to go, the page size and the current   *)
(* entry of the sender (f) and of the receiver (t), and what r_fpg, r_fnum *)
(* and r_tpg, r_tnum hold of the directory while a table is walked.        *)

(* Where the sent fpage goes in the receive window.                        *)
TargetAddr(base, snd, rcv) == LET b == base % rcv.num IN rcv.addr + b - (b % snd.num)

NextSenderEntry(c) ==
  LET c1 == [c EXCEPT !.f_addr = @ + page_size(c.f_size), !.f_num = @ - 1]
  IN  IF c1.f_num # 0 THEN [c1 EXCEPT !.fpg = IF c.from = Sigma0 THEN @ ELSE NextEnt(@)]
      ELSE IF c.f_size < c.pgsize THEN
        [c1 EXCEPT !.fpg = c.r_fpg, !.f_num = c.r_fnum, !.f_size = @ + 1]
      ELSE [c1 EXCEPT !.t_num = 0]

NextReceiverEntry(c) ==
  LET c1 == [c EXCEPT !.t_addr = @ + page_size(c.t_size), !.t_num = @ - 1]
  IN  IF c1.t_num # 0 THEN
        LET c2 == [c1 EXCEPT !.tpg = NextEnt(@)]
        IN  IF c.t_size < c.f_size THEN c2 ELSE NextSenderEntry(c2)
      ELSE IF c.t_size > c.f_size THEN
        NextSenderEntry([c1 EXCEPT !.f_addr = @ + page_size(c.t_size) - page_size(c.f_size),
                                   !.f_num = 1])
      ELSE NextSenderEntry(c1)

(* The new mapping has the node and the memory of r (mdb_map): enter it,   *)
(* and take a granted one from the sender.                                 *)
EnterMapping(c, r, frame, write) ==
  LET m1 == [r.m EXCEPT !.pt[c.tpg] = PageEntry(frame, write, r.node, c.t_addr)]
  IN  IF ~ c.grant THEN m1
      ELSE flush_tlbent([m1 EXCEPT !.pt[c.fpg] = Invalid],
                        c.f_addr - (c.f_addr % page_size(c.f_size)))

(* tpg is the entry to change: extend the rights of the mapping there, or  *)
(* enter a new one.                                                        *)
Install(c) ==
  LET fe     == c.m.pt[c.fpg]
      te     == c.m.pt[c.tpg]
      sig    == c.from = Sigma0
      offset == IF c.f_size > c.t_size THEN c.f_addr % Table ELSE 0
      frame  == IF sig THEN c.f_addr ELSE fe.frame + offset
      write  == c.write /\ (sig \/ fe.write)
  IN  IF te.kind = "page" THEN
        IF te.frame = frame /\ write THEN [c.m EXCEPT !.pt[c.tpg].write = TRUE] ELSE c.m
      ELSE EnterMapping(c,
             IF sig THEN mdb_map(c.m, sigma0_mapnode, c.fpg, 2, c.f_addr + offset, FALSE,
                                 c.tpg, c.t_size, c.to)
             ELSE mdb_map(MapnodeKey(c.m, fe, c.f_addr, c.f_size), fe.map, c.fpg, c.f_size,
                          c.f_addr, c.grant, c.tpg, c.t_size, c.to),
             frame, write)

(* fpg is a valid mapping of the sender: find the entry of the receiver.   *)
Receive(c) ==
  LET te   == c.m.pt[c.tpg]
      down == [c EXCEPT !.t_size = @ - 1, !.r_tpg = NextEnt(c.tpg), !.r_tnum = c.t_num - 1]
      made == IF te.kind = "invalid" THEN [down EXCEPT !.m.pt[c.tpg] = Subtree] ELSE down
      i    == table_index(c.f_addr, 0)
      into == [down EXCEPT !.tpg = SubtreeEnt(@, 0), !.t_num = Table]
      done(d) == NextReceiverEntry([d EXCEPT !.m = Install(d)])
  IN  IF c.t_size > c.f_size \/ (c.t_size > c.pgsize /\ c.f_size > c.pgsize) THEN
        IF te.kind = "page" THEN NextReceiverEntry(down)
        ELSE IF made.t_size >= c.pgsize THEN
          [made EXCEPT !.tpg = SubtreeEnt(@, table_index(c.t_addr, 0))]
        ELSE [made EXCEPT !.tpg = SubtreeEnt(@, i), !.t_num = Table - i, !.t_addr = @ + i]
      ELSE done(IF te.kind = "subtree" THEN into ELSE c)

(* One round of the loop, from the sender's entry.                         *)
MapStep(c) ==
  LET fe == c.m.pt[c.fpg]
      up == IF c.t_size < c.f_size
            THEN [c EXCEPT !.tpg = c.r_tpg, !.t_num = c.r_tnum, !.t_size = c.f_size] ELSE c
  IN  IF c.from = Sigma0 THEN Receive([c EXCEPT !.f_size = c.pgsize])
      ELSE IF fe.kind = "invalid" THEN
        IF up.t_size = up.f_size THEN NextReceiverEntry(up) ELSE NextSenderEntry(up)
      ELSE IF c.f_size > c.pgsize /\ fe.kind = "subtree" THEN
        [c EXCEPT !.f_size = @ - 1, !.fpg = SubtreeEnt(@, table_index(c.f_addr, 0))]
      ELSE IF fe.kind = "subtree" THEN
        [c EXCEPT !.f_size = @ - 1, !.r_fpg = NextEnt(@), !.r_fnum = c.f_num - 1,
                  !.fpg = SubtreeEnt(@, 0), !.f_num = Table]
      ELSE Receive(IF c.f_size > c.pgsize THEN [c EXCEPT !.f_num = 1] ELSE c)

RECURSIVE MapLoop(_)
MapLoop(c) ==
  IF \/ c.f_num = 0 /\ c.t_num = 0
     \/ c.f_addr >= USER_LIMIT /\ c.from # Sigma0
     \/ c.t_addr >= USER_LIMIT
  THEN c.m
  ELSE MapLoop(MapStep(c))

map_fpage(m, from, to, base, snd, rcv, write, grant) ==
  LET t_addr == TargetAddr(base, snd, rcv)
      pgsize == PgSize(snd.num)
      num    == snd.num \div page_size(pgsize)
      fpg    == PgdirEnt(from, snd.addr)
  IN  IF snd.num > rcv.num THEN m
      ELSE MapLoop([m |-> m, from |-> from, to |-> to, write |-> write, grant |-> grant,
                    pgsize |-> pgsize, f_addr |-> snd.addr, t_addr |-> t_addr,
                    f_num |-> num, t_num |-> num, f_size |-> 1, t_size |-> 1,
                    fpg |-> fpg, tpg |-> PgdirEnt(to, t_addr),
                    r_fpg |-> fpg, r_fnum |-> 0, r_tpg |-> fpg, r_tnum |-> 0])

-----------------------------------------------------------------------------
(* fpage_unmap, with the same kind of record.                              *)
NextUnmapEntry(c) ==
  LET c1 == [c EXCEPT !.pg = NextEnt(@), !.vaddr = @ + page_size(c.size), !.num = @ - 1]
  IN  IF c1.num = 0 /\ c.size < c.pgsize
      THEN [c1 EXCEPT !.pg = NextEnt(c.r_pg), !.num = c.r_num, !.size = @ + 1,
              !.m.pt[c.r_pg] = IF c.mode.all /\ c.mode.flush THEN Invalid ELSE @]
      ELSE c1

UnmapStep(c) ==
  LET e == c.m.pt[c.pg]
      stop == [c EXCEPT !.num = 0]
  IN  IF c.size > c.pgsize /\ e.kind = "invalid" THEN stop
      ELSE IF c.size > c.pgsize /\ e.kind = "subtree" THEN
        [c EXCEPT !.size = @ - 1, !.pg = SubtreeEnt(@, table_index(c.vaddr, 0))]
      ELSE IF c.size > c.pgsize /\ c.mode.all THEN stop
      ELSE IF e.kind = "invalid" THEN NextUnmapEntry(c)
      ELSE IF e.kind = "subtree" THEN
        [c EXCEPT !.size = @ - 1, !.r_pg = c.pg, !.r_num = c.num - 1,
                  !.pg = SubtreeEnt(@, 0), !.num = Table]
      ELSE NextUnmapEntry([c EXCEPT !.m =
             mdb_flush(MapnodeKey(@, e, c.vaddr, c.size), e.map, c.pg, c.size, c.vaddr,
                       c.pgsize, c.mode)])

RECURSIVE UnmapLoop(_)
UnmapLoop(c) ==
  IF c.num = 0 \/ c.vaddr >= USER_LIMIT THEN c.m ELSE UnmapLoop(UnmapStep(c))

fpage_unmap(m, space, fp, mode) ==
  LET pgsize == PgSize(fp.num)
      pg     == PgdirEnt(space, fp.addr)
  IN  UnmapLoop([m |-> m, vaddr |-> fp.addr, num |-> fp.num \div page_size(pgsize),
                 size |-> 1, pgsize |-> pgsize, pg |-> pg, r_pg |-> pg, r_num |-> 0,
                 mode |-> mode])

-----------------------------------------------------------------------------
(* The processor may at any time load a translation of the current page    *)
(* directory into its TLB: assume that it has loaded all of them.          *)
Cached(m) ==
  LET entries == {m.pt[<<m.current, d, t>>] : d \in 0 .. Directory - 1, t \in Dir .. Table - 1}
  IN  IF m.current = Sigma0 THEN m
      ELSE [m EXCEPT !.tlb = @ \cup {<<e.vaddr, e.frame, e.write>> :
                                      e \in {x \in entries : x.kind = "page"}}]

(* Nothing depends on the addresses that mapping nodes are allocated at.   *)
(* Between the calls each node is given the number of its page table       *)
(* entry, so that states that differ in addresses only are one state.      *)
EntryNumber(pg) == IF pg[1] = Sigma0 THEN sigma0_mapnode
                   ELSE 2 + ((pg[1] - 1) * Directory + pg[2]) * (Table + 1) + pg[3] + 1

Renumbered(m) ==
  LET nodes == DOMAIN m.mnode
      num   == [n \in nodes |-> EntryNumber(m.mnode[n].pg)]
      node(n) == IF n \in nodes THEN num[n] ELSE n
      ptr(p)  == IF p[1] = "map" THEN ToMap(node(p[2])) ELSE p
      at(k)   == CHOOSE n \in nodes : num[n] = k
  IN  IF Cardinality({num[n] : n \in nodes}) # Cardinality(nodes) THEN m
      ELSE [m EXCEPT
        !.mnode = [k \in {num[n] : n \in nodes} |->
                     [m.mnode[at(k)] EXCEPT !.prev = ptr(@), !.next = ptr(@)]],
        !.dual = [d \in DOMAIN @ |-> [m.dual[d] EXCEPT !.map = node(@)]],
        !.roots = [a \in DOMAIN @ |-> [i \in DOMAIN m.roots[a] |-> ptr(m.roots[a][i])]],
        !.pt = [pg \in DOMAIN @ |-> [m.pt[pg] EXCEPT !.map = node(@)]]]

(* The offsets in the receive window that lead to different places.        *)
Bases(snd, rcv) == {b \in 0 .. rcv.num - 1 : b % snd.num = 0}

WholeSpace == [addr |-> 0, num |-> USER_LIMIT]

(* With OneSize the pages that a map operation meets have one size: a      *)
(* superpage is mapped as a whole and not over a table, a window of        *)
(* superpage size is not mapped from a table over a superpage, and sigma0  *)
(* hands out a superframe always in the same size.                         *)
SizesKept(from, to, snd, t_addr) ==
  LET fe == mem.pt[PgdirEnt(from, snd.addr)].kind
      te == mem.pt[PgdirEnt(to, t_addr)].kind
      large == snd.num >= Table
  IN  IF from = Sigma0
      THEN IF snd.addr \div Table \in Small THEN ~ large ELSE large /\ te # "subtree"
      ELSE /\ fe = "page" => large /\ te # "subtree"
           /\ fe = "subtree" /\ large => te # "page"

(* What a thread of the current space may send: sigma0 maps writable pages *)
(* to tasks and grants none.                                               *)
Sendable(to, base, snd, rcv, write, grant) ==
  LET from == mem.current
  IN  /\ IF from = Sigma0 THEN snd \in Sigma0Fpages /\ write /\ ~ grant ELSE snd \in tasks.snd
      /\ OneSize => SizesKept(from, to, snd, TargetAddr(base, snd, rcv))

(* A message with an fpage item.                                           *)
MapFpage(to, base, snd, rcv, write, grant) ==
  /\ to \in alive
  /\ Sendable(to, base, snd, rcv, write, grant)
  /\ mem' = Renumbered(Cached(map_fpage(mem, mem.current, to, base, snd, rcv, write, grant)))
  /\ UNCHANGED <<alive, tasks>>

sys_fpage_unmap(fp, mode) ==
  /\ mem.current # Sigma0
  /\ mem' = Cached(fpage_unmap(mem, mem.current, fp, mode))
  /\ UNCHANGED <<alive, tasks>>

create_space(s) ==
  /\ s \notin alive
  /\ alive' = alive \cup {s} /\ UNCHANGED tasks
  /\ mem' = [mem EXCEPT !.pt = [pg \in PgEnts |-> IF pg[1] = s THEN Invalid ELSE mem.pt[pg]]]

delete_space(s) ==
  /\ s \in alive /\ s # mem.current
  /\ alive' = alive \ {s} /\ UNCHANGED tasks
  /\ mem' = Cached(fpage_unmap(mem, s, WholeSpace, [all |-> TRUE, flush |-> TRUE]))

(* A thread of another space runs: loading its page directory empties the  *)
(* TLB.                                                                    *)
SwitchSpace(s) ==
  /\ s \in alive \cup {Sigma0} /\ s # mem.current
  /\ mem' = Cached([mem EXCEPT !.current = s, !.tlb = {}])
  /\ UNCHANGED <<alive, tasks>>

Init ==
  /\ mem = mdb_init([pg \in PgEnts |-> Invalid])
  /\ alive = {}
  /\ tasks \in Scenarios

Next ==
  \/ \E to \in Spaces, snd \in Sigma0Fpages \cup tasks.snd, rcv \in tasks.rcv,
        bits \in tasks.bits :
       \E base \in Bases(snd, rcv) : MapFpage(to, base, snd, rcv, bits[1], bits[2])
  \/ \E fp \in tasks.unmap, mode \in tasks.modes : sys_fpage_unmap(fp, mode)
  \/ \E s \in Spaces : create_space(s) \/ delete_space(s)
  \/ \E s \in Spaces \cup {Sigma0} : SwitchSpace(s)

Spec == Init /\ [][Next]_vars

-----------------------------------------------------------------------------
(* Every word that holds two xor-ed pointers is decoded with the pointer   *)
(* it was coded with (mnode_t::w1, the shadow page tables), and only       *)
(* allocated buffers are freed.                                            *)
LinksDecoded == ~ mem.bad

(* The page tables and the mapping database agree: an entry is the one of  *)
(* its node, and a node has an entry in a space that exists, in a table    *)
(* that exists.                                                            *)
TablesAgree ==
  /\ \A pg \in PgEnts : mem.pt[pg].kind = "page" =>
       LET n == mem.pt[pg].map
       IN  n \in DOMAIN mem.mnode \ {sigma0_mapnode} /\ mem.mnode[n].pg = pg
  /\ \A n \in DOMAIN mem.mnode \ {sigma0_mapnode} :
       LET pg == mem.mnode[n].pg
       IN  /\ mem.pt[pg].kind = "page" /\ mem.pt[pg].map = n
           /\ mem.mnode[n].space = pg[1] /\ pg[1] \in alive
           /\ pg[3] # Dir => mem.pt[<<pg[1], pg[2], Dir>>].kind = "subtree"

(* The lists are linked both ways, and a node is at most one level deeper  *)
(* than the node before it: the order in which mdb_flush expects to find   *)
(* the subtree of a node.                                                  *)
PreOrder ==
  \A n \in DOMAIN mem.mnode \ {sigma0_mapnode} :
    LET node == mem.mnode[n]
        next == NextMap(mem, node.next)
    IN  /\ node.depth > 0
        /\ next # NULL => /\ mem.mnode[next].prev = ToMap(n)
                          /\ mem.mnode[next].depth <= node.depth + 1
        /\ IF node.prev[1] = "map" THEN NextMap(mem, mem.mnode[node.prev[2]].next) = n
           ELSE NextMap(mem, RootEntry(mem, node.prev)) = n /\ node.depth = 1

(* The processor holds no translation that the current page tables do not  *)
(* give, and none with more rights: mdb_flush and a grant flush the TLB    *)
(* for what they take away from the current space.                         *)
TlbCoherent ==
  \A e \in mem.tlb : \E pg \in PgEnts :
    /\ pg[1] = mem.current /\ mem.pt[pg].kind = "page"
    /\ mem.pt[pg].vaddr = e[1] /\ mem.pt[pg].frame = e[2] /\ (e[3] => mem.pt[pg].write)
=============================================================================
