--------------------------- MODULE MemoryRefines ---------------------------
(***************************************************************************)
(* The page tables and the mapping database of Memory.tla against the      *)
(* mappings of Derivation.tla: the two run side by side, and in every      *)
(* state the page tables have to show what Derivation says.                *)
(***************************************************************************)
EXTENDS Memory

VARIABLE maps

rvars == <<vars, maps>>

Pages == 0 .. USER_LIMIT - 1

Origin == <<Sigma0, 0>>

D == INSTANCE Derivation WITH
       Places <- Spaces \X Pages, Root <- Origin, Frames <- 0 .. Superframes * Table - 1

(* The entry that translates page v of space s.                            *)
EntryAt(s, v) ==
  IF mem.pt[PgdirEnt(s, v)].kind = "subtree" THEN <<s, table_index(v, 1), table_index(v, 0)>>
  ELSE PgdirEnt(s, v)

(* The node that n was mapped from: the nearest one before it of smaller   *)
(* depth; from a root entry of the frame table it is sigma0's.             *)
RECURSIVE ParentNode(_, _)
ParentNode(n, depth) ==
  LET prev == mem.mnode[n].prev
  IN  IF prev[1] # "map" THEN sigma0_mapnode
      ELSE IF mem.mnode[prev[2]].depth < depth THEN prev[2]
      ELSE ParentNode(prev[2], depth)

ParentPlace(n, v) ==
  LET p  == ParentNode(n, mem.mnode[n].depth)
      pg == mem.mnode[p].pg
  IN  IF p = sigma0_mapnode THEN Origin
      ELSE <<pg[1], pg[2] * Table + IF pg[3] = Dir THEN v % Table ELSE pg[3]>>

MappedPlaces == {p \in Spaces \X Pages : mem.pt[EntryAt(p[1], p[2])].kind = "page"}

Abstract ==
  [p \in MappedPlaces |->
     LET pg == EntryAt(p[1], p[2])
         e  == mem.pt[pg]
     IN  [frame |-> e.frame + IF pg[3] = Dir THEN p[2] % Table ELSE 0,
          write |-> e.write, from |-> ParentPlace(e.map, p[2])]]

(* Mapping or granting num pages, page by page.                            *)
RECURSIVE MapPages(_, _, _, _, _, _, _, _)
MapPages(ms, from, f_addr, to, t_addr, num, write, grant) ==
  LET src == IF from = Sigma0 THEN Origin ELSE <<from, f_addr>>
      dst == <<to, t_addr>>
      one == IF from # Sigma0 /\ src \notin DOMAIN ms THEN ms
             ELSE IF grant THEN D!GrantOne(ms, src, dst, write)
             ELSE D!MapOne(ms, src, f_addr, dst, write)
  IN  IF num = 0 THEN ms
      ELSE MapPages(one, from, f_addr + 1, to, t_addr + 1, num - 1, write, grant)

(* The pages of an fpage that are mapped in s.  A page of a superpage that *)
(* is asked for alone is left out: fpage_unmap does not split superpages.  *)
PagesOf(s, fp) ==
  {p \in DOMAIN maps : /\ p[1] = s /\ p[2] \in fp.addr .. fp.addr + fp.num - 1
                       /\ fp.num >= Table \/ EntryAt(p[1], p[2])[3] # Dir}

RMap(to, base, snd, rcv, write, grant) ==
  /\ MapFpage(to, base, snd, rcv, write, grant)
  /\ maps' = MapPages(maps, mem.current, snd.addr, to, TargetAddr(base, snd, rcv),
                      IF snd.num <= rcv.num THEN snd.num ELSE 0, write, grant)

RUnmap(fp, mode) ==
  /\ sys_fpage_unmap(fp, mode)
  /\ maps' = D!UnmapAll(maps, PagesOf(mem.current, fp), mode.all, mode.flush)

RDelete(s) ==
  /\ delete_space(s)
  /\ maps' = D!UnmapAll(maps, PagesOf(s, WholeSpace), TRUE, TRUE)

RInit == Init /\ D!Init

RNext ==
  \/ \E to \in Spaces, snd \in Sigma0Fpages \cup tasks.snd, rcv \in tasks.rcv,
        bits \in tasks.bits :
       \E base \in Bases(snd, rcv) : RMap(to, base, snd, rcv, bits[1], bits[2])
  \/ \E fp \in tasks.unmap, mode \in tasks.modes : RUnmap(fp, mode)
  \/ \E s \in Spaces : RDelete(s)
  \/ \E s \in Spaces : create_space(s) /\ UNCHANGED maps
  \/ \E s \in Spaces \cup {Sigma0} : SwitchSpace(s) /\ UNCHANGED maps

RSpec == RInit /\ [][RNext]_rvars

-----------------------------------------------------------------------------
(* map_fpage, fpage_unmap and delete_space do to the page tables of all    *)
(* spaces what Derivation says: pages are mapped one by one, a granted     *)
(* page takes along what was derived from it, and an unmap reaches exactly *)
(* what was derived from the unmapped pages.                               *)
PageTablesRefine == Abstract = maps
=============================================================================
