----------------------------- MODULE Derivation -----------------------------
(***************************************************************************)
(* What flexpages promise: a memory of mappings, page by page.  A mapping  *)
(* is at a place <<space, page>>, shows a page frame, may be writable, and *)
(* was derived from the mapping at another place or from sigma0's memory.  *)
(* Memory.tla is compared with this; here there are no page tables, page   *)
(* sizes or lists.                                                         *)
(***************************************************************************)
EXTENDS Integers, FiniteSets

CONSTANTS
  Places,  \* the places <<space, page>> of all address spaces
  Frames,
  Root     \* where sigma0's mappings are derived from

VARIABLE maps  \* a function from the mapped places

Mapping == [frame : Frames, write : BOOLEAN, from : Places \cup {Root}]

(* The mappings derived from those at P, directly or not: the least set    *)
(* that has the direct ones and is closed under derivation.                *)
Closed(ms, S) == \A q \in DOMAIN ms : ms[q].from \in S => q \in S

Derived(ms, P) ==
  {q \in DOMAIN ms :
     \A S \in SUBSET DOMAIN ms :
       (Closed(ms, S) /\ \A r \in DOMAIN ms : ms[r].from \in P => r \in S) => q \in S}

(* What src offers to dst: for src = Root the given frame, writable.       *)
FrameOf(ms, src, frame) == IF src = Root THEN frame ELSE ms[src].frame
WriteOf(ms, src) == src = Root \/ ms[src].write

WithRights(ms, P, w) ==
  [q \in DOMAIN ms |-> IF q \in P THEN [ms[q] EXCEPT !.write = w] ELSE ms[q]]

(* A mapping at a free place is new; one of the same frame may only gain   *)
(* rights; one of another frame stays.                                     *)
MapOne(ms, src, frame, dst, write) ==
  LET old == ms[dst]
      fr  == FrameOf(ms, src, frame)
      w   == write /\ WriteOf(ms, src)
  IN  IF dst \notin DOMAIN ms
      THEN [q \in DOMAIN ms \cup {dst} |->
              IF q = dst THEN [frame |-> fr, write |-> w, from |-> src] ELSE ms[q]]
      ELSE IF old.frame = fr /\ w THEN WithRights(ms, {dst}, TRUE)
      ELSE ms

(* A granted mapping moves to a free place with all that is derived of it. *)
GrantOne(ms, src, dst, write) ==
  IF dst \in DOMAIN ms THEN MapOne(ms, src, ms[src].frame, dst, write)
  ELSE [q \in (DOMAIN ms \ {src}) \cup {dst} |->
          LET old == ms[IF q = dst THEN src ELSE q]
          IN  [frame |-> old.frame,
               write |-> old.write /\ (q = dst => write),
               from  |-> IF old.from = src THEN dst ELSE old.from]]

(* Unmapping the places P of a space reaches all that is derived of them,  *)
(* and P itself if `own'; it removes the mappings or makes them read-only. *)
UnmapAll(ms, P, own, flush) ==
  LET reached == Derived(ms, P) \cup IF own THEN P ELSE {}
  IN  IF flush THEN [q \in DOMAIN ms \ reached |-> ms[q]]
      ELSE WithRights(ms, reached, FALSE)

-----------------------------------------------------------------------------
Init == maps = [q \in {} |-> 0]

Map(src, frame, dst, write) ==
  /\ src = Root \/ src \in DOMAIN maps
  /\ maps' = MapOne(maps, src, frame, dst, write)

Grant(src, dst, write) ==
  /\ src \in DOMAIN maps
  /\ maps' = GrantOne(maps, src, dst, write)

Unmap(P, own, flush) == maps' = UnmapAll(maps, P, own, flush)

Next ==
  \/ \E src \in Places \cup {Root}, frame \in Frames, dst \in Places, write \in BOOLEAN :
       Map(src, frame, dst, write)
  \/ \E src, dst \in Places, write \in BOOLEAN : Grant(src, dst, write)
  \/ \E P \in SUBSET Places, own, flush \in BOOLEAN : Unmap(P, own, flush)

Spec == Init /\ [][Next]_maps

-----------------------------------------------------------------------------
(* Root is no place of an address space.                                   *)
RootOutside == Root \notin Places

TypeOK == maps \in [DOMAIN maps -> Mapping] /\ DOMAIN maps \subseteq Places

IsRooted(ms) ==
  \A q \in DOMAIN ms :
    ms[q].from # Root => ms[q].from \in DOMAIN ms /\ ms[q].frame = ms[ms[q].from].frame

IsWellFounded(ms) ==
  \A S \in SUBSET DOMAIN ms : S # {} => \E q \in S : ms[q].from \notin S

(* Every mapping shows the frame of the mapping it was derived from, which *)
(* is still there: fpage_unmap never leaves a mapping behind whose origin  *)
(* it has removed.                                                         *)
Rooted == IsRooted(maps)

(* Derivation has no cycles: whatever map_fpage is asked for, each mapping *)
(* goes back to sigma0's memory, so that the walk of a flush ends.         *)
WellFounded == IsWellFounded(maps)

(* fpage_unmap of P, which has all the mappings of frame f that come from  *)
(* sigma0 directly, leaves no mapping of f that could be used as before,   *)
(* but for those at P when they are not included.                          *)
Reclaims(P, own, flush, f) ==
  ( /\ Unmap(P, own, flush)
    /\ \A q \in DOMAIN maps : maps[q].frame = f /\ maps[q].from = Root => q \in P )
  => \A q \in DOMAIN maps' :
       maps'[q].frame = f => (q \in P /\ ~ own) \/ (~ flush /\ ~ maps'[q].write)

(* Who has all the mappings of a frame that come from sigma0 directly can  *)
(* take the frame back: when fpage_unmap has flushed them, no space shows  *)
(* the frame any more, however often it was mapped on, granted and mapped  *)
(* back; when it has only taken rights away, none can write to it.         *)
FrameReclaimed ==
  [][\A P \in SUBSET Places, own, flush \in BOOLEAN, f \in Frames :
       Reclaims(P, own, flush, f)]_maps
=============================================================================
