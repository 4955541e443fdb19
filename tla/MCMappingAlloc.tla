--------------------------- MODULE MCMappingAlloc ---------------------------
(***************************************************************************)
(* An arena of four pages of two chunks, of which kmem can hand out all    *)
(* but the last, and two buffer sizes with pools of two and three          *)
(* buffers: three pools of one size are the fewest with one in the middle  *)
(* of its list.  Other clients allocate single pages and pairs of pages.   *)
(***************************************************************************)
EXTENDS MappingAlloc

MCSizes == {2, 4}

MCBuflists == {"mnode", "dualnode"}

MCmax_free == [bl \in MCBuflists |-> IF bl = "mnode" THEN 2 ELSE 3]
=============================================================================
