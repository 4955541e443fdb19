------------------------------ MODULE MCMemory ------------------------------
(***************************************************************************)
(* Two tasks with tables of two pages.  In the first scenario they use one *)
(* directory entry for pages and superpages, with all rights and modes; in *)
(* the second they use pages below both entries, always writable.          *)
(***************************************************************************)
EXTENDS MemoryRefines

MCSpaces == 1 .. 2

Page(addr) == [addr |-> addr, num |-> 1]
Superpage(addr) == [addr |-> addr, num |-> Table]

MCSigma0 == {Page(0), Superpage(Table)}

MCScenarios ==
  {[snd   |-> {Page(0), Superpage(0)},
    rcv   |-> {Superpage(0)},
    unmap |-> {Page(0), Page(1), Superpage(0)},
    bits  |-> {<<TRUE, FALSE>>, <<FALSE, FALSE>>, <<TRUE, TRUE>>},
    modes |-> [all : BOOLEAN, flush : BOOLEAN]],
   [snd   |-> {Page(0), Page(Table)},
    rcv   |-> {Page(0), Page(Table)},
    unmap |-> {Page(0), Page(Table), WholeSpace},
    bits  |-> {<<TRUE, FALSE>>, <<TRUE, TRUE>>},
    modes |-> [all : BOOLEAN, flush : {TRUE}]]}
=============================================================================
