-------------------------- MODULE DerivationProofs --------------------------
(***************************************************************************)
(* What Derivation promises for any number of spaces, pages and frames.    *)
(* The memory run shows that the page tables and the mapping database show *)
(* exactly the mappings of Derivation; here they are shown to be rooted in *)
(* sigma0's memory, free of cycles, and to be taken back with it.          *)
(***************************************************************************)
EXTENDS Derivation, TLAPS

(* The types, and the two facts that support one another: a mapping may    *)
(* only be derived of one that is there.                                   *)
Good(ms) ==
  /\ ms \in [DOMAIN ms -> Mapping]
  /\ DOMAIN ms \subseteq Places
  /\ IsRooted(ms)
  /\ IsWellFounded(ms)

-----------------------------------------------------------------------------
(* What is derived of a derived mapping, or of P, is derived of P.         *)
LEMMA DerivedClosed ==
  ASSUME NEW ms, NEW P, NEW q \in DOMAIN ms,
         ms[q].from \in P \/ ms[q].from \in Derived(ms, P)
  PROVE  q \in Derived(ms, P)
  <1> SUFFICES ASSUME NEW S \in SUBSET DOMAIN ms, Closed(ms, S),
                      \A r \in DOMAIN ms : ms[r].from \in P => r \in S
               PROVE  q \in S
    BY DEF Derived
  <1>1. CASE ms[q].from \in P
    BY <1>1
  <1>2. CASE ms[q].from \in Derived(ms, P)
    <2>1. ms[q].from \in S
      BY <1>2 DEF Derived
    <2> QED BY <2>1 DEF Closed
  <1> QED BY <1>1, <1>2

(* Taking away a set that is closed under derivation, or only rights,      *)
(* keeps the mappings good.                                                *)
LEMMA RestrictGood ==
  ASSUME NEW ms, Good(ms), NEW R,
         \A q \in DOMAIN ms : ms[q].from \in R => q \in R
  PROVE  Good([q \in DOMAIN ms \ R |-> ms[q]])
  <1> DEFINE new == [q \in DOMAIN ms \ R |-> ms[q]]
  <1>1. DOMAIN new = DOMAIN ms \ R /\ \A q \in DOMAIN ms \ R : new[q] = ms[q]
    OBVIOUS
  <1> HIDE DEF new
  <1>2. new \in [DOMAIN new -> Mapping]
    <2>1. \A q \in DOMAIN new : new[q] \in Mapping
      BY <1>1 DEF Good
    <2>2. new = [q \in DOMAIN new |-> new[q]]
      BY DEF new
    <2> QED BY <2>1, <2>2
  <1>3. DOMAIN new \subseteq Places
    BY <1>1 DEF Good
  <1>4. IsRooted(new)
    BY <1>1 DEF Good, IsRooted
  <1>5. IsWellFounded(new)
    BY <1>1 DEF Good, IsWellFounded
  <1> QED BY <1>2, <1>3, <1>4, <1>5 DEF Good, new

\* Taking away the right to write changes no derivation.
LEMMA RightsGood ==
  ASSUME NEW ms, Good(ms), NEW R, NEW w \in BOOLEAN
  PROVE  Good(WithRights(ms, R, w))
  <1> DEFINE new == WithRights(ms, R, w)
  <1>1. DOMAIN new = DOMAIN ms
    BY DEF WithRights
  <1>2. ASSUME NEW q \in DOMAIN ms
        PROVE  new[q] \in Mapping /\ new[q].from = ms[q].from /\ new[q].frame = ms[q].frame
    <2>1. ms[q] \in Mapping
      BY DEF Good
    <2> QED BY <2>1 DEF Mapping, WithRights
  <1>3. new \in [DOMAIN new -> Mapping]
    BY <1>1, <1>2 DEF WithRights
  <1> HIDE DEF new
  <1>4. IsRooted(new)
    BY <1>1, <1>2 DEF Good, IsRooted
  <1>5. IsWellFounded(new)
    BY <1>1, <1>2 DEF Good, IsWellFounded
  <1>6. DOMAIN new \subseteq Places
    BY <1>1 DEF Good
  <1>7. Good(new)
    BY <1>3, <1>4, <1>5, <1>6 DEF Good
  <1> QED BY <1>7 DEF new

\* Unmapping takes whole subtrees away, so no mapping is left without its source.
LEMMA UnmapGood ==
  ASSUME NEW ms, Good(ms), NEW P, NEW own \in BOOLEAN, NEW flush \in BOOLEAN
  PROVE  Good(UnmapAll(ms, P, own, flush))
  <1> DEFINE reached == Derived(ms, P) \cup IF own THEN P ELSE {}
  <1>1. \A q \in DOMAIN ms : ms[q].from \in reached => q \in reached
    BY DerivedClosed
  <1> HIDE DEF reached
  <1>2. CASE flush
    <2>1. Good([q \in DOMAIN ms \ reached |-> ms[q]])
      BY <1>1, RestrictGood
    <2> QED BY <1>2, <2>1 DEF UnmapAll, reached
  <1>3. CASE ~ flush
    <2>1. Good(WithRights(ms, reached, FALSE))
      BY RightsGood, Zenon
    <2> QED BY <1>3, <2>1, Zenon DEF UnmapAll, reached
  <1> QED BY <1>2, <1>3

-----------------------------------------------------------------------------
(* map_fpage to a free place: the new mapping is a leaf.                   *)
LEMMA LeafGood ==
  ASSUME RootOutside, NEW ms, Good(ms), NEW src, src = Root \/ src \in DOMAIN ms,
         NEW dst \in Places, dst \notin DOMAIN ms, NEW fr \in Frames, NEW w \in BOOLEAN,
         src # Root => fr = ms[src].frame
  PROVE  Good([q \in DOMAIN ms \cup {dst} |->
                 IF q = dst THEN [frame |-> fr, write |-> w, from |-> src] ELSE ms[q]])
  <1> DEFINE leaf == [frame |-> fr, write |-> w, from |-> src]
             new  == [q \in DOMAIN ms \cup {dst} |-> IF q = dst THEN leaf ELSE ms[q]]
  <1>1. /\ DOMAIN new = DOMAIN ms \cup {dst}
        /\ new[dst] = leaf
        /\ \A q \in DOMAIN ms : new[q] = ms[q]
    OBVIOUS
  <1>2. leaf \in Mapping /\ leaf.from = src /\ leaf.frame = fr
    BY DEF Mapping, Good
  <1>3. new \in [DOMAIN new -> Mapping]
    BY <1>2 DEF Good
  <1> HIDE DEF new, leaf
  <1>4. DOMAIN new \subseteq Places
    BY <1>1 DEF Good
  <1>5. IsRooted(new)
    BY <1>1, <1>2 DEF Good, IsRooted
  <1>6. ASSUME NEW S \in SUBSET DOMAIN new, S # {}
        PROVE  \E q \in S : new[q].from \notin S
    <2>1. \A q \in DOMAIN ms : ms[q].from # dst
      BY DEF Good, IsRooted, RootOutside
    <2>2. CASE S = {dst}
      BY <1>1, <1>2, <2>2 DEF RootOutside
    <2>3. CASE S # {dst}
      <3>1. S \ {dst} \in SUBSET DOMAIN ms /\ S \ {dst} # {}
        BY <1>1, <1>6, <2>3
      <3>2. PICK q \in S \ {dst} : ms[q].from \notin S \ {dst}
        BY <3>1, Zenon DEF Good, IsWellFounded
      <3> QED BY <1>1, <2>1, <3>1, <3>2
    <2> QED BY <2>2, <2>3
  <1>7. Good(new)
    BY <1>3, <1>4, <1>5, <1>6 DEF Good, IsWellFounded
  <1> QED BY <1>7 DEF new, leaf

\* A new mapping is derived from one that is there.
LEMMA MapGood ==
  ASSUME RootOutside, NEW ms, Good(ms), NEW src, src = Root \/ src \in DOMAIN ms,
         NEW frame \in Frames, NEW dst \in Places, NEW write \in BOOLEAN
  PROVE  Good(MapOne(ms, src, frame, dst, write))
  <1> DEFINE fr == FrameOf(ms, src, frame)
             w  == write /\ WriteOf(ms, src)
  <1>1. fr \in Frames /\ w \in BOOLEAN /\ (src # Root => fr = ms[src].frame)
    <2>1. src # Root => ms[src] \in Mapping
      BY DEF Good
    <2> QED BY <2>1 DEF FrameOf, WriteOf, Mapping
  <1> HIDE DEF fr, w
  <1>2. CASE dst \notin DOMAIN ms
    <2>1. Good([q \in DOMAIN ms \cup {dst} |->
                  IF q = dst THEN [frame |-> fr, write |-> w, from |-> src] ELSE ms[q]])
      BY <1>1, <1>2, LeafGood
    <2> QED BY <1>2, <2>1 DEF MapOne, fr, w
  <1>3. CASE dst \in DOMAIN ms
    <2>1. Good(WithRights(ms, {dst}, TRUE))
      BY RightsGood, Zenon
    <2> QED BY <1>3, <2>1, Zenon DEF MapOne
  <1> QED BY <1>2, <1>3

(* A grant renames src to dst in the domain and in the origins.            *)
LEMMA GrantGood ==
  ASSUME RootOutside, NEW ms, Good(ms), NEW src \in DOMAIN ms,
         NEW dst \in Places, NEW write \in BOOLEAN
  PROVE  Good(GrantOne(ms, src, dst, write))
  <1>1. CASE dst \in DOMAIN ms
    <2>1. ms[src].frame \in Frames
      BY DEF Good, Mapping
    <2>2. Good(MapOne(ms, src, ms[src].frame, dst, write))
      BY <2>1, MapGood
    <2> QED BY <1>1, <2>2 DEF GrantOne
  <1>2. CASE dst \notin DOMAIN ms
    <2> DEFINE old(q)  == ms[IF q = dst THEN src ELSE q]
               org(q)  == IF old(q).from = src THEN dst ELSE old(q).from
               rec(q)  == [frame |-> old(q).frame, write |-> old(q).write /\ (q = dst => write),
                           from |-> org(q)]
               dom     == (DOMAIN ms \ {src}) \cup {dst}
               new     == [q \in dom |-> rec(q)]
    <2>1. src \in Places /\ src # dst /\ src # Root /\ dst # Root
      BY <1>2 DEF Good, RootOutside
    <2>2. ASSUME NEW q \in dom
          PROVE  /\ rec(q) \in Mapping
                 /\ rec(q).from = org(q)
                 /\ rec(q).frame = old(q).frame
      <3>1. old(q) \in Mapping
        BY DEF Good
      <3> QED BY <2>1, <3>1 DEF Mapping
    <2>3. /\ DOMAIN new = dom
          /\ \A q \in dom : new[q].from = org(q) /\ new[q].frame = old(q).frame
      BY <2>2
    <2>4. new \in [DOMAIN new -> Mapping]
      BY <2>2
    <2>5. DOMAIN new \subseteq Places
      BY DEF Good
    <2> HIDE DEF new
    <2>6. \A q \in DOMAIN ms : ms[q].from # dst
      BY <1>2, <2>1 DEF Good, IsRooted
    <2>7. ASSUME NEW q \in dom, org(q) # Root
          PROVE  org(q) \in dom /\ old(q).frame = old(org(q)).frame
      <3>1. old(q).from # Root /\ (IF q = dst THEN src ELSE q) \in DOMAIN ms
        BY <2>1, <2>7
      <3>2. old(q).from \in DOMAIN ms /\ old(q).frame = ms[old(q).from].frame
        BY <3>1 DEF Good, IsRooted
      <3> QED BY <1>2, <2>1, <2>6, <3>2
    <2>8. IsRooted(new)
      BY <2>3, <2>7 DEF IsRooted
    <2>9. ASSUME NEW S \in SUBSET dom, S # {}
          PROVE  \E q \in S : org(q) \notin S
      <3> DEFINE T == IF dst \in S THEN (S \ {dst}) \cup {src} ELSE S
      <3>1. T \in SUBSET DOMAIN ms /\ T # {}
        BY <1>2, <2>9
      <3>2. PICK q \in T : ms[q].from \notin T
        BY <3>1 DEF Good, IsWellFounded
      <3> DEFINE r == IF dst \in S /\ q = src THEN dst ELSE q
      <3>3. r \in S /\ old(r) = ms[q]
        BY <1>2, <2>1, <2>9, <3>1
      <3>4. org(r) \notin S
        BY <2>1, <2>6, <2>9, <3>1, <3>2, <3>3
      <3> QED BY <3>3, <3>4
    <2>10. IsWellFounded(new)
      BY <2>3, <2>9 DEF IsWellFounded
    <2>11. Good(new)
      BY <2>4, <2>5, <2>8, <2>10 DEF Good
    <2> QED BY <1>2, <2>11 DEF GrantOne, new
  <1> QED BY <1>1, <1>2

-----------------------------------------------------------------------------
\* Nothing is mapped at the start.
LEMMA GoodInit == Init => Good(maps)
  <1> SUFFICES ASSUME Init PROVE Good(maps)
    OBVIOUS
  <1>1. DOMAIN maps = {}
    BY DEF Init
  <1>2. maps \in [DOMAIN maps -> Mapping]
    BY <1>1 DEF Init
  <1> QED BY <1>1, <1>2 DEF Good, IsRooted, IsWellFounded

\* Every step keeps the derivations.
LEMMA GoodNext ==
  ASSUME RootOutside, Good(maps), [Next]_maps
  PROVE  Good(maps')
  <1>1. ASSUME NEW src \in Places \cup {Root}, NEW frame \in Frames, NEW dst \in Places,
               NEW write \in BOOLEAN, Map(src, frame, dst, write)
        PROVE  Good(maps')
    <2>1. src = Root \/ src \in DOMAIN maps
      BY <1>1 DEF Map
    <2>2. Good(MapOne(maps, src, frame, dst, write))
      BY <2>1, MapGood
    <2> QED BY <1>1, <2>2 DEF Map
  <1>2. ASSUME NEW src \in Places, NEW dst \in Places, NEW write \in BOOLEAN,
               Grant(src, dst, write)
        PROVE  Good(maps')
    <2>1. src \in DOMAIN maps
      BY <1>2 DEF Grant
    <2>2. Good(GrantOne(maps, src, dst, write))
      BY <2>1, GrantGood
    <2> QED BY <1>2, <2>2 DEF Grant
  <1>3. ASSUME NEW P \in SUBSET Places, NEW own \in BOOLEAN, NEW flush \in BOOLEAN,
               Unmap(P, own, flush)
        PROVE  Good(maps')
    <2>1. Good(UnmapAll(maps, P, own, flush))
      BY UnmapGood
    <2> QED BY <1>3, <2>1 DEF Unmap
  <1>4. CASE UNCHANGED maps
    BY <1>4
  <1> QED BY <1>1, <1>2, <1>3, <1>4 DEF Next

(* Whatever is mapped, granted and unmapped in any order, every mapping    *)
(* shows the frame of a mapping that is still there, back to sigma0, and   *)
(* derivation has no cycle.                                                *)
THEOREM DerivationSafe ==
  ASSUME RootOutside
  PROVE  Spec => [](TypeOK /\ Rooted /\ WellFounded)
  <1>1. Init => Good(maps)
    BY GoodInit
  <1>2. Good(maps) /\ [Next]_maps => Good(maps)'
    BY GoodNext
  <1>3. Good(maps) => TypeOK /\ Rooted /\ WellFounded
    BY DEF Good, TypeOK, Rooted, WellFounded
  <1> QED BY <1>1, <1>2, <1>3, PTL DEF Spec

(* Every mapping of a frame is derived from P, or in P, when P has those   *)
(* that come from sigma0: a mapping that is not would go back, without a   *)
(* cycle, to one that comes from sigma0 and is not in P.                   *)
LEMMA AllReached ==
  ASSUME NEW ms, Good(ms), NEW P, NEW f,
         \A q \in DOMAIN ms : ms[q].frame = f /\ ms[q].from = Root => q \in P,
         NEW q \in DOMAIN ms, ms[q].frame = f
  PROVE  q \in Derived(ms, P) \cup P
  <1> DEFINE T == {r \in DOMAIN ms : ms[r].frame = f /\ r \notin Derived(ms, P) \cup P}
  <1> SUFFICES ASSUME T # {} PROVE FALSE
    BY Zenon
  <1>1. PICK r \in T : ms[r].from \notin T
    BY Zenon DEF Good, IsWellFounded
  <1>2. ms[r].from \in DOMAIN ms /\ ms[ms[r].from].frame = f
    BY <1>1, Zenon DEF Good, IsRooted
  <1>3. ms[r].from \in Derived(ms, P) \cup P
    BY <1>1, <1>2, Zenon
  <1> QED BY <1>1, <1>3, DerivedClosed, Zenon

(* fpage_unmap takes a frame back from everybody that got it, directly or  *)
(* not, in any number of spaces, from the pages it is called for.          *)
THEOREM FrameTakenBack ==
  ASSUME RootOutside
  PROVE  Spec => FrameReclaimed
  <1>1. ASSUME Good(maps), NEW P \in SUBSET Places, NEW own \in BOOLEAN, NEW flush \in BOOLEAN,
               NEW f \in Frames
        PROVE  Reclaims(P, own, flush, f)
    <2> SUFFICES ASSUME Unmap(P, own, flush),
                        \A q \in DOMAIN maps :
                          maps[q].frame = f /\ maps[q].from = Root => q \in P,
                        NEW q \in DOMAIN maps', maps'[q].frame = f
                 PROVE  (q \in P /\ ~ own) \/ (~ flush /\ ~ maps'[q].write)
      BY DEF Reclaims
    <2>1. PICK R : R = Derived(maps, P) \cup IF own THEN P ELSE {}
      BY Zenon
    <2>2. maps' = IF flush THEN [r \in DOMAIN maps \ R |-> maps[r]]
                  ELSE WithRights(maps, R, FALSE)
      BY <1>1, <2>1, Zenon DEF Unmap, UnmapAll
    <2>3. CASE flush
      <3>1. q \in DOMAIN maps \ R /\ maps[q].frame = f
        BY <1>1, <2>2, <2>3
      <3>2. q \in Derived(maps, P) \cup P
        BY <1>1, <3>1, AllReached, Zenon
      <3> QED BY <2>1, <3>1, <3>2, Zenon
    <2>4. CASE ~ flush
      <3>1. q \in DOMAIN maps /\ maps[q] \in Mapping
        BY <1>1, <2>2, <2>4 DEF WithRights, Good
      <3>2. maps'[q] = IF q \in R THEN [maps[q] EXCEPT !.write = FALSE] ELSE maps[q]
        BY <2>2, <2>4, <3>1 DEF WithRights
      <3>3. maps[q].frame = f /\ (q \in R => ~ maps'[q].write)
        BY <1>1, <3>1, <3>2 DEF Mapping
      <3>4. q \in Derived(maps, P) \cup P
        BY <1>1, <3>1, <3>3, AllReached, Zenon
      <3> QED BY <2>1, <2>4, <3>3, <3>4, Zenon
    <2> QED BY <2>3, <2>4
  <1>2. Good(maps) => \A P \in SUBSET Places, own, flush \in BOOLEAN, f \in Frames :
                        Reclaims(P, own, flush, f)
    BY <1>1, Zenon
  <1>3. Init => Good(maps)
    BY GoodInit
  <1>4. Good(maps) /\ [Next]_maps => Good(maps)'
    BY GoodNext
  <1> QED BY <1>2, <1>3, <1>4, PTL DEF Spec, FrameReclaimed
=============================================================================
