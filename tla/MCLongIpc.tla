----------------------------- MODULE MCLongIpc -----------------------------
(***************************************************************************)
(* One task with two senders, and two receivers in tasks of their own.     *)
(*                                                                         *)
(* In the first scenario one sender and one receiver go through all        *)
(* combinations of strings, with all memory mapped.  In the second both    *)
(* senders are at work, no memory is mapped, and the pager takes pages     *)
(* back; the messages are few, but need a third window for the two areas.  *)
(***************************************************************************)
EXTENDS LongIpc

CONSTANTS a1, a2, b1, c1

FourThreads == {a1, a2, b1, c1}
SpaceOfThread == [t \in FourThreads |-> IF t \in {a1, a2} THEN 1 ELSE IF t = b1 THEN 2 ELSE 3]

ThreeWindows == 1 .. 3
Window3      == {3}

String(size, cont, win) == [size |-> size, cont |-> cont, win |-> win]

\* Up to two dopes of up to two bytes, or three of up to one (to receive) or
\* of one (to send); the first one continues nothing.
Dopes(n, sizes) ==
  {[i \in 1 .. n |-> String(s[i], i > 1 /\ k[i], 2)] :
     s \in [1 .. n -> sizes], k \in [1 .. n -> BOOLEAN]}
FewDopes == Dopes(0, {0}) \cup Dopes(1, 0 .. 2) \cup Dopes(2, 0 .. 2)
SndDopes == FewDopes \cup Dopes(3, {1})
RcvDopes == FewDopes \cup Dopes(3, 0 .. 1)

Message(map, dwords, strings) ==
  [map |-> map, long |-> TRUE, win |-> 1, dwords |-> dwords, strings |-> strings]
MapItem(map) == [map |-> map, long |-> FALSE, win |-> 1, dwords |-> 0, strings |-> <<>>]

Buffer(dwords, strings) == [kind |-> "buffer", win |-> 1, dwords |-> dwords, strings |-> strings]
ShortDesc == [kind |-> "short"]
FpageDesc == [kind |-> "fpage"]

Sends(from, to, messages) == {[from |-> from, to |-> to, msg |-> m] : m \in messages}
Waits(to, from, descs)    == {[to |-> to, from |-> from, desc |-> d] : d \in descs}

AllStrings ==
  [mapped |-> TRUE, unmaps |-> 0,
   calls |-> Sends(a1, b1, {Message("none", 4, s) : s \in SndDopes}
                            \cup {Message("fits", 5, <<String(1, FALSE, 2)>>),
                                  Message("fails", 3, <<>>)}),
   waits |-> Waits(b1, a1, {Buffer(4, s) : s \in RcvDopes} \cup {ShortDesc})]

Items ==
  [mapped |-> FALSE, unmaps |-> 1,
   calls |-> Sends(a1, b1, {MapItem("fits"), MapItem("fails")}),
   waits |-> Waits(b1, a1, {ShortDesc, FpageDesc, Buffer(3, <<>>)})]

TwoStrings == <<String(1, FALSE, 2), String(1, FALSE, 3)>>

PageFaults ==
  [mapped |-> FALSE, unmaps |-> MaxUnmaps,
   calls |-> Sends(a1, b1, {Message("none", 4, TwoStrings)})
              \cup Sends(a2, b1, {Message("none", 4, <<>>)})
              \cup Sends(a2, c1, {Message("none", 3, <<String(1, FALSE, 2)>>)}),
   waits |-> Waits(b1, a1, {Buffer(4, TwoStrings)})
              \cup Waits(b1, a2, {Buffer(4, <<>>)})
              \cup Waits(c1, a2, {Buffer(3, <<String(1, FALSE, 2)>>)})]

MCScenarios == <<AllStrings, Items, PageFaults>>

\* The receiver waits for anyone, and both senders send to it.
OpenWait ==
  [mapped |-> FALSE, unmaps |-> 0,
   calls |-> Sends(a1, b1, {Message("none", 4, <<>>)}) \cup Sends(a2, b1, {Message("none", 4, <<>>)}),
   waits |-> Waits(b1, Nil, {Buffer(4, <<>>)})]
OpenWaits == <<OpenWait>>

\* A long message with a map item, into a buffer that is not mapped.
MapAndDwords ==
  [mapped |-> FALSE, unmaps |-> 0,
   calls |-> Sends(a1, b1, {Message("fits", 4, <<>>)}),
   waits |-> Waits(b1, a1, {Buffer(4, <<>>)})]
MapsAndDwords == <<MapAndDwords>>
=============================================================================
