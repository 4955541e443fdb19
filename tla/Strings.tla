------------------------------ MODULE Strings ------------------------------
(***************************************************************************)
(* Indirect strings of long messages: the scatter-gather loop of           *)
(* extended_transfer (src/kernel/src/ipc.c), and what it is to compute.    *)
(* A string dope is a record of its size, its continue bit and the window  *)
(* of memory that its address points into.  A dope whose continue bit is   *)
(* set belongs to the string that the dope before it belongs to.           *)
(***************************************************************************)
EXTENDS Integers, Sequences, FiniteSets, SequencesExt

(* The copy of n bytes from offset soff of the send dope si to offset doff *)
(* of the receive dope di.                                                 *)
Piece(c, n) == [si |-> c.si, soff |-> c.soff, di |-> c.di, doff |-> c.doff, n |-> n]

(* The local variables of the loop, and what it writes: the pieces it      *)
(* copies, send_size of the receive dopes, the number of strings and the   *)
(* error IPC_ERR_CUTMSG of msgdope.                                        *)
LoopStart(src, dst) ==
  [num_strings_src |-> Len(src), num_strings_dest |-> Len(dst), si |-> 1, di |-> 1,
   soff |-> 0, doff |-> 0, size_total |-> 0,
   size_src |-> IF src = <<>> THEN 0 ELSE src[1].size,
   size_dest |-> IF dst = <<>> THEN 0 ELSE dst[1].size,
   pieces |-> <<>>, send_size |-> <<>>, strings |-> 0, cut |-> FALSE, done |-> FALSE]

(* The receive dope is done: it is told what it holds, and counted.        *)
CloseDope(c) ==
  [c EXCEPT !.send_size = Append(@, c.size_total), !.strings = @ + 1, !.size_total = 0,
            !.di = @ + 1, !.num_strings_dest = @ - 1]

(* On to the first receive dope of the next string; the dopes passed over  *)
(* are marked empty.  The message is cut if there is none.                 *)
SkipDest(dst, c) ==
  LET starts == {j \in c.di + 1 .. Len(dst) : ~ dst[j].cont}
      next   == IF starts = {} THEN Len(dst) + 1 ELSE Min(starts)
      passed == next - c.di
  IN  [c EXCEPT !.send_size = @ \o [i \in 1 .. passed |-> IF i = 1 THEN c.size_total ELSE 0],
                !.strings = @ + passed, !.num_strings_dest = @ - passed, !.size_total = 0,
                !.di = next, !.doff = 0, !.cut = starts = {},
                !.size_dest = IF starts = {} THEN @ ELSE dst[next].size]

(* Mutant: a send string that continues starts over in the receive dope.   *)
NextSrcAtStart(src, c, copy_size) ==
  [c EXCEPT !.si = @ + 1, !.num_strings_src = @ - 1, !.soff = 0, !.doff = 0,
            !.size_src = src[c.si + 1].size]

(* The send dope is used up, and the next one continues the string.        *)
NextSrc(src, c, copy_size) ==
  [c EXCEPT !.si = @ + 1, !.num_strings_src = @ - 1, !.soff = 0, !.doff = @ + copy_size,
            !.size_src = src[c.si + 1].size]

(* One turn of the loop, and whether it is the last.                       *)
Turn(src, dst, c) ==
  LET copy_size == IF c.size_src < c.size_dest THEN c.size_src ELSE c.size_dest
      copied == [c EXCEPT !.pieces = Append(@, Piece(c, copy_size)), !.size_src = @ - copy_size,
                          !.size_dest = @ - copy_size, !.size_total = @ + copy_size]
      full == CloseDope(copied)
      over == SkipDest(dst, copied)
  IN  IF c.num_strings_dest = 0 THEN [c EXCEPT !.cut = TRUE, !.done = TRUE]
      ELSE IF c.num_strings_src = 0 THEN [c EXCEPT !.done = TRUE]
      ELSE IF copied.size_src > 0
           THEN IF full.num_strings_dest > 0 /\ dst[full.di].cont
                THEN [full EXCEPT !.size_dest = dst[full.di].size, !.doff = 0, !.soff = @ + copy_size]
                ELSE [full EXCEPT !.cut = TRUE, !.done = TRUE]
      ELSE IF c.num_strings_src = 1 THEN [full EXCEPT !.done = TRUE]
      ELSE IF src[c.si + 1].cont THEN NextSrc(src, copied, copy_size)
      ELSE IF over.cut THEN [over EXCEPT !.done = TRUE]
      ELSE [over EXCEPT !.si = @ + 1, !.num_strings_src = @ - 1, !.soff = 0,
                        !.size_src = src[c.si + 1].size]

LoopStates ==
  [num_strings_src : Nat, num_strings_dest : Nat, si : Nat, di : Nat, soff : Nat, doff : Nat,
   size_total : Nat, size_src : Nat, size_dest : Nat, send_size : Seq(Nat), strings : Nat,
   pieces : Seq([si : Nat, soff : Nat, di : Nat, doff : Nat, n : Nat]), cut : BOOLEAN, done : BOOLEAN]

CopyStrings(src, dst) ==
  LET loop[c \in LoopStates] == IF c.done THEN c ELSE loop[Turn(src, dst, c)]
  IN  loop[LoopStart(src, dst)]

-----------------------------------------------------------------------------
(* What the loop is for.  The g-th string of the message is spread over    *)
(* the dopes of the g-th string of the receive buffer, in order.           *)
StringOf(dopes, i) == 1 + Cardinality({j \in 2 .. i : ~ dopes[j].cont})

NumStrings(dopes) == IF dopes = <<>> THEN 0 ELSE StringOf(dopes, Len(dopes))

(* The bytes <<dope, offset>> of a string.                                 *)
BytesOf(dopes, g) ==
  FlattenSeq([i \in 1 .. Len(dopes) |->
                IF StringOf(dopes, i) = g THEN [k \in 1 .. dopes[i].size |-> <<i, k - 1>>]
                                          ELSE <<>>])

TooLong(src, dst) ==
  {g \in 1 .. NumStrings(src) :
     g <= NumStrings(dst) /\ Len(BytesOf(src, g)) > Len(BytesOf(dst, g))}

(* The strings that are sent: up to the first one that does not fit.       *)
SentStrings(src, dst) ==
  {g \in 1 .. NumStrings(src) : g <= NumStrings(dst) /\ \A h \in TooLong(src, dst) : g <= h}

(* The bytes <<to, from>> that arrive.                                     *)
Arrived(src, dst) ==
  UNION {{<<BytesOf(dst, g)[k], BytesOf(src, g)[k]>> :
            k \in {k \in 1 .. Len(BytesOf(src, g)) : k <= Len(BytesOf(dst, g))}} :
         g \in SentStrings(src, dst)}

WasCut(src, dst) == TooLong(src, dst) # {} \/ NumStrings(src) > NumStrings(dst)

ArrivedIn(src, dst, i) == Cardinality({b \in Arrived(src, dst) : b[1][1] = i})

(* The receive dopes that are reported: those of the strings before the    *)
(* last one sent, and of that one as many as its bytes take, all of them   *)
(* if it was the last that could be sent.                                  *)
ReportedDopes(src, dst) ==
  LET g == Cardinality(SentStrings(src, dst))
  IN  {i \in 1 .. Len(dst) :
         \/ StringOf(dst, i) < g
         \/ StringOf(dst, i) = g
            /\ \/ WasCut(src, dst)
               \/ i = 1 \/ StringOf(dst, i - 1) < g
               \/ Cardinality({b \in 1 .. Len(BytesOf(dst, g)) : BytesOf(dst, g)[b][1] < i})
                    < Len(BytesOf(src, g))}
=============================================================================
