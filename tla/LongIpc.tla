------------------------------ MODULE LongIpc ------------------------------
(***************************************************************************)
(* Long messages: transfer_message, extended_transfer and copy_pagefault   *)
(* of src/kernel/src/ipc.c with the copy areas and the page fault handler  *)
(* of src/kernel/src/x86/memory.c.                                         *)
(*                                                                         *)
(* The sender copies into the receiver's space through two windows of its  *)
(* own page directory, the copy areas, into which it copies directory      *)
(* entries of the receiver.  The directory is shared by all threads of the *)
(* task, the fields that say what the areas hold are per thread, and both  *)
(* the sender and the receiver may have to wait for a pager in the middle  *)
(* of a copy while other threads run.                                      *)
(*                                                                         *)
(* A window is what one directory entry maps (4M), with one page in it     *)
(* that is used.  The two entries of an area (for buffers that cross a     *)
(* window) are one.  Register messages, timeouts, unwinding and the order  *)
(* of the send queues are in Ipc.tla.                                      *)
(***************************************************************************)
EXTENDS Strings

CONSTANTS
  Threads, Space,   \* the threads, and the space of each
  Windows,          \* the windows of a space that messages use
  Super,            \* those of them that pagers back with 4M pages
  Pager, PagerSpace,\* the pager of all threads, and its space
  Idle, Nil,
  Scenarios,        \* what the threads do, case by case
  MaxUnmaps         \* bound on the pages that are taken back

ASSUME LongIpcAssumption ==
  /\ Super \subseteq Windows
  /\ \A c \in DOMAIN Scenarios : Scenarios[c].unmaps \in 0 .. MaxUnmaps
  /\ Pager \notin Threads /\ Idle \notin Threads /\ Nil \notin Threads
  /\ \A t \in Threads : Space[t] # PagerSpace

VARIABLES
  client,   \* the case: who sends what to whom, into which buffers
  cpu,      \* the running thread, the loaded directory, the TLB for its areas
  tcb,      \* the fields of the thread control blocks
  frame,    \* what is on the kernel stacks
  pgdir,    \* the copy area entries of the page directories
  page,     \* how each window of each space is mapped
  got,      \* the bytes written for a receiver
  last,     \* the transfer a receiver has got last
  unmaps

vars == <<client, cpu, tcb, frame, pgdir, page, got, last, unmaps>>

IPC_DWORD_GAP == 3

Areas  == {1, 2}
NoArea == [a \in Areas |-> Nil]
Spaces == {Space[t] : t \in Threads}

SpaceOf(t) == IF t = Pager THEN PagerSpace ELSE Space[t]

(* What msg_desc holds.  Of a thread that receives, its descriptor: kind   *)
(* "short", "fpage" (a mapping only) or "buffer".  Then the dope of the    *)
(* message.  The dope of a mapping, which answers a page fault, is as      *)
(* short to IS_SHORT_IPC as a descriptor of the first kind.                *)
Dope(dwords, strings, map, cut) ==
  [kind |-> "dope", dwords |-> dwords, strings |-> strings, map |-> map, cut |-> cut]

MapReply == Dope(0, 0, TRUE, FALSE)

IsShort(desc) == desc = MapReply \/ desc.kind = "short"

Mapped == {"page", "super"}

InUser    == [in |-> "user"]
InSend(m) == [in |-> "send", msg |-> m]
InReceive == [in |-> "receive"]

NoTransfer == [desc |-> [kind |-> "short"], from |-> Nil]

-----------------------------------------------------------------------------
(* Thread switches *)

(* Mutant: the TLB is flushed only when the directory is reloaded.         *)
SwitchKeepsTlb(tc, dest) ==
  LET t    == cpu.current
      held == t \in Threads /\ tc[t].resources # {}
      load == dest # Idle /\ SpaceOf(dest) # cpu.pagedir
  IN  /\ tcb' = IF held THEN [tc EXCEPT ![t].resources = {}] ELSE tc
      /\ pgdir' = IF held THEN [pgdir EXCEPT ![SpaceOf(t)] = NoArea] ELSE pgdir
      /\ cpu' = [current |-> dest,
                 pagedir |-> IF load THEN SpaceOf(dest) ELSE cpu.pagedir,
                 tlb |-> IF load THEN NoArea ELSE cpu.tlb]

(* Mutant: save_resources does not give the resource bits back.            *)
SwitchKeepsBits(tc, dest) ==
  LET t     == cpu.current
      held  == t \in Threads /\ tc[t].resources # {}
      flush == held /\ (dest = Idle \/ SpaceOf(dest) = SpaceOf(t))
      load  == dest # Idle /\ SpaceOf(dest) # cpu.pagedir
  IN  /\ tcb' = tc
      /\ pgdir' = IF held THEN [pgdir EXCEPT ![SpaceOf(t)] = NoArea] ELSE pgdir
      /\ cpu' = [current |-> dest,
                 pagedir |-> IF load THEN SpaceOf(dest) ELSE cpu.pagedir,
                 tlb |-> IF flush \/ load THEN NoArea ELSE cpu.tlb]

(* switch_to_thread and switch_to_idle: save_resources takes the copy      *)
(* areas out of the directory, and flushes the TLB unless loading another  *)
(* directory does so.  The idle thread runs on any directory.              *)
SwitchTo(tc, dest) ==
  LET t     == cpu.current
      held  == t \in Threads /\ tc[t].resources # {}
      flush == held /\ (dest = Idle \/ SpaceOf(dest) = SpaceOf(t))
      load  == dest # Idle /\ SpaceOf(dest) # cpu.pagedir
  IN  /\ tcb' = IF held THEN [tc EXCEPT ![t].resources = {}] ELSE tc
      /\ pgdir' = IF held THEN [pgdir EXCEPT ![SpaceOf(t)] = NoArea] ELSE pgdir
      /\ cpu' = [current |-> dest,
                 pagedir |-> IF load THEN SpaceOf(dest) ELSE cpu.pagedir,
                 tlb |-> IF flush \/ load THEN NoArea ELSE cpu.tlb]

-----------------------------------------------------------------------------
(* Copy areas *)

(* What a copied directory entry refers to: nothing, the page table of a   *)
(* window, or the memory itself if it is a 4M page.                        *)
Entry(s, w) ==
  IF page[s][w] = "none" THEN Nil ELSE [space |-> s, win |-> w, super |-> page[s][w] = "super"]

(* get_copy_area: the area through which t reaches w of its partner.       *)
GetCopyArea(t, w) ==
  LET f == tcb[t]
      e == Entry(SpaceOf(f.partner), w)
      Set(a, tlb) ==
        [area |-> a, dir |-> [pgdir[Space[t]] EXCEPT ![a] = e], tlb |-> tlb,
         tc |-> [f EXCEPT !.copy_area[a] = w, !.resources = @ \cup {a}]]
      Keep(a) == [area |-> a, dir |-> pgdir[Space[t]], tlb |-> cpu.tlb, tc |-> f]
  IN  IF f.copy_area[1] = Nil THEN Set(1, cpu.tlb)
      ELSE IF f.copy_area[1] = w THEN Keep(1)
      ELSE IF f.copy_area[2] = w THEN Keep(2)
      ELSE Set(2, IF 2 \in f.resources THEN NoArea ELSE cpu.tlb)

(* What the hardware finds behind an area of t, Nil for a page fault.      *)
Lookup(t, a) ==
  LET e == pgdir[Space[t]][a]
  IN  IF cpu.tlb[a] # Nil THEN cpu.tlb[a]
      ELSE IF e # Nil /\ (e.super \/ page[e.space][e.win] = "page") THEN <<e.space, e.win>>
      ELSE Nil

-----------------------------------------------------------------------------
(* The start and the end of a transfer *)

(* The local variables of extended_transfer: where it is, the receive      *)
(* buffer that rcv_msg points to and its area, the dope.                   *)
InTransfer(m, to) ==
  [in |-> "transfer", at |-> "rcv_fpage", msg |-> m, to |-> to, rcv_msg |-> Nil, head |-> Nil,
   area |-> Nil, k |-> 1, map |-> FALSE, cut |-> FALSE]

(* transfer_message, which calls extended_transfer.                        *)
StartTransfer(t, to, m) ==
  /\ tcb' = [tcb EXCEPT ![t].partner = to, ![t].state = "LOCKED_RUNNING"]
  /\ frame' = [frame EXCEPT ![t] = InTransfer(m, to)]
  /\ UNCHANGED <<cpu, pgdir>>

(* The transfer is over, with this dope; sys_ipc gives the processor to    *)
(* the receiver.                                                           *)
EndTransfer(t, dope, send_size, freed) ==
  LET f  == frame[t]
      tc == [tcb EXCEPT ![f.to].msg_desc = dope, ![f.to].partner = t, ![t].state = "RUNNING",
                        ![t].copy_area = IF freed THEN NoArea ELSE @]
  IN  /\ SwitchTo(tc, f.to)
      /\ frame' = [frame EXCEPT ![t] = InUser]
      /\ last' = [last EXCEPT ![f.to] = [desc |-> @.desc, from |-> t, msg |-> f.msg, dope |-> dope,
                                              send_size |-> send_size]]
      /\ UNCHANGED <<client, page, got, unmaps>>

(* sys_ipc with a send phase only.                                         *)
SysIpcSend(t, to, m) ==
  /\ cpu.current = t /\ frame[t] = InUser
  /\ IF tcb[to].state = "WAITING" /\ tcb[to].partner \in {t, Nil}
     THEN StartTransfer(t, to, m)
     ELSE /\ SwitchTo([tcb EXCEPT ![t].partner = to, ![t].state = "POLLING"], Idle)
          /\ frame' = [frame EXCEPT ![t] = InSend(m)]
  /\ UNCHANGED <<client, page, got, last, unmaps>>

(* A polling sender goes on: its receiver has locked it.                   *)
ResumeSend(t) ==
  /\ cpu.current = t /\ frame[t].in = "send"
  /\ StartTransfer(t, tcb[t].partner, frame[t].msg)
  /\ UNCHANGED <<client, page, got, last, unmaps>>

Polling(from, t) == tcb[from].state = "POLLING" /\ tcb[from].partner = t

(* sys_ipc with a receive phase only, from a thread or from anyone (Nil).  *)
SysIpcReceive(t, from, desc) ==
  /\ cpu.current = t /\ frame[t] = InUser
  /\ IF \E s \in Threads : Polling(s, t) /\ from \in {s, Nil}
     THEN \E s \in Threads :
            /\ Polling(s, t) /\ from \in {s, Nil}
            /\ SwitchTo([tcb EXCEPT ![t].msg_desc = desc, ![t].state = "LOCKED_WAITING",
                                    ![s].state = "LOCKED_RUNNING"], s)
     ELSE SwitchTo([tcb EXCEPT ![t].msg_desc = desc, ![t].state = "WAITING",
                               ![t].partner = from], Idle)
  /\ frame' = [frame EXCEPT ![t] = InReceive]
  /\ last' = [last EXCEPT ![t] = [desc |-> desc, from |-> Nil]]
  /\ UNCHANGED <<client, page, got, unmaps>>

(* The receiver goes on, and takes what it has got.                        *)
ResumeReceive(t) ==
  /\ cpu.current = t /\ frame[t] = InReceive
  /\ tcb' = [tcb EXCEPT ![t].state = "RUNNING", ![t].msg_desc = [kind |-> "short"]]
  /\ frame' = [frame EXCEPT ![t] = InUser]
  /\ got' = [got EXCEPT ![t] = {}]
  /\ last' = [last EXCEPT ![t] = NoTransfer]
  /\ UNCHANGED <<client, cpu, pgdir, page, unmaps>>

-----------------------------------------------------------------------------
(* extended_transfer *)

(* The senders there are, and the strings of all messages and buffers.     *)
Senders == {e.from : e \in UNION {Scenarios[c].calls : c \in DOMAIN Scenarios}}

Sent == {e.msg.strings : e \in UNION {Scenarios[c].calls : c \in DOMAIN Scenarios}}

Buffers ==
  {e.desc.strings : e \in {e \in UNION {Scenarios[c].waits : c \in DOMAIN Scenarios} :
                             e.desc.kind = "buffer"}}

(* The string loop for all of them.                                        *)
StringLoops == [src \in Sent |-> [dst \in Buffers |-> CopyStrings(src, dst)]]

StringsOf(f) == StringLoops[f.msg.strings][f.rcv_msg.strings]

(* The windows of its own and the areas that the next step of t accesses.  *)
Own(t) ==
  LET f == frame[t] IN
  CASE f.at = "snd_msg" /\ f.msg.long                           -> {f.msg.win}
    [] f.at = "dwords" /\ f.msg.dwords > IPC_DWORD_GAP          -> {f.msg.win}
    [] f.at = "copy" /\ StringsOf(f).pieces[f.k].n > 0          -> {f.msg.strings[StringsOf(f).pieces[f.k].si].win}
    [] f.at = "dope"                                            -> {f.msg.win}
    [] OTHER                                                    -> {}

Foreign(t) ==
  LET f == frame[t] IN
  CASE f.at \in {"map_fpage", "dwords", "dope"}                 -> {f.head}
    [] f.at = "copy" /\ StringsOf(f).pieces[f.k].n > 0          -> {f.area}
    [] OTHER                                                    -> {}

OwnPresent(t) == \A w \in Own(t) : page[Space[t]][w] \in Mapped

(* The step leaves the translations it has used in the TLB.                *)
Accessed(t) == [cpu EXCEPT !.tlb = [a \in Areas |-> IF a \in Foreign(t) THEN Lookup(t, a) ELSE @[a]]]

Running(t, at) ==
  /\ cpu.current = t /\ frame[t].in = "transfer" /\ frame[t].at = at
  /\ OwnPresent(t)
  /\ \A a \in Foreign(t) : Lookup(t, a) # Nil

Goto(t, f) ==
  /\ frame' = [frame EXCEPT ![t] = f]
  /\ cpu' = Accessed(t)
  /\ UNCHANGED <<client, tcb, pgdir, page, last, unmaps>>

(* Go on with f, whose areas are those of c (get_copy_area).               *)
GotoWithArea(t, c, f) ==
  /\ frame' = [frame EXCEPT ![t] = f]
  /\ tcb' = [tcb EXCEPT ![t] = c.tc]
  /\ pgdir' = [pgdir EXCEPT ![Space[t]] = c.dir]
  /\ cpu' = [cpu EXCEPT !.tlb = c.tlb]
  /\ UNCHANGED <<client, page, got, last, unmaps>>

(* The receive buffer is where msg_desc of the receiver points.            *)
WithBuffer(t, at) ==
  LET f == frame[t]
      c == GetCopyArea(t, tcb[f.to].msg_desc.win)
  IN  GotoWithArea(t, c, [f EXCEPT !.at = at, !.rcv_msg = tcb[f.to].msg_desc, !.head = c.area])

(* The map item: the receive flexpage is in the descriptor, or in the      *)
(* receive buffer.  Whether map_fpage succeeds is part of the message.     *)
RcvFpage(t) ==
  LET f    == frame[t]
      desc == tcb[f.to].msg_desc
      maps == f.msg.map # "none" /\ Space[t] # Space[f.to]
  IN  /\ Running(t, "rcv_fpage")
      /\ IF maps /\ desc.kind = "buffer" THEN WithBuffer(t, "map_fpage")
         ELSE /\ Goto(t, [f EXCEPT !.at = "snd_msg",
                                   !.map = maps /\ desc.kind = "fpage" /\ f.msg.map = "fits",
                                   !.cut = maps /\ (desc.kind = "short" \/ f.msg.map = "fails")])
              /\ UNCHANGED got

MapFpage(t) ==
  LET f == frame[t] IN
  /\ Running(t, "map_fpage")
  /\ Goto(t, [f EXCEPT !.at = "snd_msg", !.map = f.msg.map = "fits", !.cut = f.msg.map = "fails"])
  /\ UNCHANGED got

(* The send descriptor: the message may be short after all, or meet a      *)
(* receiver that takes no more.                                            *)
SndMsg(t) ==
  LET f == frame[t] IN
  /\ Running(t, "snd_msg")
  /\ IF ~f.msg.long \/ (f.msg.dwords <= IPC_DWORD_GAP /\ f.msg.strings = <<>>)
     THEN EndTransfer(t, Dope(0, 0, f.map, f.cut), <<>>, f.rcv_msg # Nil)
     ELSE IF IsShort(tcb[f.to].msg_desc) THEN EndTransfer(t, Dope(0, 0, f.map, TRUE), <<>>, FALSE)
     ELSE IF f.rcv_msg = Nil THEN WithBuffer(t, "dwords")
     ELSE Goto(t, [f EXCEPT !.at = "dwords"]) /\ UNCHANGED got

Dwords(f) ==
  IF f.msg.dwords > IPC_DWORD_GAP /\ f.msg.dwords > f.rcv_msg.dwords
  THEN f.rcv_msg.dwords ELSE f.msg.dwords

(* Bytes are <<where, what>>: the window that was hit with the dope and    *)
(* the offset meant (dope 0 for the dwords), the dope and offset sent.     *)
CopyDwords(t) ==
  LET f == frame[t]
      n == Dwords(f)
  IN  /\ Running(t, "dwords")
      /\ got' = [got EXCEPT ![f.to] = @ \cup
                   {<<Lookup(t, f.head) \o <<0, i>>, <<0, i>>>> : i \in IPC_DWORD_GAP .. n - 1}]
      /\ Goto(t, [f EXCEPT !.at = "string", !.cut = @ \/ n < f.msg.dwords])

(* The head of the string loop, up to the address of the destination; or   *)
(* the end of it.                                                          *)
NextString(t) ==
  LET f == frame[t]
      c == StringsOf(f)
      g == GetCopyArea(t, f.rcv_msg.strings[c.pieces[f.k].di].win)
  IN  /\ Running(t, "string")
      /\ IF f.msg.strings = <<>>
         THEN EndTransfer(t, Dope(Dwords(f), 0, f.map, f.cut), <<>>, TRUE)
         ELSE IF f.k > Len(c.pieces)
         THEN EndTransfer(t, Dope(Dwords(f), c.strings, f.map, f.cut \/ c.cut), c.send_size, TRUE)
         ELSE GotoWithArea(t, g, [f EXCEPT !.at = "copy", !.area = g.area])

CopyString(t) ==
  LET f == frame[t]
      p == StringsOf(f).pieces[f.k]
  IN  /\ Running(t, "copy")
      /\ got' = [got EXCEPT ![f.to] = @ \cup
                   {<<Lookup(t, f.area) \o <<p.di, p.doff + i>>, <<p.si, p.soff + i>>>> :
                      i \in 0 .. p.n - 1}]
      /\ Goto(t, [f EXCEPT !.at = "dope"])

(* The receive dope is brought up to date in the buffer.                   *)
StringDope(t) ==
  /\ Running(t, "dope")
  /\ Goto(t, [frame[t] EXCEPT !.at = "string", !.k = @ + 1])
  /\ UNCHANGED got

-----------------------------------------------------------------------------
(* Page faults *)

(* do_pagefault_ipc: the pager, if it waits, runs next.                    *)
AskPager(tc, t) ==
  \E next \in {Pager, Idle} :
     SwitchTo([tc EXCEPT ![t].state = "WAITING", ![t].partner = Pager], next)

(* The sender's own memory is not mapped.                                  *)
PageFault(t) ==
  /\ cpu.current = t /\ frame[t].in = "transfer"
  /\ \E w \in Own(t) :
       /\ page[Space[t]][w] \notin Mapped
       /\ frame' = [frame EXCEPT ![t] = [in |-> "pagefault", win |-> w, partner |-> tcb[t].partner,
                                         state |-> tcb[t].state, below |-> frame[t]]]
  /\ AskPager(tcb, t)
  /\ UNCHANGED <<client, page, got, last, unmaps>>

ReturnFromPageFault(t) ==
  /\ cpu.current = t /\ frame[t].in = "pagefault"
  /\ tcb' = [tcb EXCEPT ![t].partner = frame[t].partner, ![t].state = frame[t].state]
  /\ frame' = [frame EXCEPT ![t] = frame[t].below]
  /\ UNCHANGED <<client, cpu, pgdir, page, got, last, unmaps>>

(* The directory entries of an area, again from the receiver's directory.  *)
Reload(t, a) ==
  /\ pgdir' = [pgdir EXCEPT ![Space[t]][a] = Entry(SpaceOf(tcb[t].partner), tcb[t].copy_area[a])]
  /\ tcb' = [tcb EXCEPT ![t].resources = @ \cup {a}]

CopyAreaFault(t) ==
  /\ cpu.current = t /\ frame[t].in = "transfer" /\ OwnPresent(t)
  /\ \E a \in Foreign(t) :
       /\ Lookup(t, a) = Nil
       /\ IF a \notin tcb[t].resources
          THEN Reload(t, a) /\ UNCHANGED <<cpu, frame>>
          ELSE LET p == tcb[t].partner IN
               /\ frame' = [frame EXCEPT
                     ![p] = [in |-> "copy_pagefault", win |-> tcb[t].copy_area[a], partner |-> t,
                             asked |-> FALSE, below |-> frame[p]],
                     ![t] = [in |-> "tunnel", area |-> a, below |-> frame[t]]]
               /\ SwitchTo([tcb EXCEPT ![p].state = "LOCKED_RUNNING",
                                       ![t].state = "LOCKED_WAITING"], p)
  /\ UNCHANGED <<client, page, got, last, unmaps>>

(* copy_pagefault, on the receiver's stack: asks the receiver's pager.     *)
CopyPageFault(p) ==
  /\ cpu.current = p /\ frame[p].in = "copy_pagefault" /\ ~frame[p].asked
  /\ frame' = [frame EXCEPT ![p].asked = TRUE]
  /\ AskPager(tcb, p)
  /\ UNCHANGED <<client, page, got, last, unmaps>>

(* Mutant: copy_pagefault leaves the receiver as the page fault IPC does.  *)
TunnelLeavesRunning(p) ==
  LET t == frame[p].partner IN
  /\ cpu.current = p /\ frame[p].in = "copy_pagefault" /\ frame[p].asked
  /\ frame' = [frame EXCEPT ![p] = @.below]
  /\ SwitchTo([tcb EXCEPT ![p].partner = t, ![p].state = "RUNNING",
                          ![t].state = "LOCKED_RUNNING"], t)
  /\ UNCHANGED <<client, page, got, last, unmaps>>

ReturnToSender(p) ==
  LET t == frame[p].partner IN
  /\ cpu.current = p /\ frame[p].in = "copy_pagefault" /\ frame[p].asked
  /\ frame' = [frame EXCEPT ![p] = @.below]
  /\ SwitchTo([tcb EXCEPT ![p].partner = t, ![p].state = "LOCKED_WAITING",
                          ![t].state = "LOCKED_RUNNING"], t)
  /\ UNCHANGED <<client, page, got, last, unmaps>>

(* Mutant: the entries are not reloaded after a tunnelled page fault, only *)
(* marked as loaded.                                                       *)
TunnelForgetsReload(t) ==
  /\ cpu.current = t /\ frame[t].in = "tunnel"
  /\ tcb' = [tcb EXCEPT ![t].resources = @ \cup {frame[t].area}]
  /\ frame' = [frame EXCEPT ![t] = @.below]
  /\ UNCHANGED <<client, cpu, pgdir, page, got, last, unmaps>>

ReturnFromTunnel(t) ==
  /\ cpu.current = t /\ frame[t].in = "tunnel"
  /\ Reload(t, frame[t].area)
  /\ frame' = [frame EXCEPT ![t] = @.below]
  /\ UNCHANGED <<client, cpu, page, got, last, unmaps>>

-----------------------------------------------------------------------------
(* The rest of the system: the pager and the scheduler *)

Faulting(t) == frame[t].in = "pagefault" \/ (frame[t].in = "copy_pagefault" /\ frame[t].asked)

(* The pager maps what was asked for, and answers.                         *)
PagerReply(t) ==
  /\ cpu.current = Pager /\ Faulting(t) /\ tcb[t].state = "WAITING"
  /\ page' = [page EXCEPT ![Space[t]][frame[t].win] = IF frame[t].win \in Super THEN "super" ELSE "page"]
  /\ SwitchTo([tcb EXCEPT ![t].msg_desc = MapReply], t)
  /\ UNCHANGED <<client, frame, got, last, unmaps>>

(* The pager takes a page back; a page table stays.                        *)
PagerUnmap(s, w) ==
  /\ cpu.current = Pager /\ unmaps < Scenarios[client].unmaps /\ page[s][w] \in Mapped
  /\ page' = [page EXCEPT ![s][w] = IF @ = "super" THEN "none" ELSE "table"]
  /\ unmaps' = unmaps + 1
  /\ UNCHANGED <<client, cpu, tcb, frame, pgdir, got, last>>

(* Threads run if they take part in the scenario; the pager runs if it has *)
(* something to do.                                                        *)
Takes(t) == \E e \in Scenarios[client].calls \cup Scenarios[client].waits : t \in {e.from, e.to}

Ready(t) == Takes(t) /\ tcb[t].state \in {"RUNNING", "LOCKED_RUNNING"}

PagerReady == unmaps < Scenarios[client].unmaps \/ \E t \in Threads : Faulting(t)

(* A user thread, the pager or the idle thread loses the processor.        *)
Dispatch(t) ==
  /\ cpu.current # t /\ (t \in Threads => Ready(t))
  /\ (t = Pager => PagerReady) /\ (t = Idle => cpu.current = Pager)
  /\ cpu.current \in Threads => frame[cpu.current] = InUser
  /\ SwitchTo(tcb, t)
  /\ UNCHANGED <<client, frame, page, got, last, unmaps>>

-----------------------------------------------------------------------------
Init ==
  /\ client \in DOMAIN Scenarios
  /\ cpu = [current |-> Idle, pagedir |-> PagerSpace, tlb |-> NoArea]
  /\ tcb = [t \in Threads |-> [state |-> "RUNNING", partner |-> Nil, msg_desc |-> [kind |-> "short"],
                               copy_area |-> NoArea, resources |-> {}]]
  /\ frame = [t \in Threads |-> InUser]
  /\ pgdir = [s \in Spaces |-> NoArea]
  /\ page = [s \in Spaces |-> [w \in Windows |->
               IF ~Scenarios[client].mapped THEN "none" ELSE IF w \in Super THEN "super" ELSE "page"]]
  /\ got = [t \in Threads |-> {}]
  /\ last = [t \in Threads |-> NoTransfer]
  /\ unmaps = 0

Transfer(t) ==
  \/ RcvFpage(t) \/ MapFpage(t) \/ SndMsg(t) \/ CopyDwords(t)
  \/ NextString(t) \/ CopyString(t) \/ StringDope(t)
  \/ PageFault(t) \/ ReturnFromPageFault(t)
  \/ CopyAreaFault(t) \/ ReturnFromTunnel(t)

(* What a thread does in the kernel, where it runs until it gives the      *)
(* processor away.                                                         *)
Kernel(t) ==
  \/ ResumeSend(t) \/ ResumeReceive(t)
  \/ Transfer(t)
  \/ CopyPageFault(t) \/ ReturnToSender(t)

Next ==
  \/ \E c \in Scenarios[client].calls : SysIpcSend(c.from, c.to, c.msg)
  \/ \E c \in Scenarios[client].waits : SysIpcReceive(c.to, c.from, c.desc)
  \/ \E t \in Threads \cap {cpu.current} : Kernel(t)
  \/ \E t \in Threads : PagerReply(t)
  \/ \E s \in Spaces, w \in Windows : PagerUnmap(s, w)
  \/ \E t \in Threads \cup {Pager, Idle} : Dispatch(t)

(* The kernel runs on, the pager gets its turn when it has something to do *)
(* (the ready rings are served in turn, see ReadyQueue.tla), and it        *)
(* answers.                                                                *)
Fairness ==
  /\ WF_vars(\E t \in Threads \cap {cpu.current} : Kernel(t))
  /\ SF_vars(Dispatch(Pager))
  /\ SF_vars(\E t \in Threads : PagerReply(t))

Spec == Init /\ [][Next]_vars /\ Fairness

-----------------------------------------------------------------------------
(* Properties *)

(***************************************************************************)
(* The fields that sys_ipc, get_copy_area and the page fault handler keep  *)
(* in a tcb fit together: only area 1 or both are in use, a resource bit   *)
(* is held by the running thread alone, and a thread that is not in IPC    *)
(* is RUNNING.                                                             *)
(***************************************************************************)
TypeOK ==
  /\ cpu.current \in Threads \cup {Pager, Idle} /\ cpu.pagedir \in Spaces \cup {PagerSpace}
  /\ \A t \in Threads :
       /\ tcb[t].state \in {"RUNNING", "POLLING", "WAITING", "LOCKED_RUNNING", "LOCKED_WAITING"}
       /\ tcb[t].partner \in Threads \cup {Pager, Nil}
       /\ \A a \in Areas : tcb[t].copy_area[a] \in Windows \cup {Nil}
       /\ tcb[t].copy_area[1] = Nil => tcb[t].copy_area[2] = Nil
       /\ tcb[t].resources # {} => cpu.current = t
       /\ frame[t] = InUser => tcb[t].state = "RUNNING"
  /\ \A s \in Spaces, w \in Windows : page[s][w] \in Mapped \cup {"none", "table"}

(* The transfer that is at the bottom of the kernel stack of t, if any.    *)
TransferOf(t) ==
  LET f == frame[t] IN
  IF f.in = "transfer" THEN f
  ELSE IF f.in \in {"pagefault", "tunnel"} THEN f.below
  ELSE Nil

(* What the strings of a message are to do to those of a buffer.           *)
StringPromises ==
  [src \in Sent |-> [dst \in Buffers |->
     [arrived |-> Arrived(src, dst), told |-> ReportedDopes(src, dst),
      cut |-> src # <<>> /\ WasCut(src, dst),
      sizes |-> [i \in 1 .. Len(dst) |-> ArrivedIn(src, dst, i)]]]]

(***************************************************************************)
(* What reaches the receiver is the message: when extended_transfer ends,  *)
(* exactly the bytes that fit have been written, each to the place in the  *)
(* receiver's space that its receive dopes name, and the dope tells what   *)
(* has arrived and whether something was cut, whichever page faults, area  *)
(* changes and other transfers there were on the way.                      *)
(***************************************************************************)
DeliveredAsSent ==
  \A d \in Threads : last[d].from # Nil =>
    LET m     == last[d].msg
        b     == last[d].desc
        maps  == m.map # "none" /\ Space[last[d].from] # Space[d]
        map   == maps /\ m.map = "fits" /\ b.kind # "short"
        mcut  == maps /\ ~map
        empty == ~m.long \/ (m.dwords <= IPC_DWORD_GAP /\ m.strings = <<>>)
        n     == IF m.dwords > IPC_DWORD_GAP /\ b.dwords < m.dwords THEN b.dwords ELSE m.dwords
        s     == StringPromises[m.strings][b.strings]
        sent  == {<<<<Space[d], b.win, 0, i>>, <<0, i>>>> : i \in IPC_DWORD_GAP .. n - 1}
                   \cup {<<<<Space[d], b.strings[x[1][1]].win>> \o x[1], x[2]>> : x \in s.arrived}
    IN  IF empty THEN got[d] = {} /\ last[d].dope = Dope(0, 0, map, mcut)
        ELSE IF b.kind = "short" THEN got[d] = {} /\ last[d].dope = Dope(0, 0, map, TRUE)
        ELSE /\ got[d] = sent
             /\ last[d].dope = Dope(n, Cardinality(s.told), map, mcut \/ n < m.dwords \/ s.cut)
             /\ \A i \in s.told : i <= Len(last[d].send_size)
                                  /\ last[d].send_size[i] = s.sizes[i]

(***************************************************************************)
(* A copy area never leads anywhere but to the window of the receiver that *)
(* its copy_area field names, and only while the receiver has that window  *)
(* mapped: no directory entry and no TLB entry outlives a thread switch in *)
(* save_resources, another use of the area, or an unmap.                   *)
(***************************************************************************)
CopyAreaCoherent ==
  LET t == cpu.current IN
  t \in Threads =>
    \A a \in Areas :
      Lookup(t, a) # Nil =>
        /\ tcb[t].copy_area[a] # Nil
        /\ Lookup(t, a) = <<SpaceOf(tcb[t].partner), tcb[t].copy_area[a]>>
        /\ page[SpaceOf(tcb[t].partner)][tcb[t].copy_area[a]] \in Mapped

(***************************************************************************)
(* While a thread copies a message the receiver stays in that receive, and *)
(* nobody else copies to it (design.tex: a LOCKED_WAITING thread is        *)
(* blocked because "the sender is copying data to it").                    *)
(***************************************************************************)
ExclusiveTransfer ==
  \A t \in Threads : TransferOf(t) # Nil =>
    LET d == TransferOf(t).to IN
    /\ frame[d].in \in {"receive", "copy_pagefault"}
    /\ frame[d].in = "copy_pagefault" => frame[d].partner = t /\ frame[t].in = "tunnel"
    /\ last[d].from = Nil
    /\ \A u \in Threads \ {t} : TransferOf(u) # Nil => TransferOf(u).to # d

(***************************************************************************)
(* Every transfer ends, however often pages are missing on either side (as *)
(* long as they are not taken back for ever).                              *)
(***************************************************************************)
TransferEnds == \A t \in Senders : TransferOf(t) # Nil ~> TransferOf(t) = Nil
=============================================================================
