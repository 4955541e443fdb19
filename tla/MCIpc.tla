------------------------------- MODULE MCIpc -------------------------------
(***************************************************************************)
(* Instances of Ipc.tla for TLC.  Three threads are the fewest in which a  *)
(* receiver can be locked to one sender while another thread runs; the     *)
(* interrupt and timeout runs make do with two.                            *)
(***************************************************************************)
EXTENDS IpcScheduler, TLC

CONSTANTS t1, t2, t3, i1, i2, taskA, taskB

ThreeThreads == {t1, t2, t3}
TwoThreads   == {t1, t2}
TwoIrqs      == {i1, i2}
OneIrq       == {i1}
None         == {}
TwoPrios     == {0, 1}
TwoTasks     == {taskA, taskB}

OneTaskOf  == [t \in ThreeThreads |-> taskA]
TwoTasksOf == [t \in ThreeThreads |-> IF t = t3 THEN taskB ELSE taskA]

AllAlike == Permutations(ThreeThreads)
TwoAlike == Permutations(TwoThreads)

\* The kinds of calls.
Send(sto)        == [snd |-> TRUE, rcv |-> "none", sto |-> sto, rto |-> "never"]
ReceiveFrom(rto) == [snd |-> FALSE, rcv |-> "from", sto |-> "never", rto |-> rto]
Wait(rto)        == [snd |-> FALSE, rcv |-> "open", sto |-> "never", rto |-> rto]
Call(sto, rto)   == [snd |-> TRUE, rcv |-> "from", sto |-> sto, rto |-> rto]
ReplyWait(sto, rto) == [snd |-> TRUE, rcv |-> "open", sto |-> sto, rto |-> rto]

\* Timeouts on receives, none (or zero) on sends; no zero receive timeout
\* after a send.
CoreCalls == {Send("zero"), Send("never"), ReceiveFrom("finite"), Wait("zero"),
              Wait("never"), Call("never", "finite"), ReplyWait("zero", "finite"),
              ReplyWait("never", "never")}

InterruptCalls == {ReceiveFrom("zero"), ReceiveFrom("finite"), ReplyWait("zero", "never")}

\* Without ReplyWait no receiver is left locked while a third thread runs.
TeardownCalls == {Send("never"), ReceiveFrom("finite"), Wait("never")}

DeletionCalls == {Send("never"), Wait("finite")}

TimeoutCalls == {Send("finite"), ReceiveFrom("finite"), Wait("never"),
                 Call("finite", "finite"), Call("zero", "never")}

\* What the runs that refute a statement of the documentation add.
ZeroReplyCalls == {Send("never"), Wait("never"), Call("never", "zero")}
SendTimeoutCalls == {Send("finite"), Send("never"), Wait("never")}
ReplyWaitCalls == {Send("never"), Wait("never"), ReplyWait("never", "never")}
=============================================================================
