---------------------------- MODULE MCScheduler ----------------------------
(* Three threads over three priorities; one of them exists at boot.        *)
EXTENDS Scheduler
CONSTANTS t1, t2, t3
MCThreads == {t1, t2, t3}
MCBoot == {t1}
=============================================================================
