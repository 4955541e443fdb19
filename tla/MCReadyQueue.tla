---------------------------- MODULE MCReadyQueue ----------------------------
\* Instances of ReadyQueue.tla: three threads make rings in which the
\* neighbours of a thread differ, two priorities make the search go down.
EXTENDS ReadyQueue

CONSTANTS t1, t2, t3

ThreeThreads == {t1, t2, t3}
Nobody       == {}
TwoPrios     == {0, 1}

=============================================================================
