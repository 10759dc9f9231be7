------------------------------ MODULE MCIobPool ------------------------------
(* Small instances of the I/O buffer pool for TLC.                         *)
EXTENDS IobPool, TLC

CONSTANTS b1, b2, b3, t1, t2

MCBuffers == {b1, b2, b3}
MCTasks == {t1, t2}

\* Floor on the semaphore counts (see IobPool): deep enough for every
\* count the asserts of iob_tryalloc talk about.
MCMinCount == -4

\* Buffers and tasks are interchangeable: only equality is used on them.
MCSymmetry == Permutations(MCBuffers) \cup Permutations(MCTasks)

=============================================================================
