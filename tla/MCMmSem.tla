------------------------------- MODULE MCMmSem -------------------------------
(* Small instances of the heap ownership primitive for TLC.                *)
EXTENDS MmSem, TLC

CONSTANTS p1, p2, p3

MCProcs == {p1, p2, p3}

\* Tasks are interchangeable.
MCSymmetry == Permutations(MCProcs)

=============================================================================
