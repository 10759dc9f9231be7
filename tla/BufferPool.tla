------------------------------ MODULE BufferPool ------------------------------
(***************************************************************************)
(* What the buffer pool promises its callers (spec 3, 4.2, 8): every       *)
(* buffer is either free or owned by exactly one caller; allocate hands a  *)
(* free buffer to one caller, free gives one owned buffer back.  Counts,   *)
(* throttling, blocking and the order of the free list are implementation  *)
(* detail: a caller that waits and retries takes no step here.             *)
(***************************************************************************)
CONSTANTS
    Buffers,    \* the buffers of the pool
    Owners      \* everyone that can hold buffers

VARIABLES
    free,       \* the free buffers
    owned       \* owned[o]: the buffers o has allocated and not freed

poolVars == <<free, owned>>

PoolTypeOK ==
    /\ free \subseteq Buffers
    /\ owned \in [Owners -> SUBSET Buffers]

Init ==
    /\ free = Buffers
    /\ owned = [o \in Owners |-> {}]

\* Allocation by o of some free buffer.
Alloc(o) ==
    \E b \in free :
        /\ free' = free \ {b}
        /\ owned' = [owned EXCEPT ![o] = @ \cup {b}]

\* o frees a buffer it owns.
Release(o, b) ==
    /\ b \in owned[o]
    /\ free' = free \cup {b}
    /\ owned' = [owned EXCEPT ![o] = @ \ {b}]

Next ==
    \E o \in Owners :
        \/ Alloc(o)
        \/ \E b \in Buffers : Release(o, b)

Spec == Init /\ [][Next]_poolVars

(* Exclusive ownership (spec 8, pool capacity invariant): a buffer is in   *)
(* exactly one place, the free set or one owner's hands.                   *)
OwnedOnce ==
    \A b \in Buffers :
        /\ b \in free <=> \A o \in Owners : b \notin owned[o]
        /\ \A o1, o2 \in Owners : b \in owned[o1] /\ b \in owned[o2] => o1 = o2

=============================================================================
