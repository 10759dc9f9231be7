-------------------------------- MODULE MmSem --------------------------------
(***************************************************************************)
(* The heap's reentrant ownership primitive of mm/mm_heap/mm_sem.c.  In    *)
(* this version the semaphore is initialized but never waited on:          *)
(* mm_takesemaphore and mm_trysemaphore claim the heap by disabling        *)
(* interrupts (irqsave) and recording the holder, and mm_givesemaphore     *)
(* restores the saved interrupt state when the last reference goes.        *)
(*                                                                         *)
(* The interrupt state belongs to the running task's context: a context    *)
(* switch saves it and loads the next task's.  On a uniprocessor a task is *)
(* preempted only while its interrupts are enabled; it may also block of   *)
(* its own accord (sem_wait, sleep) in code outside the heap, interrupts   *)
(* disabled or not.  A caller may have disabled interrupts itself before   *)
(* it calls into the heap.  Callers nest takes and gives; depth[p] is how  *)
(* many takes task p has not yet given back.                               *)
(***************************************************************************)
EXTENDS Naturals

CONSTANTS
    Procs,      \* tasks that use the heap, the idle task among them
    NoHolder,   \* mm_holder == -1
    MaxDepth    \* model bound on the nesting of takes by one caller

ASSUME MmAssumption ==
    /\ NoHolder \notin Procs
    /\ MaxDepth \in Nat \ {0}

VARIABLES
    holder,     \* heap->mm_holder
    counts,     \* heap->mm_counts_held
    saved,      \* heap->mm_flags: the interrupt state irqsave returned
    irq,        \* irq[p]: interrupts disabled in task p's context
    own,        \* own[p]: p disabled interrupts itself, outside the heap
    running,    \* the task the CPU runs
    depth       \* depth[p]: takes of p not yet given back

vars == <<holder, counts, saved, irq, own, running, depth>>

TypeOK ==
    /\ holder \in Procs \cup {NoHolder}
    /\ counts \in Nat
    /\ saved \in BOOLEAN
    /\ irq \in [Procs -> BOOLEAN]
    /\ own \in [Procs -> BOOLEAN]
    /\ running \in Procs
    /\ depth \in [Procs -> 0..MaxDepth]


\* mm_seminitialize (mm_sem.c:114-124); every task has interrupts enabled.
Init ==
    /\ holder = NoHolder
    /\ counts = 0
    /\ saved = FALSE
    /\ irq = [t \in Procs |-> FALSE]
    /\ own = [t \in Procs |-> FALSE]
    /\ running \in Procs
    /\ depth = [t \in Procs |-> 0]

\* The running task is preempted by p: only with its interrupts enabled.
Preempt(p) ==
    /\ ~irq[running]
    /\ running' = p
    /\ UNCHANGED <<holder, counts, saved, irq, own, depth>>

\* The running task blocks outside the heap and p runs.
Block(p) ==
    /\ depth[running] = 0
    /\ running' = p
    /\ UNCHANGED <<holder, counts, saved, irq, own, depth>>

\* The running task disables or re-enables interrupts itself, outside the
\* heap (irqsave / irqrestore around its own critical section).
OwnIrq ==
    LET me == running IN
    /\ depth[me] = 0
    /\ own' = [own EXCEPT ![me] = ~@]
    /\ irq' = [irq EXCEPT ![me] = ~own[me]]
    /\ UNCHANGED <<holder, counts, saved, running, depth>>

\* Mutant: a nested take resets the reference count instead of adding one.
TakeResetCount ==
    LET me == running IN
    /\ depth[me] < MaxDepth
    /\ \/ /\ holder = me
          /\ counts' = 1
          /\ UNCHANGED <<holder, saved, irq>>
       \/ /\ holder # me
          /\ saved' = irq[me]
          /\ irq' = [irq EXCEPT ![me] = TRUE]
          /\ holder' = me
          /\ counts' = 1
    /\ depth' = [depth EXCEPT ![me] = @ + 1]
    /\ UNCHANGED <<own, running>>

\* mm_takesemaphore (mm_sem.c:172-198) and mm_trysemaphore (137-161), which
\* do the same: the holder takes one more reference; anyone else disables
\* interrupts, saving the old state, and claims the heap.
Take ==
    LET me == running IN
    /\ depth[me] < MaxDepth
    /\ \/ /\ holder = me
          /\ counts' = counts + 1
          /\ UNCHANGED <<holder, saved, irq>>
       \/ /\ holder # me
          /\ saved' = irq[me]
          /\ irq' = [irq EXCEPT ![me] = TRUE]
          /\ holder' = me
          /\ counts' = 1
    /\ depth' = [depth EXCEPT ![me] = @ + 1]
    /\ UNCHANGED <<own, running>>

\* Mutant: the holder check is left to DEBUGASSERT, compiled out, so a
\* caller that holds nothing may give.
GiveUnchecked ==
    LET me == running IN
    /\ \/ /\ counts > 1
          /\ counts' = counts - 1
          /\ UNCHANGED <<holder, saved, irq>>
       \/ /\ counts <= 1
          /\ holder' = NoHolder
          /\ counts' = 0
          /\ irq' = [irq EXCEPT ![me] = saved]
          /\ UNCHANGED saved
    /\ depth' = [depth EXCEPT ![me] = @ - 1]
    /\ UNCHANGED <<own, running>>

\* Mutant: the last give does not restore mm_flags.
GiveNoRestore ==
    LET me == running IN
    /\ depth[me] > 0
    /\ \/ /\ counts > 1
          /\ counts' = counts - 1
          /\ UNCHANGED <<holder, saved, irq>>
       \/ /\ counts <= 1
          /\ holder' = NoHolder
          /\ counts' = 0
          /\ UNCHANGED <<saved, irq>>
    /\ depth' = [depth EXCEPT ![me] = @ - 1]
    /\ UNCHANGED <<own, running>>

\* mm_givesemaphore (mm_sem.c:208-239) by a caller that took the heap: drop
\* one reference, or the last one, restoring the saved interrupt state.
Give ==
    LET me == running IN
    /\ depth[me] > 0
    /\ \/ /\ counts > 1
          /\ counts' = counts - 1
          /\ UNCHANGED <<holder, saved, irq>>
       \/ /\ counts <= 1
          /\ holder' = NoHolder
          /\ counts' = 0
          /\ irq' = [irq EXCEPT ![me] = saved]
          /\ UNCHANGED saved
    /\ depth' = [depth EXCEPT ![me] = @ - 1]
    /\ UNCHANGED <<own, running>>

Next ==
    \/ \E n \in Procs : Preempt(n) \/ Block(n)
    \/ OwnIrq
    \/ Take
    \/ Give

Spec == Init /\ [][Next]_vars

(* Properties.                                                             *)

(* Exclusion (spec 4.1): at most one task is inside heap operations, and   *)
(* it is the recorded holder with exactly as many references as takes it   *)
(* has not given back, so its last give is the one that releases.  With    *)
(* no wait in mm_takesemaphore, this rests on the holder never being       *)
(* switched out while it holds.                                            *)
Exclusive ==
    \A p \in Procs :
        /\ depth[p] > 0 <=> holder = p
        /\ holder = p => counts = depth[p]

(* The heap gives back the interrupt state it found: a task outside the    *)
(* heap has interrupts disabled exactly when it disabled them itself,      *)
(* whatever heap calls it made inside or outside its own critical section. *)
ReleaseRestoresIrq ==
    \A q \in Procs : depth[q] = 0 => irq[q] = own[q]

=============================================================================
