----------------------------- MODULE MmSemProofs -----------------------------
(***************************************************************************)
(* Proofs about the heap ownership primitive of MmSem, for every set of    *)
(* tasks and every nesting bound.                                          *)
(***************************************************************************)
EXTENDS MmSem, TLAPS

(* The inductive invariant.  Exclusive and ReleaseRestoresIrq alone are    *)
(* not preserved: a take by a task that is not the holder overwrites the   *)
(* holder and mm_flags, and is harmless only because, while the heap is    *)
(* held, the holder is the task that runs (its interrupts are disabled and *)
(* it does not block inside the heap) and mm_flags holds the state its own *)
(* code had.                                                               *)
HolderRuns ==
    holder # NoHolder =>
        /\ running = holder
        /\ irq[holder]
        /\ saved = own[holder]

IInv ==
    /\ TypeOK
    /\ Exclusive
    /\ ReleaseRestoresIrq
    /\ HolderRuns

LEMMA InitIInv == Init => IInv
<1> SUFFICES ASSUME Init PROVE IInv
    OBVIOUS
<1>0. /\ holder = NoHolder /\ counts = 0 /\ depth = [t \in Procs |-> 0]
      /\ running \in Procs
    BY DEF Init
<1>1. TypeOK
    <2>1. saved \in BOOLEAN /\ irq \in [Procs -> BOOLEAN] /\ own \in [Procs -> BOOLEAN]
        BY Zenon DEF Init
    <2>2. QED
        BY <1>0, <2>1, MmAssumption DEF TypeOK
<1>2. Exclusive
    BY <1>0, MmAssumption DEF Exclusive
<1>3. ReleaseRestoresIrq
    BY Zenon DEF Init, ReleaseRestoresIrq
<1>4. HolderRuns
    BY <1>0 DEF HolderRuns
<1>5. QED
    BY <1>1, <1>2, <1>3, <1>4 DEF IInv

LEMMA NextIInv == IInv /\ [Next]_vars => IInv'
<1> SUFFICES ASSUME IInv, [Next]_vars PROVE IInv'
    OBVIOUS
<1> USE MmAssumption DEF IInv, TypeOK, Exclusive, ReleaseRestoresIrq, HolderRuns
<1>1. ASSUME NEW n \in Procs, Preempt(n) PROVE IInv'
    \* a preempted task has interrupts enabled, so it does not hold the heap
    <2>1. holder = NoHolder
        BY <1>1 DEF Preempt
    <2>2. QED
        BY <1>1, <2>1 DEF Preempt
<1>2. ASSUME NEW n \in Procs, Block(n) PROVE IInv'
    <2>1. holder = NoHolder
        BY <1>2 DEF Block
    <2>2. QED
        BY <1>2, <2>1 DEF Block
<1>3. CASE OwnIrq
    <2>1. holder = NoHolder
        BY <1>3 DEF OwnIrq
    <2>2. QED
        BY <1>3, <2>1 DEF OwnIrq
<1>4. CASE Take
    <2> DEFINE me == running
    <2>1. CASE holder = me
        BY <1>4, <2>1 DEF Take
    <2>2. CASE holder # me
        \* the heap is free and me holds no reference
        <3>1. holder = NoHolder /\ depth[me] = 0
            BY <2>2
        <3>2. /\ saved' = irq[me] /\ irq' = [irq EXCEPT ![me] = TRUE]
              /\ holder' = me /\ counts' = 1
              /\ depth' = [depth EXCEPT ![me] = @ + 1]
              /\ own' = own /\ running' = running
              /\ depth[me] < MaxDepth
            BY <1>4, <2>2 DEF Take
        <3>3. TypeOK'
            BY <3>2
        <3>4. Exclusive'
            BY <3>1, <3>2
        <3>5. ReleaseRestoresIrq'
            <4>1. SUFFICES ASSUME NEW r \in Procs, depth'[r] = 0
                           PROVE  irq'[r] = own'[r]
                BY DEF ReleaseRestoresIrq
            <4>2. r # me
                BY <3>2, <4>1
            <4>3. depth[r] = 0
                BY <3>2, <4>1, <4>2
            <4>4. QED
                BY <3>2, <4>2, <4>3
        <3>6. HolderRuns'
            \* the task had no reference, so its interrupt state was its own
            <4>1. irq[me] = own[me]
                BY <3>1
            <4>2. QED
                BY <3>2, <4>1, Zenon
        <3>7. QED
            BY <3>3, <3>4, <3>5, <3>6
    <2>3. QED
        BY <2>1, <2>2
<1>5. CASE Give
    <2> DEFINE me == running
    <2>1. holder = me /\ counts = depth[me]
        BY <1>5 DEF Give
    <2>2. CASE counts > 1
        BY <1>5, <2>1, <2>2 DEF Give
    <2>3. CASE counts <= 1
        <3>1. depth[me] = 1
            BY <1>5, <2>1, <2>3 DEF Give
        <3>2. QED
            BY <1>5, <2>1, <2>3, <3>1 DEF Give
    <2>4. QED
        BY <2>2, <2>3
<1>6. CASE UNCHANGED vars
    BY <1>6 DEF vars
<1>7. QED
    BY <1>1, <1>2, <1>3, <1>4, <1>5, <1>6 DEF Next

(* Exclusion: at every point of every run, whatever the tasks and the      *)
(* nesting bound, only the recorded holder is inside heap operations and   *)
(* mm_counts_held equals its outstanding takes (mm_sem.c:137-239).         *)
THEOREM ExclusiveHolds == Spec => []Exclusive
<1>1. IInv => Exclusive
    BY DEF IInv
<1>2. QED
    BY InitIInv, NextIInv, <1>1, PTL DEF Spec

(* The heap calls give every task back the interrupt state its own code    *)
(* set (mm_flags saved by the first take, restored by the last give).      *)
THEOREM IrqRestored == Spec => []ReleaseRestoresIrq
<1>1. IInv => ReleaseRestoresIrq
    BY DEF IInv
<1>2. QED
    BY InitIInv, NextIInv, <1>1, PTL DEF Spec

(* Type correctness of the model of mm_sem.c.                              *)
THEOREM TypeCorrect == Spec => []TypeOK
<1>1. IInv => TypeOK
    BY DEF IInv
<1>2. QED
    BY InitIInv, NextIInv, <1>1, PTL DEF Spec

=============================================================================
