---------------------------- MODULE UpAssertProofs ----------------------------
(***************************************************************************)
(* Proofs about the MIPS32 assertion handler model UpAssert, for every set *)
(* of tasks.  That LED_PANIC keeps blinking is a liveness property under   *)
(* the fairness of the panic loop and stays with TLC.                      *)
(***************************************************************************)
EXTENDS UpAssert, TLAPS

\* Every step keeps the scheduler state, the living tasks, the interrupt
\* state and the LEDs within their types.
LEMMA TypeStep == TypeOK /\ [Next]_vars => TypeOK'
<1> SUFFICES ASSUME TypeOK, [Next]_vars PROVE TypeOK'
    OBVIOUS
<1>1. ASSUME NEW t \in Tasks \cup {Idle}, Schedule(t) PROVE TypeOK'
    BY <1>1 DEF Schedule, TypeOK
<1>2. CASE IrqEnter \/ IrqReturn
    BY <1>2 DEF IrqEnter, IrqReturn, TypeOK
<1>3. CASE UpAssert
    <2>1. CASE MustHalt
        BY <1>3, <2>1, Zenon DEF UpAssert, Halt, TypeOK
    <2>2. CASE ~MustHalt
        BY <1>3, <2>2, Zenon DEF UpAssert, ExitTask, TypeOK
    <2>3. QED
        BY <2>1, <2>2
<1>4. CASE PanicLedOn \/ PanicLedOff
    BY <1>4 DEF PanicLedOn, PanicLedOff, TypeOK
<1>5. CASE UNCHANGED vars
    BY <1>5 DEF vars, TypeOK
<1>6. QED
    BY <1>1, <1>2, <1>3, <1>4, <1>5 DEF Next

(* The model's state keeps its types in every reachable state.            *)
THEOREM TypeCorrect == Spec => []TypeOK
<1>1. Init => TypeOK
    BY DEF Init, TypeOK
<1>2. QED
    BY <1>1, TypeStep, PTL DEF Spec

=============================================================================
