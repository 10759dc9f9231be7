------------------------------- MODULE UpAssert -------------------------------
(***************************************************************************)
(* The assertion handler of the MIPS32 port, arch/mips/src/mips32/         *)
(* up_assert.c.  up_assert lights LED_ASSERTION, dumps the state and calls *)
(* _up_assert, which decides by context: an assertion in an interrupt      *)
(* handler (current_regs set) or in the idle task (pid 0) disables         *)
(* interrupts and blinks LED_PANIC forever; any other task exits.          *)
(*                                                                         *)
(* Around it the model keeps only what that decision reads and changes:    *)
(* the running task (the head of g_readytorun), the tasks still alive,     *)
(* whether an interrupt handler is running, whether interrupts are         *)
(* enabled, and the two LEDs.  Messages and the state dump are left out.   *)
(***************************************************************************)
CONSTANTS
    Tasks,      \* the tasks other than the idle task
    Idle        \* the idle task, pid 0

ASSUME AssertAssumption == Idle \notin Tasks

VARIABLES
    running,    \* g_readytorun.head
    alive,      \* the tasks that have not exited
    inIsr,      \* current_regs # NULL: an interrupt handler is running
    irqOn,      \* interrupts are enabled
    pc,         \* "run", or "panic" once in the loop of _up_assert
    ledAssert,  \* LED_ASSERTION is lit
    ledPanic    \* LED_PANIC is lit

vars == <<running, alive, inIsr, irqOn, pc, ledAssert, ledPanic>>

TypeOK ==
    /\ running \in Tasks \cup {Idle}
    /\ alive \subseteq Tasks
    /\ inIsr \in BOOLEAN /\ irqOn \in BOOLEAN
    /\ pc \in {"run", "panic"}
    /\ ledAssert \in BOOLEAN /\ ledPanic \in BOOLEAN

(* Helpers.                                                                *)

\* The test of _up_assert (up_assert.c:103-105): an interrupt handler is
\* running, or the running task is the idle task.
MustHalt == inIsr \/ running = Idle

(* Actions.                                                                *)

Init ==
    /\ running = Idle
    /\ alive = Tasks
    /\ inIsr = FALSE
    /\ irqOn = TRUE
    /\ pc = "run"
    /\ ledAssert = FALSE
    /\ ledPanic = FALSE

\* The scheduler switches to a ready task (the idle task is always ready).
Schedule(t) ==
    /\ pc = "run" /\ ~inIsr
    /\ t \in alive \cup {Idle}
    /\ running' = t
    /\ UNCHANGED <<alive, inIsr, irqOn, pc, ledAssert, ledPanic>>

\* An interrupt is taken; current_regs is set while its handler runs.
IrqEnter ==
    /\ pc = "run" /\ irqOn /\ ~inIsr
    /\ inIsr' = TRUE
    /\ UNCHANGED <<running, alive, irqOn, pc, ledAssert, ledPanic>>

\* The handler returns; current_regs is cleared.
IrqReturn ==
    /\ pc = "run" /\ inIsr
    /\ inIsr' = FALSE
    /\ UNCHANGED <<running, alive, irqOn, pc, ledAssert, ledPanic>>

\* The halting branch of _up_assert (up_assert.c:105-107): irqsave, then
\* the loop.
Halt ==
    /\ irqOn' = FALSE
    /\ pc' = "panic"
    /\ UNCHANGED <<running, alive, inIsr, ledPanic>>

\* The other branch (118-122): exit(errorcode) ends the running task and
\* the scheduler runs another ready one.
ExitTask ==
    /\ alive' = alive \ {running}
    /\ running' \in alive' \cup {Idle}
    /\ UNCHANGED <<inIsr, irqOn, pc, ledPanic>>

\* up_assert (up_assert.c:144-169) called by the running context: light
\* LED_ASSERTION, dump the state, then _up_assert decides.
UpAssert ==
    /\ pc = "run"
    /\ ledAssert' = TRUE
    /\ IF MustHalt THEN Halt ELSE ExitTask

\* One turn of the loop of _up_assert (up_assert.c:108-116): board_led_on,
\* a delay, board_led_off, a delay.
PanicLedOn ==
    /\ pc = "panic" /\ ~ledPanic
    /\ ledPanic' = TRUE
    /\ UNCHANGED <<running, alive, inIsr, irqOn, pc, ledAssert>>

\* Mutant: the loop never calls board_led_off.
PanicLedOffSkipped ==
    /\ pc = "panic" /\ ledPanic
    /\ UNCHANGED vars

PanicLedOff ==
    /\ pc = "panic" /\ ledPanic
    /\ ledPanic' = FALSE
    /\ UNCHANGED <<running, alive, inIsr, irqOn, pc, ledAssert>>

Next ==
    \/ \E t \in Tasks \cup {Idle} : Schedule(t)
    \/ IrqEnter \/ IrqReturn
    \/ UpAssert
    \/ PanicLedOn \/ PanicLedOff

\* The loop of _up_assert runs with interrupts disabled on a uniprocessor:
\* nothing can preempt it, so each of its steps, always enabled in its
\* turn, is eventually taken.  Nothing is assumed of tasks or interrupts.
Fairness == WF_vars(PanicLedOn) /\ WF_vars(PanicLedOff)

Spec == Init /\ [][Next]_vars /\ Fairness

(* Properties.                                                             *)

(* A fatal assertion is visible: once the system has halted in            *)
(* _up_assert, LED_PANIC goes on and off again and again, forever.         *)
PanicBlinks ==
    \A lit \in BOOLEAN : (pc = "panic") ~> (ledPanic = lit)

=============================================================================
