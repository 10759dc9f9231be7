------------------------------ MODULE MCGpioIrq ------------------------------
(* Small instances of the Tiva GPIO interrupt dispatch for TLC: two ports  *)
(* of two pins, and IRQ numbers from one below the first GPIO interrupt to *)
(* the last.                                                               *)
EXTENDS GpioIrq, TLC

CONSTANTS h1

MCIsrs == {h1}

MCIrqs == (NR_IRQS - 1)..(NR_IRQS + NR_GPIO_IRQS - 1)

=============================================================================
