\* Two ports of two pins; the application attaches h1 and enables pins.
CONSTANTS
    h1 = h1
    NULL = NULL
    Unexpected = Unexpected
    CoreIsr = CoreIsr
    NoIsr = NoIsr
    NR_IRQS = 4
    NPorts = 2
    PinsPerPort = 2
    Isrs <- MCIsrs
    Irqs <- MCIrqs
    AttachIsrs = {h1}
SPECIFICATION Spec
\* irq_unexpected_isr calls PANIC: the system really stops there.
CHECK_DEADLOCK FALSE
INVARIANT AttachedIsrRuns
