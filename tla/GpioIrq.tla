------------------------------- MODULE GpioIrq -------------------------------
(***************************************************************************)
(* GPIO interrupt dispatch of arch/arm/src/tiva/tiva_gpioirq.c.  Each GPIO *)
(* pin has an IRQ number NR_IRQS + gpioirq; the pins of a port share one   *)
(* NVIC line, whose handler (tiva_gpiohandler) reads the masked status,    *)
(* clears it and calls the handler of each pending pin from the table      *)
(* g_gpioirqvector.  gpio_irqattach, gpio_irqenable and gpio_irqdisable    *)
(* run under irqsave, so on this uniprocessor each is one step with        *)
(* respect to the port handlers.                                           *)
(*                                                                         *)
(* The 8-bit IM and RIS registers of a port are kept as the sets of pin    *)
(* positions whose bit is set: | is \cup, & ~ is \, & is \cap, and         *)
(* 1 << k is {k}.                                                          *)
(***************************************************************************)
EXTENDS Naturals, FiniteSets

CONSTANTS
    NR_IRQS,        \* IRQ number of GPIO pin 0
    NPorts,         \* ports with GPIO interrupts (GPIO_NADDRS)
    PinsPerPort,    \* pins of a port (8: the >> 3, & 7 and pin < 8 of the code)
    Isrs,           \* handlers the application may attach
    NULL,           \* the NULL isr of a detach
    Unexpected,     \* irq_unexpected_isr
    CoreIsr,        \* whatever the core vector table held at start
    NoIsr,          \* no gpio_irqattach has installed a handler for the pin
    Irqs,           \* IRQ numbers the application passes
    AttachIsrs      \* isr arguments the application passes to gpio_irqattach

NR_GPIO_IRQS == NPorts * PinsPerPort

ASSUME GpioAssumption ==
    /\ NR_IRQS \in Nat /\ NPorts \in Nat \ {0} /\ PinsPerPort \in Nat \ {0}
    \* g_irqvector has NR_IRQS + 1 slots and the Tiva parts have more core
    \* IRQs than GPIO pins
    /\ NR_GPIO_IRQS <= NR_IRQS
    /\ {NULL, Unexpected, CoreIsr, NoIsr} \cap Isrs = {}
    /\ Irqs \subseteq Nat
    /\ AttachIsrs \subseteq Isrs \cup {NULL}

GpioIrqs == 0..(NR_GPIO_IRQS - 1)
PinIdx == 0..(PinsPerPort - 1)
PortIdx == 0..(NPorts - 1)

VARIABLES
    g_gpioirqvector,    \* the handler of each GPIO interrupt
    g_irqvector,        \* the slots 0..NR_GPIO_IRQS-1 of the core vector table
    im,                 \* im[p]: TIVA_GPIO_IM of port p
    ris,                \* ris[p]: edges latched by port p (RIS)
    halted,             \* irq_unexpected_isr has called PANIC
    attached,           \* history: the isr the last gpio_irqattach gave the pin
    want,               \* history: the last gpio_irqenable/disable (or detach) asked unmasked
    ran                 \* history: ran[g], the handlers pin g was dispatched to

vars == <<g_gpioirqvector, g_irqvector, im, ris, halted, attached, want, ran>>

TypeOK ==
    /\ g_gpioirqvector \in [GpioIrqs -> Isrs \cup {Unexpected}]
    /\ g_irqvector \in [GpioIrqs -> Isrs \cup {Unexpected, CoreIsr}]
    /\ im \in [PortIdx -> SUBSET PinIdx]
    /\ ris \in [PortIdx -> SUBSET PinIdx]
    /\ halted \in BOOLEAN
    /\ attached \in [GpioIrqs -> Isrs \cup {NoIsr}]
    /\ want \in [GpioIrqs -> BOOLEAN]
    /\ ran \in [GpioIrqs -> SUBSET (Isrs \cup {Unexpected})]

(* Helpers.                                                                *)

\* tiva_gpiobaseaddress (tiva_gpioirq.c:127-136) with the table g_gpiobase
\* (66-104): the port of a GPIO interrupt, gpioirq >> 3.  With every port's
\* interrupts configured the table is indexed by port number.
Port(g) == g \div PinsPerPort

\* Mutant: the bit is 1 << gpioirq, without the & 7.
PinBitWide(g) == {g}

\* The bit of the pin in its port's registers, 1 << (gpioirq & 7)
\* (tiva_gpioirq.c:373, 412).
PinBit(g) == {g % PinsPerPort}

\* The IRQ number of a port's first pin, as each tiva_gpio*handler passes
\* it (tiva_gpioirq.c:181-242).
IrqBase(p) == NR_IRQS + PinsPerPort * p

\* The GPIO interrupt of pin k of port p: irq - NR_IRQS (tiva_gpioirq.c:174-175).
GpioOf(p, k) == IrqBase(p) + k - NR_IRQS

\* The range test (unsigned)gpioirq < NR_GPIO_IRQS; a negative gpioirq
\* converts to a large unsigned value and fails it.
InRange(gpioirq) == gpioirq \in GpioIrqs

\* Mutant: the bit is cleared with regval &= pin instead of &= ~pin.
DisableImAnd(irq) ==
    LET g == irq - NR_IRQS IN
    IF InRange(g) THEN [im EXCEPT ![Port(g)] = @ \cap PinBit(g)] ELSE im

\* The IM registers after gpio_irqdisable(irq) (tiva_gpioirq.c:398-427):
\* under irqsave, read IM, clear the pin's bit, write it back.
DisableIm(irq) ==
    LET g == irq - NR_IRQS IN
    IF InRange(g) THEN [im EXCEPT ![Port(g)] = @ \ PinBit(g)] ELSE im

(* Actions.                                                                *)

\* gpio_irqinitialize (tiva_gpioirq.c:256-309): every GPIO vector to
\* irq_unexpected_isr; the port handlers attached and their NVIC lines
\* enabled.  IM and RIS are 0 after reset.
Init ==
    /\ g_gpioirqvector = [g \in GpioIrqs |-> Unexpected]
    /\ g_irqvector = [g \in GpioIrqs |-> CoreIsr]
    /\ im = [p \in PortIdx |-> {}]
    /\ ris = [p \in PortIdx |-> {}]
    /\ halted = FALSE
    /\ attached = [g \in GpioIrqs |-> NoIsr]
    /\ want = [g \in GpioIrqs |-> FALSE]
    /\ ran = [g \in GpioIrqs |-> {}]

\* An edge on pin g is latched in RIS, masked or not.
Edge(g) ==
    /\ ris' = [ris EXCEPT ![Port(g)] = @ \cup PinBit(g)]
    /\ UNCHANGED <<g_gpioirqvector, g_irqvector, im, halted, attached, want, ran>>

\* gpio_irqattach(irq, isr) (tiva_gpioirq.c:319-349).  Out of range it
\* returns ERROR.  Otherwise, under irqsave, a NULL isr first calls
\* gpio_irqdisable(gpioirq), an interrupt number already less NR_IRQS, and
\* becomes irq_unexpected_isr; the isr is then stored in g_irqvector.
GpioIrqAttach(irq, isr) ==
    LET g == irq - NR_IRQS IN
    \/ /\ ~InRange(g)
       /\ UNCHANGED vars
    \/ /\ InRange(g)
       /\ isr # NULL
       /\ g_irqvector' = [g_irqvector EXCEPT ![g] = isr]
       /\ attached' = [attached EXCEPT ![g] = isr]
       /\ UNCHANGED <<g_gpioirqvector, im, ris, halted, want, ran>>
    \/ /\ InRange(g)
       /\ isr = NULL
       /\ im' = DisableIm(g)
       /\ g_irqvector' = [g_irqvector EXCEPT ![g] = Unexpected]
       /\ attached' = [attached EXCEPT ![g] = NoIsr]
       /\ want' = [want EXCEPT ![g] = FALSE]
       /\ UNCHANGED <<g_gpioirqvector, ris, halted, ran>>

\* gpio_irqenable(irq) (tiva_gpioirq.c:359-388): under irqsave, read IM,
\* set the pin's bit, write it back; out of range, nothing.
GpioIrqEnable(irq) ==
    LET g == irq - NR_IRQS IN
    \/ /\ ~InRange(g)
       /\ UNCHANGED vars
    \/ /\ InRange(g)
       /\ im' = [im EXCEPT ![Port(g)] = @ \cup PinBit(g)]
       /\ want' = [want EXCEPT ![g] = TRUE]
       /\ UNCHANGED <<g_gpioirqvector, g_irqvector, ris, halted, attached, ran>>

\* gpio_irqdisable(irq) called by the application.
GpioIrqDisable(irq) ==
    LET g == irq - NR_IRQS IN
    \/ /\ ~InRange(g)
       /\ UNCHANGED vars
    \/ /\ InRange(g)
       /\ im' = DisableIm(irq)
       /\ want' = [want EXCEPT ![g] = FALSE]
       /\ UNCHANGED <<g_gpioirqvector, g_irqvector, ris, halted, attached, ran>>

\* The NVIC line of port p is taken while its masked status is non-zero,
\* and tiva_gpiohandler runs (tiva_gpioirq.c:146-179): mis = MIS & 0xff;
\* write mis to ICR, clearing those latches; then call the vector of each
\* pin of mis in ascending order.  irq_unexpected_isr does not return: it
\* calls PANIC, and the pins after it are not served.
PortHandler(p) ==
    LET mis == ris[p] \cap im[p]
        bad == {k \in mis : g_gpioirqvector[GpioOf(p, k)] = Unexpected}
        served == {k \in mis : \A b \in bad : k <= b}
    IN
    /\ mis # {}
    /\ ris' = [ris EXCEPT ![p] = @ \ mis]
    /\ ran' = [g \in GpioIrqs |->
                 IF Port(g) = p /\ g % PinsPerPort \in served
                 THEN ran[g] \cup {g_gpioirqvector[g]} ELSE ran[g]]
    /\ halted' = (bad # {})
    /\ UNCHANGED <<g_gpioirqvector, g_irqvector, im, attached, want>>

Next ==
    /\ ~halted
    /\ \/ \E g \in GpioIrqs : Edge(g)
       \/ \E irq \in Irqs, isr \in AttachIsrs : GpioIrqAttach(irq, isr)
       \/ \E irq \in Irqs : GpioIrqEnable(irq) \/ GpioIrqDisable(irq)
       \/ \E p \in PortIdx : PortHandler(p)

Spec == Init /\ [][Next]_vars

(* Properties.                                                             *)

(* Masks follow the calls: a pin's interrupt is unmasked in its port's IM  *)
(* register exactly when the last gpio_irqenable, gpio_irqdisable or       *)
(* detaching gpio_irqattach for it asked for it to be, whatever calls for  *)
(* the other pins of the same port came between.  It rests on the port    *)
(* index (>> 3) and the bit (1 << (gpioirq & 7)) naming the same pin as   *)
(* the IRQ number, and on each read-modify-write leaving the other bits.  *)
MaskFollowsCalls ==
    \A g \in GpioIrqs : (g % PinsPerPort \in im[Port(g)]) = want[g]

(* An enabled pin stays unmasked: after gpio_irqenable for a pin, and      *)
(* until a disable or a detach for that same pin, its bit in the port's IM *)
(* register is set, whatever enables, disables, detaches and dispatches    *)
(* for the other pins of the port came between.  The read-modify-writes of *)
(* gpio_irqdisable (tiva_gpioirq.c:412-414) must clear only their own bit. *)
EnabledStaysUnmasked ==
    \A g \in GpioIrqs : want[g] => g % PinsPerPort \in im[Port(g)]

(* A pin whose interrupt has a handler attached with gpio_irqattach is     *)
(* dispatched to that handler: irq_unexpected_isr, which panics, is only   *)
(* ever reached for a pin that nobody attached.                            *)
AttachedIsrRuns ==
    \A g \in GpioIrqs : Unexpected \in ran[g] => attached[g] = NoIsr

=============================================================================
