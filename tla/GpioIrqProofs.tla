---------------------------- MODULE GpioIrqProofs ----------------------------
(***************************************************************************)
(* Proofs about the Tiva GPIO interrupt model GpioIrq, for every number of *)
(* ports and pins and every IRQ numbering that GpioAssumption allows.      *)
(***************************************************************************)
EXTENDS GpioIrq, TLAPS

(* Arithmetic of the IRQ numbering.                                        *)

\* The port index and the bit of a GPIO interrupt name a register and a
\* bit that exist.
LEMMA PinInPort ==
    ASSUME NEW g \in GpioIrqs
    PROVE  /\ Port(g) \in PortIdx
           /\ g % PinsPerPort \in PinIdx
           /\ PinBit(g) \subseteq PinIdx
<1>1. PinsPerPort \in Nat \ {0} /\ NPorts \in Nat \ {0}
    BY GpioAssumption
<1>2. g \in 0..(NPorts * PinsPerPort - 1)
    BY DEF GpioIrqs, NR_GPIO_IRQS
<1>3. g \div PinsPerPort < NPorts
    BY <1>1, <1>2
<1>4. QED
    BY <1>1, <1>2, <1>3 DEF Port, PortIdx, PinIdx, PinBit

\* Two different pins of one port have different bits: port and bit
\* together give back the interrupt number.
LEMMA PinsApart ==
    ASSUME NEW g \in GpioIrqs, NEW h \in GpioIrqs, g # h, Port(g) = Port(h)
    PROVE  g % PinsPerPort # h % PinsPerPort
<1>1. PinsPerPort \in Nat \ {0}
    BY GpioAssumption
<1>2. /\ g = PinsPerPort * (g \div PinsPerPort) + (g % PinsPerPort)
      /\ h = PinsPerPort * (h \div PinsPerPort) + (h % PinsPerPort)
    BY <1>1 DEF GpioIrqs, NR_GPIO_IRQS
<1>3. QED
    BY <1>1, <1>2 DEF Port

\* The number a detach hands gpio_irqdisable, a GPIO interrupt already less
\* NR_IRQS, fails the range test again: the GPIO interrupts number fewer
\* than NR_IRQS.
LEMMA DetachOutOfRange ==
    ASSUME NEW g \in GpioIrqs
    PROVE  ~InRange(g - NR_IRQS)
<1>1. /\ NR_IRQS \in Nat /\ NR_GPIO_IRQS <= NR_IRQS
      /\ NR_GPIO_IRQS \in Nat
    BY GpioAssumption DEF NR_GPIO_IRQS
<1>2. g \in Nat /\ g < NR_IRQS
    BY <1>1 DEF GpioIrqs
<1>3. g - NR_IRQS < 0
    BY <1>1, <1>2
<1>4. QED
    BY <1>3 DEF InRange, GpioIrqs


(* The invariant.  TypeOK and EnabledStaysUnmasked are inductive together: *)
(* an enable sets only its own bit; a disable clears only its own bit,     *)
(* which PinsApart keeps apart from every other pin of the port; and a     *)
(* detach clears nothing at all (DetachOutOfRange) while it forgets that   *)
(* the pin was wanted, so the wanted pins keep their bits.                 *)
IInv == TypeOK /\ EnabledStaysUnmasked

LEMMA InitIInv == Init => IInv
<1> SUFFICES ASSUME Init PROVE IInv
    OBVIOUS
<1>1. TypeOK
    BY DEF Init, TypeOK
<1>2. EnabledStaysUnmasked
    BY DEF Init, EnabledStaysUnmasked
<1>3. QED
    BY <1>1, <1>2 DEF IInv

\* Clearing the bit of pin g keeps every other pin's bit, and sets only
\* bits of the port's register.
LEMMA ClearKeepsOthers ==
    ASSUME TypeOK, NEW g \in GpioIrqs
    PROVE  LET m == [im EXCEPT ![Port(g)] = @ \ PinBit(g)]
           IN  /\ m \in [PortIdx -> SUBSET PinIdx]
               /\ \A h \in GpioIrqs : h # g =>
                     (h % PinsPerPort \in m[Port(h)] <=> h % PinsPerPort \in im[Port(h)])
<1> DEFINE m == [im EXCEPT ![Port(g)] = @ \ PinBit(g)]
<1>1. Port(g) \in PortIdx
    BY PinInPort
<1>2. m \in [PortIdx -> SUBSET PinIdx]
    BY <1>1 DEF TypeOK
<1>3. ASSUME NEW h \in GpioIrqs, h # g
      PROVE  h % PinsPerPort \in m[Port(h)] <=> h % PinsPerPort \in im[Port(h)]
    <2>1. CASE Port(h) = Port(g)
        <3>1. g % PinsPerPort # h % PinsPerPort
            BY <1>3, <2>1, PinsApart
        <3>2. QED
            BY <1>1, <2>1, <3>1 DEF PinBit, TypeOK
    <2>2. CASE Port(h) # Port(g)
        BY <1>1, <2>2, PinInPort DEF TypeOK
    <2>3. QED
        BY <2>1, <2>2
<1>4. QED
    BY <1>2, <1>3 DEF m

LEMMA NextIInv == IInv /\ [Next]_vars => IInv'
<1> SUFFICES ASSUME IInv, [Next]_vars PROVE IInv'
    OBVIOUS
<1> USE DEF IInv
<1>1. ASSUME NEW g \in GpioIrqs, Edge(g) PROVE IInv'
    <2>1. Port(g) \in PortIdx /\ PinBit(g) \subseteq PinIdx
        BY PinInPort
    <2>2. QED
        BY <1>1, <2>1 DEF Edge, TypeOK, EnabledStaysUnmasked
<1>2. ASSUME NEW irq \in Irqs, NEW isr \in AttachIsrs, GpioIrqAttach(irq, isr)
      PROVE  IInv'
    <2> DEFINE g == irq - NR_IRQS
    <2>1. isr \in Isrs \cup {NULL}
        BY GpioAssumption
    <2>2. CASE ~InRange(g) /\ UNCHANGED vars
        BY <2>2 DEF vars, TypeOK, EnabledStaysUnmasked
    <2>3. CASE /\ InRange(g) /\ isr # NULL
               /\ g_irqvector' = [g_irqvector EXCEPT ![g] = isr]
               /\ attached' = [attached EXCEPT ![g] = isr]
               /\ UNCHANGED <<g_gpioirqvector, im, ris, halted, want, ran>>
        BY <2>1, <2>3 DEF InRange, TypeOK, EnabledStaysUnmasked
    <2>4. CASE /\ InRange(g) /\ isr = NULL
               /\ im' = DisableIm(g)
               /\ g_irqvector' = [g_irqvector EXCEPT ![g] = Unexpected]
               /\ attached' = [attached EXCEPT ![g] = NoIsr]
               /\ want' = [want EXCEPT ![g] = FALSE]
               /\ UNCHANGED <<g_gpioirqvector, ris, halted, ran>>
        <3>1. g \in GpioIrqs
            BY <2>4 DEF InRange
        <3>2. im' = im
            BY <2>4, <3>1, DetachOutOfRange DEF DisableIm
        <3>3. TypeOK'
            BY <2>4, <3>1, <3>2 DEF TypeOK
        <3>4. EnabledStaysUnmasked'
            BY <2>4, <3>1, <3>2 DEF TypeOK, EnabledStaysUnmasked
        <3>5. QED
            BY <3>3, <3>4
    <2>5. QED
        BY <1>2, <2>2, <2>3, <2>4 DEF GpioIrqAttach
<1>3. ASSUME NEW irq \in Irqs, GpioIrqEnable(irq) PROVE IInv'
    <2> DEFINE g == irq - NR_IRQS
    <2>1. CASE ~InRange(g) /\ UNCHANGED vars
        BY <2>1 DEF vars, TypeOK, EnabledStaysUnmasked
    <2>2. CASE /\ InRange(g)
               /\ im' = [im EXCEPT ![Port(g)] = @ \cup PinBit(g)]
               /\ want' = [want EXCEPT ![g] = TRUE]
               /\ UNCHANGED <<g_gpioirqvector, g_irqvector, ris, halted, attached, ran>>
        <3>1. g \in GpioIrqs /\ Port(g) \in PortIdx /\ PinBit(g) \subseteq PinIdx
            BY <2>2, PinInPort DEF InRange
        <3>2. QED
            BY <2>2, <3>1 DEF TypeOK, EnabledStaysUnmasked, PinBit
    <2>3. QED
        BY <1>3, <2>1, <2>2 DEF GpioIrqEnable
<1>4. ASSUME NEW irq \in Irqs, GpioIrqDisable(irq) PROVE IInv'
    <2> DEFINE g == irq - NR_IRQS
    <2>1. CASE ~InRange(g) /\ UNCHANGED vars
        BY <2>1 DEF vars, TypeOK, EnabledStaysUnmasked
    <2>2. CASE /\ InRange(g)
               /\ im' = DisableIm(irq)
               /\ want' = [want EXCEPT ![g] = FALSE]
               /\ UNCHANGED <<g_gpioirqvector, g_irqvector, ris, halted, attached, ran>>
        <3>1. g \in GpioIrqs
            BY <2>2 DEF InRange
        <3>2. im' = [im EXCEPT ![Port(g)] = @ \ PinBit(g)]
            BY <2>2 DEF DisableIm
        <3>3. /\ im' \in [PortIdx -> SUBSET PinIdx]
              /\ \A h \in GpioIrqs : h # g =>
                    (h % PinsPerPort \in im'[Port(h)] <=> h % PinsPerPort \in im[Port(h)])
            BY <3>1, <3>2, ClearKeepsOthers
        <3>4. TypeOK'
            BY <2>2, <3>1, <3>3 DEF TypeOK
        <3>5. EnabledStaysUnmasked'
            BY <2>2, <3>1, <3>3 DEF TypeOK, EnabledStaysUnmasked
        <3>6. QED
            BY <3>4, <3>5
    <2>3. QED
        BY <1>4, <2>1, <2>2 DEF GpioIrqDisable
<1>5. ASSUME NEW p \in PortIdx, PortHandler(p) PROVE IInv'
    <2>1. \A g \in GpioIrqs : g_gpioirqvector[g] \in Isrs \cup {Unexpected}
        BY DEF TypeOK
    <2>2. ris' \in [PortIdx -> SUBSET PinIdx]
        BY <1>5 DEF PortHandler, TypeOK
    <2>3. ran' \in [GpioIrqs -> SUBSET (Isrs \cup {Unexpected})]
        BY <1>5, <2>1 DEF PortHandler, TypeOK
    <2>4. halted' \in BOOLEAN
        BY <1>5 DEF PortHandler
    <2>5. QED
        BY <1>5, <2>2, <2>3, <2>4 DEF PortHandler, TypeOK, EnabledStaysUnmasked
<1>6. CASE UNCHANGED vars
    BY <1>6 DEF vars, TypeOK, EnabledStaysUnmasked
<1>7. QED
    BY <1>1, <1>2, <1>3, <1>4, <1>5, <1>6 DEF Next

(* The pin masks of the GPIO ports, for every number of ports and pins:    *)
(* however the application's gpio_irqattach, gpio_irqenable and           *)
(* gpio_irqdisable calls for the pins of a port interleave with edges and  *)
(* with tiva_gpiohandler, a pin that was enabled and not since disabled or *)
(* detached keeps its bit in IM, and every register, vector and dispatch   *)
(* record holds values of its type.                                        *)
THEOREM MasksKept == Spec => [](TypeOK /\ EnabledStaysUnmasked)
<1>1. IInv => TypeOK /\ EnabledStaysUnmasked
    BY DEF IInv
<1>2. QED
    BY InitIInv, NextIInv, <1>1, PTL DEF Spec

=============================================================================
