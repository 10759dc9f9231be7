# Verification models of the NuttX network core

This directory holds TLA+ models of the NuttX sources under `src/nuttx/`. The core is the
concurrent network and heap code: the I/O buffer pool, the UDP connection table, the UDP
input path and the heap's ownership primitive. The models also cover:

- the Tiva GPIO interrupt dispatch;
- the MIPS assertion handler;
- the mbed PWM initialisation;
- `iob_dump`;
- the DHCP set-up of the webserver example;
- the IPv4 address macros of `ip.h`. It also holds TLC configurations that model-check them on
small instances, and TLAPS proofs of their main safety properties for every value of
the constants. `PROJECT.json` lists the following in machine-readable form:

- the components;
- the runs;
- the mutants;
- the map from every definition to its source lines;
- the findings;
- the hazards;
- the theorems.

## The system and how its parts interact

| Part | Source | What it does |
|---|---|---|
| I/O buffer pool | `net/iob/iob_alloc.c` | A free list of IOBs guarded by two counting semaphores. `g_iob_sem` counts free buffers. `g_throttle_sem` counts the free buffers that are left once `CONFIG_IOB_THROTTLE` are reserved for non-throttled callers. `iob_alloc` runs `iob_tryalloc` at interrupt level. At task level it runs `iob_allocwait`, which loops over `iob_tryalloc` and `sem_wait` with interrupts disabled. `iob_free` (not under `src/`) pushes a buffer and posts both semaphores. |
| UDP connection table | `net/udp/udp_conn.c` | A fixed array of connections, split into a free queue and an active queue, plus the port cursor `g_last_udp_port`. `udp_alloc` and `udp_free` move slots between the queues. `udp_bind` and `udp_connect` assign local ports, through `udp_select_port` for wildcard binds. `udp_active` finds the connection for an incoming datagram. |
| UDP input | `net/udp/udp_input.c`, `net/udp/udp_callback.c` | The driver hands each received datagram to `udp_input`, which runs at interrupt level. It counts the datagram and checks the checksum. It asks `udp_active` for a listener and runs the application hook through `udp_callback`. If the hook leaves `UDP_NEWDATA` set, it returns `ERROR`, so the driver keeps the datagram to present again. |
| Tiva GPIO interrupts | `arch/arm/src/tiva/tiva_gpioirq.c` | The pins of a port share one NVIC line. Its handler reads the masked status, clears it, and calls the handler of each pending pin from `g_gpioirqvector`. `gpio_irqattach`, `gpio_irqenable` and `gpio_irqdisable` run under `irqsave`. |
| MIPS assertion | `arch/mips/src/mips32/up_assert.c` | `up_assert` lights `LED_ASSERTION` and dumps the state. `_up_assert` then halts in a `LED_PANIC` blink loop with interrupts off, if it runs in an interrupt handler or the idle task; otherwise it exits the task. |
| mbed PWM set-up | `configs/mbed/src/up_pwm.c` | `pwm_devinit` registers `/dev/pwm0`, `/dev/mcpwm0` and `/dev/timer0`, then sets a static `initialized` flag. `examples/pwm` calls it on every run of the command. |
| IOB dump | `net/iob/iob_dump.c` | Prints `len` bytes of a chain from `offset`, 32 per line, through a stack array filled by `iob_copyout`. |
| Webserver example | `apps/examples/webserver/webserver_main.c` | Configures eth0 statically, asks DHCP for a lease, applies the reply's non-zero fields, and starts the HTTP server. |
| Address macros | `include/nuttx/net/ip.h`, `arch/arm/include/armv7-m/byteorder.h` | `net_ipaddr`, `ip4_addr1..4`, `net_ip4addr_conv32`, `net_ipaddr_hdrcopy`, `net_ipaddr_hdrcmp`, `net_ipaddr_maskcmp`, `net_ipaddr_mask` and `ip6_addr`, over `rev`/`rev16` on the little-endian ARMv7-M port. |
| Heap ownership | `mm/mm_heap/mm_sem.c` | `mm_takesemaphore`, `mm_trysemaphore` and `mm_givesemaphore`. In this version they claim the heap by `irqsave()` and record a holder with a reference count; the semaphore is never waited on. The last give restores the saved interrupt state. |

How the parts interact:

- UDP input reads the connection table that socket calls are changing. In the model, this is how `UdpInput` composes `UdpConn`.
- The network stack allocates IOBs from interrupt level and from tasks at once. This is the race at the heart of `IobPool`.
- Heap exclusion rests on the scheduler: a task that has disabled interrupts is not preempted on a uniprocessor.
- `udp_active` compares a header address with a connection's `ripaddr` through `net_ipaddr_hdrcmp`. `IpAddr` checks that macro for every address, so the `UdpInput` model can take the compare as address equality.
- The `LED_PANIC` loop of `up_assert` relies on the same uniprocessor rule: with interrupts off, nothing else runs.

## Modules

| Module | Models | State | Actions |
|---|---|---|---|
| `IobPool` | `iob_alloc.c` | `freelist`, `held`, `sem` (both semcounts), `pc` of each task (idle / blocked in `sem_wait` / woken and not yet run), `throttled` | `IsrAlloc` (`iob_tryalloc` from an ISR); `TaskAlloc` and `TaskRetry` (one pass of the `iob_allocwait` loop, through `AllocPass`); `TaskInterrupted` (an EINTR ends the wait and gives its count back); `Free` (`iob_free`, modelled from the spec with the `sem_post` contract: increment, and wake one waiter if the result is ≤ 0). |
| `UdpConn` | `udp_conn.c` | `lport`/`rport`/`raddr` of each slot, `freeq`, `activeq`, `lastport`, and for each socket its phase inside a bind or connect call | `UdpAlloc`, `UdpFree`, `UdpBindPort`. `udp_bind(0)` is split into `UdpBindAny` (selection under `net_lock`) and `UdpBindAssign` (`conn->lport = ...` after `net_unlock`). `udp_connect` is split into `UdpConnect`, `UdpConnectAssign` and `UdpConnectRemote`. The splits are exactly where the code leaves the lock. `SelectPort` is the loop of `udp_select_port` in closed form: `TurnFrom(l, k)` is the cursor after `k` turns of `NextPort` from `l`, and `SelectPort` is the first turn that names a port no slot uses. `Remove` is `dq_rem`: the queue without the one position that holds the slot. |
| `UdpInput` | `udp_input.c` over `UdpConn` | the driver's held datagram, `udp.recv`, `udp.drop`, and the number of datagrams deleted undelivered | `Receive` (driver, from the spec); `Input(consumed)`, which is the whole of `udp_input`: the recv count, then `ChecksumDrop`, `NoListener` or `Deliver`. `Match` is `udp_active`. Whether the hook consumed the data is a free choice. |
| `MmSem` | `mm_sem.c` | `holder`, `counts`, `saved` (`mm_flags`), the interrupt state of each task, the state each task set itself, the running task, and each task's outstanding takes | `Take` (both take functions), `Give`. The environment comes from the scheduler contract: `Preempt` is possible only with interrupts enabled, `Block` only outside the heap, and `OwnIrq` is the caller's own critical sections. |
| `BufferPool` | the pool as callers see it | `free`, `owned` (owner to its buffers) | `Alloc(o)`, `Release(o, b)`. `IobPool` implements it under the mapping *free list ↦ set of its elements*. |
| `GpioIrq` | `tiva_gpioirq.c` | `g_gpioirqvector`, `g_irqvector`, the IM and RIS bits of each port as sets of pin positions, `halted` (a PANIC), and ghost `attached`/`want`/`ran` | `Edge` (the hardware latch), `GpioIrqAttach`, `GpioIrqEnable`, `GpioIrqDisable`, `PortHandler` (`tiva_gpiohandler`). |
| `UpAssert` | `up_assert.c` | the running task, the living tasks, `inIsr` (`current_regs`), `irqOn`, `pc` (run / panic), the two LEDs | `Schedule`, `IrqEnter`, `IrqReturn` (context, from the spec); `UpAssert` (up_assert plus `_up_assert`, through `MustHalt`, `Halt` and `ExitTask`); `PanicLedOn`, `PanicLedOff` (the loop). |
| `PwmInit` | `up_pwm.c` | `initialized`, the registered paths, each caller's position in the function, its last return, failures so far | `Call` (the flag test), `Register` (one `pwm_register` with its `EEXIST`, `ENOMEM` and success outcomes, then `Finish`). |
| `IobDump` | `iob_dump.c` | the arguments, the clamped `len`, the loop's `offset` and `lndx`, the packet positions printed, and a flag for a printed unwritten byte of `data[]` | `Start` (offset test and clamp), `Line` (one loop turn: `iob_copyout`, then the columns `lndx + cndx < len`), `Return`. |
| `Webserver` | `webserver_main.c` | each interface's host/router/netmask, the resolver, the stack struct `ds`, whether the request succeeded, `pc` | `Setup`, `Open`, `Request`, `Apply`, `Serve`. |
| `IpAddr` | `ip.h`, `byteorder.h` | two addresses as octets and a prefix length, fixed in `Init` | none: the macros are operators, and the properties compare them with reference definitions. |
| `MC*` | | model values, symmetry sets, small bounds | |
| `IobPoolProofs`, `MmSemProofs`, `IpAddrProofs`, `GpioIrqProofs`, `IobDumpProofs`, `UpAssertProofs`, `UdpInputProofs` | | TLAPS proofs | |

The data is abstracted:

- Buffers, tasks, hosts and connections are model values.
- Port numbers are kept in host order, since `htons` is a bijection.
- A 32-bit `in_addr_t` is a record of two 16-bit halves, because TLC integers are 32-bit signed.
- GPIO register words are sets of bit positions.
- Packet bytes in `IobDump` are their positions, since the hex and ASCII columns use the same test.
- Webserver addresses are model values. `Garbage` stands for a stale stack value.
- The ranges 1024 / 4096 / 32000 of the port cursor are scaled to `InitPort` / `PortLo` / `PortHi` (1 / 3 / 8), keeping their shape: the start lies below the range it wraps into.

## Runs

`PROJECT.json` lists twelve runs: seven that must pass and five that must find a violation.

| Run | Config | Result | What it shows |
|---|---|---|---|
| `iob_pool` | `IobPool.cfg` | pass, 2554 states | `SemNeverOverstates`: a count plus its blocked waiters never exceeds the free buffers, less the reserve for the throttle count. `ReserveKept`: a throttled task gets a buffer only while more than `CONFIG_IOB_THROTTLE` are free. `ImplementsPool`: `IobPool` refines `BufferPool`. |
| `udp_input` | `UdpInput.cfg` | pass, 423280 states | `PortsUnique`: with one caller thread, wildcard binds, connects and frees never give two active connections one local port. `SelectionFree`: every port `udp_select_port` selects is in the cursor's range and used by no slot at that moment. `InputTypeOK` bounds the port cursor and the counters. `MCUdpInput` also states `ClosedFormsMatch`: on every cursor, turn count and queue of the instance, `TurnFrom` equals `NextPort` iterated by a recursive function, and `Remove` equals `SelectSeq` filtering the slot out. TLC evaluates it on this run. |
| `mm_sem` | `MmSem.cfg` | pass, 120 states | `Exclusive`: only the holder has outstanding takes, and `mm_counts_held` equals them. `ReleaseRestoresIrq`: a task outside the heap has exactly the interrupt state it set. |
| `gpio_irq` | `GpioIrq.cfg` | pass, 121856 states | `EnabledStaysUnmasked`: with attaches, detaches, enables, disables, edges and handlers interleaved, a pin the application enabled is never masked by calls for the other pins of its port. `TypeOK` keeps every register bit inside its port. |
| `up_assert` | `UpAssert.cfg` | pass, 224 states | `PanicBlinks`: once halted, `LED_PANIC` goes on and off forever. |
| `iob_dump` | `IobDump.cfg` | pass, 5130 states | `DumpShowsRange`: exactly the requested bytes that exist are printed. `NoUninitRead`: no unwritten byte of `data[]` is printed. |
| `ip_addr` | `IpAddr.cfg` | pass, 196608 states | `WireOrder`, `OctetsRoundTrip`, `HdrCmpMatchesWire`, `Ip6WireOrder`, `MaskCmpByOctet`: each macro agrees with its reference definition over all pairs of test addresses and prefixes. |
| `iob_count_assert` | `IobPool_IobCountAssert.cfg` | violation | With `CONFIG_IOB_THROTTLE = 0` the `DEBUGASSERT` at `iob_alloc.c:132` fires. |
| `udp_ports_race` | `UdpConn_PortsUnique.cfg` | violation | With two calls in progress, two active connections share a port. |
| `gpio_attached_isr` | `GpioIrq_AttachedIsrRuns.cfg` | violation | The first edge on an attached, enabled pin goes to `irq_unexpected_isr`. |
| `pwm_retry` | `PwmInit_Retry.cfg` | violation | After one `ENOMEM`, every retry fails with `EEXIST`. |
| `web_garbage` | `Webserver_NoGarbageConfig.cfg` | violation | A failed request configures eth0 from the uninitialised struct: TLC's trace sets a stale router. |

Eight more configurations sit beside these runs. Each checks one property that TLC finds violated, and each is named in the note of its hazard in `PROJECT.json`:

| Config | Property | What TLC finds |
|---|---|---|
| `IobPool_ThrottleCountAssert.cfg` | `ThrottleCountAssert` | The `DEBUGASSERT` at `iob_alloc.c:140` fires. |
| `IobPool_NoStrandedWaiter.cfg` | `NoStrandedWaiter` | A woken waiter blocks again while a buffer is free. |
| `UdpConn_EphemeralInRange.cfg` | `EphemeralInRange` | The first selected port is `InitPort + 1`, below the range. |
| `UdpConn_UnboundHasNoRemote.cfg` | `UnboundHasNoRemote` | A reallocated connection keeps its previous user's remote port and address. |
| `UdpInput_DropsCounted.cfg` | `DropsCounted` | Datagrams with no listener are deleted without being counted in `udp.drop`. |
| `GpioIrq_DetachMasks.cfg` | `MaskFollowsCalls` | A detach leaves the pin unmasked. |
| `PwmInit_Concurrent.cfg` | `NoSpuriousFailure` | Two first calls both pass the flag test; the second gets `EEXIST`. |
| `Webserver_LeaseOnEth0.cfg` | `LeaseOnEth0` | eth0 never gets the leased address. |

Every property of a passing run has a mutant in `PROJECT.json`: a plausible bug in the mapped code that TLC catches with the run's own configuration. The mutants are:

- a dropped count test (`CanTakeUnthrottled`);
- a missed decrement (`TakeKeepIobCount`);
- a take that does not pop the list;
- a selection that does not consult `udp_find_conn` (it breaks both `PortsUnique` and `SelectionFree`);
- a checksum drop applied twice;
- a nested take that resets the count;
- a give without the holder check;
- a last give that does not restore `mm_flags`;
- a `gpio_irqdisable` that masks with `&` instead of `& ~`, and a pin bit taken without the `& 7`;
- a blink loop without its off step;
- a dump without the clamp, or one that stops before the last partial line;
- a missing `HTONL`/`HTONS`, big-endian byte extraction, a swapped halfword join, and a mask applied to one side.

### Bounds

`IobPool` uses three buffers, one of them reserved, and two tasks plus the interrupt level. That is the smallest instance where all of the following can happen:

- a task blocks;
- a free wakes it;
- the ISR takes the buffer first;
- a second task competes.

`MinCount = -4` keeps the counts finite. It lies below every value the asserts talk about (0 and -1).

`UdpConn` (the `udp_ports_race` run) uses three slots and a port range of five (3..7), so the cursor wraps while slots are in use. It allows one explicit port (4, inside the range), so an explicit bind can collide with a selected one.

`UdpInput` uses two slots and datagrams to port 2 (the first wildcard port) and port 4. It uses two source ports, one of which matches the connect target, so the `rport` filter both passes and rejects. It uses three checksum kinds. `MaxRecv = 3` allows a retry after a failed delivery.

`GpioIrq` uses two ports of two pins, with IRQ numbers from one below the first GPIO IRQ to the last. This exercises both range tests and the port/pin split. The passing run attaches both `h1` and `NULL`, so the detach path runs too.

`UpAssert` uses four tasks and the idle task, so that the halt is reached both from a handler and from the idle task, after other tasks have exited.

`PwmInit` is checked only for its violations: one caller with one allocation failure (`pwm_retry`), and two callers with none (`PwmInit_Concurrent.cfg`).

`IobDump` uses 4-byte lines, packets up to 10 bytes, `len` up to 12 and offsets up to one past the end. This covers an empty dump, a partial last line, a clamp, and an offset past the end.

`IpAddr` uses the octets {0, 1, 128, 255}, which include both extremes and asymmetric halfwords. It uses prefixes 0, 25 and 32, where 25 ends inside an octet.

`MmSem` uses three tasks and a nesting depth of 3, which covers a nested take, a take from inside the task's own critical section, and preemption by a third task.

### Fairness

Only `UpAssert` assumes fairness: `WF_vars(PanicLedOn) /\ WF_vars(PanicLedOff)`. The loop of `_up_assert` runs after `irqsave()` on a uniprocessor. No interrupt and no other task can take the processor, so the loop's next step, always enabled in its turn, is taken. Nothing is assumed of tasks or interrupts before the halt. `PanicBlinks` is checked under this fairness.

All other specifications are `Init /\ [][Next]_vars`. The stranded-waiter behaviour is stated as a safety property (`NoStrandedWaiter`), so it does not depend on a fairness assumption.

## Findings

The five violation runs each show one finding of `PROJECT.json`:

1. **`iob_alloc.c:131-132`, code bug (`iob_count_assert`).** With `CONFIG_IOB_THROTTLE = 0`, `iob_tryalloc` decrements `g_iob_sem` with no check. The sequence is:
   1. A task that `iob_free` woke has already consumed its count inside `sem_wait`.
   2. An interrupt-level allocation takes that buffer first.
   3. The count reaches -1 and the `DEBUGASSERT` fires.
2. **`udp_conn.c:391` and `:454`, code bug (`udp_ports_race`).** `udp_select_port` releases `net_lock` before the caller writes `conn->lport`. An explicit bind of the same port, or a second selection, therefore yields duplicate local ports.
3. **`tiva_gpioirq.c:344`, code bug (`gpio_attached_isr`).** `gpio_irqattach` stores the handler in `g_irqvector`, not in `g_gpioirqvector`. The first edge calls `irq_unexpected_isr`, which PANICs.
4. **`up_pwm.c:123`, code bug (`pwm_retry`).** A failed later registration leaves `/dev/pwm0` registered and the flag clear, so every retry fails with `EEXIST`.
5. **`webserver_main.c:179`, code bug (`web_garbage`).** The result of `dhcpc_request` is ignored. A failed request applies the uninitialised stack struct.

The eight configurations kept beside the runs show further defects. Each is recorded as a hazard whose note names the configuration:

- **`iob_alloc.c:139-140`, code bug.** `g_throttle_sem` goes below `-CONFIG_IOB_THROTTLE` under legal calls.
- **`iob_alloc.c:204-214`, divergence from spec §5.** The spec calls the wake/steal race benign. In fact:
  - A woken task's count has been spent twice, so it blocks again while a buffer sits free.
  - Later frees wake another waiter.
  - Repeating the cycle drives both counts down without bound. In a run of the unbounded model the throttle count passed -170000.
- **`udp_conn.c:226`, divergence from spec §8.** The cursor starts at 1024, so the first wildcard ports are 1025, 1026 and so on, outside [4096, 32000).
- **`udp_input.c:167-171`, divergence from spec §4.4.** No-listener drops are not counted.
- **`udp_conn.c:252`, spec gap.** `udp_alloc` clears only `lport`. A reused connection keeps the old `rport`/`ripaddr`, so an unconnected socket filters on a previous peer.
- **`tiva_gpioirq.c:337`, code bug.** The detach path passes an already-offset number to `gpio_irqdisable`, whose range test then rejects it, so the pin stays unmasked.
- **`up_pwm.c:94`, code bug.** The flag test is not serialised. Two first calls both register, and one fails with `EEXIST`.
- **`webserver_main.c:180`, code bug.** The lease is set on `"eth1"`, so eth0 keeps address 0.

One more defect is not modelled, because it does not compile: with `CONFIG_NET_IPv6`, `net_ipaddr_hdrcmp` (`ip.h:254-255`) names `addr` instead of `addr1`.

## Proofs

`tlapm` checks every proof below to the last leaf. The proofs hold for every value of the constants, under the module's `ASSUME`:

- `PoolAssumption`: finite buffer and task sets, `Throttle ≤ |Buffers|`, `MinCount` an integer.
- `MmAssumption`: `NoHolder ∉ Procs`, `MaxDepth ≥ 1`.
- `IpAssumption`: test octets are octets and prefixes lie in 0..32. The theorem's invariant quantifies over all octets, so the choice of test set does not matter.
- `GpioAssumption`: `NR_GPIO_IRQS ≤ NR_IRQS`, at least one port and one pin per port. The Tiva parts have more core IRQs than GPIO pins.
- `DumpAssumption`: a line width of at least one byte.
- `ConnAssumption`: a finite slot set, `InitPort < PortLo < PortHi`, and fewer slots than ports in `PortLo..PortHi-1`. `udp_select_port` assumes a free port exists (udp_conn.c:145-149), and the cursor starts below the range it wraps into (1024 < 4096).
- `InputAssumption`: `MaxRecv` is a natural number.
- `AssertAssumption` is not needed by the proofs.

### `MmSemProofs`

Theorems:

- `ExclusiveHolds`: `Spec => []Exclusive`.
- `IrqRestored`: `Spec => []ReleaseRestoresIrq`.
- `TypeCorrect`: `Spec => []TypeOK`.

Neither property is inductive on its own. A take by a task that is not the holder overwrites `mm_holder` and `mm_flags`. That is harmless only because of `HolderRuns`: while the heap is held, the holder is the task that runs, its interrupts are disabled, and `mm_flags` equals the state its own code had. The inductive invariant is `TypeOK /\ Exclusive /\ ReleaseRestoresIrq /\ HolderRuns`. Its step proof has one case per action, and the take by a new holder is split per conjunct.

### `IobPoolProofs`

Theorems:

- `TypeCorrect`.
- `CountsBounded`: `Spec => []SemNeverOverstates`.

The proof rests on the slack of each semaphore `s`: `sem[s] + |Blocked(s)| - Len(freelist)`. Lemma `NextSlack` shows that no action increases the slack:

- A take lowers the count and the list together.
- A failed pass that blocks adds a waiter and removes a count.
- A post either wakes a waiter or adds a count, while the list grows by one.
- An interrupted wait returns its count and removes its waiter.

The inductive invariant is `TypeOK /\ SemNeverOverstates`. Lemmas about `Cardinality` (from `FiniteSetTheorems`) give the size of the blocked sets. `IsFiniteSet(Tasks)` is needed for that.

The module also proves two further theorems:

- `Refinement`: `Spec => ImplementsPool`. With it, the abstract pool's `OwnedOnce` holds of the free list and the held buffers: no buffer is on the list and in a caller's hands, or in two callers' hands.
- `ReserveHeld`: `Spec => ReserveKept`, an action property.

`Refinement` rests on `RInv == TypeOK /\ NoDupSeq(freelist) /\ Abs!OwnedOnce`. The free list must have no repeats: popping the head must remove that buffer from the free set, and that holds only if it appears once. `Init` gives a list without repeats, because `iob_initialize` pushes each buffer once. Lemma `NextRefines` shows that every step keeps `RInv` and maps to a `BufferPool` step or a stutter:

- a take is `Alloc` of the old head;
- a free is `Release`;
- blocking, retrying and being interrupted change neither the list nor the owners.

`ReserveHeld` follows from `[]IInv` above. Lemma `ThrottledTakeAdmitted` shows that a step which gives task `t` a buffer while `throttled'[t]` holds passed `CanTake(TRUE)`: a task's `held` set grows only in its own `TaskAlloc` or `TaskRetry`, and `throttled'[t]` is the request's argument. With `Throttle > 0`, that test needs `sem["thr"] > 0`. `SemNeverOverstates` then gives `Len(freelist) - Throttle ≥ 1`. With `Throttle = 0`, the free list is simply not empty.

### `IpAddrProofs`

`AddrConversions`: `Spec => [](WireOrder /\ OctetsRoundTrip /\ HdrCmpMatchesWire /\ Ip6WireOrder)`. It holds for every four octets, not only the test set.

The argument is arithmetic on halfwords:

- `Digits`: `(x*256 + y) % 256 = y` and `(x*256 + y) \div 256 = x`.
- `SwapDigits`: `rev16` swaps the two octets.
- `NetIpaddrHalves` gives the two halves of `net_ipaddr`. From them, the memory bytes, the `ip4_addr` extractions, the header copy and `net_ipaddr_hdrcmp` follow.
- `SwapHalf` and `Ip6Fact`: for any eight halfwords, `ip6_addr` stores each one high byte first. `Ip6WireFact` applies this to the words the run builds.

The addresses never change, so `TypeOK` is the only inductive part. The corollary `Ip6Stored` states `Ip6WireOrder` on its own.

### `GpioIrqProofs`

`MasksKept`: `Spec => [](TypeOK /\ EnabledStaysUnmasked)`, for every number of ports and pins.

`EnabledStaysUnmasked` is not inductive without `TypeOK`. The step proof uses lemmas about the IRQ numbering:

- `PinInPort`: a GPIO interrupt names an existing port and bit.
- `PinsApart`: two pins of one port have different bits, since `g = P*(g \div P) + g % P`.
- `ClearKeepsOthers`: clearing pin `g`'s bit keeps every other pin's bit.
- `DetachOutOfRange`: the detach path hands `gpio_irqdisable` a number already reduced by `NR_IRQS`, which fails the range test again because `NR_GPIO_IRQS ≤ NR_IRQS`. So a detach leaves IM as it is, while it clears `want`.

### `IobDumpProofs`

`DumpCorrect`: `Spec => [](NoUninitRead /\ DumpShowsRange)`, for every packet length, offset, length and line width. The corollary `NoUninitReadKept` states the out-of-bounds read on its own.

The inductive invariant adds `LoopInv`. While the loop runs:

- `off0 ≤ pktlen`;
- `len` is the clamped length;
- `offset = off0 + lndx`;
- the positions shown are `off0 .. off0 + min(lndx, len) - 1`.

Lemma `LineStep` shows that one turn prints only columns below the `nbytes` that `iob_copyout` filled, and extends the shown range by exactly those columns. At `Return`, `lndx ≥ len` turns the range into the one `DumpShowsRange` names.

### `UpAssertProofs`

- `TypeCorrect`: `Spec => []TypeOK`.

### `UdpInputProofs`

`SelectionKeptFree`: `InputSpec => SelectionFree`. This holds with any number of threads in bind and connect, for every slot set and port range with fewer slots than ports. A selection runs under `net_lock` and reads the table as it is, so no hypothesis on the callers is needed. The argument is about `udp_select_port`:

- `FreePortExists`: `lport` maps the slots onto the used ports, so by `ConnAssumption` a port of the range is free.
- `TurnHits`: the cursor reaches every port of the range within `PortHi - InitPort` turns.
- `TurnInRange`: every turn stays in `InitPort+1..PortHi-1`.
- `SelectFresh`: the well-foundedness of `<` on `Nat` gives a first free turn, which is the one the `CHOOSE` of `SelectPort` picks. So the loop ends, at a port nobody uses.
- `SelectStep`: only `UdpBindAny` and the unbound branch of `UdpConnect` move a socket from idle into a selection, and both take `SelectPort`.
- `InitType`, `TypeStep` and `RemoveType` (`dq_rem` leaves a queue of slots): `TypeOK` is inductive.

`PortsUnique` itself is not proved. It breaks as soon as two threads are in the calls (`udp_ports_race`). With one thread it is checked by TLC on the `udp_input` instance only, because nothing in the code confines the calls to one thread.

`CountersConsistent`: `InputSpec => [](InputTypeOK /\ drop <= discarded /\ discarded <= recv)`. Every datagram counted in `udp.drop` was deleted, and every deleted datagram was counted in `udp.recv` first. The ordering of the counters is the strengthening that makes the bounds of `InputTypeOK` inductive. `TypeStep` gives the table's part, and `InputCounts` gives one case per outcome of `udp_input`.

### Only model-checked

These stay with TLC:

- `ClosedFormsMatch`: the recursive reference definitions of `MCUdpInput` agree with `TurnFrom` and `Remove`. For every input, this would need induction over data. The library's theorems for that take operator parameters, which none of the installed provers can instantiate. So TLC checks it on the instance. The proofs use the closed forms.
- `PortsUnique`: with one thread in the calls, TLC checks it on the `udp_input` instance. With more threads it does not hold (`udp_ports_race`).
- `PanicBlinks`: liveness, which TLAPS cannot check.
- `MaskCmpByOctet`. The bitwise and is a recursive function over bits, which the provers cannot unfold for all inputs.
- The violation runs.

Liveness and `ENABLED` are out of reach of TLAPS.

## Not modelled

Each of these is listed in `PROJECT.json` with its reason:

- Board files other than `up_pwm.c`:
  - `lpc31_nsh.c` runs a fixed start-up sequence.
  - `px4fmu2_led.c` drives a single GPIO with no caller in the tree; its state space is a handful of bits.
  - `si4713.c` has an empty body.
- Parts of modelled files:
  - the header loop of `iob_dump` and all message text;
  - the state dump of `up_assert`;
  - the HTTP server that `webserver_main` starts.
- The remaining headers: declarations, constants, and the IPv6 variants.

## Plan for later work

- Add the window of `udp_connect` as a property of `UdpInput`.
- Add a liveness property for waiters under weak fairness of `TaskRetry`. This is justified because a woken task is runnable.
