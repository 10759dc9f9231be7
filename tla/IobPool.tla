------------------------------- MODULE IobPool -------------------------------
(***************************************************************************)
(* The I/O buffer pool of net/iob (iob_alloc.c): a LIFO free list of       *)
(* buffers g_iob_freelist and two NuttX counting semaphores, g_iob_sem     *)
(* (buffers available) and g_throttle_sem (buffers available to throttled  *)
(* requests, CONFIG_IOB_THROTTLE fewer).  Allocation is reached from       *)
(* interrupt level (iob_tryalloc only) and from tasks (iob_allocwait,      *)
(* which blocks on the semaphore and retries).  Every step below runs with *)
(* interrupts disabled in the code, so each is atomic; the interleaving    *)
(* that matters is between a task blocking or waking and the other actors. *)
(*                                                                         *)
(* iob_free, iob_initialize and the semaphore primitives are not under     *)
(* src/; they are modelled from the spec and the NuttX semaphore contract: *)
(* sem_wait decrements the count and blocks when it was not positive;      *)
(* sem_post increments it and, when the result is not positive, wakes one  *)
(* task blocked on it.                                                     *)
(***************************************************************************)
EXTENDS Naturals, Integers, Sequences, FiniteSets

CONSTANTS
    Buffers,    \* the IOBs of the pool (CONFIG_IOB_NBUFFERS of them)
    Tasks,      \* tasks that call iob_alloc from task level
    Isr,        \* the interrupt-level caller
    Throttle,   \* CONFIG_IOB_THROTTLE
    MinCount    \* model bound: no step takes a semaphore count below it

ASSUME PoolAssumption ==
    /\ IsFiniteSet(Buffers)
    /\ Buffers # {}
    /\ IsFiniteSet(Tasks)
    /\ Isr \notin Tasks
    /\ Throttle \in Nat
    /\ Throttle <= Cardinality(Buffers)
    /\ MinCount \in Int

NBuffers == Cardinality(Buffers)

\* Everyone that can hold buffers.
Actors == Tasks \cup {Isr}

\* The two semaphores, g_iob_sem and g_throttle_sem.
Sems == {"iob", "thr"}

VARIABLES
    freelist,   \* g_iob_freelist, head first
    held,       \* held[a]: buffers allocated by actor a and not yet freed
    sem,        \* sem[s]: semcount of g_iob_sem / g_throttle_sem
    pc,         \* pc[t] for a task in iob_allocwait: "idle", "blocked", "woken"
    throttled   \* throttled[t]: the argument of the task's current allocation

vars == <<freelist, held, sem, pc, throttled>>

TypeOK ==
    /\ freelist \in Seq(Buffers)
    /\ held \in [Actors -> SUBSET Buffers]
    /\ sem \in [Sems -> Int]
    /\ pc \in [Tasks -> {"idle", "blocked", "woken"}]
    /\ throttled \in [Tasks -> BOOLEAN]

(* Helpers.                                                                *)

\* The semaphore an allocation checks and waits on (iob_alloc.c:94-98,
\* 174-180): the throttle semaphore only for throttled requests, and only
\* when CONFIG_IOB_THROTTLE > 0.
SemOf(thr) == IF thr /\ Throttle > 0 THEN "thr" ELSE "iob"

\* Tasks blocked in sem_wait on semaphore s.
Blocked(s) == {t \in Tasks : pc[t] = "blocked" /\ SemOf(throttled[t]) = s}

\* Tasks woken from sem_wait on semaphore s and not yet run again.
Woken(s) == {t \in Tasks : pc[t] = "woken" /\ SemOf(throttled[t]) = s}

\* Mutant: the count test dropped, as if CONFIG_IOB_THROTTLE were 0.
CanTakeUnthrottled(thr) ==
    freelist # <<>>

\* The admission test of iob_tryalloc (iob_alloc.c:106-115): the semaphore
\* count is checked only when CONFIG_IOB_THROTTLE > 0; the free list always.
CanTake(thr) ==
    /\ Throttle > 0 => sem[SemOf(thr)] > 0
    /\ freelist # <<>>

\* Mutant: g_iob_sem is not decremented when a buffer is taken.
TakeKeepIobCount(a) ==
    /\ freelist' = Tail(freelist)
    /\ held' = [held EXCEPT ![a] = @ \cup {Head(freelist)}]
    /\ sem' = [sem EXCEPT !["thr"] = @ - 1]
    /\ \A s \in Sems : sem'[s] >= MinCount

\* Mutant: the head is handed out but g_iob_freelist is not advanced.
TakeNoPop(a) ==
    /\ freelist' = freelist
    /\ held' = [held EXCEPT ![a] = @ \cup {Head(freelist)}]
    /\ sem' = [s \in Sems |-> sem[s] - 1]
    /\ \A s \in Sems : sem'[s] >= MinCount

\* The successful branch of iob_tryalloc (iob_alloc.c:114-150): pop the
\* head of the free list for actor a and decrement both counts.  The reset
\* of the buffer's fields is data the model does not track.
Take(a) ==
    /\ freelist' = Tail(freelist)
    /\ held' = [held EXCEPT ![a] = @ \cup {Head(freelist)}]
    /\ sem' = [s \in Sems |-> sem[s] - 1]
    /\ \A s \in Sems : sem'[s] >= MinCount

\* sem_post on each semaphore in turn: increment, and wake one task blocked
\* on it when the new count is not positive.  woken is the set of tasks
\* that leave "blocked".
PostBoth(woken) ==
    /\ woken \subseteq Blocked("iob") \cup Blocked("thr")
    /\ \A s \in Sems :
          IF sem[s] + 1 <= 0 /\ Blocked(s) # {}
          THEN Cardinality(woken \cap Blocked(s)) = 1
          ELSE woken \cap Blocked(s) = {}
    /\ sem' = [s \in Sems |-> sem[s] + 1]
    /\ pc' = [t \in Tasks |-> IF t \in woken THEN "woken" ELSE pc[t]]

(* Actions.                                                                *)

\* iob_initialize pushes each buffer of the pool onto the free list once:
\* the list holds every buffer, and no buffer twice.
Init ==
    /\ freelist \in {f \in [1..NBuffers -> Buffers] :
                        /\ \A b \in Buffers : \E i \in 1..NBuffers : f[i] = b
                        /\ \A i, j \in 1..NBuffers : f[i] = f[j] => i = j}
    /\ held = [a \in Actors |-> {}]
    /\ sem = [s \in Sems |-> IF s = "iob" THEN NBuffers ELSE NBuffers - Throttle]
    /\ pc = [t \in Tasks |-> "idle"]
    /\ throttled = [t \in Tasks |-> FALSE]

\* iob_alloc at interrupt level: iob_tryalloc only (iob_alloc.c:236-241).
\* On failure the caller gets NULL and nothing changes.
IsrAlloc(thr) ==
    \/ /\ CanTake(thr)
       /\ Take(Isr)
       /\ UNCHANGED <<pc, throttled>>
    \/ /\ ~CanTake(thr)
       /\ UNCHANGED vars

\* One pass of the loop of iob_allocwait for task t (iob_alloc.c:189-214):
\* iob_tryalloc, and when it fails sem_wait on the selected semaphore,
\* which decrements the count and blocks unless the count was positive.
AllocPass(t, thr) ==
    \/ /\ CanTake(thr)
       /\ Take(t)
       /\ pc' = [pc EXCEPT ![t] = "idle"]
    \/ /\ ~CanTake(thr)
       /\ sem' = [sem EXCEPT ![SemOf(thr)] = @ - 1]
       /\ sem'[SemOf(thr)] >= MinCount
       /\ pc' = [pc EXCEPT ![t] = IF sem[SemOf(thr)] > 0
                                  THEN "woken" ELSE "blocked"]
       /\ UNCHANGED <<freelist, held>>

\* A task calls iob_alloc(thr) from task level (iob_alloc.c:242-247).
TaskAlloc(t, thr) ==
    /\ pc[t] = "idle"
    /\ throttled' = [throttled EXCEPT ![t] = thr]
    /\ AllocPass(t, thr)

\* A task woken from sem_wait runs the loop again (iob_alloc.c:214).
TaskRetry(t) ==
    /\ pc[t] = "woken"
    /\ AllocPass(t, throttled[t])
    /\ UNCHANGED throttled

\* A signal interrupts the sem_wait of blocked task t: the wait gives its
\* count back and returns an error (EINTR), so the loop of iob_allocwait
\* ends (iob_alloc.c:204, 214-217) and iob_alloc returns NULL.
TaskInterrupted(t) ==
    /\ pc[t] = "blocked"
    /\ sem' = [sem EXCEPT ![SemOf(throttled[t])] = @ + 1]
    /\ pc' = [pc EXCEPT ![t] = "idle"]
    /\ UNCHANGED <<freelist, held, throttled>>

\* iob_free by actor a of one buffer it holds (spec 4.2; not under src/):
\* push it on the free list and post both semaphores.
Free(a, b) ==
    /\ a \in Tasks => pc[a] = "idle"
    /\ b \in held[a]
    /\ freelist' = <<b>> \o freelist
    /\ held' = [held EXCEPT ![a] = @ \ {b}]
    /\ \E woken \in SUBSET Tasks : PostBoth(woken)
    /\ UNCHANGED throttled

Next ==
    \/ \E thr \in BOOLEAN : IsrAlloc(thr)
    \/ \E t \in Tasks, thr \in BOOLEAN : TaskAlloc(t, thr)
    \/ \E t \in Tasks : TaskRetry(t) \/ TaskInterrupted(t)
    \/ \E a \in Actors, b \in Buffers : Free(a, b)

Spec == Init /\ [][Next]_vars

(* Properties.                                                             *)

\* The buffers on the free list.
FreeSet == {freelist[i] : i \in DOMAIN freelist}

\* The pool as its callers see it: the free list as a set, and the buffers
\* each actor holds.
Abs == INSTANCE BufferPool WITH free <- FreeSet, owned <- held, Owners <- Actors

(* The buffer pool implements the abstract pool: every successful          *)
(* iob_tryalloc, from a task or an interrupt handler, hands one free       *)
(* buffer to one caller and removes it from the free list, and iob_free    *)
(* returns it; failed attempts, blocking, waking and interrupted waits are *)
(* invisible to the callers' view.  With OwnedOnce of the abstract pool    *)
(* this is the spec's promise that an allocated buffer is never reachable  *)
(* from the free list until it is freed.                                   *)
ImplementsPool == Abs!Spec

(* The semaphore counts never promise more buffers than the free list      *)
(* holds: g_iob_sem's count plus the tasks blocked on it is at most the    *)
(* length of the free list, and g_throttle_sem's the same less the         *)
(* CONFIG_IOB_THROTTLE reserve.  iob_tryalloc relies on it when it takes a *)
(* count by a bare decrement (iob_alloc.c:124-141), and it has to survive  *)
(* allocations at interrupt level racing tasks that block and wake.       *)
SemNeverOverstates ==
    /\ sem["iob"] + Cardinality(Blocked("iob")) <= Len(freelist)
    /\ Throttle > 0 =>
          sem["thr"] + Cardinality(Blocked("thr")) <= Len(freelist) - Throttle

(* Throttled admission (spec 4.2): a throttled iob_alloc by a task is      *)
(* granted a buffer only while more than CONFIG_IOB_THROTTLE buffers are   *)
(* free, so the reserve stays for non-throttled callers.                   *)
ReserveKept ==
    [][\A t \in Tasks :
          throttled'[t] /\ held'[t] \ held[t] # {} => Len(freelist) > Throttle]_vars

(* The DEBUGASSERT after the decrement of g_iob_sem in iob_tryalloc        *)
(* (iob_alloc.c:131-132): taking a buffer never leaves the count negative. *)
IobCountAssert ==
    [][Len(freelist') < Len(freelist) => sem'["iob"] >= 0]_vars

(* The DEBUGASSERT after the decrement of g_throttle_sem (iob_alloc.c:     *)
(* 139-140, spec 4.2): taking a buffer never drives the throttle count     *)
(* below -CONFIG_IOB_THROTTLE.                                             *)
ThrottleCountAssert ==
    [][Len(freelist') < Len(freelist) => sem'["thr"] >= -Throttle]_vars

(* The race noted in iob_allocwait (iob_alloc.c:206-211, spec 5) is benign *)
(* only if a task stays blocked on g_iob_sem only while every free buffer  *)
(* is spoken for by a task already woken to take it: a wake costs at most  *)
(* an extra wait, and a buffer never sits free while its waiter sleeps.    *)
NoStrandedWaiter ==
    Blocked("iob") # {} => Len(freelist) <= Cardinality(Woken("iob"))

=============================================================================
