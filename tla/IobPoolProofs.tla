---------------------------- MODULE IobPoolProofs ----------------------------
(***************************************************************************)
(* Proofs about the I/O buffer pool model IobPool, for every set of        *)
(* buffers and tasks, every CONFIG_IOB_THROTTLE and every count bound.     *)
(***************************************************************************)
EXTENDS IobPool, FiniteSetTheorems, SequenceTheorems, TLAPS

\* A step of Take keeps the free list, the holdings and the counts typed.
LEMMA TakeType ==
    ASSUME TypeOK, NEW a \in Actors, freelist # <<>>, Take(a)
    PROVE  /\ freelist' \in Seq(Buffers)
           /\ held' \in [Actors -> SUBSET Buffers]
           /\ sem' \in [Sems -> Int]
<1>1. Head(freelist) \in Buffers /\ Tail(freelist) \in Seq(Buffers)
    BY HeadTailProperties DEF TypeOK
<1>2. QED
    BY <1>1 DEF TypeOK, Take

\* The initial states are typed.
LEMMA TypeInit == Init => TypeOK
<1> SUFFICES ASSUME Init PROVE TypeOK
    OBVIOUS
<1>1. NBuffers \in Nat
    BY PoolAssumption, FS_CardinalityType DEF NBuffers
<1>2. freelist \in Seq(Buffers)
    BY <1>1 DEF Init
<1>3. sem \in [Sems -> Int]
    BY <1>1, PoolAssumption DEF Init
<1>4. QED
    BY <1>2, <1>3 DEF Init, TypeOK

\* Every step keeps the state typed.
LEMMA TypeStep == TypeOK /\ [Next]_vars => TypeOK'
<1> SUFFICES ASSUME TypeOK, [Next]_vars PROVE TypeOK'
    OBVIOUS
<1>1. ASSUME NEW thr \in BOOLEAN, IsrAlloc(thr) PROVE TypeOK'
    <2>1. CASE CanTake(thr) /\ Take(Isr) /\ UNCHANGED <<pc, throttled>>
        BY <2>1, TakeType DEF CanTake, TypeOK, Actors
    <2>2. CASE UNCHANGED vars
        BY <2>2 DEF vars, TypeOK
    <2>3. QED
        BY <1>1, <2>1, <2>2 DEF IsrAlloc
<1>2. ASSUME NEW t \in Tasks, NEW thr \in BOOLEAN, AllocPass(t, thr)
      PROVE  /\ freelist' \in Seq(Buffers)
             /\ held' \in [Actors -> SUBSET Buffers]
             /\ sem' \in [Sems -> Int]
             /\ pc' \in [Tasks -> {"idle", "blocked", "woken"}]
    <2>1. CASE CanTake(thr) /\ Take(t) /\ pc' = [pc EXCEPT ![t] = "idle"]
        BY <2>1, TakeType DEF CanTake, TypeOK, Actors
    <2>2. CASE /\ ~CanTake(thr)
               /\ sem' = [sem EXCEPT ![SemOf(thr)] = @ - 1]
               /\ pc' = [pc EXCEPT ![t] = IF sem[SemOf(thr)] > 0
                                          THEN "woken" ELSE "blocked"]
               /\ UNCHANGED <<freelist, held>>
        <3>1. SemOf(thr) \in Sems
            BY DEF SemOf, Sems
        <3>2. QED
            BY <2>2, <3>1 DEF TypeOK
    <2>3. QED
        BY <1>2, <2>1, <2>2 DEF AllocPass
<1>3. ASSUME NEW t \in Tasks, NEW thr \in BOOLEAN, TaskAlloc(t, thr)
      PROVE  TypeOK'
    BY <1>2, <1>3 DEF TaskAlloc, TypeOK
<1>4. ASSUME NEW t \in Tasks, TaskRetry(t) PROVE TypeOK'
    BY <1>2, <1>4 DEF TaskRetry, TypeOK
<1>8. ASSUME NEW t \in Tasks, TaskInterrupted(t) PROVE TypeOK'
    <2>1. SemOf(throttled[t]) \in Sems
        BY DEF SemOf, Sems
    <2>2. QED
        BY <1>8, <2>1 DEF TaskInterrupted, TypeOK
<1>5. ASSUME NEW a \in Actors, NEW b \in Buffers, Free(a, b) PROVE TypeOK'
    <2>1. PICK woken \in SUBSET Tasks : PostBoth(woken)
        BY <1>5 DEF Free
    <2>2. freelist' \in Seq(Buffers)
        BY <1>5 DEF Free, TypeOK
    <2>3. sem' \in [Sems -> Int] /\ pc' \in [Tasks -> {"idle", "blocked", "woken"}]
        BY <2>1 DEF PostBoth, TypeOK
    <2>4. QED
        BY <1>5, <2>2, <2>3 DEF Free, TypeOK
<1>6. CASE UNCHANGED vars
    BY <1>6 DEF vars, TypeOK
<1>7. QED
    BY <1>1, <1>3, <1>4, <1>5, <1>6, <1>8 DEF Next

\* Type correctness of the model of iob_alloc.c and iob_free: the free list
\* is a sequence of buffers, the counts are integers and every task is in a
\* known state of iob_allocwait.
THEOREM TypeCorrect == Spec => []TypeOK
BY TypeInit, TypeStep, PTL DEF Spec

(* The counts never overstate the free list.  SemNeverOverstates bounds,   *)
(* for each semaphore, its slack: the count plus its blocked waiters less  *)
(* the free buffers.  No step of the pool raises a slack: a take lowers    *)
(* the count with the list, a sem_wait trades a count for at most one more *)
(* waiter, and a free adds a buffer for the one count it posts while the   *)
(* waiters it wakes only leave the blocked set.                            *)

Slack(s) == sem[s] + Cardinality(Blocked(s)) - Len(freelist)

IInv == TypeOK /\ SemNeverOverstates

\* A set inside S plus one element has at most one element more than S.
LEMMA CardGrow ==
    ASSUME NEW S, NEW T, NEW x, IsFiniteSet(S), T \subseteq S \cup {x}
    PROVE  /\ IsFiniteSet(T)
           /\ Cardinality(T) <= Cardinality(S) + 1
<1>0. /\ IsFiniteSet(S \cup {x})
      /\ Cardinality(S \cup {x}) =
            IF x \in S THEN Cardinality(S) ELSE Cardinality(S) + 1
    BY FS_AddElement
<1>1. Cardinality(S \cup {x}) <= Cardinality(S) + 1
    BY <1>0, FS_CardinalityType
<1>2. IsFiniteSet(T) /\ Cardinality(T) <= Cardinality(S \cup {x})
    BY <1>0, FS_Subset
<1>3. QED
    BY <1>1, <1>2, <1>0, FS_CardinalityType

\* The waiter sets are finite, before and after a step.
LEMMA BlockedFinite ==
    ASSUME NEW s
    PROVE  /\ IsFiniteSet(Blocked(s)) /\ Cardinality(Blocked(s)) \in Nat
           /\ IsFiniteSet(Blocked(s)') /\ Cardinality(Blocked(s)') \in Nat
<1>1. Blocked(s) \subseteq Tasks /\ Blocked(s)' \subseteq Tasks
    BY DEF Blocked
<1>2. QED
    BY <1>1, PoolAssumption, FS_Subset, FS_CardinalityType

\* The invariant read as two bounds on slack.
LEMMA SlackForm ==
    ASSUME TypeOK
    PROVE  SemNeverOverstates <=>
               /\ Slack("iob") <= 0
               /\ Throttle > 0 => Slack("thr") <= -Throttle
<1>1. Len(freelist) \in Nat
    BY LenProperties DEF TypeOK
<1>2. sem["iob"] \in Int /\ sem["thr"] \in Int
    BY DEF TypeOK, Sems
<1>3. /\ Cardinality(Blocked("iob")) \in Nat
      /\ Cardinality(Blocked("thr")) \in Nat
    BY BlockedFinite
<1>4. Throttle \in Nat
    BY PoolAssumption
<1>5. QED
    BY <1>1, <1>2, <1>3, <1>4 DEF SemNeverOverstates, Slack

\* One pass of iob_allocwait's loop raises no slack, when the task was not
\* blocked and its request (throttled or not) is thr.
LEMMA AllocPassSlack ==
    ASSUME TypeOK, NEW t \in Tasks, NEW thr \in BOOLEAN,
           pc[t] \in {"idle", "woken"},
           throttled' \in [Tasks -> BOOLEAN], throttled'[t] = thr,
           \A u \in Tasks \ {t} : throttled'[u] = throttled[u],
           AllocPass(t, thr)
    PROVE  \A s \in Sems : Slack(s)' <= Slack(s)
<1> SUFFICES ASSUME NEW s \in Sems PROVE Slack(s)' <= Slack(s)
    OBVIOUS
<1>0. Len(freelist) \in Nat /\ sem[s] \in Int
    BY LenProperties DEF TypeOK
<1>c. /\ Cardinality(Blocked(s)) \in Nat /\ Cardinality(Blocked(s)') \in Nat
      /\ IsFiniteSet(Blocked(s))
    BY BlockedFinite
<1>1. CASE CanTake(thr) /\ Take(t) /\ pc' = [pc EXCEPT ![t] = "idle"]
    <2>1. Len(freelist') = Len(freelist) - 1
        BY <1>1, HeadTailProperties DEF CanTake, Take, TypeOK
    <2>2. sem'[s] = sem[s] - 1
        BY <1>1 DEF Take
    <2>3. Blocked(s)' = Blocked(s)
        BY <1>1 DEF Blocked, TypeOK
    <2>4. QED
        BY <1>0, <1>c, <2>1, <2>2, <2>3 DEF Slack
<1>2. CASE /\ ~CanTake(thr)
           /\ sem' = [sem EXCEPT ![SemOf(thr)] = @ - 1]
           /\ pc' = [pc EXCEPT ![t] = IF sem[SemOf(thr)] > 0
                                      THEN "woken" ELSE "blocked"]
           /\ UNCHANGED <<freelist, held>>
    <2>1. CASE s = SemOf(thr)
        <3>1. Blocked(s)' \subseteq Blocked(s) \cup {t}
            BY <1>2 DEF Blocked, TypeOK
        <3>2. Cardinality(Blocked(s)') <= Cardinality(Blocked(s)) + 1
            BY <1>c, <3>1, CardGrow
        <3>3. sem'[s] = sem[s] - 1
            BY <1>2, <2>1 DEF TypeOK, Sems, SemOf
        <3>4. QED
            BY <1>0, <1>c, <1>2, <3>2, <3>3 DEF Slack
    <2>2. CASE s # SemOf(thr)
        <3>1. Blocked(s)' \subseteq Blocked(s)
            BY <1>2, <2>2 DEF Blocked, TypeOK
        <3>2. Cardinality(Blocked(s)') <= Cardinality(Blocked(s))
            BY <1>c, <3>1, FS_Subset
        <3>3. sem'[s] = sem[s]
            BY <1>2, <2>2 DEF TypeOK
        <3>4. QED
            BY <1>0, <1>c, <1>2, <3>2, <3>3 DEF Slack
    <2>3. QED
        BY <2>1, <2>2
<1>3. QED
    BY <1>1, <1>2 DEF AllocPass

\* No step of the pool raises the slack of either semaphore.
LEMMA NextSlack ==
    ASSUME TypeOK, [Next]_vars
    PROVE  \A s \in Sems : Slack(s)' <= Slack(s)
<1>1. ASSUME NEW thr \in BOOLEAN, IsrAlloc(thr)
      PROVE  \A s \in Sems : Slack(s)' <= Slack(s)
    <2> SUFFICES ASSUME NEW s \in Sems PROVE Slack(s)' <= Slack(s)
        OBVIOUS
    <2>0. /\ Len(freelist) \in Nat /\ sem[s] \in Int
          /\ Cardinality(Blocked(s)) \in Nat
        BY BlockedFinite, LenProperties DEF TypeOK
    <2>1. CASE CanTake(thr) /\ Take(Isr) /\ UNCHANGED <<pc, throttled>>
        <3>1. Len(freelist') = Len(freelist) - 1
            BY <2>1, HeadTailProperties DEF CanTake, Take, TypeOK
        <3>2. sem'[s] = sem[s] - 1 /\ Blocked(s)' = Blocked(s)
            BY <2>1 DEF Take, Blocked
        <3>3. QED
            BY <2>0, <3>1, <3>2 DEF Slack
    <2>2. CASE UNCHANGED vars
        <3>1. Blocked(s)' = Blocked(s)
            BY <2>2 DEF vars, Blocked
        <3>2. QED
            BY <2>0, <2>2, <3>1 DEF vars, Slack
    <2>3. QED
        BY <1>1, <2>1, <2>2 DEF IsrAlloc
<1>2. ASSUME NEW t \in Tasks, NEW thr \in BOOLEAN, TaskAlloc(t, thr)
      PROVE  \A s \in Sems : Slack(s)' <= Slack(s)
    <2>1. /\ pc[t] \in {"idle", "woken"}
          /\ throttled' \in [Tasks -> BOOLEAN] /\ throttled'[t] = thr
          /\ \A u \in Tasks \ {t} : throttled'[u] = throttled[u]
        BY <1>2 DEF TaskAlloc, TypeOK
    <2>2. QED
        BY <1>2, <2>1, AllocPassSlack DEF TaskAlloc
<1>3. ASSUME NEW t \in Tasks, TaskRetry(t)
      PROVE  \A s \in Sems : Slack(s)' <= Slack(s)
    <2>1. /\ throttled[t] \in BOOLEAN /\ pc[t] \in {"idle", "woken"}
          /\ throttled' \in [Tasks -> BOOLEAN] /\ throttled'[t] = throttled[t]
          /\ \A u \in Tasks \ {t} : throttled'[u] = throttled[u]
        BY <1>3 DEF TaskRetry, TypeOK
    <2>2. QED
        BY <1>3, <2>1, AllocPassSlack DEF TaskRetry
<1>4. ASSUME NEW a \in Actors, NEW b \in Buffers, Free(a, b)
      PROVE  \A s \in Sems : Slack(s)' <= Slack(s)
    <2> SUFFICES ASSUME NEW s \in Sems PROVE Slack(s)' <= Slack(s)
        OBVIOUS
    <2>0. /\ Len(freelist) \in Nat /\ sem[s] \in Int
          /\ Cardinality(Blocked(s)) \in Nat /\ IsFiniteSet(Blocked(s))
          /\ Cardinality(Blocked(s)') \in Nat
        BY BlockedFinite, LenProperties DEF TypeOK
    <2>1. PICK woken \in SUBSET Tasks : PostBoth(woken)
        BY <1>4 DEF Free
    <2>2. Len(freelist') = Len(freelist) + 1
        BY <1>4 DEF Free, TypeOK
    <2>3. sem'[s] = sem[s] + 1
        BY <2>1 DEF PostBoth
    \* the woken tasks leave the blocked sets, and nobody enters them
    <2>4. Blocked(s)' \subseteq Blocked(s)
        BY <1>4, <2>1 DEF Free, PostBoth, Blocked
    <2>5. Cardinality(Blocked(s)') <= Cardinality(Blocked(s))
        BY <2>0, <2>4, FS_Subset
    <2>6. QED
        BY <2>0, <2>2, <2>3, <2>5 DEF Slack
<1>7. ASSUME NEW t \in Tasks, TaskInterrupted(t)
      PROVE  \A s \in Sems : Slack(s)' <= Slack(s)
    \* the count given back pays for the waiter that leaves
    <2> SUFFICES ASSUME NEW s \in Sems PROVE Slack(s)' <= Slack(s)
        OBVIOUS
    <2>0. /\ Len(freelist) \in Nat /\ sem[s] \in Int
          /\ Cardinality(Blocked(s)) \in Nat /\ IsFiniteSet(Blocked(s))
          /\ Cardinality(Blocked(s)') \in Nat
        BY BlockedFinite, LenProperties DEF TypeOK
    <2>1. Len(freelist') = Len(freelist)
        BY <1>7 DEF TaskInterrupted
    <2>2. CASE s = SemOf(throttled[t])
        <3>1. t \in Blocked(s) /\ Blocked(s)' = Blocked(s) \ {t}
            BY <1>7, <2>2 DEF TaskInterrupted, Blocked, TypeOK
        <3>2. Cardinality(Blocked(s)') = Cardinality(Blocked(s)) - 1
            BY <2>0, <3>1, FS_RemoveElement
        <3>3. sem'[s] = sem[s] + 1
            BY <1>7, <2>2 DEF TaskInterrupted, TypeOK
        <3>4. QED
            BY <2>0, <2>1, <3>2, <3>3 DEF Slack
    <2>3. CASE s # SemOf(throttled[t])
        <3>1. Blocked(s)' = Blocked(s)
            BY <1>7, <2>3 DEF TaskInterrupted, Blocked, TypeOK
        <3>2. sem'[s] = sem[s]
            BY <1>7, <2>3 DEF TaskInterrupted, TypeOK
        <3>3. QED
            BY <2>0, <2>1, <3>1, <3>2 DEF Slack
    <2>4. QED
        BY <2>2, <2>3
<1>5. CASE UNCHANGED vars
    <2> SUFFICES ASSUME NEW s \in Sems PROVE Slack(s)' <= Slack(s)
        OBVIOUS
    <2>1. Blocked(s)' = Blocked(s)
        BY <1>5 DEF vars, Blocked
    <2>2. Slack(s) \in Int
        BY BlockedFinite, LenProperties DEF TypeOK, Slack
    <2>3. QED
        BY <1>5, <2>1, <2>2 DEF vars, Slack
<1>6. QED
    BY <1>1, <1>2, <1>3, <1>4, <1>5, <1>7 DEF Next

\* A bound a + b <= c - k survives a step that does not raise a + b - c.
LEMMA SlackArith ==
    ASSUME NEW a \in Int, NEW b \in Nat, NEW c \in Nat,
           NEW a2 \in Int, NEW b2 \in Nat, NEW c2 \in Nat, NEW k \in Nat,
           a + b <= c - k, a2 + b2 - c2 <= a + b - c
    PROVE  a2 + b2 <= c2 - k
OBVIOUS

\* The same with no reserve.
LEMMA SlackArith0 ==
    ASSUME NEW a \in Int, NEW b \in Nat, NEW c \in Nat,
           NEW a2 \in Int, NEW b2 \in Nat, NEW c2 \in Nat,
           a + b <= c, a2 + b2 - c2 <= a + b - c
    PROVE  a2 + b2 <= c2
OBVIOUS

\* The initial free list holds every buffer and nobody waits.
LEMMA InitIInv == Init => IInv
<1> SUFFICES ASSUME Init PROVE IInv
    OBVIOUS
<1>1. TypeOK
    BY TypeInit
<1>2. NBuffers \in Nat
    BY PoolAssumption, FS_CardinalityType DEF NBuffers
<1>3. Len(freelist) = NBuffers
    <2>1. DOMAIN freelist = 1..NBuffers /\ DOMAIN freelist = 1..Len(freelist)
        BY <1>1, LenProperties DEF Init, TypeOK
    <2>2. Len(freelist) \in Nat
        BY <1>1, LenProperties DEF TypeOK
    <2>3. QED
        BY <1>2, <2>1, <2>2
<1>4. Blocked("iob") = {} /\ Blocked("thr") = {}
    BY DEF Init, Blocked
<1>5. Cardinality(Blocked("iob")) = 0 /\ Cardinality(Blocked("thr")) = 0
    BY <1>4, FS_EmptySet
<1>6. sem["iob"] = NBuffers /\ sem["thr"] = NBuffers - Throttle
    BY DEF Init, Sems
<1>7. Slack("iob") <= 0 /\ (Throttle > 0 => Slack("thr") <= -Throttle)
    BY <1>2, <1>3, <1>5, <1>6, PoolAssumption DEF Slack
<1>8. QED
    BY <1>1, <1>7, SlackForm DEF IInv

\* Slack never rises, so its two bounds carry over every step.
LEMMA NextIInv == IInv /\ [Next]_vars => IInv'
<1> SUFFICES ASSUME IInv, [Next]_vars PROVE IInv'
    OBVIOUS
<1>1. TypeOK /\ TypeOK'
    BY TypeStep DEF IInv
<1>2. /\ sem["iob"] + Cardinality(Blocked("iob")) <= Len(freelist)
      /\ Throttle > 0 =>
            sem["thr"] + Cardinality(Blocked("thr")) <= Len(freelist) - Throttle
    BY DEF IInv, SemNeverOverstates
<1>3. /\ sem'["iob"] + Cardinality(Blocked("iob")') - Len(freelist')
         <= sem["iob"] + Cardinality(Blocked("iob")) - Len(freelist)
      /\ sem'["thr"] + Cardinality(Blocked("thr")') - Len(freelist')
         <= sem["thr"] + Cardinality(Blocked("thr")) - Len(freelist)
    <2>1. Slack("iob")' <= Slack("iob") /\ Slack("thr")' <= Slack("thr")
        BY <1>1, NextSlack DEF Sems
    <2>2. QED
        BY <2>1 DEF Slack
<1>4. /\ Cardinality(Blocked("iob")') \in Nat
      /\ Cardinality(Blocked("thr")') \in Nat
      /\ Cardinality(Blocked("iob")) \in Nat
      /\ Cardinality(Blocked("thr")) \in Nat
    BY BlockedFinite
<1>5. /\ Len(freelist') \in Nat /\ Len(freelist) \in Nat
      /\ sem'["iob"] \in Int /\ sem'["thr"] \in Int
      /\ sem["iob"] \in Int /\ sem["thr"] \in Int
    BY <1>1, LenProperties DEF TypeOK, Sems
<1>7. /\ sem'["iob"] + Cardinality(Blocked("iob")') <= Len(freelist')
      /\ Throttle > 0 =>
            sem'["thr"] + Cardinality(Blocked("thr")') <= Len(freelist') - Throttle
    <2>1. sem'["iob"] + Cardinality(Blocked("iob")') <= Len(freelist')
        BY <1>2, <1>3, <1>4, <1>5, SlackArith0, Zenon
    <2>2. ASSUME Throttle > 0
          PROVE  sem'["thr"] + Cardinality(Blocked("thr")') <= Len(freelist') - Throttle
        <3>1. sem["thr"] + Cardinality(Blocked("thr")) <= Len(freelist) - Throttle
            BY <2>2, <1>2, Zenon
        <3>2. Throttle \in Nat
            BY PoolAssumption
        <3>3. /\ sem'["thr"] + Cardinality(Blocked("thr")') - Len(freelist')
                 <= sem["thr"] + Cardinality(Blocked("thr")) - Len(freelist)
              /\ Cardinality(Blocked("thr")') \in Nat
              /\ Cardinality(Blocked("thr")) \in Nat
              /\ Len(freelist') \in Nat /\ Len(freelist) \in Nat
              /\ sem'["thr"] \in Int /\ sem["thr"] \in Int
            BY <1>3, <1>4, <1>5
        <3>4. QED
            BY <3>1, <3>2, <3>3, SlackArith
    <2>3. QED
        BY <2>1, <2>2
<1>8. SemNeverOverstates'
    BY <1>7 DEF SemNeverOverstates
<1>9. QED
    BY <1>1, <1>8 DEF IInv

(* Over-admission (spec 4.2): in every run, for every pool, task set and   *)
(* CONFIG_IOB_THROTTLE, the counts of g_iob_sem and g_throttle_sem with    *)
(* their blocked waiters never promise more buffers than the free list    *)
(* holds, whatever order interrupt-level allocations, task allocations,   *)
(* wakeups and frees run in (iob_alloc.c:100-247).                         *)
THEOREM CountsBounded == Spec => []SemNeverOverstates
<1>1. IInv => SemNeverOverstates
    BY DEF IInv
<1>2. QED
    BY InitIInv, NextIInv, <1>1, PTL DEF Spec

\* A step that hands task t a buffer while t's request is throttled passed
\* the admission test of a throttled request.
LEMMA ThrottledTakeAdmitted ==
    ASSUME TypeOK, [Next]_vars, NEW t \in Tasks,
           throttled'[t], held'[t] \ held[t] # {}
    PROVE  CanTake(TRUE)
<1>1. t # Isr
    BY PoolAssumption
<1>2. ASSUME NEW th \in BOOLEAN, IsrAlloc(th) PROVE FALSE
    BY <1>1, <1>2 DEF IsrAlloc, Take, vars, TypeOK, Actors
<1>3. ASSUME NEW u \in Tasks, NEW th \in BOOLEAN, TaskAlloc(u, th) PROVE CanTake(TRUE)
    <2>1. CASE u = t
        <3>1. th = TRUE
            BY <1>3, <2>1 DEF TaskAlloc, TypeOK
        <3>2. CanTake(th)
            BY <1>3, <2>1 DEF TaskAlloc, AllocPass
        <3>3. QED
            BY <3>1, <3>2
    <2>2. CASE u # t
        BY <1>3, <2>2 DEF TaskAlloc, AllocPass, Take, TypeOK, Actors
    <2>3. QED
        BY <2>1, <2>2
<1>4. ASSUME NEW u \in Tasks, TaskRetry(u) PROVE CanTake(TRUE)
    <2>1. CASE u = t
        <3>1. throttled[t] = TRUE
            BY <1>4, <2>1 DEF TaskRetry, TypeOK
        <3>2. CanTake(throttled[t])
            BY <1>4, <2>1 DEF TaskRetry, AllocPass
        <3>3. QED
            BY <3>1, <3>2
    <2>2. CASE u # t
        BY <1>4, <2>2 DEF TaskRetry, AllocPass, Take, TypeOK, Actors
    <2>3. QED
        BY <2>1, <2>2
<1>5. ASSUME NEW u \in Tasks, TaskInterrupted(u) PROVE FALSE
    BY <1>5 DEF TaskInterrupted
<1>6. ASSUME NEW a \in Actors, NEW b \in Buffers, Free(a, b) PROVE FALSE
    BY <1>6 DEF Free, TypeOK, Actors
<1>7. CASE UNCHANGED vars
    BY <1>7 DEF vars
<1>8. QED
    BY <1>2, <1>3, <1>4, <1>5, <1>6, <1>7 DEF Next

\* Admitted as throttled, the free list holds more than the reserve.
LEMMA ReserveStep ==
    IInv /\ [Next]_vars =>
        [\A t \in Tasks :
            throttled'[t] /\ held'[t] \ held[t] # {} => Len(freelist) > Throttle]_vars
<1> SUFFICES ASSUME IInv, [Next]_vars, NEW t \in Tasks,
                    throttled'[t], held'[t] \ held[t] # {}
             PROVE  Len(freelist) > Throttle
    OBVIOUS
<1>1. CanTake(TRUE)
    BY ThrottledTakeAdmitted DEF IInv
<1>2. Len(freelist) \in Nat /\ Throttle \in Nat
    BY LenProperties, PoolAssumption DEF IInv, TypeOK
<1>3. CASE Throttle = 0
    <2>1. freelist # <<>>
        BY <1>1 DEF CanTake
    <2>2. Len(freelist) # 0
        BY <2>1, EmptySeq DEF IInv, TypeOK
    <2>3. QED
        BY <1>2, <1>3, <2>2
<1>4. CASE Throttle > 0
    <2>1. sem["thr"] > 0
        BY <1>1, <1>4 DEF CanTake, SemOf
    <2>2. sem["thr"] + Cardinality(Blocked("thr")) <= Len(freelist) - Throttle
        BY <1>4 DEF IInv, SemNeverOverstates
    <2>3. Cardinality(Blocked("thr")) \in Nat /\ sem["thr"] \in Int
        BY BlockedFinite DEF IInv, TypeOK, Sems
    <2>4. QED
        BY <1>2, <2>1, <2>2, <2>3
<1>5. QED
    BY <1>2, <1>3, <1>4

(* Throttled admission (spec 4.2) for every pool, task set and            *)
(* CONFIG_IOB_THROTTLE: however allocations at interrupt and task level,  *)
(* wakeups, interruptions and frees interleave, a throttled iob_alloc of  *)
(* a task is handed a buffer only while the free list holds more than the *)
(* reserve.  It rests on the count bound of CountsBounded: a throttled    *)
(* take needs a positive g_throttle_sem count (iob_alloc.c:106-115).      *)
THEOREM ReserveHeld == Spec => ReserveKept
<1>1. Spec => []IInv
    BY InitIInv, NextIInv, PTL DEF Spec
<1>2. QED
    BY <1>1, ReserveStep, PTL DEF Spec, ReserveKept

(* Refinement.  The free list is a sequence without repeats, and every    *)
(* buffer is in exactly one place: on the list or held by one actor.  With *)
(* that, a take moves the head of the list into the taker's hands and      *)
(* nothing else, which is an allocation of the pool; a free moves one held *)
(* buffer onto the list, a release; every other step of iob_alloc (a       *)
(* failed try, a sem_wait, a wakeup, an interruption) touches neither.     *)

\* The elements of a sequence, and that none occurs twice.
SeqElems(s) == {s[i] : i \in DOMAIN s}
NoDupSeq(s) == \A i, j \in DOMAIN s : s[i] = s[j] => i = j

\* Taking the head of a list without repeats removes exactly the head.
LEMMA TailElems ==
    ASSUME NEW S, NEW s \in Seq(S), s # <<>>, NoDupSeq(s)
    PROVE  /\ SeqElems(Tail(s)) = SeqElems(s) \ {Head(s)}
           /\ NoDupSeq(Tail(s))
           /\ Head(s) \in SeqElems(s)
<1> DEFINE n == Len(s)  t == Tail(s)
<1>1. /\ n \in Nat \ {0} /\ DOMAIN s = 1..n
      /\ t \in Seq(S) /\ Len(t) = n - 1
      /\ \A i \in 1..(n - 1) : t[i] = s[i + 1]
      /\ Head(s) = s[1]
    BY HeadTailProperties, LenProperties, EmptySeq
<1>2. DOMAIN t = 1..(n - 1)
    BY <1>1, LenProperties
<1>3. SeqElems(t) = {s[j] : j \in 2..n}
    <2>1. \A x \in SeqElems(t) : \E j \in 2..n : x = s[j]
        BY <1>1, <1>2 DEF SeqElems
    <2>2. \A j \in 2..n : s[j] \in SeqElems(t)
        <3> TAKE j \in 2..n
        <3>1. j - 1 \in DOMAIN t /\ t[j - 1] = s[j]
            BY <1>1, <1>2
        <3>2. QED
            BY <3>1 DEF SeqElems
    <2>3. QED
        BY <2>1, <2>2
<1>4. \A j \in 2..n : s[j] # s[1]
    BY <1>1 DEF NoDupSeq
<1>5. SeqElems(t) = SeqElems(s) \ {Head(s)}
    <2>1. SeqElems(s) = {s[1]} \cup {s[j] : j \in 2..n}
        BY <1>1 DEF SeqElems
    <2>2. QED
        BY <1>1, <1>3, <1>4, <2>1
<1>6. NoDupSeq(t)
    BY <1>1, <1>2 DEF NoDupSeq
<1>7. Head(s) \in SeqElems(s)
    BY <1>1 DEF SeqElems
<1>8. QED
    BY <1>5, <1>6, <1>7

\* Pushing an element that is not on a list without repeats adds exactly it.
LEMMA ConsElems ==
    ASSUME NEW S, NEW s \in Seq(S), NEW e \in S, NoDupSeq(s), e \notin SeqElems(s)
    PROVE  /\ SeqElems(<<e>> \o s) = SeqElems(s) \cup {e}
           /\ NoDupSeq(<<e>> \o s)
<1> DEFINE n == Len(s)  c == <<e>> \o s
<1>1. /\ n \in Nat /\ DOMAIN s = 1..n /\ <<e>> \in Seq(S) /\ Len(<<e>>) = 1
    BY LenProperties
<1>2. /\ c \in Seq(S) /\ Len(c) = n + 1
      /\ \A i \in 1..(n + 1) : c[i] = IF i <= 1 THEN e ELSE s[i - 1]
    BY <1>1, ConcatProperties
<1>3. DOMAIN c = 1..(n + 1)
    BY <1>2, LenProperties
<1>4. SeqElems(c) = SeqElems(s) \cup {e}
    <2>1. \A x \in SeqElems(c) : x = e \/ \E j \in 1..n : x = s[j]
        BY <1>2, <1>3 DEF SeqElems
    <2>2. \A j \in 1..n : s[j] \in SeqElems(c)
        <3> TAKE j \in 1..n
        <3>1. j + 1 \in DOMAIN c /\ c[j + 1] = s[j]
            BY <1>2, <1>3
        <3>2. QED
            BY <3>1 DEF SeqElems
    <2>3. e \in SeqElems(c)
        BY <1>2, <1>3 DEF SeqElems
    <2>4. QED
        BY <1>1, <2>1, <2>2, <2>3 DEF SeqElems
<1>5. \A j \in 1..n : s[j] # e
    BY <1>1 DEF SeqElems
<1>6. NoDupSeq(c)
    BY <1>1, <1>2, <1>3, <1>5 DEF NoDupSeq
<1>7. QED
    BY <1>4, <1>6

RInv == /\ TypeOK
        /\ NoDupSeq(freelist)
        /\ Abs!OwnedOnce

LEMMA InitRInv == Init => RInv
<1> SUFFICES ASSUME Init PROVE RInv
    OBVIOUS
<1>1. TypeOK
    BY TypeInit
<1>2. NBuffers \in Nat
    BY PoolAssumption, FS_CardinalityType DEF NBuffers
<1>3. DOMAIN freelist = 1..NBuffers
    BY DEF Init
<1>4. NoDupSeq(freelist)
    BY <1>3 DEF Init, NoDupSeq
<1>5. FreeSet = Buffers
    BY <1>3 DEF Init, FreeSet
<1>6. Abs!OwnedOnce
    BY <1>5 DEF Init, Abs!OwnedOnce
<1>7. QED
    BY <1>1, <1>4, <1>6 DEF RInv

\* A take moves the head of the list to the taker: an allocation.
LEMMA TakeRefines ==
    ASSUME RInv, NEW a \in Actors, freelist # <<>>, Take(a)
    PROVE  /\ Abs!Alloc(a)
           /\ NoDupSeq(freelist') /\ Abs!OwnedOnce'
<1> DEFINE h == Head(freelist)
<1>1. /\ FreeSet' = FreeSet \ {h}
      /\ NoDupSeq(freelist')
      /\ h \in FreeSet
    BY TailElems DEF RInv, TypeOK, Take, FreeSet, SeqElems
<1>2. held' = [held EXCEPT ![a] = @ \cup {h}]
    BY DEF Take
<1>3. Abs!Alloc(a)
    BY <1>1, <1>2 DEF Abs!Alloc
<1>4. \A o \in Actors : h \notin held[o]
    BY <1>1 DEF RInv, Abs!OwnedOnce, TypeOK
<1>5. Abs!OwnedOnce'
    BY <1>1, <1>2, <1>4 DEF RInv, Abs!OwnedOnce, TypeOK
<1>6. QED
    BY <1>1, <1>3, <1>5

\* A free pushes a held buffer on the list: a release.
LEMMA FreeRefines ==
    ASSUME RInv, NEW a \in Actors, NEW b \in Buffers, Free(a, b)
    PROVE  /\ Abs!Release(a, b)
           /\ NoDupSeq(freelist') /\ Abs!OwnedOnce'
<1>1. b \in held[a] /\ b \notin FreeSet
    BY DEF RInv, Abs!OwnedOnce, Free, TypeOK
<1>2. /\ FreeSet' = FreeSet \cup {b}
      /\ NoDupSeq(freelist')
    <2>1. freelist' = <<b>> \o freelist
        BY DEF Free
    <2>2. FreeSet' = SeqElems(<<b>> \o freelist) /\ FreeSet = SeqElems(freelist)
        BY <2>1 DEF FreeSet, SeqElems
    <2>3. /\ SeqElems(<<b>> \o freelist) = SeqElems(freelist) \cup {b}
          /\ NoDupSeq(<<b>> \o freelist)
        BY <1>1, <2>2, ConsElems DEF RInv, TypeOK
    <2>4. QED
        BY <2>1, <2>2, <2>3
<1>3. held' = [held EXCEPT ![a] = @ \ {b}]
    BY DEF Free
<1>4. Abs!Release(a, b)
    BY <1>1, <1>2, <1>3 DEF Abs!Release
<1>5. \A o \in Actors : o # a => b \notin held[o]
    BY <1>1 DEF RInv, Abs!OwnedOnce, TypeOK
<1>6. Abs!OwnedOnce'
    BY <1>1, <1>2, <1>3, <1>5 DEF RInv, Abs!OwnedOnce, TypeOK
<1>7. QED
    BY <1>2, <1>4, <1>6

\* Every step keeps the invariant and is a step of the pool or a stutter.
LEMMA NextRefines ==
    RInv /\ [Next]_vars => RInv' /\ [Abs!Next]_Abs!poolVars
<1> SUFFICES ASSUME RInv, [Next]_vars PROVE RInv' /\ [Abs!Next]_Abs!poolVars
    OBVIOUS
<1>1. TypeOK'
    BY TypeStep DEF RInv
<1> DEFINE Stutter == UNCHANGED <<freelist, held>>
<1>2. Stutter => RInv' /\ [Abs!Next]_Abs!poolVars
    BY <1>1 DEF Stutter, RInv, Abs!OwnedOnce, Abs!poolVars, FreeSet
<1>3. ASSUME NEW a \in Actors, freelist # <<>>, Take(a)
      PROVE  RInv' /\ [Abs!Next]_Abs!poolVars
    BY <1>1, <1>3, TakeRefines DEF RInv, Abs!Next
<1>4. ASSUME NEW thr \in BOOLEAN, IsrAlloc(thr) PROVE RInv' /\ [Abs!Next]_Abs!poolVars
    <2>1. Isr \in Actors
        BY DEF Actors
    <2>2. CASE CanTake(thr) /\ Take(Isr)
        BY <1>3, <2>1, <2>2 DEF CanTake
    <2>3. CASE UNCHANGED vars
        BY <1>2, <2>3 DEF vars, Stutter
    <2>4. QED
        BY <1>4, <2>2, <2>3 DEF IsrAlloc
<1>5. ASSUME NEW t \in Tasks, NEW thr \in BOOLEAN, AllocPass(t, thr)
      PROVE  RInv' /\ [Abs!Next]_Abs!poolVars
    <2>1. t \in Actors
        BY DEF Actors
    <2>2. QED
        BY <1>2, <1>3, <1>5, <2>1 DEF AllocPass, CanTake, Stutter
<1>6. ASSUME NEW a \in Actors, NEW b \in Buffers, Free(a, b)
      PROVE  RInv' /\ [Abs!Next]_Abs!poolVars
    BY <1>1, <1>6, FreeRefines DEF RInv, Abs!Next
<1>7. CASE UNCHANGED vars
    BY <1>2, <1>7 DEF vars, Stutter
<1>8. ASSUME NEW t \in Tasks, NEW thr \in BOOLEAN, TaskAlloc(t, thr)
      PROVE  RInv' /\ [Abs!Next]_Abs!poolVars
    BY <1>5, <1>8 DEF TaskAlloc
<1>9. ASSUME NEW t \in Tasks, TaskRetry(t)
      PROVE  RInv' /\ [Abs!Next]_Abs!poolVars
    BY <1>5, <1>9 DEF TaskRetry, TypeOK, RInv
<1>10. ASSUME NEW t \in Tasks, TaskInterrupted(t)
       PROVE  RInv' /\ [Abs!Next]_Abs!poolVars
    BY <1>2, <1>10 DEF TaskInterrupted, Stutter
<1>11. QED
    BY <1>4, <1>6, <1>7, <1>8, <1>9, <1>10 DEF Next

(* The pool the callers see: every run of iob_alloc, iob_tryalloc and      *)
(* iob_free, with any interleaving of interrupt-level and task-level       *)
(* allocations, waits, wakeups and frees, is a run of the abstract pool in *)
(* which a buffer is only ever handed out while free and only given back   *)
(* by the actor that holds it.                                             *)
THEOREM Refinement == Spec => ImplementsPool
<1>1. Init => Abs!Init
    BY InitRInv DEF RInv, Init, Abs!Init, FreeSet, Abs!OwnedOnce
<1>2. QED
    BY InitRInv, NextRefines, <1>1, PTL DEF Spec, ImplementsPool, Abs!Spec

=============================================================================
