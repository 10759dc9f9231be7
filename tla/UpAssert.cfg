\* Four tasks and the idle task; assertions in tasks, in the idle task and
\* in interrupt handlers.
CONSTANTS
    t1 = t1
    t2 = t2
    t3 = t3
    t4 = t4
    Idle = Idle
    Tasks <- MCTasks
SPECIFICATION Spec
PROPERTY PanicBlinks
