\* Three buffers, one of them reserved, two tasks and the interrupt level.
CONSTANTS
    b1 = b1
    b2 = b2
    b3 = b3
    t1 = t1
    t2 = t2
    Isr = Isr
    Buffers <- MCBuffers
    Tasks <- MCTasks
    Throttle = 1
    MinCount <- MCMinCount
SPECIFICATION Spec
SYMMETRY MCSymmetry
INVARIANT SemNeverOverstates
PROPERTY ReserveKept
PROPERTY ImplementsPool
