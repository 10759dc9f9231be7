\* Three buffers, two tasks and the interrupt level, CONFIG_IOB_THROTTLE = 0.
CONSTANTS
    b1 = b1
    b2 = b2
    b3 = b3
    t1 = t1
    t2 = t2
    Isr = Isr
    Buffers <- MCBuffers
    Tasks <- MCTasks
    Throttle = 0
    MinCount <- MCMinCount
SPECIFICATION Spec
SYMMETRY MCSymmetry
PROPERTY IobCountAssert
