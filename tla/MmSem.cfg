\* Three tasks taking the heap up to three levels deep.
CONSTANTS
    p1 = p1
    p2 = p2
    p3 = p3
    NoHolder = NoHolder
    Procs <- MCProcs
    MaxDepth = 3
SPECIFICATION Spec
INVARIANT TypeOK
INVARIANT Exclusive
INVARIANT ReleaseRestoresIrq
