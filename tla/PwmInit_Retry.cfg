\* One caller and one allocation failure: the call after the failed one.
CONSTANTS
    c1 = c1
    c2 = c2
    Callers <- MCOneCaller
    MaxNoMem = 1
SPECIFICATION Spec
INVARIANT NoSpuriousFailure
