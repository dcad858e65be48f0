CONSTANTS
    w1 = w1
    w2 = w2
    main = main
    e1 = e1
    s1 = s1
    s2 = s2
    none = none
    Workers <- MCWorkers
    Main = main
    Accepts <- MCAccepts
    Sessions <- MCSessions
    NoSession = none

SPECIFICATION Spec

SYMMETRY MCSymmetry

INVARIANTS
    LeavesGame

CHECK_DEADLOCK FALSE
