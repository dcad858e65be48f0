CONSTANTS
    w1 = w1
    w2 = w2
    main = main
    e1 = e1
    s1 = s1
    s2 = s2
    none = none
    Workers <- MCWorkers
    Main = main
    Accepts <- MCAccepts
    Sessions <- MCSessions
    NoSession = none

SPECIFICATION Spec

SYMMETRY MCSymmetry

CONSTRAINT FewCalls

INVARIANTS
    TypeOK
    ReleaseFindsSession
    RegistriesAgree
    AcceptsKept
    KeptAlive
    NothingLeaks

PROPERTIES
    ImplementsLife

CHECK_DEADLOCK FALSE
