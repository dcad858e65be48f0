CONSTANTS
    w1 = w1
    w2 = w2
    main = main
    e1 = e1
    s1 = s1
    none = none
    Workers <- MCWorkers
    Pool <- MCWorkers
    Main = main
    Accepts <- MCAccepts
    Sessions <- MCSessions
    NoSession = none
    Events <- MCEvents
    Null = none
    MaxStarts = 2

SPECIFICATION LoopSpec

INVARIANTS
    NullsAccounted
    CompletionsOfOperations

PROPERTIES
    EventuallyDestroyed
    StopReturns

CHECK_DEADLOCK FALSE
