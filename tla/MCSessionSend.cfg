CONSTANTS
    w1 = w1
    w2 = w2
    main = main
    Workers <- MCWorkers
    Threads <- MCThreads
    MaxSends = 4

SPECIFICATION FairSpec

INVARIANTS
    TypeOK
    ExclusiveSendEvent
    BuffersHeld
    NoEmptySubmit
    NothingStranded

PROPERTIES
    ImplementsChannel
    EventuallySent

CHECK_DEADLOCK FALSE
