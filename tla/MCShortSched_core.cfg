SPECIFICATION Spec
CONSTANTS
    t1 = t1
    t2 = t2
    Task = {t1, t2}
    t3 = t3
    Init1 = t1
    Idle = Idle
    WILD = WILD
    HZ = 512
    WORD = 64
    MAX_REQUEST = 3000
    MIN_TIMESLICE = 1
    MAX_TIMESLICE = 1
    MAX_PRIO = 4
    MAX_RT_PRIO = 2
    BONUS = 0
    NICE_RANGE = 1
    Requests = {1, 4}
    Nices = {2, 3}
    Policies = {"OTHER", "FIFO", "RR", "SHORT"}
    RtPriorities = {1}
    SleepStates = {"UNINTERRUPTIBLE"}
    RacyFork = FALSE
INVARIANTS
    TypeOK
    QueuesInOrder
    RunnableIsQueued
    ClassMatchesArray
    SlicePositive
    UninterruptibleExact
    IdleSeesWork
PROPERTIES
    ImplementsPolicy
