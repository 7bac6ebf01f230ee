SPECIFICATION FairSpec
CONSTANTS
    a = a
    b = b
    c = c
    Task = {a, b, c}
    Calls <- Mixed
    MaxDone = 2
INVARIANTS TypeOK EntriesOnStack NoLostWakeUp
PROPERTIES StopsAtSleeper WaitEnds ImplementsCompletion
