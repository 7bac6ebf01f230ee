SPECIFICATION Spec
CONSTANTS
    Task = {a, b, c, d}
    First = a
    NULL = NULL
    PID_MAX = 8
    FirstPid = 2
    PIDHASH_SZ = 2
    Threaded = {b}
    Leaders = {b}
    StartsAgain = TRUE
    RunsOut = FALSE
INVARIANT HashFinds
PROPERTY FreshPid
