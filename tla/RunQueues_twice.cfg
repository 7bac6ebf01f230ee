SPECIFICATION Spec
CONSTANTS
    NR_CPUS = 2
    Task = {a, b}
    Idle = Idle
    ShortTasks = {}
    CacheHot = {}
    Callers = {}
    Targets = {b}
    Masks = {{0}, {0, 1}}
    PolicyCallers = {a, b}
    PolicyTargets = {a, b}
    Sleepers = {b}
    Sleeps = {"UNINTERRUPTIBLE"}
    WORD = 3
    InitMask = {0, 1}
INVARIANT
    UninterruptibleSum
