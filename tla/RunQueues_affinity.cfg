SPECIFICATION Spec
CONSTANTS
    NR_CPUS = 2
    Task = {a, b}
    Idle = Idle
    ShortTasks = {}
    CacheHot = {}
    Callers = {a, b}
    Targets = {b}
    Masks = {{0}, {1}}
    PolicyCallers = {}
    PolicyTargets = {}
    Sleepers = {}
    Sleeps = {"UNINTERRUPTIBLE"}
    WORD = 3
    InitMask = {0, 1}
INVARIANT
    AffinityKept
