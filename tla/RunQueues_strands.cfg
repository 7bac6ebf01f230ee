SPECIFICATION TickSpec
CONSTANTS
    NR_CPUS = 2
    Task = {a, b}
    Idle = Idle
    ShortTasks = {}
    CacheHot = {}
    Callers = {a}
    Targets = {b}
    Masks = {{1}}
    PolicyCallers = {}
    PolicyTargets = {}
    Sleepers = {}
    Sleeps = {"UNINTERRUPTIBLE"}
    WORD = 2
    InitMask = {0}
PROPERTY
    IdleCpuStarts
