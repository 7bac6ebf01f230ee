SPECIFICATION Spec
CONSTANTS
    NR_CPUS = 2
    Task = {a, b}
    Idle = Idle
    ShortTasks = {}
    CacheHot = {}
    Callers = {a}
    Targets = {b}
    Masks = {{0}, {1}, {0, 1}}
    PolicyCallers = {b}
    PolicyTargets = {b}
    Sleepers = {b}
    Sleeps = {"UNINTERRUPTIBLE"}
    WORD = 3
    InitMask = {0, 1}
INVARIANTS
    TypeOK
    NoLockCycle
    QueuedWhereCpuSays
    OneCpuEach
    AffinityKept
    UninterruptibleSum
PROPERTIES
    OnlyMigrationStrands
