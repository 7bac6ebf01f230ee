SPECIFICATION FairSpec
CONSTANTS
    NR_CPUS = 2
    Task = {a, b}
    Idle = Idle
    ShortTasks = {}
    CacheHot = {a}
    Callers = {a}
    Targets = {b}
    Masks = {{0}, {1}}
    PolicyCallers = {b}
    PolicyTargets = {b}
    Sleepers = {b}
    Sleeps = {"UNINTERRUPTIBLE"}
    WORD = 3
    InitMask = {0, 1}
INVARIANTS
    TypeOK
    NoLockCycle
    QueuedWhereCpuSays
    OneCpuEach
    AffinityKept
    UninterruptibleSum
PROPERTIES
    OnlyMigrationStrands
    RequestServed
