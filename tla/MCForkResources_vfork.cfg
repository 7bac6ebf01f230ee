SPECIFICATION Spec
CONSTANTS
    init_task = init_task
    First = a
    Task = {init_task, a, b, c}
    NULL = NULL
    FlagSets <- VforkAndNewNamespace
    Fails = {"namespace"}
    RLIMIT_NPROC = 4
    max_threads = 3
INVARIANT VforkHolds
