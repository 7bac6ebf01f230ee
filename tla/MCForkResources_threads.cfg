SPECIFICATION Spec
CONSTANTS
    init_task = init_task
    First = a
    Task = {init_task, a, b, c, d}
    NULL = NULL
    FlagSets <- ForkVforkThread
    Fails = {"files", "fs", "sighand", "mm"}
    RLIMIT_NPROC = 4
    max_threads = 3
INVARIANT ThreadLimit
