SPECIFICATION Spec
CONSTANTS
    init_task = init_task
    First = a
    Task = {init_task, a, b, c}
    NULL = NULL
    FlagSets <- ForkVforkThread
    Fails = {"files", "fs", "sighand", "mm"}
    RLIMIT_NPROC = 3
    max_threads = 3
INVARIANTS TypeOK SharesExact MmCountsExact ProcessesExact VforkFrameLives VforkHolds
