SPECIFICATION Spec
CONSTANTS
    p1 = p1
    p2 = p2
    p3 = p3
    p4 = p4
    p5 = p5
    Task = {p1, p2, p3, p4}
    Init1 = p1
    NCpu = 1
    Euids = {0}
    Tracing = FALSE
    GroupWaits = FALSE
    KernelThreads = {}
    Attachers = {p1, p2, p3, p4}
    Lengths = {2}
PROPERTIES
    StopsAtOldest
