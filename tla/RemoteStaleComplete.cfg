SPECIFICATION Spec
CONSTANTS
    r1 = r1
    r2 = r2
    q1 = q1
    q2 = q2
    q3 = q3
    None = None
    Job = {1}
    Runner = {r1}
    Target <- OneTarget
    Thread = {q1, q2}
    Lease = 1
    MaxAttempts = 2
    Delay = 1
SYMMETRY Threads
INVARIANTS
    ResultFromCurrentLease
