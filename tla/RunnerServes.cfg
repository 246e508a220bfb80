SPECIFICATION RunnerSpec
CONSTANTS
    r1 = r1
    r2 = r2
    q1 = q1
    q2 = q2
    None = None
    Job = {1}
    Runner = {r1, r2}
    Target <- OneTarget
    Thread = {q1, q2}
    Lease = 1
    MaxAttempts = 2
    Delay = 1
    MaxCrashes = 1
    MaxFaults = 1
INVARIANTS
    RunnerInStep
PROPERTIES
    JobEnds
    WaitedJobEnds
