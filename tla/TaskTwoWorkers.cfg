SPECIFICATION Spec
CONSTANTS
    api = api
    w1 = w1
    w2 = w2
    s1 = s1
    s2 = s2
    a1 = a1
    a2 = a2
    None = None
    Api = api
    Task = {1}
    Proc = {api, w1, w2}
    Slot = {s1, s2}
    Host <- HostTwoWorkers
    Approval = {a1}
    MaxTurns = 1
    MaxCalls = 1
    MaxResumes = 0
    MaxCrashes = 1
    MaxFaults = 0
SYMMETRY SymmetricWorkers
INVARIANTS
    OneExecutionPerEpoch
    ApprovalGate
    AnswersPerEpoch
