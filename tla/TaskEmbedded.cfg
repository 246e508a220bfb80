SPECIFICATION Spec
CONSTANTS
    api = api
    w1 = w1
    w2 = w2
    s1 = s1
    s2 = s2
    a1 = a1
    a2 = a2
    None = None
    Api = api
    Task = {1}
    Proc = {api}
    Slot = {s1, s2}
    Host <- HostEmbedded
    Approval = {a1, a2}
    MaxTurns = 2
    MaxCalls = 2
    MaxResumes = 0
    MaxCrashes = 1
    MaxFaults = 1

    
PROPERTIES
    CancelledRunStartsNoTurn
    CompletedIsFinal
