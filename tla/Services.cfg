SPECIFICATION ServicesSpec
CONSTANTS
    a1 = a1
    o1 = o1
    o2 = o2
    k1 = k1
    e1 = e1
    d1 = d1
    d2 = d2
    h1 = h1
    h2 = h2
    j1 = j1
    w1 = w1
    w2 = w2
    c1 = c1
    c2 = c2
    r1 = r1
    r2 = r2
    r3 = r3
    Automation = {a1}
    Ticker = {d1, d2}
    Occasion = {o1, o2}
    NoOccasion = NoOccasion
    Rules <- SmallRules
    Policy = {"failure"}
    MaxClock = 3
    MaxArming = 2
    Event = {k1}
    Endpoint = {e1}
    Dispatcher = {d1, d2}
    Handler = {h1, h2}
    NoRow = NoRow
    MaxAttempts = 2
    MaxCrashes = 1
    MemoryJob = {j1}
    MemoryWorker = {w1, w2}
    NoJob = NoJob
    MaxStarts = 4
    Child = {c1, c2}
    MaxMail = 1
    MaxRecoveries = 1
    Call = {r1, r2, r3}
    StopItem = StopItem
CHECK_DEADLOCK FALSE
INVARIANTS
    
    OutboxSafe
    ExtractionBounded
    
PROPERTIES
    DeliverySettles
    MemoryJobSettles
    
