SPECIFICATION Spec
CONSTANTS
    None = None
    first = first
    again = again
    Prompt = {again}
    First = first
    Mail = {1, 2}
    Steering = {1, 2}
    MaxTurns = 2
    MaxCalls = 2
    FreshIds = TRUE
    Split = FALSE
    MaxCrashes = 1
    MaxResumes = 1
INVARIANTS
    
    ModelSeesSettled
    MailInOrder

    
