SPECIFICATION WorkbenchSpec
CONSTANTS
    a1 = a1
    a2 = a2
    a3 = a3
    b1 = b1
    b2 = b2
    e1 = e1
    e2 = e2
    RefreshToken = {a1, a2, a3}
    ResetToken = {"r1", "r2"}
    Request = {e1, e2}
    NoToken = NoToken
    AttemptLimit = 2
    Conversation = {a1, a2, a3}
    Workspace = {b1, b2}
    Visit = {e1, e2}
    NoConversation = NoConversation
    NoWorkspace = NoWorkspace
    MaxTerminals = 1
    MaxMessages = 1
    Path = {"main.py", "manifest.json"}
    ManifestPath = "manifest.json"
    TrashId = {"t1"}
    Editor = {e1, e2}
    NoPath = NoPath
    MaxVersions = 2
    Socket = {"s1"}
    Command = {"c1"}
    NoCommand = NoCommand
    MaxOutput = 3
    Window = 2
    MaxItems = 4
    MaxRestarts = 1
    Caller = {e1, e2}
    Text = {"old", "new"}
    NoText = NoText
    MaxSessions = 2
    Memory = {a1, a2, a3}
    Key = {b1, b2}
    Value = {e1, e2}
    Writer = {e1, e2}
    NoMemory = NoMemory
    MaxRecords = 1
    MaxCommits = 3
    Extension = {a1, a2, a3}
    Tools = {"search"}
    MaxTokens = 9
    Trigger = 6
    Overhead = 1
    Costs = {2, 3, 8}
    MaxLength = 6
    Recent = 2
    TriggerCount = 3
    Preparer = {e1, e2}
    Nobody = "new"
SYMMETRY Interchangeable
CHECK_DEADLOCK FALSE
INVARIANTS
    WorkbenchTypeOK
    SessionsSound
    ConversationsSound
    FilesSafe
    
    DocumentsAgree
    
    ActivationSound
    
