SPECIFICATION PartsFairSpec
CONSTANTS
    Parts = {"turns", "events", "mcp", "channels", "exec", "keys", "assistant", "models",
             "debounce", "confirm", "artifacts", "http", "import", "reminders",
             "agents"}
    Turns = {"t1", "t2"}
    Chats = {"c1"}
    ChatOf <- OneChat
    OpsOf <- Confirm
    ReadOps = {}
    NativeOps = {"o1"}
    ConfirmOps = {"o1"}
    MaxPending = 5
    MaxActive = 2
    MaxRounds = 1
    MaxFaults = 1
    Keep = 2
    Batch = 2
    MaxVersion = 2
    MaxEdits = 0
    MaxCrashes = 1
    Plans = {"p1"}
    MaxCalls = 1
    MaxChanges = 2
    MaxBreaks = 1
    Callers = {"c1", "c2"}
    MaxStarts = 3
    MaxRequests = 2
    OaFams = {"f1", "f2"}
    OaCli = {"f2"}
    OaMaxGen = 1
    OaMaxVersion = 1
    OaMaxEvents = 2
    RxReqs = {"k1", "k2"}
    RxKind <- SafeKinds
    RxExecs = {1, 2}
    RxSlots = 2
    RxMaxUses = 1
    RxMaxPolicy = 0
    RxMaxFaults = 1
    KyKeys = {"k1", "k2"}
    KyOlds = {{}, {"k1"}}
    KyMaxOps = 2
    KyMaxFaults = 1
    AsMsgs = {"m1"}
    AsText <- Answers
    AsAdmins = {}
    AsForced <- NoteFirst
    AsMcpAsked = {"m1"}
    AsBatches <- PlainBatches
    AsManual = {"shell"}
    AsPrompt = {"post"}
    AsTerminal = {"translate"}
    AsRemote = {"ssh"}
    AsAnalysis = {"ssh"}
    AsMcp = {"mcp"}
    AsNoDedup = {"ssh", "mcp", "translate"}
    AsStored = 3
    AsLimit = 9
    AsMaxIter = 3
    AsThreshold = 2
    MrAdmins = {"a1"}
    MrKeys = {"k1", "k2"}
    MrFirst = "k1"
    MrKinds = {"text"}
    MrCalls = {}
    MrMaxGen = 2
    MrMaxChecks = 1
    MrMaxStages = 1
    MrMaxFaults = 1
    DbMsgs = {"n1", "n2", "n3"}
    DbChatOf <- TwoChats
    DbWaits = FALSE
    CfOps = {"o1", "o2"}
    CfUsers = {"u1"}
    ArIds = {"f1"}
    ArQuota = 2
    ArMaxFaults = 2
    HtRuns = {"r2", "r3"}
    HtPlan <- HttpPlans
    HtBackground = {"r2"}
    HtOrigins = {"a", "p"}
    HtPlain = {"p"}
    HtMaxHops = 1
    HtSlots = 1
    HtUserMax = 1
    HtWriters = 1
    HtPending = 1
    HtAskAt = 1
    HtCap = 2
    ImUploads = {"u1"}
    ImMaxFaults = 1
    RmIds = {"m1"}
    RmSlots = {"s1"}
    RmMaxTask = 3
    RmMaxFaults = 3
    AjJobs = {1}
    AjPrompt <- Runbooks
    AjBooks = {"book"}
    AjLoops = {"tick"}
    AjSlots = {"s1"}
    AjLedgerMax = 2
    AjLedgerKeep = 0
    AjMaxTask = 2
    AjMaxTime = 1
    AjMaxEvents = 1
    CrOps = {"v1", "v2"}
    CrOld = "v0"
    CrMaxFaults = 1
    NSpecs = 3
    MaxAgents = 2
    MaxTurns = 2
    MaxTokens = 1
    TokensPerCall = 1
INVARIANTS
    AsBounded NothingLost
PROPERTIES
    WorkSettles MessagesArrive WaitsEnd
CHECK_DEADLOCK FALSE
