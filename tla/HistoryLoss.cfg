SPECIFICATION PartsSpec
CONSTANTS
    Parts = {"assistant"}
    Turns = {"t1", "t2"}
    Chats = {"c1"}
    ChatOf <- OneChat
    OpsOf <- BothKinds
    ReadOps = {}
    NativeOps = {"o2"}
    ConfirmOps = {"o1"}
    MaxPending = 5
    MaxActive = 2
    MaxRounds = 2
    MaxFaults = 1
    Keep = 2
    Batch = 2
    MaxVersion = 2
    MaxEdits = 1
    MaxCrashes = 1
    Plans = {"p1"}
    MaxCalls = 1
    MaxChanges = 4
    MaxBreaks = 1
    Callers = {"c1", "c2"}
    MaxStarts = 3
    MaxRequests = 3
    OaFams = {"f1", "f2"}
    OaCli = {"f2"}
    OaMaxGen = 1
    OaMaxVersion = 1
    OaMaxEvents = 2
    RxReqs = {"a1", "q1"}
    RxKind <- SafeKinds
    RxExecs = {1, 2}
    RxSlots = 1
    RxMaxUses = 1
    RxMaxPolicy = 1
    RxMaxFaults = 1
    KyKeys = {"k1", "k2"}
    KyOlds = {{}, {"k1"}}
    KyMaxOps = 3
    KyMaxFaults = 1
    AsMsgs = {"m1"}
    AsText <- Answers
    AsAdmins = {}
    AsForced <- NoTrigger
    AsMcpAsked = {}
    AsBatches <- PlainBatches
    AsManual = {"shell"}
    AsPrompt = {"post"}
    AsTerminal = {"translate"}
    AsRemote = {"ssh"}
    AsAnalysis = {"ssh"}
    AsMcp = {"mcp"}
    AsNoDedup = {"ssh", "mcp", "translate"}
    AsStored = 5
    AsLimit = 4
    AsMaxIter = 1
    AsThreshold = 1
    MrAdmins = {"a1"}
    MrKeys = {"k1", "k2"}
    MrFirst = "k1"
    MrKinds = {"text"}
    MrCalls = {"c1"}
    MrMaxGen = 2
    MrMaxChecks = 1
    MrMaxStages = 2
    MrMaxFaults = 1
    DbMsgs = {"n1", "n2", "n3"}
    DbChatOf <- TwoChats
    DbWaits = FALSE
    CfOps = {"o1", "o2"}
    CfUsers = {"u1", "u2"}
    ArIds = {"f1", "f2"}
    ArQuota = 2
    ArMaxFaults = 0
    HtRuns = {"r1"}
    HtPlan <- HttpPlans
    HtBackground = {}
    HtOrigins = {"a", "p"}
    HtPlain = {"p"}
    HtMaxHops = 1
    HtSlots = 2
    HtUserMax = 1
    HtWriters = 1
    HtPending = 1
    HtAskAt = 1
    HtCap = 2
    ImUploads = {"u1", "u2"}
    ImMaxFaults = 1
    RmIds = {"m1"}
    RmSlots = {"s1"}
    RmMaxTask = 3
    RmMaxFaults = 2
    AjJobs = {1}
    AjPrompt <- Runbooks
    AjBooks = {"book"}
    AjLoops = {"tick"}
    AjSlots = {"s1"}
    AjLedgerMax = 2
    AjLedgerKeep = 0
    AjMaxTask = 2
    AjMaxTime = 1
    AjMaxEvents = 1
    CrOps = {"v1", "v2"}
    CrOld = "v0"
    CrMaxFaults = 1
    NSpecs = 3
    MaxAgents = 2
    MaxTurns = 2
    MaxTokens = 4
    TokensPerCall = 3
INVARIANT AsNothingForgotten
CHECK_DEADLOCK FALSE
