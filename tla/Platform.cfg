SPECIFICATION PlatformSpec
CONSTANTS
    Migrators = {"x1", "x2"}
    Purges = {"p1", "p2"}
    Versions = {"v1", "v2", "v3"}
    Datasets = {"d1", "d2"}
    Projects = {"p1", "p2"}
    Orgs = {"o1", "o2"}
    Users = {"u1", "u2", "u3"}
    ParentOf <- MCParent
    Sibling <- MCSibling
    UserOf <- MCUser
    NoteBy <- MCNote
    CoOwned = {"o2"}
    DemoOrgs = {}
    Workspaces = {"o1", "o2"}
    Sessions = {"s1", "s2"}
    Contents = {"c1", "c2"}
    Hash <- MCHash
    Genesis = genesis
    MaxSeq = 4
    NoSession = "none"
    People = {"u1", "u2", "u3"}
    Tenants = {"o1"}
    DemoPeople = {"u3"}
    Handlers = {"h1", "h2"}
    MayOverwrite = FALSE
    MayInterleave = FALSE
    MaxContracts = 3
    Keys = {"k1", "k2"}
    Threads = {"t1", "t2"}
    SizeOf <- MCSizeOf
    Uncached = {2}
    Capacity = 2
    MaxWrites = 2
    Objects = {"b1", "b2", "b3"}
    PageSize = 2
    MaxPurgeAttempts = 2
    Archives = {"a1", "a2"}
    Sweepers = {"w1", "w2"}
    DispatchJobs = {"j1", "j2"}
    FollowUps = {}
    LongJobs = {"j2"}
    Slots = {"s1"}
    FirstSlot = "s1"
    MaxFaults = 0
    Samples = {"s1", "s2", "s3", "s4", "s5", "e1", "e2"}
    EvalSamples = {"e1", "e2"}
    Given <- MCGiven
    Copies = {"s2", "e2"}
    LowQuality = {"s3"}
    Rare = {"s3", "e1"}
    Leaking = {"s2", "e2"}
    Suspects = {"s1", "s3", "e1"}
    MinHeldOut = 2
    MayCap = TRUE
    MaxSignals = 3
    Court = {"c1", "c2", "c3"}
    Courts <- MCCourts
    LabelCases = {"c2", "c3"}
    EvalCount = 40
    LeakSets <- MCLeakSets
    SampleCount = 30
    Backgrounds <- MCBackgrounds
    RuleSets <- MCRuleSets
    MaxAudits = 2
INVARIANTS
    HeadIsDeclared
    SurvivorsWhole NothingOrphaned
    VerifyFindsTampering
    EveryOrgOwned NewestContractCounts
    AccountingExact OwnWritesSeen
    NoLeftovers
    ArchivesMatchRows
    NoLostWakeup
    ComparisonFair
    WeakWitnessOnlyShields ConvictionsHaveWitnesses
PROPERTIES
    OtherVersionsUntouched AppendsAtTheEnd ReviewNeverWorsens
CHECK_DEADLOCK FALSE
