CONSTANTS
    None = None
    OtherTag = "other"
    Slugs <- MCSlugs
    Names <- MCNames
    Models <- MCModels
    Serials <- MCSerials
    Fingerprints <- MCFingerprints
    Tags <- MCTags
    PhysPaths <- MCPhysPaths
    Codes = {}
    Identities <- MCIdentities
    Slugify <- MCSlugify
    Numbered <- MCNumbered
    MaxSuffix = 1
    MaxRecords = 1
    SaveMayFail = FALSE
    InitialFiles <- MCInitialFiles
    Paths = {}
    Tasks = {}
    HassEnabled = FALSE
    MaxRx = 0
    MaxIncoming = 10
    MaxOutbox = 2
    MaxLaunches = 2
    MaxCuts = 1
    MaxUserCommands = 1
    MaxKeys = 1

SPECIFICATION DaemonSpec
\* With the bounds used up, the daemon stays off or waits.
CHECK_DEADLOCK FALSE

INVARIANTS
    DaemonTypeOK
    NobodyHome
    UndisturbedIsReachable

PROPERTIES
    StartSettles
    RefusalEndsTheDaemon
    ShutdownEnds
