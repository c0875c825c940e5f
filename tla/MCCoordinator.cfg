CONSTANTS
    None = None
    OtherTag = "other"
    Slugs <- MCSlugs
    Names <- MCNames
    Models <- MCModels
    Serials <- MCSerials
    Fingerprints <- MCFingerprints
    Tags <- MCTags
    PhysPaths <- MCPhysPaths
    Codes = {30}
    Identities <- OneDevice
    Slugify <- MCSlugify
    Numbered <- MCNumbered
    MaxSuffix = 2
    MaxRecords = 2
    SaveMayFail = TRUE
    InitialFiles <- NoOrLegacyFile
    Paths = {p1, p2}
    Tasks = {t1, t2}
    HassEnabled = TRUE
    MaxRx = 2
    MaxIncoming = 1
    MaxOutbox = 3

SPECIFICATION Spec
SYMMETRY Symmetry

INVARIANTS
    TypeOK
    MonitorsFollowSwitches
    NoStrayMonitor
    DeadMonitorIsReported
    LastWordIsCurrent

PROPERTIES
    KeepsThePromise
