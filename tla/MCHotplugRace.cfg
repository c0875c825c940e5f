CONSTANTS
    None = None
    OtherTag = "other"
    Slugs <- MCSlugs
    Names <- MCNames
    Models <- MCModels
    Serials <- MCSerials
    Fingerprints <- MCFingerprints
    Tags <- MCTags
    PhysPaths <- MCPhysPaths
    Codes = {}
    Identities <- OneDevice
    KeyDevices <- OneDevice
    Slugify <- MCSlugify
    Numbered <- MCNumbered
    MaxSuffix = 2
    MaxRecords = 2
    SaveMayFail = FALSE
    InitialFiles <- OnFile
    Stories <- Replug
    Paths = {p1, p2}
    Tasks = {t1, t2}
    HassEnabled = FALSE
    MaxRx = 10
    MaxIncoming = 10
    MaxOutbox = 100
    MaxPlugs = 1

SPECIFICATION HotplugSpec
\* With the bounds used up, an idle daemon waits.
CHECK_DEADLOCK FALSE

PROPERTIES
    EnabledIsRead
