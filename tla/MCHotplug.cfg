CONSTANTS
    None = None
    OtherTag = "other"
    Slugs <- OneSlug
    Names <- MCNames
    Models <- MCModels
    Serials <- MCSerials
    Fingerprints <- MCFingerprints
    Tags <- MCTags
    PhysPaths <- MCPhysPaths
    Codes = {30}
    Identities <- WithLid
    KeyDevices <- OneDevice
    Slugify <- MCSlugify
    Numbered <- MCNumbered
    MaxSuffix = 1
    MaxRecords = 2
    SaveMayFail = FALSE
    InitialFiles <- OnOrOffFile
    Stories <- ArrivalPartingToggling
    Paths = {p1, p2}
    Tasks = {t1, t2}
    HassEnabled = FALSE
    MaxRx = 4
    MaxIncoming = 10
    MaxOutbox = 100
    MaxPlugs = 1

SPECIFICATION HotplugSpec
\* With the bounds used up, an idle daemon waits.
CHECK_DEADLOCK FALSE

INVARIANTS
    HotplugTypeOK
    NoDeviceIsMissed

PROPERTIES
    EnabledIsGrabbed
    OffIsReleased
    UnpluggedIsNoticed
