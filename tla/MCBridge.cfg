CONSTANTS
    None = None
    OtherTag = "other"
    Slugs <- MCSlugs
    Names <- MCNames
    Models <- MCModels
    Serials <- MCSerials
    Fingerprints <- MCFingerprints
    Tags <- MCTags
    PhysPaths <- MCPhysPaths
    Codes = {30}
    Identities <- OneDevice
    Slugify <- MCSlugify
    Numbered <- MCNumbered
    MaxSuffix = 1
    MaxRecords = 2
    SaveMayFail = TRUE
    InitialFiles <- NoFile
    Paths = {p1}
    Tasks = {t1}
    HassEnabled = TRUE
    MaxRx = 2
    MaxIncoming = 10
    MaxOutbox = 100
    Manners = {"any", "patient"}
    MaxCommands = 2
    MaxSightings = 2
    MaxDeaths = 1

SPECIFICATION BridgeSpec
\* Once the bounds on commands and sightings are used up an idle daemon waits
\* for messages that do not come.
CHECK_DEADLOCK FALSE

INVARIANTS
    BridgeTypeOK
    BrokerShowsTheRegistry
    RemovedIsGone
    LastCommandWins

PROPERTIES
    EchoUndoesNoCommand
    PatientEchoesDie
