CONSTANTS
    None = None
    OtherTag = "other"
    Slugs <- MCSlugs
    Names <- MCNames
    Models <- MCModels
    Serials <- MCSerials
    Fingerprints <- MCFingerprints
    Tags <- MCTags
    PhysPaths <- MCPhysPaths
    Codes = {}
    Identities <- OneDevice
    Slugify <- MCSlugify
    Numbered <- MCNumbered
    MaxSuffix = 1
    MaxRecords = 2
    SaveMayFail = FALSE
    InitialFiles <- NoFile
    Paths = {p1}
    Tasks = {t1, t2}
    HassEnabled = TRUE
    MaxRx = 2
    MaxIncoming = 10
    MaxOutbox = 100
    Manners = {"offline"}
    MaxCommands = 1
    MaxSightings = 1
    MaxDeaths = 1

SPECIFICATION BridgeSpec
SYMMETRY Symmetry
\* Once the bounds on commands and sightings are used up an idle daemon waits
\* for messages that do not come.
CHECK_DEADLOCK FALSE

INVARIANTS
    RemovalSurvivesDowntime
