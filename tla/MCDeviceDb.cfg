CONSTANTS
    None = None
    NoText = None
    Nothing = None
    OtherTag <- MCOtherTag
    Lower <- MCLower
    TopicPrefix <- MCTopicPrefix
    DiscoveryPrefix <- MCDiscoveryPrefix
    Hardware <- MCHardware
    Slugs <- MCSlugs
    Names <- MCNames
    Models <- MCModels
    Serials <- MCSerials
    Fingerprints <- MCFingerprints
    Tags <- MCTags
    PhysPaths <- MCPhysPaths
    Codes = {30}
    Identities <- MCIdentities
    Slugify <- MCSlugify
    Numbered <- MCNumbered
    MaxSuffix = 4
    MaxRecords = 3
    SaveMayFail = FALSE
    InitialFiles <- MCInitialFiles

SPECIFICATION DbSpec

INVARIANTS
    DbTypeOK
    FileIsCurrent
    EverySightingResolves
    SlugsAreUnique
    RecordsAreDistinguishable
    TopicsTellDevicesApart
    TopicsLeadBack
    CollectionsStayApart

PROPERTIES
    DeviceKeepsItsSlug
    KnowledgeOnlyGrows
