CONSTANTS
    NoText = NoText
    Lower <- MCLower
    TopicPrefix <- MCTopicPrefix
    DiscoveryPrefix <- MCDiscoveryPrefix
    Codes = {30, 600}
    DebugName <- MCDebugName
    MaxOutbox = 3
    MaxEvents = 3

SPECIFICATION MonitorSpec
\* The monitor ends.
CHECK_DEADLOCK FALSE

INVARIANTS
    MonitorTypeOK
    KeystrokesAreConserved

PROPERTIES
    HeardIsAnnounced
