CONSTANTS
    None = None
    Slugs <- MCSlugs
    MaxOutbox = 2
    MaxCuts = 1
    MaxPublishes = 1
    CommandLines <- MCCommandLines

SPECIFICATION MainSpec
\* The tool ends.
CHECK_DEADLOCK FALSE

INVARIANTS
    MainTypeOK
    CommandsArriveInOrder

PROPERTIES
    ListingIsTrue
    ToolEnds
