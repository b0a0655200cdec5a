SPECIFICATION Spec
CONSTANTS
    Directories <- MCDirectories
    Values <- OneValue
CHECK_DEADLOCK FALSE
INVARIANTS
    ReferencesResolve
    SlotsFilled
    SoundFilesLoad
    OwnFieldsApart
    PointersExact
    NearestWins
    OneStatic
    ArgumentsPlaced
PROPERTY
    RequestsAnswered
