SPECIFICATION Spec
CONSTANTS
    Sessions <- MCSessions
    Pages <- MCPages
    FlushInterval = 3
    Resolution = 2
    Tolerance = 2
    Window = 7
    Close = 3
    MaxEndpoints = 6
    Stopwords = {}
    Tokens <- MCTokens
    Identifiers <- MCIdentifiers
    KindOf <- MCKindOf
    ParameterAfter <- MCParameterAfter
    MinSiblings = 2
    MaxPaths = 2
    IdleGap = 5
    HomeSections = {"", "home"}
    SafeKeys = {"Enter"}
    RequestWindow = 3
    ComboWindow = 2
    MaxItems = 2
    MaxFields = 4
    MaxRows = 2
    PagingNames = {"next"}
    Generated = {}
    RouteWords <- MCRouteWords
    PlainNames = {"id"}
    CredentialNames = {"token"}
INVARIANTS
    
    EdgesEstablished
    
    PresenceHonest
    ActivitiesPartition
    MovesAccounted
    StepsReplay
    FinalIsLastTyped
    BlindSpotNeverHidden
    
CHECK_DEADLOCK FALSE
