SPECIFICATION MCSpec
CONSTANTS
    alice = alice
    network = network
    Service = Service
    Unusable = Unusable
    NoTarget = NoTarget
    NoRequest = NoRequest
    Users <- MCUsers
    Rejected <- MCRejected
    Spellings <- MCSpellings
    Names <- MCNames
    Lexical <- MCLexical
    Locations <- MCLocations
    Layouts <- MCLayouts
    Roots = {"root"}
    BuiltIn = {}
    Targets <- MCTargets
    Relative = {"relative"}
    Places <- MCPlaces
    Place <- MCPlace
    Requests <- MCReplacing
    MaxRequests = 1
    MaxOutside = 0
    MaxCrashes = 0
PROPERTIES
    OnlyTrueSymlinksRemoved
CHECK_DEADLOCK FALSE
