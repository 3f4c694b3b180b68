SPECIFICATION MCSpec
CONSTANTS
    alice = alice
    network = network
    Service = Service
    Unusable = Unusable
    NoTarget = NoTarget
    NoRequest = NoRequest
    Users <- MCUsers
    Rejected <- MCRejected
    Spellings <- MCSpellings
    Names <- MCNames
    Lexical <- MCLexical
    Locations <- MCLocations
    Layouts <- MCLayouts
    Roots = {"root"}
    BuiltIn = {}
    Targets <- MCTargets
    Relative = {"relative"}
    Places <- MCPlaces
    Place <- MCPlace
    Requests <- MCRequests
    MaxRequests = 2
    MaxOutside = 2
    MaxCrashes = 1
INVARIANTS
    RequestInv
    LinkAsAsked
    PartialReplacementReported
    AnswersAreTrue
    AuditMatchesLinks
PROPERTIES
    AuthorisedMutation
    RemovalIsSafe
    ImplementsLinkService
CHECK_DEADLOCK FALSE
