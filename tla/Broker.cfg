SPECIFICATION BrokerSpec
CONSTANTS
    c1 = c1
    c2 = c2
    alice = alice
    bob = bob
    Service = Service
    Unusable = Unusable
    NoTarget = NoTarget
    NoRequest = NoRequest
    Waker = Waker
    Nobody = Nobody
    Clients <- MCClients
    Checkers = {}
    Users <- MCUsers
    Rejected = {}
    Spellings <- MCNames
    Names <- MCNames
    Lexical <- MCLexical
    Locations = {"entry"}
    Layouts <- MCLayouts
    Roots = {}
    BuiltIn = {}
    Targets = {"text"}
    Relative = {}
    Places = {"place"}
    Place <- MCPlace
    Requests <- MCRequests
    Beginnings <- MCBeginnings
    Restless = {c1}
    MaxRequests = 2
    MaxOutside = 0
    MaxCrashes = 1
INVARIANTS
    StopFinishesRequests
    ToldWhatWasDone
    NotConnectedNotTouched
    OneWinner
    BrokerInv
CHECK_DEADLOCK FALSE
