CONSTANTS
    c1 = c1
    c2 = c2
    c3 = c3
    haiku = haiku
    local = local
    NoModel = NoModel
    NoSystem = NoSystem
    Nothing = Nothing
    Calls = {c1, c2, c3}
    Models = {haiku, local}
    Anthropic = {haiku}
    Requests <- PlainAndLong
    Names <- TwoNames
    Prices <- PriceList
    Usages <- SomeUsages
    Chains <- SomeChains
    MaxSessions = 2
SPECIFICATION Spec
SYMMETRY Symmetry
INVARIANTS
    TypeOK
    EntryProvenance
    AnsweredAreRecorded
    OnlyTailTorn
    FailureIsTheProviders
    ConversationArrives
PROPERTIES
    ImplementsLadder
CHECK_DEADLOCK FALSE
