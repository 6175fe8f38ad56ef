CONSTANTS
    c1 = c1
    c2 = c2
    c3 = c3
    haiku = haiku
    local = local
    NoModel = NoModel
    NoSystem = NoSystem
    Nothing = Nothing
    Calls = {c1, c2}
    Models = {haiku}
    Anthropic = {haiku}
    Requests <- PlainOnly
    Names <- TwoNames
    Prices <- PriceList
    Usages <- SomeUsages
    Chains <- JustTheFile
    MaxSessions = 2
SPECIFICATION Spec
INVARIANT
    EntriesAreLines
CHECK_DEADLOCK FALSE
