CONSTANTS
    c1 = c1
    c2 = c2
    c3 = c3
    haiku = haiku
    local = local
    NoModel = NoModel
    NoSystem = NoSystem
    Nothing = Nothing
    Calls = {c1}
    Models = {haiku}
    Anthropic = {haiku}
    Requests <- PlainOnly
    Names <- TwoNames
    Prices <- PriceList
    Usages <- SomeUsages
    Chains <- AnthropicCascade
    MaxSessions = 1
SPECIFICATION Spec
INVARIANT
    EscalationAsksAnother
CHECK_DEADLOCK FALSE
