CONSTANTS
    c1 = c1
    c2 = c2
    c3 = c3
    r1 = r1
    r2 = r2
    Empty = Empty
    short = short
    long = long
    longer = longer
    Nil = Nil
    Plain = Plain
    Shared = Shared
    Length <- Lengths
    MinPrefix = 2
    Window = 1
    MinSavings = 0
    Calls = {c1, c2}
    Requests = {r1}
    Prompts = {Empty, short, long, longer}
    Stacks <- OnlyPromptCache
    Extractors <- NoExtractor
    Files <- Loaded
    Distillates <- Registrable
    CacheReads = {0, 7}
    MaxTime = 0
SPECIFICATION Spec
INVARIANTS
    MarkedIsLong
