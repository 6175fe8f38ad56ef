CONSTANTS
    p1 = p1
    p2 = p2
    c1 = c1
    c2 = c2
    c3 = c3
    t1 = t1
    t2 = t2
    h1 = h1
    h2 = h2
    Nil = Nil
    Pipelines = {p1, p2}
    Stacks <- SingleDedup
    Calls = {c1, c2, c3}
    Hashes = {h1}
    Closers = {t1, t2}
SPECIFICATION Spec
SYMMETRY Symmetry
INVARIANTS
    TypeOK
    OwnPipeline
    HandleLeadsHome
    EveryCallCounted
    SavingsAreReal
PROPERTIES
    ClosedIsFinal
    StatsAreCurrent
