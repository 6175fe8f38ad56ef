CONSTANTS
    c1 = c1
    c2 = c2
    c3 = c3
    h1 = h1
    h2 = h2
    l1 = l1
    l2 = l2
    l3 = l3
    Nil = Nil
    Layers = {l1, l2, l3}
    KeyPrefix <- LayerPrefix
    TTL <- LayerTTL
    Calls = {c1, c2, c3}
    Hashes = {h1, h2}
    CacheStatuses = {"miss"}
    MaxTime = 3
SPECIFICATION Spec
SYMMETRY CallSymmetry
INVARIANTS
    TypeOK
    HitProvenance
PROPERTIES
    FreshHit
    NoRedundantCall
    ImplementsCompletion
