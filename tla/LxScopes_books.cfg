CONSTANTS
    t1 = t1
    t2 = t2
    t3 = t3
    Scalar = Scalar
    Names = {"a", "b"}
    UseOnce = {"b"}
    Tiles = {t1, t2}
    Size <- MCSize
    Capacity = 2
    Stick = 2
    Dedup = TRUE
    Consume = TRUE
    MaxDepth = 3
    MaxPtr = 3
SPECIFICATION Spec
INVARIANTS
    TypeOK
    BooksMatchScopes
    LiveTilesFit
    OnlyLiteralsAreFree
    StagedRangesNest
PROPERTY OuterScopesAreKept
