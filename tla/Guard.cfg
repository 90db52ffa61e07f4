SPECIFICATION Spec
CONSTANTS
    None = None
    Executor = {e1, e2}
    Market = {m1, m2, m3}
    Pending = {p1}
    Symbol = {"gold"}
    SymbolOf <- AllOnGold
    MaxAureonPositions = 1
    MaxOpenPositions = 3
    MaxManual = 1
SYMMETRY Symmetry
INVARIANTS
    OnlyRacesPyramid
PROPERTIES
    DisableBlocksTheNext
