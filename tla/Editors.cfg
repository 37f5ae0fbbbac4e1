\* Two editors of one member over the shared catalog cache.
SPECIFICATION EditorSpec
CONSTANTS
    Editor = {e1, e2}
    Condition = {c1, c2}
    SaveClick = {s1, s2}
    NoEntry = NoEntry
    Nobody = Nobody
    NoEditor = NoEditor
    Garbage = Garbage
    TTL = 1
    Latency = 1
    MaxAttempts = 2
    MaxTime = 3
    MaxFaults = 1
SYMMETRY AllSymmetry
INVARIANTS
    SavedIsStored
PROPERTIES
    CatalogRecent
    NoHerd
    OnlyToggledChanges
\* Every click may be spent.
CHECK_DEADLOCK FALSE
