\* One editor: pages, clicks and edits that overlap.
SPECIFICATION Spec
CONSTANTS
    Condition <- MCCondition
    Kind <- MCKind
    Group <- MCGroup
    Labelled <- MCLabelled
    PageSize = 2
    MaxClicks = 3
    MaxFaults = 1
INVARIANTS
    ShownIsStaged
    SavedIsListed
    PagesOfCatalog
\* Every click may be spent.
CHECK_DEADLOCK FALSE
