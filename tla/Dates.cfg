\* Seventy-five years, day by day.
SPECIFICATION WalkSpec
CONSTANTS
    Start <- MCStart
    Anchors <- MCAnchors
    MaxDays = 27500
INVARIANTS
    EventsAnnounced
    OccursRegularly
\* The walk ends.
CHECK_DEADLOCK FALSE
