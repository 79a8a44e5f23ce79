SPECIFICATION HistoriesSpec

CONSTANTS
    me = me
    other = other
    Me = me
    Users = {me, other}
    Start <- FirstRows
    Present = 3
    Lists <- ListNames
    PageSizes = {1, 2}
    Window <- TwoDays
    Moments = 2
    MaxRows = 1
    MaxChanges = 1
    MaxTime = 4

INVARIANTS
    UndisturbedWalkIsExact
    StayingIsSeen

CHECK_DEADLOCK FALSE
