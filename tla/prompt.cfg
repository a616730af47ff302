SPECIFICATION FairSpec
CONSTANTS
    Orders = {o1, o2}
    Known = {o2}
    Blank = Blank
    None = None
    MaxClicks = 3
    MaxCopies = 2
INVARIANTS
    OutputIsTheLastClicks
PROPERTIES
    MarksEnd
CHECK_DEADLOCK FALSE
