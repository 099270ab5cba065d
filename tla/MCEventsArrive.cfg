SPECIFICATION Spec
CONSTANTS
    o = o
    p = p
    None = None
    Ids <- MCIds
    Word = 4
    MaxResults = 1
PROPERTIES OrdersArrive
CHECK_DEADLOCK FALSE
