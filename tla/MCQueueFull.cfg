CONSTANTS
    Capacity = 4
    IndexModulus = 8
    Item = {a}
SPECIFICATION SpecAll
INVARIANTS
    FullMeansFull
