CONSTANTS
    Capacity = 4
    IndexModulus = 8
    Item = {a, b}
SPECIFICATION FairSpec
INVARIANTS
    NoSlotRace
    CopiesConservative
    OccupancySound
PROPERTIES
    ImplementsFifo
    Served
