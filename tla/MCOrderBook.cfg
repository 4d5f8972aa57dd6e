CONSTANTS
    OrderId = {o1, o2, o3}
    NoOrder = none
    MaxPrice = 2
    Price = {1, 2}
    Units = {1, 2}
    MaxCommands = 5
    UnitModulus = 16
SPECIFICATION Spec
SYMMETRY Symmetry
INVARIANTS
    TypeOK
    ValidateInvariants
    IndexAgrees
    Conservation
    DepthShowsBook
    DigestDeterminesBook
PROPERTIES
    ImplementsReference
