CONSTANTS
    OrderId = {o1, o2}
    NoOrder = none
    MaxPrice = 1
    Price = {1}
    Units = {1, 2, 3}
    MaxCommands = 3
    UnitModulus = 4
SPECIFICATION Spec
INVARIANTS
    ValidateInvariants
