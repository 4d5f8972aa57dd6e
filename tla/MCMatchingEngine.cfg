CONSTANTS
    OrderId = {o1, o2, o3}
    NoOrder = none
    MaxPrice = 2
    Price = {1, 2}
    Units = {1, 2}
    Session = {s1, s2}
    NoSession = nobody
    MaxCommands = 4
SPECIFICATION Spec
SYMMETRY Symmetry
INVARIANTS
    OwnersCurrent
    PartiesTold
    TerminalEndsCommand
    AcknowledgesResting
