CONSTANTS
    Orders = {o1, o2}
    Command <- Commands
    NoCommand = none
    Accepts <- BookAccepts
    QueueCapacity = 2
    MaxCommands = 4
SPECIFICATION FairSpec
INVARIANTS
    TypeOK
    LogIsHistory
    CleanExitComplete
    ReplayOfCleanRun
    ReplayIsPrefix
PROPERTIES
    ShutdownCompletes
