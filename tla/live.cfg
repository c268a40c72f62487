SPECIFICATION Spec
CONSTANTS
    LastId = 2
    ListIds = {1}
    MaxActive = 1
    Room = 1
    Breaks = 1
    Timers = 2
    Edits = 2
INVARIANTS
    TypeOK
    ServesWhatIsWanted
    ShownIsStored
PROPERTY WantedIsServed
CHECK_DEADLOCK FALSE
