SPECIFICATION Spec
CONSTANTS
    Tasks = {t1, t2}
    Ids <- MCIds
    KeyOf <- MCKeyOf
    Keys <- MCKeys
    Boards <- MCBoards
    Listed <- MCListed
    Faults = {"read", "insert", "delete", "stamp"}
    Diff <- MCDiff
    Removals <- MCRemovals
SYMMETRY Symmetry
INVARIANTS
    TypeOK
    NoLiveRowUnknown
    LoneUpdateInstallsBoard
    SerialReplayIsExact
