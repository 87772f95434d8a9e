CONSTANTS
    BufCount = 2
    MaxPage = 2
    Content <- Contents
    Zero = 0
    Files <- AFewFiles
    Faults = {"read", "write", "append", "size"}
    MaxPins = 2
SPECIFICATION Spec
INVARIANTS
    TypeOK
    PinnedFrameKept
    PutIsInFile
    PinSeesPut
CHECK_DEADLOCK FALSE
