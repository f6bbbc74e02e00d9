SPECIFICATION PartsSpec
CONSTANTS
    Proc = {1, 2, 3}
    InitProc = 1
    NPAGE = 12
    SPAN = 2
    MaxPages = 3
    Images = {1}
    Growths = {0, 3}
    NoObj = NoObj
    Reader = {1, 2}
    INPUT_BUF = 3
    WRAP = 6
    Sizes = {1, 2}
INVARIANTS
    PagesAccounted
    ImageComplete
    OpenFilesAccounted
    InputIsServed
PROPERTIES
    CommittedIsSafe
