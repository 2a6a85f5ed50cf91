\* Two consoles side by side in video memory, each with a window of two screens
\* of one line: either one scrolls by moving its origin and by copying back.
SPECIFICATION TtySpec
CONSTANTS
    Columns = 2
    Lines = 1
    video_mem_base = 3
    VideoCells = 8
    MAX_CONSOLES = 2
    RegRadix = 4
    Glyphs = {" ", "a"}
    Codes = {"a", "LF", "CR"}
    Blank = " "
    Junk = "junk"
    BiosScreen <- MCBios
    Channels = {1, 2, 3}
    TTY_BUF_SIZE = 4
    UserBuffers <- MCBuffers
    Messages <- MCMessages
INVARIANTS
    TtyTypeOK
    QueuesDrained
    WriteReport
    FifoOrder
    HardwareInSync
PROPERTIES
    StoresStayInWindow
    WriteProgress
    CallsReturn
