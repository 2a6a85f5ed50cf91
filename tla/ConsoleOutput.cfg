\* One console whose window holds one line more than its screen: scrolls
\* alternate between moving the origin and copying the screen back.
SPECIFICATION ConSpec
CONSTANTS
    Columns = 2
    Lines = 2
    video_mem_base = 3
    VideoCells = 6
    MAX_CONSOLES = 8
    RegRadix = 3
    Glyphs = {" ", "a"}
    Codes = {"a", "LF", "VT", "CR", "CTL"}
    Blank = " "
    Junk = "junk"
    BiosScreen <- MCBios
INVARIANTS
    TypeOK
    CursorMatchesPosition
    ScreenInWindow
PROPERTIES
    ImplementsScreen
    CodesAsTerminal
