SPECIFICATION TtySpec
CONSTANTS
    Columns = 2
    Lines = 1
    video_mem_base = 3
    VideoCells = 5
    MAX_CONSOLES = 3
    RegRadix = 4
    Glyphs = {" ", "a"}
    Codes = {"a", "LF", "CR"}
    Blank = " "
    Junk = "junk"
    BiosScreen <- MCBios
    Channels = {1}
    TTY_BUF_SIZE = 4
    UserBuffers <- MCBuffers
    Messages <- MCMessages
INVARIANTS
    NLShownAsCRNL
