SPECIFICATION Spec
CONSTANTS
    a = a
    b = b
    c = c
    x = x
    root_start = 2
    total_sectors = 6
    Cells = 2
    Names = {a, b, c}
    Values = {x}
    MAX_OPEN_FILES = 2
    Counts = {3}
    Paths <- CrashFiles
    DirPaths <- CrashDirs
    Calls <- CrashCalls
    Habits = {}
VIEW But_answer
INVARIANTS ChainsDisjoint BytesStored
