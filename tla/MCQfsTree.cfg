SPECIFICATION Spec
CONSTANTS
    a = a
    b = b
    c = c
    x = x
    root_start = 2
    total_sectors = 6
    Cells = 2
    Names = {a, b, c}
    Values = {x}
    MAX_OPEN_FILES = 1
    Counts = {3}
    Paths <- TreeFiles
    DirPaths <- TreeDirs
    Calls <- TreeCalls
    Habits = {}
VIEW But_answer
INVARIANTS ChainsDisjoint FreeIsCounted NoSectorLost NamesUnique
