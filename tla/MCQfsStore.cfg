SPECIFICATION SSpec
CONSTANTS
    a = a
    b = b
    x = x
    y = y
    root_start = 2
    total_sectors = 5
    Cells = 2
    Names = {a, b}
    Values = {x, y}
    MAX_OPEN_FILES = 2
    Counts = {2, 3}
    Paths <- RootFiles
    DirPaths = {}
    Calls <- FileCalls
    Habits = {}
SYMMETRY Alike
VIEW But_answer
INVARIANTS ChainsCoverSizes HandleAtPosition
PROPERTIES ImplementsFileStore
