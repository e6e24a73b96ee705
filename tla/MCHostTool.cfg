SPECIFICATION Spec
CONSTANTS
    a = a
    b = b
    c = c
    d = d
    x = x
    y = y
    root_start = 2
    total_sectors = 9
    Cells = 2
    Names = {a, b, c, d}
    LongNames = {d}
    Files <- SomeFiles
    Trees <- PlainTrees
    AddNames = {a, b}
    MkdirPaths <- SomeDirs
INVARIANTS ImageIsAsReported SectorsAccounted
CHECK_DEADLOCK FALSE
