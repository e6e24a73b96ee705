SPECIFICATION MCSpec
CONSTANTS
    GENERIC_REGISTER_COUNT = 32
    WIDTH = 15
    PROGRAM_ADDR = 4
    MEMORY_SIZE = 1000
    MaxDepth = 8
    MAX_INSTANTIATION_DEPTH = 4
INVARIANTS
    Computes
    RecursionInvalid
    ConvertedFits
    InferredFits
PROPERTIES
    RegistersReturned
    Ends
CHECK_DEADLOCK FALSE
