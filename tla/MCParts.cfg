SPECIFICATION MCSpec
CONSTANTS
    Bases = {16, 32}
    Addresses = {3, 4, 5, 6, 9}
    AccessFlags = {"read", "write"}
    NoPage = NoPage
    Undefined = Undefined
    Tables <- MCTables
    heap = 1
    HEAP_SIZE = 14
    SPLIT_THRESHOLD = 1
    Sizes = {1, 4}
    Values = {5}
INVARIANTS CachesCurrent
PROPERTIES ImplementsAllocator CallsEnd ImplementsTranslation TwoLevelImplementsTranslation BlockImplementsTransfers
