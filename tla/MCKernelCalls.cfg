SPECIFICATION Spec
CONSTANTS
    LastPid = 2
    user_pool_size <- TwoImages
    MAX_PAGES_PER_PROCESS = 5
    MAX_PROCESSES = 32
    Values <- AllCalls
    FramebufferSizes = {53000}
    UserInterrupts = {0, 2, 128, 129}
    CallsAlone = {8}
    Batch = 2
INVARIANTS TypeOK FramesDisjoint ScreenIsOwners KernelSurvives RunsOwnContext
PROPERTIES ImplementsTimeSharing
