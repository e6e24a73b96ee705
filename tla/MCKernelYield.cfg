SPECIFICATION Spec
CONSTANTS
    LastPid = 2
    user_pool_size <- TwoImages
    MAX_PAGES_PER_PROCESS = 4
    MAX_PROCESSES = 32
    Values <- YieldExit
    FramebufferSizes = {}
    UserInterrupts = {128}
    CallsAlone = {}
    Batch = 2
PROPERTIES ResultGoesToCaller
