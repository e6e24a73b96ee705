SPECIFICATION Spec
CONSTANTS
    LastPid = 1
    user_pool_size <- OneImage
    MAX_PAGES_PER_PROCESS = 4
    MAX_PROCESSES = 32
    Values <- ExitOnly
    FramebufferSizes = {}
    UserInterrupts = {128}
    CallsAlone = {}
    Batch = 1
PROPERTIES AdvancesPastWait
