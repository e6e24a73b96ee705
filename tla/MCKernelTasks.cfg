SPECIFICATION FairSpec
CONSTANTS
    LastPid = 3
    user_pool_size <- ThreeImages
    MAX_PAGES_PER_PROCESS = 4
    MAX_PROCESSES = 32
    Values <- ExitOnly
    FramebufferSizes = {}
    UserInterrupts = {128}
    CallsAlone = {}
    Batch = 3
INVARIANTS TasksMatchProcesses SavedContexts NothingOutlives
PROPERTIES EveryProcessRuns ShellResumes
