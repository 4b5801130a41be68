SPECIFICATION FairSupervisor
CONSTANTS
    Startup = startup
    Device = {}
    None = None
    MaxGeneration = 3
    MaxCommand = 0
INVARIANT RecoveryUnmutesRestored
PROPERTY CrashIsReplaced
CHECK_DEADLOCK FALSE
