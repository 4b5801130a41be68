SPECIFICATION SupervisorSpec
CONSTANTS
    Startup = startup
    Device = {d1}
    None = None
    MaxGeneration = 2
    MaxCommand = 1
INVARIANT OneSidecar
INVARIANT NoSidecarAfterShutdown
INVARIANT CommandsReachTheirGeneration
INVARIANT CrashesAreRepaired
PROPERTY StartupIsRestored
CHECK_DEADLOCK FALSE
