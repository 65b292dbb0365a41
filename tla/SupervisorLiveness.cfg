SPECIFICATION FairSpec
CONSTANTS
    Session = {s1}
    MaxRestarts = 2
    FirstBackend = "gtk"
    AdapterEnabled = FALSE
    SlowStart = FALSE
    MaxInbox = 1
INVARIANT CrashBudget
PROPERTIES ShutdownEnds GreeterReplaced
CHECK_DEADLOCK FALSE
