SPECIFICATION FairSpec
CONSTANTS
    Users = {u1}
    Greeter = greeter
    MaxTty = 2
    GreeterTty = 1
    CloseFails = TRUE
    Signals = TRUE
    MaxFaults = 3
INVARIANTS LeavesNothing ProgramRunsInside ConsoleAccounted
PROPERTIES PostHookInTime EndsWithProgram
CHECK_DEADLOCK FALSE
