SPECIFICATION Spec
CONSTANTS
    Session = {s1}
    MaxRestarts = 1
    FirstBackend = "curses"
    AdapterEnabled = TRUE
    SlowStart = TRUE
    MaxInbox = 2
INVARIANTS HandlerGoneBeforeRestart NoOrphans SupInv
PROPERTY NoLateSession
CHECK_DEADLOCK FALSE
