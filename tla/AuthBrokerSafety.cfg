SPECIFICATION Spec
CONSTANTS
    Attempt = {a1, a2}
    User = {u1, u2}
    NoAttempt = NoAttempt
    NoUser = NoUser
    AuthTimeout = 6
    PowerEnabled = FALSE
    LongMessages = TRUE
    MaxInFlight = 2
SYMMETRY Symmetry
INVARIANTS
    SessionsAuthenticated
    NoStrayWorker
    TimerWatchesPending
    ResponsesInOrder
    AuthInv
PROPERTY GateSpec
