SPECIFICATION Spec
CONSTANTS
    Attempt = {a1}
    User = {u1}
    NoAttempt = NoAttempt
    NoUser = NoUser
    AuthTimeout = 6
    PowerEnabled = FALSE
    LongMessages = FALSE
    MaxInFlight = 1
INVARIANT ReplyAnswered
