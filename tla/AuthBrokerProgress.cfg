SPECIFICATION FairSpec
CONSTANTS
    Attempt = {a1, a2}
    User = {u1}
    NoAttempt = NoAttempt
    NoUser = NoUser
    AuthTimeout = 1
    PowerEnabled = TRUE
    LongMessages = TRUE
    MaxInFlight = 1
PROPERTIES
    IdleConversationExpires
    HungWorkerReleased
    RequestsServed
