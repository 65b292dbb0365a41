SPECIFICATION FairSpec
CONSTANTS
    u1 = u1
    u2 = u2
    c1 = c1
    c2 = c2
    User = {u1}
    Command = {c1}
    NoUser = NoUser
    NoCommand = NoCommand
    Catalogue <- Offers
    Frontends = {"gtk", "curses"}
    Timed = TRUE
    Frail = TRUE
    LongMessages = TRUE
    MaxSessions = 2
    MaxAttempts = 2
PROPERTIES Unlocks ForgottenExpires
