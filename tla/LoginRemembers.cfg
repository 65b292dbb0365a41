SPECIFICATION Spec
CONSTANTS
    u1 = u1
    u2 = u2
    c1 = c1
    c2 = c2
    User = {u1}
    Command = {c1, c2}
    NoUser = NoUser
    NoCommand = NoCommand
    Catalogue <- Offers
    Frontends = {"gtk"}
    Timed = FALSE
    Frail = FALSE
    LongMessages = FALSE
    MaxSessions = 1
    MaxAttempts = 1
INVARIANT RemembersLast
