SPECIFICATION FairSpec
CONSTANTS
    Base = 10
    MaxBody = 28
    Messages <- PeerMessages
    MaxSent = 2
INVARIANTS Undistorted Unambiguous StreamInv
PROPERTY ReadingEnds
CHECK_DEADLOCK FALSE
