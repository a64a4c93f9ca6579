CONSTANTS
    Senders = {s1, s2}
    First = s1
    Receivers = {r1, r2}
    Capacity = 2
    MaxSends = 3
    MayQuit = TRUE
SPECIFICATION FairSpec
INVARIANTS
    CloseIffNoSender
    NoLostWakeup
    FifoExactlyOnce
PROPERTIES
    PipeSpec
    AllDelivered
CHECK_DEADLOCK FALSE
