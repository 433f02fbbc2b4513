SPECIFICATION FairSpec
CONSTANTS
    MaxAttempts = 3
    MaxStarts = 4
    MaxFaults = 2
INVARIANT TypeOK
PROPERTIES
    AcceptedStaysAccepted
    ProbeEnds
    CookiePickedUp
CHECK_DEADLOCK FALSE
