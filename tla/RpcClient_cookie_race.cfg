SPECIFICATION Spec
CONSTANTS
    MaxAttempts = 3
    MaxStarts = 3
    MaxFaults = 2
INVARIANT CookieRaceSurvived
CHECK_DEADLOCK FALSE
