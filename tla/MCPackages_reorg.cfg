SPECIFICATION Spec
CONSTANTS
    N = 3
    MaxReorgs = 1
    MaxCorrupt = 0
INVARIANT NoStalePackages
