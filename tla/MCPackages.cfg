SPECIFICATION Spec
CONSTANTS
    N = 3
    MaxReorgs = 1
    MaxCorrupt = 1
INVARIANTS
    TypeOK
    ClosureExact
    ProjectionReady
    PackagesTrue
PROPERTY SearchEnds
CONSTRAINT Focus
