SPECIFICATION Spec
CONSTANTS
    MaxBytes = 3
    Sizes = {1, 2}
    Missing = Missing
    MaxLines = 8
    MaxCrashes = 2
INVARIANTS NoHole EnoughKept SizeIsBounded SpoiledIsBounded
CHECK_DEADLOCK FALSE
