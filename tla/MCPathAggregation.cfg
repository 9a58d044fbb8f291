SPECIFICATION TreeSpec
CONSTANTS
    Names <- SomeNames
    SegmentsOf <- SomeSegments
    Root = "Robot"
    StatusLevels = {0, 2, 3}
    Absent = Absent
INVARIANTS IsTree GroupIsWorst LeafIsFaithful
