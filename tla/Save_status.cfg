CONSTANTS
    Updates = {u1, u2}
    MaxVersion = 1
    MaxRequest = 3
    MaxComparison = 3
SPECIFICATION Spec
SYMMETRY Symmetry
INVARIANTS
    SavedIsSaved
    SavingIsReal
