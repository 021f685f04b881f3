SPECIFICATION Spec
CONSTANTS
    c1 = c1
    c2 = c2
    j1 = j1
    j2 = j2
    Checks = {c1, c2}
    Jobs = {j1, j2}
    MaxWizards = 2
SYMMETRY MCSymmetry
INVARIANTS SavedStays ErasedStaysGone OwnAnswers
PROPERTY Implements
