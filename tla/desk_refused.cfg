SPECIFICATION Spec
CONSTANTS
    Variants = {v1}
    Editors = {e1}
    Witnesses = {w1}
    ReadingIds = {r1}
    DecisionIds = {d1, d2}
    Slots = {s1, s2}
    LeaseTerms = {1}
    MaxLease = 1
    MaxClock = 0
    NoEditor = NoEditor
    Null = Null
SYMMETRY Symmetry
INVARIANTS
    RefusedNeverApproved
