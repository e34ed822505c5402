SPECIFICATION Spec
CONSTANTS
    Anchors = {a1, a2}
    VariantIds = {1}
    DecisionIds = {1}
    VariantOf <- DecisionTopics
    SnapshotIds = {n1, n2}
    Slots = {s1}
    OtherWitnesses = 1
    MaxVersion = 3
SYMMETRY Symmetry
INVARIANTS
    NextRoundOpens
