SPECIFICATION Spec
CONSTANTS
    Anchors = {a1, a2}
    VariantIds = {}
    DecisionIds = {}
    VariantOf <- DecisionTopics
    SnapshotIds = {n1, n2}
    Slots = {s1, s2}
    OtherWitnesses = 1
    MaxVersion = 1
SYMMETRY Symmetry
INVARIANTS
    OnePublishedPerRound
