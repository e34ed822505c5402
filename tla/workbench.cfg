SPECIFICATION Spec
CONSTANTS
    a = a
    b = b
    WitnessIds = {w1, w2}
    NoWitness = NoWitness
    Sources <- SourceSet
    ImportIds = {i1, i2}
    Slots = {s1, s2}
    BatchSize = 1
    MaxTitles = 0
    MaxChapters = 0
    AnchorIds = {n1, n2}
    Anchorable = {1}
    MaxVariants = 2
    NoPassage = NoPassage
    Space = Space
    Newline = Newline
    Wide = {}
SYMMETRY Symmetry
INVARIANTS
    WorkbenchTypeOK
    OneCandidatePerPassage
    ReadingRebuilds
    LociWitnessed
PROPERTIES
    ConfirmedForGood
