SPECIFICATION IntakeSpec
CONSTANTS
    t1 = t1
    t2 = t2
    t3 = t3
    WitnessIds = {w1, w2}
    NoWitness = NoWitness
    Sources <- SourceSet
    ImportIds = {i1, i2}
    Slots = {s1, s2}
    BatchSize = 2
    MaxTitles = 2
    MaxChapters = 2
SYMMETRY Symmetry
INVARIANTS
    TypeOK
    OneBase
    ChaptersContiguous
    ImportsArePrefixes
    ReadyMeansImported
