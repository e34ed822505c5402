SPECIFICATION Spec
CONSTANTS
    w0 = w0
    w1 = w1
    w2 = w2
    sp = sp
    nl = nl
    a = a
    b = b
    Base = w0
    Witnesses = {w1, w2}
    Sources <- SourcesOf
    EditorTexts <- OneWord
    MaxDecisions = 3
    Space = sp
    Newline = nl
    Wide = {b}
    NoPassage = NoPassage
CHECK_DEADLOCK FALSE
INVARIANTS
    TypeOK
    SegmentsKeepWords
    OffsetsExact
    AdoptedWitnessRebuilt
    EditsApplied
    DecisionAgrees
    MovementsFound
