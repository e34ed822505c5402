SPECIFICATION FairSpec
CONSTANTS
    Variants = {v1}
    Editors = {e1, e2, NoEditor}
    Witnesses = {w1}
    ReadingIds = {r1}
    DecisionIds = {d1}
    Slots = {s1, s2}
    LeaseTerms = {1}
    MaxLease = 2
    MaxClock = 1
    NoEditor = NoEditor
    Null = Null
INVARIANTS
    FencingToken
    HolderHasExpiry
PROPERTIES
    LeaseNotPreempted
    LeasesAtomic
    Answered
