SPECIFICATION MCSpec
CONSTANTS
    CPUs = {a}
    Scanner = s
    Events = {"access", "hint", "move", "snapshot"}
    SeqMod = 8
    MaxLag = 3
    TimeMod = 4
    U8Max = 2
    U16Max = 1
    CandMax = 1
    NrGens = 2
    TagMax = 2
    MaxRuns = 2
    MaxCalls = 7
INVARIANTS
    TypeOK
    ContentionIsNoFault
    OncePerEpoch
    ClaimsAreCommitted
    SnapshotUntorn
PROPERTIES
    CommittedPredictionIsCurrent
