SPECIFICATION Spec
CONSTANTS
    Scale = 8
    UMax = 127
    Settings <- MCParams
INVARIANTS
    ScalingExact
    ProposalBounded
    LikelierScannedLess
    PressureWeakensProtection
\* The walk ends at UMax.
CHECK_DEADLOCK FALSE
