SPECIFICATION Spec
CONSTANTS
    Client = {p1, p2}
    Resource = {r1, r2}
    None = None
    Lease = 2
    MaxTime = 3
    MaxToken = 2
SYMMETRY Symmetry
INVARIANTS
    TypeOK
    RunningIsCurrent
    WriterIsInEffect
PROPERTIES
    NoTheft
    EffectsStartLive
    RetiredStaysRetired
    FencedSpec
