SPECIFICATION Spec
CONSTANTS
    Client = {c1, c2}
    Resource = {r1, r2}
    None = None
    Lease = 2
    MaxTime = 3
    MaxToken = 2
SYMMETRY Symmetry
INVARIANTS
    LockDiscipline
PROPERTIES
    NoTheft
    EffectsStartLive
    FencedSpec
