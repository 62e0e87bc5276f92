SPECIFICATION Spec
CONSTANTS
    Job = {j1}
    Fiber = {f1}
    None = None
    Downloads <- ChecksumAndBundle
    MaxCalls = 6
    MaxFaults = 1
CHECK_DEADLOCK FALSE
SYMMETRY Symmetry
INVARIANTS
    RolledBackIsRestored
