SPECIFICATION Spec
CONSTANTS
    Job = {j1}
    Fiber = {f1, f2}
    None = None
    Downloads <- ChecksumAndBundle
    MaxCalls = 5
    MaxFaults = 1
CHECK_DEADLOCK FALSE
SYMMETRY Symmetry
INVARIANTS
    NoOrphanedJob
    LifecycleComesBack
    QuietMeansPersisted
PROPERTIES
    InstalledWasVerified
