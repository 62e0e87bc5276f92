SPECIFICATION Spec
CONSTANTS
    Caller = {c1, c2}
    Target = {t1, t2}
    Permit = {p1, p2}
    Content = {d1, d2}
    None = None
    Lease = 1
    MaxTime = 2
CHECK_DEADLOCK FALSE
SYMMETRY Symmetry
INVARIANTS
    EffectsArePaid
    LeaseComesBack
    InstallsSeeWhatWasApproved
PROPERTIES
    InstallsAreFenced
