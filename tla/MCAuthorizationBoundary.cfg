SPECIFICATION Spec
CONSTANTS
    Thread = {t1, t2}
    Challenge = {c1}
    Permit = {p1, p2, p3}
    Grant = {g1}
    UserRequest = {delegate, note}
    DelegateRequest = delegate
    StrongRequest = {delegate, g1}
    None = None
    MaxRuns = 2
SYMMETRY Symmetry
INVARIANTS
    TypeOK
    NoReplay
    GrantsComeFromHumans
    RunsBoundPermits
    NoChildUnderRevokedAuthority
    LeaseLockDiscipline
PROPERTIES
    AuthorityOnlyShrinks
