SPECIFICATION Spec
CONSTANTS
    p1 = p1
    p2 = p2
    write = write
    command = command
    None = None
    Thread = {t1, t2}
    Plan = {p1, p2}
    StepsOf <- SameSteps
    Writes = {write}
    Budget <- TwoEach
    Permits <- TwoAndOne
    MaxAttempt = 2
CHECK_DEADLOCK FALSE
SYMMETRY Symmetry
INVARIANTS
    TypeOK
    EveryAttemptIsPaid
    DoneTookPlace
    LockIsHeldInside
PROPERTIES
    NoBlindRepeat
