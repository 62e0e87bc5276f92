SPECIFICATION Spec
CONSTANTS
    p1 = p1
    p2 = p2
    write = write
    command = command
    None = None
    Thread = {t1, t2}
    Plan = {p1, p2}
    StepsOf <- WriteAndCommand
    Writes = {write}
    Budget <- TwoAndOne
    Permits <- TwoAndOne
    MaxAttempt = 3
CHECK_DEADLOCK FALSE
SYMMETRY Symmetry
PROPERTIES
    AttemptsAreAccountable
