SPECIFICATION Spec
CONSTANTS
    Thread = {t1, t2}
    Challenge = {c1, c2}
    Permit = {p1, p2}
    Grant = {}
    UserRequest = {delegate, note}
    DelegateRequest = delegate
    StrongRequest = {delegate}
    None = None
    MaxRuns = 1
SYMMETRY Symmetry
INVARIANTS
    OneAnswerOnePermit
    StrongUseWasConfirmed
    PromptLockDiscipline
