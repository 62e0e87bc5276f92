SPECIFICATION Spec
CONSTANTS
    Handler = {h1, h2}
    Scheduler = scheduler
    Schedule = {s1}
    Grant = {g1, g2}
    Descriptor = {d1, d2}
    None = None
    Sparse = {}
    Patches = {{"on", "desc"}, {"off"}}
    Crashes = TRUE
    MaxRuns = 1
SYMMETRY Symmetry
INVARIANTS
    OnlyTheDelegatedRuns
    RunsAreSpentFirst
PROPERTIES
    GrantsOnlyShrink
    OrphansAreInert
