SPECIFICATION Spec
CONSTANTS
    Handler = {h1, h2}
    Scheduler = scheduler
    Schedule = {s1}
    Grant = {g1}
    Descriptor = {d1}
    None = None
    Sparse = {}
    Patches = {{}, {"on"}, {"off"}, {"on", "grant"}}
    Crashes = FALSE
    MaxRuns = 2
INVARIANTS
    NoOverlap
