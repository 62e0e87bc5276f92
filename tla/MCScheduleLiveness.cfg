SPECIFICATION FairSpec
CONSTANTS
    Handler = {h1}
    Scheduler = scheduler
    Schedule = {s1, s2}
    Grant = {g1, g2}
    Descriptor = {daily, leapDay}
    None = None
    Sparse = {leapDay}
    Patches = {{"off"}}
    Crashes = FALSE
    MaxRuns = 1
PROPERTIES
    ReadyIsClaimed
