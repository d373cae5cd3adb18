\* Two deletions on two threads, one volume more, one restart.
SPECIFICATION AgentFairSpec
CONSTANTS
    MaxJobs = 2
    ThreadIds = {a, b}
    x = x
    y = y
    Idents <- MCIdents
    Installations <- MCInstallations
    MaxVolumes = 2
    MaxRestarts = 1
INVARIANTS InOrderOnce NoneWaitsInVain GoneForGood
PROPERTIES DestroyedForCause DeletionsRun ShutdownEnds HiddenDestroyed
CHECK_DEADLOCK FALSE
