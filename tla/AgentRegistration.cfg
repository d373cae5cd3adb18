SPECIFICATION Spec
CONSTANTS
    Agents = {a1, a2}
    Addresses = {x1}
    Profiles = {p1, p2}
    Keys = {1, 2, 3}
    Idle = Idle
    Threads = {t1, t2, t3}
    MaxStamp = 1
    MaxRestarts = 1
    MaxLost = 1
INVARIANTS OneAgentPerAddress
PROPERTIES NoNeedlessRegistration OrphansStoredLate EndsRegistered 
