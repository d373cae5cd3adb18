SPECIFICATION Spec
CONSTANTS
    Agents = {a1}
    Addresses = {x1}
    Profiles = {p1}
    Keys = {1, 2}
    Idle = Idle
    Threads = {t1}
    MaxStamp = 1
    MaxRestarts = 1
    MaxLost = 0
PROPERTY RestartNoticed
