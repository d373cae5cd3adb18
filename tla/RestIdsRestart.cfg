SPECIFICATION Spec
CONSTANTS
    Uuids = {u1, u2, u3}
    Threads = {t1}
    Nobody = Nobody
    OwnerZone = "none"
    Retention = FALSE
    Crashes = FALSE
    MaxId = 4
    MaxRestarts = 1
PROPERTY IdKept
