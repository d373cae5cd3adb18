SPECIFICATION Spec
CONSTANTS
    Uuids = {u1, u2, u3}
    Threads = {t1}
    Nobody = Nobody
    OwnerZone = "PARENT_SPACE"
    Retention = TRUE
    Crashes = TRUE
    MaxId = 4
    MaxRestarts = 1
INVARIANTS  PurgeAsserts
PROPERTY IdStable

