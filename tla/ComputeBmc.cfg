SPECIFICATION BmcSpec
CONSTANTS
    Indicators = {m1, m2}
    Unread = Unread
    MaxChanges = 4
    MaxFaults = 2
INVARIANTS TreeMatchesState EventsFollowTree Monitored
PROPERTIES SettlesOnHardware 
