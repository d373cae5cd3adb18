\* One task that may end before its notifier is added.
SPECIFICATION FairSpec
CONSTANTS
    Tasks = {t1}
    None = None
    Threads = 1
    MayThrow = {"subtask"}
    Requests = {"delete"}
PROPERTIES EveryNotifierCalled
