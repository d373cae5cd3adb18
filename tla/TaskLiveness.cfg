\* One task of an agent that may die; notifications are lost, clients ask and delete at any time.
SPECIFICATION FairSpec
CONSTANTS
    Tasks = {t1}
    None = None
    Threads = 1
    MayThrow = {"subtask", "response", "error"}
    Requests = {"delete", "monitor"}
PROPERTIES EndIsSeen NotifierCalled DeletedIsGone TransactionEnds EndIsFinal
CHECK_DEADLOCK FALSE
