\* Two tasks on a pool of one thread; subtasks may fail, finished tasks may be deleted.
SPECIFICATION Spec
CONSTANTS
    Tasks = {t1, t2}
    None = None
    Threads = 1
    MayThrow = {"subtask"}
    Requests = {"delete"}
INVARIANTS AgentSurvives ResultMatchesState CopyNotAhead NotifiedOnce
SYMMETRY Symmetry
