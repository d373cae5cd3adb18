\* Two identifiers, of which a restart may free one again, two arrays, two POSTs each.
SPECIFICATION FairSpec
CONSTANTS
    o1 = o1
    o2 = o2
    Batches <- MCBatches
    Filters <- MCFilters
    Attempts = 2
    MaxId = 2
    MaxPosts = 2
    MaxRestarts = 1
INVARIANTS NeverStale ArraysComplete
PROPERTIES PromiseKept FirstTriesInOrder  NothingStaysPending
CHECK_DEADLOCK FALSE
