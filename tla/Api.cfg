CONSTANTS
    Runs = {r1, r2, r3}
    CacheLimit = 2
    MaxRestarts = 2
    None = None
SPECIFICATION Spec
CHECK_DEADLOCK FALSE
INVARIANTS
    LiveRunIsCached
    RowsAgreeWithClients
PROPERTIES
    TerminalRowIsFinal
    SubmissionBoundsCache
    SubmittedRunEnds
