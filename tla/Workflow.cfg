SPECIFICATION WorkflowSpec
CONSTANTS
    Jobs = {j1, j2, j3}
    Nobody = Nobody
    MaxEdits = 2
INVARIANTS Agreeing NothingUndone OnlyGoodRuns
PROPERTY Ended
CHECK_DEADLOCK FALSE
