\* A read retried after it has given rows to its caller.
SPECIFICATION Spec
CONSTANTS
    Hooks = 0
    Silent = {}
    Attempts = 2
    RetryWrites = FALSE
    Comments = {FALSE}
    RowCount = 2
INVARIANTS RowsGivenOnce
