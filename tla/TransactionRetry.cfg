\* A policy that retries after a deadlock, on MySQL, inside a transaction.
SPECIFICATION Spec
CONSTANTS
    Ids <- FourIds
    Columns = {"k", "w", "a", "b"}
    Values = {0, 1, 2}
    NoRow = NoRow
    BatchSize = 2
    MaxParams = 13
    Tables <- TwoTables
    NewRow <- Fresh
    WriteCalls <- Calls
    Functions <- Works
    Setups <- AllSetups
    TxSetups <- DeadlockRetried
INVARIANTS NothingBeforeCommit
