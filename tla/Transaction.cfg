\* Three or four rows in chunks of two, each kind of outcome at each of them.
SPECIFICATION FairSpec
CONSTANTS
    Ids <- FourIds
    Columns = {"k", "w", "a", "b"}
    Values = {0, 1, 2}
    NoRow = NoRow
    BatchSize = 2
    MaxParams = 13
    Tables <- TwoTables
    NewRow <- Fresh
    WriteCalls <- Calls
    Functions <- Works
    Setups <- AllSetups
    TxSetups <- SafeSetups
INVARIANTS TypeOK NothingBeforeCommit NilMeansAll
PROPERTIES WholeOrPrefix CallsEnd
