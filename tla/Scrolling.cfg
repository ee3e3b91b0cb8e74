\* Windows, slices and pages of one or two rows while two rows change.
SPECIFICATION FairSpec
CONSTANTS
    Null = Null
    Ids = {1, 2, 3}
    Values <- Columns
    NullsLow = TRUE
    Kinds = {"window", "slice", "page"}
    Sizes = {1, 2}
    Sorts <- Orders
    MaxChanges = 2
INVARIANTS TypeOK WindowsDoNotRepeat WindowsMissNothing OffsetsMissOnlyAfterLoss OffsetsRepeatOnlyAfterGain
PROPERTY WalksEnd
\* A program stops at the end of its walk.
CHECK_DEADLOCK FALSE
