\* Each operator, names with up to three parts, Cond trees of two levels.
SPECIFICATION Spec
CONSTANTS
    Null = Null
    Nil = Nil
    Characters <- Alphabet
    NoCond = NoCond
    NoTree = NoTree
    NilPointer = NilPointer
    ScanError = ScanError
    WordBytes = 2
    Lower <- Continuing
    Number <- Numbers
    ColumnOf <- Properties
    Rows <- TableRows
    MaxRows = 1
    Methods <- Calls
    Fields <- IntFields
    Pk <- PrimaryKey
    Ids = {1, 2}
    SimpleConds <- SimpleOnes
    MaxDepth = 4
    Conds <- Trees
    Filters <- Contexts
    Keysets <- Boundaries
INVARIANTS TypeOK TakenAgainOnlyByOr NamesAreReadAsSpelled ReadsBack
PROPERTIES TakesWhatIsAsked OrMissesNothing
