\* Two queries of one statement, with different arguments that are written alike.
SPECIFICATION Spec
CONSTANTS
    c1 = c1
    c2 = c2
    Clients = {c1, c2}
    Queries <- TwoStreets
    Programs <- OnlyAlike
    MaxWrites = 2
    None = None
INVARIANTS EntryAnswersQuery
