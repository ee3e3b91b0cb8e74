\* One row, whose update is rolled back and then made by another.
SPECIFICATION Spec
CONSTANTS
    c1 = c1
    c2 = c2
    i1 = i1
    Clients = {c1, c2}
    Ids = {i1}
    MaxWrites = 3
    None = None
SYMMETRY Symmetric
INVARIANTS ConflictIsReported
