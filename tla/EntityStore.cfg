\* Two goroutines and one row: rows meet only where a transaction ends.
SPECIFICATION Spec
CONSTANTS
    c1 = c1
    c2 = c2
    i1 = i1
    Clients = {c1, c2}
    Ids = {i1}
    MaxWrites = 4
    None = None
SYMMETRY Symmetric
INVARIANTS TypeOK NoLostUpdate ConflictMeansChange
