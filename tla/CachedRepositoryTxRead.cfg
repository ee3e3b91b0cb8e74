\* A read inside a transaction is served from the shared cache.
SPECIFICATION Spec
CONSTANTS
    c1 = c1
    c2 = c2
    Clients = {c1, c2}
    Queries <- TwoCities
    Programs <- OnlyTransactional
    MaxWrites = 2
    None = None
INVARIANTS TxReadsItsConnection
