\* A program that caches two queries, and one that works in transactions with
\* a replica; liveness, so no symmetry.
SPECIFICATION FairSpec
CONSTANTS
    c1 = c1
    c2 = c2
    Clients = {c1, c2}
    Queries <- TwoCities
    Programs <- CachingAndTransactional
    MaxWrites = 2
    None = None
INVARIANTS TypeOK ClearIsABarrier SkippedOnlyIfOverlapping Coherent
PROPERTIES EventuallyFreshHits
